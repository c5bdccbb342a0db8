------------------------ MODULE PieceDeliveryProofs ------------------------
(* For any number of readers and calls: the hub's registered sender was    *)
(* not answered yet, and no reader of the piece sleeps with nothing to wake *)
(* it.                                                                     *)
EXTENDS PieceDelivery, TLAPS


\* remove + send: the answered sender is registered no more (dispatch, answer).
LEMMA AnswerUnregisters ==
  ASSUME TypeOK, NEW what \in {"data", "error"}, Answer(what)
  PROVE  /\ broker' \in {0} \cup {id \in Senders : sent'[id] = "open"}
         /\ sent' \in [Senders -> {"unused", "open", "data", "error"}]
BY DEF TypeOK, Answer, Senders

\* A read_piece call keeps the types.
LEMMA CallTyped ==
  ASSUME TypeOK, NEW r \in Readers,
         Subscribe(r) \/ Submit(r) \/ SubmitFails(r) \/ Receive(r) \/ TimesOut(r)
  PROVE  TypeOK'
<1>1. CASE Subscribe(r)
  <2>1. CASE broker # 0
    BY <1>1, <2>1 DEF Subscribe, TypeOK, CallPCs
  <2>2. CASE broker = 0
    <3>1. PICK id \in Senders :
            /\ broker' = id
            /\ sent' = [sent EXCEPT ![id] = "open"]
            /\ call' = [call EXCEPT ![r] = [pc |-> "submitting", on |-> id]]
      BY <1>1, <2>2 DEF Subscribe
    <3> QED BY <1>1, <3>1 DEF Subscribe, TypeOK, CallPCs
  <2> QED BY <2>1, <2>2
<1>2. CASE Submit(r)
  BY <1>2 DEF Submit, TypeOK, CallPCs
<1>3. CASE SubmitFails(r)
  BY <1>3, AnswerUnregisters DEF SubmitFails, TypeOK, CallPCs
<1>4. CASE Receive(r)
  BY <1>4 DEF Receive, Fails, TypeOK, CallPCs
<1>5. CASE TimesOut(r)
  <2>1. broker' \in {broker, 0}
    BY <1>5 DEF TimesOut, Forget
  <2> QED BY <1>5, <2>1 DEF TimesOut, Fails, TypeOK, CallPCs
<1> QED BY <1>1, <1>2, <1>3, <1>4, <1>5

\* A poll of the reader and what wakes it keep the types.
LEMMA PollTyped ==
  ASSUME TypeOK, NEW r \in Readers,
         \/ PollServesAlert(r) \/ PollMissing(r) \/ WaitForPiece(r) \/ PollVerified(r)
         \/ TimerFires(r) \/ BackoffEnds(r) \/ Close(r)
  PROVE  TypeOK'
<1> NoCall \in [pc : CallPCs, on : Senders \cup {0}]
  BY DEF NoCall, CallPCs
<1>1. ASSUME Broker(r)
      PROVE  /\ call' \in [Readers -> [pc : CallPCs, on : Senders \cup {0}]]
             /\ backoff' \subseteq Readers
  <2>1. \A pc \in CallPCs : [call EXCEPT ![r].pc = pc]
                              \in [Readers -> [pc : CallPCs, on : Senders \cup {0}]]
    BY DEF TypeOK
  <2>2. [call EXCEPT ![r] = NoCall] \in [Readers -> [pc : CallPCs, on : Senders \cup {0}]]
    BY DEF TypeOK
  <2>3. CASE call' = [call EXCEPT ![r].pc = "spawned"] /\ UNCHANGED backoff
    BY <2>1, <2>3 DEF TypeOK, CallPCs
  <2>4. CASE call' = [call EXCEPT ![r] = NoCall] /\ backoff' = backoff \cup {r}
    BY <2>2, <2>4 DEF TypeOK
  <2>5. CASE UNCHANGED <<call, backoff>>
    BY <2>5 DEF TypeOK
  <2> QED BY <1>1, <2>3, <2>4, <2>5 DEF Broker
<1>2. CASE PollServesAlert(r)
  BY <1>2 DEF PollServesAlert, Starts, Served, TypeOK
<1>3. CASE PollMissing(r)
  BY <1>1, <1>3 DEF PollMissing, Starts, TypeOK
<1>4. CASE WaitForPiece(r)
  BY <1>4 DEF WaitForPiece, Sleep, TypeOK
<1>5. CASE PollVerified(r)
  <2>1. CASE stored
    <3>1. /\ UNCHANGED <<have, stored, asked, alerts, broker, sent>> /\ Served(r)
          /\ woken' = woken \ {r}
      BY <1>5, <2>1 DEF PollVerified, Starts
    <3> QED BY <3>1 DEF Served, TypeOK
  <2>2. CASE ~stored
    BY <1>1, <1>5, <2>2 DEF PollVerified, Starts, TypeOK
  <2> QED BY <2>1, <2>2
<1>6. CASE TimerFires(r)
  BY <1>6 DEF TimerFires, TypeOK
<1>7. CASE BackoffEnds(r)
  BY <1>7 DEF BackoffEnds, TypeOK
<1>8. CASE Close(r)
  BY <1>8 DEF Close, TypeOK
<1> QED BY <1>2, <1>3, <1>4, <1>5, <1>6, <1>7, <1>8

\* The pump and libtorrent keep the types.
LEMMA PumpTyped ==
  ASSUME TypeOK,
         Pump \/ PieceFinishes \/ PieceIsRead \/ DeadlineReplaced \/ PieceIsStored
  PROVE  TypeOK'
<1> DEFINE Alert == {"data", "error", "finished"}
<1>0. alerts # <<>> => Tail(alerts) \in Seq(Alert)
  BY DEF TypeOK
<1>1. \A a \in Alert : Append(alerts, a) \in Seq(Alert)
  BY DEF TypeOK
<1>2. CASE Pump
  <2>1. /\ alerts' \in Seq(Alert)
        /\ UNCHANGED <<have, stored, asked, call, backoff, timer, reader>>
    BY <1>0, <1>2 DEF Pump
  <2>2. /\ broker' \in {0} \cup {id \in Senders : sent'[id] = "open"}
        /\ sent' \in [Senders -> {"unused", "open", "data", "error"}]
    <3>1. CASE \E what \in {"data", "error"} : Answer(what)
      BY <3>1, AnswerUnregisters
    <3>2. CASE UNCHANGED <<broker, sent>>
      BY <3>2 DEF TypeOK
    <3> QED BY <1>2, <3>1, <3>2 DEF Pump
  <2>3. waiters' \subseteq Readers /\ woken' \subseteq Readers
    BY <1>2 DEF Pump, TypeOK
  <2> QED BY <2>1, <2>2, <2>3 DEF TypeOK
<1>3. CASE PieceFinishes
  BY <1>1, <1>3 DEF PieceFinishes, TypeOK
<1>4. CASE PieceIsRead
  BY <1>1, <1>4 DEF PieceIsRead, TypeOK
<1>5. CASE DeadlineReplaced
  BY <1>1, <1>5 DEF DeadlineReplaced, TypeOK
<1>6. CASE PieceIsStored
  BY <1>6 DEF PieceIsStored, TypeOK
<1> QED BY <1>2, <1>3, <1>4, <1>5, <1>6

\* For any readers and any number of calls: the piece_senders entry is a sender that
\* was not answered, so a call that joins it (read_piece) can still be answered.
THEOREM JoinedSendersAreOpen == Spec => []TypeOK
<1>1. Init => TypeOK
  <2>1. NoCall \in [pc : CallPCs, on : Senders \cup {0}]
    BY DEF NoCall, CallPCs
  <2>2. <<>> \in Seq({"data", "error", "finished"})
    OBVIOUS
  <2> SUFFICES ASSUME Init PROVE TypeOK
    OBVIOUS
  <2>3. /\ call \in [Readers -> [pc : CallPCs, on : Senders \cup {0}]]
        /\ sent \in [Senders -> {"unused", "open", "data", "error"}]
        /\ reader \in [Readers -> {"idle", "missing", "served", "closed"}]
    BY <2>1 DEF Init
  <2>4. alerts \in Seq({"data", "error", "finished"})
    BY <2>2 DEF Init
  <2> QED BY <2>3, <2>4 DEF Init, TypeOK
<1>2. TypeOK /\ [Next]_vars => TypeOK'
  <2> SUFFICES ASSUME TypeOK, [Next]_vars PROVE TypeOK'
    OBVIOUS
  <2>1. CASE UNCHANGED vars
    BY <2>1 DEF vars, TypeOK
  <2>2. CASE Next
    BY <2>2, CallTyped, PollTyped, PumpTyped DEF Next
  <2> QED BY <2>1, <2>2
<1> QED BY <1>1, <1>2, PTL DEF Spec
\* The part of AnswersAreHeard that is about the readers.
Wakeful ==
  \A r \in Readers :
    /\ call[r].pc \in {"data", "failed"} => r \in woken
    /\ reader[r] = "idle" => r \in woken \cup timer

\* A call ends by waking the reader that spawned it.
LEMMA CallWakes ==
  ASSUME TypeOK, Wakeful, NEW r \in Readers,
         Subscribe(r) \/ Submit(r) \/ SubmitFails(r) \/ Receive(r) \/ TimesOut(r)
  PROVE  Wakeful'
<1>1. UNCHANGED <<timer, reader>>
  BY DEF Subscribe, Submit, SubmitFails, Receive, TimesOut
<1>2. CASE UNCHANGED woken /\ call'[r].pc \in {"submitting", "waiting"}
           /\ \A q \in Readers \ {r} : call'[q] = call[q]
  BY <1>1, <1>2 DEF Wakeful
<1>3. CASE woken' = woken \cup {r} /\ \A q \in Readers \ {r} : call'[q] = call[q]
  BY <1>1, <1>3 DEF Wakeful
<1>4. CASE Subscribe(r)
  <2>1. PICK pc \in {"submitting", "waiting"}, id \in Senders \cup {0} :
          call' = [call EXCEPT ![r] = [pc |-> pc, on |-> id]]
    BY <1>4 DEF Subscribe, TypeOK
  <2> QED BY <1>2, <1>4, <2>1 DEF Subscribe, TypeOK
<1>5. CASE Submit(r) \/ SubmitFails(r)
  BY <1>2, <1>5 DEF Submit, SubmitFails, TypeOK
<1>6. CASE Receive(r) \/ TimesOut(r)
  BY <1>3, <1>6 DEF Receive, TimesOut, Fails, TypeOK
<1> QED BY <1>4, <1>5, <1>6

\* A poll takes the outcome of its call, and arms the timer before it sleeps.
LEMMA PollWakes ==
  ASSUME TypeOK, Wakeful, NEW r \in Readers,
         \/ PollServesAlert(r) \/ PollMissing(r) \/ WaitForPiece(r) \/ PollVerified(r)
         \/ TimerFires(r) \/ BackoffEnds(r) \/ Close(r)
  PROVE  Wakeful'
<1>1. ASSUME Broker(r), call[r].pc # "data"
      PROVE  /\ call'[r].pc \notin {"data", "failed"}
             /\ \A q \in Readers \ {r} : call'[q] = call[q]
  BY <1>1 DEF Broker, NoCall, TypeOK
<1>2. ASSUME Served(r), woken' = woken \ {r} PROVE Wakeful'
  BY <1>2 DEF Served, NoCall, TypeOK, Wakeful
<1>3. CASE PollServesAlert(r)
  BY <1>2, <1>3 DEF PollServesAlert, Starts
<1>4. CASE PollMissing(r)
  BY <1>1, <1>4 DEF PollMissing, Starts, TypeOK, Wakeful
<1>5. CASE WaitForPiece(r)
  BY <1>5 DEF WaitForPiece, Sleep, TypeOK, Wakeful
<1>6. CASE PollVerified(r)
  <2>1. CASE stored
    BY <1>2, <1>6, <2>1 DEF PollVerified, Starts
  <2>2. CASE ~stored
    BY <1>1, <1>6, <2>2 DEF PollVerified, Starts, TypeOK, Wakeful
  <2> QED BY <2>1, <2>2
<1>7. CASE TimerFires(r)
  BY <1>7 DEF TimerFires, Wakeful
<1>8. CASE BackoffEnds(r)
  BY <1>8 DEF BackoffEnds, Wakeful
<1>9. CASE Close(r)
  BY <1>9 DEF Close, NoCall, TypeOK, Wakeful
<1> QED BY <1>3, <1>4, <1>5, <1>6, <1>7, <1>8, <1>9

\* alerts.rs, disk_stream.rs: for any readers and any number of calls, whatever alerts are
\* lost, come late or answer somebody else, a call joins no answered sender, its end is
\* not slept on, and a reader that is not polled has a wake-up coming.
THEOREM NoReaderIsForgotten == Spec => []AnswersAreHeard
<1>1. Init => Wakeful
  BY DEF Init, Wakeful, NoCall
<1>2. TypeOK /\ Wakeful /\ [Next]_vars => Wakeful'
  <2> SUFFICES ASSUME TypeOK, Wakeful, [Next]_vars PROVE Wakeful'
    OBVIOUS
  <2>1. CASE UNCHANGED vars
    BY <2>1 DEF vars, Wakeful
  <2>2. CASE Pump \/ PieceFinishes \/ PieceIsRead \/ DeadlineReplaced \/ PieceIsStored
    <3>1. UNCHANGED <<call, timer, reader>> /\ woken \subseteq woken'
      BY <2>2 DEF Pump, PieceFinishes, PieceIsRead, DeadlineReplaced, PieceIsStored
    <3> QED BY <3>1 DEF Wakeful
  <2> QED BY <2>1, <2>2, CallWakes, PollWakes DEF Next
<1>3. TypeOK /\ Wakeful => AnswersAreHeard
  BY DEF TypeOK, Wakeful, AnswersAreHeard
<1> QED BY <1>1, <1>2, <1>3, JoinedSendersAreOpen, PTL DEF Spec
=============================================================================
