--------------------------- MODULE PieceDelivery ---------------------------
(***************************************************************************)
(* How the bytes of one piece reach the readers blocked on it: the poll    *)
(* loop of the disk-backed reader, its coalesced read_piece calls through  *)
(* the alert hub, and the alert pump that answers them and wakes the       *)
(* registered wakers.                                                      *)
(*                                                                         *)
(* The hub coalesces: the first call for a piece submits one native        *)
(* request, later ones subscribe to its sender.  Every call times out      *)
(* after two seconds; a failed one is retried after a pause of 250 ms.     *)
(***************************************************************************)
EXTENDS Naturals, Sequences, FiniteSets

CONSTANTS
  Readers,
  MayClose,  \* readers that may seek away or be dropped while they wait
  MaxCalls   \* bound on senders made by the hub

ASSUME DeliveryAssumption == MayClose \subseteq Readers /\ MaxCalls \in Nat

VARIABLES
  have, stored, \* verified by libtorrent, readable from its file
  asked,        \* libtorrent's request to post a read_piece alert
  alerts,       \* alerts posted and not yet popped
  broker,       \* piece_senders: the sender of the piece, 0 if there is none
  sent,         \* what was broadcast on each sender
  call,         \* each reader's read_piece task and the sender it listens to
  backoff,      \* readers whose piece_read_retry_at lies ahead
  waiters,      \* PieceWaiterRegistry: the readers registered for the piece
  timer,        \* readers with an armed retry_sleep
  woken,        \* readers whose task was woken
  reader        \* idle: not in a poll; missing: in a poll, saw no piece

native == <<have, stored, asked>>
vars == <<have, stored, asked, alerts, broker, sent, call, backoff, waiters, timer,
          woken, reader>>

Senders == 1..MaxCalls
NoCall  == [pc |-> "none", on |-> 0]
CallPCs == {"none", "spawned", "submitting", "waiting", "data", "failed"}

Listens(r, id) == call[r].on = id /\ call[r].pc \in {"submitting", "waiting"}
Listeners(id) == {r \in Readers : Listens(r, id)}
Used(id) == sent[id] # "unused"

\* Its sender was dropped unanswered.
Orphaned(r) == sent[call[r].on] = "open" /\ call[r].on # broker

Init ==
  /\ have \in BOOLEAN /\ stored = FALSE
  /\ asked = "nothing" /\ alerts = <<>>
  /\ broker = 0 /\ sent = [id \in Senders |-> "unused"]
  /\ call = [r \in Readers |-> NoCall]
  /\ backoff = {} /\ waiters = {} /\ timer = {}
  /\ woken = Readers
  /\ reader = [r \in Readers |-> "idle"]

-----------------------------------------------------------------------------
(* A read_piece call, spawned as a task of its own.                        *)

Fails(r) == /\ call' = [call EXCEPT ![r] = [pc |-> "failed", on |-> 0]]
            /\ woken' = woken \cup {r}

\* The senders' lock: join the sender of the piece or make one.
Subscribe(r) ==
  /\ call[r].pc = "spawned"
  /\ IF broker # 0
     THEN /\ call' = [call EXCEPT ![r] = [pc |-> "waiting", on |-> broker]]
          /\ UNCHANGED <<broker, sent>>
     ELSE \E id \in Senders :
            /\ ~Used(id) /\ \A j \in 1..(id - 1) : Used(j)
            /\ broker' = id
            /\ sent' = [sent EXCEPT ![id] = "open"]
            /\ call' = [call EXCEPT ![r] = [pc |-> "submitting", on |-> id]]
  /\ UNCHANGED <<have, stored, asked, alerts, backoff, waiters, timer, woken, reader>>

\* Outside the lock.  A verified piece is read; that may fail at once.
Submit(r) ==
  /\ call[r].pc = "submitting"
  /\ asked' = IF have THEN "read" ELSE "deadline"
  /\ call' = [call EXCEPT ![r].pc = "waiting"]
  /\ UNCHANGED <<have, stored, alerts, broker, sent, backoff, waiters, timer, woken, reader>>

\* Fault: the answered sender stays registered.
AnswerKeeping(what) ==
  /\ sent' = IF broker = 0 THEN sent ELSE [sent EXCEPT ![broker] = what]
  /\ UNCHANGED broker

\* remove + send, on whichever sender is registered now
Answer(what) ==
  /\ broker' = 0
  /\ sent' = IF broker = 0 THEN sent ELSE [sent EXCEPT ![broker] = what]

SubmitFails(r) ==
  /\ call[r].pc = "submitting" /\ have
  /\ Answer("error")
  /\ call' = [call EXCEPT ![r].pc = "waiting"]
  /\ UNCHANGED <<have, stored, asked, alerts, backoff, waiters, timer, woken, reader>>

Receive(r) ==
  /\ call[r].pc = "waiting"
  /\ \/ /\ sent[call[r].on] = "data"
        /\ call' = [call EXCEPT ![r] = [pc |-> "data", on |-> 0]]
        /\ woken' = woken \cup {r}
     \/ sent[call[r].on] = "error" /\ Fails(r)
     \/ Orphaned(r) /\ Fails(r)
  /\ UNCHANGED <<have, stored, asked, alerts, broker, sent, backoff, waiters, timer, reader>>

\* The sender registered now goes if it has at most one listener, whoever that
\* is: the answer may have come since this call timed out, and with it another
\* reader's new call.
Forget(r) == broker' = IF Cardinality(Listeners(broker)) <= 1 THEN 0 ELSE broker

TimesOut(r) ==
  /\ call[r].pc = "waiting"
  /\ Forget(r)
  /\ Fails(r)
  /\ UNCHANGED <<have, stored, asked, alerts, sent, backoff, waiters, timer, reader>>

-----------------------------------------------------------------------------
(* poll_read.                                                              *)

MaySpawn(r) == call[r].pc = "none" /\ r \notin backoff

\* request_piece_from_libtorrent, then poll_piece_broker: a finished task is
\* taken, a failed one delays the next.
Broker(r) ==
  \/ MaySpawn(r)
     /\ call' = [call EXCEPT ![r].pc = "spawned"] /\ UNCHANGED backoff
  \/ call[r].pc = "failed"
     /\ call' = [call EXCEPT ![r] = NoCall] /\ backoff' = backoff \cup {r}
  \/ ~MaySpawn(r) /\ call[r].pc # "failed" /\ UNCHANGED <<call, backoff>>

Starts(r) == reader[r] = "idle" /\ r \in woken /\ woken' = woken \ {r}

\* A reader that was served is looked at no more.
Served(r) ==
  /\ reader' = [reader EXCEPT ![r] = "served"]
  /\ call' = [call EXCEPT ![r] = NoCall]
  /\ backoff' = backoff \ {r} /\ waiters' = waiters \ {r} /\ timer' = timer \ {r}

\* serve_broker_piece
PollServesAlert(r) ==
  /\ Starts(r)
  /\ call[r].pc = "data"
  /\ Served(r)
  /\ UNCHANGED <<have, stored, asked, alerts, broker, sent>>

PollMissing(r) ==
  /\ Starts(r)
  /\ ~have /\ call[r].pc # "data"
  /\ Broker(r)
  /\ reader' = [reader EXCEPT ![r] = "missing"]
  /\ UNCHANGED <<have, stored, asked, alerts, broker, sent, waiters, timer>>

\* Fault: nothing but the notification wakes the reader again.
SleepUntimed(r) == timer' = timer

\* schedule_retry
Sleep(r) == timer' = timer \cup {r}

\* wait_for_piece: the piece may have finished since poll_read asked for it.
WaitForPiece(r) ==
  /\ reader[r] = "missing"
  /\ reader' = [reader EXCEPT ![r] = "idle"]
  /\ waiters' = waiters \cup {r}
  /\ Sleep(r)
  /\ UNCHANGED <<have, stored, asked, alerts, broker, sent, call, backoff, woken>>

\* The file may not be there yet, or still read as zeroes.
PollVerified(r) ==
  /\ Starts(r)
  /\ have /\ call[r].pc # "data"
  /\ IF stored
     THEN Served(r)
     ELSE Broker(r) /\ timer' = timer \cup {r} /\ UNCHANGED <<reader, waiters>>
  /\ UNCHANGED <<have, stored, asked, alerts, broker, sent>>

\* For a task that is awake already the sleep makes no difference.
TimerFires(r) ==
  /\ r \in timer \ woken
  /\ timer' = timer \ {r}
  /\ woken' = woken \cup {r}
  /\ UNCHANGED <<have, stored, asked, alerts, broker, sent, call, backoff, waiters, reader>>

BackoffEnds(r) ==
  /\ r \in backoff
  /\ backoff' = backoff \ {r}
  /\ UNCHANGED <<have, stored, asked, alerts, broker, sent, call, waiters, timer, woken, reader>>

\* Drop: the call is aborted at its next wait, the waker unregistered.  A seek
\* does the same for this piece but leaves the waker, which then wakes for nothing.
Close(r) ==
  /\ r \in MayClose /\ reader[r] = "idle" /\ call[r].pc # "submitting"
  /\ reader' = [reader EXCEPT ![r] = "closed"]
  /\ call' = [call EXCEPT ![r] = NoCall]
  /\ backoff' = backoff \ {r} /\ waiters' = waiters \ {r}
  /\ timer' = timer \ {r} /\ woken' = woken \ {r}
  /\ UNCHANGED <<have, stored, asked, alerts, broker, sent>>

-----------------------------------------------------------------------------
(* The alert pump: hub first, wakers second.                               *)

Pump ==
  /\ alerts # <<>>
  /\ alerts' = Tail(alerts)
  /\ LET a == Head(alerts) IN
     \/ a = "data" /\ Answer("data") /\ UNCHANGED <<waiters, woken>>
     \/ a = "error" /\ Answer("error") /\ UNCHANGED <<waiters, woken>>
     \/ a = "finished" /\ waiters' = {} /\ woken' = woken \cup waiters
        /\ UNCHANGED <<broker, sent>>
  /\ UNCHANGED <<have, stored, asked, call, backoff, timer, reader>>

-----------------------------------------------------------------------------
(* libtorrent.                                                             *)

PieceFinishes ==
  /\ ~have /\ have' = TRUE
  /\ alerts' = Append(alerts, "finished")
  /\ asked' = IF asked = "deadline" THEN "read" ELSE asked
  /\ UNCHANGED <<stored, broker, sent, call, backoff, waiters, timer, woken, reader>>

\* A failing read posts an alert without bytes or a file error: "error".
PieceIsRead ==
  /\ asked = "read" /\ asked' = "nothing"
  /\ \E a \in {"data", "error"} : alerts' = Append(alerts, a)
  /\ UNCHANGED <<have, stored, broker, sent, call, backoff, waiters, timer, woken, reader>>

\* The coordinator clears the deadline, or sets one that asks for no alert.
DeadlineReplaced ==
  /\ asked = "deadline" /\ asked' = "nothing"
  /\ \/ alerts' = Append(alerts, "error")
     \/ UNCHANGED alerts
  /\ UNCHANGED <<have, stored, broker, sent, call, backoff, waiters, timer, woken, reader>>

PieceIsStored ==
  /\ have /\ ~stored /\ stored' = TRUE
  /\ UNCHANGED <<have, asked, alerts, broker, sent, call, backoff, waiters, timer, woken, reader>>

Next ==
  \/ \E r \in Readers :
       \/ Subscribe(r) \/ Submit(r) \/ SubmitFails(r) \/ Receive(r) \/ TimesOut(r)
       \/ PollServesAlert(r) \/ PollMissing(r) \/ WaitForPiece(r) \/ PollVerified(r)
       \/ TimerFires(r) \/ BackoffEnds(r) \/ Close(r)
  \/ Pump \/ PieceFinishes \/ PieceIsRead \/ DeadlineReplaced \/ PieceIsStored

Spec == Init /\ [][Next]_vars

\* tokio runs woken tasks, timers fire, the pump ticks every 5 ms; libtorrent
\* finishes what it downloads.
Fairness ==
  /\ \A r \in Readers :
       /\ WF_vars(PollServesAlert(r) \/ PollMissing(r) \/ PollVerified(r) \/ WaitForPiece(r))
       /\ WF_vars(TimerFires(r)) /\ WF_vars(BackoffEnds(r))
       /\ WF_vars(Subscribe(r) \/ Submit(r) \/ SubmitFails(r) \/ Receive(r) \/ TimesOut(r))
  /\ WF_vars(Pump) /\ WF_vars(PieceIsRead \/ PieceIsStored)

FairSpec == Spec /\ Fairness

-----------------------------------------------------------------------------
\* Types; and a sender that is still registered was not answered.
TypeOK ==
  /\ have \in BOOLEAN /\ stored \in BOOLEAN
  /\ asked \in {"nothing", "deadline", "read"}
  /\ alerts \in Seq({"data", "error", "finished"})
  /\ sent \in [Senders -> {"unused", "open", "data", "error"}]
  /\ broker \in {0} \cup {id \in Senders : sent[id] = "open"}
  /\ call \in [Readers -> [pc : CallPCs, on : Senders \cup {0}]]
  /\ backoff \subseteq Readers /\ waiters \subseteq Readers
  /\ timer \subseteq Readers /\ woken \subseteq Readers
  /\ reader \in [Readers -> {"idle", "missing", "served", "closed"}]

\* Nobody waits for what cannot come: a sender that can still be joined was not answered
\* yet, a call that has ended woke its reader, and a reader between two polls was woken
\* or has its retry timer armed, whatever alerts were lost or answered somebody else.
AnswersAreHeard ==
  /\ broker # 0 => sent[broker] = "open"
  /\ \A r \in Readers :
       /\ call[r].pc \in {"data", "failed"} => r \in woken
       /\ reader[r] = "idle" => r \in woken \cup timer

\* A blocked reader of a piece that finishes gets its bytes: the registration
\* behind a missed notification, a lost native request, a dropped sender and a
\* failed call are all made up for.
ReaderServed ==
  \A r \in Readers : have ~> reader[r] \in {"served", "closed"}
=============================================================================
