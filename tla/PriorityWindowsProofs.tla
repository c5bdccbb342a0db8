----------------------- MODULE PriorityWindowsProofs -----------------------
(* The merge of the priority windows is kept for any number of streams,    *)
(* files and pieces: reconciling the affected pieces alone is enough.  And *)
(* no window outlives the release of the reader that asked for it.         *)
EXTENDS PriorityWindows, WellFoundedInduction, TLAPS

\* The inductive invariant: the merge needs the types of the windows, of those in
\* the channel that will replace them, and of the readers that compute them.
TrackingInv == WindowsTyped /\ ReadersTyped /\ EffectiveIsMerge

\* A merge depends on what the streams ask of that piece and on nothing else.
LEMMA MergeIsLocal ==
  ASSUME NEW ws, NEW us, NEW p,
         \A s \in Streams : ws[s][p] = us[s][p]
  PROVE  Merged(ws, p) = Merged(us, p)
<1>1. {ws[s][p] : s \in Streams} = {us[s][p] : s \in Streams}
  OBVIOUS
<1> QED BY <1>1 DEF Merged

\* A piece no stream asks for has no merge.
LEMMA MergeOfNothing ==
  ASSUME NEW ws, NEW p, \A s \in Streams : ws[s][p] = Nothing
  PROVE  Merged(ws, p) = Nothing
BY DEF Merged

\* replace and release look at the affected pieces only and still keep the merge.
LEMMA ReconcileKeepsMerge ==
  ASSUME WindowsTyped, EffectiveIsMerge,
         NEW s \in Streams, NEW w \in Window, Reconcile(s, w)
  PROVE  windows' \in [Streams -> Window] /\ EffectiveIsMerge'
<1> DEFINE affected == Keys(w) \cup Keys(windows[s])
<1>1. windows' = [windows EXCEPT ![s] = w] /\ windows' \in [Streams -> Window]
  BY DEF Reconcile, WindowsTyped
<1>2. effective' = [p \in Pieces |-> IF p \in affected THEN Merged(windows', p)
                                     ELSE effective[p]]
  BY DEF Reconcile
<1>3. ASSUME NEW p \in Pieces, p \notin affected
      PROVE  effective[p] = Merged(windows', p)
  <2>1. w[p] = Nothing /\ windows[s][p] = Nothing
    BY <1>3 DEF Keys
  <2>2. \A t \in Streams : windows'[t][p] = windows[t][p]
    BY <1>1, <2>1 DEF WindowsTyped
  <2>3. Merged(windows', p) = Merged(windows, p)
    BY <2>2, MergeIsLocal
  <2> QED BY <2>3 DEF EffectiveIsMerge
<1>4. \A p \in Pieces : effective'[p] = Merged(windows', p)
  BY <1>2, <1>3
<1> QED BY <1>1, <1>2, <1>4 DEF EffectiveIsMerge

\* A newer selection forgets every window.
LEMMA ClearKeepsMerge ==
  ASSUME ClearTracking
  PROVE  windows' \in [Streams -> Window] /\ EffectiveIsMerge'
<1>1. windows' = [s \in Streams |-> NoWindow] /\ effective' = NoWindow
  BY DEF ClearTracking
<1>2. windows' \in [Streams -> Window]
  BY <1>1 DEF Window, NoWindow, Maybe
<1>3. ASSUME NEW p \in Pieces PROVE Merged(windows', p) = Nothing
  <2>1. \A s \in Streams : windows'[s][p] = Nothing
    BY <1>1 DEF NoWindow
  <2> QED BY <2>1, MergeOfNothing
<1> QED BY <1>1, <1>2, <1>3 DEF EffectiveIsMerge, NoWindow

\* A verified piece leaves the windows and the merge together.
LEMMA ForgetKeepsMerge ==
  ASSUME WindowsTyped, EffectiveIsMerge, NEW q \in Pieces, Forget(q)
  PROVE  windows' \in [Streams -> Window] /\ EffectiveIsMerge'
<1>1. /\ windows' = [s \in Streams |-> [windows[s] EXCEPT ![q] = Nothing]]
      /\ effective' = [effective EXCEPT ![q] = Nothing]
  BY DEF Forget
<1>2. \A s \in Streams : windows[s] \in [Pieces -> Maybe]
  BY DEF WindowsTyped, Window
<1>3. windows' \in [Streams -> Window]
  BY <1>1, <1>2 DEF Window, Maybe
<1>4. Merged(windows', q) = Nothing
  <2>1. \A s \in Streams : windows'[s][q] = Nothing
    BY <1>1, <1>2
  <2> QED BY <2>1, MergeOfNothing
<1>5. ASSUME NEW p \in Pieces, p # q
      PROVE  Merged(windows', p) = Merged(windows, p)
  <2>1. \A s \in Streams : windows'[s][p] = windows[s][p]
    BY <1>1, <1>2, <1>5
  <2> QED BY <2>1, MergeIsLocal
<1> QED BY <1>1, <1>3, <1>4, <1>5 DEF EffectiveIsMerge

\* What the channel delivers has the shape it was sent with.
LEMMA QueueTyped ==
  ASSUME queue \in Seq(Command)
  PROVE  /\ queue # <<>> => Head(queue) \in Command /\ Tail(queue) \in Seq(Command)
         /\ \A c \in Command : Append(queue, c) \in Seq(Command)
OBVIOUS

\* A reader's release and its moved window are commands.
LEMMA SentTyped ==
  ASSUME NEW s \in Streams, reader[s].gen \in Nat, reader[s].file \in Files \cup {NoFile}
  PROVE  ReleaseOf(s) \in Command /\ \A w \in Window : Replace(s, w) \in Command
BY DEF Command, ReleaseOf, Replace

\* Every window a reader computes is one.
LEMMA ComputedWindows ==
  ASSUME NEW f PROVE WindowsOf(f) \subseteq Window
<1>1. Urgent \in Assignment /\ Background \in Assignment
  BY WindowsAssumption DEF Urgent, Background, Assignment
<1> QED BY <1>1 DEF WindowsOf, Window, Maybe

\* Moving a reader, or ending it, keeps the readers typed.
LEMMA MoveTyped ==
  ASSUME ReadersTyped, NEW s \in Streams, NEW l \in ReaderPCs, MoveTo(s, l),
         UNCHANGED <<gen, sel>>
  PROVE  ReadersTyped'
BY DEF ReadersTyped, MoveTo

LEMMA FailTyped ==
  ASSUME ReadersTyped, queue \in Seq(Command), NEW s \in Streams, Fails(s),
         UNCHANGED <<gen, sel>>
  PROVE  ReadersTyped' /\ queue' \in Seq(Command)
<1>1. ReadersTyped'
  BY MoveTyped DEF Fails, ReaderPCs
<1>2. ReleaseOf(s) \in Command
  BY SentTyped DEF ReadersTyped
<1> QED BY <1>1, <1>2, QueueTyped DEF Fails

\* Initially no stream has a window and libtorrent was told nothing.
LEMMA TrackingInit == Init => TrackingInv
<1> SUFFICES ASSUME Init PROVE TrackingInv
  OBVIOUS
<1>1. WindowsTyped
  BY DEF Init, WindowsTyped, Window, NoWindow, Maybe
<1>2. ReadersTyped
  BY DEF Init, ReadersTyped, NoReader, ReaderPCs
<1>3. ASSUME NEW p \in Pieces PROVE Merged(windows, p) = Nothing
  <2>1. \A s \in Streams : windows[s][p] = Nothing
    BY DEF Init, NoWindow
  <2> QED BY <2>1, MergeOfNothing
<1>4. EffectiveIsMerge
  BY <1>3 DEF Init, EffectiveIsMerge, NoWindow
<1> QED BY <1>1, <1>2, <1>4 DEF TrackingInv

\* Steps that leave the tracking alone.
LEMMA UntrackedKeepsMerge ==
  ASSUME EffectiveIsMerge, UNCHANGED <<windows, effective>>
  PROVE  EffectiveIsMerge'
BY DEF EffectiveIsMerge, Merged

\* A reader's step keeps the invariant.
LEMMA ReaderStep ==
  ASSUME TrackingInv, NEW s \in Streams,
         \/ \E f \in Files : Select(s, f)
         \/ Activate(s) \/ Acknowledged(s) \/ HotWindow(s) \/ ApplyHotWindow(s)
         \/ Superseded(s) \/ AckFails(s) \/ Abandon(s) \/ MoveWindow(s) \/ Close(s)
  PROVE  TrackingInv'
<1> USE DEF TrackingInv
<1> queue \in Seq(Command)
  BY DEF WindowsTyped
<1>1. ASSUME NEW f \in Files, Select(s, f) PROVE TrackingInv'
  <2>1. ReadersTyped'
    BY <1>1 DEF Select, ReadersTyped, ReaderPCs
  <2>2. CASE sel # f
    <3>1. ClearTracking /\ UNCHANGED queue
      BY <1>1, <2>2 DEF Select
    <3> QED BY <2>1, <3>1, ClearKeepsMerge DEF WindowsTyped
  <2>3. CASE sel = f
    <3>1. UNCHANGED <<windows, effective, queue>>
      BY <1>1, <2>3 DEF Select
    <3> QED BY <2>1, <3>1, UntrackedKeepsMerge DEF WindowsTyped
  <2> QED BY <2>2, <2>3
<1>2. CASE Activate(s)
  <2>1. ReadersTyped'
    BY <1>2, MoveTyped DEF Activate, ReaderPCs
  <2> QED BY <1>2, <2>1, UntrackedKeepsMerge DEF Activate, WindowsTyped
<1>3. CASE Acknowledged(s)
  <2>1. ReadersTyped'
    BY <1>3, MoveTyped DEF Acknowledged, ReaderPCs
  <2> QED BY <1>3, <2>1, UntrackedKeepsMerge DEF Acknowledged, WindowsTyped
<1>4. CASE HotWindow(s)
  <2>1. ReadersTyped'
    BY <1>4, MoveTyped DEF HotWindow, ReaderPCs
  <2>2. PICK w \in Window : Reconcile(s, w)
    BY <1>4, ComputedWindows DEF HotWindow
  <2>3. windows' \in [Streams -> Window] /\ EffectiveIsMerge'
    BY <2>2, ReconcileKeepsMerge
  <2> QED BY <1>4, <2>1, <2>3 DEF HotWindow, WindowsTyped
<1>5. CASE ApplyHotWindow(s)
  <2>1. ReadersTyped' /\ queue' \in Seq(Command)
    <3>1. CASE Current(s)
      BY <1>5, <3>1, MoveTyped DEF ApplyHotWindow, ReaderPCs
    <3>2. CASE ~Current(s)
      BY <1>5, <3>2, FailTyped DEF ApplyHotWindow
    <3> QED BY <3>1, <3>2
  <2> QED BY <1>5, <2>1, UntrackedKeepsMerge DEF ApplyHotWindow, WindowsTyped
<1>6. CASE Superseded(s)
  BY <1>6, FailTyped, UntrackedKeepsMerge DEF Superseded, WindowsTyped
<1>7. CASE AckFails(s)
  BY <1>7, FailTyped, UntrackedKeepsMerge DEF AckFails, WindowsTyped
<1>8. CASE Abandon(s)
  BY <1>8, FailTyped, UntrackedKeepsMerge DEF Abandon, WindowsTyped
<1>9. CASE MoveWindow(s)
  <2>1. PICK w \in Window : queue' = Append(queue, Replace(s, w))
    BY <1>9, ComputedWindows DEF MoveWindow
  <2>2. queue' \in Seq(Command)
    BY <2>1, SentTyped, QueueTyped DEF ReadersTyped
  <2>3. ReadersTyped'
    BY <1>9 DEF MoveWindow, ReadersTyped
  <2> QED BY <1>9, <2>2, <2>3, UntrackedKeepsMerge DEF MoveWindow, WindowsTyped
<1>10. CASE Close(s)
  BY <1>10, FailTyped, UntrackedKeepsMerge DEF Close, WindowsTyped
<1> QED BY <1>1, <1>2, <1>3, <1>4, <1>5, <1>6, <1>7, <1>8, <1>9, <1>10

\* A step of the worker, and a finished piece, keep it.
LEMMA WorkerStep ==
  ASSUME TrackingInv,
         \/ HandleReplace \/ HandleRelease \/ WorkerApplies \/ HandleVerified
         \/ \E p \in Pieces : PieceFinishes(p)
  PROVE  TrackingInv'
<1> USE DEF TrackingInv
<1> queue \in Seq(Command)
  BY DEF WindowsTyped
<1>1. CASE HandleReplace
  <2>1. /\ queue # <<>> /\ Head(queue).type = "replace" /\ queue' = Tail(queue)
        /\ UNCHANGED <<gen, sel, reader>>
    BY <1>1 DEF HandleReplace, Receive
  <2>2. Head(queue).stream \in Streams /\ Head(queue).window \in Window /\ queue' \in Seq(Command)
    BY <2>1, QueueTyped DEF Command
  <2>3. ReadersTyped'
    BY <2>1 DEF ReadersTyped
  <2>4. CASE IsCurrent(Head(queue))
    <3>1. Reconcile(Head(queue).stream, Head(queue).window)
      BY <1>1, <2>4 DEF HandleReplace
    <3> QED BY <2>2, <2>3, <3>1, ReconcileKeepsMerge DEF WindowsTyped
  <2>5. CASE ~IsCurrent(Head(queue))
    BY <1>1, <2>2, <2>3, <2>5, UntrackedKeepsMerge DEF HandleReplace, WindowsTyped
  <2> QED BY <2>4, <2>5
<1>2. CASE HandleRelease
  <2>1. /\ queue # <<>> /\ Head(queue).type = "release" /\ queue' = Tail(queue)
        /\ UNCHANGED <<gen, sel, reader>>
    BY <1>2 DEF HandleRelease, Receive
  <2>2. Head(queue).stream \in Streams /\ queue' \in Seq(Command)
    BY <2>1, QueueTyped DEF Command
  <2>3. ReadersTyped'
    BY <2>1 DEF ReadersTyped
  <2>4. CASE IsCurrent(Head(queue))
    <3>1. Reconcile(Head(queue).stream, NoWindow)
      BY <1>2, <2>4 DEF HandleRelease
    <3>2. NoWindow \in Window
      BY DEF NoWindow, Window, Maybe
    <3> QED BY <2>2, <2>3, <3>1, <3>2, ReconcileKeepsMerge DEF WindowsTyped
  <2>5. CASE ~IsCurrent(Head(queue))
    BY <1>2, <2>2, <2>3, <2>5, UntrackedKeepsMerge DEF HandleRelease, WindowsTyped
  <2> QED BY <2>4, <2>5
<1>3. CASE WorkerApplies
  <2>1. ReadersTyped'
    BY <1>3 DEF WorkerApplies, ReadersTyped
  <2> QED BY <1>3, <2>1, UntrackedKeepsMerge DEF WorkerApplies, WindowsTyped
<1>4. CASE HandleVerified
  <2>1. /\ queue # <<>> /\ Head(queue).type = "verified" /\ queue' = Tail(queue)
        /\ UNCHANGED <<gen, sel, reader>> /\ Forget(Head(queue).piece)
    BY <1>4 DEF HandleVerified, Receive
  <2>2. Head(queue).piece \in Pieces /\ queue' \in Seq(Command)
    BY <2>1, QueueTyped DEF Command
  <2>3. ReadersTyped'
    BY <2>1 DEF ReadersTyped
  <2> QED BY <2>1, <2>2, <2>3, ForgetKeepsMerge DEF WindowsTyped
<1>5. ASSUME NEW p \in Pieces, PieceFinishes(p) PROVE TrackingInv'
  <2>1. Verified(p) \in Command
    BY DEF Verified, Command
  <2>2. ReadersTyped'
    BY <1>5 DEF PieceFinishes, ReadersTyped
  <2> QED BY <1>5, <2>1, <2>2, QueueTyped, UntrackedKeepsMerge DEF PieceFinishes, WindowsTyped
<1> QED BY <1>1, <1>2, <1>3, <1>4, <1>5

\* Every step keeps the merge.
LEMMA TrackingStep == TrackingInv /\ [Next]_vars => TrackingInv'
<1> SUFFICES ASSUME TrackingInv, [Next]_vars PROVE TrackingInv'
  OBVIOUS
<1>1. CASE UNCHANGED vars
  BY <1>1, UntrackedKeepsMerge DEF vars, TrackingInv, WindowsTyped, ReadersTyped
<1>2. CASE Next
  BY <1>2, ReaderStep, WorkerStep DEF Next
<1> QED BY <1>1, <1>2

\* For any streams, files and pieces: the tracked assignments are the merge of the
\* tracked windows (ActivePriorityWindows.effective).
THEOREM TrackingIsExact == Spec => []EffectiveIsMerge
<1>1. Init => TrackingInv
  BY TrackingInit
<1>2. TrackingInv /\ [Next]_vars => TrackingInv'
  BY TrackingStep
<1>3. TrackingInv => EffectiveIsMerge
  BY DEF TrackingInv
<1> QED BY <1>1, <1>2, <1>3, PTL DEF Spec

-----------------------------------------------------------------------------
(* Nobody steers the download but a reader the state still knows.          *)

\* Command c is reader s's, of the given type.
Sends(c, type, s) == c.type = type /\ c.stream = s

\* The release of s is queued behind position i.
ReleasedAfter(s, i) == \E j \in DOMAIN queue : j > i /\ Sends(queue[j], "release", s)

\* A window is of the current generation; a stream's commands carry its generation;
\* and once the reader is closed its release comes after all that could keep or
\* bring back its window.
Held(s)    == windows[s] # NoWindow =>
                reader[s].gen = gen /\ reader[s].pc \in {"applying", "reading", "closed"}
Stamped(s) == \A i \in DOMAIN queue, type \in {"replace", "release"} :
                Sends(queue[i], type, s) =>
                  queue[i].gen = reader[s].gen /\ reader[s].pc \in {"reading", "closed"}
Leaving(s) == reader[s].pc = "closed" =>
                /\ windows[s] # NoWindow => ReleasedAfter(s, 0)
                /\ \A i \in DOMAIN queue :
                     Sends(queue[i], "replace", s) => ReleasedAfter(s, i)
Steered(s) == Held(s) /\ Stamped(s) /\ Leaving(s)
StewardInv == \A s \in Streams : Steered(s)

\* A command at the end of the channel leaves the others in their places.
LEMMA AppendedAt ==
  ASSUME queue \in Seq(Command), NEW c \in Command, queue' = Append(queue, c)
  PROVE  /\ Len(queue) \in Nat /\ DOMAIN queue = 1..Len(queue)
         /\ DOMAIN queue' = 1..(Len(queue) + 1)
         /\ \A i \in DOMAIN queue : queue'[i] = queue[i]
         /\ queue'[Len(queue) + 1] = c
OBVIOUS

\* The worker takes the first command; the others move up.
LEMMA TailAt ==
  ASSUME queue \in Seq(Command), queue # <<>>, queue' = Tail(queue)
  PROVE  /\ Len(queue) \in Nat \ {0} /\ DOMAIN queue = 1..Len(queue)
         /\ DOMAIN queue' = 1..(Len(queue) - 1)
         /\ \A i \in DOMAIN queue' : i + 1 \in DOMAIN queue /\ queue'[i] = queue[i + 1]
         /\ Head(queue) = queue[1] /\ 1 \in DOMAIN queue
OBVIOUS

\* A stream whose reader neither moves nor sends is steered still, if it keeps its
\* window in the same generation or loses it.
LEMMA OthersSteered ==
  ASSUME NEW t \in Streams, Steered(t),
         windows'[t] = NoWindow \/ (windows'[t] = windows[t] /\ gen' = gen),
         reader'[t] = reader[t], UNCHANGED queue
  PROVE  Steered(t)'
BY DEF Steered, Held, Stamped, Leaving, ReleasedAfter, Sends

\* A reader that goes on without being closed, before anything of it was sent.
LEMMA AdvanceSteered ==
  ASSUME ReadersTyped, StewardInv, NEW s \in Streams, NEW l \in ReaderPCs \ {"closed"}, MoveTo(s, l),
         reader[s].pc \notin {"reading", "closed"},
         reader[s].pc = "applying" => l = "reading",
         UNCHANGED <<gen, windows, queue>>
  PROVE  StewardInv'
<1> SUFFICES ASSUME NEW t \in Streams PROVE Steered(t)'
  BY DEF StewardInv
<1>0. Steered(t)
  BY DEF StewardInv
<1>1. CASE t # s
  BY <1>0, <1>1, OthersSteered DEF MoveTo, ReadersTyped
<1>2. CASE t = s
  <2>1. /\ reader'[s].pc = l /\ reader'[s].gen = reader[s].gen
    BY DEF MoveTo, ReadersTyped
  <2>2. Held(s)'
    BY <1>0, <1>2, <2>1 DEF Steered, Held
  <2>3. Stamped(s)'
    BY <1>0, <1>2, <2>1 DEF Steered, Stamped, Sends
  <2>4. Leaving(s)'
    BY <2>1 DEF Leaving
  <2> QED BY <1>2, <2>2, <2>3, <2>4 DEF Steered
<1> QED BY <1>1, <1>2

\* A command of reader s at the end of the channel, stamped with its generation,
\* leaves the other streams as they are.
LEMMA SendKeepsOthers ==
  ASSUME queue \in Seq(Command), NEW c \in Command, queue' = Append(queue, c),
         NEW t \in Streams, Steered(t), c.type \in {"replace", "release"} => c.stream # t,
         reader'[t] = reader[t], UNCHANGED <<gen, windows>>
  PROVE  Steered(t)'
<1>1. Held(t)'
  BY DEF Steered, Held
<1>2. Stamped(t)'
  BY AppendedAt DEF Steered, Stamped, Sends
<1>3. ASSUME NEW i \in Nat, ReleasedAfter(t, i) PROVE ReleasedAfter(t, i)'
  BY <1>3, AppendedAt DEF ReleasedAfter, Sends
<1>4. Leaving(t)'
  <2> SUFFICES ASSUME reader'[t].pc = "closed"
               PROVE  /\ windows'[t] # NoWindow => ReleasedAfter(t, 0)'
                      /\ \A i \in DOMAIN queue' :
                           Sends(queue'[i], "replace", t) => ReleasedAfter(t, i)'
    BY DEF Leaving, Sends
  <2>1. windows'[t] # NoWindow => ReleasedAfter(t, 0)'
    BY <1>3 DEF Steered, Leaving
  <2>2. ASSUME NEW i \in DOMAIN queue', Sends(queue'[i], "replace", t)
        PROVE  ReleasedAfter(t, i)'
    <3>1. i \in DOMAIN queue /\ queue'[i] = queue[i] /\ i \in Nat
      BY <2>2, AppendedAt DEF Sends
    <3>2. ReleasedAfter(t, i)
      BY <2>2, <3>1 DEF Steered, Leaving
    <3> QED BY <1>3, <3>1, <3>2
  <2> QED BY <2>1, <2>2
<1> QED BY <1>1, <1>2, <1>4 DEF Steered

\* A reader that is dropped sends its release behind everything it sent before.
LEMMA FailSteered ==
  ASSUME ReadersTyped, queue \in Seq(Command), StewardInv, NEW s \in Streams, Fails(s),
         UNCHANGED <<gen, windows>>
  PROVE  StewardInv'
<1> DEFINE c == ReleaseOf(s)
<1>0. /\ c \in Command /\ c.type = "release" /\ c.stream = s /\ c.gen = reader[s].gen
      /\ queue' = Append(queue, c)
      /\ \A i \in DOMAIN queue : queue[i] \in Command
  BY SentTyped DEF ReadersTyped, ReleaseOf, Fails
<1>1. /\ reader'[s].pc = "closed" /\ reader'[s].gen = reader[s].gen
      /\ \A t \in Streams \ {s} : reader'[t] = reader[t]
  BY DEF Fails, MoveTo, ReadersTyped
<1> HIDE DEF c
<1> SUFFICES ASSUME NEW t \in Streams PROVE Steered(t)'
  BY DEF StewardInv
<1>2. Steered(t)
  BY DEF StewardInv
<1>3. CASE t # s
  BY <1>0, <1>1, <1>2, <1>3, SendKeepsOthers
<1>4. CASE t = s
  <2>1. Held(s)'
    BY <1>1, <1>2, <1>4 DEF Steered, Held
  <2>2. Stamped(s)'
    BY <1>0, <1>1, <1>2, <1>4, AppendedAt DEF Steered, Stamped, Sends
  <2>3. \A i \in 0..Len(queue) : ReleasedAfter(s, i)'
    BY <1>0, AppendedAt DEF ReleasedAfter, Sends
  <2>4. \A i \in DOMAIN queue' : Sends(queue'[i], "replace", s) => i \in 0..Len(queue)
    BY <1>0, AppendedAt DEF Sends
  <2>5. 0 \in 0..Len(queue)
    BY <1>0, AppendedAt
  <2>6. Leaving(s)'
    BY <2>3, <2>4, <2>5 DEF Leaving, Sends
  <2> QED BY <1>4, <2>1, <2>2, <2>6 DEF Steered
<1> QED BY <1>3, <1>4

\* Serving a command keeps a stream steered if the stream ends without a window, if it
\* had one before and this is not its release, or if it gets one of this generation.
LEMMA ServeSteered ==
  ASSUME queue \in Seq(Command), queue # <<>>, queue' = Tail(queue), UNCHANGED <<gen, reader>>,
         NEW t \in Streams, Steered(t),
         \/ windows'[t] = NoWindow
         \/ windows[t] # NoWindow /\ ~Sends(Head(queue), "release", t)
         \/ Sends(Head(queue), "replace", t) /\ Head(queue).gen = gen
  PROVE  Steered(t)'
<1>0. 1 \in DOMAIN queue /\ Head(queue) = queue[1]
  BY TailAt
<1>1. Held(t)'
  BY <1>0 DEF Steered, Held, Stamped
<1>2. Stamped(t)'
  BY TailAt DEF Steered, Stamped, Sends
<1>3. ASSUME NEW i \in Nat, ReleasedAfter(t, i + 1) PROVE ReleasedAfter(t, i)'
  <2>1. PICK j \in DOMAIN queue : j > i + 1 /\ Sends(queue[j], "release", t)
    BY <1>3 DEF ReleasedAfter
  <2>2. j - 1 \in DOMAIN queue' /\ j - 1 > i /\ queue'[j - 1] = queue[j]
    BY <2>1, TailAt
  <2> QED BY <2>1, <2>2 DEF ReleasedAfter, Sends
<1>4. ASSUME ReleasedAfter(t, 0), ~Sends(Head(queue), "release", t)
      PROVE  ReleasedAfter(t, 0 + 1)
  BY <1>4, TailAt DEF ReleasedAfter
<1>5. Leaving(t)'
  <2> SUFFICES ASSUME reader[t].pc = "closed"
               PROVE  /\ windows'[t] # NoWindow => ReleasedAfter(t, 0)'
                      /\ \A i \in DOMAIN queue' :
                           Sends(queue'[i], "replace", t) => ReleasedAfter(t, i)'
    BY DEF Leaving, Sends
  <2>1. ASSUME windows'[t] # NoWindow PROVE ReleasedAfter(t, 0)'
    <3>1. CASE windows[t] # NoWindow /\ ~Sends(Head(queue), "release", t)
      BY <1>3, <1>4, <3>1 DEF Steered, Leaving
    <3>2. CASE Sends(Head(queue), "replace", t)
      <4>1. ReleasedAfter(t, 0 + 1)
        BY <1>0, <3>2 DEF Steered, Leaving
      <4> QED BY <1>3, <4>1
    <3> QED BY <2>1, <3>1, <3>2
  <2>2. ASSUME NEW i \in DOMAIN queue', Sends(queue'[i], "replace", t)
        PROVE  ReleasedAfter(t, i)'
    <3>1. i + 1 \in DOMAIN queue /\ queue'[i] = queue[i + 1] /\ i \in Nat
      BY TailAt
    <3>2. ReleasedAfter(t, i + 1)
      BY <2>2, <3>1 DEF Steered, Leaving
    <3> QED BY <1>3, <3>1, <3>2
  <2> QED BY <2>1, <2>2
<1> QED BY <1>1, <1>2, <1>5 DEF Steered

\* Before it reads, nothing of a reader is in the channel and the first window it
\* gets is the one of its activation.
LEMMA FreshSteered ==
  ASSUME NEW s \in Streams, Steered(s), reader[s].pc \notin {"reading", "closed"},
         UNCHANGED queue, reader'[s].pc \notin {"reading", "closed"},
         \/ windows'[s] = NoWindow
         \/ reader'[s].pc = "applying" /\ reader'[s].gen = gen'
  PROVE  Steered(s)'
<1>1. Held(s)'
  BY DEF Held
<1>2. Stamped(s)'
  BY DEF Steered, Stamped, Sends
<1>3. Leaving(s)'
  BY DEF Leaving
<1> QED BY <1>1, <1>2, <1>3 DEF Steered

\* No window is kept or lost by accident in a reader's step.
LEMMA ReaderSteers ==
  ASSUME TrackingInv, StewardInv, NEW s \in Streams,
         \/ \E f \in Files : Select(s, f)
         \/ Activate(s) \/ Acknowledged(s) \/ HotWindow(s) \/ ApplyHotWindow(s)
         \/ Superseded(s) \/ AckFails(s) \/ Abandon(s) \/ MoveWindow(s) \/ Close(s)
  PROVE  StewardInv'
<1> queue \in Seq(Command) /\ ReadersTyped /\ windows \in [Streams -> Window]
  BY DEF TrackingInv, WindowsTyped
<1> \A t \in Streams : Steered(t)
  BY DEF StewardInv
<1>1. ASSUME NEW f \in Files, Select(s, f) PROVE StewardInv'
  <2> SUFFICES ASSUME NEW t \in Streams PROVE Steered(t)'
    BY DEF StewardInv
  <2>1. windows'[t] = NoWindow \/ (windows'[t] = windows[t] /\ gen' = gen)
    <3>1. CASE sel # f
      <4>1. ClearTracking
        BY <1>1, <3>1 DEF Select
      <4> QED BY <4>1 DEF ClearTracking
    <3>2. CASE sel = f
      BY <1>1, <3>2 DEF Select
    <3> QED BY <3>1, <3>2
  <2>2. CASE t # s
    BY <1>1, <2>1, <2>2, OthersSteered DEF Select, ReadersTyped
  <2>3. CASE t = s
    <3>1. reader[s].pc = "idle" /\ reader'[s].pc = "selected" /\ UNCHANGED queue
      BY <1>1 DEF Select, ReadersTyped
    <3>2. windows'[s] = NoWindow
      BY <2>1, <2>3, <3>1 DEF Steered, Held
    <3> QED BY <2>3, <3>1, <3>2, FreshSteered
  <2> QED BY <2>2, <2>3
<1>2. CASE Activate(s)
  BY <1>2, AdvanceSteered DEF Activate, ReaderPCs
<1>3. CASE Acknowledged(s)
  BY <1>3, AdvanceSteered DEF Acknowledged, ReaderPCs
<1>4. CASE HotWindow(s)
  <2> SUFFICES ASSUME NEW t \in Streams PROVE Steered(t)'
    BY DEF StewardInv
  <2>1. CASE t # s
    <3>1. windows'[t] = windows[t]
      BY <1>4, <2>1 DEF HotWindow, Reconcile
    <3> QED BY <1>4, <2>1, <3>1, OthersSteered DEF HotWindow, MoveTo, ReadersTyped
  <2>2. CASE t = s
    BY <1>4, <2>2, FreshSteered DEF HotWindow, MoveTo, ReadersTyped, Current
  <2> QED BY <2>1, <2>2
<1>5. CASE ApplyHotWindow(s)
  <2>1. CASE Current(s)
    BY <1>5, <2>1, AdvanceSteered DEF ApplyHotWindow, ReaderPCs
  <2>2. CASE ~Current(s)
    BY <1>5, <2>2, FailSteered DEF ApplyHotWindow
  <2> QED BY <2>1, <2>2
<1>6. CASE Superseded(s)
  BY <1>6, FailSteered DEF Superseded
<1>7. CASE AckFails(s)
  BY <1>7, FailSteered DEF AckFails
<1>8. CASE Abandon(s)
  BY <1>8, FailSteered DEF Abandon
<1>9. CASE MoveWindow(s)
  <2>1. PICK w \in Window : queue' = Append(queue, Replace(s, w))
    BY <1>9, ComputedWindows DEF MoveWindow
  <2> DEFINE c == Replace(s, w)
  <2>2. /\ c \in Command /\ c.stream = s /\ c.gen = reader[s].gen
        /\ queue' = Append(queue, c)
    BY <2>1, SentTyped DEF ReadersTyped, Replace
  <2>3. UNCHANGED <<gen, windows, reader>> /\ reader[s].pc = "reading"
    BY <1>9 DEF MoveWindow
  <2> HIDE DEF c
  <2> SUFFICES ASSUME NEW t \in Streams PROVE Steered(t)'
    BY DEF StewardInv
  <2>4. CASE t # s
    BY <2>2, <2>3, <2>4, SendKeepsOthers
  <2>5. CASE t = s
    <3>1. Held(s)'
      BY <2>3 DEF Steered, Held
    <3>2. Stamped(s)'
      BY <2>2, <2>3, AppendedAt DEF Steered, Stamped, Sends
    <3>3. Leaving(s)'
      BY <2>3 DEF Leaving
    <3> QED BY <2>5, <3>1, <3>2, <3>3 DEF Steered
  <2> QED BY <2>4, <2>5
<1>10. CASE Close(s)
  BY <1>10, FailSteered DEF Close
<1> QED BY <1>1, <1>2, <1>3, <1>4, <1>5, <1>6, <1>7, <1>8, <1>9, <1>10

\* Nor in a step of the worker: a stale command changes nothing, a release takes the
\* window away, a window that comes back is followed by its release.
LEMMA WorkerSteers ==
  ASSUME TrackingInv, StewardInv,
         \/ HandleReplace \/ HandleRelease \/ WorkerApplies \/ HandleVerified
         \/ \E p \in Pieces : PieceFinishes(p)
  PROVE  StewardInv'
<1> queue \in Seq(Command) /\ ReadersTyped /\ windows \in [Streams -> Window]
  BY DEF TrackingInv, WindowsTyped
<1> \A t \in Streams : Steered(t)
  BY DEF StewardInv
<1> DEFINE c == Head(queue)
<1>0. queue # <<>> => c \in Command /\ 1 \in DOMAIN queue /\ c = queue[1]
  BY QueueTyped
<1> HIDE DEF c
<1>1. CASE HandleReplace
  <2>1. /\ queue # <<>> /\ c.type = "replace" /\ queue' = Tail(queue)
        /\ UNCHANGED <<gen, reader>>
    BY <1>1 DEF HandleReplace, Receive, c
  <2> SUFFICES ASSUME NEW t \in Streams PROVE Steered(t)'
    BY DEF StewardInv
  <2>2. CASE IsCurrent(c) /\ c.stream = t
    BY <2>1, <2>2, ServeSteered DEF IsCurrent, Sends, c
  <2>3. CASE ~(IsCurrent(c) /\ c.stream = t)
    <3>1. windows'[t] = windows[t]
      BY <1>1, <2>3 DEF HandleReplace, Reconcile, c
    <3> QED BY <2>1, <3>1, ServeSteered DEF Sends, c
  <2> QED BY <2>2, <2>3
<1>2. CASE HandleRelease
  <2>1. /\ queue # <<>> /\ c.type = "release" /\ queue' = Tail(queue)
        /\ UNCHANGED <<gen, reader>>
    BY <1>2 DEF HandleRelease, Receive, c
  <2> SUFFICES ASSUME NEW t \in Streams PROVE Steered(t)'
    BY DEF StewardInv
  <2>2. CASE c.stream = t
    <3>1. windows'[t] = NoWindow
      <4>1. CASE IsCurrent(c)
        BY <1>2, <2>2, <4>1 DEF HandleRelease, Reconcile, c
      <4>2. CASE ~IsCurrent(c)
        <5>1. c.gen # gen /\ UNCHANGED windows
          BY <1>2, <2>1, <4>2 DEF HandleRelease, IsCurrent, c
        <5>2. c.gen = reader[t].gen
          BY <1>0, <2>1, <2>2 DEF Steered, Stamped, Sends
        <5> QED BY <5>1, <5>2 DEF Steered, Held
      <4> QED BY <4>1, <4>2
    <3> QED BY <2>1, <3>1, ServeSteered
  <2>3. CASE c.stream # t
    <3>1. windows'[t] = windows[t]
      BY <1>2, <2>3 DEF HandleRelease, Reconcile, c
    <3> QED BY <2>1, <2>3, <3>1, ServeSteered DEF Sends, c
  <2> QED BY <2>2, <2>3
<1>3. CASE WorkerApplies
  BY <1>3, OthersSteered DEF WorkerApplies, StewardInv
<1>4. CASE HandleVerified
  <2>1. /\ queue # <<>> /\ c.type = "verified" /\ queue' = Tail(queue)
        /\ UNCHANGED <<gen, reader>> /\ Forget(c.piece)
    BY <1>4 DEF HandleVerified, Receive, c
  <2> SUFFICES ASSUME NEW t \in Streams PROVE Steered(t)'
    BY DEF StewardInv
  <2>2. windows[t] = NoWindow => windows'[t] = NoWindow
    BY <2>1 DEF Forget, NoWindow
  <2> QED BY <2>1, <2>2, ServeSteered DEF Sends, c
<1>5. ASSUME NEW p \in Pieces, PieceFinishes(p) PROVE StewardInv'
  <2>1. Verified(p) \in Command /\ Verified(p).type = "verified"
    BY DEF Verified, Command
  <2>2. /\ queue' = Append(queue, Verified(p)) /\ UNCHANGED <<gen, windows, reader>>
    BY <1>5 DEF PieceFinishes
  <2> QED BY <2>1, <2>2, SendKeepsOthers DEF StewardInv
<1> QED BY <1>1, <1>2, <1>3, <1>4, <1>5

\* A steered stream has no window but of a living reader, or one about to be released.
LEMMA SteeredIsNoOrphan == StewardInv => NoOrphanWindow
<1> SUFFICES ASSUME StewardInv, NEW s \in Streams, windows[s] # NoWindow
             PROVE  \/ reader[s].pc \in {"applying", "reading"} /\ reader[s].gen = gen
                    \/ \E i \in DOMAIN queue : queue[i].type = "release" /\ queue[i].stream = s
  BY DEF NoOrphanWindow
<1> QED BY DEF StewardInv, Steered, Held, Leaving, ReleasedAfter, Sends

\* For any streams, files and pieces: a window in ActivePriorityWindows.streams belongs
\* to a reader of the current generation, or to a dropped one whose ReleasePlayback is
\* still in the channel; a superseded or dropped reader never steers the download.
THEOREM NoReaderLeavesItsWindow == Spec => []NoOrphanWindow
<1>1. Init => TrackingInv /\ StewardInv
  <2>1. Init => StewardInv
    BY DEF Init, NoReader, StewardInv, Steered, Held, Stamped, Leaving, Sends
  <2> QED BY <2>1, TrackingInit
<1>2. TrackingInv /\ StewardInv /\ [Next]_vars => (TrackingInv /\ StewardInv)'
  <2> SUFFICES ASSUME TrackingInv, StewardInv, [Next]_vars
               PROVE  TrackingInv' /\ StewardInv'
    OBVIOUS
  <2>1. TrackingInv'
    BY TrackingStep
  <2>2. CASE UNCHANGED vars
    BY <2>1, <2>2, OthersSteered DEF vars, StewardInv
  <2>3. CASE Next
    BY <2>1, <2>3, ReaderSteers, WorkerSteers DEF Next
  <2> QED BY <2>2, <2>3
<1> QED BY <1>1, <1>2, SteeredIsNoOrphan, PTL DEF Spec

-----------------------------------------------------------------------------
(* What libtorrent was told follows the merge.                             *)

\* The earliest deadline and the highest priority that a merge takes exist.
LEMMA HasLeast ==
  ASSUME NEW S \in SUBSET Nat, S # {}
  PROVE  \E x \in S : \A y \in S : x <= y
<1>1. PICK x \in S : \A y \in S : ~(<<y, x>> \in OpToRel(<, Nat))
  BY NatLessThanWellFounded, WFMin, Zenon
<1>2. \A y \in S : ~(y < x)
  BY <1>1 DEF OpToRel
<1> QED BY <1>2

LEMMA EarliestDeadline ==
  ASSUME NEW S \in SUBSET Nat, S # {}
  PROVE  Min(S) \in S
BY HasLeast DEF Min

LEMMA HighestPriority ==
  ASSUME NEW S \in SUBSET (1..7), S # {}
  PROVE  Max(S) \in S
<1> DEFINE T == {t \in Nat : \E x \in S : t = 7 - x}
<1>1. \A x \in S : 7 - x \in T
  OBVIOUS
<1>2. PICK t \in T : \A u \in T : t <= u
  BY <1>1, HasLeast
<1>3. PICK x \in S : t = 7 - x
  OBVIOUS
<1>4. \A y \in S : 7 - x <= 7 - y
  BY <1>1, <1>2, <1>3
<1>5. \A y \in S : x >= y
  BY <1>4
<1> QED BY <1>5 DEF Max

\* A merge is an assignment, or none.
LEMMA MergeTyped ==
  ASSUME NEW ws \in [Streams -> Window], NEW p \in Pieces
  PROVE  Merged(ws, p) \in Maybe
<1> DEFINE asked == {ws[s][p] : s \in Streams} \ {Nothing}
           prios == {a.prio : a \in asked}
           dues  == {a.deadline : a \in asked}
<1>1. CASE asked = {}
  BY <1>1 DEF Merged, Maybe
<1>2. CASE asked # {}
  <2>1. asked \subseteq Assignment
    BY DEF Window, Maybe
  <2>2. prios \in SUBSET (1..7) /\ prios # {} /\ dues # {}
    BY <1>2, <2>1 DEF Assignment
  <2>3. dues \subseteq Deadlines \cup {NoDeadline}
    BY <2>1 DEF Assignment
  <2>4. dues \in SUBSET Nat
    BY <2>3, WindowsAssumption
  <2>5. Max(prios) \in prios /\ Min(dues) \in dues
    BY <2>2, <2>4, HighestPriority, EarliestDeadline
  <2>6. [prio |-> Max(prios), deadline |-> Min(dues)] \in Assignment
    BY <2>2, <2>3, <2>5 DEF Assignment
  <2>7. Merged(ws, p) = [prio |-> Max(prios), deadline |-> Min(dues)]
    BY <1>2 DEF Merged
  <2> QED BY <2>6, <2>7 DEF Maybe
<1> QED BY <1>1, <1>2

LEMMA EffectiveTyped ==
  ASSUME WindowsTyped, EffectiveIsMerge
  PROVE  effective \in [Pieces -> Maybe]
BY MergeTyped DEF WindowsTyped, EffectiveIsMerge

NativeTyped ==
  /\ native \in [prio : [Pieces -> Nat], deadline : [Pieces -> Nat], have : SUBSET Pieces]
  /\ pending \in [gen : Nat, to : [Pieces -> Maybe \cup {Unchanged}]]
  /\ untold \in SUBSET Pieces

\* The operation mutex: who is past it holds it, and changes are on their way only
\* while their reader or the worker does.
Serialised ==
  /\ \A s \in Streams : reader[s].pc \in {"acking", "window", "applying"} => busy = s
  /\ Underway # {} => busy = Worker \/ \E s \in Streams : busy = s /\ reader[s].pc = "applying"

\* The worker is told of a verified piece after libtorrent has it.
VerifiedIsThere ==
  \A i \in DOMAIN queue : queue[i].type = "verified" => queue[i].piece \in native.have

\* Who has a window in this generation, or will have one, has the priority vector
\* of the selected file behind it: it will not be submitted again.
Backed(s) ==
  /\ reader[s].gen <= gen
  /\ reader[s].pc # "idle" /\ reader[s].gen = gen => reader[s].file = sel
  /\ \/ windows[s] # NoWindow
     \/ /\ reader[s].gen = gen
        /\ \/ reader[s].pc \in {"window", "applying", "reading"}
           \/ \E i \in DOMAIN queue : Sends(queue[i], "replace", s)
     => ack = sel
Acknowledgement == \A s \in Streams : Backed(s)

\* A change on its way is what the merge is now, unless the selection changed since.
InFlight ==
  /\ pending.gen <= gen
  /\ \A p \in Underway : IF pending.gen = gen
                         THEN p \in native.have \/ pending.to[p] = effective[p]
                         ELSE p \in untold

Follows(p) ==
  p \notin native.have \cup Underway \cup untold =>
    /\ native.deadline[p] = IF effective[p] = Nothing THEN NoDeadline ELSE effective[p].deadline
    /\ effective[p] # Nothing => native.prio[p] = effective[p].prio
Following == \A p \in Pieces : Follows(p)

ToldInv == NativeTyped /\ Serialised /\ VerifiedIsThere /\ Acknowledgement /\ InFlight /\ Following

FollowInv == TrackingInv /\ StewardInv /\ ToldInv

LEMMA ToldInit == Init => ToldInv
<1> SUFFICES ASSUME Init PROVE ToldInv
  OBVIOUS
<1>1. NativeTyped /\ Underway = {} /\ pending.gen = 0
  BY WindowsAssumption DEF Init, NativeTyped, NoChange, Underway
<1>2. Serialised /\ VerifiedIsThere /\ Acknowledgement
  BY <1>1 DEF Init, Serialised, VerifiedIsThere, Acknowledgement, Backed, NoReader, Sends
<1>3. InFlight
  BY <1>1 DEF Init, InFlight
<1>4. Following
  BY DEF Init, Following, Follows, NoWindow
<1> QED BY <1>1, <1>2, <1>3, <1>4 DEF ToldInv

(* The step of each part.                                                  *)

LEMMA TypedPieces ==
  ASSUME TrackingInv
  PROVE  queue \in Seq(Command) /\ ReadersTyped /\ windows \in [Streams -> Window]
BY DEF TrackingInv, WindowsTyped

\* A reconciliation: what it changes is on its way, the rest is as it was.
LEMMA ReconcileTyped ==
  ASSUME TrackingInv, TrackingInv', NEW s \in Streams, NEW w, Reconcile(s, w)
  PROVE  /\ effective \in [Pieces -> Maybe] /\ effective' \in [Pieces -> Maybe]
         /\ pending' \in [gen : Nat, to : [Pieces -> Maybe \cup {Unchanged}]]
         /\ pending'.gen = gen
         /\ \A p \in Underway' : pending'.to[p] = effective'[p]
         /\ \A p \in Pieces \ Underway' : effective'[p] = effective[p]
<1>1. effective \in [Pieces -> Maybe] /\ effective' \in [Pieces -> Maybe] /\ gen \in Nat
  <2>1. /\ windows' \in [Streams -> Window]
        /\ effective' = [p \in Pieces |-> Merged(windows', p)]
    BY DEF TrackingInv, WindowsTyped, EffectiveIsMerge
  <2>2. effective' \in [Pieces -> Maybe]
    BY <2>1, MergeTyped
  <2> QED BY <2>2, EffectiveTyped DEF TrackingInv, ReadersTyped
<1>2. pending' = [gen |-> gen, to |-> [p \in Pieces |-> IF effective'[p] # effective[p]
                                                        THEN effective'[p] ELSE Unchanged]]
  BY DEF Reconcile, Changes
<1>3. Unchanged \notin Maybe
  BY WindowsAssumption DEF Maybe
<1> QED BY <1>1, <1>2, <1>3 DEF Underway

\* What applying makes of libtorrent.
LEMMA ApplyTold ==
  ASSUME NativeTyped, NEW b \in {0, 1}, Apply(b)
  PROVE  /\ NativeTyped' /\ Underway' = {} /\ pending'.gen = 0 /\ native'.have = native.have
         /\ untold' = IF pending.gen = gen THEN untold \ Underway ELSE untold
         /\ \A p \in Pieces \ Underway : /\ native'.prio[p] = native.prio[p]
                                         /\ native'.deadline[p] = native.deadline[p]
         /\ \A p \in Underway \ native.have :
              LET to == pending.to[p] IN
              /\ native'.deadline[p] = IF to = Nothing THEN NoDeadline ELSE to.deadline
              /\ to # Nothing => native'.prio[p] = to.prio
<1>1. /\ native' = Applied(b) /\ pending' = NoChange
      /\ untold' = IF pending.gen = gen THEN untold \ Underway ELSE untold
  BY DEF Apply
<1>2. \A p \in Underway : pending.to[p] \in Maybe
  <2>1. pending.to \in [Pieces -> Maybe \cup {Unchanged}]
    BY DEF NativeTyped
  <2> QED BY <2>1 DEF Underway
<1>3. \A a \in Assignment : a.prio \in Nat /\ a.deadline \in Nat
  <2>1. Deadlines \cup {NoDeadline} \subseteq Nat
    BY WindowsAssumption
  <2> QED BY <2>1 DEF Assignment
<1>4. NoDeadline \in Nat
  BY WindowsAssumption
<1>5. \A p \in Underway : pending.to[p] # Nothing =>
                             pending.to[p].prio \in Nat /\ pending.to[p].deadline \in Nat
  <2> SUFFICES ASSUME NEW p \in Underway, pending.to[p] # Nothing
               PROVE  pending.to[p].prio \in Nat /\ pending.to[p].deadline \in Nat
    OBVIOUS
  <2>1. pending.to[p] \in Assignment
    BY <1>2 DEF Maybe
  <2> QED BY <1>3, <2>1
<1>6. native' \in [prio : [Pieces -> Nat], deadline : [Pieces -> Nat], have : SUBSET Pieces]
  <2> DEFINE P == [p \in Pieces |-> IF pending.to[p] = Unchanged THEN native.prio[p]
                                    ELSE IF pending.to[p] = Nothing THEN b
                                    ELSE pending.to[p].prio]
             D == [p \in Pieces |-> IF pending.to[p] = Unchanged THEN native.deadline[p]
                                    ELSE IF pending.to[p] = Nothing \/ p \in native.have
                                    THEN NoDeadline ELSE pending.to[p].deadline]
  <2>1. P \in [Pieces -> Nat]
    BY <1>5 DEF NativeTyped, Underway
  <2>2. D \in [Pieces -> Nat]
    BY <1>4, <1>5 DEF NativeTyped, Underway
  <2>3. native' = [native EXCEPT !.prio = P, !.deadline = D]
    BY <1>1 DEF Applied
  <2> HIDE DEF P, D
  <2> QED BY <2>1, <2>2, <2>3 DEF NativeTyped
<1>7. pending' \in [gen : Nat, to : [Pieces -> Maybe \cup {Unchanged}]]
      /\ Underway' = {} /\ pending'.gen = 0
  BY <1>1 DEF NoChange, Underway
<1>8. native'.have = native.have /\ untold' \in SUBSET Pieces
  BY <1>1 DEF Applied, NativeTyped
<1>9. \A p \in Pieces \ Underway : /\ native'.prio[p] = native.prio[p]
                                   /\ native'.deadline[p] = native.deadline[p]
  BY <1>1 DEF Applied, NativeTyped, Underway
<1>10. \A p \in Underway \ native.have :
              LET to == pending.to[p] IN
              /\ native'.deadline[p] = IF to = Nothing THEN NoDeadline ELSE to.deadline
              /\ to # Nothing => native'.prio[p] = to.prio
  BY <1>1 DEF Applied, NativeTyped, Underway
<1> QED BY <1>1, <1>6, <1>7, <1>8, <1>9, <1>10 DEF NativeTyped

ReaderActs(s) ==
  \/ \E f \in Files : Select(s, f)
  \/ Activate(s) \/ Acknowledged(s) \/ HotWindow(s) \/ ApplyHotWindow(s)
  \/ Superseded(s) \/ AckFails(s) \/ Abandon(s) \/ MoveWindow(s) \/ Close(s)
WorkerActs ==
  \/ HandleReplace \/ HandleRelease \/ WorkerApplies \/ HandleVerified
  \/ \E p \in Pieces : PieceFinishes(p)

\* Nothing is on its way while the mutex is free or its holder has just got it.
LEMMA NothingUnderway ==
  ASSUME Serialised, ReadersTyped
  PROVE  /\ busy = NoTask => Underway = {}
         /\ \A s \in Streams : reader[s].pc \in {"acking", "window"} => Underway = {}
BY WindowsAssumption DEF Serialised

\* The mutex is passed on with nothing on its way.
LEMMA StaysSerialised ==
  ASSUME TrackingInv, TrackingInv', ToldInv, Next
  PROVE  Serialised'
<1> /\ Serialised /\ NativeTyped /\ ReadersTyped /\ Worker \notin Streams
    /\ NoTask \notin Streams /\ NoTask # Worker
  BY TypedPieces, WindowsAssumption DEF ToldInv
<1> USE DEF Serialised, MoveTo, ReadersTyped, Fails
<1>1. ASSUME NEW s \in Streams, ReaderActs(s) PROVE Serialised'
  <2>1. ASSUME NEW f \in Files, Select(s, f) PROVE Serialised'
    BY <2>1 DEF Select, Underway
  <2>2. CASE Activate(s)
    <3>1. Underway = {}
      BY <2>2, NothingUnderway DEF Activate
    <3> QED BY <2>2, <3>1 DEF Activate, Underway
  <2>3. CASE Acknowledged(s)
    BY <2>3, NothingUnderway DEF Acknowledged, Underway
  <2>4. CASE HotWindow(s)
    BY <2>4 DEF HotWindow
  <2>5. CASE ApplyHotWindow(s)
    <3>1. Underway' = {}
      BY <2>5, ApplyTold DEF ApplyHotWindow
    <3>2. busy = s
      BY <2>5 DEF ApplyHotWindow
    <3> QED BY <2>5, <3>1, <3>2 DEF ApplyHotWindow
  <2>6. CASE Superseded(s)
    BY <2>6, NothingUnderway DEF Superseded, Underway
  <2>7. CASE AckFails(s)
    BY <2>7, NothingUnderway DEF AckFails, Underway
  <2>8. CASE Abandon(s)
    <3>1. CASE busy = s
      <4>1. Underway' = {}
        BY <2>8, <3>1 DEF Abandon, NoChange, Underway
      <4> QED BY <2>8, <3>1, <4>1 DEF Abandon
    <3>2. CASE busy # s
      BY <2>8, <3>2 DEF Abandon, Underway
    <3> QED BY <3>1, <3>2
  <2>9. CASE MoveWindow(s)
    BY <2>9 DEF MoveWindow, Underway
  <2>10. CASE Close(s)
    <3>1. reader[s].pc = "reading" /\ UNCHANGED Underway
      BY <2>10 DEF Close, Underway
    <3> QED BY <2>10, <3>1 DEF Close
  <2> QED BY <1>1, <2>1, <2>2, <2>3, <2>4, <2>5, <2>6, <2>7, <2>8, <2>9, <2>10 DEF ReaderActs
<1>2. ASSUME WorkerActs PROVE Serialised'
  <2>1. CASE HandleReplace
    BY <2>1, NothingUnderway DEF HandleReplace, Underway
  <2>2. CASE HandleRelease
    BY <2>2, NothingUnderway DEF HandleRelease, Underway
  <2>3. CASE WorkerApplies
    <3>1. Underway' = {}
      BY <2>3, ApplyTold DEF WorkerApplies, Baseline
    <3> QED BY <2>3, <3>1 DEF WorkerApplies
  <2>4. CASE HandleVerified
    BY <2>4 DEF HandleVerified, Underway
  <2>5. ASSUME NEW p \in Pieces, PieceFinishes(p) PROVE Serialised'
    BY <2>5 DEF PieceFinishes, Underway
  <2> QED BY <1>2, <2>1, <2>2, <2>3, <2>4, <2>5 DEF WorkerActs
<1> QED BY <1>1, <1>2 DEF Next, ReaderActs, WorkerActs

\* What libtorrent has stays, and only what it has is announced.
LEMMA VerifiedStays ==
  ASSUME TrackingInv, ToldInv, Next
  PROVE  VerifiedIsThere'
<1> /\ VerifiedIsThere /\ NativeTyped /\ queue \in Seq(Command) /\ ReadersTyped
  BY TypedPieces DEF ToldInv
<1> DEFINE Sent(c) == queue' = Append(queue, c) /\ c \in Command
<1>1. ASSUME native'.have = native.have,
             \/ UNCHANGED queue
             \/ queue # <<>> /\ queue' = Tail(queue)
             \/ \E c \in Command : Sent(c) /\ c.type # "verified"
      PROVE  VerifiedIsThere'
  BY <1>1, AppendedAt, TailAt DEF VerifiedIsThere
<1>2. ASSUME NEW s \in Streams PROVE ReleaseOf(s) \in Command /\ ReleaseOf(s).type = "release"
  BY SentTyped DEF ReadersTyped, ReleaseOf
<1>3. ASSUME NEW s \in Streams, ReaderActs(s) PROVE VerifiedIsThere'
  <2>1. ASSUME NEW f \in Files, Select(s, f) PROVE VerifiedIsThere'
    BY <1>1, <2>1 DEF Select
  <2>2. CASE Activate(s)
    BY <1>1, <2>2 DEF Activate, NativeTyped
  <2>3. CASE Acknowledged(s) \/ HotWindow(s)
    BY <1>1, <2>3 DEF Acknowledged, HotWindow
  <2>4. CASE ApplyHotWindow(s)
    <3>1. native'.have = native.have
      BY <2>4, ApplyTold DEF ApplyHotWindow
    <3> QED BY <1>1, <1>2, <2>4, <3>1 DEF ApplyHotWindow, Fails
  <2>5. CASE Superseded(s) \/ AckFails(s) \/ Abandon(s) \/ Close(s)
    BY <1>1, <1>2, <2>5 DEF Superseded, AckFails, Abandon, Close, Fails
  <2>6. CASE MoveWindow(s)
    <3>1. PICK w \in Window : queue' = Append(queue, Replace(s, w))
      BY <2>6, ComputedWindows DEF MoveWindow
    <3>2. Replace(s, w) \in Command /\ Replace(s, w).type = "replace"
      BY SentTyped DEF ReadersTyped, Replace
    <3> QED BY <1>1, <2>6, <3>1, <3>2 DEF MoveWindow
  <2> QED BY <1>3, <2>1, <2>2, <2>3, <2>4, <2>5, <2>6 DEF ReaderActs
<1>4. ASSUME WorkerActs PROVE VerifiedIsThere'
  <2>1. CASE HandleReplace \/ HandleRelease \/ HandleVerified
    BY <1>1, <2>1 DEF HandleReplace, HandleRelease, HandleVerified, Receive
  <2>2. CASE WorkerApplies
    <3>1. native'.have = native.have
      BY <2>2, ApplyTold DEF WorkerApplies, Baseline
    <3> QED BY <1>1, <2>2, <3>1 DEF WorkerApplies
  <2>3. ASSUME NEW p \in Pieces, PieceFinishes(p) PROVE VerifiedIsThere'
    <3>1. /\ Verified(p) \in Command /\ Verified(p).piece = p
          /\ queue' = Append(queue, Verified(p))
          /\ native'.have = native.have \cup {p}
      BY <2>3 DEF PieceFinishes, Verified, Command, NativeTyped
    <3> QED BY <3>1, AppendedAt DEF VerifiedIsThere
  <2> QED BY <1>4, <2>1, <2>2, <2>3 DEF WorkerActs
<1> QED BY <1>3, <1>4 DEF Next, ReaderActs, WorkerActs

\* A reader of this generation keeps what it has: the acknowledged vector is that of
\* the selected file until the selection changes.
LEMMA StaysBacked ==
  ASSUME NEW s \in Streams, Backed(s), gen' = gen, sel' = sel, ack' \in {ack, sel},
         /\ reader'[s].gen = reader[s].gen /\ reader'[s].file = reader[s].file
         /\ reader[s].pc = "idle" => reader'[s].pc = "idle",
         /\ reader'[s].pc \in {"window", "applying", "reading"} =>
              reader[s].pc \in {"window", "applying", "reading"},
         /\ \A i \in DOMAIN queue' : Sends(queue'[i], "replace", s) =>
              \/ reader[s].pc = "reading"
              \/ \E j \in DOMAIN queue : Sends(queue[j], "replace", s),
         \/ windows'[s] = NoWindow \/ windows[s] # NoWindow
         \/ reader[s].gen = gen /\ \E j \in DOMAIN queue : Sends(queue[j], "replace", s)
         \/ reader[s].gen = gen /\ reader[s].pc = "window"
  PROVE  Backed(s)'
BY DEF Backed, Sends

LEMMA StaysAcknowledged ==
  ASSUME FollowInv, TrackingInv', Next
  PROVE  Acknowledgement'
<1> /\ queue \in Seq(Command) /\ ReadersTyped /\ windows \in [Streams -> Window]
    /\ ReadersTyped'
  BY TypedPieces DEF FollowInv, TrackingInv
<1> \A s \in Streams : Backed(s) /\ Steered(s)
  BY DEF FollowInv, ToldInv, Acknowledgement, StewardInv
<1> SUFFICES ASSUME NEW t \in Streams PROVE Backed(t)'
  BY DEF Acknowledgement
<1> DEFINE Sent(c) == queue' = Append(queue, c) /\ c \in Command
<1>1. ASSUME queue' = queue \/ (queue # <<>> /\ queue' = Tail(queue))
      PROVE  \A i \in DOMAIN queue' : Sends(queue'[i], "replace", t) =>
               \E j \in DOMAIN queue : Sends(queue[j], "replace", t)
  BY <1>1, TailAt
<1>2. ASSUME NEW c \in Command, Sent(c), c.type = "replace" => c.stream # t
      PROVE  \A i \in DOMAIN queue' : Sends(queue'[i], "replace", t) =>
               \E j \in DOMAIN queue : Sends(queue[j], "replace", t)
  BY <1>2, AppendedAt DEF Sends
<1>3. ASSUME NEW s \in Streams PROVE ReleaseOf(s) \in Command /\ ReleaseOf(s).type = "release"
  BY SentTyped DEF ReadersTyped, ReleaseOf
<1>4. ASSUME NEW s \in Streams, Fails(s), UNCHANGED <<gen, sel, ack, windows>>,
             reader[s].pc # "idle"
      PROVE  Backed(t)'
  <2>1. /\ reader'[t].gen = reader[t].gen /\ reader'[t].file = reader[t].file
        /\ reader'[t].pc \in {reader[t].pc, "closed"}
        /\ reader[t].pc = "idle" => reader'[t].pc = "idle"
    BY <1>4 DEF Fails, MoveTo, ReadersTyped
  <2>2. Sent(ReleaseOf(s)) /\ ReleaseOf(s).type # "replace"
    BY <1>3, <1>4 DEF Fails
  <2>3. \A i \in DOMAIN queue' : Sends(queue'[i], "replace", t) =>
               \E j \in DOMAIN queue : Sends(queue[j], "replace", t)
    BY <1>2, <1>3, <2>2
  <2> QED BY <1>4, <2>1, <2>3, StaysBacked
<1>5. ASSUME NEW s \in Streams, ReaderActs(s) PROVE Backed(t)'
  <2>1. ASSUME NEW f \in Files, Select(s, f) PROVE Backed(t)'
    <3>1. CASE sel # f
      <4>1. /\ gen' = gen + 1 /\ sel' = f /\ windows'[t] = NoWindow
            /\ reader'[t] = IF t = s THEN [pc |-> "selected", gen |-> gen + 1, file |-> f,
                                           changed |-> sel # f] ELSE reader[t]
            /\ reader[s].pc = "idle" /\ UNCHANGED queue
        BY <2>1, <3>1 DEF Select, ClearTracking, ReadersTyped
      <4>2. CASE t # s
        BY <4>1, <4>2 DEF Backed, ReadersTyped
      <4>3. CASE t = s
        BY <4>1, <4>3 DEF Backed, ReadersTyped, Steered, Stamped, Sends
      <4> QED BY <4>2, <4>3
    <3>2. CASE sel = f
      <4>1. /\ gen' = gen /\ sel' = f /\ UNCHANGED <<windows, ack, queue>>
            /\ reader'[t] = IF t = s THEN [pc |-> "selected", gen |-> gen, file |-> f,
                                           changed |-> FALSE] ELSE reader[t]
            /\ reader[s].pc = "idle"
        BY <2>1, <3>2 DEF Select, ReadersTyped
      <4>2. CASE t # s
        BY <3>2, <4>1, <4>2 DEF Backed, ReadersTyped
      <4>3. CASE t = s
        BY <3>2, <4>1, <4>3 DEF Backed, ReadersTyped, Steered, Stamped, Held, Sends
      <4> QED BY <4>2, <4>3
    <3> QED BY <3>1, <3>2
  <2>2. CASE Activate(s)
    <3>1. /\ UNCHANGED <<gen, sel, ack, windows, queue>> /\ Current(s)
          /\ reader'[t].gen = reader[t].gen /\ reader'[t].file = reader[t].file
          /\ reader'[t].pc = IF t = s THEN IF ack # reader[s].file THEN "acking" ELSE "window"
                             ELSE reader[t].pc
          /\ reader[s].pc = "selected"
      BY <2>2 DEF Activate, MoveTo, ReadersTyped
    <3>2. CASE t = s
      BY <3>1, <3>2 DEF Backed, Current, Sends, ReadersTyped
    <3>3. CASE t # s
      BY <3>1, <3>3, StaysBacked
    <3> QED BY <3>2, <3>3
  <2>3. CASE Acknowledged(s)
    <3>1. /\ UNCHANGED <<gen, sel, windows, queue>> /\ ack' = sel
          /\ reader'[t].gen = reader[t].gen /\ reader'[t].file = reader[t].file
          /\ reader'[t].pc = IF t = s THEN "window" ELSE reader[t].pc
          /\ reader[s].pc = "acking"
      BY <2>3 DEF Acknowledged, MoveTo, ReadersTyped, Backed
    <3> QED BY <3>1 DEF Backed, Sends, ReadersTyped
  <2>4. CASE HotWindow(s)
    <3>1. /\ UNCHANGED <<gen, sel, ack, queue>> /\ reader[s].pc = "window" /\ Current(s)
          /\ reader'[t].gen = reader[t].gen /\ reader'[t].file = reader[t].file
          /\ reader'[t].pc = IF t = s THEN "applying" ELSE reader[t].pc
          /\ t # s => windows'[t] = windows[t]
      BY <2>4 DEF HotWindow, Reconcile, MoveTo, ReadersTyped
    <3> QED BY <3>1, StaysBacked DEF Current
  <2>5. CASE ApplyHotWindow(s)
    <3>1. CASE Current(s)
      <4>1. /\ UNCHANGED <<gen, sel, ack, queue, windows>> /\ reader[s].pc = "applying"
            /\ reader'[t].gen = reader[t].gen /\ reader'[t].file = reader[t].file
            /\ reader'[t].pc = IF t = s THEN "reading" ELSE reader[t].pc
        BY <2>5, <3>1 DEF ApplyHotWindow, MoveTo, ReadersTyped
      <4> QED BY <4>1, StaysBacked
    <3>2. CASE ~Current(s)
      BY <1>4, <2>5, <3>2 DEF ApplyHotWindow
    <3> QED BY <3>1, <3>2
  <2>6. CASE Superseded(s) \/ AckFails(s) \/ Abandon(s) \/ Close(s)
    BY <1>4, <2>6 DEF Superseded, AckFails, Abandon, Close
  <2>7. CASE MoveWindow(s)
    <3>1. PICK w \in Window : queue' = Append(queue, Replace(s, w))
      BY <2>7, ComputedWindows DEF MoveWindow
    <3>2. Replace(s, w) \in Command /\ Replace(s, w).stream = s
      BY SentTyped DEF ReadersTyped, Replace
    <3>3. UNCHANGED <<gen, sel, ack, windows, reader>> /\ reader[s].pc = "reading"
      BY <2>7 DEF MoveWindow
    <3>4. CASE t = s
      BY <3>3, <3>4, StaysBacked
    <3>5. CASE t # s
      BY <1>2, <3>1, <3>2, <3>3, <3>5, StaysBacked
    <3> QED BY <3>4, <3>5
  <2> QED BY <1>5, <2>1, <2>2, <2>3, <2>4, <2>5, <2>6, <2>7 DEF ReaderActs
<1>6. ASSUME WorkerActs PROVE Backed(t)'
  <2>1. CASE HandleReplace
    <3>1. /\ UNCHANGED <<gen, sel, ack, reader>> /\ queue # <<>> /\ queue' = Tail(queue)
          /\ Head(queue).type = "replace"
      BY <2>1 DEF HandleReplace, Receive
    <3>2. CASE IsCurrent(Head(queue)) /\ Head(queue).stream = t
      <4>1. 1 \in DOMAIN queue /\ Sends(queue[1], "replace", t) /\ queue[1].gen = gen
        BY <3>1, <3>2, TailAt DEF Sends, IsCurrent
      <4>2. reader[t].gen = gen
        BY <4>1 DEF Steered, Stamped
      <4> QED BY <1>1, <3>1, <4>1, <4>2, StaysBacked
    <3>3. CASE ~(IsCurrent(Head(queue)) /\ Head(queue).stream = t)
      <4>1. windows'[t] = windows[t]
        BY <2>1, <3>3 DEF HandleReplace, Reconcile
      <4> QED BY <1>1, <3>1, <4>1, StaysBacked
    <3> QED BY <3>2, <3>3
  <2>2. CASE HandleRelease
    <3>1. /\ UNCHANGED <<gen, sel, ack, reader>> /\ queue # <<>> /\ queue' = Tail(queue)
          /\ windows'[t] \in {windows[t], NoWindow}
      BY <2>2 DEF HandleRelease, Receive, Reconcile
    <3> QED BY <1>1, <3>1, StaysBacked
  <2>3. CASE WorkerApplies
    BY <1>1, <2>3, StaysBacked DEF WorkerApplies
  <2>4. CASE HandleVerified
    <3>1. /\ UNCHANGED <<gen, sel, ack, reader>> /\ queue # <<>> /\ queue' = Tail(queue)
          /\ windows[t] = NoWindow => windows'[t] = NoWindow
      BY <2>4 DEF HandleVerified, Receive, Forget, NoWindow
    <3> QED BY <1>1, <3>1, StaysBacked
  <2>5. ASSUME NEW p \in Pieces, PieceFinishes(p) PROVE Backed(t)'
    <3>1. Verified(p) \in Command /\ Verified(p).type = "verified" /\ Sent(Verified(p))
          /\ UNCHANGED <<gen, sel, ack, reader, windows>>
      BY <2>5 DEF PieceFinishes, Verified, Command
    <3> QED BY <1>2, <3>1, StaysBacked
  <2> QED BY <1>6, <2>1, <2>2, <2>3, <2>4, <2>5 DEF WorkerActs
<1> QED BY <1>5, <1>6 DEF Next, ReaderActs, WorkerActs

\* The coordinator's steps that leave libtorrent and what it was told alone.
Untouched == UNCHANGED <<gen, windows, effective, pending, native, untold>>

LEMMA UntouchedFollows ==
  ASSUME ToldInv, Untouched
  PROVE  NativeTyped' /\ InFlight' /\ Following'
BY DEF ToldInv, Untouched, NativeTyped, InFlight, Following, Follows, Underway

\* A reconciliation by the holder of the mutex.
LEMMA ReconcileFollows ==
  ASSUME TrackingInv, TrackingInv', ToldInv, Underway = {}, NEW s \in Streams, NEW w,
         Reconcile(s, w), UNCHANGED <<gen, native, untold>>
  PROVE  NativeTyped' /\ InFlight' /\ Following'
<1>1. /\ pending' \in [gen : Nat, to : [Pieces -> Maybe \cup {Unchanged}]]
      /\ pending'.gen = gen
      /\ \A p \in Underway' : pending'.to[p] = effective'[p]
      /\ \A p \in Pieces \ Underway' : effective'[p] = effective[p]
  BY ReconcileTyped
<1>2. NativeTyped'
  BY <1>1 DEF ToldInv, NativeTyped
<1>3. gen \in Nat
  BY DEF TrackingInv, ReadersTyped
<1>4. InFlight'
  BY <1>1, <1>3 DEF InFlight
<1>5. Following'
  BY <1>1 DEF ToldInv, Following, Follows
<1> QED BY <1>2, <1>4, <1>5

\* Telling libtorrent: what was on its way is what the merge is, or it is known to
\* be of an older selection.
LEMMA ApplyFollows ==
  ASSUME TrackingInv, ToldInv, NEW b \in {0, 1}, Apply(b), UNCHANGED <<gen, effective>>
  PROVE  NativeTyped' /\ InFlight' /\ Following'
<1>1. /\ NativeTyped' /\ Underway' = {} /\ pending'.gen = 0 /\ native'.have = native.have
      /\ untold' = IF pending.gen = gen THEN untold \ Underway ELSE untold
      /\ \A p \in Pieces \ Underway : /\ native'.prio[p] = native.prio[p]
                                      /\ native'.deadline[p] = native.deadline[p]
      /\ \A p \in Underway \ native.have :
           LET to == pending.to[p] IN
           /\ native'.deadline[p] = IF to = Nothing THEN NoDeadline ELSE to.deadline
           /\ to # Nothing => native'.prio[p] = to.prio
  BY ApplyTold DEF ToldInv
<1>2. InFlight'
  BY <1>1 DEF InFlight, TrackingInv, ReadersTyped
<1>3. ASSUME NEW p \in Pieces, p \notin native.have \cup untold'
      PROVE  /\ native'.deadline[p] = IF effective[p] = Nothing THEN NoDeadline
                                      ELSE effective[p].deadline
             /\ effective[p] # Nothing => native'.prio[p] = effective[p].prio
  <2>1. CASE p \in Underway
    <3>1. pending.gen = gen /\ pending.to[p] = effective[p]
      BY <1>1, <1>3, <2>1 DEF ToldInv, InFlight
    <3> QED BY <1>1, <1>3, <2>1, <3>1
  <2>2. CASE p \notin Underway
    <3>1. p \notin native.have \cup Underway \cup untold
      BY <1>1, <1>3, <2>2
    <3> QED BY <1>1, <2>2, <3>1 DEF ToldInv, Following, Follows
  <2> QED BY <2>1, <2>2
<1>4. Following'
  BY <1>1, <1>3 DEF Following, Follows
<1> QED BY <1>1, <1>2, <1>4

\* A new selection: nothing that was said before is about it.
LEMMA SelectFollows ==
  ASSUME TrackingInv, ToldInv, NEW s \in Streams, NEW f \in Files, Select(s, f)
  PROVE  NativeTyped' /\ InFlight' /\ Following'
<1>1. CASE sel # f
  <2>1. gen' = gen + 1 /\ untold' = Pieces /\ UNCHANGED <<pending, native>>
    BY <1>1 DEF Select
  <2>2. gen \in Nat
    BY DEF TrackingInv, ReadersTyped
  <2>3. Underway' = Underway /\ Underway \subseteq Pieces
    BY <2>1 DEF Underway
  <2> QED BY <2>1, <2>2, <2>3 DEF ToldInv, NativeTyped, InFlight, Following, Follows
<1>2. CASE sel = f
  BY <1>2, UntouchedFollows DEF Select, Untouched
<1> QED BY <1>1, <1>2

\* The activation that takes away the old deadlines, and submits the priority vector
\* only when nobody has a window yet.
LEMMA ActivateFollows ==
  ASSUME FollowInv, NEW s \in Streams, Activate(s)
  PROVE  NativeTyped' /\ InFlight' /\ Following'
<1> DEFINE f == reader[s].file
<1>0. /\ NativeTyped /\ InFlight /\ Following /\ Serialised /\ TrackingInv /\ ReadersTyped
      /\ \A t \in Streams : Backed(t)
  BY TypedPieces DEF FollowInv, ToldInv, Acknowledgement
<1>1. /\ native' = [native EXCEPT
           !.deadline = IF reader[s].changed THEN [p \in Pieces |-> NoDeadline] ELSE native.deadline,
           !.prio     = IF ack # f THEN FilePriorities(f) ELSE native.prio]
      /\ untold' = IF reader[s].changed THEN Keys(effective) ELSE untold
      /\ UNCHANGED <<gen, sel, effective, windows, pending>> /\ f = sel
  BY DEF Activate, Current
<1>2. Underway = {} /\ Underway' = {}
  BY <1>0, <1>1, NothingUnderway DEF Activate, Underway
<1>3. NativeTyped'
  <2>1. FilePriorities(f) \in [Pieces -> Nat] /\ [p \in Pieces |-> NoDeadline] \in [Pieces -> Nat]
    BY WindowsAssumption DEF FilePriorities
  <2>2. native' \in [prio : [Pieces -> Nat], deadline : [Pieces -> Nat], have : SUBSET Pieces]
    <3> DEFINE P == IF ack # f THEN FilePriorities(f) ELSE native.prio
               D == IF reader[s].changed THEN [p \in Pieces |-> NoDeadline] ELSE native.deadline
    <3>1. P \in [Pieces -> Nat] /\ D \in [Pieces -> Nat]
      BY <1>0, <2>1 DEF NativeTyped
    <3>2. native' = [native EXCEPT !.deadline = D, !.prio = P]
      BY <1>1
    <3> HIDE DEF P, D
    <3> QED BY <1>0, <3>1, <3>2 DEF NativeTyped
  <2>3. untold' \in SUBSET Pieces
    BY <1>0, <1>1 DEF NativeTyped, Keys
  <2> QED BY <1>0, <1>1, <2>2, <2>3 DEF NativeTyped
<1>4. InFlight'
  BY <1>0, <1>1, <1>2 DEF InFlight
<1>5. ASSUME NEW p \in Pieces, effective[p] # Nothing PROVE ack = f
  <2>1. Merged(windows, p) # Nothing
    BY <1>0, <1>5 DEF TrackingInv, EffectiveIsMerge
  <2>2. PICK t \in Streams : windows[t][p] # Nothing
    BY <2>1, MergeOfNothing
  <2>3. windows[t] # NoWindow
    BY <2>2 DEF NoWindow
  <2> QED BY <1>0, <1>1, <2>3 DEF Backed
<1>6. Following'
  <2> SUFFICES ASSUME NEW p \in Pieces, p \notin native'.have \cup Underway' \cup untold'
               PROVE  /\ native'.deadline[p] = IF effective'[p] = Nothing THEN NoDeadline
                                               ELSE effective'[p].deadline
                      /\ effective'[p] # Nothing => native'.prio[p] = effective'[p].prio
    BY DEF Following, Follows
  <2>1. native'.have = native.have /\ effective' = effective
    BY <1>0, <1>1 DEF NativeTyped
  <2>2. CASE reader[s].changed
    <3>1. effective[p] = Nothing
      BY <1>1, <2>2 DEF Keys
    <3>2. native'.deadline[p] = NoDeadline
      BY <1>0, <1>1, <2>2 DEF NativeTyped
    <3> QED BY <2>1, <3>1, <3>2
  <2>3. CASE ~reader[s].changed
    <3>1. p \notin native.have \cup Underway \cup untold
      BY <1>1, <1>2, <2>1, <2>3
    <3>2. Follows(p)
      BY <1>0 DEF Following
    <3>3. native'.deadline = native.deadline
      BY <1>0, <1>1, <2>3 DEF NativeTyped
    <3>4. effective[p] # Nothing => native'.prio = native.prio
      BY <1>0, <1>1, <1>5 DEF NativeTyped
    <3> QED BY <2>1, <3>1, <3>2, <3>3, <3>4 DEF Follows
  <2> QED BY <2>2, <2>3
<1> QED BY <1>3, <1>4, <1>6

\* A verified piece is forgotten: libtorrent has it.
LEMMA ForgetFollows ==
  ASSUME TrackingInv, ToldInv, NEW q \in native.have, Forget(q),
         UNCHANGED <<gen, pending, native, untold>>
  PROVE  NativeTyped' /\ InFlight' /\ Following'
<1>1. effective \in [Pieces -> Maybe] /\ Underway' = Underway /\ Underway \subseteq Pieces
  BY EffectiveTyped DEF TrackingInv, Underway
<1>2. \A p \in Pieces : p # q => effective'[p] = effective[p]
  BY <1>1 DEF Forget
<1> QED BY <1>1, <1>2 DEF ToldInv, NativeTyped, InFlight, Following, Follows

\* A piece that finishes needs no deadline any more.
LEMMA FinishFollows ==
  ASSUME ToldInv, NEW q \in Pieces, PieceFinishes(q)
  PROVE  NativeTyped' /\ InFlight' /\ Following'
<1>1. /\ native' = [native EXCEPT !.have = native.have \cup {q}, !.deadline[q] = NoDeadline]
      /\ UNCHANGED <<gen, effective, pending, untold>> /\ Underway' = Underway
  BY DEF PieceFinishes, Underway
<1>2. NoDeadline \in Nat
  BY WindowsAssumption
<1>3. /\ native'.prio = native.prio /\ native'.have = native.have \cup {q}
      /\ native'.deadline = [native.deadline EXCEPT ![q] = NoDeadline]
      /\ native.deadline \in [Pieces -> Nat]
      /\ native' \in [prio : [Pieces -> Nat], deadline : [Pieces -> Nat], have : SUBSET Pieces]
  BY <1>1, <1>2 DEF ToldInv, NativeTyped
<1>4. \A p \in Pieces : p # q => native'.deadline[p] = native.deadline[p]
  BY <1>3
<1> QED BY <1>1, <1>3, <1>4 DEF ToldInv, NativeTyped, InFlight, Following, Follows

LEMMA StaysTold ==
  ASSUME FollowInv, TrackingInv', Next
  PROVE  NativeTyped' /\ InFlight' /\ Following'
<1> /\ TrackingInv /\ ToldInv /\ Serialised /\ ReadersTyped /\ VerifiedIsThere /\ NativeTyped
    /\ queue \in Seq(Command)
  BY TypedPieces DEF FollowInv, ToldInv
<1> DEFINE Goal == NativeTyped' /\ InFlight' /\ Following'
<1>1. ASSUME NEW s \in Streams, ReaderActs(s) PROVE Goal
  <2>1. ASSUME NEW f \in Files, Select(s, f) PROVE Goal
    BY <2>1, SelectFollows
  <2>2. CASE Activate(s)
    BY <2>2, ActivateFollows
  <2>3. CASE Acknowledged(s) \/ Superseded(s) \/ AckFails(s) \/ MoveWindow(s) \/ Close(s)
    BY <2>3, UntouchedFollows DEF Acknowledged, Superseded, AckFails, MoveWindow, Close, Untouched
  <2>4. CASE HotWindow(s)
    <3>1. PICK w \in WindowsOf(sel) : Reconcile(s, w)
      BY <2>4 DEF HotWindow
    <3>2. Underway = {} /\ UNCHANGED <<gen, native, untold>>
      BY <2>4, NothingUnderway DEF HotWindow
    <3> QED BY <3>1, <3>2, ReconcileFollows
  <2>5. CASE ApplyHotWindow(s)
    BY <2>5, ApplyFollows DEF ApplyHotWindow
  <2>6. CASE Abandon(s)
    <3>1. CASE busy = s
      <4>1. /\ UNCHANGED <<gen, effective, native>> /\ pending' = NoChange
            /\ untold' = untold \cup Underway
        BY <2>6, <3>1 DEF Abandon
      <4>2. Underway' = {} /\ pending'.gen = 0
            /\ pending' \in [gen : Nat, to : [Pieces -> Maybe \cup {Unchanged}]]
        BY <4>1 DEF NoChange, Underway
      <4>3. Underway \subseteq Pieces /\ gen \in Nat
        BY DEF Underway, ReadersTyped
      <4> QED BY <4>1, <4>2, <4>3 DEF ToldInv, NativeTyped, InFlight, Following, Follows
    <3>2. CASE busy # s
      BY <2>6, <3>2, UntouchedFollows DEF Abandon, Untouched
    <3> QED BY <3>1, <3>2
  <2> QED BY <1>1, <2>1, <2>2, <2>3, <2>4, <2>5, <2>6 DEF ReaderActs
<1>2. ASSUME WorkerActs PROVE Goal
  <2>1. CASE HandleReplace
    <3>1. CASE IsCurrent(Head(queue))
      <4>1. /\ Reconcile(Head(queue).stream, Head(queue).window)
            /\ Underway = {} /\ UNCHANGED <<gen, native, untold>>
        BY <2>1, <3>1, NothingUnderway DEF HandleReplace
      <4>2. Head(queue).stream \in Streams
        BY <2>1, QueueTyped DEF HandleReplace, Receive, Command
      <4> QED BY <4>1, <4>2, ReconcileFollows
    <3>2. CASE ~IsCurrent(Head(queue))
      BY <2>1, <3>2, UntouchedFollows DEF HandleReplace, Untouched
    <3> QED BY <3>1, <3>2
  <2>2. CASE HandleRelease
    <3>1. CASE IsCurrent(Head(queue))
      <4>1. /\ Reconcile(Head(queue).stream, NoWindow)
            /\ Underway = {} /\ UNCHANGED <<gen, native, untold>>
        BY <2>2, <3>1, NothingUnderway DEF HandleRelease
      <4>2. Head(queue).stream \in Streams
        BY <2>2, QueueTyped DEF HandleRelease, Receive, Command
      <4> QED BY <4>1, <4>2, ReconcileFollows
    <3>2. CASE ~IsCurrent(Head(queue))
      BY <2>2, <3>2, UntouchedFollows DEF HandleRelease, Untouched
    <3> QED BY <3>1, <3>2
  <2>3. CASE WorkerApplies
    BY <2>3, ApplyFollows DEF WorkerApplies, Baseline
  <2>4. CASE HandleVerified
    <3>1. Head(queue).piece \in native.have
      BY <2>4, TailAt DEF HandleVerified, Receive, VerifiedIsThere
    <3> QED BY <2>4, <3>1, ForgetFollows DEF HandleVerified
  <2>5. ASSUME NEW p \in Pieces, PieceFinishes(p) PROVE Goal
    BY <2>5, FinishFollows
  <2> QED BY <1>2, <2>1, <2>2, <2>3, <2>4, <2>5 DEF WorkerActs
<1> QED BY <1>1, <1>2 DEF Next, ReaderActs, WorkerActs

\* Nothing happens: nothing changes.
LEMMA StutterFollows ==
  ASSUME FollowInv, UNCHANGED vars
  PROVE  ToldInv'
BY DEF vars, FollowInv, ToldInv, NativeTyped, Serialised, VerifiedIsThere, Acknowledgement,
       Backed, InFlight, Following, Follows, Underway, Sends

\* What is told of the tracked assignments is told of the merge they are.
LEMMA FollowingIsSo == FollowInv => LibtorrentFollows
BY DEF FollowInv, TrackingInv, ToldInv, Following, Follows, EffectiveIsMerge, LibtorrentFollows

\* For any streams, files and pieces: whatever opens, moves, is dropped or superseded,
\* each missing piece has in libtorrent the priority and the deadline that the merge of
\* the windows asks for, but for changes on their way and what is accounted as untold.
THEOREM LibtorrentIsTold == Spec => []LibtorrentFollows
<1>1. Init => FollowInv
  <2>1. Init => StewardInv
    BY DEF Init, NoReader, StewardInv, Steered, Held, Stamped, Leaving, Sends
  <2> QED BY <2>1, TrackingInit, ToldInit DEF FollowInv
<1>2. FollowInv /\ [Next]_vars => FollowInv'
  <2> SUFFICES ASSUME FollowInv, [Next]_vars PROVE FollowInv'
    OBVIOUS
  <2>1. TrackingInv /\ StewardInv /\ ToldInv /\ TrackingInv'
    BY TrackingStep DEF FollowInv
  <2>2. CASE UNCHANGED vars
    <3>1. StewardInv'
      BY <2>1, <2>2, OthersSteered DEF vars, StewardInv
    <3> QED BY <2>1, <2>2, <3>1, StutterFollows DEF FollowInv
  <2>3. CASE Next
    <3>1. StewardInv'
      BY <2>1, <2>3, ReaderSteers, WorkerSteers DEF Next
    <3>2. ToldInv'
      BY <2>1, <2>3, StaysSerialised, VerifiedStays, StaysAcknowledged, StaysTold DEF ToldInv
    <3> QED BY <2>1, <3>1, <3>2 DEF FollowInv
  <2> QED BY <2>2, <2>3
<1> QED BY <1>1, <1>2, FollowingIsSo, PTL DEF Spec
=============================================================================
