-------------------------- MODULE PriorityWindows --------------------------
(***************************************************************************)
(* ActivePriorityWindows: the piece priorities and deadlines the readers   *)
(* of a torrent ask for, their merge, and how changes of the merge reach   *)
(* libtorrent.  Tracking changes under the state mutex, libtorrent is told *)
(* later under the operation mutex (busy); in between a piece may finish,  *)
(* a newer file may be selected and the reader's future may be dropped.    *)
(*                                                                         *)
(* A file is opened at priority 1; pauses are left to PlaybackCoordinator, *)
(* and the single pieces a memory reader asks libtorrent for itself are    *)
(* not windows: native is what windows and selections made of it.          *)
(***************************************************************************)
EXTENDS Naturals, Sequences, FiniteSetsExt

CONSTANTS
  Streams,   \* stream ids: a counter gives every reader its own
  Files, NoFile,
  Pieces,
  PiecesOf,  \* the pieces of each file; neighbours share a boundary piece
  Deadlines, \* deadlines in milliseconds, as ranks
  NoDeadline, \* no deadline: later than every deadline
  Nothing,   \* Option::None for an assignment
  Unchanged, \* a piece no pending change is about
  Worker, NoTask,
  MaxMoves,  \* bound on windows moved
  MayAbandon \* whether request futures may be dropped

Assignment == [prio : 1..7, deadline : Deadlines \cup {NoDeadline}]
ASSUME WindowsAssumption ==
  /\ NoFile \notin Files
  /\ PiecesOf \in [Files -> SUBSET Pieces]
  /\ Deadlines \subseteq Nat /\ 0 \in Deadlines /\ NoDeadline \in Nat
  /\ \A d \in Deadlines : d < NoDeadline
  /\ Worker \notin Streams /\ NoTask \notin Streams \cup {Worker}
  /\ Nothing \notin Assignment /\ Unchanged \notin Assignment \cup {Nothing}
  /\ MaxMoves \in Nat /\ MayAbandon \in BOOLEAN

\* What a window may ask of a piece: all at once, or merely some day.
Urgent     == [prio |-> 7, deadline |-> 0]
Background == [prio |-> 1, deadline |-> NoDeadline]
Maybe      == Assignment \cup {Nothing}
Window     == [Pieces -> Maybe]
NoWindow   == [p \in Pieces |-> Nothing]
NoChange   == [gen |-> 0, to |-> [p \in Pieces |-> Unchanged]]

\* The windows a reader of f computes: pieces outside the file are filtered.
WindowsOf(f) == {w \in [Pieces -> {Urgent, Background, Nothing}] :
                   \A p \in Pieces \ PiecesOf[f] : w[p] = Nothing}

VARIABLES
  gen, sel,    \* generation and selected_file
  ack,         \* the file whose priority vector libtorrent acknowledged
  windows,     \* streams: the window of each stream
  effective,   \* effective
  pending,     \* the changes computed, in which generation, and not yet applied
  native,      \* libtorrent's piece priorities and deadlines, verified pieces
  untold,      \* history: the pieces libtorrent has not been told about since the
               \* selection changed, or what it was told got lost
  busy,        \* holder of the operation mutex
  queue,       \* the command channel
  reader,      \* each stream's reader
  moves        \* how many windows moved

vars == <<gen, sel, ack, windows, effective, pending, native, untold, busy, queue, reader,
          moves>>

ReaderPCs == {"idle", "selected", "acking", "window", "applying", "reading", "closed"}
NoReader  == [pc |-> "idle", gen |-> 0, file |-> NoFile, changed |-> FALSE]

Command == [type : {"replace"}, stream : Streams, gen : Nat, file : Files \cup {NoFile},
            window : Window]
           \cup [type : {"release"}, stream : Streams, gen : Nat]
           \cup [type : {"verified"}, piece : Pieces]
Replace(s, w) == [type |-> "replace", stream |-> s, gen |-> reader[s].gen,
                  file |-> reader[s].file, window |-> w]
ReleaseOf(s)  == [type |-> "release", stream |-> s, gen |-> reader[s].gen]
Verified(p)   == [type |-> "verified", piece |-> p]

Init ==
  /\ gen = 0 /\ sel = NoFile /\ ack = NoFile
  /\ windows = [s \in Streams |-> NoWindow]
  /\ effective = NoWindow
  /\ pending = NoChange
  /\ native = [prio |-> [p \in Pieces |-> 0],
               deadline |-> [p \in Pieces |-> NoDeadline], have |-> {}]
  /\ untold = {}
  /\ busy = NoTask /\ queue = <<>>
  /\ reader = [s \in Streams |-> NoReader]
  /\ moves = 0

-----------------------------------------------------------------------------
(* ActivePriorityWindows.                                                  *)

\* effective_for: the highest priority and the earliest deadline asked for.
Merged(ws, p) ==
  LET asked == {ws[s][p] : s \in Streams} \ {Nothing}
  IN  IF asked = {} THEN Nothing
      ELSE [prio     |-> Max({a.prio : a \in asked}),
            deadline |-> Min({a.deadline : a \in asked})]

Keys(w) == {p \in Pieces : w[p] # Nothing}

\* The PiecePriorityChanges of this step: the pieces whose merge changed.
Changes == [gen |-> gen, to |-> [p \in Pieces |-> IF effective'[p] # effective[p]
                                                  THEN effective'[p] ELSE Unchanged]]

\* Fault: the pieces the previous window covered are not reconciled.
ReconcileReplacement(s, w) ==
  /\ windows' = [windows EXCEPT ![s] = w]
  /\ effective' = [p \in Pieces |-> IF p \in Keys(w) THEN Merged(windows', p) ELSE effective[p]]
  /\ pending' = Changes

\* replace and release: only the pieces of the old and the new window are
\* looked at, and only those whose merge changed are passed on.
Reconcile(s, w) ==
  LET affected == Keys(w) \cup Keys(windows[s])
  IN  /\ windows' = [windows EXCEPT ![s] = w]
      /\ effective' = [p \in Pieces |-> IF p \in affected THEN Merged(windows', p)
                                        ELSE effective[p]]
      /\ pending' = Changes

ClearTracking ==
  /\ windows' = [s \in Streams |-> NoWindow]
  /\ effective' = NoWindow

\* apply_piece_priority_changes: a change without a deadline takes the old one
\* away, a piece nobody asks for falls back to the baseline.  libtorrent
\* ignores a deadline for a piece it has.
Applied(baseline) ==
  [native EXCEPT
     !.prio = [p \in Pieces |-> IF pending.to[p] = Unchanged THEN native.prio[p]
                                ELSE IF pending.to[p] = Nothing THEN baseline
                                ELSE pending.to[p].prio],
     !.deadline = [p \in Pieces |-> IF pending.to[p] = Unchanged THEN native.deadline[p]
                                    ELSE IF pending.to[p] = Nothing \/ p \in native.have
                                    THEN NoDeadline ELSE pending.to[p].deadline]]

Underway == {p \in Pieces : pending.to[p] # Unchanged}

Apply(baseline) ==
  /\ native' = Applied(baseline) /\ pending' = NoChange
  /\ untold' = IF pending.gen = gen THEN untold \ Underway ELSE untold

FilePriorities(f) == [p \in Pieces |-> IF p \in PiecesOf[f] THEN 1 ELSE 0]
Baseline == IF sel = NoFile THEN 0 ELSE 1

-----------------------------------------------------------------------------
(* Readers: select, activate_selection, apply_hot_window, the moving window. *)

Current(s) == reader[s].gen = gen /\ reader[s].file = sel
MoveTo(s, l) == reader' = [reader EXCEPT ![s].pc = l]

Fails(s) ==
  /\ MoveTo(s, "closed")
  /\ queue' = Append(queue, ReleaseOf(s))
  /\ busy' = IF busy = s THEN NoTask ELSE busy

Select(s, f) ==
  LET changed == sel # f
      g       == IF changed THEN gen + 1 ELSE gen
  IN  /\ reader[s].pc = "idle"
      /\ gen' = g /\ sel' = f
      /\ IF changed THEN ClearTracking /\ untold' = Pieces
         ELSE UNCHANGED <<windows, effective, untold>>
      /\ reader' = [reader EXCEPT ![s] = [pc |-> "selected", gen |-> g, file |-> f,
                                          changed |-> changed]]
      /\ UNCHANGED <<ack, pending, native, busy, queue, moves>>

\* Under the operation mutex: a changed selection clears the old deadlines (and
\* those of a reader of the new file that was activated first: the tracking
\* goes on to believe in them), a priority vector that is not acknowledged is
\* submitted.
Activate(s) ==
  LET f == reader[s].file IN
  /\ reader[s].pc = "selected"
  /\ busy = NoTask
  /\ Current(s)
  /\ busy' = s
  /\ native' = [native EXCEPT
       !.deadline = IF reader[s].changed THEN [p \in Pieces |-> NoDeadline] ELSE native.deadline,
       !.prio     = IF ack # f THEN FilePriorities(f) ELSE native.prio]
  /\ untold' = IF reader[s].changed THEN Keys(effective) ELSE untold
  /\ MoveTo(s, IF ack # f THEN "acking" ELSE "window")
  /\ UNCHANGED <<gen, sel, ack, windows, effective, pending, queue, moves>>

Acknowledged(s) ==
  /\ reader[s].pc = "acking"
  /\ reader[s].gen = gen
  /\ ack' = reader[s].file
  /\ MoveTo(s, "window")
  /\ UNCHANGED <<gen, sel, windows, effective, pending, native, busy, queue, moves, untold>>

HotWindow(s) ==
  /\ reader[s].pc = "window"
  /\ Current(s)
  /\ \E w \in WindowsOf(sel) : Reconcile(s, w)
  /\ MoveTo(s, "applying")
  /\ UNCHANGED <<gen, sel, ack, native, busy, queue, moves, untold>>

ApplyHotWindow(s) ==
  /\ reader[s].pc = "applying"
  /\ Apply(1)
  /\ IF Current(s)
     THEN MoveTo(s, "reading") /\ busy' = NoTask /\ UNCHANGED queue
     ELSE Fails(s)
  /\ UNCHANGED <<gen, sel, ack, windows, effective, moves>>

\* Superseded: by the check behind each wait.
Superseded(s) ==
  /\ \/ reader[s].pc = "selected" /\ busy = NoTask /\ ~Current(s)
     \/ reader[s].pc \in {"acking", "window"} /\ ~Current(s)
  /\ Fails(s)
  /\ UNCHANGED <<gen, sel, ack, windows, effective, pending, native, moves, untold>>

\* The acknowledgement times out, or the request's future is dropped.
AckFails(s) ==
  /\ reader[s].pc = "acking"
  /\ Fails(s)
  /\ UNCHANGED <<gen, sel, ack, windows, effective, pending, native, moves, untold>>

\* A future dropped while it waits for the session takes with it the changes
\* that are tracked already.
Abandon(s) ==
  /\ MayAbandon
  /\ reader[s].pc \in {"selected", "acking", "window", "applying"}
  /\ Fails(s)
  /\ IF busy = s THEN pending' = NoChange /\ untold' = untold \cup Underway
     ELSE UNCHANGED <<pending, untold>>
  /\ UNCHANGED <<gen, sel, ack, windows, effective, native, moves>>

\* A cancelled permit sends nothing.
MoveWindow(s) ==
  /\ reader[s].pc = "reading"
  /\ reader[s].gen = gen
  /\ moves < MaxMoves /\ moves' = moves + 1
  /\ \E w \in WindowsOf(reader[s].file) : queue' = Append(queue, Replace(s, w))
  /\ UNCHANGED <<gen, sel, ack, windows, effective, pending, native, busy, reader, untold>>

Close(s) ==
  /\ reader[s].pc = "reading"
  /\ Fails(s)
  /\ UNCHANGED <<gen, sel, ack, windows, effective, pending, native, moves, untold>>

-----------------------------------------------------------------------------
(* The worker.                                                             *)

Receive(type) == busy # Worker /\ queue # <<>> /\ Head(queue).type = type
                 /\ queue' = Tail(queue)

\* Fault: the window of a superseded reader is installed all the same.
NeverStale(c) == TRUE

IsCurrent(c) == c.gen = gen /\ (c.type = "replace" => c.file = sel)

HandleReplace ==
  LET c == Head(queue) IN
  /\ Receive("replace")
  /\ busy = NoTask
  /\ IF IsCurrent(c)
     THEN Reconcile(c.stream, c.window) /\ busy' = Worker
     ELSE UNCHANGED <<windows, effective, pending, busy>>
  /\ UNCHANGED <<gen, sel, ack, native, reader, moves, untold>>

HandleRelease ==
  LET c == Head(queue) IN
  /\ Receive("release")
  /\ busy = NoTask
  /\ IF IsCurrent(c)
     THEN Reconcile(c.stream, NoWindow) /\ busy' = Worker
     ELSE UNCHANGED <<windows, effective, pending, busy>>
  /\ UNCHANGED <<gen, sel, ack, native, reader, moves, untold>>

WorkerApplies ==
  /\ busy = Worker
  /\ Apply(Baseline)
  /\ busy' = NoTask
  /\ UNCHANGED <<gen, sel, ack, windows, effective, queue, reader, moves>>

\* mark_piece_verified
Forget(p) ==
  /\ windows' = [s \in Streams |-> [windows[s] EXCEPT ![p] = Nothing]]
  /\ effective' = [effective EXCEPT ![p] = Nothing]

HandleVerified ==
  /\ Receive("verified")
  /\ Forget(Head(queue).piece)
  /\ UNCHANGED <<gen, sel, ack, pending, native, busy, reader, moves, untold>>

\* A piece is downloaded and its alert reaches the channel.
PieceFinishes(p) ==
  /\ p \notin native.have
  /\ native' = [native EXCEPT !.have = native.have \cup {p}, !.deadline[p] = NoDeadline]
  /\ queue' = Append(queue, Verified(p))
  /\ UNCHANGED <<gen, sel, ack, windows, effective, pending, busy, reader, moves, untold>>

Next ==
  \/ \E s \in Streams :
       \/ \E f \in Files : Select(s, f)
       \/ Activate(s) \/ Acknowledged(s) \/ HotWindow(s) \/ ApplyHotWindow(s)
       \/ Superseded(s) \/ AckFails(s) \/ Abandon(s) \/ MoveWindow(s) \/ Close(s)
  \/ HandleReplace \/ HandleRelease \/ WorkerApplies \/ HandleVerified
  \/ \E p \in Pieces : PieceFinishes(p)

Spec == Init /\ [][Next]_vars

-----------------------------------------------------------------------------
\* The tracked windows and those on their way to the worker assign pieces.
WindowsTyped == windows \in [Streams -> Window] /\ queue \in Seq(Command)

ReadersTyped ==
  /\ gen \in Nat /\ sel \in Files \cup {NoFile}
  /\ reader \in [Streams -> [pc : ReaderPCs, gen : Nat, file : Files \cup {NoFile},
                             changed : BOOLEAN]]

\* The tracked assignments are the merge of the windows: reconciling the affected
\* pieces alone never misses one, whatever verified pieces, releases and newer
\* selections took away in between.
EffectiveIsMerge == effective = [p \in Pieces |-> Merged(windows, p)]

\* What libtorrent was told is the merge of what the streams ask for: each missing
\* piece has the earliest deadline and the highest priority of the windows, and no
\* deadline if it is in none.  Except for a change that is underway, and for what
\* the selection or its dropped requests left untold (activate_selection,
\* replace_priority_window_locked, apply_piece_priority_changes).
LibtorrentFollows ==
  \A p \in Pieces \ (native.have \cup Underway \cup untold) :
    LET asked == Merged(windows, p) IN
    /\ native.deadline[p] = IF asked = Nothing THEN NoDeadline ELSE asked.deadline
    /\ asked # Nothing => native.prio[p] = asked.prio

\* A window belongs to a reader that is alive in this generation or whose
\* release is still on its way: no cancelled reader steers the download.
NoOrphanWindow ==
  \A s \in Streams :
    windows[s] # NoWindow =>
      \/ reader[s].pc \in {"applying", "reading"} /\ reader[s].gen = gen
      \/ \E i \in DOMAIN queue : queue[i].type = "release" /\ queue[i].stream = s
=============================================================================
