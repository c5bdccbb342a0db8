----------------------- MODULE PlaybackOwnershipProofs -----------------------
(***************************************************************************)
(* A current reader owns the selection and reads from a connected torrent: *)
(* Ownership is inductive, for any number of files, callers and requests.  *)
(*                                                                         *)
(* A step moves one task and changes the state in one of three ways: it    *)
(* keeps the generation and what is selected (StateKept), it starts a new  *)
(* generation (StateBumped), or it pauses the torrent.  The first three    *)
(* lemmas settle the tasks that do not move, the others the one that does. *)
(***************************************************************************)
EXTENDS PlaybackCoordinatorProofs

\* Same generation and priority; a file is deselected at most when its
\* priority was 0 already.
StateKept ==
  /\ st'.gen = st.gen /\ st'.prio = st.prio
  /\ st.prio # 0 => st'.sel = st.sel
  /\ native.have \subseteq native'.have

StateBumped == st'.gen > st.gen /\ native.have \subseteq native'.have

\* What Ownership and the types say of the numbers involved.
LEMMA GenNumbers ==
  ASSUME TypeOK, NEW t \in Tasks
  PROVE  st.gen \in Nat /\ job[t].gen \in Nat
BY StateAssumption DEF TypeOK, StateType, JobType, Gens

LEMMA RestingKept ==
  ASSUME NEW u \in Tasks, TaskOwnership(u), Rests(u), StateKept,
         native'.paused => native.paused
  PROVE  TaskOwnership(u)'
<1>1. CASE u = Worker
  BY <1>1 DEF TaskOwnership, WorkerOwnership, ClearsNothing, ClearsSelection, Rests, StateKept
<1>2. CASE u # Worker
  BY <1>2 DEF TaskOwnership, CallerOwnership, SelectionKept, IsConnected,
              ClearsNothing, ClearsSelection, Rests, StateKept
<1> QED BY <1>1, <1>2

LEMMA RestingBumped ==
  ASSUME TypeOK, TypeOK', NEW u \in Tasks, TaskOwnership(u), Rests(u), StateBumped
  PROVE  TaskOwnership(u)'
<1>1. st.gen \in Nat /\ st'.gen \in Nat /\ job[u].gen \in Nat
  <2>1. st'.gen \in Gens
    BY DEF TypeOK, StateType
  <2> QED BY <2>1, GenNumbers, StateAssumption DEF Gens
<1>2. job'[u].gen < st'.gen
  BY <1>1 DEF TaskOwnership, Rests, StateBumped
<1>3. job'[u].gen # st'.gen /\ job'[u].gen <= st'.gen
  BY <1>1, <1>2 DEF Rests
<1>4. CASE u = Worker
  BY <1>3, <1>4 DEF TaskOwnership, WorkerOwnership, ClearsNothing, Rests, StateBumped
<1>5. CASE u # Worker
  BY <1>3, <1>5 DEF TaskOwnership, CallerOwnership, SelectionKept, IsConnected,
              ClearsNothing, Rests, StateBumped
<1> QED BY <1>4, <1>5

\* A task that is done, or whose request failed, owes nothing.
LEMMA DoneTask ==
  ASSUME TypeOK', NEW t \in Tasks, pc'[t] = "idle", job'[t] = NoJob
  PROVE  TaskOwnership(t)'
<1>1. st'.gen >= 0
  BY StateAssumption DEF TypeOK, StateType, Gens
<1> QED BY <1>1 DEF TaskOwnership, WorkerOwnership, CallerOwnership, SelectionKept, IsConnected,
            ClearsNothing, ClearsSelection, NoJob, PausePC, Readers, PermitPC

LEMMA FailedTask ==
  ASSUME TypeOK, TypeOK', NEW t \in Tasks, CallerFails(t)
  PROVE  OthersRest(t) /\ TaskOwnership(t)'
BY Moves, DoneTask DEF CallerFails, OthersRest, Rests

\* The phase a step leaves alone, or sets to something but PausePending.
PhaseKept == st'.phase = st.phase \/ st'.phase # "PausePending"

\* The general step of a caller.
LEMMA CallerStep ==
  ASSUME TypeOK, TypeOK', Ownership, NEW t \in Callers, OthersRest(t),
         StateKept, PhaseKept, native'.paused => native.paused, TaskOwnership(t)'
  PROVE  Ownership'
<1>1. t \in Tasks /\ Worker \in Tasks \ {t}
  BY CoordinatorAssumption DEF Tasks
<1>2. \A u \in Tasks : TaskOwnership(u)'
  BY RestingKept DEF OthersRest, Ownership
<1>3. PendingIsWorkers'
  BY <1>1 DEF Ownership, PendingIsWorkers, StateKept, PhaseKept, OthersRest, Rests
<1> QED BY <1>2, <1>3 DEF Ownership

\* A step that leaves the state and the native handle alone.
LEMMA StillState ==
  ASSUME UNCHANGED <<st, native>>
  PROVE  StateKept /\ PhaseKept /\ (native'.paused => native.paused)
BY DEF StateKept, PhaseKept

-----------------------------------------------------------------------------
(* Requests that do not select, activate or pause.                           *)

LEMMA FailureOwnership ==
  ASSUME TypeOK, TypeOK', Ownership, NEW t \in Callers,
         CallerFails(t), UNCHANGED <<st, native>>
  PROVE  Ownership'
<1> t \in Tasks
  BY DEF Tasks
<1> QED BY FailedTask, StillState, CallerStep

LEMMA LoadingOwnership ==
  ASSUME TypeOK, TypeOK', Ownership, NEW t \in Callers,
         \/ LoadLayout(t) \/ AcquireMetadata(t) \/ SubmitIdlePriorities(t)
         \/ MetadataLoaded(t)
  PROVE  Ownership'
<1> t \in Tasks /\ t # Worker
  BY CoordinatorAssumption DEF Tasks
<1> USE DEF LoadLayout, AcquireMetadata, SubmitIdlePriorities, MetadataLoaded
<1>1. /\ pc[t] \in {"layout", "metaLock", "metaWait", "metaAck"}
      /\ pc'[t] \in {"layout", "metaLock", "metaWait", "metaAck"}
      /\ OthersRest(t) /\ job'[t] = job[t]
  BY Moves DEF OthersRest, Rests
<1>2. StateKept /\ PhaseKept /\ (native'.paused => native.paused)
  BY DEF StateKept, PhaseKept, TypeOK, StateType
<1>3. TaskOwnership(t)'
  BY <1>1, <1>2 DEF Ownership, TaskOwnership, CallerOwnership, SelectionKept, IsConnected,
        ClearsNothing, ClearsSelection, PermitPC, PausePC, StateKept
<1> QED BY <1>1, <1>2, <1>3, CallerStep

LEMMA CheckOwnership ==
  ASSUME TypeOK, TypeOK', Ownership, NEW t \in Callers, CheckComplete(t)
  PROVE  Ownership'
<1> t \in Tasks /\ t # Worker
  BY CoordinatorAssumption DEF Tasks
<1>1. PICK c \in LooksComplete(job[t].file) : Become(t, [job[t] EXCEPT !.complete = c])
  BY DEF CheckComplete
<1>2. pc[t] = "layout" /\ pc'[t] = "checked" /\ OthersRest(t)
  BY <1>1, Moves DEF CheckComplete, OthersRest, Rests
<1>3. /\ job'[t].kind = job[t].kind /\ job'[t].gen = job[t].gen /\ job'[t].file = job[t].file
      /\ job'[t].complete = c
  BY <1>1, Moves DEF TypeOK, JobType
<1>4. c => job[t].file \in native.have
  BY DEF LooksComplete
<1>5. UNCHANGED <<st, native>>
  BY DEF CheckComplete
<1>6. TaskOwnership(t)'
  BY <1>2, <1>3, <1>4, <1>5 DEF Ownership, TaskOwnership, CallerOwnership, SelectionKept,
        IsConnected, ClearsNothing, ClearsSelection, PermitPC, PausePC
<1> QED BY <1>2, <1>5, <1>6, StillState, CallerStep
-----------------------------------------------------------------------------
(* Steps that start a generation.                                            *)

\* A caller's step that starts a generation; the new state is not a stale
\* PausePending.
LEMMA CallerBump ==
  ASSUME TypeOK, TypeOK', Ownership, NEW t \in Callers, OthersRest(t),
         StateBumped, st'.phase = "PausePending" => st'.prio = 0, TaskOwnership(t)'
  PROVE  Ownership'
<1>1. \A u \in Tasks : TaskOwnership(u)'
  BY RestingBumped DEF OthersRest, Ownership
<1> QED BY <1>1 DEF Ownership, PendingIsWorkers

LEMMA RequestOwnership ==
  ASSUME TypeOK, TypeOK', Ownership, NEW t \in Callers, Request(t)
  PROVE  Ownership'
<1> t \in Tasks /\ t # Worker
  BY CoordinatorAssumption DEF Tasks
<1>0. st.gen \in Nat
  BY GenNumbers
<1>1. ASSUME NEW f \in Files, EndHls(t, f)
      PROVE  Ownership'
  <2>1. /\ pc'[t] \in {"endPending", "endPaused"}
        /\ job'[t] = [NoJob EXCEPT !.kind = "endhls", !.file = f, !.gen = st.gen + 1]
        /\ OthersRest(t)
    BY <1>1, Moves DEF EndHls, OthersRest, Rests
  <2>2. st'.gen = st.gen + 1 /\ st'.prio = 0 /\ UNCHANGED native
    BY <1>1 DEF EndHls, BeginPause, TypeOK, StateType
  <2>3. StateBumped
    BY <1>0, <2>2 DEF StateBumped
  <2>4. TaskOwnership(t)'
    BY <1>0, <2>1, <2>2 DEF TaskOwnership, CallerOwnership, SelectionKept, IsConnected,
          ClearsNothing, PermitPC, PausePC, NoJob, Readers, AllKinds
  <2> QED BY <2>1, <2>2, <2>3, <2>4, CallerBump
<1>2. ASSUME NEW f \in Files, NEW k \in Kinds, Begin(t, k, f)
      PROVE  Ownership'
  <2>1. /\ pc'[t] = "layout" /\ job'[t] = [NoJob EXCEPT !.kind = k, !.file = f]
        /\ OthersRest(t) /\ UNCHANGED <<st, native>> /\ k \in AllKinds \ {"endhls"}
    BY <1>2, Moves, CoordinatorAssumption DEF Begin, OthersRest, Rests
  <2>2. TaskOwnership(t)'
    BY <1>0, <2>1 DEF TaskOwnership, CallerOwnership, SelectionKept, IsConnected,
          ClearsNothing, ClearsSelection, PermitPC, PausePC, NoJob, AllKinds
  <2> QED BY <2>1, <2>2, StillState, CallerStep
<1> QED BY <1>1, <1>2 DEF Request

\* What select() does to the fields Ownership looks at.
LEMMA SelectEffect ==
  ASSUME st \in StateType, NEW f, NEW p,
         NEW direct \in BOOLEAN, NEW hls \in BOOLEAN,
         NEW network \in BOOLEAN, NEW fg \in BOOLEAN,
         st' = Select(st, f, p, direct, hls, network, fg)
  PROVE  /\ st'.gen = GenFor(st, f, p) /\ st'.sel = f /\ st'.prio = p
         /\ st'.phase = IF network THEN "Active" ELSE st.phase
BY DEF Select, StateType

\* A selection joins the generation it agrees with or starts the next one.
LEMMA SelectOwnership ==
  ASSUME TypeOK, TypeOK', Ownership, NEW t \in Callers, NEW p \in Priority, NEW f,
         NEW direct \in BOOLEAN, NEW hls \in BOOLEAN,
         NEW network \in BOOLEAN, NEW fg \in BOOLEAN,
         st' = Select(st, f, p, direct, hls, network, fg),
         Changes(st, f, p) => network \/ p = 0,
         OthersRest(t), UNCHANGED native, TaskOwnership(t)'
  PROVE  Ownership'
<1>0. st.gen \in Nat /\ st \in StateType
  BY GenNumbers DEF TypeOK, Tasks
<1>1. /\ st'.gen = GenFor(st, f, p) /\ st'.sel = f /\ st'.prio = p
      /\ st'.phase = IF network THEN "Active" ELSE st.phase
  BY <1>0, SelectEffect
<1>2. CASE Changes(st, f, p)
  <2>1. StateBumped
    BY <1>0, <1>1, <1>2 DEF StateBumped, GenFor
  <2>2. st'.phase = "PausePending" => st'.prio = 0
    BY <1>1, <1>2
  <2> QED BY <2>1, <2>2, CallerBump
<1>3. CASE ~Changes(st, f, p)
  <2>1. StateKept /\ PhaseKept
    BY <1>1, <1>3 DEF StateKept, PhaseKept, GenFor, Changes
  <2> QED BY <2>1, CallerStep
<1> QED BY <1>2, <1>3

LEMMA SelectForReaderOwnership ==
  ASSUME TypeOK, TypeOK', Ownership, NEW t \in Callers, SelectForReader(t)
  PROVE  Ownership'
<1> t \in Tasks /\ t # Worker
  BY CoordinatorAssumption DEF Tasks
<1> DEFINE fg  == Foreground(job[t].kind)
           p   == IF ~fg /\ ForegroundActive(st) THEN st.prio
                  ELSE RequestedPriority(job[t].kind, job[t].complete)
           f   == job[t].file
           net == ~job[t].complete \/ seeding
           sub == Subordinate(st, f, TRUE, fg)
<1>1. /\ st' = Select(st, f, p, TRUE, FALSE, net, fg)
      /\ job'[t] = [job[t] EXCEPT !.prio = p, !.gen = GenFor(st, f, p), !.sub = sub]
      /\ pc'[t] = "selected" /\ job[t].kind \in Readers /\ ~Rejects(t) /\ pc[t] = "checked"
      /\ OthersRest(t) /\ UNCHANGED native
  BY Moves DEF SelectForReader, OthersRest, Rests
<1>2. /\ p \in Priority /\ fg \in BOOLEAN /\ net \in BOOLEAN /\ st \in StateType
      /\ job[t] \in JobType
  BY DEF TypeOK, StateType, RequestedPriority, Priority, Foreground
\* A background reader that joins takes the selection as it is.
<1>3. ~fg /\ ForegroundActive(st) => sub /\ ~Changes(st, f, p)
  BY <1>1 DEF Foreground, Rejects, Subordinate, Changes
<1>4. ~(~fg /\ ForegroundActive(st)) => (p = 0 <=> job[t].complete)
  BY DEF RequestedPriority
<1>5. Changes(st, f, p) => net \/ p = 0
  BY <1>3, <1>4
<1>6. TaskOwnership(t)'
  <2>1. /\ job'[t].kind = job[t].kind /\ job'[t].file = f /\ job'[t].prio = p
        /\ job'[t].complete = job[t].complete
        /\ job'[t].gen = GenFor(st, f, p) /\ job'[t].sub = sub
    <3> HIDE DEF p, sub
    <3> QED BY <1>1, <1>2 DEF JobType
  <2>2. st'.gen = GenFor(st, f, p) /\ st'.sel = f /\ st'.prio = p
    <3> HIDE DEF p, fg, net
    <3> QED BY <1>1, <1>2, SelectEffect
  <2>3. ~sub => (p = 0 <=> job[t].complete)
    BY <1>3, <1>4
  <2>4. GenFor(st, f, p) <= GenFor(st, f, p)
    BY GenNumbers DEF GenFor
  <2>5. f \in Files /\ (job[t].complete => f \in native.have)
    BY <1>1 DEF Ownership, TaskOwnership, CallerOwnership
  <2> HIDE DEF p, sub, net, fg
  <2> QED BY <1>1, <2>1, <2>2, <2>3, <2>4, <2>5
          DEF TaskOwnership, CallerOwnership, SelectionKept, IsConnected,
              ClearsNothing, ClearsSelection, PausePC, Readers, AllKinds
<1> HIDE DEF p, sub, net, fg
<1> QED BY <1>1, <1>2, <1>5, <1>6, SelectOwnership

LEMMA SelectForHlsOwnership ==
  ASSUME TypeOK, TypeOK', Ownership, NEW t \in Callers, SelectForHls(t)
  PROVE  Ownership'
<1> t \in Tasks /\ t # Worker
  BY CoordinatorAssumption DEF Tasks
<1> DEFINE p   == RequestedPriority("hls", job[t].complete)
           f   == job[t].file
           net == ~job[t].complete \/ seeding
<1>1. /\ st' = Select(st, f, p, FALSE, TRUE, net, FALSE)
      /\ \/ /\ job'[t] = [job[t] EXCEPT !.prio = p, !.gen = GenFor(st, f, p)]
            /\ pc'[t] = "selected"
         \/ job'[t] = NoJob /\ pc'[t] = "idle"
      /\ job[t].kind = "hls" /\ pc[t] = "checked"
      /\ OthersRest(t) /\ UNCHANGED native
  BY Moves DEF SelectForHls, OthersRest, Rests
<1>2. p \in Priority /\ net \in BOOLEAN /\ st \in StateType /\ job[t] \in JobType
  BY DEF TypeOK, StateType, RequestedPriority, Priority
<1>3. p = 0 <=> job[t].complete
  BY DEF RequestedPriority
<1>4. TaskOwnership(t)'
  <2>1. CASE pc'[t] = "idle"
    BY <1>1, <2>1, DoneTask
  <2>2. CASE pc'[t] = "selected"
    <3>1. /\ job'[t].kind = "hls" /\ job'[t].file = f /\ job'[t].prio = p
          /\ job'[t].complete = job[t].complete /\ job'[t].gen = GenFor(st, f, p)
      <4> HIDE DEF p
      <4> QED BY <1>1, <1>2, <2>2 DEF JobType
    <3>2. st'.gen = GenFor(st, f, p) /\ st'.sel = f /\ st'.prio = p
      <4> HIDE DEF p, net
      <4> QED BY <1>1, <1>2, SelectEffect
    <3>3. GenFor(st, f, p) <= GenFor(st, f, p)
      BY GenNumbers DEF GenFor
    <3>4. f \in Files /\ (job[t].complete => f \in native.have)
      BY <1>1 DEF Ownership, TaskOwnership, CallerOwnership
    <3> HIDE DEF p, net
    <3> QED BY <1>1, <1>3, <2>2, <3>1, <3>2, <3>3, <3>4
            DEF TaskOwnership, CallerOwnership, SelectionKept, IsConnected,
                ClearsNothing, ClearsSelection, PausePC, Readers, AllKinds
  <2> QED BY <1>1, <2>1, <2>2
<1> HIDE DEF p, net
<1> QED BY <1>1, <1>2, <1>3, <1>4, SelectOwnership DEF net
-----------------------------------------------------------------------------
(* activate_selection.                                                       *)

LEMMA ActivateOwnership ==
  ASSUME TypeOK, TypeOK', Ownership, NEW t \in Callers,
         JoinWithoutActivation(t) \/ Activate(t) \/ ActivationAcknowledged(t)
           \/ ActivationResumes(t),
         ~(CallerFails(t) /\ UNCHANGED <<st, native>>)
  PROVE  Ownership'
<1> t \in Tasks /\ t # Worker
  BY CoordinatorAssumption DEF Tasks
<1>1. TaskOwnership(t) /\ CallerOwnership(t)
  BY DEF Ownership, TaskOwnership
<1>2. StateKept /\ PhaseKept /\ (native'.paused => native.paused)
      /\ native'.have = native.have /\ st'.sel = st.sel
  BY DEF JoinWithoutActivation, Activate, ActivationAcknowledged, ActivationResumes,
         StateKept, PhaseKept, TypeOK, StateType
<1>3. CASE JoinWithoutActivation(t)
  <2>1. OthersRest(t) /\ CallerSucceeds(t) /\ pc[t] = "selected"
    BY <1>3, Moves DEF JoinWithoutActivation, CallerSucceeds, OthersRest, Rests
  <2>2. TaskOwnership(t)'
    <3>1. CASE job[t].kind \notin Readers
      BY <2>1, <3>1, Moves, DoneTask DEF CallerSucceeds
    <3>2. CASE job[t].kind \in Readers
      <4>1. pc'[t] = "playing" /\ job'[t] = job[t] /\ (job[t].sub \/ job[t].complete)
        BY <1>3, <2>1, <3>2, Moves DEF JoinWithoutActivation, CallerSucceeds
      <4> QED BY <1>1, <1>2, <2>1, <3>2, <4>1
              DEF TaskOwnership, CallerOwnership, SelectionKept, IsConnected, StateKept,
                  ClearsNothing, ClearsSelection, PausePC, PermitPC, Readers
    <3> QED BY <3>1, <3>2
  <2> QED BY <1>2, <2>1, <2>2, CallerStep
<1>4. CASE Activate(t)
  <2>1. /\ OthersRest(t) /\ job'[t] = job[t] /\ pc[t] = "selected" /\ ~job[t].sub
        /\ pc'[t] \in {"actAck", "actResume", "pauseEnter"}
        /\ pc'[t] = "pauseEnter" => job[t].complete
    BY <1>4, Moves DEF Activate, OthersRest, Rests
  <2>2. TaskOwnership(t)'
    BY <1>1, <1>2, <2>1
    DEF TaskOwnership, CallerOwnership, SelectionKept, IsConnected, StateKept,
        ClearsNothing, ClearsSelection, PausePC, PermitPC, Readers
  <2> QED BY <1>2, <2>1, <2>2, CallerStep
<1>5. CASE ActivationAcknowledged(t)
  <2>1. /\ OthersRest(t) /\ job'[t] = job[t] /\ pc[t] = "actAck"
        /\ pc'[t] \in {"actResume", "pauseEnter"}
        /\ pc'[t] = "pauseEnter" => job[t].complete
    BY <1>5, Moves DEF ActivationAcknowledged, OthersRest, Rests
  <2>2. TaskOwnership(t)'
    BY <1>1, <1>2, <2>1
    DEF TaskOwnership, CallerOwnership, SelectionKept, IsConnected, StateKept,
        ClearsNothing, ClearsSelection, PausePC, PermitPC, Readers
  <2> QED BY <1>2, <2>1, <2>2, CallerStep
<1>6. CASE ActivationResumes(t)
  <2>1. OthersRest(t) /\ CallerSucceeds(t) /\ pc[t] = "actResume" /\ ~native'.paused
    BY <1>6, Moves DEF ActivationResumes, CallerSucceeds, OthersRest, Rests, TypeOK
  <2>2. TaskOwnership(t)'
    <3>1. CASE job[t].kind \notin Readers
      BY <2>1, <3>1, Moves, DoneTask DEF CallerSucceeds
    <3>2. CASE job[t].kind \in Readers
      <4>1. pc'[t] = "playing" /\ job'[t] = job[t]
        BY <2>1, <3>2, Moves DEF CallerSucceeds
      <4> QED BY <1>1, <1>2, <2>1, <3>2, <4>1
              DEF TaskOwnership, CallerOwnership, SelectionKept, IsConnected, StateKept,
                  ClearsNothing, ClearsSelection, PausePC, PermitPC, Readers
    <3> QED BY <3>1, <3>2
  <2> QED BY <1>2, <2>1, <2>2, CallerStep
<1> QED BY <1>3, <1>4, <1>5, <1>6

-----------------------------------------------------------------------------
(* end_hls and perform_pause.                                                *)

LEMMA EndHlsOwnership ==
  ASSUME TypeOK, TypeOK', Ownership, NEW t \in Callers,
         EndHlsWithoutPause(t) \/ EndHlsPauses(t)
  PROVE  Ownership'
<1> t \in Tasks /\ t # Worker
  BY CoordinatorAssumption DEF Tasks
<1>1. StateKept /\ PhaseKept /\ UNCHANGED native
  BY DEF EndHlsWithoutPause, EndHlsPauses, KeepActiveForSeeding, StateKept, PhaseKept,
         TypeOK, StateType
<1>2. CASE EndHlsWithoutPause(t)
  <2>1. OthersRest(t) /\ TaskOwnership(t)'
    BY <1>2, Moves, DoneTask DEF EndHlsWithoutPause, OthersRest, Rests
  <2> QED BY <1>1, <2>1, CallerStep
<1>3. CASE EndHlsPauses(t)
  <2>1. /\ OthersRest(t) /\ job'[t] = job[t] /\ pc'[t] = "pauseLock"
        /\ pc[t] = "endPending"
    BY <1>3, Moves DEF EndHlsPauses, OthersRest, Rests
  <2>2. TaskOwnership(t)'
    BY <1>1, <2>1
    DEF Ownership, TaskOwnership, CallerOwnership, SelectionKept, IsConnected, StateKept,
        ClearsNothing, ClearsSelection, PausePC, PermitPC, Readers
  <2> QED BY <1>1, <2>1, <2>2, CallerStep
<1> QED BY <1>2, <1>3

\* A task that leaves perform_pause leaves no PausePending of its own behind.
LEMMA PauseStep ==
  ASSUME TypeOK, TypeOK', Ownership, NEW t \in Tasks, OthersRest(t),
         StateKept, native'.paused => native.paused, TaskOwnership(t)',
         PendingIsWorkers'
  PROVE  Ownership'
BY RestingKept DEF OthersRest, Ownership

\* What perform_pause leaves of its task: a reader plays on, others are done.
LEMMA PauseReturnsOwnership ==
  ASSUME TypeOK, TypeOK', Ownership, NEW t \in Tasks, pc[t] \in PausePC,
         PauseReturns(t), StateKept, UNCHANGED native
  PROVE  OthersRest(t) /\ TaskOwnership(t)'
<1>1. CASE t = Worker \/ job[t].kind \notin Readers
  BY <1>1, Moves, DoneTask DEF PauseReturns, CallerSucceeds, OthersRest, Rests
<1>2. CASE t # Worker /\ job[t].kind \in Readers
  <2>1. OthersRest(t) /\ pc'[t] = "playing" /\ job'[t] = job[t]
    BY <1>2, Moves DEF PauseReturns, CallerSucceeds, OthersRest, Rests
  <2> QED BY <1>2, <2>1
          DEF Ownership, TaskOwnership, CallerOwnership, SelectionKept, IsConnected, StateKept,
              ClearsNothing, ClearsSelection, PausePC, PermitPC, Readers
<1> QED BY <1>1, <1>2

\* Finalizing clears the selection only where nothing was selected for download.
LEMMA FinalizedPauseOwnership ==
  ASSUME TypeOK, Ownership, NEW t \in Tasks, st' = FinalizedPause(t), UNCHANGED native
  PROVE  /\ StateKept
         /\ st' = st \/ st'.phase = "PausedIdle"
         /\ st' = st => st.gen # job[t].gen \/ st.phase = "PausedIdle"
<1>1. ClearsNothing(t)
  BY DEF Ownership, TaskOwnership
<1> QED BY <1>1 DEF FinalizedPause, StateKept, ClearsNothing, TypeOK, StateType

LEMMA PausingOwnership ==
  ASSUME TypeOK, TypeOK', Ownership, NEW t \in Tasks, Pausing(t)
  PROVE  Ownership'
<1>0. PendingIsWorkers /\ TaskOwnership(t) /\ Worker \in Tasks
  BY DEF Ownership, Tasks
<1>1. CASE PauseEnter(t)
  <2>1. CASE seeding
    <3>1. /\ PauseReturns(t) /\ UNCHANGED native /\ pc[t] \in PausePC
          /\ st' = KeepActiveForSeeding(st, job[t].gen)
      BY <1>1, <2>1 DEF PauseEnter, PausePC
    <3>2. /\ StateKept
          /\ st' = st \/ st'.phase = "Active"
          /\ st' = st => st.gen # job[t].gen \/ st.phase # "PausePending"
      BY <3>1 DEF KeepActiveForSeeding, StateKept, TypeOK, StateType
    <3>3. OthersRest(t) /\ TaskOwnership(t)'
      BY <3>1, <3>2, PauseReturnsOwnership
    <3>4. PendingIsWorkers'
      BY <1>0, <3>2, <3>3 DEF PendingIsWorkers, StateKept, OthersRest, Rests
    <3> QED BY <3>1, <3>2, <3>3, <3>4, PauseStep
  <2>2. CASE ~seeding
    <3>1. /\ OthersRest(t) /\ job'[t] = job[t] /\ UNCHANGED <<st, native>>
          /\ pc[t] = "pauseEnter" /\ pc'[t] = "pauseLock"
      BY <1>1, <2>2, Moves DEF PauseEnter, OthersRest, Rests
    <3>2. TaskOwnership(t)' /\ PendingIsWorkers'
      BY <1>0, <3>1 DEF TaskOwnership, CallerOwnership, WorkerOwnership, SelectionKept,
            IsConnected, ClearsNothing, ClearsSelection, PausePC, PermitPC, Readers,
            PendingIsWorkers, OthersRest, Rests
    <3> QED BY <3>1, <3>2, StillState, PauseStep
  <2> QED BY <2>1, <2>2
<1>2. CASE PauseStale(t)
  <2>1. /\ PauseReturns(t) /\ UNCHANGED <<st, native>> /\ pc[t] \in PausePC
        /\ st.gen # job[t].gen
    BY <1>2 DEF PauseStale, PausePC
  <2>2. OthersRest(t) /\ TaskOwnership(t)'
    BY <2>1, StillState, PauseReturnsOwnership
  <2>3. PendingIsWorkers'
    BY <1>0, <2>1, <2>2 DEF PendingIsWorkers, OthersRest, Rests
  <2> QED BY <2>1, <2>2, <2>3, StillState, PauseStep
<1>3. CASE PauseNative(t)
  <2>1. /\ OthersRest(t) /\ job'[t] = job[t] /\ UNCHANGED st
        /\ native'.have = native.have /\ st.gen = job[t].gen
        /\ pc[t] = "pauseLock" /\ pc'[t] = "pauseConfirm"
    BY <1>3, Moves DEF PauseNative, OthersRest, Rests, TypeOK
  \* Whatever is selected under this generation is complete.
  <2>2. st.prio # 0 => t = Worker /\ st.sel \in native.have
    BY <1>0, <2>1 DEF TaskOwnership, WorkerOwnership, CallerOwnership, SelectionKept,
          ClearsNothing, ClearsSelection, PausePC, PermitPC, Readers, AllKinds
  <2>3. ASSUME NEW u \in Tasks, u # t
        PROVE  TaskOwnership(u)'
    <3>1. TaskOwnership(u) /\ Rests(u)
      BY <2>1, <2>3 DEF Ownership, OthersRest
    <3>2. CASE u = Worker
      BY <2>1, <3>1, <3>2
      DEF TaskOwnership, WorkerOwnership, ClearsNothing, ClearsSelection, Rests
    <3>3. CASE u # Worker
      <4>1. IsConnected(u)'
        BY <2>1, <2>2, <3>1, <3>3
        DEF TaskOwnership, CallerOwnership, SelectionKept, IsConnected, Rests, PermitPC
      <4> QED BY <2>1, <3>1, <3>3, <4>1
              DEF TaskOwnership, CallerOwnership, SelectionKept, ClearsNothing,
                  ClearsSelection, Rests
    <3> QED BY <3>2, <3>3
  <2>4. TaskOwnership(t)' /\ PendingIsWorkers'
    BY <1>0, <2>1 DEF TaskOwnership, CallerOwnership, WorkerOwnership, SelectionKept,
          IsConnected, ClearsNothing, ClearsSelection, PausePC, PermitPC, Readers,
          PendingIsWorkers, OthersRest, Rests
  <2> QED BY <2>3, <2>4 DEF Ownership
<1>4. CASE PauseConfirmed(t) \/ PauseAcknowledged(t)
  <2>1. /\ PauseReturns(t) /\ UNCHANGED native /\ pc[t] \in PausePC
        /\ st' = FinalizedPause(t)
    BY <1>4 DEF PauseConfirmed, PauseAcknowledged, PausePC
  <2>2. /\ StateKept
        /\ st' = st \/ st'.phase = "PausedIdle"
        /\ st' = st => st.gen # job[t].gen \/ st.phase = "PausedIdle"
    BY <2>1, FinalizedPauseOwnership
  <2>3. OthersRest(t) /\ TaskOwnership(t)'
    BY <2>1, <2>2, PauseReturnsOwnership
  <2>4. PendingIsWorkers'
    BY <1>0, <2>2, <2>3 DEF PendingIsWorkers, StateKept, OthersRest, Rests
  <2> QED BY <2>1, <2>2, <2>3, <2>4, PauseStep
<1>5. CASE PauseSubmitsZeros(t)
  <2>1. /\ OthersRest(t) /\ job'[t] = job[t] /\ UNCHANGED st
        /\ native'.have = native.have /\ native'.paused = native.paused
        /\ pc[t] = "pauseConfirm" /\ pc'[t] = "pauseAck"
    BY <1>5, Moves DEF PauseSubmitsZeros, OthersRest, Rests, TypeOK
  <2>2. TaskOwnership(t)' /\ PendingIsWorkers'
    BY <1>0, <2>1 DEF TaskOwnership, CallerOwnership, WorkerOwnership, SelectionKept,
          IsConnected, ClearsNothing, ClearsSelection, PausePC, PermitPC, Readers,
          PendingIsWorkers, OthersRest, Rests
  <2>3. StateKept
    BY <2>1 DEF StateKept
  <2> QED BY <2>1, <2>2, <2>3, PauseStep
<1> QED BY <1>1, <1>2, <1>3, <1>4, <1>5 DEF Pausing
LEMMA PauseFailsOwnership ==
  ASSUME TypeOK, TypeOK', Ownership, NEW t \in Tasks, PauseFails(t)
  PROVE  Ownership'
<1>0. PendingIsWorkers /\ TaskOwnership(t) /\ Worker \in Tasks
  BY DEF Ownership, Tasks
<1>1. CASE t = Worker
  <2>1. OthersRest(t) /\ pc'[t] = "idle" /\ job'[t] = NoJob /\ UNCHANGED native
    BY <1>1, Moves DEF PauseFails, OthersRest, Rests
  <2>2. TaskOwnership(t)'
    BY <2>1, DoneTask
  <2>3. StateKept /\ pc[Worker] # "idle"
    BY <1>1 DEF PauseFails, StateKept, TypeOK, StateType
  \* Only a pause that selects nothing for download is armed again.
  <2>4. PendingIsWorkers'
    <3>1. CASE st.gen # job[t].gen
      BY <1>0, <1>1, <2>3, <3>1 DEF PauseFails, PendingIsWorkers
    <3>2. CASE st.gen = job[t].gen /\ job[t].kind = "due"
      BY <1>0, <2>3, <3>2 DEF TaskOwnership, ClearsNothing, ClearsSelection,
         PendingIsWorkers, StateKept
    <3>3. CASE st.gen = job[t].gen /\ job[t].kind # "due"
      BY <1>1, <3>3 DEF PauseFails, PendingIsWorkers, TypeOK, StateType
    <3> QED BY <3>1, <3>2, <3>3
  <2> QED BY <2>1, <2>2, <2>3, <2>4, PauseStep
<1>2. CASE t # Worker
  BY <1>2, FailureOwnership DEF PauseFails, Tasks
<1> QED BY <1>1, <1>2

-----------------------------------------------------------------------------
(* The worker and the environment.                                           *)

\* A step in which every task rests.
LEMMA QuietStep ==
  ASSUME Ownership, \A u \in Tasks : Rests(u), StateKept, PhaseKept,
         native'.paused => native.paused
  PROVE  Ownership'
<1>1. Worker \in Tasks
  BY DEF Tasks
<1>2. PendingIsWorkers'
  BY <1>1 DEF Ownership, PendingIsWorkers, StateKept, PhaseKept, Rests
<1> QED BY <1>2, RestingKept DEF Ownership

LEMMA VerifiedOwnership ==
  ASSUME TypeOK, TypeOK', Ownership, HandleVerified
  PROVE  Ownership'
<1> Worker \in Tasks
  BY DEF Tasks
<1>0. pc[Worker] = "idle" /\ UNCHANGED native
  BY DEF HandleVerified, Receive
<1>1. CASE UNCHANGED <<st, pc, job>>
  BY <1>0, <1>1, StillState, QuietStep DEF Rests
<1>2. CASE ~UNCHANGED <<st, pc, job>>
  <2>1. /\ st' = [st EXCEPT !.phase = "PausePending"]
        /\ Goto(Worker, "pauseEnter")
        /\ Become(Worker, [NoJob EXCEPT !.kind = "verified", !.gen = st.gen])
        /\ st.sel \in native.have
    BY <1>2 DEF HandleVerified, LooksComplete
  <2>2. /\ OthersRest(Worker) /\ pc'[Worker] = "pauseEnter"
        /\ job'[Worker] = [NoJob EXCEPT !.kind = "verified", !.gen = st.gen]
    BY <2>1, Moves DEF OthersRest, Rests
  <2>3. StateKept /\ st'.sel = st.sel /\ st'.gen = st.gen
    BY <1>0, <2>1 DEF StateKept, TypeOK, StateType
  <2>4. st.gen <= st.gen
    BY GenNumbers
  <2>5. TaskOwnership(Worker)' /\ PendingIsWorkers'
    BY <1>0, <2>1, <2>2, <2>3, <2>4
    DEF TaskOwnership, WorkerOwnership, ClearsNothing, ClearsSelection, PausePC, NoJob,
        PendingIsWorkers
  <2> QED BY <1>0, <2>2, <2>3, <2>5, PauseStep
<1> QED BY <1>1, <1>2

\* A retry finds nothing selected: PendingIsWorkers and an idle worker.
LEMMA TickOwnership ==
  ASSUME TypeOK, TypeOK', Ownership, TickPauses
  PROVE  Ownership'
<1> Worker \in Tasks
  BY DEF Tasks
<1> DEFINE s == Expired(st)
<1>1. /\ OthersRest(Worker) /\ pc[Worker] = "idle" /\ pc'[Worker] = "pauseEnter"
      /\ job'[Worker] = [NoJob EXCEPT !.kind = "due", !.gen = st'.gen]
      /\ UNCHANGED native
  BY Moves DEF TickPauses, OthersRest, Rests
<1>2. s.gen = st.gen /\ s.prio = st.prio /\ s.sel = st.sel /\ s.phase = st.phase
      /\ s \in StateType
  BY DEF Expired, TypeOK, StateType
<1>3. st'.gen \in Nat /\ st.gen \in Nat /\ st'.gen <= st'.gen
  <2>1. st'.gen \in Gens
    BY DEF TypeOK, StateType
  <2> QED BY <2>1, GenNumbers, StateAssumption DEF Gens
<1>4. st'.prio = 0 => TaskOwnership(Worker)'
  BY <1>1, <1>3 DEF TaskOwnership, WorkerOwnership, ClearsNothing, PausePC, NoJob
<1>5. CASE s.phase = "PausePending"
  <2>1. st' = [s EXCEPT !.deadline = "none"]
    BY <1>5 DEF TickPauses
  <2>2. st'.gen = st.gen /\ st'.prio = st.prio /\ st'.sel = st.sel
    <3> HIDE DEF s
    <3> QED BY <1>2, <2>1 DEF StateType
  <2>3. StateKept
    BY <1>1, <2>2 DEF StateKept
  <2>4. st'.prio = 0
    BY <1>1, <1>2, <1>5, <2>2 DEF Ownership, PendingIsWorkers, PausePC
  <2>5. PendingIsWorkers'
    BY <2>4 DEF PendingIsWorkers
  <2> QED BY <1>1, <1>4, <2>3, <2>4, <2>5, PauseStep
<1>6. CASE s.phase # "PausePending"
  <2>1. st' = BeginPause(s)
    BY <1>6 DEF TickPauses
  <2>2. st'.gen = st.gen + 1 /\ st'.prio = 0
    <3> HIDE DEF s
    <3> QED BY <1>2, <2>1 DEF BeginPause, StateType
  <2>3. StateBumped
    BY <1>1, <1>3, <2>2 DEF StateBumped
  <2>4. \A u \in Tasks : TaskOwnership(u)'
    BY <1>1, <1>4, <2>2, <2>3, RestingBumped DEF OthersRest, Ownership
  <2> QED BY <2>2, <2>4 DEF Ownership, PendingIsWorkers
<1> QED BY <1>5, <1>6

LEMMA ServeOwnership ==
  ASSUME TypeOK, TypeOK', Ownership, Serve
  PROVE  Ownership'
<1>1. CASE HandleVerified
  BY <1>1, VerifiedOwnership
<1>2. CASE TickPauses
  BY <1>2, TickOwnership
<1>3. CASE HandleRelease
  BY <1>3, QuietStep DEF HandleRelease, ReleasePermit, ScheduleIdle, Rests, StateKept,
     PhaseKept, TypeOK, StateType
<1>4. CASE HandleReleaseMetadata
  BY <1>4, QuietStep DEF HandleReleaseMetadata, ReleaseMetadata, ScheduleIdle, Rests,
     StateKept, PhaseKept, TypeOK, StateType
<1>5. CASE HandleSeedingOn
  BY <1>5, QuietStep DEF HandleSeedingOn, Rests, StateKept, PhaseKept, TypeOK, StateType
<1>6. CASE HandleSeedingOff
  BY <1>6, QuietStep DEF HandleSeedingOff, ScheduleIdle, Rests, StateKept, PhaseKept,
     TypeOK, StateType
<1>7. CASE TickExpiresHls
  BY <1>7, QuietStep DEF TickExpiresHls, Expired, Rests, StateKept, PhaseKept, TypeOK,
     StateType
<1> QED BY <1>1, <1>2, <1>3, <1>4, <1>5, <1>6, <1>7 DEF Serve

LEMMA EnvironmentOwnership ==
  ASSUME TypeOK, Ownership, Environment
  PROVE  Ownership'
<1>1. /\ \A u \in Tasks : Rests(u)
      /\ StateKept /\ PhaseKept /\ (native'.paused => native.paused)
  BY DEF Environment, MetadataArrives, HlsLapses, DeadlinePasses, SetSeeding, FileCompletes,
         Rests, StateKept, PhaseKept, TypeOK, StateType
<1> QED BY <1>1, QuietStep

-----------------------------------------------------------------------------
LEMMA InitOwnership == Init => Ownership
<1> SUFFICES ASSUME Init PROVE Ownership
  OBVIOUS
<1>1. st.prio = 0 /\ st.gen = 0 /\ \A t \in Tasks : pc[t] = "idle" /\ job[t] = NoJob
  BY DEF Init, NewState
<1> QED BY <1>1, CoordinatorAssumption
    DEF Ownership, PendingIsWorkers, TaskOwnership, WorkerOwnership, CallerOwnership,
        SelectionKept, IsConnected, ClearsNothing, ClearsSelection, NoJob, PausePC, PermitPC,
        Tasks

LEMMA NextOwnership == TypeOK /\ TypeOK' /\ Ownership /\ [Next]_vars => Ownership'
<1> SUFFICES ASSUME TypeOK, TypeOK', Ownership, [Next]_vars PROVE Ownership'
  OBVIOUS
<1>1. CASE UNCHANGED vars
  BY <1>1, StillState, QuietStep DEF vars, Rests
<1>2. ASSUME NEW t \in Callers, CallerFails(t), UNCHANGED <<st, native>>
      PROVE  Ownership'
  BY <1>2, FailureOwnership
<1>3. ASSUME NEW t \in Callers, Progress(t)
      PROVE  Ownership'
  <2>1. CASE CallerFails(t) /\ UNCHANGED <<st, native>>
    BY <1>2, <2>1
  <2>2. CASE ~(CallerFails(t) /\ UNCHANGED <<st, native>>)
    <3>1. ~BackgroundRejected(t) /\ ~ActivationStale(t)
      BY <2>2 DEF BackgroundRejected, ActivationStale
    <3> QED BY <1>3, <2>2, <3>1, LoadingOwnership, CheckOwnership, SelectForReaderOwnership,
            SelectForHlsOwnership, ActivateOwnership, EndHlsOwnership DEF Progress
  <2> QED BY <2>1, <2>2
<1>4. ASSUME NEW t \in Callers, Failure(t) \/ CloseReader(t)
      PROVE  Ownership'
  BY <1>2, <1>4 DEF Failure, MetadataFails, ActivationFails, Abandon, CloseReader
<1>5. CASE Next
  BY <1>3, <1>4, <1>5, RequestOwnership, PausingOwnership, PauseFailsOwnership,
     ServeOwnership, EnvironmentOwnership DEF Next
<1> QED BY <1>1, <1>5

LEMMA OwnershipCorrect == Spec => [](TypeOK /\ Ownership)
<1>1. Init => TypeOK /\ Ownership
  BY InitType, InitOwnership
<1>2. TypeOK /\ Ownership /\ [Next]_vars => (TypeOK /\ Ownership)'
  BY NextType, NextOwnership
<1> QED BY <1>1, <1>2, PTL DEF Spec

\* The whole invariant the two properties below follow from, which the run Hls
\* also checks: generations never run ahead of the torrent's, a pause that would
\* clear the selection of its own generation clears nothing, and PausePending
\* over a selected file is the worker's own doing.
THEOREM OwnershipHolds == Spec => []Ownership
BY OwnershipCorrect, PTL

\* A reader whose token is not cancelled and whose file is still downloaded
\* keeps the selection it made, whatever pauses, ticks and requests interleave.
THEOREM DownloadsKeepSelection == Spec => []DownloadOwnsSelection
<1>1. Ownership /\ TypeOK => DownloadOwnsSelection
  BY CoordinatorAssumption
  DEF Ownership, TaskOwnership, CallerOwnership, SelectionKept, DownloadOwnsSelection,
      HoldsPermit, OwnsSelection, Current, Tasks
<1> QED BY <1>1, OwnershipCorrect, PTL

\* The torrent of an answered, uncancelled reader of an incomplete file is never
\* paused: every pause that raced it re-checks the generation under the mutex.
THEOREM PlayersStayConnected == Spec => []PlayingIsConnected
<1>1. Ownership => PlayingIsConnected
  BY CoordinatorAssumption
  DEF Ownership, TaskOwnership, CallerOwnership, PlayingIsConnected, Tasks
<1> QED BY <1>1, OwnershipCorrect, PTL
-----------------------------------------------------------------------------
(* The coordinator implements PlaybackLease.  A step moves one task and      *)
(* either keeps the generation, and with it what the others are promised, or *)
(* starts one, and takes their leases away; which of the abstract actions it *)
(* is then depends only on where the task that moves was and where it is.    *)

LeaseClient == [t \in Callers |-> Place(t)]
LeaseFile   == IF st.prio # 0 THEN st.sel ELSE NoFile
LeaseStep   == [Lease!Next]_(Lease!vars)

LEMMA LeaseSteps ==
  ASSUME \/ Lease!Connect \/ Lease!Disconnect \/ Lease!Rest \/ UNCHANGED Lease!vars
         \/ \E c \in Callers :
              \/ Lease!Ask(c) \/ Lease!Join(c) \/ Lease!Visit(c) \/ Lease!Answer(c) \/ Lease!Leave(c)
              \/ \E f \in Files : Lease!Take(c, f)
              \/ \E f \in Files \cup {NoFile} : Lease!Displace(c, f)
         \/ \E f \in Files : Lease!Finish(f)
  PROVE  LeaseStep
BY DEF LeaseStep, Lease!Next

\* A place reads nothing but the task, the generation and the files present.
LEMMA PlaceKept ==
  ASSUME NEW u \in Callers, Rests(u), st'.gen = st.gen, native'.have = native.have
  PROVE  Place(u)' = Place(u)
BY DEF Rests, Place, HoldsPermit, HasLease, IsServed

LEMMA PlaceRevoked ==
  ASSUME TypeOK, TypeOK', Ownership, NEW u \in Callers, Rests(u), st'.gen > st.gen
  PROVE  Place(u)' = Lease!Revoked(Place(u))
<1>1. u \in Tasks /\ u # Worker
  BY CoordinatorAssumption DEF Tasks
<1>2. st.gen \in Nat /\ st'.gen \in Nat /\ job[u].gen \in Nat
  <2>1. st'.gen \in Gens
    BY DEF TypeOK, StateType
  <2> QED BY <1>1, <2>1, GenNumbers, StateAssumption DEF Gens
<1>3. job[u].gen <= st.gen
  BY <1>1 DEF Ownership, TaskOwnership
<1>4. job'[u].gen # st'.gen
  BY <1>2, <1>3 DEF Rests
<1> QED BY <1>4 DEF Rests, Place, HoldsPermit, HasLease, Lease!Revoked

\* The file of a client with a lease is the one that is played, and what is
\* played is a file.
LEMMA LeaseIsOnFile ==
  ASSUME TypeOK, Ownership, NEW t \in Callers, HasLease(t)
  PROVE  /\ job[t].file = LeaseFile /\ job[t].file \in Files /\ st.prio # 0
         /\ st.sel = job[t].file /\ job[t].prio = st.prio
<1>1. t \in Tasks /\ t # Worker
  BY CoordinatorAssumption DEF Tasks
<1>2. CallerOwnership(t)
  BY <1>1 DEF Ownership, TaskOwnership
<1> QED BY <1>2 DEF CallerOwnership, SelectionKept, HasLease, HoldsPermit, LeaseFile, PermitPC,
               PausePC

\* The step of a caller that keeps the generation.
LEMMA LeaseMoves ==
  ASSUME NEW t \in Callers, OthersRest(t), StateKept, native'.have = native.have
  PROVE  /\ LeaseClient' = [LeaseClient EXCEPT ![t] = Place(t)']
         /\ LeaseFile' = LeaseFile
<1>1. \A u \in Callers \ {t} : Place(u)' = Place(u)
  BY PlaceKept DEF OthersRest, StateKept, Tasks
<1> QED BY <1>1 DEF LeaseClient, LeaseFile, StateKept

\* A caller that stays where it was is not seen, unless it resumes the torrent.
LEMMA LeaseStays ==
  ASSUME NEW t \in Callers, OthersRest(t), StateKept, native'.have = native.have,
         Place(t)' = Place(t), native'.paused \in {FALSE, native.paused}
  PROVE  LeaseStep
<1>1. LeaseClient' = LeaseClient /\ LeaseFile' = LeaseFile
  BY LeaseMoves DEF LeaseClient
<1>2. CASE native'.paused = native.paused
  BY <1>1, <1>2, LeaseSteps DEF Lease!vars, LeaseClient, LeaseFile
<1>3. CASE native'.paused = FALSE
  <2>1. Lease!Connect
    BY <1>1, <1>3 DEF Lease!Connect, LeaseClient, LeaseFile
  <2> QED BY <2>1, LeaseSteps
<1> QED BY <1>2, <1>3

\* So are the steps of the worker and of the environment.
LEMMA LeaseQuiet ==
  ASSUME OthersRest(Worker), StateKept, native'.have = native.have,
         native'.paused \in {FALSE, native.paused}
  PROVE  LeaseStep
<1>1. \A u \in Callers : Place(u)' = Place(u)
  BY PlaceKept, CoordinatorAssumption DEF OthersRest, StateKept, Tasks
<1>2. LeaseClient' = LeaseClient /\ LeaseFile' = LeaseFile
  BY <1>1 DEF LeaseClient, LeaseFile, StateKept
<1>3. CASE native'.paused = native.paused
  BY <1>2, <1>3, LeaseSteps DEF Lease!vars, LeaseClient, LeaseFile
<1>4. CASE native'.paused = FALSE
  <2>1. Lease!Connect
    BY <1>2, <1>4 DEF Lease!Connect, LeaseClient, LeaseFile
  <2> QED BY <2>1, LeaseSteps
<1> QED BY <1>3, <1>4

\* A request that fails, is dropped or is closed leaves.
LEMMA LeaseLeft ==
  ASSUME TypeOK, NEW t \in Callers, CallerFails(t), UNCHANGED <<st, native>>
  PROVE  LeaseStep
<1>1. t \in Tasks /\ OthersRest(t) /\ pc'[t] = "idle" /\ job'[t] = NoJob
  BY FailedMoves DEF Tasks
<1>2. Place(t)' = "out"
  BY <1>1 DEF Place, HoldsPermit, PermitPC, PausePC, AskingPC
<1>3. StateKept
  BY StillState
<1>4. LeaseClient' = [LeaseClient EXCEPT ![t] = "out"] /\ LeaseFile' = LeaseFile
  BY <1>1, <1>2, <1>3, LeaseMoves
<1>5. Lease!Leave(t)
  BY <1>4 DEF Lease!Leave, Lease!Moves, LeaseClient, LeaseFile
<1> QED BY <1>5, LeaseSteps

\* A new generation takes every other lease away.
LEMMA LeaseRevoked ==
  ASSUME TypeOK, TypeOK', Ownership, NEW t \in Callers, OthersRest(t), st'.gen > st.gen
  PROVE  LeaseClient' = [x \in Callers |-> IF x = t THEN Place(t)' ELSE Lease!Revoked(LeaseClient[x])]
<1>1. \A u \in Callers \ {t} : Place(u)' = Lease!Revoked(Place(u))
  BY PlaceRevoked DEF OthersRest, Tasks
<1> QED BY <1>1 DEF LeaseClient

LEMMA RequestLease ==
  ASSUME TypeOK, TypeOK', Ownership, NEW t \in Callers, Request(t)
  PROVE  LeaseStep
<1>0. t \in Tasks /\ t # Worker /\ OthersRest(t) /\ st.gen \in Nat
  BY CallerRests, GenNumbers, CoordinatorAssumption DEF Tasks
<1>1. ASSUME NEW f \in Files, NEW k \in Kinds, Begin(t, k, f)
      PROVE  LeaseStep
  <2>1. /\ pc[t] = "idle" /\ pc'[t] = "layout" /\ UNCHANGED <<st, native>>
    BY <1>0, <1>1, Moves DEF Begin
  <2>2. Place(t) = "out" /\ Place(t)' = "asking"
    BY <2>1 DEF Place, HoldsPermit, PermitPC, PausePC, AskingPC
  <2>3. LeaseClient' = [LeaseClient EXCEPT ![t] = "asking"] /\ LeaseFile' = LeaseFile
    BY <1>0, <2>1, <2>2, StillState, LeaseMoves
  <2>4. Lease!Ask(t)
    BY <2>1, <2>2, <2>3 DEF Lease!Ask, Lease!Moves, LeaseClient, LeaseFile
  <2> QED BY <2>4, LeaseSteps
<1>2. ASSUME NEW f \in Files, EndHls(t, f)
      PROVE  LeaseStep
  <2>1. /\ pc[t] = "idle" /\ pc'[t] \in {"endPending", "endPaused"} /\ UNCHANGED native
    BY <1>0, <1>2, Moves DEF EndHls
  <2>2. st'.gen = st.gen + 1 /\ st'.prio = 0
    BY <1>2 DEF EndHls, BeginPause, TypeOK, StateType
  <2>3. Place(t) = "out" /\ Place(t)' = "out"
    BY <2>1 DEF Place, HoldsPermit, PermitPC, PausePC, AskingPC
  <2>4. LeaseClient' = [x \in Callers |-> IF x = t THEN "out" ELSE Lease!Revoked(LeaseClient[x])]
    <3>1. st'.gen > st.gen
      BY <1>0, <2>2
    <3> QED BY <1>0, <2>3, <3>1, LeaseRevoked
  <2>5. LeaseFile' = NoFile
    BY <2>2 DEF LeaseFile
  <2>6. Lease!Displace(t, NoFile)
    BY <2>1, <2>3, <2>4, <2>5 DEF Lease!Displace, Lease!OnlyFor, LeaseClient, LeaseFile
  <2> QED BY <2>6, LeaseSteps
<1> QED BY <1>1, <1>2 DEF Request

LEMMA LoadingLease ==
  ASSUME TypeOK, NEW t \in Callers,
         \/ LoadLayout(t) \/ AcquireMetadata(t) \/ SubmitIdlePriorities(t)
         \/ MetadataLoaded(t) \/ CheckComplete(t)
  PROVE  LeaseStep
<1>1. t \in Tasks /\ OthersRest(t)
  BY CallerRests DEF Tasks, Progress
<1>2. pc[t] \in AskingPC /\ pc'[t] \in AskingPC
  BY <1>1, Moves DEF LoadLayout, AcquireMetadata, SubmitIdlePriorities, MetadataLoaded,
     CheckComplete, AskingPC
<1>3. Place(t) = "asking" /\ Place(t)' = "asking"
  BY <1>2 DEF Place, HoldsPermit, PermitPC, PausePC, AskingPC
<1>4. StateKept /\ native'.have = native.have /\ native'.paused \in {FALSE, native.paused}
  BY DEF LoadLayout, AcquireMetadata, SubmitIdlePriorities, MetadataLoaded, CheckComplete,
         StateKept, TypeOK, StateType
<1> QED BY <1>1, <1>3, <1>4, LeaseStays

\* A selection joins the readers of its generation or displaces them.
LEMMA SelectForReaderLease ==
  ASSUME TypeOK, TypeOK', Ownership, NEW t \in Callers, SelectForReader(t)
  PROVE  LeaseStep
<1>0. t \in Tasks /\ t # Worker /\ OthersRest(t) /\ st.gen \in Nat
  BY CallerRests, GenNumbers, CoordinatorAssumption DEF Tasks, Progress
<1> DEFINE fg  == Foreground(job[t].kind)
           p   == IF ~fg /\ ForegroundActive(st) THEN st.prio
                  ELSE RequestedPriority(job[t].kind, job[t].complete)
           f   == job[t].file
           net == ~job[t].complete \/ seeding
           sub == Subordinate(st, f, TRUE, fg)
<1>1. /\ st' = Select(st, f, p, TRUE, FALSE, net, fg)
      /\ job'[t] = [job[t] EXCEPT !.prio = p, !.gen = GenFor(st, f, p), !.sub = sub]
      /\ pc[t] = "checked" /\ pc'[t] = "selected" /\ job[t].kind \in Readers
      /\ UNCHANGED native
  BY <1>0, Moves DEF SelectForReader
<1>2. /\ fg \in BOOLEAN /\ net \in BOOLEAN /\ st \in StateType /\ job[t] \in JobType
  BY <1>0 DEF TypeOK, Foreground
<1>3. f \in Files
  BY <1>0, <1>1 DEF Ownership, TaskOwnership, CallerOwnership
<1> HIDE DEF p, sub, net, fg
<1>4. st'.gen = GenFor(st, f, p) /\ st'.sel = f /\ st'.prio = p
  BY <1>1, <1>2, SelectEffect
<1>5. job'[t].kind \in Readers /\ job'[t].gen = st'.gen /\ job'[t].prio = p
  BY <1>1, <1>2, <1>4 DEF JobType
<1>6. Place(t) = "asking" /\ Place(t)' = IF p # 0 THEN "leased" ELSE "guest"
  BY <1>1, <1>5 DEF Place, HoldsPermit, HasLease, IsServed, PermitPC, PausePC, AskingPC
<1>7. LeaseClient[t] = "asking" /\ LeaseFile' = IF p # 0 THEN f ELSE NoFile
  BY <1>4, <1>6 DEF LeaseClient, LeaseFile
<1>8. CASE Changes(st, f, p)
  <2>1. st'.gen > st.gen
    BY <1>0, <1>4, <1>8 DEF GenFor
  <2>2. LeaseClient' = [x \in Callers |-> IF x = t THEN Place(t)' ELSE Lease!Revoked(LeaseClient[x])]
    BY <1>0, <2>1, LeaseRevoked
  <2>3. CASE p # 0
    <3>1. Lease!Take(t, f)
      BY <1>1, <1>6, <1>7, <2>2, <2>3 DEF Lease!Take, Lease!OnlyFor, LeaseClient, LeaseFile
    <3> QED BY <1>3, <3>1, LeaseSteps
  <2>4. CASE p = 0
    <3>1. Lease!Visit(t)
      BY <1>1, <1>6, <1>7, <2>2, <2>4 DEF Lease!Visit, Lease!OnlyFor, LeaseClient, LeaseFile
    <3> QED BY <3>1, LeaseSteps
  <2> QED BY <2>3, <2>4
<1>9. CASE ~Changes(st, f, p)
  <2>1. st.sel = f /\ st.prio = p /\ StateKept
    BY <1>1, <1>4, <1>9 DEF Changes, GenFor, StateKept
  <2>2. LeaseClient' = [LeaseClient EXCEPT ![t] = Place(t)'] /\ LeaseFile' = LeaseFile
    BY <1>0, <1>1, <2>1, LeaseMoves
  <2>3. CASE p # 0
    <3>1. LeaseFile # NoFile
      BY <1>3, <2>1, <2>3, StateAssumption DEF LeaseFile
    <3>2. Lease!Join(t)
      BY <1>1, <1>6, <1>7, <2>2, <2>3, <3>1 DEF Lease!Join, Lease!Moves, LeaseClient, LeaseFile
    <3> QED BY <3>2, LeaseSteps
  <2>4. CASE p = 0
    \* Nobody has a lease under this generation.
    <3>1. ASSUME NEW x \in Callers PROVE Lease!Revoked(LeaseClient[x]) = LeaseClient[x]
      <4>1. ~HasLease(x)
        BY <2>1, <2>4, LeaseIsOnFile
      <4> QED BY <4>1 DEF LeaseClient, Place, Lease!Revoked
    <3>2. LeaseClient' = [x \in Callers |-> IF x = t THEN "guest" ELSE Lease!Revoked(LeaseClient[x])]
      BY <1>6, <2>2, <2>4, <3>1 DEF LeaseClient
    <3>3. Lease!Visit(t)
      BY <1>1, <1>6, <1>7, <3>2, <2>4 DEF Lease!Visit, Lease!OnlyFor, LeaseClient, LeaseFile
    <3> QED BY <3>3, LeaseSteps
  <2> QED BY <2>3, <2>4
<1> QED BY <1>8, <1>9

LEMMA SelectForHlsLease ==
  ASSUME TypeOK, TypeOK', Ownership, NEW t \in Callers, SelectForHls(t)
  PROVE  LeaseStep
<1>0. t \in Tasks /\ t # Worker /\ OthersRest(t) /\ st.gen \in Nat
  BY CallerRests, GenNumbers, CoordinatorAssumption DEF Tasks, Progress
<1> DEFINE p   == RequestedPriority("hls", job[t].complete)
           f   == job[t].file
           net == ~job[t].complete \/ seeding
<1>1. /\ st' = Select(st, f, p, FALSE, TRUE, net, FALSE)
      /\ \/ /\ job'[t] = [job[t] EXCEPT !.prio = p, !.gen = GenFor(st, f, p)]
            /\ pc'[t] = "selected"
         \/ job'[t] = NoJob /\ pc'[t] = "idle"
      /\ job[t].kind = "hls" /\ pc[t] = "checked" /\ UNCHANGED native
  BY <1>0, Moves DEF SelectForHls
<1>2. net \in BOOLEAN /\ st \in StateType /\ job[t] \in JobType
  BY <1>0 DEF TypeOK
<1> HIDE DEF p, net
<1>3. st'.gen = GenFor(st, f, p) /\ st'.sel = f /\ st'.prio = p
  BY <1>1, <1>2, SelectEffect
<1>4. job'[t].kind \notin Readers
  <2>1. CASE pc'[t] = "selected"
    <3>1. job'[t].kind = "hls"
      BY <1>1, <1>2, <2>1 DEF JobType
    <3> QED BY <3>1 DEF Readers
  <2>2. CASE pc'[t] # "selected"
    BY <1>1, <2>2 DEF NoJob, Readers
  <2> QED BY <2>1, <2>2
<1>5. Place(t) = "asking" /\ Place(t)' = "out"
  BY <1>1, <1>4 DEF Place, HoldsPermit, PermitPC, PausePC, AskingPC
<1>6. CASE Changes(st, f, p)
  <2>1. st'.gen > st.gen
    BY <1>0, <1>3, <1>6 DEF GenFor
  <2>2. LeaseClient' = [x \in Callers |-> IF x = t THEN "out" ELSE Lease!Revoked(LeaseClient[x])]
    BY <1>0, <1>5, <2>1, LeaseRevoked
  <2>3. PICK g \in Files \cup {NoFile} : g = LeaseFile'
    BY <1>2, <1>3 DEF LeaseFile, JobType
  <2>4. Lease!Displace(t, g)
    BY <1>1, <1>5, <2>2, <2>3 DEF Lease!Displace, Lease!OnlyFor, LeaseClient, LeaseFile
  <2> QED BY <2>4, LeaseSteps
<1>7. CASE ~Changes(st, f, p)
  <2>1. StateKept
    BY <1>1, <1>3, <1>7 DEF Changes, GenFor, StateKept
  <2>2. LeaseClient' = [LeaseClient EXCEPT ![t] = "out"] /\ LeaseFile' = LeaseFile
    BY <1>0, <1>1, <1>5, <2>1, LeaseMoves
  <2>3. Lease!Leave(t)
    BY <1>1, <2>2 DEF Lease!Leave, Lease!Moves, LeaseClient, LeaseFile
  <2> QED BY <2>3, LeaseSteps
<1> QED BY <1>6, <1>7

\* A reader is answered; one that joined, whose file is complete or who was
\* superseded keeps the place it had.
LEMMA ActivationLease ==
  ASSUME TypeOK, TypeOK', Ownership, NEW t \in Callers,
         JoinWithoutActivation(t) \/ Activate(t) \/ ActivationAcknowledged(t)
           \/ ActivationResumes(t),
         ~(CallerFails(t) /\ UNCHANGED <<st, native>>)
  PROVE  LeaseStep
<1>0. t \in Tasks /\ t # Worker /\ OthersRest(t)
  BY CallerRests, CoordinatorAssumption DEF Tasks, Progress
<1>1. CallerOwnership(t)
  BY <1>0 DEF Ownership, TaskOwnership
<1>2. StateKept /\ native'.have = native.have /\ st'.gen = st.gen
      /\ native'.paused \in {FALSE, native.paused}
  BY DEF JoinWithoutActivation, Activate, ActivationAcknowledged, ActivationResumes,
         StateKept, TypeOK, StateType
<1>3. pc[t] \in {"selected", "actAck", "actResume"}
  BY DEF JoinWithoutActivation, Activate, ActivationAcknowledged, ActivationResumes
<1>4. CASE JoinWithoutActivation(t)
  <2>1. CallerSucceeds(t) /\ pc[t] = "selected" /\ (job[t].sub \/ job[t].file \in native.have)
    BY <1>1, <1>4 DEF JoinWithoutActivation, CallerOwnership
  <2>2. \/ job[t].kind \in Readers /\ pc'[t] = "playing" /\ job'[t] = job[t]
        \/ job[t].kind \notin Readers /\ pc'[t] = "idle"
    BY <1>0, <2>1, Moves DEF CallerSucceeds
  <2>3. Place(t)' = Place(t)
    BY <1>2, <2>1, <2>2
    DEF Place, HoldsPermit, HasLease, IsServed, PermitPC, PausePC, AskingPC
  <2> QED BY <1>0, <1>2, <2>3, LeaseStays
<1>5. CASE Activate(t) \/ ActivationAcknowledged(t)
  <2>1. /\ job'[t] = job[t] /\ pc[t] \in {"selected", "actAck"}
        /\ pc'[t] \in {"actAck", "actResume", "pauseEnter"}
    BY <1>0, <1>5, Moves DEF Activate, ActivationAcknowledged
  <2>2. Place(t)' = Place(t)
    BY <1>2, <2>1
    DEF Place, HoldsPermit, HasLease, IsServed, PermitPC, PausePC, AskingPC
  <2> QED BY <1>0, <1>2, <2>2, LeaseStays
<1>6. CASE ActivationResumes(t)
  <2>1. CallerSucceeds(t) /\ pc[t] = "actResume" /\ ~native'.paused /\ job[t].gen = st.gen
    BY <1>6 DEF ActivationResumes, TypeOK, Current
  <2>2. CASE job[t].kind \notin Readers
    <3>1. pc'[t] = "idle"
      BY <1>0, <2>1, <2>2, Moves DEF CallerSucceeds
    <3>2. Place(t)' = Place(t)
      BY <2>1, <2>2, <3>1 DEF Place, HoldsPermit, PermitPC, PausePC, AskingPC
    <3> QED BY <1>0, <1>2, <3>2, LeaseStays
  <2>3. CASE job[t].kind \in Readers
    <3>1. pc'[t] = "playing" /\ job'[t] = job[t]
      BY <1>0, <2>1, <2>3, Moves DEF CallerSucceeds
    <3>2. CASE Place(t)' = Place(t)
      BY <1>0, <1>2, <3>2, LeaseStays
    <3>3. CASE Place(t)' # Place(t)
      <4>1. HasLease(t) /\ Place(t) = "leased" /\ Place(t)' = "served" /\ job[t].file \notin native.have
        BY <1>2, <2>1, <2>3, <3>1, <3>3
        DEF Place, HoldsPermit, HasLease, IsServed, PermitPC, PausePC, AskingPC
      <4>2. LeaseClient' = [LeaseClient EXCEPT ![t] = "served"] /\ LeaseFile' = LeaseFile
        BY <1>0, <1>2, <4>1, LeaseMoves
      <4>3. LeaseFile \notin native.have
        BY <4>1, LeaseIsOnFile
      <4>4. Lease!Answer(t)
        BY <1>2, <2>1, <4>1, <4>2, <4>3 DEF Lease!Answer, Lease!Moves, LeaseClient, LeaseFile
      <4> QED BY <4>4, LeaseSteps
    <3> QED BY <3>2, <3>3
  <2> QED BY <2>2, <2>3
<1> QED BY <1>4, <1>5, <1>6

LEMMA EndHlsLease ==
  ASSUME TypeOK, NEW t \in Callers, Ownership, EndHlsWithoutPause(t) \/ EndHlsPauses(t)
  PROVE  LeaseStep
<1>0. t \in Tasks /\ t # Worker /\ OthersRest(t)
  BY CallerRests, CoordinatorAssumption DEF Tasks, Progress
<1>1. StateKept /\ UNCHANGED native
  BY DEF EndHlsWithoutPause, EndHlsPauses, KeepActiveForSeeding, StateKept, TypeOK, StateType
<1>2. /\ pc[t] \in {"endPending", "endPaused"}
      /\ pc'[t] = "idle" \/ (pc'[t] = "pauseLock" /\ job'[t] = job[t])
  BY <1>0, Moves DEF EndHlsWithoutPause, EndHlsPauses
<1>3. job[t].kind = "endhls"
  BY <1>0, <1>2 DEF Ownership, TaskOwnership, CallerOwnership
<1>4. Place(t) = "out" /\ Place(t)' = "out"
  BY <1>2, <1>3 DEF Place, HoldsPermit, PermitPC, PausePC, AskingPC, Readers
<1> QED BY <1>0, <1>1, <1>4, LeaseStays

\* Only a reader of a complete file waits for a pause, and it is a guest; the
\* torrent is paused when nobody is served.
LEMMA PausingLease ==
  ASSUME TypeOK, TypeOK', Ownership, Ownership', NEW t \in Tasks, Pausing(t)
  PROVE  LeaseStep
<1>0. OthersRest(t) /\ pc[t] \in PausePC
  BY PausingRests
  DEF Pausing, PauseEnter, PauseStale, PauseNative, PauseConfirmed, PauseSubmitsZeros,
      PauseAcknowledged, PausePC
<1>1. StateKept /\ native'.have = native.have
  <2>1. st' = st \/ st' = KeepActiveForSeeding(st, job[t].gen) \/ (st' = FinalizedPause(t) /\ UNCHANGED native)
    BY DEF Pausing, PauseEnter, PauseStale, PauseNative, PauseConfirmed, PauseSubmitsZeros,
           PauseAcknowledged
  <2>2. native'.have = native.have
    BY DEF Pausing, PauseEnter, PauseStale, PauseNative, PauseConfirmed, PauseSubmitsZeros,
           PauseAcknowledged, TypeOK
  <2> QED BY <2>1, <2>2, FinalizedPauseOwnership
          DEF KeepActiveForSeeding, StateKept, TypeOK, StateType
<1>2. ASSUME t # Worker
      PROVE  \A u \in Callers : Place(u)' = Place(u)
  <2>1. t \in Callers /\ CallerOwnership(t)
    BY <1>2 DEF Tasks, Ownership, TaskOwnership
  <2>2. ~HasLease(t)
    <3>1. ASSUME HasLease(t) PROVE FALSE
      BY <1>0, <2>1, <3>1 DEF CallerOwnership, SelectionKept, HasLease, HoldsPermit, PermitPC
    <3> QED BY <3>1
  <2>3. \/ pc'[t] \in PermitPC /\ job'[t] = job[t]
        \/ pc'[t] = "idle" /\ job[t].kind \notin Readers
    BY <1>0, <1>2, Moves
    DEF Pausing, PauseEnter, PauseStale, PauseNative, PauseConfirmed, PauseSubmitsZeros,
        PauseAcknowledged, PauseReturns, CallerSucceeds, PermitPC, PausePC
  <2>4. Place(t)' = Place(t)
    BY <1>0, <1>1, <2>1, <2>2, <2>3
    DEF Place, HoldsPermit, HasLease, IsServed, PermitPC, PausePC, AskingPC, StateKept
  <2> QED BY <1>0, <1>1, <2>4, PlaceKept DEF OthersRest, StateKept, Tasks
<1>3. \A u \in Callers : Place(u)' = Place(u)
  BY <1>0, <1>1, <1>2, PlaceKept, CoordinatorAssumption DEF OthersRest, StateKept, Tasks
<1>4. LeaseClient' = LeaseClient /\ LeaseFile' = LeaseFile
  BY <1>1, <1>3 DEF LeaseClient, LeaseFile, StateKept
<1>5. CASE native'.paused = native.paused
  BY <1>1, <1>4, <1>5, LeaseSteps DEF Lease!vars, LeaseClient, LeaseFile
<1>6. CASE native'.paused # native.paused
  <2>1. native'.paused
    BY <1>6 DEF Pausing, PauseEnter, PauseStale, PauseNative, PauseConfirmed, PauseSubmitsZeros,
           PauseAcknowledged, TypeOK
  <2>2. ASSUME NEW u \in Callers, Place(u)' = "served" PROVE FALSE
    <3>1. CallerOwnership(u)'
      BY CoordinatorAssumption DEF Ownership, TaskOwnership, Tasks
    <3> QED BY <2>1, <2>2, <3>1 DEF CallerOwnership, IsConnected, Place, HasLease, IsServed
  <2>3. Lease!Served = {}
    BY <1>3, <2>2 DEF Lease!Served, LeaseClient
  <2>4. Lease!Disconnect
    BY <1>1, <1>4, <2>1, <2>3 DEF Lease!Disconnect, LeaseClient, LeaseFile
  <2> QED BY <2>4, LeaseSteps
<1> QED BY <1>5, <1>6

LEMMA PauseFailsLease ==
  ASSUME TypeOK, NEW t \in Tasks, PauseFails(t)
  PROVE  LeaseStep
<1>1. CASE t = Worker
  <2>1. OthersRest(Worker) /\ StateKept /\ UNCHANGED native
    BY <1>1, PausingRests DEF PauseFails, StateKept, TypeOK, StateType
  <2> QED BY <2>1, LeaseQuiet
<1>2. CASE t # Worker
  BY <1>2, LeaseLeft DEF PauseFails, Tasks
<1> QED BY <1>1, <1>2

-----------------------------------------------------------------------------
(* The worker and the environment as clients see them: only the tick gives   *)
(* the file up, when nobody reads; only a last piece ends a service.         *)

LEMMA TickLease ==
  ASSUME TypeOK, TypeOK', Ownership, PermitsAccounted, TickPauses
  PROVE  LeaseStep
<1> DEFINE s == Expired(st)
<1>0. Worker \in Tasks /\ OthersRest(Worker) /\ UNCHANGED native /\ pc[Worker] = "idle"
  BY WorkerRests DEF Serve, TickPauses
<1>1. s.gen = st.gen /\ s.prio = st.prio /\ s.sel = st.sel /\ s.phase = st.phase
      /\ s \in StateType
  BY DEF Expired, TypeOK, StateType
<1>2. CASE s.phase = "PausePending"
  <2>1. st' = [s EXCEPT !.deadline = "none"]
    BY <1>2 DEF TickPauses
  <2>2. st'.gen = st.gen /\ st'.prio = st.prio /\ st'.sel = st.sel
    <3> HIDE DEF s
    <3> QED BY <1>1, <2>1 DEF StateType
  <2>3. StateKept
    BY <1>0, <2>2 DEF StateKept
  <2> QED BY <1>0, <2>3, LeaseQuiet
<1>3. CASE s.phase # "PausePending"
  <2>1. st' = BeginPause(s)
    BY <1>3 DEF TickPauses
  <2>2. st'.prio = 0
    <3> HIDE DEF s
    <3> QED BY <1>1, <2>1 DEF BeginPause, StateType
  <2>3. ASSUME NEW u \in Callers
        PROVE  Place(u)' = Place(u) /\ Place(u) \in {"out", "asking"}
    <3>1. ~HoldsPermit(u) /\ Rests(u)
      BY <1>0, TickFindsNoPermit, CoordinatorAssumption DEF OthersRest, Tasks
    <3>2. ~HoldsPermit(u)'
      BY <3>1 DEF HoldsPermit, Rests
    <3> QED BY <3>1, <3>2 DEF Place, Rests
  <2>4. LeaseClient' = LeaseClient /\ LeaseFile' = NoFile
    BY <2>2, <2>3 DEF LeaseClient, LeaseFile
  <2>5. Lease!Rest
    BY <1>0, <2>3, <2>4 DEF Lease!Rest, LeaseClient, LeaseFile
  <2> QED BY <2>5, LeaseSteps
<1> QED BY <1>2, <1>3

LEMMA ServeLease ==
  ASSUME TypeOK, TypeOK', Ownership, PermitsAccounted, Serve
  PROVE  LeaseStep
<1>0. OthersRest(Worker)
  BY WorkerRests
<1>1. CASE ~TickPauses
  <2>1. StateKept
    <3>1. st'.gen = st.gen /\ st'.prio = st.prio /\ st'.sel = st.sel
      <4>1. CASE HandleRelease
        BY <4>1 DEF HandleRelease, ReleasePermit, ScheduleIdle, TypeOK, StateType
      <4>2. CASE HandleReleaseMetadata
        BY <4>2 DEF HandleReleaseMetadata, ReleaseMetadata, ScheduleIdle, TypeOK, StateType
      <4>3. CASE HandleSeedingOn \/ HandleSeedingOff \/ HandleVerified
        BY <4>3 DEF HandleSeedingOn, HandleSeedingOff, HandleVerified, ScheduleIdle, TypeOK,
           StateType
      <4>4. CASE TickExpiresHls
        BY <4>4 DEF TickExpiresHls, Expired, TypeOK, StateType
      <4> QED BY <1>1, <4>1, <4>2, <4>3, <4>4 DEF Serve
    <3>2. native.have \subseteq native'.have
      BY <1>1 DEF Serve, HandleRelease, HandleReleaseMetadata, HandleSeedingOn,
         HandleSeedingOff, HandleVerified, TickExpiresHls, TypeOK
    <3> QED BY <3>1, <3>2 DEF StateKept
  <2>2. native'.have = native.have /\ native'.paused \in {FALSE, native.paused}
    BY <1>1 DEF Serve, HandleRelease, HandleReleaseMetadata, HandleSeedingOn, HandleSeedingOff,
       HandleVerified, TickExpiresHls, TypeOK
  <2> QED BY <1>0, <2>1, <2>2, LeaseQuiet
<1>2. CASE TickPauses
  BY <1>2, TickLease
<1> QED BY <1>1, <1>2

LEMMA FinishLease ==
  ASSUME TypeOK, Ownership, NEW f \in Files, FileCompletes(f)
  PROVE  LeaseStep
<1>1. /\ OthersRest(Worker) /\ UNCHANGED st /\ native'.have = native.have \cup {f}
      /\ native'.paused = native.paused
  BY WorkerRests DEF FileCompletes, Environment, TypeOK
<1>2. ASSUME NEW u \in Callers
      PROVE  Place(u)' = IF Place(u) = "served" /\ LeaseFile = f THEN "leased" ELSE Place(u)
  <2>1. Rests(u)
    BY <1>1, CoordinatorAssumption DEF OthersRest, Tasks
  <2>2. HasLease(u) => job[u].file = LeaseFile
    BY LeaseIsOnFile
  <2> QED BY <1>1, <2>1, <2>2 DEF Place, HoldsPermit, HasLease, IsServed, Rests
<1>3. /\ LeaseClient' = [c \in Callers |->
                           IF LeaseClient[c] = "served" /\ LeaseFile = f THEN "leased" ELSE LeaseClient[c]]
      /\ LeaseFile' = LeaseFile
  BY <1>1, <1>2 DEF LeaseClient, LeaseFile
<1>4. Lease!Finish(f)
  BY <1>1, <1>3 DEF Lease!Finish, LeaseClient, LeaseFile
<1> QED BY <1>4, LeaseSteps

LEMMA EnvironmentLease ==
  ASSUME TypeOK, Ownership, Environment
  PROVE  LeaseStep
<1>1. CASE \E f \in Files : FileCompletes(f)
  BY <1>1, FinishLease
<1>2. CASE ~\E f \in Files : FileCompletes(f)
  <2>1. StateKept /\ native'.have = native.have /\ native'.paused = native.paused
    BY <1>2 DEF Environment, MetadataArrives, HlsLapses, DeadlinePasses, SetSeeding, StateKept,
       TypeOK, StateType
  <2> QED BY <2>1, WorkerRests, LeaseQuiet
<1> QED BY <1>1, <1>2

LEMMA NextLease ==
  TypeOK /\ TypeOK' /\ Ownership /\ Ownership' /\ PermitsAccounted /\ [Next]_vars => LeaseStep
<1> SUFFICES ASSUME TypeOK, TypeOK', Ownership, Ownership', PermitsAccounted, [Next]_vars
             PROVE  LeaseStep
  OBVIOUS
<1>1. CASE UNCHANGED vars
  BY <1>1, LeaseQuiet, StillState DEF vars, OthersRest, Rests
<1>2. ASSUME NEW t \in Callers, CallerFails(t), UNCHANGED <<st, native>>
      PROVE  LeaseStep
  BY <1>2, LeaseLeft
<1>3. ASSUME NEW t \in Callers, Progress(t)
      PROVE  LeaseStep
  <2>1. CASE CallerFails(t) /\ UNCHANGED <<st, native>>
    BY <1>2, <2>1
  <2>2. CASE ~(CallerFails(t) /\ UNCHANGED <<st, native>>)
    <3>1. ~BackgroundRejected(t) /\ ~ActivationStale(t)
      BY <2>2 DEF BackgroundRejected, ActivationStale
    <3> QED BY <1>3, <2>2, <3>1, LoadingLease, SelectForReaderLease, SelectForHlsLease,
            ActivationLease, EndHlsLease DEF Progress
  <2> QED BY <2>1, <2>2
<1>4. ASSUME NEW t \in Callers, Failure(t) \/ CloseReader(t)
      PROVE  LeaseStep
  BY <1>2, <1>4 DEF Failure, MetadataFails, ActivationFails, Abandon, CloseReader
<1>5. CASE Next
  BY <1>3, <1>4, <1>5, RequestLease, PausingLease, PauseFailsLease, ServeLease,
     EnvironmentLease DEF Next
<1> QED BY <1>1, <1>5

LEMMA InitLease == Init => Lease!Init
<1> SUFFICES ASSUME Init PROVE Lease!Init
  OBVIOUS
<1>1. st.prio = 0 /\ native.have = {} /\ native.paused = TRUE
  BY DEF Init, NewState
<1>2. \A t \in Callers : Place(t) = "out"
  BY DEF Init, Place, HoldsPermit, PermitPC, PausePC, AskingPC, Tasks
<1> QED BY <1>1, <1>2 DEF Lease!Init

\* The coordinator is a PlaybackLease: whatever requests, pauses, ticks, failures
\* and dropped futures interleave, a reader loses its lease only to a request,
\* and its torrent stays connected while it is served.
THEOREM ReadersHaveLeases == Spec => IsPlaybackLease
<1>1. Init => Lease!Init
  BY InitLease
<1>2. /\ TypeOK /\ TypeOK' /\ Ownership /\ Ownership' /\ PermitsAccounted /\ [Next]_vars
      => [Lease!Next]_(Lease!vars)
  BY NextLease DEF LeaseStep
<1> QED BY <1>1, <1>2, OwnershipCorrect, PermitsAreAccounted, PTL DEF Spec, IsPlaybackLease, Lease!Spec
=============================================================================
