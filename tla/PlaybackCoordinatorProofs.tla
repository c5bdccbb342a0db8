--------------------- MODULE PlaybackCoordinatorProofs ---------------------
(***************************************************************************)
(* Theorems about PlaybackCoordinator for any torrent, any finite number   *)
(* of callers and any bounds: its types, that one task at a time writes    *)
(* file priorities, that background probes only join, that the permit      *)
(* counters balance and that idle pauses find nobody.                      *)
(***************************************************************************)
EXTENDS PlaybackCoordinator, FiniteSetTheorems, TLAPS

-----------------------------------------------------------------------------
(* The transitions of TorrentPlaybackState keep its type.                  *)

\* start and end of an idle period: schedule_idle only moves the deadline.
LEMMA ScheduleIdleType ==
  ASSUME NEW s \in StateType
  PROVE  ScheduleIdle(s) \in StateType
BY DEF ScheduleIdle, StateType

\* select() moves on by at most one generation, to a typed state.
LEMMA SelectType ==
  ASSUME NEW s \in StateType, NEW f \in Files \cup {NoFile}, NEW p \in Priority,
         NEW direct \in BOOLEAN, NEW hls \in BOOLEAN,
         NEW network \in BOOLEAN, NEW fg \in BOOLEAN,
         GenFor(s, f, p) \in Gens
  PROVE  Select(s, f, p, direct, hls, network, fg) \in StateType
<1> DEFINE g  == GenFor(s, f, p)
           d  == Bump(s.direct, g, IF direct THEN 1 ELSE 0)
           o  == Bump(s.foreground, g, IF direct /\ fg THEN 1 ELSE 0)
           h  == IF hls THEN "fresh" ELSE s.hls
           ph == IF network THEN "Active" ELSE s.phase
<1>1. g \in Gens
  OBVIOUS
<1>2. d \in [Gens -> Nat] /\ o \in [Gens -> Nat]
  BY DEF Bump, StateType
<1>3. h \in {"none", "fresh", "stale"} /\ ph \in Phases
  BY DEF StateType, Phases
<1>4. Select(s, f, p, direct, hls, network, fg)
        = [s EXCEPT !.gen = g, !.sel = f, !.prio = p, !.direct = d, !.foreground = o,
                    !.hls = h, !.phase = ph, !.deadline = "none"]
  BY Zenon DEF Select
<1> HIDE DEF g, d, o, h, ph
<1>5. [s EXCEPT !.gen = g, !.sel = f, !.prio = p, !.direct = d, !.foreground = o,
                !.hls = h, !.phase = ph, !.deadline = "none"] \in StateType
  BY <1>1, <1>2, <1>3 DEF StateType
<1> QED BY <1>4, <1>5

\* begin_pause() keeps the type while generations last.
LEMMA BeginPauseType ==
  ASSUME NEW s \in StateType, s.gen < MaxGen
  PROVE  BeginPause(s) \in StateType /\ BeginPause(s).gen = s.gen + 1
<1>1. s.gen + 1 \in Gens
  BY StateAssumption DEF StateType, Gens
<1>2. 0 \in Priority /\ "PausePending" \in Phases
  BY DEF Priority, Phases
<1>3. BeginPause(s) \in StateType
  BY <1>1, <1>2 DEF BeginPause, StateType
<1> QED BY <1>3 DEF BeginPause, StateType

LEMMA KeepActiveType ==
  ASSUME NEW s \in StateType, NEW g \in Gens
  PROVE  KeepActiveForSeeding(s, g) \in StateType
BY DEF KeepActiveForSeeding, StateType, Phases

\* The saturating decrements keep the counters natural.
LEMMA ReleasePermitType ==
  ASSUME NEW s \in StateType, NEW g \in Gens, NEW fg \in BOOLEAN
  PROVE  ReleasePermit(s, g, fg) \in StateType
<1>1. /\ Decremented(s.direct, g) \in [Gens -> Nat]
      /\ Decremented(s.foreground, g) \in [Gens -> Nat]
  BY DEF Decremented, StateType
<1>2. [s EXCEPT !.direct = Decremented(s.direct, g),
                !.foreground = IF fg THEN Decremented(s.foreground, g)
                               ELSE s.foreground] \in StateType
  BY <1>1 DEF StateType
<1> QED BY <1>2, ScheduleIdleType DEF ReleasePermit

LEMMA ReleaseMetadataType ==
  ASSUME NEW s \in StateType
  PROVE  ReleaseMetadata(s) \in StateType
BY ScheduleIdleType DEF ReleaseMetadata, StateType
-----------------------------------------------------------------------------
(* Tasks: what a request that fails, a request that is answered and a pause  *)
(* that returns leave typed.                                                 *)

PcJobType == pc \in [Tasks -> PCs] /\ job \in [Tasks -> JobType]

LEMMA NoJobType == NoJob \in JobType
BY StateAssumption DEF NoJob, JobType, Gens, Priority

\* Dropping a request sends at most one command.
LEMMA CallerFailsType ==
  ASSUME TypeOK, NEW t \in Tasks, CallerFails(t)
  PROVE  PcJobType' /\ lock' \in Tasks \cup {NoTask} /\ queue' \in Seq(CommandType)
<1>1. PcJobType'
  BY NoJobType DEF TypeOK, CallerFails, Goto, Become, PcJobType, PCs
<1>2. lock' \in Tasks \cup {NoTask}
  BY DEF TypeOK, CallerFails, ReleaseLock
<1>3. Release(job[t].gen, Foreground(job[t].kind)) \in CommandType
  BY DEF TypeOK, JobType, Release, CommandType, Foreground
<1>4. ReleaseMeta \in CommandType
  BY StateAssumption DEF ReleaseMeta, CommandType, Gens
<1>5. queue' \in Seq(CommandType)
  BY <1>3, <1>4 DEF TypeOK, CallerFails
<1> QED BY <1>1, <1>2, <1>5

LEMMA CallerSucceedsType ==
  ASSUME TypeOK, NEW t \in Tasks, CallerSucceeds(t)
  PROVE  PcJobType'
BY NoJobType DEF TypeOK, CallerSucceeds, Goto, Become, PcJobType, PCs, PermitPC, PausePC

LEMMA PauseReturnsType ==
  ASSUME TypeOK, NEW t \in Tasks, PauseReturns(t)
  PROVE  PcJobType'
BY NoJobType, CallerSucceedsType DEF TypeOK, PauseReturns, Goto, Become, PcJobType, PCs

LEMMA FinalizedPauseType ==
  ASSUME TypeOK, NEW t \in Tasks
  PROVE  FinalizedPause(t) \in StateType
<1>1. Zeros \in Vector /\ 0 \in Priority /\ "PausedIdle" \in Phases
  BY DEF Zeros, Vector, Priority, Phases
<1> QED BY <1>1 DEF TypeOK, FinalizedPause, StateType

LEMMA DesiredType ==
  ASSUME NEW f \in Files, NEW p \in Priority
  PROVE  DesiredPriorities(f, p) \in Vector
BY DEF DesiredPriorities, Vector, Priority

-----------------------------------------------------------------------------
(* Every action of a caller keeps the types.                                 *)

LEMMA ProgressType ==
  ASSUME TypeOK, NEW t \in Callers, Progress(t)
  PROVE  TypeOK'
<1> t \in Tasks
  BY DEF Tasks
<1> USE DEF Goto, Become, PCs, PermitPC, PausePC
<1>1. CASE LoadLayout(t)
  BY <1>1 DEF LoadLayout, TypeOK
<1>2. CASE AcquireMetadata(t)
  <2>1. st.meta + 1 \in Nat /\ (IF native.meta THEN st.phase ELSE "Active") \in Phases
    BY DEF TypeOK, StateType, Phases
  <2>2. st' \in StateType
    BY <1>2, <2>1 DEF AcquireMetadata, TypeOK, StateType
  <2> QED BY <1>2, <2>2 DEF AcquireMetadata, TypeOK
<1>3. CASE SubmitIdlePriorities(t)
  <2>1. Zeros \in Vector
    BY DEF Zeros, Vector, Priority
  <2> QED BY <1>3, <2>1 DEF SubmitIdlePriorities, TypeOK
<1>4. CASE MetadataLoaded(t)
  <2>1. Zeros \in Vector
    BY DEF Zeros, Vector, Priority
  <2>2. st' \in StateType
    BY <1>4, <2>1 DEF MetadataLoaded, TypeOK, StateType
  <2>3. ReleaseMeta \in CommandType
    BY StateAssumption DEF ReleaseMeta, CommandType, Gens
  <2> QED BY <1>4, <2>2, <2>3 DEF MetadataLoaded, TypeOK, Send
<1>5. CASE CheckComplete(t)
  <2>1. PICK c \in LooksComplete(job[t].file) : Become(t, [job[t] EXCEPT !.complete = c])
    BY <1>5 DEF CheckComplete
  <2>2. [job[t] EXCEPT !.complete = c] \in JobType
    BY <2>1 DEF TypeOK, JobType, LooksComplete
  <2> QED BY <1>5, <2>1, <2>2 DEF CheckComplete, TypeOK
<1>6. CASE BackgroundRejected(t)
  BY <1>6, CallerFailsType DEF BackgroundRejected, TypeOK, PcJobType
<1>7. CASE SelectForReader(t)
  <2> DEFINE fg == Foreground(job[t].kind)
             p  == IF ~fg /\ ForegroundActive(st) THEN st.prio
                   ELSE RequestedPriority(job[t].kind, job[t].complete)
             g  == GenFor(st, job[t].file, p)
             j  == [job[t] EXCEPT !.prio = p, !.gen = g,
                                  !.sub = Subordinate(st, job[t].file, TRUE, fg)]
  <2>1. p \in Priority
    BY DEF TypeOK, StateType, RequestedPriority, Priority
  <2>2. /\ st \in StateType /\ job[t].file \in Files \cup {NoFile}
        /\ fg \in BOOLEAN /\ (~job[t].complete \/ seeding) \in BOOLEAN
    BY DEF TypeOK, JobType, Foreground
  <2>3. /\ g \in Gens
        /\ st' = Select(st, job[t].file, p, TRUE, FALSE, ~job[t].complete \/ seeding, fg)
        /\ job' = [job EXCEPT ![t] = j]
    BY <1>7 DEF SelectForReader
  <2>4. st' \in StateType
    <3> HIDE DEF p, fg
    <3> QED BY <2>1, <2>2, <2>3, SelectType
  <2>5. j \in JobType
    <3>1. Subordinate(st, job[t].file, TRUE, fg) \in BOOLEAN
      BY DEF Subordinate
    <3> HIDE DEF p, fg, g
    <3> QED BY <3>1, <2>1, <2>3 DEF TypeOK, JobType
  <2> HIDE DEF j
  <2> QED BY <1>7, <2>3, <2>4, <2>5 DEF SelectForReader, TypeOK
<1>8. CASE SelectForHls(t)
  <2> DEFINE p == RequestedPriority("hls", job[t].complete)
             g == GenFor(st, job[t].file, p)
  <2>1. p \in Priority
    BY DEF RequestedPriority, Priority
  <2>2. /\ st \in StateType /\ job[t].file \in Files \cup {NoFile}
        /\ (~job[t].complete \/ seeding) \in BOOLEAN
    BY DEF TypeOK, JobType
  <2>3. /\ g \in Gens
        /\ st' = Select(st, job[t].file, p, FALSE, TRUE, ~job[t].complete \/ seeding, FALSE)
        /\ \/ job' = [job EXCEPT ![t] = [job[t] EXCEPT !.prio = p, !.gen = g]]
           \/ job' = [job EXCEPT ![t] = NoJob]
    BY <1>8 DEF SelectForHls
  <2>4. st' \in StateType
    <3> HIDE DEF p
    <3> QED BY <2>1, <2>2, <2>3, SelectType
  <2>5. [job[t] EXCEPT !.prio = p, !.gen = g] \in JobType
    <3>1. g \in Gens /\ job[t] \in JobType
      BY <2>3 DEF TypeOK
    <3> HIDE DEF p, g
    <3> QED BY <2>1, <3>1 DEF JobType
  <2>6. job' \in [Tasks -> JobType]
    BY <2>3, <2>5, NoJobType DEF TypeOK
  <2> QED BY <1>8, <2>4, <2>6 DEF SelectForHls, TypeOK
<1>9. CASE ActivationStale(t)
  BY <1>9, CallerFailsType DEF ActivationStale, TypeOK, PcJobType
<1>10. CASE JoinWithoutActivation(t)
  BY <1>10, CallerSucceedsType DEF JoinWithoutActivation, TypeOK, PcJobType
<1>11. CASE Activate(t)
  <2>1. job[t].file \in Files \cup {NoFile} /\ job[t].prio \in Priority
    BY DEF TypeOK, JobType
  <2>2. DesiredPriorities(job[t].file, job[t].prio) \in Vector
    BY <2>1 DEF DesiredPriorities, Vector, Priority
  <2> QED BY <1>11, <2>2 DEF Activate, TypeOK, Acquire
<1>12. CASE ActivationAcknowledged(t)
  <2>1. DesiredPriorities(job[t].file, job[t].prio) \in Vector
    BY DEF DesiredPriorities, Vector, Priority, TypeOK, JobType
  <2>2. CASE CallerFails(t) /\ UNCHANGED st
    BY <1>12, <2>2, CallerFailsType DEF ActivationAcknowledged, TypeOK, PcJobType
  <2>3. CASE ~(CallerFails(t) /\ UNCHANGED st)
    <3>1. st' \in StateType
      BY <1>12, <2>1, <2>3 DEF ActivationAcknowledged, TypeOK, StateType
    <3> QED BY <1>12, <2>3, <3>1 DEF ActivationAcknowledged, TypeOK
  <2> QED BY <2>2, <2>3
<1>13. CASE ActivationResumes(t)
  <2>1. CASE ~Current(job[t].gen, job[t].file)
    BY <1>13, <2>1, CallerFailsType DEF ActivationResumes, TypeOK, PcJobType
  <2>2. CASE Current(job[t].gen, job[t].file)
    <3>1. PcJobType'
      BY <1>13, <2>2, CallerSucceedsType DEF ActivationResumes
    <3> QED BY <1>13, <2>2, <3>1 DEF ActivationResumes, TypeOK, PcJobType, ReleaseLock
  <2> QED BY <2>1, <2>2
<1>14. CASE EndHlsWithoutPause(t)
  <2>1. "PausedIdle" \in Phases /\ job[t].gen \in Gens
    BY DEF Phases, TypeOK, JobType
  <2>2. st' \in StateType
    <3>1. CASE seeding
      BY <1>14, <2>1, <3>1, KeepActiveType DEF EndHlsWithoutPause, TypeOK
    <3>2. CASE ~seeding
      BY <1>14, <2>1, <3>2 DEF EndHlsWithoutPause, TypeOK, StateType
    <3> QED BY <3>1, <3>2
  <2> QED BY <1>14, <2>2, NoJobType DEF EndHlsWithoutPause, TypeOK
<1>15. CASE EndHlsPauses(t)
  BY <1>15 DEF EndHlsPauses, TypeOK
<1> QED BY <1>1, <1>2, <1>3, <1>4, <1>5, <1>6, <1>7, <1>8, <1>9, <1>10, <1>11,
           <1>12, <1>13, <1>14, <1>15 DEF Progress
LEMMA RequestType ==
  ASSUME TypeOK, NEW t \in Callers, Request(t)
  PROVE  TypeOK'
<1> t \in Tasks
  BY DEF Tasks
<1> USE DEF Goto, Become, PCs, PermitPC, PausePC
<1>0. requests' \in 0..MaxRequests
  <2>1. CountRequest
    BY DEF Request, EndHls, Begin
  <2> QED BY <2>1, CoordinatorAssumption DEF TypeOK, CountRequest
<1>1. ASSUME NEW f \in Files, EndHls(t, f)
      PROVE  TypeOK'
  <2>1. st' \in StateType /\ st.gen + 1 \in Gens
    BY <1>1, BeginPauseType, StateAssumption DEF EndHls, TypeOK, StateType, Gens
  <2>2. [NoJob EXCEPT !.kind = "endhls", !.file = f, !.gen = st.gen + 1] \in JobType
    BY <2>1, NoJobType DEF JobType, AllKinds
  <2> QED BY <1>0, <1>1, <2>1, <2>2 DEF EndHls, TypeOK
<1>2. ASSUME NEW f \in Files, NEW k \in Kinds, Begin(t, k, f)
      PROVE  TypeOK'
  <2>1. [NoJob EXCEPT !.kind = k, !.file = f] \in JobType
    BY NoJobType, CoordinatorAssumption DEF JobType
  <2> QED BY <1>0, <1>2, <2>1 DEF Begin, TypeOK
<1> QED BY <1>1, <1>2 DEF Request

LEMMA FailureType ==
  ASSUME TypeOK, NEW t \in Callers, Failure(t) \/ CloseReader(t)
  PROVE  TypeOK'
<1> t \in Tasks
  BY DEF Tasks
<1>1. /\ CallerFails(t)
      /\ UNCHANGED <<st, native, seeding, toggles, requests>>
      /\ layout' \in {"unset", layout}
  BY DEF Failure, MetadataFails, ActivationFails, Abandon, CloseReader
<1> QED BY <1>1, CallerFailsType DEF TypeOK, PcJobType

-----------------------------------------------------------------------------
(* perform_pause and the worker.                                             *)

LEMMA PausingType ==
  ASSUME TypeOK, NEW t \in Tasks, Pausing(t)
  PROVE  TypeOK'
<1> USE DEF Goto, Become, PCs, PermitPC, PausePC
<1>0. Zeros \in Vector
  BY DEF Zeros, Vector, Priority
<1>1. CASE PauseEnter(t)
  <2>1. CASE seeding
    BY <1>1, <2>1, KeepActiveType, PauseReturnsType
    DEF PauseEnter, TypeOK, PcJobType, JobType
  <2>2. CASE ~seeding
    BY <1>1, <2>2 DEF PauseEnter, TypeOK
  <2> QED BY <2>1, <2>2
<1>2. CASE PauseStale(t)
  BY <1>2, PauseReturnsType DEF PauseStale, TypeOK, PcJobType
<1>3. CASE PauseNative(t)
  BY <1>3 DEF PauseNative, TypeOK, Acquire
<1>4. CASE PauseConfirmed(t)
  BY <1>4, FinalizedPauseType, PauseReturnsType
  DEF PauseConfirmed, TypeOK, PcJobType, ReleaseLock
<1>5. CASE PauseSubmitsZeros(t)
  BY <1>0, <1>5 DEF PauseSubmitsZeros, TypeOK
<1>6. CASE PauseAcknowledged(t)
  BY <1>6, FinalizedPauseType, PauseReturnsType
  DEF PauseAcknowledged, TypeOK, PcJobType, ReleaseLock
<1> QED BY <1>1, <1>2, <1>3, <1>4, <1>5, <1>6 DEF Pausing

LEMMA PauseFailsType ==
  ASSUME TypeOK, NEW t \in Tasks, PauseFails(t)
  PROVE  TypeOK'
<1>1. CASE t = Worker
  <2>1. st' \in StateType
    <3>1. "PausePending" \in Phases /\ "Active" \in Phases
      BY DEF Phases
    <3> QED BY <1>1, <3>1 DEF PauseFails, TypeOK, StateType
  <2>2. PcJobType'
    BY <1>1, NoJobType DEF PauseFails, TypeOK, Goto, Become, PcJobType, PCs
  <2> QED BY <1>1, <2>1, <2>2 DEF PauseFails, TypeOK, PcJobType, ReleaseLock
<1>2. CASE t # Worker
  BY <1>2, CallerFailsType DEF PauseFails, TypeOK, PcJobType
<1> QED BY <1>1, <1>2

LEMMA ServeType ==
  ASSUME TypeOK, Serve
  PROVE  TypeOK'
<1> Worker \in Tasks
  BY DEF Tasks
<1> USE DEF Receive
<1>0. queue # <<>> => Head(queue) \in CommandType /\ Tail(queue) \in Seq(CommandType)
  BY DEF TypeOK
<1>1. CASE HandleRelease
  <2>1. st' \in StateType
    BY <1>0, <1>1, ReleasePermitType DEF HandleRelease, TypeOK, CommandType
  <2> QED BY <1>0, <1>1, <2>1 DEF HandleRelease, TypeOK
<1>2. CASE HandleReleaseMetadata
  BY <1>0, <1>2, ReleaseMetadataType DEF HandleReleaseMetadata, TypeOK
<1>3. CASE HandleSeedingOn
  <2>1. st' \in StateType
    BY <1>3 DEF HandleSeedingOn, TypeOK, StateType, Phases
  <2> QED BY <1>0, <1>3, <2>1 DEF HandleSeedingOn, TypeOK
<1>4. CASE HandleSeedingOff
  BY <1>0, <1>4, ScheduleIdleType DEF HandleSeedingOff, TypeOK
<1>5. CASE HandleVerified
  <2>1. st.gen \in Gens
    BY DEF TypeOK, StateType
  <2>2. [NoJob EXCEPT !.kind = "verified", !.gen = st.gen] \in JobType
    BY <2>1, NoJobType DEF JobType
  <2>3. /\ st' \in {st, [st EXCEPT !.phase = "PausePending"]}
        /\ pc' \in {pc, [pc EXCEPT ![Worker] = "pauseEnter"]}
        /\ job' \in {job, [job EXCEPT ![Worker] =
                             [NoJob EXCEPT !.kind = "verified", !.gen = st.gen]]}
    BY <1>5 DEF HandleVerified, Goto, Become
  <2>4. [st EXCEPT !.phase = "PausePending"] \in StateType
    BY DEF TypeOK, StateType, Phases
  <2> QED BY <1>0, <1>5, <2>2, <2>3, <2>4 DEF HandleVerified, TypeOK, PCs, PermitPC, PausePC
<1>6. CASE TickExpiresHls
  BY <1>6 DEF TickExpiresHls, TypeOK, Expired, StateType
<1>7. CASE TickPauses
  <2>1. Expired(st) \in StateType /\ Expired(st).gen = st.gen
    BY DEF Expired, StateType, TypeOK
  <2>2. st' \in StateType /\ st'.gen \in Gens
    <3>1. CASE Expired(st).phase = "PausePending"
      BY <1>7, <2>1, <3>1 DEF TickPauses, StateType
    <3>2. CASE Expired(st).phase # "PausePending"
      <4>1. st' = BeginPause(Expired(st)) /\ st'.gen \in Gens
        BY <1>7, <3>2 DEF TickPauses
      <4>2. Expired(st).gen < MaxGen
        BY <2>1, <4>1, StateAssumption DEF BeginPause, StateType, Gens
      <4> QED BY <2>1, <4>1, <4>2, BeginPauseType
    <3> QED BY <3>1, <3>2
  <2>3. [NoJob EXCEPT !.kind = "due", !.gen = st'.gen] \in JobType
    BY <2>2, NoJobType DEF JobType
  <2>4. job' = [job EXCEPT ![Worker] = [NoJob EXCEPT !.kind = "due", !.gen = st'.gen]]
    BY <1>7 DEF TickPauses, Become
  <2> QED BY <1>7, <2>2, <2>3, <2>4 DEF TickPauses, TypeOK, Goto, PCs, PermitPC, PausePC
<1> QED BY <1>1, <1>2, <1>3, <1>4, <1>5, <1>6, <1>7 DEF Serve

LEMMA EnvironmentType ==
  ASSUME TypeOK, Environment
  PROVE  TypeOK'
<1>1. CASE MetadataArrives
  BY <1>1 DEF MetadataArrives, TypeOK
<1>2. CASE HlsLapses
  BY <1>2 DEF HlsLapses, TypeOK, StateType
<1>3. CASE DeadlinePasses
  BY <1>3 DEF DeadlinePasses, TypeOK, StateType
<1>4. CASE SetSeeding
  <2>1. SeedingSet(~seeding) \in CommandType
    BY StateAssumption DEF SeedingSet, CommandType, Gens
  <2>2. toggles' \in 0..MaxToggles
    BY <1>4, CoordinatorAssumption DEF SetSeeding, TypeOK
  <2> QED BY <1>4, <2>1, <2>2 DEF SetSeeding, TypeOK, Send
<1>5. ASSUME NEW f \in Files, FileCompletes(f)
      PROVE  TypeOK'
  <2>1. Verified(f) \in CommandType
    BY StateAssumption DEF Verified, CommandType, Gens
  <2> QED BY <1>5, <2>1 DEF FileCompletes, TypeOK, Send
<1> QED BY <1>1, <1>2, <1>3, <1>4, <1>5 DEF Environment

-----------------------------------------------------------------------------
LEMMA InitType == Init => TypeOK
<1> SUFFICES ASSUME Init PROVE TypeOK
  OBVIOUS
<1>1. NewState \in StateType
  BY StateAssumption DEF NewState, StateType, Gens, Phases, Priority
<1>2. [f \in Files |-> 4] \in Vector
  BY DEF Vector, Priority
<1>3. native \in [paused : BOOLEAN, prio : Vector, meta : BOOLEAN, have : SUBSET Files]
  BY <1>2 DEF Init
<1> QED BY <1>1, <1>3, NoJobType, CoordinatorAssumption DEF Init, TypeOK, PCs

LEMMA NextType == TypeOK /\ [Next]_vars => TypeOK'
<1> SUFFICES ASSUME TypeOK, [Next]_vars PROVE TypeOK'
  OBVIOUS
<1>1. CASE UNCHANGED vars
  BY <1>1 DEF vars, TypeOK
<1>2. CASE Next
  BY <1>2, RequestType, ProgressType, FailureType, PausingType, PauseFailsType,
     ServeType, EnvironmentType DEF Next
<1> QED BY <1>1, <1>2

\* Every reachable state is typed: generations, counters and commands keep
\* their ranges and the operation mutex has at most one holder, a task.
THEOREM TypeCorrect == Spec => []TypeOK
<1> QED BY InitType, NextType, PTL DEF Spec

-----------------------------------------------------------------------------
(* One task moves per step, and the others rest.                             *)

Rests(u) == pc'[u] = pc[u] /\ job'[u] = job[u]
OthersRest(t) == \A u \in Tasks \ {t} : Rests(u)

LEMMA Moves ==
  ASSUME TypeOK, NEW t \in Tasks
  PROVE  /\ \A l : Goto(t, l) => pc'[t] = l /\ \A u \in Tasks \ {t} : pc'[u] = pc[u]
         /\ \A j : Become(t, j) => job'[t] = j /\ \A u \in Tasks \ {t} : job'[u] = job[u]
BY DEF TypeOK, Goto, Become

LEMMA FailedMoves ==
  ASSUME TypeOK, NEW t \in Tasks, CallerFails(t)
  PROVE  /\ OthersRest(t) /\ pc'[t] = "idle" /\ job'[t] = NoJob
         /\ lock' = IF lock = t THEN NoTask ELSE lock
BY Moves DEF CallerFails, OthersRest, Rests, ReleaseLock

LEMMA AnsweredMoves ==
  ASSUME TypeOK, NEW t \in Tasks, CallerSucceeds(t) \/ PauseReturns(t)
  PROVE  /\ OthersRest(t)
         /\ \/ job[t].kind \in Readers /\ t # Worker /\ pc'[t] = "playing" /\ job'[t] = job[t]
            \/ job[t].kind \notin Readers /\ pc'[t] = "idle" /\ job'[t] = NoJob
            \/ t = Worker /\ pc'[t] \in {"idle", "playing"}
BY Moves DEF CallerSucceeds, PauseReturns, OthersRest, Rests

LEMMA CallerRests ==
  ASSUME TypeOK, NEW t \in Callers, Request(t) \/ Progress(t) \/ Failure(t) \/ CloseReader(t)
  PROVE  OthersRest(t)
<1> t \in Tasks
  BY DEF Tasks
<1>1. CASE CallerFails(t) \/ CallerSucceeds(t)
  BY <1>1, FailedMoves, AnsweredMoves
<1>2. CASE ~(CallerFails(t) \/ CallerSucceeds(t))
  <2>1. CASE Request(t)
    BY <2>1, Moves DEF Request, EndHls, Begin, OthersRest, Rests
  <2>2. CASE LoadLayout(t) \/ AcquireMetadata(t) \/ SubmitIdlePriorities(t) \/ MetadataLoaded(t)
             \/ CheckComplete(t)
    BY <2>2, Moves DEF LoadLayout, AcquireMetadata, SubmitIdlePriorities, MetadataLoaded, CheckComplete,
       OthersRest, Rests
  <2>3. CASE SelectForReader(t) \/ SelectForHls(t) \/ EndHlsWithoutPause(t) \/ EndHlsPauses(t)
    BY <2>3, Moves DEF SelectForReader, SelectForHls, EndHlsWithoutPause, EndHlsPauses, OthersRest, Rests
  <2>4. CASE Activate(t) \/ ActivationAcknowledged(t)
    BY <1>2, <2>4, Moves DEF Activate, ActivationAcknowledged, OthersRest, Rests
  <2> QED
    BY <1>2, <2>1, <2>2, <2>3, <2>4 DEF Progress, Failure, BackgroundRejected, ActivationStale,
       JoinWithoutActivation, ActivationResumes, MetadataFails, ActivationFails, Abandon, CloseReader
<1> QED BY <1>1, <1>2

LEMMA PausingRests ==
  ASSUME TypeOK, NEW t \in Tasks, Pausing(t) \/ PauseFails(t)
  PROVE  OthersRest(t)
<1>1. CASE CallerFails(t) \/ PauseReturns(t)
  BY <1>1, FailedMoves, AnsweredMoves
<1>2. CASE ~(CallerFails(t) \/ PauseReturns(t))
  BY <1>2, Moves DEF Pausing, PauseEnter, PauseStale, PauseNative, PauseConfirmed, PauseSubmitsZeros,
     PauseAcknowledged, PauseFails, OthersRest, Rests
<1> QED BY <1>1, <1>2

LEMMA WorkerRests ==
  ASSUME TypeOK, Serve \/ Environment
  PROVE  Worker \in Tasks /\ OthersRest(Worker)
<1>1. Worker \in Tasks
  BY DEF Tasks
<1>2. CASE UNCHANGED <<pc, job>>
  BY <1>1, <1>2 DEF OthersRest, Rests
<1>3. CASE HandleVerified \/ TickPauses
  BY <1>1, <1>2, <1>3, Moves DEF HandleVerified, TickPauses, OthersRest, Rests
<1> QED
  BY <1>1, <1>2, <1>3 DEF Serve, HandleRelease, HandleReleaseMetadata, HandleSeedingOn,
     HandleSeedingOff, TickExpiresHls, Environment, MetadataArrives, HlsLapses, DeadlinePasses,
     SetSeeding, FileCompletes

-----------------------------------------------------------------------------
(* Who writes priorities: the loader of the layout before it is ready, the   *)
(* holder of the operation mutex afterwards.                                 *)

Loads(t) == pc[t] \in {"metaLock", "metaWait", "metaAck"}

WriterOK(t) ==
  /\ Loads(t) => layout = "loading"
  /\ pc[t] \in {"checked", "selected", "actAck", "actResume", "pauseAck"} => layout = "ready"
  /\ pc[t] \in {"actAck", "actResume", "pauseConfirm", "pauseAck"} => lock = t

Writers ==
  /\ \A t \in Tasks : WriterOK(t)
  /\ \A t, u \in Tasks : Loads(t) /\ Loads(u) => t = u

LEMMA WriterStep ==
  ASSUME TypeOK, Writers, NEW t \in Tasks, OthersRest(t), WriterOK(t)',
         lock' = lock \/ lock \in {NoTask, t},
         layout' = layout \/ (layout = "unset" /\ layout' = "loading") \/ Loads(t),
         Loads(t)' => Loads(t) \/ layout = "unset"
  PROVE  Writers'
<1>1. NoTask \notin Tasks
  BY CoordinatorAssumption
<1>2. ASSUME NEW u \in Tasks \ {t} PROVE WriterOK(u)' /\ (Loads(u)' <=> Loads(u))
  <2>1. pc'[u] = pc[u] /\ WriterOK(u) /\ (Loads(t) => ~Loads(u) /\ layout = "loading")
    BY DEF OthersRest, Rests, Writers, WriterOK
  <2>2. lock = u => lock' = u
    BY <1>1
  <2> QED BY <2>1, <2>2 DEF WriterOK, Loads
<1>3. \A u \in Tasks \ {t} : Loads(u) => layout = "loading" /\ ~Loads(t)
  BY DEF Writers, WriterOK
<1>4. ASSUME NEW u \in Tasks, NEW v \in Tasks, Loads(u)', Loads(v)' PROVE u = v
  <2>1. CASE u # t /\ v # t
    BY <1>2, <1>4, <2>1 DEF Writers
  <2>2. CASE u = t /\ v # t
    <3>1. Loads(v)  BY <1>2, <1>4, <2>2
    <3> QED BY <1>3, <1>4, <2>2, <3>1
  <2>3. CASE u # t /\ v = t
    <3>1. Loads(u)  BY <1>2, <1>4, <2>3
    <3> QED BY <1>3, <1>4, <2>3, <3>1
  <2> QED BY <2>1, <2>2, <2>3
<1>5. \A u \in Tasks : WriterOK(u)'
  BY <1>2
<1> QED BY <1>4, <1>5 DEF Writers

LEMMA WriterFails ==
  ASSUME TypeOK, Writers, NEW t \in Tasks, CallerFails(t), layout' = layout \/ Loads(t)
  PROVE  Writers'
<1>1. OthersRest(t) /\ pc'[t] = "idle" /\ lock' = IF lock = t THEN NoTask ELSE lock
  BY FailedMoves
<1>2. WriterOK(t)' /\ ~Loads(t)'
  BY <1>1 DEF WriterOK, Loads
<1>3. lock' = lock \/ lock \in {NoTask, t}
  BY <1>1
<1> QED BY <1>1, <1>2, <1>3, WriterStep

LEMMA WriterPasses ==
  ASSUME TypeOK, Writers, NEW t \in Tasks, OthersRest(t), layout' = layout,
         lock' = lock \/ lock = t,
         pc'[t] \notin {"metaLock", "metaWait", "metaAck", "checked", "selected", "actAck", "actResume",
                        "pauseConfirm", "pauseAck"}
  PROVE  Writers'
<1>1. WriterOK(t)' /\ ~Loads(t)'
  BY DEF WriterOK, Loads
<1> QED BY <1>1, WriterStep

LEMMA RequestWriters ==
  ASSUME TypeOK, Writers, NEW t \in Callers, Request(t)
  PROVE  Writers'
<1> t \in Tasks
  BY DEF Tasks
<1>1. OthersRest(t) /\ pc'[t] \in {"layout", "endPending", "endPaused"} /\ UNCHANGED <<lock, layout>>
  BY Moves DEF Request, EndHls, Begin, OthersRest, Rests
<1> QED BY <1>1, WriterPasses

LEMMA ProgressWriters ==
  ASSUME TypeOK, Writers, NEW t \in Callers, Progress(t)
  PROVE  Writers'
<1> t \in Tasks
  BY DEF Tasks
<1>0. WriterOK(t)
  BY DEF Writers
<1>1. CASE LoadLayout(t)
  <2>1. OthersRest(t) /\ pc'[t] = "metaLock" /\ layout = "unset" /\ layout' = "loading" /\ lock' = lock
    BY <1>1, Moves DEF LoadLayout, OthersRest, Rests
  <2>2. WriterOK(t)'
    BY <2>1 DEF WriterOK, Loads
  <2> QED BY <2>1, <2>2, WriterStep
<1>2. CASE AcquireMetadata(t) \/ SubmitIdlePriorities(t)
  <2>1. OthersRest(t) /\ pc'[t] \in {"metaWait", "metaAck"} /\ Loads(t) /\ UNCHANGED <<layout, lock>>
    BY <1>2, Moves DEF AcquireMetadata, SubmitIdlePriorities, OthersRest, Rests, Loads
  <2>2. WriterOK(t)'
    BY <1>0, <2>1 DEF WriterOK, Loads
  <2> QED BY <2>1, <2>2, WriterStep
<1>3. CASE MetadataLoaded(t)
  <2>1. OthersRest(t) /\ pc'[t] = "layout" /\ Loads(t) /\ lock' = lock
    BY <1>3, Moves DEF MetadataLoaded, OthersRest, Rests, Loads
  <2>2. WriterOK(t)' /\ ~Loads(t)'
    BY <2>1 DEF WriterOK, Loads
  <2> QED BY <2>1, <2>2, WriterStep
<1>4. CASE CheckComplete(t)
  <2>1. OthersRest(t) /\ pc'[t] = "checked" /\ layout = "ready" /\ UNCHANGED <<layout, lock>>
    BY <1>4, Moves DEF CheckComplete, OthersRest, Rests
  <2>2. WriterOK(t)' /\ ~Loads(t)'
    BY <2>1 DEF WriterOK, Loads
  <2> QED BY <2>1, <2>2, WriterStep
<1>5. CASE BackgroundRejected(t) \/ ActivationStale(t)
  BY <1>5, WriterFails DEF BackgroundRejected, ActivationStale
<1>6. CASE SelectForReader(t) \/ SelectForHls(t)
  <2>1. /\ OthersRest(t) /\ pc'[t] \in {"selected", "idle"} /\ layout = "ready"
        /\ UNCHANGED <<layout, lock>>
    BY <1>0, <1>6, Moves DEF SelectForReader, SelectForHls, OthersRest, Rests, WriterOK
  <2>2. WriterOK(t)' /\ ~Loads(t)'
    BY <2>1 DEF WriterOK, Loads
  <2> QED BY <2>1, <2>2, WriterStep
<1>7. CASE JoinWithoutActivation(t)
  <2>1. OthersRest(t) /\ pc'[t] \in {"playing", "idle"} /\ UNCHANGED <<layout, lock>>
    BY <1>7, AnsweredMoves DEF JoinWithoutActivation
  <2> QED BY <2>1, WriterPasses
<1>8. CASE Activate(t)
  <2>1. OthersRest(t) /\ layout' = layout /\ layout = "ready"
    BY <1>0, <1>8, Moves DEF Activate, OthersRest, Rests, WriterOK
  <2>2. \/ pc'[t] \in {"actAck", "actResume"} /\ lock = NoTask /\ lock' = t
        \/ pc'[t] = "pauseEnter" /\ lock' = lock
    BY <1>8, Moves DEF Activate, Acquire
  <2>3. WriterOK(t)' /\ ~Loads(t)'
    BY <2>1, <2>2 DEF WriterOK, Loads
  <2> QED BY <2>1, <2>2, <2>3, WriterStep
<1>9. CASE ActivationAcknowledged(t)
  <2>1. layout' = layout /\ layout = "ready" /\ lock = t
    BY <1>0, <1>9 DEF ActivationAcknowledged, WriterOK
  <2>2. CASE CallerFails(t)
    BY <2>1, <2>2, WriterFails
  <2>3. CASE ~CallerFails(t)
    <3>1. /\ OthersRest(t)
          /\ \/ pc'[t] = "pauseEnter" /\ lock' = NoTask
             \/ pc'[t] = "actResume" /\ lock' = lock
      BY <1>9, <2>3, Moves DEF ActivationAcknowledged, OthersRest, Rests
    <3>2. WriterOK(t)' /\ ~Loads(t)'
      BY <2>1, <3>1 DEF WriterOK, Loads
    <3> QED BY <2>1, <3>1, <3>2, WriterStep
  <2> QED BY <2>2, <2>3
<1>10. CASE ActivationResumes(t)
  <2>1. layout' = layout
    BY <1>10 DEF ActivationResumes
  <2>2. CASE CallerFails(t)
    BY <2>1, <2>2, WriterFails
  <2>3. CASE ~CallerFails(t)
    <3>1. OthersRest(t) /\ pc'[t] \in {"playing", "idle"} /\ (lock' = lock \/ lock = t)
      BY <1>10, <2>3, AnsweredMoves DEF ActivationResumes, ReleaseLock
    <3> QED BY <2>1, <3>1, WriterPasses
  <2> QED BY <2>2, <2>3
<1>11. CASE EndHlsWithoutPause(t) \/ EndHlsPauses(t)
  <2>1. OthersRest(t) /\ pc'[t] \in {"pauseLock", "idle"} /\ UNCHANGED <<layout, lock>>
    BY <1>11, Moves DEF EndHlsWithoutPause, EndHlsPauses, OthersRest, Rests
  <2> QED BY <2>1, WriterPasses
<1> QED BY <1>1, <1>2, <1>3, <1>4, <1>5, <1>6, <1>7, <1>8, <1>9, <1>10, <1>11 DEF Progress

LEMMA PausingWriters ==
  ASSUME TypeOK, Writers, NEW t \in Tasks, Pausing(t)
  PROVE  Writers'
<1>0. WriterOK(t) /\ layout' = layout
  BY DEF Writers, Pausing, PauseEnter, PauseStale, PauseNative, PauseConfirmed, PauseSubmitsZeros,
         PauseAcknowledged
<1>1. CASE PauseEnter(t) \/ PauseStale(t)
  <2>1. OthersRest(t) /\ pc'[t] \in {"playing", "idle", "pauseLock"} /\ lock' = lock
    <3>1. CASE PauseReturns(t)
      BY <1>1, <3>1, AnsweredMoves DEF PauseEnter, PauseStale
    <3>2. CASE ~PauseReturns(t)
      BY <1>1, <3>2, Moves DEF PauseEnter, PauseStale, OthersRest, Rests
    <3> QED BY <3>1, <3>2
  <2> QED BY <1>0, <2>1, WriterPasses
<1>2. CASE PauseNative(t)
  <2>1. OthersRest(t) /\ pc'[t] = "pauseConfirm" /\ lock = NoTask /\ lock' = t
    BY <1>2, Moves DEF PauseNative, Acquire, OthersRest, Rests
  <2>2. WriterOK(t)' /\ ~Loads(t)'
    BY <2>1 DEF WriterOK, Loads
  <2> QED BY <1>0, <2>1, <2>2, WriterStep
<1>3. CASE PauseConfirmed(t) \/ PauseAcknowledged(t)
  <2>1. OthersRest(t) /\ pc'[t] \in {"playing", "idle"} /\ (lock' = lock \/ lock = t)
    BY <1>3, AnsweredMoves DEF PauseConfirmed, PauseAcknowledged, ReleaseLock
  <2> QED BY <1>0, <2>1, WriterPasses
<1>4. CASE PauseSubmitsZeros(t)
  <2>1. OthersRest(t) /\ pc'[t] = "pauseAck" /\ lock = t /\ lock' = t /\ layout = "ready"
    BY <1>0, <1>4, Moves DEF PauseSubmitsZeros, NeedsZeros, OthersRest, Rests, WriterOK
  <2>2. WriterOK(t)' /\ ~Loads(t)'
    BY <1>0, <2>1 DEF WriterOK, Loads
  <2> QED BY <1>0, <2>1, <2>2, WriterStep
<1> QED BY <1>1, <1>2, <1>3, <1>4 DEF Pausing

LEMMA NextWriters == TypeOK /\ Writers /\ [Next]_vars => Writers'
<1> SUFFICES ASSUME TypeOK, Writers, [Next]_vars PROVE Writers'
  OBVIOUS
<1>0. Worker \in Tasks /\ Callers \subseteq Tasks
  BY DEF Tasks
<1>1. CASE UNCHANGED <<pc, layout, lock>>
  BY <1>1 DEF Writers, WriterOK, Loads
<1>2. ASSUME NEW t \in Callers, Failure(t) \/ CloseReader(t) PROVE Writers'
  <2>1. CallerFails(t) /\ (layout' = layout \/ Loads(t))
    BY <1>2 DEF Failure, MetadataFails, ActivationFails, Abandon, CloseReader, Loads
  <2> QED BY <1>0, <2>1, WriterFails
<1>3. ASSUME NEW t \in Tasks, PauseFails(t) PROVE Writers'
  <2>1. CASE t = Worker
    <3>1. OthersRest(t) /\ pc'[t] = "idle" /\ layout' = layout /\ (lock' = lock \/ lock = t)
      BY <1>3, <2>1, Moves DEF PauseFails, OthersRest, Rests, ReleaseLock
    <3> QED BY <3>1, WriterPasses
  <2>2. CASE t # Worker
    BY <1>3, <2>2, WriterFails DEF PauseFails
  <2> QED BY <2>1, <2>2
<1>4. CASE HandleVerified \/ TickPauses
  <2>1. CASE UNCHANGED pc
    BY <1>1, <1>4, <2>1 DEF HandleVerified, TickPauses
  <2>2. CASE ~UNCHANGED pc
    <3>1. OthersRest(Worker) /\ pc'[Worker] = "pauseEnter" /\ UNCHANGED <<layout, lock>>
      BY <1>0, <1>4, <2>2, Moves DEF HandleVerified, TickPauses, OthersRest, Rests
    <3> QED BY <1>0, <3>1, WriterPasses
  <2> QED BY <2>1, <2>2
<1>5. CASE Serve
  BY <1>1, <1>4, <1>5 DEF Serve, HandleRelease, HandleReleaseMetadata, HandleSeedingOn, HandleSeedingOff,
     TickExpiresHls
<1>6. CASE Environment
  BY <1>1, <1>6 DEF Environment, MetadataArrives, HlsLapses, DeadlinePasses, SetSeeding, FileCompletes
<1> QED BY <1>1, <1>2, <1>3, <1>5, <1>6, RequestWriters, ProgressWriters, PausingWriters DEF Next, vars

\* The loader of the layout writes priorities without the operation mutex, yet
\* no other task does at the same time: nothing is activated before the layout
\* is ready, and one request loads it.
THEOREM PrioritiesHaveOneWriter == Spec => []SinglePriorityWriter
<1>1. Init => Writers
  BY DEF Init, Writers, WriterOK, Loads
<1>2. TypeOK /\ Writers => SinglePriorityWriter
  <2> SUFFICES ASSUME TypeOK, Writers PROVE SinglePriorityWriter
    OBVIOUS
  <2> DEFINE S == {t \in Tasks : pc[t] \in {"metaAck", "actAck", "pauseAck"}}
  <2>1. ASSUME NEW t \in S, NEW u \in S PROVE t = u
    BY DEF Writers, WriterOK, Loads
  <2>2. CASE S = {}
    BY <2>2, FS_EmptySet DEF SinglePriorityWriter
  <2>3. CASE S # {}
    <3>1. PICK t : S = {t}
      BY <2>1, <2>3
    <3> QED BY <3>1, FS_Singleton DEF SinglePriorityWriter
  <2> QED BY <2>2, <2>3
<1> QED BY <1>1, <1>2, NextWriters, TypeCorrect, PTL DEF Spec

-----------------------------------------------------------------------------
\* A background reader is let through beside a foreground one only for the file
\* that is played, and then it takes that file's priority: the generation stays.
THEOREM BackgroundJoins == Spec => BackgroundNeverCancels
<1>1. ASSUME TypeOK, [Next]_vars, NEW t \in Callers,
             job[t].kind = "background", pc[t] = "checked", pc'[t] = "selected", ForegroundActive(st)
      PROVE  st'.gen = st.gen /\ st'.sel = st.sel /\ st'.prio = st.prio
  <2>0. t \in Tasks /\ t # Worker /\ st \in StateType
    BY <1>1, CoordinatorAssumption DEF Tasks, TypeOK
  <2>1. SelectForReader(t)
    <3>1. ASSUME NEW u \in Tasks, OthersRest(u) PROVE u = t
      BY <1>1, <2>0, <3>1 DEF OthersRest, Rests
    <3>2. ~(Serve \/ Environment)
      BY <1>1, <2>0, <3>1, WorkerRests
    <3>3. PICK u \in Tasks : \/ u \in Callers /\ (Request(u) \/ Progress(u) \/ Failure(u) \/ CloseReader(u))
                             \/ Pausing(u) \/ PauseFails(u)
      BY <1>1, <3>2 DEF Next, Tasks, vars
    <3>4. u = t
      BY <1>1, <3>1, <3>3, CallerRests, PausingRests
    <3>5. CASE CallerFails(t)
      BY <1>1, <2>0, <3>5, FailedMoves
    <3>6. CASE Progress(t) /\ ~CallerFails(t)
      BY <1>1, <2>0, <3>6, Moves DEF Progress, LoadLayout, AcquireMetadata, SubmitIdlePriorities,
         MetadataLoaded, CheckComplete, BackgroundRejected, SelectForHls, ActivationStale,
         JoinWithoutActivation, Activate, ActivationAcknowledged, ActivationResumes,
         EndHlsWithoutPause, EndHlsPauses
    <3> QED
      BY <1>1, <2>0, <3>3, <3>4, <3>5, <3>6 DEF Request, Begin, EndHls, Failure, MetadataFails,
         ActivationFails, Abandon, CloseReader, Pausing, PauseEnter, PauseStale, PauseNative,
         PauseConfirmed, PauseSubmitsZeros, PauseAcknowledged, PauseFails, WaitingPC
  <2>2. job[t].file = st.sel /\ Foreground(job[t].kind) = FALSE
    BY <1>1, <2>1 DEF SelectForReader, Rejects, Foreground
  <2>3. st' = Select(st, job[t].file, st.prio, TRUE, FALSE, ~job[t].complete \/ seeding, FALSE)
    <3>1. PICK fg : fg = Foreground(job[t].kind)
      OBVIOUS
    <3>2. PICK p : p = IF ~fg /\ ForegroundActive(st) THEN st.prio
                       ELSE RequestedPriority(job[t].kind, job[t].complete)
      OBVIOUS
    <3>3. st' = Select(st, job[t].file, p, TRUE, FALSE, ~job[t].complete \/ seeding, fg)
      BY <2>1, <3>1, <3>2 DEF SelectForReader
    <3>4. fg = FALSE /\ p = st.prio
      BY <1>1, <2>2, <3>1, <3>2
    <3> QED BY <3>3, <3>4
  <2>4. GenFor(st, job[t].file, st.prio) = st.gen
    BY <2>2 DEF GenFor, Changes
  <2> QED BY <2>0, <2>2, <2>3, <2>4 DEF Select, StateType
<1>2. TypeOK /\ [Next]_vars =>
        [\A t \in Callers :
           /\ job[t].kind = "background" /\ pc[t] = "checked" /\ pc'[t] = "selected"
           /\ ForegroundActive(st)
           => st'.gen = st.gen /\ st'.sel = st.sel /\ st'.prio = st.prio]_vars
  BY <1>1
<1> QED BY <1>2, TypeCorrect, PTL DEF Spec, BackgroundNeverCancels

-----------------------------------------------------------------------------
(* Permits: those held and those whose release is in the channel.            *)

Bit(b) == IF b THEN 1 ELSE 0

Holds(t, g) == HoldsPermit(t) /\ job[t].gen = g
Fronts(t, g) == Holds(t, g) /\ Foreground(job[t].kind)
Metas(t) == t \in Callers /\ HoldsMeta(t)

Positions(q, c) == {i \in DOMAIN q : q[i] = c}
Pending(q, c) == Cardinality(Positions(q, c))

(* The commands really sent: a release says nothing but its generation.      *)
Commands == {Release(g, b) : g \in Gens, b \in BOOLEAN} \cup {ReleaseMeta}
              \cup {SeedingSet(b) : b \in BOOLEAN} \cup {Verified(f) : f \in Files \cup {NoFile}}

LEMMA PositionsFinite ==
  ASSUME NEW q \in Seq(CommandType), NEW c
  PROVE  IsFiniteSet(Positions(q, c)) /\ Pending(q, c) \in Nat
<1>1. IsFiniteSet(1..Len(q))
  BY FS_Interval
<1>2. Positions(q, c) \subseteq 1..Len(q)
  BY DEF Positions
<1> QED BY <1>1, <1>2, FS_Subset, FS_CardinalityType DEF Pending

LEMMA PendingAppend ==
  ASSUME NEW q \in Seq(CommandType), NEW c, NEW d \in CommandType
  PROVE  Pending(Append(q, d), c) = Pending(q, c) + Bit(d = c)
<1> DEFINE n == Len(q) + 1
<1>1. n \notin Positions(q, c)
  BY DEF Positions
<1>2. Positions(Append(q, d), c) = Positions(q, c) \cup (IF d = c THEN {n} ELSE {})
  BY DEF Positions
<1>3. IsFiniteSet(Positions(q, c)) /\ Pending(q, c) \in Nat
  BY PositionsFinite
<1> HIDE DEF n
<1>4. CASE d = c
  <2>1. Positions(Append(q, d), c) = Positions(q, c) \cup {n}
    BY <1>2, <1>4
  <2> QED BY <1>1, <1>3, <1>4, <2>1, FS_AddElement DEF Pending, Bit
<1>5. CASE d # c
  BY <1>2, <1>3, <1>5 DEF Pending, Bit
<1> QED BY <1>4, <1>5

LEMMA PendingTail ==
  ASSUME NEW q \in Seq(CommandType), NEW c, q # <<>>
  PROVE  Pending(Tail(q), c) = Pending(q, c) - Bit(Head(q) = c)
<1> DEFINE S == Positions(Tail(q), c)
           T == Positions(q, c) \ {1}
           f == [i \in S |-> i + 1]
<1>1. /\ Len(q) \in Nat /\ Len(q) >= 1 /\ Tail(q) \in Seq(CommandType)
      /\ DOMAIN Tail(q) = 1..(Len(q) - 1) /\ DOMAIN q = 1..Len(q)
      /\ \A i \in 1..(Len(q) - 1) : Tail(q)[i] = q[i + 1]
      /\ Head(q) = q[1]
  OBVIOUS
<1>2. S \subseteq Nat
  BY <1>1 DEF Positions
<1>3. \A i \in S : i + 1 \in T
  BY <1>1 DEF Positions
<1>4. \A j \in T : j - 1 \in S /\ j \in Nat
  BY <1>1 DEF Positions
<1>5. f \in Bijection(S, T)
  <2>1. f \in [S -> T]
    BY <1>3
  <2>2. \A i, j \in S : f[i] = f[j] => i = j
    BY <1>2
  <2>3. \A j \in T : \E i \in S : f[i] = j
    BY <1>2, <1>4
  <2> HIDE DEF S, T, f
  <2> QED BY <2>1, <2>2, <2>3 DEF Bijection, Injection, Surjection, IsInjective
<1>6. IsFiniteSet(S) /\ IsFiniteSet(Positions(q, c)) /\ Pending(q, c) \in Nat
  BY <1>1, PositionsFinite
<1>7. Cardinality(T) = Cardinality(S)
  <2> HIDE DEF S, T, f
  <2> QED BY <1>5, <1>6, FS_Bijection DEF ExistsBijection
<1>8. Cardinality(T) = Pending(q, c) - Bit(1 \in Positions(q, c))
  <2>1. Cardinality(T) = IF 1 \in Positions(q, c) THEN Cardinality(Positions(q, c)) - 1
                         ELSE Cardinality(Positions(q, c))
    BY <1>6, FS_RemoveElement
  <2> HIDE DEF T
  <2> QED BY <1>6, <2>1 DEF Pending, Bit
<1>9. 1 \in Positions(q, c) <=> Head(q) = c
  BY <1>1 DEF Positions
<1> QED BY <1>7, <1>8, <1>9 DEF Pending, Bit

(* A set of requests after one of them moved.                                *)
LEMMA OneMoves ==
  ASSUME NEW S, NEW T, NEW a, S \subseteq Callers, T \subseteq Callers, S \ {a} = T \ {a}
  PROVE  /\ Cardinality(S) \in Nat /\ Cardinality(T) \in Nat
         /\ Cardinality(T) = Cardinality(S) + Bit(a \in T) - Bit(a \in S)
<1>1. IsFiniteSet(S) /\ IsFiniteSet(T)
  BY FS_Subset, CoordinatorAssumption
<1>2. Cardinality(S) \in Nat /\ Cardinality(T) \in Nat
  BY <1>1, FS_CardinalityType
<1>3. Cardinality(S \ {a}) = IF a \in S THEN Cardinality(S) - 1 ELSE Cardinality(S)
  BY <1>1, FS_RemoveElement
<1>4. Cardinality(T \ {a}) = IF a \in T THEN Cardinality(T) - 1 ELSE Cardinality(T)
  BY <1>1, FS_RemoveElement
<1> DEFINE s == Cardinality(S)
           t == Cardinality(T)
           u == Cardinality(S \ {a})
<1>5. s \in Nat /\ t \in Nat /\ u = (IF a \in S THEN s - 1 ELSE s) /\ u = (IF a \in T THEN t - 1 ELSE t)
  BY <1>2, <1>3, <1>4
<1> HIDE DEF s, t, u
<1>6. t = s + Bit(a \in T) - Bit(a \in S)
  BY <1>5 DEF Bit
<1> QED BY <1>2, <1>6 DEF s, t

-----------------------------------------------------------------------------
(* What makes the balance inductive: only releases of the forms above are    *)
(* sent, and a destroyed HLS session holds no permit while it pauses.        *)
Accounts ==
  /\ PermitsAccounted
  /\ queue \in Seq(Commands)
  /\ \A t \in Callers : pc[t] \in {"endPending", "endPaused"} => job[t].kind = "endhls"

(* The counters move with the permits of one task and with the channel.      *)
Balanced(t) ==
  /\ \A g \in Gens :
       /\ st'.direct[g] = st.direct[g]
            + Bit(Holds(t, g)') - Bit(Holds(t, g))
            + Pending(queue', Release(g, TRUE)) - Pending(queue, Release(g, TRUE))
            + Pending(queue', Release(g, FALSE)) - Pending(queue, Release(g, FALSE))
       /\ st'.foreground[g] = st.foreground[g]
            + Bit(Fronts(t, g)') - Bit(Fronts(t, g))
            + Pending(queue', Release(g, TRUE)) - Pending(queue, Release(g, TRUE))
  /\ st'.meta = st.meta + Bit(Metas(t)') - Bit(Metas(t))
                + Pending(queue', ReleaseMeta) - Pending(queue, ReleaseMeta)

LEMMA BalanceKept ==
  ASSUME TypeOK, TypeOK', PermitsAccounted, NEW t \in Tasks, OthersRest(t), Balanced(t)
  PROVE  PermitsAccounted'
<1>0. /\ queue \in Seq(CommandType) /\ queue' \in Seq(CommandType)
      /\ \A c : Pending(queue, c) \in Nat /\ Pending(queue', c) \in Nat
  BY PositionsFinite DEF TypeOK
<1>1. /\ \A g, b : Cardinality(Releases(g, b)) = Pending(queue, Release(g, b))
      /\ \A g, b : Cardinality(Releases(g, b)') = Pending(queue', Release(g, b))
  BY DEF Releases, Pending, Positions
<1>2. ASSUME NEW g \in Gens
      PROVE  /\ st'.direct[g] = Cardinality(Holders(g)') + Pending(queue', Release(g, TRUE))
                                  + Pending(queue', Release(g, FALSE))
             /\ st'.foreground[g] = Cardinality({u \in Holders(g)' : Foreground(job'[u].kind)})
                                  + Pending(queue', Release(g, TRUE))
  <2> DEFINE S == Holders(g)
             T == Holders(g)'
             U == {u \in Holders(g) : Foreground(job[u].kind)}
             V == {u \in Holders(g)' : Foreground(job'[u].kind)}
  <2>1. /\ S \subseteq Callers /\ T \subseteq Callers /\ S \ {t} = T \ {t}
        /\ U \subseteq Callers /\ V \subseteq Callers /\ U \ {t} = V \ {t}
    BY DEF Holders, HoldsPermit, OthersRest, Rests, Tasks
  <2>2. /\ t \in S <=> Holds(t, g)
        /\ t \in T <=> Holds(t, g)'
        /\ t \in U <=> Fronts(t, g)
        /\ t \in V <=> Fronts(t, g)'
    BY DEF Holders, HoldsPermit, Holds, Fronts
  <2>3. /\ st.direct[g] = Cardinality(S) + Pending(queue, Release(g, TRUE)) + Pending(queue, Release(g, FALSE))
        /\ st.foreground[g] = Cardinality(U) + Pending(queue, Release(g, TRUE))
    BY <1>1 DEF PermitsAccounted
  <2> HIDE DEF S, T, U, V
  <2>4. /\ Cardinality(S) \in Nat /\ Cardinality(T) = Cardinality(S) + Bit(t \in T) - Bit(t \in S)
        /\ Cardinality(U) \in Nat /\ Cardinality(V) = Cardinality(U) + Bit(t \in V) - Bit(t \in U)
    BY <2>1, OneMoves
  <2>5. /\ st'.direct[g] = Cardinality(T) + Pending(queue', Release(g, TRUE)) + Pending(queue', Release(g, FALSE))
        /\ st'.foreground[g] = Cardinality(V) + Pending(queue', Release(g, TRUE))
    <3>1. PICK x, y, x2, y2 :
            /\ x = Pending(queue, Release(g, TRUE)) /\ y = Pending(queue, Release(g, FALSE))
            /\ x2 = Pending(queue', Release(g, TRUE)) /\ y2 = Pending(queue', Release(g, FALSE))
      OBVIOUS
    <3>2. x \in Nat /\ y \in Nat /\ x2 \in Nat /\ y2 \in Nat
      BY <1>0, <3>1
    <3>3. /\ st'.direct[g] = st.direct[g] + Bit(t \in T) - Bit(t \in S) + x2 - x + y2 - y
          /\ st'.foreground[g] = st.foreground[g] + Bit(t \in V) - Bit(t \in U) + x2 - x
      BY <2>2, <3>1 DEF Balanced, Bit
    <3>4. st.direct[g] = Cardinality(S) + x + y /\ st.foreground[g] = Cardinality(U) + x
      BY <2>3, <3>1
    <3>5. st'.direct[g] = Cardinality(T) + x2 + y2 /\ st'.foreground[g] = Cardinality(V) + x2
      BY <2>4, <3>2, <3>3, <3>4 DEF Bit
    <3> QED BY <3>1, <3>5
  <2> QED BY <2>5 DEF T, V
<1>3. st'.meta = Cardinality({u \in Callers : HoldsMeta(u)'}) + Pending(queue', ReleaseMeta)
  <2> DEFINE S == {u \in Callers : HoldsMeta(u)}
             T == {u \in Callers : HoldsMeta(u)'}
  <2>1. S \subseteq Callers /\ T \subseteq Callers /\ S \ {t} = T \ {t}
    BY DEF HoldsMeta, OthersRest, Rests, Tasks
  <2>2. (t \in S <=> Metas(t)) /\ (t \in T <=> Metas(t)')
    BY DEF Metas
  <2>3. st.meta = Cardinality(S) + Pending(queue, ReleaseMeta)
    BY DEF PermitsAccounted, Pending, Positions
  <2> HIDE DEF S, T
  <2>4. Cardinality(S) \in Nat /\ Cardinality(T) = Cardinality(S) + Bit(t \in T) - Bit(t \in S)
    BY <2>1, OneMoves
  <2>5. st'.meta = Cardinality(T) + Pending(queue', ReleaseMeta)
    BY <1>0, <2>2, <2>3, <2>4 DEF Balanced, Bit
  <2> QED BY <2>5 DEF T
<1>4. \A g \in Gens :
        /\ st'.direct[g] = Cardinality(Holders(g)') + Cardinality(Releases(g, TRUE)')
                             + Cardinality(Releases(g, FALSE)')
        /\ st'.foreground[g] = Cardinality({u \in Holders(g)' : Foreground(job'[u].kind)})
                             + Cardinality(Releases(g, TRUE)')
  BY <1>1, <1>2
<1>5. Pending(queue', ReleaseMeta) = Cardinality({i \in DOMAIN queue' : queue'[i] = ReleaseMeta})
  BY DEF Pending, Positions
<1> QED BY <1>3, <1>4, <1>5 DEF PermitsAccounted

LEMMA AccountsStep ==
  ASSUME TypeOK, TypeOK', Accounts, NEW t \in Tasks, OthersRest(t), Balanced(t), queue' \in Seq(Commands),
         t \in Callers /\ pc'[t] \in {"endPending", "endPaused"} => job'[t].kind = "endhls"
  PROVE  Accounts'
<1>1. PermitsAccounted'
  BY BalanceKept DEF Accounts
<1>2. \A u \in Callers : pc'[u] \in {"endPending", "endPaused"} => job'[u].kind = "endhls"
  BY DEF Accounts, OthersRest, Rests, Tasks
<1> QED BY <1>1, <1>2 DEF Accounts

(* The four commands differ.                                                 *)
LEMMA CommandsDiffer ==
  /\ \A g, h, b, d : Release(g, b) = Release(h, d) <=> g = h /\ b = d
  /\ \A g, b : Release(g, b) # ReleaseMeta
  /\ \A g, b, d : SeedingSet(d) # Release(g, b) /\ SeedingSet(d) # ReleaseMeta
  /\ \A g, b, f : Verified(f) # Release(g, b) /\ Verified(f) # ReleaseMeta
BY DEF Release, ReleaseMeta, SeedingSet, Verified

LEMMA CommandsTyped == Commands \subseteq CommandType
<1>1. 0 \in Gens
  BY StateAssumption DEF Gens
<1>2. \A g \in Gens, b \in BOOLEAN : Release(g, b) \in CommandType
  BY DEF CommandType, Release
<1>3. ReleaseMeta \in CommandType /\ \A b \in BOOLEAN : SeedingSet(b) \in CommandType
  BY <1>1 DEF CommandType, ReleaseMeta, SeedingSet
<1>4. \A f \in Files \cup {NoFile} : Verified(f) \in CommandType
  BY <1>1 DEF CommandType, Verified
<1> QED BY <1>2, <1>3, <1>4 DEF Commands

Kept == st'.direct = st.direct /\ st'.foreground = st.foreground /\ st'.meta = st.meta

SamePermits(t) ==
  /\ \A g : (Holds(t, g)' <=> Holds(t, g)) /\ (Fronts(t, g)' <=> Fronts(t, g))
  /\ Metas(t)' <=> Metas(t)

(* A task keeps its permit when it moves among the steps of a reader, and    *)
(* has none before it selects, or when it is no reader.                      *)
LEMMA PermitsSame ==
  ASSUME NEW t \in Tasks,
         \/ t = Worker
         \/ pc[t] \in PermitPC /\ pc'[t] \in PermitPC /\ job'[t].kind = job[t].kind /\ job'[t].gen = job[t].gen
         \/ pc[t] \notin PermitPC \cup {"metaWait", "metaAck"} /\ pc'[t] \notin PermitPC \cup {"metaWait", "metaAck"}
         \/ /\ job[t].kind \notin Readers /\ job'[t].kind \notin Readers
            /\ pc[t] \notin {"metaWait", "metaAck"} /\ pc'[t] \notin {"metaWait", "metaAck"}
         \/ pc[t] = "metaWait" /\ pc'[t] = "metaAck"
  PROVE  SamePermits(t)
<1> USE DEF SamePermits, Holds, Fronts, Metas, HoldsPermit, HoldsMeta, PermitPC, PausePC
<1>1. CASE t = Worker
  BY <1>1, CoordinatorAssumption
<1>2. CASE pc[t] \in PermitPC /\ pc'[t] \in PermitPC /\ job'[t].kind = job[t].kind /\ job'[t].gen = job[t].gen
  BY <1>2
<1>3. CASE pc[t] \notin PermitPC \cup {"metaWait", "metaAck"} /\ pc'[t] \notin PermitPC \cup {"metaWait", "metaAck"}
  BY <1>3
<1>4. CASE /\ job[t].kind \notin Readers /\ job'[t].kind \notin Readers
           /\ pc[t] \notin {"metaWait", "metaAck"} /\ pc'[t] \notin {"metaWait", "metaAck"}
  BY <1>4
<1>5. CASE pc[t] = "metaWait" /\ pc'[t] = "metaAck"
  BY <1>5
<1> QED BY <1>1, <1>2, <1>3, <1>4, <1>5

LEMMA NothingMoves ==
  ASSUME TypeOK, NEW t \in Tasks, Kept, SamePermits(t),
         \A g, b : Pending(queue', Release(g, b)) = Pending(queue, Release(g, b)),
         Pending(queue', ReleaseMeta) = Pending(queue, ReleaseMeta)
  PROVE  Balanced(t)
<1>1. ASSUME NEW g \in Gens
      PROVE  /\ st'.direct[g] = st.direct[g]
                  + Bit(Holds(t, g)') - Bit(Holds(t, g))
                  + Pending(queue', Release(g, TRUE)) - Pending(queue, Release(g, TRUE))
                  + Pending(queue', Release(g, FALSE)) - Pending(queue, Release(g, FALSE))
             /\ st'.foreground[g] = st.foreground[g]
                  + Bit(Fronts(t, g)') - Bit(Fronts(t, g))
                  + Pending(queue', Release(g, TRUE)) - Pending(queue, Release(g, TRUE))
  <2>1. PICK x, y, h, k : /\ x = Pending(queue, Release(g, TRUE)) /\ y = Pending(queue, Release(g, FALSE))
                          /\ h = Bit(Holds(t, g)) /\ k = Bit(Fronts(t, g))
    OBVIOUS
  <2>2. x \in Nat /\ y \in Nat /\ h \in Nat /\ k \in Nat
    BY <2>1, PositionsFinite DEF TypeOK, Bit
  <2>3. Bit(Holds(t, g)') = h /\ Bit(Fronts(t, g)') = k
    BY <2>1 DEF SamePermits, Bit
  <2>4. Pending(queue', Release(g, TRUE)) = x /\ Pending(queue', Release(g, FALSE)) = y
    BY <2>1
  <2>5. st'.direct[g] = st.direct[g] /\ st'.foreground[g] = st.foreground[g]
        /\ st.direct[g] \in Nat /\ st.foreground[g] \in Nat
    BY DEF Kept, TypeOK, StateType
  <2>6. st'.direct[g] = st.direct[g] + h - h + x - x + y - y /\ st'.foreground[g] = st.foreground[g] + k - k + x - x
    BY <2>2, <2>5
  <2> QED BY <2>1, <2>3, <2>4, <2>6
<1>2. st'.meta = st.meta + Bit(Metas(t)') - Bit(Metas(t))
                + Pending(queue', ReleaseMeta) - Pending(queue, ReleaseMeta)
  <2>1. Pending(queue, ReleaseMeta) \in Nat /\ st.meta \in Nat
    BY PositionsFinite DEF TypeOK, StateType
  <2> QED BY <2>1 DEF Kept, SamePermits, Bit
<1> QED BY <1>1, <1>2 DEF Balanced

(* A step that concerns no permit.                                           *)
LEMMA QuietAccounts ==
  ASSUME TypeOK, TypeOK', Accounts, NEW t \in Tasks, OthersRest(t), Kept, SamePermits(t),
         \/ queue' = queue
         \/ \E b \in BOOLEAN : queue' = Append(queue, SeedingSet(b))
         \/ \E f \in Files : queue' = Append(queue, Verified(f))
         \/ queue # <<>> /\ Head(queue).type \in {"seeding", "verified"} /\ queue' = Tail(queue),
         t \in Callers /\ pc'[t] \in {"endPending", "endPaused"} => job'[t].kind = "endhls"
  PROVE  Accounts'
<1>0. queue \in Seq(CommandType) /\ queue \in Seq(Commands)
  BY DEF TypeOK, Accounts
<1>1. /\ \A g, b : Pending(queue', Release(g, b)) = Pending(queue, Release(g, b))
      /\ Pending(queue', ReleaseMeta) = Pending(queue, ReleaseMeta)
      /\ queue' \in Seq(Commands)
  <2>1. CASE queue' = queue
    BY <1>0, <2>1
  <2>2. ASSUME NEW c \in Commands, \A g, b : c # Release(g, b) /\ c # ReleaseMeta, queue' = Append(queue, c)
        PROVE  /\ \A g, b : Pending(queue', Release(g, b)) = Pending(queue, Release(g, b))
               /\ Pending(queue', ReleaseMeta) = Pending(queue, ReleaseMeta)
               /\ queue' \in Seq(Commands)
    <3>1. c \in CommandType
      BY CommandsTyped
    <3>2. \A d : d # c => Pending(queue', d) = Pending(queue, d)
      <4> SUFFICES ASSUME NEW d, d # c PROVE Pending(queue', d) = Pending(queue, d)
        OBVIOUS
      <4>1. Pending(queue, d) \in Nat /\ Pending(queue', d) = Pending(queue, d) + Bit(c = d)
        BY <1>0, <2>2, <3>1, PendingAppend, PositionsFinite
      <4> QED BY <4>1 DEF Bit
    <3> QED BY <1>0, <2>2, <3>2
  <2>3. ASSUME NEW b \in BOOLEAN, queue' = Append(queue, SeedingSet(b))
        PROVE  SeedingSet(b) \in Commands /\ \A g, d : SeedingSet(b) # Release(g, d) /\ SeedingSet(b) # ReleaseMeta
    BY CommandsDiffer DEF Commands
  <2>4. ASSUME NEW f \in Files, queue' = Append(queue, Verified(f))
        PROVE  Verified(f) \in Commands /\ \A g, d : Verified(f) # Release(g, d) /\ Verified(f) # ReleaseMeta
    BY CommandsDiffer DEF Commands
  <2>5. CASE queue # <<>> /\ Head(queue).type \in {"seeding", "verified"} /\ queue' = Tail(queue)
    <3>1. \A g, b : Head(queue) # Release(g, b) /\ Head(queue) # ReleaseMeta
      BY <2>5 DEF Release, ReleaseMeta
    <3>2. \A d : d # Head(queue) => Pending(queue', d) = Pending(queue, d)
      <4> SUFFICES ASSUME NEW d, d # Head(queue) PROVE Pending(queue', d) = Pending(queue, d)
        OBVIOUS
      <4>1. Pending(queue, d) \in Nat /\ Pending(queue', d) = Pending(queue, d) - Bit(Head(queue) = d)
        BY <1>0, <2>5, PendingTail, PositionsFinite
      <4> QED BY <4>1 DEF Bit
    <3>3. queue' \in Seq(Commands)
      BY <1>0, <2>5
    <3> QED BY <3>1, <3>2, <3>3
  <2> QED BY <2>1, <2>2, <2>3, <2>4, <2>5
<1>2. Balanced(t)
  BY <1>1, NothingMoves
<1> QED BY <1>1, <1>2, AccountsStep

(* A metadata permit goes into the channel.                                  *)
LEMMA MetaReturned ==
  ASSUME TypeOK, NEW t \in Callers, Kept, ~HoldsPermit(t), HoldsMeta(t),
         \A g : ~Holds(t, g)' /\ ~Fronts(t, g)', ~Metas(t)',
         \A c : Pending(queue', c) = Pending(queue, c) + Bit(ReleaseMeta = c)
  PROVE  Balanced(t)
<1>1. \A c : Pending(queue, c) \in Nat
  BY PositionsFinite DEF TypeOK
<1>2. ASSUME NEW g \in Gens
      PROVE  /\ st'.direct[g] = st.direct[g]
                  + Bit(Holds(t, g)') - Bit(Holds(t, g))
                  + Pending(queue', Release(g, TRUE)) - Pending(queue, Release(g, TRUE))
                  + Pending(queue', Release(g, FALSE)) - Pending(queue, Release(g, FALSE))
             /\ st'.foreground[g] = st.foreground[g]
                  + Bit(Fronts(t, g)') - Bit(Fronts(t, g))
                  + Pending(queue', Release(g, TRUE)) - Pending(queue, Release(g, TRUE))
  <2>1. PICK x, y : x = Pending(queue, Release(g, TRUE)) /\ y = Pending(queue, Release(g, FALSE))
    OBVIOUS
  <2>2. x \in Nat /\ y \in Nat
    BY <1>1, <2>1
  <2>3. Pending(queue', Release(g, TRUE)) = x /\ Pending(queue', Release(g, FALSE)) = y
    <3>1. PICK a, b : a = Release(g, TRUE) /\ b = Release(g, FALSE)
      OBVIOUS
    <3>2. ReleaseMeta # a /\ ReleaseMeta # b
      BY <3>1, CommandsDiffer
    <3>3. /\ Pending(queue', a) = Pending(queue, a) + Bit(ReleaseMeta = a)
          /\ Pending(queue', b) = Pending(queue, b) + Bit(ReleaseMeta = b)
      BY <3>1
    <3>4. Pending(queue, a) = x /\ Pending(queue, b) = y
      BY <2>1, <3>1
    <3>5. Pending(queue', a) = x /\ Pending(queue', b) = y
      BY <2>2, <3>2, <3>3, <3>4 DEF Bit
    <3> QED BY <3>1, <3>5
  <2>4. st'.direct[g] = st.direct[g] /\ st'.foreground[g] = st.foreground[g]
        /\ st.direct[g] \in Nat /\ st.foreground[g] \in Nat
    BY DEF Kept, TypeOK, StateType
  <2>5. /\ Bit(Holds(t, g)') = 0 /\ Bit(Fronts(t, g)') = 0
        /\ Bit(Holds(t, g)) = 0 /\ Bit(Fronts(t, g)) = 0
    BY DEF Bit, Holds, Fronts
  <2>6. /\ st'.direct[g] = st.direct[g] + 0 - 0 + x - x + y - y
        /\ st'.foreground[g] = st.foreground[g] + 0 - 0 + x - x
    BY <2>2, <2>4
  <2> QED BY <2>1, <2>3, <2>5, <2>6
<1>3. st'.meta = st.meta + Bit(Metas(t)') - Bit(Metas(t))
                + Pending(queue', ReleaseMeta) - Pending(queue, ReleaseMeta)
  <2>1. Pending(queue', ReleaseMeta) = Pending(queue, ReleaseMeta) + 1 /\ Pending(queue, ReleaseMeta) \in Nat
    BY <1>1 DEF Bit
  <2>2. st.meta \in Nat /\ st'.meta = st.meta
    BY DEF Kept, TypeOK, StateType
  <2> QED BY <2>1, <2>2 DEF Bit, Metas
<1> QED BY <1>2, <1>3 DEF Balanced

(* A request that fails hands its permit to the channel.                     *)
LEMMA FailedAccounts ==
  ASSUME TypeOK, TypeOK', Accounts, NEW t \in Callers, CallerFails(t), Kept
  PROVE  Accounts'
<1>0. t \in Tasks /\ queue \in Seq(CommandType) /\ queue \in Seq(Commands)
  BY DEF Tasks, TypeOK, Accounts
<1>1. /\ OthersRest(t) /\ pc'[t] = "idle" /\ job'[t] = NoJob
      /\ (\A g : ~Holds(t, g)' /\ ~Fronts(t, g)') /\ ~Metas(t)'
  BY <1>0, FailedMoves DEF Holds, Fronts, Metas, HoldsPermit, HoldsMeta, PermitPC, PausePC
<1>2. \A c : Pending(queue, c) \in Nat
  BY <1>0, PositionsFinite
<1>3. CASE HoldsPermit(t)
  <2>1. PICK n, fg : n = job[t].gen /\ fg = Foreground(job[t].kind)
    OBVIOUS
  <2>2. n \in Gens /\ fg \in BOOLEAN /\ queue' = Append(queue, Release(n, fg))
    BY <1>0, <1>3, <2>1 DEF CallerFails, TypeOK, JobType, Foreground
  <2>3. Release(n, fg) \in Commands /\ Release(n, fg) \in CommandType
    BY <2>2, CommandsTyped DEF Commands
  <2>4. \A c : Pending(queue', c) = Pending(queue, c) + Bit(Release(n, fg) = c)
    BY <1>0, <2>2, <2>3, PendingAppend
  <2>5. ~Metas(t) /\ \A g : (Holds(t, g) <=> g = n) /\ (Fronts(t, g) <=> g = n /\ fg)
    BY <1>3, <2>1 DEF Metas, HoldsMeta, HoldsPermit, Holds, Fronts, PermitPC, PausePC
  <2>6. Balanced(t)
    <3>1. ASSUME NEW g \in Gens
          PROVE  /\ st'.direct[g] = st.direct[g]
                      + Bit(Holds(t, g)') - Bit(Holds(t, g))
                      + Pending(queue', Release(g, TRUE)) - Pending(queue, Release(g, TRUE))
                      + Pending(queue', Release(g, FALSE)) - Pending(queue, Release(g, FALSE))
                 /\ st'.foreground[g] = st.foreground[g]
                      + Bit(Fronts(t, g)') - Bit(Fronts(t, g))
                      + Pending(queue', Release(g, TRUE)) - Pending(queue, Release(g, TRUE))
      <4>1. PICK x, y : x = Pending(queue, Release(g, TRUE)) /\ y = Pending(queue, Release(g, FALSE))
        OBVIOUS
      <4>2. x \in Nat /\ y \in Nat
        BY <1>2, <4>1
      <4>3. /\ Pending(queue', Release(g, TRUE)) = x + Bit(g = n /\ fg)
            /\ Pending(queue', Release(g, FALSE)) = y + Bit(g = n /\ ~fg)
        <5>1. /\ Release(n, fg) = Release(g, TRUE) <=> g = n /\ fg
              /\ Release(n, fg) = Release(g, FALSE) <=> g = n /\ ~fg
          <6>1. CASE fg = TRUE
            BY <6>1 DEF Release
          <6>2. CASE fg = FALSE
            BY <6>2 DEF Release
          <6> QED BY <2>2, <6>1, <6>2
        <5> QED BY <2>4, <4>1, <5>1 DEF Bit
      <4>4. st'.direct[g] = st.direct[g] /\ st'.foreground[g] = st.foreground[g]
            /\ st.direct[g] \in Nat /\ st.foreground[g] \in Nat
        BY DEF Kept, TypeOK, StateType
      <4>5. /\ Bit(Holds(t, g)') = 0 /\ Bit(Fronts(t, g)') = 0
            /\ Bit(Holds(t, g)) = Bit(g = n) /\ Bit(Fronts(t, g)) = Bit(g = n /\ fg)
        BY <1>1, <2>5 DEF Bit
      <4>6. /\ st'.direct[g] = st.direct[g] + 0 - Bit(g = n) + (x + Bit(g = n /\ fg)) - x
                                 + (y + Bit(g = n /\ ~fg)) - y
            /\ st'.foreground[g] = st.foreground[g] + 0 - Bit(g = n /\ fg) + (x + Bit(g = n /\ fg)) - x
        BY <4>2, <4>4 DEF Bit
      <4> QED BY <4>1, <4>3, <4>5, <4>6
    <3>2. st'.meta = st.meta + Bit(Metas(t)') - Bit(Metas(t))
                    + Pending(queue', ReleaseMeta) - Pending(queue, ReleaseMeta)
      <4>1. Pending(queue', ReleaseMeta) = Pending(queue, ReleaseMeta) /\ Pending(queue, ReleaseMeta) \in Nat
        BY <1>2, <2>4, CommandsDiffer DEF Bit
      <4>2. st.meta \in Nat /\ st'.meta = st.meta
        BY DEF Kept, TypeOK, StateType
      <4> QED BY <1>1, <2>5, <4>1, <4>2 DEF Bit
    <3> QED BY <3>1, <3>2 DEF Balanced
  <2> QED BY <1>0, <1>1, <2>2, <2>3, <2>6, AccountsStep
<1>4. CASE ~HoldsPermit(t) /\ HoldsMeta(t)
  <2>1. queue' = Append(queue, ReleaseMeta)
    BY <1>4 DEF CallerFails
  <2>2. ReleaseMeta \in Commands /\ ReleaseMeta \in CommandType
    BY CommandsTyped DEF Commands
  <2>3. \A c : Pending(queue', c) = Pending(queue, c) + Bit(ReleaseMeta = c)
    BY <1>0, <2>1, <2>2, PendingAppend
  <2>4. Balanced(t)
    BY <1>1, <1>2, <1>4, <2>3, MetaReturned
  <2> QED BY <1>0, <1>1, <2>1, <2>2, <2>4, AccountsStep
<1>5. CASE ~HoldsPermit(t) /\ ~HoldsMeta(t)
  <2>1. queue' = queue /\ SamePermits(t)
    BY <1>1, <1>5 DEF CallerFails, SamePermits, Holds, Fronts, Metas
  <2> QED BY <1>0, <1>1, <2>1, QuietAccounts
<1> QED BY <1>3, <1>4, <1>5

-----------------------------------------------------------------------------
(* The steps that take a permit, and those that return it.                   *)

LEMMA SelectAccounts ==
  ASSUME TypeOK, TypeOK', Accounts, NEW t \in Callers, SelectForReader(t)
  PROVE  Accounts'
<1>0. t \in Tasks /\ queue' = queue /\ queue \in Seq(CommandType) /\ queue \in Seq(Commands)
  BY DEF Tasks, TypeOK, Accounts, SelectForReader
<1>1. PICK f, fg, p, n, w :
        /\ f = job[t].file /\ fg = Foreground(job[t].kind)
        /\ p = (IF ~fg /\ ForegroundActive(st) THEN st.prio ELSE RequestedPriority(job[t].kind, job[t].complete))
        /\ n = GenFor(st, f, p) /\ w = (~job[t].complete \/ seeding)
  OBVIOUS
<1>2. /\ n \in Gens /\ st' = Select(st, f, p, TRUE, FALSE, w, fg)
      /\ fg \in BOOLEAN /\ job[t].kind \in Readers /\ pc[t] = "checked"
  BY <1>1 DEF SelectForReader, Foreground
<1>3. /\ OthersRest(t) /\ pc'[t] = "selected"
      /\ job'[t].kind = job[t].kind /\ job'[t].gen = n
  <2>1. OthersRest(t) /\ pc'[t] = "selected"
    BY <1>0, Moves DEF SelectForReader, OthersRest, Rests
  <2>2. job'[t] = [job[t] EXCEPT !.prio = p, !.gen = n, !.sub = Subordinate(st, f, TRUE, fg)]
    BY <1>0, <1>1, Moves DEF SelectForReader
  <2> QED BY <1>0, <2>1, <2>2 DEF TypeOK, JobType
<1>4. /\ st'.direct = Bump(st.direct, n, 1) /\ st'.foreground = Bump(st.foreground, n, IF fg THEN 1 ELSE 0)
      /\ st'.meta = st.meta
  <2>1. PICK d, o : d = Bump(st.direct, n, 1) /\ o = Bump(st.foreground, n, IF fg THEN 1 ELSE 0)
    OBVIOUS
  <2>2. st' = [st EXCEPT !.gen = n, !.sel = f, !.prio = p, !.direct = d, !.foreground = o, !.hls = st.hls,
                         !.phase = IF w THEN "Active" ELSE st.phase, !.deadline = "none"]
    BY <1>1, <1>2, <2>1, Zenon DEF Select
  <2>3. st'.direct = d /\ st'.foreground = o /\ st'.meta = st.meta
    BY <2>2 DEF TypeOK, StateType
  <2> QED BY <2>1, <2>3
<1>5. /\ ~Metas(t) /\ ~Metas(t)'
      /\ \A g : ~Holds(t, g) /\ ~Fronts(t, g) /\ (Holds(t, g)' <=> g = n) /\ (Fronts(t, g)' <=> g = n /\ fg)
  BY <1>1, <1>2, <1>3 DEF Metas, HoldsMeta, Holds, Fronts, HoldsPermit, PermitPC, PausePC
<1>6. ASSUME NEW g \in Gens
      PROVE  /\ st'.direct[g] = st.direct[g]
                  + Bit(Holds(t, g)') - Bit(Holds(t, g))
                  + Pending(queue', Release(g, TRUE)) - Pending(queue, Release(g, TRUE))
                  + Pending(queue', Release(g, FALSE)) - Pending(queue, Release(g, FALSE))
             /\ st'.foreground[g] = st.foreground[g]
                  + Bit(Fronts(t, g)') - Bit(Fronts(t, g))
                  + Pending(queue', Release(g, TRUE)) - Pending(queue, Release(g, TRUE))
  <2>1. PICK x, y : x = Pending(queue, Release(g, TRUE)) /\ y = Pending(queue, Release(g, FALSE))
    OBVIOUS
  <2>2. x \in Nat /\ y \in Nat
    BY <1>0, <2>1, PositionsFinite
  <2>3. /\ st.direct \in [Gens -> Nat] /\ st.foreground \in [Gens -> Nat]
    BY DEF TypeOK, StateType
  <2>4. /\ st'.direct[g] = st.direct[g] + Bit(g = n)
        /\ st'.foreground[g] = st.foreground[g] + Bit(g = n /\ fg)
    <3>1. PICK k : k = IF fg THEN 1 ELSE 0
      OBVIOUS
    <3>2. k \in Nat /\ k = Bit(fg)
      BY <3>1 DEF Bit
    <3>3. /\ st'.direct[g] = IF g = n THEN st.direct[n] + 1 ELSE st.direct[g]
          /\ st'.foreground[g] = IF g = n THEN st.foreground[n] + k ELSE st.foreground[g]
      BY <1>2, <1>4, <2>3, <3>1 DEF Bump
    <3>4. CASE g = n
      BY <2>3, <3>1, <3>3, <3>4 DEF Bit
    <3>5. CASE g # n
      BY <2>3, <3>3, <3>5 DEF Bit
    <3> QED BY <3>4, <3>5
  <2>5. /\ Bit(Holds(t, g)') = Bit(g = n) /\ Bit(Holds(t, g)) = 0
        /\ Bit(Fronts(t, g)') = Bit(g = n /\ fg) /\ Bit(Fronts(t, g)) = 0
    BY <1>5 DEF Bit
  <2>6. /\ st'.direct[g] = st.direct[g] + Bit(g = n) - 0 + x - x + y - y
        /\ st'.foreground[g] = st.foreground[g] + Bit(g = n /\ fg) - 0 + x - x
    BY <2>2, <2>3, <2>4 DEF Bit
  <2> QED BY <1>0, <2>1, <2>5, <2>6
<1>7. st'.meta = st.meta + Bit(Metas(t)') - Bit(Metas(t))
                + Pending(queue', ReleaseMeta) - Pending(queue, ReleaseMeta)
  <2>1. Pending(queue, ReleaseMeta) \in Nat /\ st.meta \in Nat
    BY <1>0, PositionsFinite DEF TypeOK, StateType
  <2> QED BY <1>0, <1>4, <1>5, <2>1 DEF Bit
<1>8. Balanced(t)
  BY <1>6, <1>7 DEF Balanced
<1> QED BY <1>0, <1>3, <1>8, AccountsStep

LEMMA MetadataAccounts ==
  ASSUME TypeOK, TypeOK', Accounts, NEW t \in Callers, AcquireMetadata(t) \/ MetadataLoaded(t)
  PROVE  Accounts'
<1>0. t \in Tasks /\ queue \in Seq(CommandType) /\ queue \in Seq(Commands)
  BY DEF Tasks, TypeOK, Accounts
<1>1. CASE AcquireMetadata(t)
  <2>1. /\ OthersRest(t) /\ pc[t] = "metaLock" /\ pc'[t] = "metaWait" /\ queue' = queue
    BY <1>0, <1>1, Moves DEF AcquireMetadata, OthersRest, Rests
  <2>2. st'.direct = st.direct /\ st'.foreground = st.foreground /\ st'.meta = st.meta + 1 /\ st.meta \in Nat
    BY <1>1 DEF AcquireMetadata, TypeOK, StateType
  <2>3. /\ ~Metas(t) /\ Metas(t)'
        /\ \A g : ~Holds(t, g) /\ ~Fronts(t, g) /\ ~Holds(t, g)' /\ ~Fronts(t, g)'
    BY <2>1 DEF Metas, HoldsMeta, Holds, Fronts, HoldsPermit, PermitPC, PausePC
  <2>4. ASSUME NEW g \in Gens
        PROVE  /\ st'.direct[g] = st.direct[g]
                    + Bit(Holds(t, g)') - Bit(Holds(t, g))
                    + Pending(queue', Release(g, TRUE)) - Pending(queue, Release(g, TRUE))
                    + Pending(queue', Release(g, FALSE)) - Pending(queue, Release(g, FALSE))
               /\ st'.foreground[g] = st.foreground[g]
                    + Bit(Fronts(t, g)') - Bit(Fronts(t, g))
                    + Pending(queue', Release(g, TRUE)) - Pending(queue, Release(g, TRUE))
    <3>1. PICK x, y : x = Pending(queue, Release(g, TRUE)) /\ y = Pending(queue, Release(g, FALSE))
      OBVIOUS
    <3>2. x \in Nat /\ y \in Nat /\ st.direct[g] \in Nat /\ st.foreground[g] \in Nat
      BY <1>0, <3>1, PositionsFinite DEF TypeOK, StateType
    <3>3. /\ Bit(Holds(t, g)') = 0 /\ Bit(Holds(t, g)) = 0
          /\ Bit(Fronts(t, g)') = 0 /\ Bit(Fronts(t, g)) = 0
      BY <2>3 DEF Bit
    <3>4. st'.direct[g] = st.direct[g] + 0 - 0 + x - x + y - y /\ st'.foreground[g] = st.foreground[g] + 0 - 0 + x - x
      BY <2>2, <3>2
    <3> QED BY <2>1, <3>1, <3>3, <3>4
  <2>5. st'.meta = st.meta + Bit(Metas(t)') - Bit(Metas(t))
                  + Pending(queue', ReleaseMeta) - Pending(queue, ReleaseMeta)
    <3>1. Pending(queue, ReleaseMeta) \in Nat
      BY <1>0, PositionsFinite
    <3> QED BY <2>1, <2>2, <2>3, <3>1 DEF Bit
  <2>6. Balanced(t)
    BY <2>4, <2>5 DEF Balanced
  <2> QED BY <1>0, <2>1, <2>6, AccountsStep
<1>2. CASE MetadataLoaded(t)
  <2>1. /\ OthersRest(t) /\ pc[t] = "metaAck" /\ pc'[t] = "layout" /\ queue' = Append(queue, ReleaseMeta)
    BY <1>0, <1>2, Moves DEF MetadataLoaded, Send, OthersRest, Rests
  <2>2. Kept
    BY <1>2 DEF MetadataLoaded, Kept, TypeOK, StateType
  <2>3. ReleaseMeta \in Commands /\ ReleaseMeta \in CommandType
    BY CommandsTyped DEF Commands
  <2>4. \A c : Pending(queue', c) = Pending(queue, c) + Bit(ReleaseMeta = c)
    BY <1>0, <2>1, <2>3, PendingAppend
  <2>5. /\ HoldsMeta(t) /\ ~HoldsPermit(t) /\ ~Metas(t)'
        /\ \A g : ~Holds(t, g)' /\ ~Fronts(t, g)'
    BY <2>1 DEF Metas, HoldsMeta, Holds, Fronts, HoldsPermit, PermitPC, PausePC
  <2>6. Balanced(t)
    BY <1>0, <2>2, <2>4, <2>5, MetaReturned
  <2> QED BY <1>0, <2>1, <2>3, <2>6, AccountsStep
<1> QED BY <1>1, <1>2

(* What schedule_idle decides touches no counter.                            *)
LEMMA ScheduleKeeps ==
  ASSUME NEW s \in StateType
  PROVE  /\ ScheduleIdle(s).direct = s.direct /\ ScheduleIdle(s).foreground = s.foreground
         /\ ScheduleIdle(s).meta = s.meta
BY DEF ScheduleIdle, StateType

(* A release that waits in the channel is counted, so the saturating         *)
(* decrement never saturates.                                                *)
LEMMA ReleaseAccounts ==
  ASSUME TypeOK, TypeOK', Accounts, HandleRelease
  PROVE  Accounts'
<1>0. /\ Worker \in Tasks /\ queue \in Seq(CommandType) /\ queue \in Seq(Commands) /\ queue # <<>>
      /\ OthersRest(Worker) /\ queue' = Tail(queue) /\ st \in StateType
  BY WorkerRests DEF Tasks, TypeOK, Accounts, HandleRelease, Receive, OthersRest, Rests, Serve
<1>1. PICK n \in Gens, fg \in BOOLEAN : Head(queue) = Release(n, fg)
  <2>1. Head(queue) \in Commands /\ Head(queue).type = "release"
    BY <1>0 DEF HandleRelease, Receive
  <2> QED BY <2>1 DEF Commands, Release, ReleaseMeta, SeedingSet, Verified
<1>2. \A c : Pending(queue, c) \in Nat /\ Pending(queue', c) \in Nat
             /\ Pending(queue', c) = Pending(queue, c) - Bit(Release(n, fg) = c)
  <2> SUFFICES ASSUME NEW c
               PROVE  Pending(queue, c) \in Nat /\ Pending(queue', c) \in Nat
                      /\ Pending(queue', c) = Pending(queue, c) - Bit(Release(n, fg) = c)
    OBVIOUS
  <2>1. Tail(queue) \in Seq(CommandType)
    BY <1>0
  <2>2. Pending(queue, c) \in Nat /\ Pending(queue', c) \in Nat
    BY <1>0, <2>1, PositionsFinite
  <2>3. Pending(Tail(queue), c) = Pending(queue, c) - Bit(Head(queue) = c)
    BY <1>0, PendingTail
  <2> QED BY <1>0, <1>1, <2>2, <2>3 DEF Bit
<1>3. /\ st'.direct = Decremented(st.direct, n)
      /\ st'.foreground = IF fg THEN Decremented(st.foreground, n) ELSE st.foreground
      /\ st'.meta = st.meta
  <2>1. st' = ReleasePermit(st, n, fg)
    BY <1>1 DEF HandleRelease, Release
  <2>2. PICK s : s = [st EXCEPT !.direct = Decremented(st.direct, n),
                                !.foreground = IF fg THEN Decremented(st.foreground, n) ELSE st.foreground]
    OBVIOUS
  <2>3. /\ Decremented(st.direct, n) \in [Gens -> Nat] /\ Decremented(st.foreground, n) \in [Gens -> Nat]
    BY <1>0 DEF Decremented, StateType
  <2>4. /\ s \in StateType /\ s.direct = Decremented(st.direct, n) /\ s.meta = st.meta
        /\ s.foreground = IF fg THEN Decremented(st.foreground, n) ELSE st.foreground
    BY <1>0, <2>2, <2>3 DEF StateType
  <2>5. st' = ScheduleIdle(s)
    BY <2>1, <2>2 DEF ReleasePermit
  <2> QED BY <2>4, <2>5, ScheduleKeeps
<1>4. SamePermits(Worker)
  BY <1>0, PermitsSame
<1>5. ASSUME NEW g \in Gens
      PROVE  /\ st'.direct[g] = st.direct[g]
                  + Bit(Holds(Worker, g)') - Bit(Holds(Worker, g))
                  + Pending(queue', Release(g, TRUE)) - Pending(queue, Release(g, TRUE))
                  + Pending(queue', Release(g, FALSE)) - Pending(queue, Release(g, FALSE))
             /\ st'.foreground[g] = st.foreground[g]
                  + Bit(Fronts(Worker, g)') - Bit(Fronts(Worker, g))
                  + Pending(queue', Release(g, TRUE)) - Pending(queue, Release(g, TRUE))
  <2>1. PICK x, y, x2, y2 :
          /\ x = Pending(queue, Release(g, TRUE)) /\ y = Pending(queue, Release(g, FALSE))
          /\ x2 = Pending(queue', Release(g, TRUE)) /\ y2 = Pending(queue', Release(g, FALSE))
    OBVIOUS
  <2>2. x \in Nat /\ y \in Nat /\ x2 \in Nat /\ y2 \in Nat
    BY <1>2, <2>1
  <2>3. x2 = x - Bit(g = n /\ fg) /\ y2 = y - Bit(g = n /\ ~fg)
    <3>1. /\ Release(n, fg) = Release(g, TRUE) <=> g = n /\ fg
          /\ Release(n, fg) = Release(g, FALSE) <=> g = n /\ ~fg
      <4>1. CASE fg = TRUE
        BY <4>1 DEF Release
      <4>2. CASE fg = FALSE
        BY <4>2 DEF Release
      <4> QED BY <4>1, <4>2
    <3>2. /\ x2 = x - Bit(Release(n, fg) = Release(g, TRUE))
          /\ y2 = y - Bit(Release(n, fg) = Release(g, FALSE))
      BY <1>2, <2>1
    <3> QED BY <3>1, <3>2 DEF Bit
  <2>4. /\ st.direct[g] \in Nat /\ st.foreground[g] \in Nat
        /\ st.direct \in [Gens -> Nat] /\ st.foreground \in [Gens -> Nat]
        /\ st.direct[g] >= x + y /\ st.foreground[g] >= x
    <3>1. /\ st.direct[g] = Cardinality(Holders(g)) + x + y
          /\ st.foreground[g] = Cardinality({t \in Holders(g) : Foreground(job[t].kind)}) + x
      BY <2>1 DEF Accounts, PermitsAccounted, Releases, Pending, Positions
    <3>2. IsFiniteSet(Holders(g)) /\ IsFiniteSet({t \in Holders(g) : Foreground(job[t].kind)})
      <4>1. Holders(g) \subseteq Callers /\ {t \in Holders(g) : Foreground(job[t].kind)} \subseteq Callers
        BY DEF Holders
      <4> QED BY <4>1, FS_Subset, CoordinatorAssumption
    <3>3. PICK h, k : h = Cardinality(Holders(g)) /\ k = Cardinality({t \in Holders(g) : Foreground(job[t].kind)})
      OBVIOUS
    <3>4. h \in Nat /\ k \in Nat
      BY <3>2, <3>3, FS_CardinalityType
    <3>5. st.direct[g] = h + x + y /\ st.foreground[g] = k + x
      BY <3>1, <3>3
    <3> QED BY <1>0, <2>2, <3>4, <3>5 DEF StateType
  <2>5. /\ st'.direct[g] = st.direct[g] - Bit(g = n)
        /\ st'.foreground[g] = st.foreground[g] - Bit(g = n /\ fg)
    <3>1. CASE g = n
      BY <1>3, <2>2, <2>3, <2>4, <3>1 DEF Decremented, Bit
    <3>2. CASE g # n
      BY <1>3, <2>4, <3>2 DEF Decremented, Bit
    <3> QED BY <3>1, <3>2
  <2>6. /\ st'.direct[g] = st.direct[g] + x2 - x + y2 - y
        /\ st'.foreground[g] = st.foreground[g] + x2 - x
    BY <2>2, <2>3, <2>4, <2>5 DEF Bit
  <2>7. Bit(Holds(Worker, g)') = 0 /\ Bit(Holds(Worker, g)) = 0 /\ Bit(Fronts(Worker, g)') = 0 /\ Bit(Fronts(Worker, g)) = 0
    BY CoordinatorAssumption DEF Bit, Holds, Fronts, HoldsPermit
  <2>8. /\ st'.direct[g] = st.direct[g] + 0 - 0 + x2 - x + y2 - y
        /\ st'.foreground[g] = st.foreground[g] + 0 - 0 + x2 - x
    BY <2>4, <2>6
  <2> QED BY <2>1, <2>7, <2>8
<1>6. st'.meta = st.meta + Bit(Metas(Worker)') - Bit(Metas(Worker))
                + Pending(queue', ReleaseMeta) - Pending(queue, ReleaseMeta)
  <2>1. Release(n, fg) # ReleaseMeta
    BY CommandsDiffer
  <2>2. Pending(queue', ReleaseMeta) = Pending(queue, ReleaseMeta) /\ Pending(queue, ReleaseMeta) \in Nat
    BY <1>2, <2>1 DEF Bit
  <2>3. st.meta \in Nat
    BY <1>0 DEF StateType
  <2> QED BY <1>3, <1>4, <2>2, <2>3 DEF SamePermits, Bit
<1>7. Balanced(Worker)
  BY <1>5, <1>6 DEF Balanced
<1>8. queue' \in Seq(Commands)
  BY <1>0
<1> QED BY <1>0, <1>7, <1>8, AccountsStep, CoordinatorAssumption

LEMMA ReleaseMetaAccounts ==
  ASSUME TypeOK, TypeOK', Accounts, HandleReleaseMetadata
  PROVE  Accounts'
<1>0. /\ Worker \in Tasks /\ queue \in Seq(CommandType) /\ queue \in Seq(Commands) /\ queue # <<>>
      /\ OthersRest(Worker) /\ queue' = Tail(queue) /\ st \in StateType
  BY WorkerRests DEF Tasks, TypeOK, Accounts, HandleReleaseMetadata, Receive, OthersRest, Rests, Serve
<1>1. Head(queue) = ReleaseMeta
  <2>1. Head(queue) \in Commands /\ Head(queue).type = "releaseMeta"
    BY <1>0 DEF HandleReleaseMetadata, Receive
  <2> QED BY <2>1 DEF Commands, Release, ReleaseMeta, SeedingSet, Verified
<1>2. \A c : Pending(queue, c) \in Nat /\ Pending(queue', c) \in Nat
             /\ Pending(queue', c) = Pending(queue, c) - Bit(ReleaseMeta = c)
  <2> SUFFICES ASSUME NEW c
               PROVE  Pending(queue, c) \in Nat /\ Pending(queue', c) \in Nat
                      /\ Pending(queue', c) = Pending(queue, c) - Bit(ReleaseMeta = c)
    OBVIOUS
  <2>1. Tail(queue) \in Seq(CommandType)
    BY <1>0
  <2> QED BY <1>0, <1>1, <2>1, PendingTail, PositionsFinite
<1>3. /\ st'.direct = st.direct /\ st'.foreground = st.foreground
      /\ st'.meta = IF st.meta > 0 THEN st.meta - 1 ELSE 0
  <2>1. PICK m : m = IF st.meta > 0 THEN st.meta - 1 ELSE 0
    OBVIOUS
  <2>2. m \in Nat
    BY <1>0, <2>1 DEF StateType
  <2>3. PICK s : s = [st EXCEPT !.meta = m]
    OBVIOUS
  <2>4. s \in StateType /\ s.direct = st.direct /\ s.foreground = st.foreground /\ s.meta = m
    BY <1>0, <2>2, <2>3 DEF StateType
  <2>5. st' = ScheduleIdle(s)
    BY <2>1, <2>3 DEF HandleReleaseMetadata, ReleaseMetadata
  <2> QED BY <2>1, <2>4, <2>5, ScheduleKeeps
<1>4. SamePermits(Worker)
  BY <1>0, PermitsSame
<1>5. ASSUME NEW g \in Gens
      PROVE  /\ st'.direct[g] = st.direct[g]
                  + Bit(Holds(Worker, g)') - Bit(Holds(Worker, g))
                  + Pending(queue', Release(g, TRUE)) - Pending(queue, Release(g, TRUE))
                  + Pending(queue', Release(g, FALSE)) - Pending(queue, Release(g, FALSE))
             /\ st'.foreground[g] = st.foreground[g]
                  + Bit(Fronts(Worker, g)') - Bit(Fronts(Worker, g))
                  + Pending(queue', Release(g, TRUE)) - Pending(queue, Release(g, TRUE))
  <2>1. PICK x, y : x = Pending(queue, Release(g, TRUE)) /\ y = Pending(queue, Release(g, FALSE))
    OBVIOUS
  <2>2. x \in Nat /\ y \in Nat /\ st.direct[g] \in Nat /\ st.foreground[g] \in Nat
    BY <1>0, <1>2, <2>1 DEF StateType
  <2>3. Pending(queue', Release(g, TRUE)) = x /\ Pending(queue', Release(g, FALSE)) = y
    <3>1. PICK a, b : a = Release(g, TRUE) /\ b = Release(g, FALSE)
      OBVIOUS
    <3>2. ReleaseMeta # a /\ ReleaseMeta # b
      BY <3>1, CommandsDiffer
    <3>3. /\ Pending(queue', a) = Pending(queue, a) - Bit(ReleaseMeta = a)
          /\ Pending(queue', b) = Pending(queue, b) - Bit(ReleaseMeta = b)
      BY <1>2, <3>1
    <3>4. Pending(queue, a) = x /\ Pending(queue, b) = y
      BY <2>1, <3>1
    <3>5. Pending(queue', a) = x /\ Pending(queue', b) = y
      BY <2>2, <3>2, <3>3, <3>4 DEF Bit
    <3> QED BY <3>1, <3>5
  <2>4. Bit(Holds(Worker, g)') = 0 /\ Bit(Holds(Worker, g)) = 0 /\ Bit(Fronts(Worker, g)') = 0 /\ Bit(Fronts(Worker, g)) = 0
    BY CoordinatorAssumption DEF Bit, Holds, Fronts, HoldsPermit
  <2>5. /\ st'.direct[g] = st.direct[g] + 0 - 0 + x - x + y - y
        /\ st'.foreground[g] = st.foreground[g] + 0 - 0 + x - x
    BY <1>3, <2>2
  <2> QED BY <2>1, <2>3, <2>4, <2>5
<1>6. st'.meta = st.meta + Bit(Metas(Worker)') - Bit(Metas(Worker))
                + Pending(queue', ReleaseMeta) - Pending(queue, ReleaseMeta)
  <2>1. PICK x : x = Pending(queue, ReleaseMeta)
    OBVIOUS
  <2>2. x \in Nat /\ Pending(queue', ReleaseMeta) \in Nat /\ Pending(queue', ReleaseMeta) = x - 1
    BY <1>2, <2>1 DEF Bit
  <2>3. st.meta \in Nat /\ st.meta >= x
    <3>1. st.meta = Cardinality({t \in Callers : HoldsMeta(t)}) + x
      BY <2>1 DEF Accounts, PermitsAccounted, Pending, Positions
    <3>2. IsFiniteSet({t \in Callers : HoldsMeta(t)})
      <4>1. {t \in Callers : HoldsMeta(t)} \subseteq Callers
        OBVIOUS
      <4> QED BY <4>1, FS_Subset, CoordinatorAssumption
    <3>3. Cardinality({t \in Callers : HoldsMeta(t)}) \in Nat
      BY <3>2, FS_CardinalityType
    <3> QED BY <2>2, <3>1, <3>3
  <2>4. Bit(Metas(Worker)') = 0 /\ Bit(Metas(Worker)) = 0
    BY CoordinatorAssumption DEF Bit, Metas
  <2>5. st'.meta = st.meta + 0 - 0 + (x - 1) - x
    BY <1>3, <2>2, <2>3
  <2> QED BY <2>1, <2>2, <2>4, <2>5
<1>7. Balanced(Worker)
  BY <1>5, <1>6 DEF Balanced
<1>8. queue' \in Seq(Commands)
  BY <1>0
<1> QED BY <1>0, <1>7, <1>8, AccountsStep, CoordinatorAssumption

-----------------------------------------------------------------------------
(* The other steps leave the counters, the permits and the releases alone.   *)

LEMMA PausesKeep ==
  ASSUME TypeOK, NEW s \in StateType
  PROVE  /\ \A g : /\ KeepActiveForSeeding(s, g).direct = s.direct
                   /\ KeepActiveForSeeding(s, g).foreground = s.foreground
                   /\ KeepActiveForSeeding(s, g).meta = s.meta
         /\ BeginPause(s).direct = s.direct /\ BeginPause(s).foreground = s.foreground
         /\ BeginPause(s).meta = s.meta
         /\ Expired(s) \in StateType
         /\ Expired(s).direct = s.direct /\ Expired(s).foreground = s.foreground /\ Expired(s).meta = s.meta
BY DEF KeepActiveForSeeding, BeginPause, Expired, StateType

LEMMA AnsweredAccounts ==
  ASSUME TypeOK, TypeOK', Accounts, NEW t \in Tasks, Kept, queue' = queue,
         CallerSucceeds(t) \/ PauseReturns(t), pc[t] \in PermitPC
  PROVE  Accounts'
<1>0. OthersRest(t)
  BY AnsweredMoves
<1>1. CASE t = Worker
  <2>1. SamePermits(t)
    BY <1>1, PermitsSame
  <2> QED BY <1>0, <1>1, <2>1, QuietAccounts, CoordinatorAssumption
<1>2. CASE t # Worker
  <2>1. \/ job[t].kind \in Readers /\ pc'[t] = "playing" /\ job'[t] = job[t]
        \/ job[t].kind \notin Readers /\ pc'[t] = "idle" /\ job'[t] = NoJob
    BY <1>2, AnsweredMoves
  <2>2. SamePermits(t)
    <3>1. CASE job[t].kind \in Readers
      BY <2>1, <3>1, PermitsSame DEF PermitPC, PausePC
    <3>2. CASE job[t].kind \notin Readers
      BY <2>1, <3>2, PermitsSame DEF PermitPC, PausePC, NoJob, Readers
    <3> QED BY <3>1, <3>2
  <2>3. pc'[t] \notin {"endPending", "endPaused"}
    BY <2>1
  <2> QED BY <1>0, <2>2, <2>3, QuietAccounts
<1> QED BY <1>1, <1>2

LEMMA RequestAccounts ==
  ASSUME TypeOK, TypeOK', Accounts, NEW t \in Callers, Request(t)
  PROVE  Accounts'
<1>0. t \in Tasks /\ st \in StateType
  BY DEF Tasks, TypeOK
<1>1. OthersRest(t) /\ pc[t] = "idle" /\ queue' = queue
      /\ pc'[t] \in {"layout", "endPending", "endPaused"}
      /\ (pc'[t] # "layout" => job'[t].kind = "endhls")
  <2>1. ASSUME NEW k \in Kinds, NEW f \in Files, Begin(t, k, f)
        PROVE  OthersRest(t) /\ pc[t] = "idle" /\ queue' = queue /\ pc'[t] = "layout"
    BY <1>0, <2>1, Moves DEF Begin, OthersRest, Rests
  <2>2. ASSUME NEW f \in Files, EndHls(t, f)
        PROVE  OthersRest(t) /\ pc[t] = "idle" /\ queue' = queue /\ pc'[t] \in {"endPending", "endPaused"}
               /\ job'[t].kind = "endhls"
    <3>1. PICK j : j = [NoJob EXCEPT !.kind = "endhls", !.file = f, !.gen = st.gen + 1]
      OBVIOUS
    <3>2. job'[t] = j /\ \A u \in Tasks \ {t} : job'[u] = job[u]
      BY <1>0, <2>2, <3>1, Moves DEF EndHls
    <3>3. /\ pc'[t] = (IF st.phase = "PausedIdle" THEN "endPaused" ELSE "endPending")
          /\ \A u \in Tasks \ {t} : pc'[u] = pc[u]
      BY <1>0, <2>2, Moves DEF EndHls
    <3>4. j.kind = "endhls"
      BY <3>1 DEF NoJob
    <3>5. pc[t] = "idle" /\ queue' = queue
      BY <2>2 DEF EndHls
    <3> QED BY <3>2, <3>3, <3>4, <3>5 DEF OthersRest, Rests
  <2> QED BY <2>1, <2>2 DEF Request
<1>2. Kept
  BY <1>0, PausesKeep DEF Request, Begin, EndHls, Kept
<1>3. SamePermits(t)
  BY <1>0, <1>1, PermitsSame DEF PermitPC, PausePC
<1> QED BY <1>0, <1>1, <1>2, <1>3, QuietAccounts

LEMMA ProgressAccounts ==
  ASSUME TypeOK, TypeOK', Accounts, NEW t \in Callers, Progress(t)
  PROVE  Accounts'
<1>0. t \in Tasks /\ st \in StateType
  BY DEF Tasks, TypeOK
<1>1. CASE LoadLayout(t) \/ SubmitIdlePriorities(t)
  <2>1. /\ OthersRest(t) /\ queue' = queue /\ Kept
        /\ \/ pc[t] = "layout" /\ pc'[t] = "metaLock"
           \/ pc[t] = "metaWait" /\ pc'[t] = "metaAck"
    <3>1. CASE LoadLayout(t)
      BY <1>0, <3>1, Moves DEF LoadLayout, OthersRest, Rests, Kept
    <3>2. CASE SubmitIdlePriorities(t)
      BY <1>0, <3>2, Moves DEF SubmitIdlePriorities, OthersRest, Rests, Kept
    <3> QED BY <1>1, <3>1, <3>2
  <2>2. SamePermits(t)
    BY <1>0, <2>1, PermitsSame DEF PermitPC, PausePC
  <2> QED BY <1>0, <2>1, <2>2, QuietAccounts
<1>2. CASE CheckComplete(t)
  <2>1. OthersRest(t) /\ queue' = queue /\ Kept /\ pc[t] = "layout" /\ pc'[t] = "checked"
    BY <1>0, <1>2, Moves DEF CheckComplete, OthersRest, Rests, Kept
  <2>2. SamePermits(t)
    BY <1>0, <2>1, PermitsSame DEF PermitPC, PausePC
  <2> QED BY <1>0, <2>1, <2>2, QuietAccounts
<1>3. ASSUME CallerFails(t), UNCHANGED st PROVE Accounts'
  <2>1. Kept
    BY <1>3 DEF Kept
  <2> QED BY <1>3, <2>1, FailedAccounts
<1>4. CASE SelectForHls(t)
  <2>1. /\ OthersRest(t) /\ queue' = queue /\ pc[t] = "checked" /\ job[t].kind = "hls"
        /\ \/ pc'[t] = "selected" /\ job'[t].kind = "hls"
           \/ pc'[t] = "idle" /\ job'[t] = NoJob
    <3>1. PICK p, n, k :
            /\ p = RequestedPriority("hls", job[t].complete) /\ n = GenFor(st, job[t].file, p)
            /\ k = [job[t] EXCEPT !.prio = p, !.gen = n]
      OBVIOUS
    <3>2. job[t].kind = "hls" /\ k.kind = "hls" /\ pc[t] = "checked" /\ queue' = queue
      BY <1>0, <1>4, <3>1 DEF SelectForHls, TypeOK, JobType
    <3>3. \/ Goto(t, "selected") /\ Become(t, k)
          \/ Goto(t, "idle") /\ Become(t, NoJob)
      BY <1>4, <3>1 DEF SelectForHls
    <3>4. CASE Goto(t, "selected") /\ Become(t, k)
      BY <1>0, <3>2, <3>4, Moves DEF OthersRest, Rests
    <3>5. CASE Goto(t, "idle") /\ Become(t, NoJob)
      BY <1>0, <3>2, <3>5, Moves DEF OthersRest, Rests
    <3> QED BY <3>3, <3>4, <3>5
  <2>2. Kept
    <3>1. PICK f, p, n, w :
            /\ f = job[t].file /\ p = RequestedPriority("hls", job[t].complete)
            /\ n = GenFor(st, f, p) /\ w = (~job[t].complete \/ seeding)
      OBVIOUS
    <3>2. st' = Select(st, f, p, FALSE, TRUE, w, FALSE) /\ n \in Gens
      BY <1>4, <3>1 DEF SelectForHls
    <3>3. PICK d, o : d = Bump(st.direct, n, 0) /\ o = Bump(st.foreground, n, 0)
      OBVIOUS
    <3>4. d = st.direct /\ o = st.foreground
      BY <1>0, <3>2, <3>3 DEF Bump, StateType
    <3>5. st' = [st EXCEPT !.gen = n, !.sel = f, !.prio = p, !.direct = d, !.foreground = o, !.hls = "fresh",
                           !.phase = IF w THEN "Active" ELSE st.phase, !.deadline = "none"]
      BY <3>1, <3>2, <3>3, Zenon DEF Select
    <3>6. st'.direct = d /\ st'.foreground = o /\ st'.meta = st.meta
      BY <1>0, <3>5 DEF StateType
    <3> QED BY <3>4, <3>6 DEF Kept
  <2>3. SamePermits(t)
    <3>1. job[t].kind \notin Readers /\ job'[t].kind \notin Readers
      BY <2>1 DEF Readers, NoJob
    <3>2. pc[t] \notin {"metaWait", "metaAck"} /\ pc'[t] \notin {"metaWait", "metaAck"}
      BY <2>1
    <3> QED BY <1>0, <3>1, <3>2, PermitsSame
  <2> QED BY <1>0, <2>1, <2>2, <2>3, QuietAccounts
<1>5. CASE JoinWithoutActivation(t)
  BY <1>0, <1>5, AnsweredAccounts DEF JoinWithoutActivation, Kept, PermitPC
<1>6. CASE Activate(t) \/ EndHlsPauses(t)
  <2>1. /\ OthersRest(t) /\ queue' = queue /\ Kept /\ job'[t] = job[t]
        /\ \/ pc[t] = "selected" /\ pc'[t] \in {"actAck", "actResume", "pauseEnter"}
           \/ pc[t] = "endPending" /\ pc'[t] = "pauseLock"
    BY <1>0, <1>6, Moves DEF Activate, EndHlsPauses, OthersRest, Rests, Kept
  <2>2. SamePermits(t)
    <3>1. CASE pc[t] = "selected"
      BY <1>0, <2>1, <3>1, PermitsSame DEF PermitPC, PausePC
    <3>2. CASE pc[t] = "endPending"
      <4>1. job[t].kind = "endhls"
        BY <3>2 DEF Accounts
      <4> QED BY <1>0, <2>1, <3>2, <4>1, PermitsSame DEF Readers
    <3> QED BY <2>1, <3>1, <3>2
  <2> QED BY <1>0, <2>1, <2>2, QuietAccounts
<1>7. CASE ActivationAcknowledged(t)
  <2>1. \/ CallerFails(t) /\ UNCHANGED st
        \/ /\ st' = [st EXCEPT !.ack = DesiredPriorities(job[t].file, job[t].prio)]
           /\ pc[t] = "actAck" /\ (Goto(t, "pauseEnter") \/ Goto(t, "actResume"))
           /\ UNCHANGED <<queue, job>>
    BY <1>7 DEF ActivationAcknowledged
  <2>2. ASSUME st' = [st EXCEPT !.ack = DesiredPriorities(job[t].file, job[t].prio)], UNCHANGED <<queue, job>>,
               pc[t] = "actAck", Goto(t, "pauseEnter") \/ Goto(t, "actResume")
        PROVE  Accounts'
    <3>1. OthersRest(t) /\ job'[t] = job[t] /\ pc'[t] \in {"pauseEnter", "actResume"}
      BY <1>0, <2>2, Moves DEF OthersRest, Rests
    <3>2. Kept
      BY <1>0, <2>2 DEF Kept, StateType
    <3>3. SamePermits(t)
      BY <1>0, <2>2, <3>1, PermitsSame DEF PermitPC, PausePC
    <3> QED BY <1>0, <2>2, <3>1, <3>2, <3>3, QuietAccounts
  <2> QED BY <1>3, <2>1, <2>2
<1>8. CASE ActivationResumes(t)
  <2>1. /\ CallerFails(t) \/ (CallerSucceeds(t) /\ queue' = queue)
        /\ UNCHANGED st /\ pc[t] \in PermitPC
    BY <1>8 DEF ActivationResumes, PermitPC
  <2>2. Kept
    BY <2>1 DEF Kept
  <2> QED BY <1>0, <1>3, <2>1, <2>2, AnsweredAccounts
<1>9. CASE EndHlsWithoutPause(t)
  <2>1. /\ OthersRest(t) /\ queue' = queue
        /\ pc[t] \in {"endPending", "endPaused"} /\ pc'[t] = "idle"
    BY <1>0, <1>9, Moves DEF EndHlsWithoutPause, OthersRest, Rests
  <2>2. Kept
    <3>1. st' = KeepActiveForSeeding(st, job[t].gen) \/ st' = [st EXCEPT !.phase = "PausedIdle"]
      BY <1>9 DEF EndHlsWithoutPause
    <3> QED BY <1>0, <3>1, PausesKeep DEF Kept, StateType
  <2>3. SamePermits(t)
    BY <1>0, <2>1, PermitsSame DEF PermitPC, PausePC
  <2> QED BY <1>0, <2>1, <2>2, <2>3, QuietAccounts
<1>10. CASE BackgroundRejected(t) \/ ActivationStale(t)
  BY <1>3, <1>10 DEF BackgroundRejected, ActivationStale
<1> QED
  BY <1>1, <1>2, <1>3, <1>4, <1>5, <1>6, <1>7, <1>8, <1>9, <1>10, SelectAccounts, MetadataAccounts
     DEF Progress

LEMMA PausingAccounts ==
  ASSUME TypeOK, TypeOK', Accounts, NEW t \in Tasks, Pausing(t)
  PROVE  Accounts'
<1>0. st \in StateType /\ queue' = queue /\ pc[t] \in PermitPC
  BY DEF TypeOK, Pausing, PauseEnter, PauseStale, PauseNative, PauseConfirmed, PauseSubmitsZeros,
         PauseAcknowledged, PermitPC, PausePC
<1>1. Kept
  <2>1. \/ UNCHANGED st \/ st' = KeepActiveForSeeding(st, job[t].gen) \/ st' = FinalizedPause(t)
    BY DEF Pausing, PauseEnter, PauseStale, PauseNative, PauseConfirmed, PauseSubmitsZeros, PauseAcknowledged
  <2>2. CASE st' = FinalizedPause(t)
    BY <1>0, <2>2 DEF FinalizedPause, Kept, StateType
  <2> QED BY <1>0, <2>1, <2>2, PausesKeep DEF Kept
<1>2. CASE PauseReturns(t)
  BY <1>0, <1>1, <1>2, AnsweredAccounts
<1>3. CASE ~PauseReturns(t)
  <2>1. OthersRest(t) /\ pc'[t] \in {"pauseLock", "pauseConfirm", "pauseAck"} /\ job'[t] = job[t]
    BY <1>3, Moves DEF Pausing, PauseEnter, PauseStale, PauseNative, PauseConfirmed, PauseSubmitsZeros,
       PauseAcknowledged, OthersRest, Rests
  <2>2. SamePermits(t)
    BY <1>0, <2>1, PermitsSame DEF PermitPC, PausePC
  <2> QED BY <1>0, <1>1, <2>1, <2>2, QuietAccounts
<1> QED BY <1>2, <1>3

LEMMA FailureAccounts ==
  ASSUME TypeOK, TypeOK', Accounts, NEW t \in Callers, Failure(t) \/ CloseReader(t)
  PROVE  Accounts'
<1>1. CallerFails(t) /\ Kept
  BY DEF Failure, MetadataFails, ActivationFails, Abandon, CloseReader, Kept
<1> QED BY <1>1, FailedAccounts

LEMMA PauseFailsAccounts ==
  ASSUME TypeOK, TypeOK', Accounts, NEW t \in Tasks, PauseFails(t)
  PROVE  Accounts'
<1>1. CASE t = Worker
  <2>1. OthersRest(t) /\ queue' = queue
    BY <1>1, Moves DEF PauseFails, OthersRest, Rests
  <2>2. \/ UNCHANGED st
        \/ st' = [st EXCEPT !.phase = "PausePending", !.deadline = "armed"]
        \/ st' = [st EXCEPT !.phase = "Active"]
    BY <1>1 DEF PauseFails
  <2>3. Kept
    BY <2>2 DEF Kept, TypeOK, StateType
  <2>4. SamePermits(t)
    BY <1>1, PermitsSame
  <2> QED BY <1>1, <2>1, <2>3, <2>4, QuietAccounts, CoordinatorAssumption
<1>2. CASE t # Worker
  <2>1. t \in Callers /\ CallerFails(t) /\ Kept
    BY <1>2 DEF Tasks, PauseFails, Kept
  <2> QED BY <2>1, FailedAccounts
<1> QED BY <1>1, <1>2

LEMMA WorkerAccounts ==
  ASSUME TypeOK, TypeOK', Accounts, Serve \/ Environment
  PROVE  Accounts'
<1>0. Worker \in Tasks /\ OthersRest(Worker) /\ Worker \notin Callers /\ st \in StateType
  BY WorkerRests, CoordinatorAssumption DEF TypeOK
<1>1. SamePermits(Worker)
  BY <1>0, PermitsSame
<1>2. ASSUME Kept,
             \/ queue' = queue
             \/ \E b \in BOOLEAN : queue' = Append(queue, SeedingSet(b))
             \/ \E f \in Files : queue' = Append(queue, Verified(f))
             \/ queue # <<>> /\ Head(queue).type \in {"seeding", "verified"} /\ queue' = Tail(queue)
      PROVE  Accounts'
  BY <1>0, <1>1, <1>2, QuietAccounts
<1>3. CASE HandleSeedingOn \/ HandleSeedingOff
  <2>1. Kept
    BY <1>0, <1>3, ScheduleKeeps DEF HandleSeedingOn, HandleSeedingOff, Kept, StateType
  <2>2. queue # <<>> /\ Head(queue).type \in {"seeding", "verified"} /\ queue' = Tail(queue)
    BY <1>3 DEF HandleSeedingOn, HandleSeedingOff, Receive
  <2> QED BY <1>2, <2>1, <2>2
<1>4. CASE HandleVerified
  <2>1. UNCHANGED st \/ st' = [st EXCEPT !.phase = "PausePending"]
    BY <1>4 DEF HandleVerified
  <2>2. Kept
    BY <1>0, <2>1 DEF Kept, StateType
  <2>3. queue # <<>> /\ Head(queue).type \in {"seeding", "verified"} /\ queue' = Tail(queue)
    BY <1>4 DEF HandleVerified, Receive
  <2> QED BY <1>2, <2>2, <2>3
<1>5. CASE TickExpiresHls
  <2>1. Kept /\ queue' = queue
    BY <1>0, <1>5, PausesKeep DEF TickExpiresHls, Kept
  <2> QED BY <1>2, <2>1
<1>6. CASE TickPauses
  <2>1. PICK s : s = Expired(st)
    OBVIOUS
  <2>2. s \in StateType /\ s.direct = st.direct /\ s.foreground = st.foreground /\ s.meta = st.meta
    BY <1>0, <2>1, PausesKeep
  <2>3. queue' = queue /\ (st' = [s EXCEPT !.deadline = "none"] \/ st' = BeginPause(s))
    BY <1>6, <2>1 DEF TickPauses
  <2>4. Kept
    BY <2>2, <2>3, PausesKeep DEF Kept, StateType
  <2> QED BY <1>2, <2>3, <2>4
<1>7. CASE Environment
  <2>1. CASE MetadataArrives
    BY <1>2, <2>1 DEF MetadataArrives, Kept
  <2>2. CASE HlsLapses \/ DeadlinePasses
    BY <1>0, <1>2, <2>2 DEF HlsLapses, DeadlinePasses, Kept, StateType
  <2>3. CASE SetSeeding
    <3>1. (~seeding) \in BOOLEAN /\ queue' = Append(queue, SeedingSet(~seeding)) /\ Kept
      BY <2>3 DEF SetSeeding, Send, Kept
    <3> QED BY <1>2, <3>1
  <2>4. ASSUME NEW f \in Files, FileCompletes(f) PROVE Accounts'
    <3>1. queue' = Append(queue, Verified(f)) /\ Kept
      BY <2>4 DEF FileCompletes, Send, Kept
    <3> QED BY <1>2, <3>1
  <2> QED BY <1>7, <2>1, <2>2, <2>3, <2>4 DEF Environment
<1> QED
  BY <1>3, <1>4, <1>5, <1>6, <1>7, ReleaseAccounts, ReleaseMetaAccounts DEF Serve

LEMMA NextAccounts == TypeOK /\ TypeOK' /\ Accounts /\ [Next]_vars => Accounts'
<1> SUFFICES ASSUME TypeOK, TypeOK', Accounts, [Next]_vars PROVE Accounts'
  OBVIOUS
<1>1. CASE UNCHANGED vars
  BY <1>1 DEF vars, Accounts, PermitsAccounted, Holders, Releases, HoldsPermit, HoldsMeta
<1> QED
  BY <1>1, RequestAccounts, ProgressAccounts, FailureAccounts, PausingAccounts, PauseFailsAccounts,
     WorkerAccounts DEF Next

LEMMA InitAccounts == Init => Accounts
<1> SUFFICES ASSUME Init PROVE Accounts
  OBVIOUS
<1>1. /\ \A g : Holders(g) = {} /\ {t \in Holders(g) : Foreground(job[t].kind)} = {}
      /\ \A g, b : Releases(g, b) = {}
      /\ {t \in Callers : HoldsMeta(t)} = {}
      /\ {i \in DOMAIN queue : queue[i] = ReleaseMeta} = {}
  BY DEF Init, Holders, HoldsPermit, HoldsMeta, Releases, PermitPC, PausePC, Tasks
<1>2. \A g \in Gens : st.direct[g] = 0 /\ st.foreground[g] = 0
  BY DEF Init, NewState
<1>3. st.meta = 0
  BY DEF Init, NewState
<1>4. Cardinality({}) = 0
  BY FS_EmptySet
<1>5. PermitsAccounted
  <2>1. \A g \in Gens : /\ Cardinality(Holders(g)) = 0 /\ Cardinality(Releases(g, TRUE)) = 0
                        /\ Cardinality(Releases(g, FALSE)) = 0
                        /\ Cardinality({t \in Holders(g) : Foreground(job[t].kind)}) = 0
    BY <1>1, <1>4
  <2>2. /\ Cardinality({t \in Callers : HoldsMeta(t)}) = 0
        /\ Cardinality({i \in DOMAIN queue : queue[i] = ReleaseMeta}) = 0
    BY <1>1, <1>4
  <2>3. ASSUME NEW g \in Gens
        PROVE  /\ st.direct[g] = Cardinality(Holders(g))
                    + Cardinality(Releases(g, TRUE)) + Cardinality(Releases(g, FALSE))
               /\ st.foreground[g] = Cardinality({t \in Holders(g) : Foreground(job[t].kind)})
                    + Cardinality(Releases(g, TRUE))
    <3>1. PICK h, k, x, y :
            /\ h = Cardinality(Holders(g)) /\ k = Cardinality({t \in Holders(g) : Foreground(job[t].kind)})
            /\ x = Cardinality(Releases(g, TRUE)) /\ y = Cardinality(Releases(g, FALSE))
      OBVIOUS
    <3>2. h = 0 /\ k = 0 /\ x = 0 /\ y = 0
      BY <2>1, <3>1
    <3>3. st.direct[g] = h + x + y /\ st.foreground[g] = k + x
      BY <1>2, <3>2
    <3> QED BY <3>1, <3>3
  <2>4. st.meta = Cardinality({t \in Callers : HoldsMeta(t)})
                    + Cardinality({i \in DOMAIN queue : queue[i] = ReleaseMeta})
    BY <1>3, <2>2
  <2> QED BY <2>3, <2>4 DEF PermitsAccounted
<1> QED BY <1>5 DEF Init, Accounts, Tasks

\* No permit is lost or returned twice, for any number of requests: the counters
\* of TorrentPlaybackState equal the permits held plus those on their way back.
THEOREM PermitsAreAccounted == Spec => []PermitsAccounted
<1>1. Accounts => PermitsAccounted
  BY DEF Accounts
<1> QED BY <1>1, InitAccounts, NextAccounts, TypeCorrect, PTL DEF Spec

\* The counters the tick looks at are never behind the permits: where it pauses,
\* nobody holds one.
LEMMA TickFindsNoPermit ==
  ASSUME TypeOK, PermitsAccounted, TickPauses, NEW t \in Callers
  PROVE  ~HoldsPermit(t) /\ ~HoldsMeta(t)
<1>1. st \in StateType /\ queue \in Seq(CommandType)
  BY DEF TypeOK
<1>2. /\ \A g \in Gens : ~(st.direct[g] > 0)
      /\ ~(st.meta > 0)
  <2>1. PICK s : s = Expired(st)
    OBVIOUS
  <2>2. ~HasActivity(s)
    BY <2>1 DEF TickPauses, PauseDue
  <2>3. s.direct = st.direct /\ s.meta = st.meta
    BY <1>1, <2>1, PausesKeep
  <2> QED BY <2>2, <2>3 DEF HasActivity
<1>3. \A c : Pending(queue, c) \in Nat
  BY <1>1, PositionsFinite
<1>4. ASSUME HoldsPermit(t) PROVE FALSE
  <2>1. PICK n : n = job[t].gen
    OBVIOUS
  <2>2. n \in Gens /\ t \in Holders(n)
    BY <1>4, <2>1 DEF TypeOK, JobType, Tasks, Holders
  <2>3. Holders(n) \subseteq Callers /\ IsFiniteSet(Holders(n))
    <3>1. Holders(n) \subseteq Callers
      BY DEF Holders
    <3> QED BY <3>1, FS_Subset, CoordinatorAssumption
  <2>4. PICK h, x, y : h = Cardinality(Holders(n)) /\ x = Pending(queue, Release(n, TRUE))
                       /\ y = Pending(queue, Release(n, FALSE))
    OBVIOUS
  <2>5. h \in Nat /\ x \in Nat /\ y \in Nat /\ h # 0
    BY <1>3, <2>2, <2>3, <2>4, FS_CardinalityType, FS_EmptySet
  <2>6. st.direct[n] = h + x + y
    BY <2>2, <2>4 DEF PermitsAccounted, Releases, Pending, Positions
  <2> QED BY <1>2, <2>2, <2>5, <2>6
<1>5. ASSUME HoldsMeta(t) PROVE FALSE
  <2>1. PICK S : S = {u \in Callers : HoldsMeta(u)}
    OBVIOUS
  <2>2. t \in S /\ IsFiniteSet(S)
    <3>1. S \subseteq Callers
      BY <2>1
    <3> QED BY <1>5, <2>1, <3>1, FS_Subset, CoordinatorAssumption
  <2>3. Cardinality(S) \in Nat /\ Cardinality(S) # 0
    BY <2>2, FS_CardinalityType, FS_EmptySet
  <2>4. st.meta = Cardinality(S) + Pending(queue, ReleaseMeta)
    BY <2>1 DEF PermitsAccounted, Pending, Positions
  <2> QED BY <1>2, <1>3, <2>3, <2>4
<1> QED BY <1>4, <1>5

\* The idle tick finds all counters at zero, so no request holds a permit of any
\* generation when it starts a pause.
THEOREM IdlePausesAreUnheld == Spec => IdlePauseIsUnheld
<1>1. ASSUME TypeOK, PermitsAccounted, [Next]_vars, job'[Worker].kind = "due", job[Worker].kind = "none",
             NEW t \in Callers
      PROVE  ~HoldsPermit(t) /\ ~HoldsMeta(t)
  <2>0. Worker \in Tasks /\ Worker \notin Callers /\ st \in StateType /\ queue \in Seq(CommandType)
    BY <1>1, CoordinatorAssumption DEF Tasks, TypeOK
  <2>1. TickPauses
    <3>1. ASSUME NEW u \in Tasks, u # Worker, OthersRest(u) PROVE FALSE
      BY <1>1, <2>0, <3>1 DEF OthersRest, Rests
    <3>2. ASSUME NEW u \in Callers, Request(u) \/ Progress(u) \/ Failure(u) \/ CloseReader(u) PROVE FALSE
      BY <1>1, <2>0, <3>1, <3>2, CallerRests DEF Tasks
    <3>3. ASSUME NEW u \in Tasks, Pausing(u) \/ PauseFails(u) PROVE FALSE
      <4>1. u = Worker
        BY <1>1, <3>1, <3>3, PausingRests
      <4>2. job' = job \/ job'[Worker] = NoJob
        BY <1>1, <2>0, <3>3, <4>1, Moves DEF Pausing, PauseEnter, PauseStale, PauseNative, PauseConfirmed,
           PauseSubmitsZeros, PauseAcknowledged, PauseFails, PauseReturns
      <4> QED BY <1>1, <4>2 DEF NoJob
    <3>4. ASSUME HandleVerified PROVE FALSE
      <4>1. PICK j : j = [NoJob EXCEPT !.kind = "verified", !.gen = st.gen]
        OBVIOUS
      <4>2. job' = job \/ job'[Worker] = j
        BY <1>1, <2>0, <3>4, <4>1, Moves DEF HandleVerified
      <4> QED BY <1>1, <4>1, <4>2 DEF NoJob
    <3>5. ~UNCHANGED job
      BY <1>1
    <3> QED
      BY <1>1, <3>2, <3>3, <3>4, <3>5 DEF Next, vars, Serve, HandleRelease, HandleReleaseMetadata,
         HandleSeedingOn, HandleSeedingOff, TickExpiresHls, Environment, MetadataArrives, HlsLapses,
         DeadlinePasses, SetSeeding, FileCompletes
  <2> QED BY <2>1, TickFindsNoPermit, <1>1
<1>2. TypeOK /\ PermitsAccounted /\ [Next]_vars =>
        [job'[Worker].kind = "due" /\ job[Worker].kind = "none"
           => \A t \in Callers : ~HoldsPermit(t) /\ ~HoldsMeta(t)]_vars
  BY <1>1
<1> QED BY <1>2, TypeCorrect, PermitsAreAccounted, PTL DEF Spec, IdlePauseIsUnheld
=============================================================================
