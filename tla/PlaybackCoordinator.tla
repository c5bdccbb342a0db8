------------------------ MODULE PlaybackCoordinator ------------------------
(***************************************************************************)
(* LibtorrentPlaybackCoordinator for one torrent: HTTP readers, HLS        *)
(* refreshes and HLS destroys run concurrently as callers, a single worker *)
(* serves the command channel and the one-second idle tick, and all of     *)
(* them share the entry's `state` mutex (one step here), its `operation`   *)
(* mutex (the variable lock, held across native calls that wait for        *)
(* alerts) and the native libtorrent handle.                               *)
(*                                                                         *)
(* A step of this module ends where the code awaits something another      *)
(* actor can influence; what the code read before is kept in job.          *)
(***************************************************************************)
EXTENDS PlaybackState, Sequences, FiniteSets

CONSTANTS
  Callers,     \* concurrent request futures
  Worker,      \* the command worker
  NoTask,      \* nobody holds the operation mutex
  Kinds,       \* the requests the environment makes, a subset of AllKinds
  Finishable,  \* files whose last piece may arrive
  MaxToggles,  \* bound on changes of the seeding setting
  MaxRequests, \* bound on the requests made
  MayAbandon   \* whether request futures may be dropped while they wait

AllKinds == {"direct", "download", "background", "hls", "endhls"}
Readers  == {"direct", "download", "background"}
Tasks    == Callers \cup {Worker}

ASSUME CoordinatorAssumption ==
  /\ Worker \notin Callers
  /\ NoTask \notin Tasks
  /\ Kinds \subseteq AllKinds
  /\ Finishable \subseteq Files
  /\ MaxToggles \in Nat
  /\ MaxRequests \in Nat
  /\ MayAbandon \in BOOLEAN
  /\ IsFiniteSet(Callers)

VARIABLES
  st,       \* the TorrentPlaybackState
  native,   \* the libtorrent handle: paused, file priorities, metadata, files present
  layout,   \* the OnceCell with the torrent's layout
  lock,     \* holder of the operation mutex
  queue,    \* the command channel
  seeding,  \* the seeding_enabled flag
  toggles,  \* how often it was changed
  requests, \* how many requests were made
  pc,       \* where each task waits
  job       \* what each task read before it waited

vars == <<st, native, layout, lock, queue, seeding, toggles, requests, pc, job>>

-----------------------------------------------------------------------------
(* Tasks and commands.                                                     *)

\* Steps of a reader that has selected its file and so holds a permit.
PausePC  == {"pauseEnter", "pauseLock", "pauseConfirm", "pauseAck"}
PermitPC == PausePC \cup {"selected", "actAck", "actResume", "playing"}
PCs == PermitPC \cup {"idle", "layout", "metaLock", "metaWait", "metaAck",
                      "checked", "endPending", "endPaused"}

NoJob == [kind |-> "none", file |-> NoFile, prio |-> 0, gen |-> 0,
          sub |-> FALSE, complete |-> FALSE]
JobType == [kind : AllKinds \cup {"none", "due", "verified"},
            file : Files \cup {NoFile}, prio : Priority, gen : Gens,
            sub : BOOLEAN, complete : BOOLEAN]

Release(g, fg) == [type |-> "release", gen |-> g, on |-> fg, file |-> NoFile]
ReleaseMeta    == [type |-> "releaseMeta", gen |-> 0, on |-> FALSE, file |-> NoFile]
SeedingSet(b)  == [type |-> "seeding", gen |-> 0, on |-> b, file |-> NoFile]
Verified(f)    == [type |-> "verified", gen |-> 0, on |-> FALSE, file |-> f]
CommandType    == [type : {"release", "releaseMeta", "seeding", "verified"},
                   gen : Gens, on : BOOLEAN, file : Files \cup {NoFile}]

Foreground(kind) == kind # "background"

\* requested_native_priority, from completeness and the intent.
RequestedPriority(kind, complete) ==
  IF complete THEN 0 ELSE IF kind = "download" THEN 7 ELSE 1

\* A completed file may still be cached as incomplete until the worker has
\* served the verification that drops the cached answer.
VerificationQueued(f) == \E i \in DOMAIN queue : queue[i] = Verified(f)
LooksComplete(f) ==
  IF f \in native.have
  THEN IF VerificationQueued(f) THEN BOOLEAN ELSE {TRUE}
  ELSE {FALSE}

Current(g, f) == st.gen = g /\ st.sel = f

HoldsPermit(t) == t \in Callers /\ job[t].kind \in Readers /\ pc[t] \in PermitPC
HoldsMeta(t)   == pc[t] \in {"metaWait", "metaAck"}

NativeSeeding == native.have = Files

TypeOK ==
  /\ st \in StateType
  /\ native \in [paused : BOOLEAN, prio : Vector, meta : BOOLEAN, have : SUBSET Files]
  /\ layout \in {"unset", "loading", "ready"}
  /\ lock \in Tasks \cup {NoTask}
  /\ queue \in Seq(CommandType)
  /\ seeding \in BOOLEAN
  /\ toggles \in 0..MaxToggles
  /\ requests \in 0..MaxRequests
  /\ pc \in [Tasks -> PCs]
  /\ job \in [Tasks -> JobType]

Init ==
  /\ st = NewState
  /\ \E m \in BOOLEAN :   \* a .torrent file, or a magnet without metadata
       native = [paused |-> TRUE, prio |-> [f \in Files |-> 4], meta |-> m, have |-> {}]
  /\ layout = "unset"
  /\ lock = NoTask
  /\ queue = <<>>
  /\ seeding = TRUE
  /\ toggles = 0
  /\ requests = 0
  /\ pc = [t \in Tasks |-> "idle"]
  /\ job = [t \in Tasks |-> NoJob]

-----------------------------------------------------------------------------
(* How a task moves on.                                                    *)

Goto(t, l)   == pc' = [pc EXCEPT ![t] = l]
Become(t, j) == job' = [job EXCEPT ![t] = j]
Send(c)      == queue' = Append(queue, c)
Acquire(t)   == lock = NoTask /\ lock' = t
ReleaseLock(t) == lock' = IF lock = t THEN NoTask ELSE lock

\* Fault: only a reader that was answered returns its permit.
CallerFailsLeaking(t) ==
  /\ Goto(t, "idle")
  /\ Become(t, NoJob)
  /\ ReleaseLock(t)
  /\ queue' = IF pc[t] = "playing" THEN Append(queue, Release(job[t].gen, Foreground(job[t].kind)))
              ELSE queue

\* The request fails, or is dropped: dropping a permit sends ReleasePlayback,
\* dropping a metadata permit sends ReleaseMetadata.
CallerFails(t) ==
  /\ Goto(t, "idle")
  /\ Become(t, NoJob)
  /\ ReleaseLock(t)
  /\ queue' = IF HoldsPermit(t) THEN Append(queue, Release(job[t].gen, Foreground(job[t].kind)))
              ELSE IF HoldsMeta(t) THEN Append(queue, ReleaseMeta)
              ELSE queue

\* The request is answered: a reader keeps its permit, the others are done.
CallerSucceeds(t) ==
  IF job[t].kind \in Readers
  THEN Goto(t, "playing") /\ UNCHANGED job
  ELSE Goto(t, "idle") /\ Become(t, NoJob)

-----------------------------------------------------------------------------
(* Requests.                                                               *)

CountRequest == requests < MaxRequests /\ requests' = requests + 1

\* start_playback or refresh_hls is called; both first need the layout.
Begin(t, kind, f) ==
  /\ pc[t] = "idle"
  /\ kind \in Kinds \ {"endhls"}
  /\ CountRequest
  /\ Goto(t, "layout")
  /\ Become(t, [NoJob EXCEPT !.kind = kind, !.file = f])
  /\ UNCHANGED <<st, native, layout, lock, queue, seeding, toggles>>

\* Fault: a second caller starts loading beside the first.
LoadLayoutTwice(t) ==
  /\ pc[t] = "layout"
  /\ layout # "ready"
  /\ layout' = "loading"
  /\ Goto(t, "metaLock")
  /\ UNCHANGED <<st, native, lock, queue, seeding, toggles, requests, job>>

\* get_or_try_init: the first caller loads the layout, the others wait for it.
LoadLayout(t) ==
  /\ pc[t] = "layout"
  /\ layout = "unset"
  /\ layout' = "loading"
  /\ Goto(t, "metaLock")
  /\ UNCHANGED <<st, native, lock, queue, seeding, toggles, requests, job>>

\* acquire_metadata: under the operation lock, but without a new generation.
AcquireMetadata(t) ==
  /\ pc[t] = "metaLock"
  /\ lock = NoTask
  /\ st' = [st EXCEPT !.meta = st.meta + 1, !.deadline = "none",
                      !.phase = IF native.meta THEN st.phase ELSE "Active"]
  /\ native' = [native EXCEPT !.paused = native.paused /\ native.meta]
  /\ Goto(t, "metaWait")
  /\ UNCHANGED <<layout, lock, queue, seeding, toggles, requests, job>>

\* The layout is known: switch every file off.  A seed ignores the request.
SubmitIdlePriorities(t) ==
  /\ pc[t] = "metaWait"
  /\ native.meta
  /\ \/ native' = [native EXCEPT !.prio = IF NativeSeeding THEN native.prio ELSE Zeros]
     \/ UNCHANGED native
  /\ Goto(t, "metaAck")
  /\ UNCHANGED <<st, layout, lock, queue, seeding, toggles, requests, job>>

MetadataLoaded(t) ==
  /\ pc[t] = "metaAck"
  /\ native.prio = Zeros \/ NativeSeeding
  /\ st' = [st EXCEPT !.ack = Zeros]
  /\ layout' = "ready"
  /\ Send(ReleaseMeta)
  /\ Goto(t, "layout")
  /\ UNCHANGED <<native, lock, seeding, toggles, requests, job>>

\* METADATA_TIMEOUT, a file error, or priorities that never matched.
MetadataFails(t) ==
  /\ pc[t] \in {"metaWait", "metaAck"}
  /\ layout' = "unset"
  /\ CallerFails(t)
  /\ UNCHANGED <<st, native, seeding, toggles, requests>>

\* file_is_complete_with_layout: read before the state lock is taken.
CheckComplete(t) ==
  /\ pc[t] = "layout"
  /\ layout = "ready"
  /\ \E c \in LooksComplete(job[t].file) :
       Become(t, [job[t] EXCEPT !.complete = c])
  /\ Goto(t, "checked")
  /\ UNCHANGED <<st, native, layout, lock, queue, seeding, toggles, requests>>

\* Fault: a background request for another file is let through.
RejectsNobody(t) == job[t].kind = "background" /\ ForegroundActive(st) /\ st.sel = NoFile

\* While a foreground reader is active, a background one may only join it.
Rejects(t) == job[t].kind = "background" /\ ForegroundActive(st) /\ st.sel # job[t].file

BackgroundRejected(t) ==
  /\ pc[t] = "checked"
  /\ Rejects(t)
  /\ CallerFails(t)
  /\ UNCHANGED <<st, native, layout, seeding, toggles, requests>>

\* The selection half of start_playback.
SelectForReader(t) ==
  LET j  == job[t]
      fg == Foreground(j.kind)
      p  == IF ~fg /\ ForegroundActive(st) THEN st.prio
            ELSE RequestedPriority(j.kind, j.complete)
      g  == GenFor(st, j.file, p)
  IN  /\ pc[t] = "checked"
      /\ j.kind \in Readers
      /\ ~Rejects(t)
      /\ g \in Gens
      /\ st' = Select(st, j.file, p, TRUE, FALSE, ~j.complete \/ seeding, fg)
      /\ Become(t, [j EXCEPT !.prio = p, !.gen = g,
                             !.sub = Subordinate(st, j.file, TRUE, fg)])
      /\ Goto(t, "selected")
      /\ UNCHANGED <<native, layout, lock, queue, seeding, toggles, requests>>

\* The selection half of refresh_hls: an unchanged selection is only refreshed.
SelectForHls(t) ==
  LET j == job[t]
      p == RequestedPriority("hls", j.complete)
      g == GenFor(st, j.file, p)
  IN  /\ pc[t] = "checked"
      /\ j.kind = "hls"
      /\ g \in Gens
      /\ st' = Select(st, j.file, p, FALSE, TRUE, ~j.complete \/ seeding, FALSE)
      /\ IF Changes(st, j.file, p)
         THEN Goto(t, "selected") /\ Become(t, [j EXCEPT !.prio = p, !.gen = g])
         ELSE Goto(t, "idle") /\ Become(t, NoJob)
      /\ UNCHANGED <<native, layout, lock, queue, seeding, toggles, requests>>

-----------------------------------------------------------------------------
(* activate_selection.                                                     *)

ActivationStale(t) ==
  /\ pc[t] = "selected"
  /\ lock = NoTask
  /\ ~Current(job[t].gen, job[t].file)
  /\ CallerFails(t)
  /\ UNCHANGED <<st, native, layout, seeding, toggles, requests>>

\* A background reader that joins a foreground one leaves the native handle
\* alone, and so does the fast path for a complete file that is paused.
JoinWithoutActivation(t) ==
  LET j == job[t] IN
  /\ pc[t] = "selected"
  /\ lock = NoTask
  /\ Current(j.gen, j.file)
  /\ \/ j.sub
     \/ /\ j.complete /\ ~seeding
        /\ st.phase = "PausedIdle"
        /\ st.ack = DesiredPriorities(j.file, j.prio)
  /\ CallerSucceeds(t)
  /\ UNCHANGED <<st, native, layout, lock, queue, seeding, toggles, requests>>

\* The priorities that are not acknowledged yet are submitted; when they are,
\* the call goes straight on.
Activate(t) ==
  LET j       == job[t]
      desired == DesiredPriorities(j.file, j.prio)
  IN  /\ pc[t] = "selected"
      /\ Current(j.gen, j.file)
      /\ ~j.sub
      /\ ~(j.complete /\ ~seeding /\ st.phase = "PausedIdle" /\ st.ack = desired)
      /\ IF st.ack # desired
         THEN /\ Acquire(t)
              /\ \/ native' = [native EXCEPT !.prio = IF NativeSeeding THEN native.prio ELSE desired]
                 \/ UNCHANGED native
              /\ Goto(t, "actAck")
         ELSE /\ UNCHANGED native
              /\ IF j.complete
                 THEN lock = NoTask /\ UNCHANGED lock /\ Goto(t, "pauseEnter")
                 ELSE Acquire(t) /\ Goto(t, "actResume")
      /\ UNCHANGED <<st, layout, queue, seeding, toggles, requests, job>>

\* The acknowledgement of a superseded request is not recorded.
ActivationAcknowledged(t) ==
  LET j       == job[t]
      desired == DesiredPriorities(j.file, j.prio)
  IN  /\ pc[t] = "actAck"
      /\ native.prio = desired \/ NativeSeeding
      /\ \/ /\ st.gen # j.gen
            /\ CallerFails(t)
            /\ UNCHANGED st
         \/ /\ st.gen = j.gen
            /\ st' = [st EXCEPT !.ack = desired]
            /\ IF j.complete THEN Goto(t, "pauseEnter") /\ lock' = NoTask
                             ELSE Goto(t, "actResume") /\ UNCHANGED lock
            /\ UNCHANGED <<queue, job>>
      /\ UNCHANGED <<native, layout, seeding, toggles, requests>>

\* A file error or FILE_PRIORITY_ACK_TIMEOUT, or an error in the hot window.
ActivationFails(t) ==
  /\ pc[t] \in {"actAck", "actResume"}
  /\ CallerFails(t)
  /\ UNCHANGED <<st, native, layout, seeding, toggles, requests>>

\* The hot window is applied; then the native torrent is resumed, unless the
\* selection has moved on.
ActivationResumes(t) ==
  /\ pc[t] = "actResume"
  /\ IF Current(job[t].gen, job[t].file)
     THEN /\ native' = [native EXCEPT !.paused = FALSE]
          /\ CallerSucceeds(t)
          /\ ReleaseLock(t)
          /\ UNCHANGED queue
     ELSE CallerFails(t) /\ UNCHANGED native
  /\ UNCHANGED <<st, layout, seeding, toggles, requests>>

\* A player closes its reader: the permit is dropped.
CloseReader(t) ==
  /\ pc[t] = "playing"
  /\ CallerFails(t)
  /\ UNCHANGED <<st, native, layout, seeding, toggles, requests>>

-----------------------------------------------------------------------------
(* end_hls and perform_pause.                                              *)

EndHls(t, f) ==
  /\ pc[t] = "idle"
  /\ "endhls" \in Kinds
  /\ CountRequest
  /\ st.sel = f \/ st.hls # "none"
  /\ st.gen < MaxGen
  /\ st' = BeginPause(st)
  /\ Become(t, [NoJob EXCEPT !.kind = "endhls", !.file = f, !.gen = st.gen + 1])
  /\ Goto(t, IF st.phase = "PausedIdle" THEN "endPaused" ELSE "endPending")
  /\ UNCHANGED <<native, layout, lock, queue, seeding, toggles>>

\* Seeding keeps the torrent active; a torrent that was paused is marked so.
EndHlsWithoutPause(t) ==
  /\ pc[t] \in {"endPending", "endPaused"}
  /\ \/ seeding /\ st' = KeepActiveForSeeding(st, job[t].gen)
     \/ ~seeding /\ pc[t] = "endPaused" /\ st' = [st EXCEPT !.phase = "PausedIdle"]
  /\ Goto(t, "idle")
  /\ Become(t, NoJob)
  /\ UNCHANGED <<native, layout, lock, queue, seeding, toggles, requests>>

EndHlsPauses(t) ==
  /\ pc[t] = "endPending"
  /\ ~seeding
  /\ Goto(t, "pauseLock")
  /\ UNCHANGED <<st, native, layout, lock, queue, seeding, toggles, requests, job>>

\* What the caller of perform_pause does with Ok.
PauseReturns(t) ==
  IF t = Worker THEN Goto(t, "idle") /\ Become(t, NoJob) ELSE CallerSucceeds(t)

PauseEnter(t) ==
  /\ pc[t] = "pauseEnter"
  /\ IF seeding
     THEN st' = KeepActiveForSeeding(st, job[t].gen) /\ PauseReturns(t)
     ELSE Goto(t, "pauseLock") /\ UNCHANGED <<st, job>>
  /\ UNCHANGED <<native, layout, lock, queue, seeding, toggles, requests>>

PauseStale(t) ==
  /\ pc[t] = "pauseLock"
  /\ lock = NoTask
  /\ st.gen # job[t].gen
  /\ PauseReturns(t)
  /\ UNCHANGED <<st, native, layout, lock, queue, seeding, toggles, requests>>

\* Fault: the generation is not checked again under the operation mutex.
PauseNativeUnchecked(t) ==
  /\ pc[t] = "pauseLock"
  /\ Acquire(t)
  /\ native' = [native EXCEPT !.paused = TRUE]
  /\ Goto(t, "pauseConfirm")
  /\ UNCHANGED <<st, layout, queue, seeding, toggles, requests, job>>

PauseNative(t) ==
  /\ pc[t] = "pauseLock"
  /\ Acquire(t)
  /\ st.gen = job[t].gen
  /\ native' = [native EXCEPT !.paused = TRUE]
  /\ Goto(t, "pauseConfirm")
  /\ UNCHANGED <<st, layout, queue, seeding, toggles, requests, job>>

\* end_hls and the idle tick clear the selection, a completed file keeps it.
ClearsSelection(t) == job[t].kind \in {"endhls", "due"}

\* Fault: a pause that was superseded while it waited is finalized all the same.
FinalizedPauseUnchecked(t) ==
  [st EXCEPT !.phase = "PausedIdle",
             !.ack   = IF layout = "ready" THEN Zeros ELSE NoVector,
             !.sel   = IF ClearsSelection(t) THEN NoFile ELSE st.sel,
             !.prio  = IF ClearsSelection(t) THEN 0 ELSE st.prio]

FinalizedPause(t) ==
  IF st.gen # job[t].gen THEN st
  ELSE [st EXCEPT !.phase = "PausedIdle",
                  !.ack   = IF layout = "ready" THEN Zeros ELSE NoVector,
                  !.sel   = IF ClearsSelection(t) THEN NoFile ELSE st.sel,
                  !.prio  = IF ClearsSelection(t) THEN 0 ELSE st.prio]

NeedsZeros == layout = "ready" /\ st.ack # Zeros

\* Fault: an early return keeps the operation mutex.
PauseConfirmedLocked(t) ==
  /\ pc[t] = "pauseConfirm"
  /\ native.paused
  /\ ~NeedsZeros \/ st.gen # job[t].gen
  /\ st' = FinalizedPause(t)
  /\ PauseReturns(t)
  /\ UNCHANGED <<native, layout, lock, queue, seeding, toggles, requests>>

\* The swarm went silent; a superseded pause stops here.
PauseConfirmed(t) ==
  /\ pc[t] = "pauseConfirm"
  /\ native.paused
  /\ ~NeedsZeros \/ st.gen # job[t].gen
  /\ st' = FinalizedPause(t)
  /\ ReleaseLock(t)
  /\ PauseReturns(t)
  /\ UNCHANGED <<native, layout, queue, seeding, toggles, requests>>

PauseSubmitsZeros(t) ==
  /\ pc[t] = "pauseConfirm"
  /\ native.paused
  /\ NeedsZeros
  /\ st.gen = job[t].gen
  /\ \/ native' = [native EXCEPT !.prio = IF NativeSeeding THEN native.prio ELSE Zeros]
     \/ UNCHANGED native
  /\ Goto(t, "pauseAck")
  /\ UNCHANGED <<st, layout, lock, queue, seeding, toggles, requests, job>>

PauseAcknowledged(t) ==
  /\ pc[t] = "pauseAck"
  /\ native.prio = Zeros \/ NativeSeeding
  /\ st' = FinalizedPause(t)
  /\ ReleaseLock(t)
  /\ PauseReturns(t)
  /\ UNCHANGED <<native, layout, queue, seeding, toggles, requests>>

\* Fault: the idle tick does not arm a retry of a pause that failed.
PauseFailsForGood(t) ==
  /\ pc[t] \in {"pauseConfirm", "pauseAck"}
  /\ IF t = Worker
     THEN /\ Goto(t, "idle") /\ Become(t, NoJob) /\ ReleaseLock(t)
          /\ UNCHANGED queue
     ELSE CallerFails(t)
  /\ UNCHANGED <<st, native, layout, seeding, toggles, requests>>

\* PAUSE_CONFIRM_TIMEOUT, a file error or an unacknowledged priority vector.
\* Only the worker repairs the phase: the idle tick arms a retry.
PauseFails(t) ==
  /\ pc[t] \in {"pauseConfirm", "pauseAck"}
  /\ IF t = Worker
     THEN /\ st' = IF st.gen # job[t].gen THEN st
                   ELSE IF job[t].kind = "due"
                   THEN [st EXCEPT !.phase = "PausePending", !.deadline = "armed"]
                   ELSE [st EXCEPT !.phase = "Active"]
          /\ Goto(t, "idle") /\ Become(t, NoJob) /\ ReleaseLock(t)
          /\ UNCHANGED queue
     ELSE CallerFails(t) /\ UNCHANGED st
  /\ UNCHANGED <<native, layout, seeding, toggles, requests>>

\* The HTTP connection closes and the request's future is dropped while it
\* waits for a lock, an alert or the layout.
WaitingPC == {"layout", "metaLock", "metaWait", "metaAck", "selected", "actAck",
              "actResume", "pauseLock", "pauseConfirm", "pauseAck"}

Abandon(t) ==
  /\ MayAbandon
  /\ pc[t] \in WaitingPC
  /\ layout' = IF pc[t] \in {"metaLock", "metaWait", "metaAck"} THEN "unset" ELSE layout
  /\ CallerFails(t)
  /\ UNCHANGED <<st, native, seeding, toggles, requests>>

-----------------------------------------------------------------------------
(* The worker: handle_command and pause_due_torrents.                      *)

Receive(type) == pc[Worker] = "idle" /\ queue # <<>> /\ Head(queue).type = type
                 /\ queue' = Tail(queue)

HandleRelease ==
  /\ Receive("release")
  /\ lock = NoTask
  /\ st' = ReleasePermit(st, Head(queue).gen, Head(queue).on)
  /\ UNCHANGED <<native, layout, lock, seeding, toggles, requests, pc, job>>

HandleReleaseMetadata ==
  /\ Receive("releaseMeta")
  /\ st' = ReleaseMetadata(st)
  /\ UNCHANGED <<native, layout, lock, seeding, toggles, requests, pc, job>>

\* resume_idle_torrents_for_seeding
HandleSeedingOn ==
  /\ Receive("seeding") /\ Head(queue).on
  /\ lock = NoTask
  /\ st' = [st EXCEPT !.deadline = "none", !.phase = "Active"]
  /\ native' = IF st.phase = "Active" THEN native ELSE [native EXCEPT !.paused = FALSE]
  /\ UNCHANGED <<layout, lock, seeding, toggles, requests, pc, job>>

HandleSeedingOff ==
  /\ Receive("seeding") /\ ~Head(queue).on
  /\ st' = ScheduleIdle(st)
  /\ UNCHANGED <<native, layout, lock, seeding, toggles, requests, pc, job>>

\* PieceVerified: when the selected file is complete its torrent is silenced.
HandleVerified ==
  /\ Receive("verified")
  /\ \E c \in IF st.sel = NoFile THEN {FALSE}
              ELSE IF st.sel = Head(queue).file THEN {st.sel \in native.have}
              ELSE LooksComplete(st.sel) :
       IF ~seeding /\ layout = "ready" /\ st.phase = "Active" /\ c
       THEN /\ st' = [st EXCEPT !.phase = "PausePending"]
            /\ Goto(Worker, "pauseEnter")
            /\ Become(Worker, [NoJob EXCEPT !.kind = "verified", !.gen = st.gen])
       ELSE UNCHANGED <<st, pc, job>>
  /\ UNCHANGED <<native, layout, lock, seeding, toggles, requests>>

\* The tick first expires an HLS activity that is older than its TTL.
Expired(s) == IF s.hls = "stale" THEN [s EXCEPT !.hls = "none", !.deadline = "due"] ELSE s
\* Fault: the deadline alone decides.
PauseDueByClock(s) == s.deadline = "due" /\ s.phase # "PausedIdle"

PauseDue(s) == ~HasActivity(s) /\ s.deadline = "due" /\ s.phase # "PausedIdle"

TickExpiresHls ==
  /\ pc[Worker] = "idle"
  /\ ~seeding
  /\ st.hls = "stale"
  /\ ~PauseDue(Expired(st))
  /\ st' = Expired(st)
  /\ UNCHANGED <<native, layout, lock, queue, seeding, toggles, requests, pc, job>>

\* A pause that failed before is retried under its own generation.
TickPauses ==
  LET s    == Expired(st)
      next == IF s.phase = "PausePending" THEN [s EXCEPT !.deadline = "none"]
              ELSE BeginPause(s)
  IN  /\ pc[Worker] = "idle"
      /\ ~seeding
      /\ PauseDue(s)
      /\ next.gen \in Gens
      /\ st' = next
      /\ Goto(Worker, "pauseEnter")
      /\ Become(Worker, [NoJob EXCEPT !.kind = "due", !.gen = next.gen])
      /\ UNCHANGED <<native, layout, lock, queue, seeding, toggles, requests>>

-----------------------------------------------------------------------------
(* The environment: libtorrent, time and the user.                         *)

MetadataArrives ==
  /\ ~native.meta
  /\ ~native.paused
  /\ native' = [native EXCEPT !.meta = TRUE]
  /\ UNCHANGED <<st, layout, lock, queue, seeding, toggles, requests, pc, job>>

\* The last piece of a file is verified and its alert reaches the worker's queue.
FileCompletes(f) ==
  /\ native.meta
  /\ f \in Finishable \ native.have
  /\ native' = [native EXCEPT !.have = native.have \cup {f}]
  /\ Send(Verified(f))
  /\ UNCHANGED <<st, layout, lock, seeding, toggles, requests, pc, job>>

HlsLapses ==
  /\ st.hls = "fresh"
  /\ st' = [st EXCEPT !.hls = "stale"]
  /\ UNCHANGED <<native, layout, lock, queue, seeding, toggles, requests, pc, job>>

DeadlinePasses ==
  /\ st.deadline = "armed"
  /\ st' = [st EXCEPT !.deadline = "due"]
  /\ UNCHANGED <<native, layout, lock, queue, seeding, toggles, requests, pc, job>>

\* set_seeding_enabled: the flag changes at once, the command is queued.
SetSeeding ==
  /\ toggles < MaxToggles
  /\ toggles' = toggles + 1
  /\ seeding' = ~seeding
  /\ Send(SeedingSet(~seeding))
  /\ UNCHANGED <<st, native, layout, lock, requests, pc, job>>

-----------------------------------------------------------------------------
Request(t) == \E f \in Files : EndHls(t, f) \/ \E k \in Kinds : Begin(t, k, f)

Progress(t) ==
  \/ LoadLayout(t) \/ AcquireMetadata(t) \/ SubmitIdlePriorities(t)
  \/ MetadataLoaded(t) \/ CheckComplete(t) \/ BackgroundRejected(t)
  \/ SelectForReader(t) \/ SelectForHls(t)
  \/ ActivationStale(t) \/ JoinWithoutActivation(t) \/ Activate(t)
  \/ ActivationAcknowledged(t) \/ ActivationResumes(t)
  \/ EndHlsWithoutPause(t) \/ EndHlsPauses(t)

Failure(t) == MetadataFails(t) \/ ActivationFails(t) \/ Abandon(t)

Pausing(t) ==
  \/ PauseEnter(t) \/ PauseStale(t) \/ PauseNative(t) \/ PauseConfirmed(t)
  \/ PauseSubmitsZeros(t) \/ PauseAcknowledged(t)

Serve ==
  \/ HandleRelease \/ HandleReleaseMetadata \/ HandleSeedingOn
  \/ HandleSeedingOff \/ HandleVerified \/ TickExpiresHls \/ TickPauses

Environment ==
  \/ MetadataArrives \/ HlsLapses \/ DeadlinePasses \/ SetSeeding
  \/ \E f \in Files : FileCompletes(f)

Next ==
  \/ \E t \in Callers : Request(t) \/ Progress(t) \/ Failure(t) \/ CloseReader(t)
  \/ \E t \in Tasks : Pausing(t) \/ PauseFails(t)
  \/ Serve
  \/ Environment

Spec == Init /\ [][Next]_vars

-----------------------------------------------------------------------------
(* Safety.                                                                 *)

Releases(g, fg) == {i \in DOMAIN queue : queue[i] = Release(g, fg)}
Holders(g)      == {t \in Callers : HoldsPermit(t) /\ job[t].gen = g}

\* No permit is lost or returned twice, however requests fail, are dropped or
\* are superseded: start_playback's increments and ReleasePlayback's saturating
\* decrements of direct_permits, foreground_permits and metadata_permits always
\* add up to the readers alive plus the releases still in the channel.
PermitsAccounted ==
  /\ \A g \in Gens :
       /\ st.direct[g] = Cardinality(Holders(g))
            + Cardinality(Releases(g, TRUE)) + Cardinality(Releases(g, FALSE))
       /\ st.foreground[g] = Cardinality({t \in Holders(g) : Foreground(job[t].kind)})
            + Cardinality(Releases(g, TRUE))
  /\ st.meta = Cardinality({t \in Callers : HoldsMeta(t)})
              + Cardinality({i \in DOMAIN queue : queue[i] = ReleaseMeta})

\* A reader whose cancellation token is not cancelled and whose file is still
\* being downloaded reads the selected file at the selected priority: nothing
\* changes the selection under its generation, pause finalization included.
OwnsSelection(t) == Current(job[t].gen, job[t].file) /\ st.prio = job[t].prio

DownloadOwnsSelection ==
  \A t \in Callers :
    HoldsPermit(t) /\ job[t].gen = st.gen /\ job[t].prio # 0 => OwnsSelection(t)

\* A reader that was answered, that is not cancelled and whose file is still
\* incomplete reads from a torrent that is not paused: a pause that lost the
\* race for the operation mutex never silences it (perform_pause re-checks the
\* generation under that mutex).  Readers that joined another are its guests.
IsConnected(t) ==
  /\ pc[t] = "playing" /\ job[t].gen = st.gen /\ ~job[t].sub
  /\ job[t].file \notin native.have
  => ~native.paused

PlayingIsConnected == \A t \in Callers : IsConnected(t)

\* At most one task has a bulk priority update in flight, although the metadata
\* loader submits one without the operation mutex: the acknowledgement a task
\* waits for can only be its own.
SinglePriorityWriter ==
  Cardinality({t \in Tasks : pc[t] \in {"metaAck", "actAck", "pauseAck"}}) <= 1

\* The idle tick starts a pause only when nobody reads and nobody is loading
\* metadata: the counters it looks at are never behind the permits themselves.
IdlePauseIsUnheld ==
  [][job'[Worker].kind = "due" /\ job[Worker].kind = "none"
       => \A t \in Callers : ~HoldsPermit(t) /\ ~HoldsMeta(t)]_vars

\* A background probe joins or is rejected while a foreground reader is active,
\* it never cancels it nor changes what it plays.
BackgroundNeverCancels ==
  [][\A t \in Callers :
       /\ job[t].kind = "background" /\ pc[t] = "checked" /\ pc'[t] = "selected"
       /\ ForegroundActive(st)
       => st'.gen = st.gen /\ st'.sel = st.sel /\ st'.prio = st.prio]_vars

\* A bulk priority update that was acknowledged is what libtorrent has (a seed
\* ignores such updates), so the file of an answered reader is downloaded.
PlayingIsPrioritised ==
  \A t \in Callers :
    /\ pc[t] = "playing" /\ job[t].gen = st.gen /\ ~job[t].sub
    /\ job[t].file \notin native.have
    => native.prio[job[t].file] = job[t].prio

-----------------------------------------------------------------------------
(* The inductive invariant behind DownloadOwnsSelection and                  *)
(* PlayingIsConnected, task by task.                                         *)

\* A pause that would clear the selection runs under its own generation, in
\* which nothing is selected for download.
ClearsNothing(t) == ClearsSelection(t) /\ job[t].gen = st.gen => st.prio = 0

\* A request that selected a file at priority 0 knew that it was complete.
SelectionKept(t) ==
  job[t].kind \in Readers \cup {"hls"} /\ pc[t] \in PermitPC =>
    /\ job[t].gen = st.gen => job[t].prio = st.prio /\ (st.prio # 0 => st.sel = job[t].file)
    /\ ~job[t].sub => (job[t].prio = 0 <=> job[t].complete)
    /\ pc[t] \in PausePC \cup {"actAck", "actResume"} => ~job[t].sub
    /\ pc[t] \in PausePC => job[t].complete

CallerOwnership(t) ==
  /\ job[t].kind \in AllKinds \cup {"none"}
  /\ pc[t] # "idle" => job[t].kind # "none" /\ job[t].file \in Files
  /\ pc[t] = "playing" => job[t].kind \in Readers
  /\ pc[t] \in {"endPending", "endPaused"} => job[t].kind = "endhls"
  /\ job[t].complete => job[t].file \in native.have
  /\ SelectionKept(t)
  /\ IsConnected(t)

WorkerOwnership ==
  /\ pc[Worker] \in PausePC \cup {"idle"}
  /\ job[Worker].kind \in {"none", "due", "verified"}
  /\ pc[Worker] # "idle" => job[Worker].kind # "none"
  /\ job[Worker].kind = "verified" /\ job[Worker].gen = st.gen /\ st.prio # 0
     => st.sel \in native.have

TaskOwnership(t) ==
  /\ job[t].gen <= st.gen
  /\ ClearsNothing(t)
  /\ IF t = Worker THEN WorkerOwnership ELSE CallerOwnership(t)

\* While a file is selected for download, only the worker that found it
\* complete holds the torrent in PausePending, so the tick has no stale pause
\* to retry under that generation.
PendingIsWorkers ==
  st.phase = "PausePending" /\ st.prio # 0 =>
    pc[Worker] \in PausePC /\ job[Worker].kind = "verified" /\ job[Worker].gen = st.gen

\* Together with the types: what every step preserves, and why a generation
\* check under the operation mutex is enough.
Ownership == PendingIsWorkers /\ \A t \in Tasks : TaskOwnership(t)

-----------------------------------------------------------------------------
(* The coordinator as its clients see it.                                    *)

AskingPC == {"layout", "metaLock", "metaWait", "metaAck", "checked"}

\* A reader has a lease while its generation is the torrent's and its file was
\* not complete when it asked; IsConnected is what it is promised when answered.
HasLease(t) == HoldsPermit(t) /\ job[t].gen = st.gen /\ job[t].prio # 0
IsServed(t) == pc[t] = "playing" /\ ~job[t].sub /\ job[t].file \notin native.have

Place(t) ==
  IF HoldsPermit(t)
  THEN IF ~HasLease(t) THEN "guest" ELSE IF IsServed(t) THEN "served" ELSE "leased"
  ELSE IF pc[t] \in AskingPC THEN "asking" ELSE "out"

Lease == INSTANCE PlaybackLease WITH
  Clients   <- Callers,
  None      <- NoFile,
  client    <- [t \in Callers |-> Place(t)],
  file      <- IF st.prio # 0 THEN st.sel ELSE NoFile,
  done      <- native.have,
  connected <- ~native.paused

\* The readers' leases (LibtorrentPlaybackPermit) are on one file, and only a
\* request takes one away; an answered reader's torrent is never paused under it.
IsPlaybackLease == Lease!Spec

-----------------------------------------------------------------------------
(* Liveness.  tokio's mutexes, OnceCell and channel are FIFO, so a task that *)
(* can run again and again does run; requests, failures, the swarm and the   *)
(* user owe nothing.                                                         *)

Step(t) ==
  Progress(t) \/ Pausing(t) \/ MetadataFails(t) \/ ActivationFails(t) \/ PauseFails(t)
Command == HandleRelease \/ HandleReleaseMetadata \/ HandleSeedingOn
           \/ HandleSeedingOff \/ HandleVerified
WorkerPauses == TickExpiresHls \/ TickPauses \/ Pausing(Worker) \/ PauseFails(Worker)

Fairness ==
  /\ \A t \in Callers : SF_vars(Step(t))
  /\ SF_vars(Command)
  /\ SF_vars(WorkerPauses)
  /\ WF_vars(HlsLapses \/ DeadlinePasses)

\* The swarm falls silent in the end when the worker tries again and again.
SwarmFallsSilent ==
  /\ SF_vars(PauseConfirmed(Worker) \/ PauseAcknowledged(Worker))
  /\ SF_vars(PauseSubmitsZeros(Worker) /\ native'.prio = Zeros)

FairSpec == Spec /\ Fairness
PausingSpec == FairSpec /\ SwarmFallsSilent

\* A request that selected a file is answered or fails: the waits for the
\* operation mutex and for acknowledgements cannot block each other.
SelectionResolves ==
  \A t \in Callers : pc[t] = "selected" ~> pc[t] \in {"playing", "idle"}

\* When all readers are closed for good, no permit keeps the torrent busy.
PermitsDrain ==
  <>[](\A t \in Callers : pc[t] = "idle")
    => <>[](st.meta = 0 /\ \A g \in Gens : st.direct[g] = 0)

\* The idle tick retries until the swarm fell silent: a torrent only readers
\* used ends up in PausedIdle, whatever pauses failed before.
IdlePauseConfirmed ==
  <>[](~seeding /\ \A t \in Callers : pc[t] = "idle")
    => <>[](native.paused /\ st.phase = "PausedIdle")
=============================================================================
