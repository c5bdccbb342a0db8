------------------------------- MODULE Updates -------------------------------
(***************************************************************************)
(* The server's side of an update (server/src/updater/): check, download,  *)
(* install and cancel under one mutex, the releases it chooses from, the   *)
(* staging directory it shares with the helper it starts, and the server   *)
(* process, which exits for the update and is started again by the helper. *)
(* The operations' network and disk steps may fail, and a request may be   *)
(* dropped by its client at any of them.                                   *)
(***************************************************************************)
EXTENDS UpdateHelper

CONSTANTS MaxOperations   \* operations requested in a behaviour

VARIABLES
    published,  \* releases the channel shows that have all their assets
    writable,   \* whether the executable's directory is
    server,     \* version of the running server process, or 0
    status,     \* UpdateStatus.state
    candidate,  \* version of the UpdateCandidate, or 0
    staged,     \* version of the StagedUpdate, or 0
    op,         \* the operation that holds the mutex
    requested,  \* number of operations so far
    disturbed,  \* history: a staging directory was emptied under its helper
    halfCancelled \* history: a cancellation has removed files of the staged
                \* update and has not taken back what is recorded of it

managerVars == <<published, writable, server, status,
                 candidate, staged, op, requested, disturbed, halfCancelled>>
vars == <<helperVars, managerVars>>

States == {"Idle", "Checking", "Available", "Downloading", "Staged",
           "WaitingForIdle", "Installing", "UpToDate", "Failed"}
Operations == {"check", "download", "install", "cancel"}
NoOp == [kind |-> "none", pc |-> "idle"]
OpType == [kind: Operations, pc: {"begin", "fetch", "files", "spawn", "spawned", "forget"}] \cup {NoOp}
Stopped == 0

Init ==
    /\ HelperInit
    /\ published = {}
    /\ writable \in BOOLEAN
    /\ server = 1
    /\ status = "Idle"
    /\ candidate = 0 /\ staged = 0
    /\ op = NoOp
    /\ requested = 0
    /\ disturbed = FALSE /\ halfCancelled = FALSE

-----------------------------------------------------------------------------
(* External: a release appears, or gets its last asset.                     *)
Publish ==
    /\ \E v \in Versions \ {1} : published' = published \cup {v}
    /\ UNCHANGED <<helperVars, writable, server, status,
                   candidate, staged, op, requested, disturbed, halfCancelled>>

-----------------------------------------------------------------------------
Usable == {v \in published : v > server}

\* Fault: the oldest of the newer releases is chosen.
Oldest(versions) == CHOOSE v \in versions : \A other \in versions : v <= other

Latest(versions) == CHOOSE v \in versions : \A other \in versions : other <= v

Request(kind) ==
    /\ server # Stopped
    /\ op = NoOp
    /\ requested < MaxOperations
    /\ requested' = requested + 1
    /\ op' = [kind |-> kind, pc |-> "begin"]
    /\ UNCHANGED <<helperVars, published, writable, server, status, candidate, staged,
                   disturbed, halfCancelled>>

OpGoto(pc) == op' = [op EXCEPT !.pc = pc]

OpUnchanged == <<helperVars, published, writable, server, requested, disturbed, halfCancelled>>

(* The early return of a recent check changes nothing: it is not a step.    *)
CheckBegins ==
    /\ op.kind = "check" /\ op.pc = "begin"
    /\ status' = "Checking"
    /\ OpGoto("fetch")
    /\ UNCHANGED <<OpUnchanged, candidate, staged>>

CheckFinds ==
    /\ op.kind = "check" /\ op.pc = "fetch"
    /\ Usable # {}
    /\ status' = "Available"
    /\ candidate' = Latest(Usable)
    /\ op' = NoOp
    /\ UNCHANGED <<OpUnchanged, staged>>

CheckFindsNothing ==
    /\ op.kind = "check" /\ op.pc = "fetch"
    /\ Usable = {}
    /\ status' = "UpToDate"
    /\ candidate' = 0
    /\ op' = NoOp
    /\ UNCHANGED <<OpUnchanged, staged>>

(* No answer, or the only newer releases lack assets.  fail() leaves the    *)
(* candidate of an earlier check.                                           *)
CheckFails ==
    /\ op.kind = "check" /\ op.pc = "fetch"
    /\ status' = "Failed"
    /\ op' = NoOp
    /\ UNCHANGED <<OpUnchanged, candidate, staged>>

DownloadRefused ==
    /\ op.kind = "download" /\ op.pc = "begin"
    /\ candidate = 0
    /\ op' = NoOp
    /\ UNCHANGED <<OpUnchanged, status, candidate, staged>>

(* install_blockers reads the state of the engines, the archives and the    *)
(* usenet sessions: an installation that is not forced may be refused.      *)
InstallBlocked ==
    /\ op.kind = "install" /\ op.pc = "begin"
    /\ status' = "WaitingForIdle"
    /\ op' = NoOp
    /\ UNCHANGED <<OpUnchanged, candidate, staged>>

MayInstall == op.kind = "install" /\ op.pc = "begin"

InstallRefused ==
    /\ MayInstall
    /\ staged = 0 /\ candidate = 0
    /\ op' = NoOp
    /\ UNCHANGED <<OpUnchanged, status, candidate, staged>>

InstallUsesStaged ==
    /\ MayInstall
    /\ staged # 0
    /\ OpGoto("spawn")
    /\ UNCHANGED <<OpUnchanged, status, candidate, staged>>

Disturbs(v) == \E h \in Helpers : Working(h) /\ helper[h].target = v

(* stage_update empties the directory of the version before it downloads.   *)
StagingBegins ==
    /\ \/ op.kind = "download" /\ op.pc = "begin"
       \/ MayInstall /\ staged = 0
    /\ candidate # 0
    /\ status' = "Downloading"
    /\ staging' = [staging EXCEPT ![candidate] = 0]
    /\ planFile' = [planFile EXCEPT ![candidate] = FALSE]
    /\ disturbed' = (disturbed \/ Disturbs(candidate))
    /\ OpGoto("files")
    /\ UNCHANGED <<dest, temp, backup, undo, node, msi, helper, origin, runs, overlap,
                   published, writable, server, candidate, staged, requested, halfCancelled>>

(* A file is created, filled, and its checksum is the one in SHA256SUMS.    *)
FileStaged ==
    /\ op.pc = "files"
    /\ staging[candidate] < 2 * Updater
    /\ staging' = [staging EXCEPT ![candidate] = @ + 1]
    /\ UNCHANGED <<dest, temp, backup, undo, planFile, node, msi, helper, origin, runs,
                   overlap, managerVars>>

StagingFails ==
    /\ op.pc = "files"
    /\ status' = "Failed"
    /\ op' = NoOp
    /\ UNCHANGED <<OpUnchanged, candidate, staged>>

StagingCompletes ==
    /\ op.pc = "files"
    /\ staging[candidate] = 2 * Updater
    /\ staged' = candidate
    /\ halfCancelled' = FALSE
    /\ IF op.kind = "download"
          THEN status' = "Staged" /\ op' = NoOp
          ELSE OpGoto("spawn") /\ UNCHANGED status
    /\ UNCHANGED <<helperVars, published, writable, server, candidate, requested, disturbed>>

(* prepare_apply_plan writes the plan; spawn_helper starts the updater that *)
(* was staged with it.  Then the request waits for the lock of the status.  *)
HelperSpawned ==
    /\ op.pc = "spawn"
    /\ staging[staged] = 2 * Updater
    /\ \E h \in Helpers : StartHelper(h, staged, "read", writable)
    /\ planFile' = [planFile EXCEPT ![staged] = TRUE]
    /\ OpGoto("spawned")
    /\ UNCHANGED <<dest, temp, backup, undo, staging, node, msi, published, writable, server,
                   status, candidate, staged, requested, disturbed, halfCancelled>>

(* The route then lets the process exit: ServerExits.                       *)
InstallAnswered ==
    /\ op.pc = "spawned"
    /\ status' = "Installing"
    /\ op' = NoOp
    /\ UNCHANGED <<OpUnchanged, candidate, staged>>

(* The staging directory is missing or incomplete, or an I/O error.         *)
SpawnFails ==
    /\ op.pc = "spawn"
    /\ op' = NoOp
    /\ UNCHANGED <<OpUnchanged, status, candidate, staged>>

(* remove_dir_all of the staged update, if there is one; a removal that     *)
(* fails may leave some of the files (which ones is abstracted from).       *)
RemovesStaged(left) ==
    /\ staging' = [staging EXCEPT ![staged] = left]
    /\ planFile' = [planFile EXCEPT ![staged] = FALSE]
    /\ disturbed' = (disturbed \/ Disturbs(staged))
    /\ halfCancelled' = TRUE

CancelUnchanged == <<dest, temp, backup, undo, node, msi, helper, origin, runs, overlap,
                     published, writable, server, status, candidate, staged, requested>>

CancelRemoves ==
    /\ op.kind = "cancel" /\ op.pc = "begin"
    /\ IF staged = 0 THEN UNCHANGED <<staging, planFile, disturbed, halfCancelled>>
                     ELSE RemovesStaged(0)
    /\ OpGoto("forget")
    /\ UNCHANGED CancelUnchanged

CancelFails ==
    /\ op.kind = "cancel" /\ op.pc = "begin"
    /\ staged # 0
    /\ \E left \in 0..Updater : 2 * left <= staging[staged] /\ RemovesStaged(2 * left)
    /\ op' = NoOp
    /\ UNCHANGED CancelUnchanged

\* Fault: the status is not reset.
CancelForgetsQuietly ==
    /\ op.kind = "cancel" /\ op.pc = "forget"
    /\ staged' = 0
    /\ halfCancelled' = FALSE
    /\ op' = NoOp
    /\ UNCHANGED <<helperVars, published, writable, server, requested, disturbed, status,
                   candidate>>

CancelForgets ==
    /\ op.kind = "cancel" /\ op.pc = "forget"
    /\ status' = "Idle"
    /\ staged' = 0
    /\ halfCancelled' = FALSE
    /\ op' = NoOp
    /\ UNCHANGED <<helperVars, published, writable, server, requested, disturbed, candidate>>

(* The client goes away: the request's future is dropped where it waits.    *)
RequestDropped ==
    /\ op.pc \in {"fetch", "files", "spawned", "forget"}
    /\ op' = NoOp
    /\ UNCHANGED <<OpUnchanged, status, candidate, staged>>

-----------------------------------------------------------------------------
(* The process ends, for the update or by itself; its memory is gone.       *)
ServerExits ==
    /\ server # Stopped
    /\ server' = Stopped
    /\ status' = "Idle"
    /\ candidate' = 0 /\ staged' = 0
    /\ op' = NoOp
    /\ halfCancelled' = FALSE
    /\ UNCHANGED <<helperVars, published, writable, requested, disturbed>>

StartServer ==
    server' = IF server = Stopped THEN dest[Exe] ELSE server  \* else the port is taken

UserStartsServer ==
    /\ server = Stopped
    /\ Complete(dest[Exe])
    /\ StartServer
    /\ UNCHANGED <<helperVars, published, writable, status, candidate,
                   staged, op, requested, disturbed, halfCancelled>>

HelperRestarts(h) ==
    /\ helper[h].pc = "restart"
    /\ Complete(dest[Exe])
    /\ Exits(h, "done")
    /\ StartServer
    /\ UNCHANGED <<files, origin, runs, overlap, published, writable,
                   status, candidate, staged, op, requested, disturbed, halfCancelled>>

UserRollsBack ==
    \E v \in Versions, h \in Helpers :
        /\ undo[v] # {}
        /\ StartHelper(h, v, "undo", TRUE)
        /\ UNCHANGED <<files, managerVars>>

Operate ==
    \/ CheckBegins \/ CheckFinds \/ CheckFindsNothing \/ CheckFails
    \/ DownloadRefused \/ InstallBlocked \/ InstallRefused \/ InstallUsesStaged
    \/ StagingBegins \/ FileStaged \/ StagingFails \/ StagingCompletes
    \/ HelperSpawned \/ InstallAnswered \/ SpawnFails
    \/ CancelRemoves \/ CancelFails \/ CancelForgets

HelperWorks(h) ==
    \/ HelperStep(h) /\ UNCHANGED managerVars
    \/ HelperRestarts(h)

Next ==
    \/ Publish
    \/ \E kind \in Operations : Request(kind)
    \/ Operate
    \/ RequestDropped
    \/ ServerExits \/ UserStartsServer \/ UserRollsBack
    \/ MsiInstalls /\ UNCHANGED managerVars
    \/ \E h \in Helpers : HelperWorks(h)
    \/ \E h \in Helpers : HelperStops(h) /\ UNCHANGED managerVars

Spec == Init /\ [][Next]_vars

-----------------------------------------------------------------------------
TypeOK ==
    /\ dest \in [Plan -> Contents] /\ temp \in [Plan -> Contents]
    /\ backup \in [Versions -> [Plan -> Contents]]
    /\ undo \in [Versions -> SUBSET Plan]
    /\ staging \in [Versions -> 0..2 * Updater]
    /\ planFile \in [Versions -> BOOLEAN]
    /\ node \in Contents /\ msi \in 0..MaxVersion
    /\ helper \in [Helpers -> HelperType]
    /\ published \subseteq Versions
    /\ server \in 0..MaxVersion
    /\ status \in States
    /\ candidate \in 0..MaxVersion /\ staged \in 0..MaxVersion
    /\ op \in OpType

(* The backups of a version are saved over by a second installation of it.  *)
BackupsReused == (\E h \in Helpers : helper[h].rollback) /\ \E v \in Versions : runs[v] > 1

(* A crash or a failed step at any instant of an installation, even of a    *)
(* repeated one, or of a rollback leaves every file that was there          *)
(* complete: where it was installed, or in a backup directory.  (But not    *)
(* once a version is both rolled back and installed again: a rollback that  *)
(* stops leaves a torn file, and the next installation saves it over the    *)
(* good backup; or that installation stops in a backup, and the rollback    *)
(* copies it over the good file.)                                           *)
ProgramRecoverable ==
    overlap \/ disturbed \/ BackupsReused \/ \A e \in Plan :
        (\E v \in Versions : runs[v] > 0 /\ origin[v][e] # Absent) =>
            \/ Complete(dest[e])
            \/ \E v \in Versions : Complete(backup[v][e])

(* A rollback that comes to its end has brought back what the first run for *)
(* that version replaced.  (A second run backs up what the first installed.) *)
RollbackRestores ==
    \A h \in Helpers :
        LET v == helper[h].target IN
        helper[h].pc = "undo" /\ runs[v] = 1 /\ ~overlap =>
            \A e \in undo[v] : e < helper[h].entry => dest[e] = origin[v][e]

(* The server is restarted only when every file of the plan is the new one, *)
(* whatever became of the staging directory since the plan was checked.     *)
InstalledIsWhole ==
    \A h \in Helpers :
        helper[h].pc = "restart" /\ ~overlap =>
            \A e \in Plan : dest[e] = helper[h].target \/ (e = Exe /\ ~helper[h].exe)

(* Without a change of the channel no installed file makes room for an     *)
(* older one, although an embedded server that stays up goes on comparing   *)
(* releases with the version it was built as.                               *)
NoDowngrade ==
    [][\A e \in Plan :
           Complete(dest[e]) /\ dest'[e] = Absent /\ ~overlap =>
               temp[e] >= dest[e]]_vars

(* What the status says about an update is so, whatever operations failed,  *)
(* were dropped or ran since: a candidate is known, the staged files are    *)
(* all there, a helper was started on them.  The files, but for a           *)
(* cancellation that failed or was dropped between removing them and taking *)
(* the status back (cancel_update).                                         *)
StatusTells ==
    /\ status = "Available" => candidate # 0
    /\ status = "UpToDate" => candidate = 0
    /\ status \in {"Staged", "Installing"} =>
          staged # 0 /\ (staging[staged] = 2 * Updater \/ halfCancelled)
    /\ status = "Installing" => \E h \in Helpers : helper[h].target = staged

=============================================================================
