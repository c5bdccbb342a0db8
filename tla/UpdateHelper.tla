---------------------------- MODULE UpdateHelper ----------------------------
(***************************************************************************)
(* The program that installs an update (updater-helper/src/main.rs).  It   *)
(* is a process of its own, started by the server with a plan: for each    *)
(* entry of the plan it backs up the installed file, copies the staged one *)
(* beside it, removes the installed file and renames the copy into its     *)
(* place.  Every write to the disk is a step, and a helper may stop after  *)
(* any of them: an I/O error, a killed process or a power cut.             *)
(*                                                                         *)
(* The content of a file is the version it belongs to.                     *)
(***************************************************************************)
EXTENDS Naturals, FiniteSets

CONSTANTS MaxVersion,  \* the newest version that is ever released
          Entries,     \* the number of files an update replaces
          Helpers      \* helper processes that may be started

ASSUME HelperAssumption == /\ MaxVersion \in Nat \ {0}
                           /\ Entries \in Nat \ {0}

Versions == 1..MaxVersion
Plan     == 1..Entries
Exe      == 1                \* current_exe is the first entry of a plan
Runtime  == 2                \* stremio-runtime.exe comes next, where it is replaced
Absent   == 0
Torn     == MaxVersion + 1   \* the content of a copy that was interrupted

(* The staged files are downloaded in the plan's order, the updater last. *)
Updater == Entries + 1

VARIABLES
    dest,      \* what is installed, per entry
    temp,      \* the ".update-tmp" copy beside it
    backup,    \* backup directory of each version
    undo,      \* entries in each version's rollback-plan.json, {} if none or torn
    staging,   \* files in each version's staging directory: 2 for a complete
               \* one, 1 for the one that was not downloaded to its end
    planFile,  \* whether that directory holds an apply-plan.json
    node,      \* stremio-runtime.node.exe, Stremio's own runtime
    msi,       \* version the Windows installer has been started for, or 0
    helper,    \* helper processes
    origin,    \* history: what each version's first run found installed
    runs,      \* history: how often a helper has started on each version
    overlap    \* history: two helpers have been at work at once

files == <<dest, temp, backup, undo, staging, planFile, node, msi>>
helperVars == <<files, helper, origin, runs, overlap>>

Contents == 0..MaxVersion + 1
Complete(content) == content \in Versions

PCs == {"unborn", "read", "verify", "saving", "check", "backing", "copy",
        "copying", "short", "remove", "rename", "confirm", "planning", "msi",
        "restart", "undo", "undoing", "done", "stopped"}

HelperType ==
    [pc: PCs, target: 0..MaxVersion, entry: 1..Entries + 1, kept: SUBSET Plan,
     exe: BOOLEAN, rollback: BOOLEAN]

NewHelper == [pc |-> "unborn", target |-> 0, entry |-> 1, kept |-> {}, exe |-> TRUE,
              rollback |-> FALSE]

HelperInit ==
    /\ dest \in [Plan -> {Absent, 1}] /\ dest[Exe] = 1
    /\ temp = [e \in Plan |-> Absent]
    /\ backup = [v \in Versions |-> [e \in Plan |-> Absent]]
    /\ undo = [v \in Versions |-> {}]
    /\ staging = [v \in Versions |-> 0]
    /\ planFile = [v \in Versions |-> FALSE]
    /\ node = Absent
    /\ msi = 0
    /\ helper = [h \in Helpers |-> NewHelper]
    /\ origin = [v \in Versions |-> dest]
    /\ runs = [v \in Versions |-> 0]
    /\ overlap = FALSE

Working(h) == helper[h].pc \notin {"unborn", "done", "stopped"}

IsStaged(v, entry)  == 2 * entry <= staging[v]
IsPartial(v, entry) == 2 * entry = staging[v] + 1

Goto(h, pc) == helper' = [helper EXCEPT ![h].pc = pc]

(* A process that ended has no place in the plan any more.                  *)
Exits(h, pc) == helper' = [helper EXCEPT ![h].pc = pc, ![h].entry = 1, ![h].kept = {}]

-----------------------------------------------------------------------------
(* A new process for version v; exe says whether the plan replaces the      *)
(* running executable or leaves that to the MSI.                            *)
StartHelper(h, v, pc, exe) ==
    /\ helper[h].pc = "unborn"
    /\ helper' = [helper EXCEPT ![h] = [NewHelper EXCEPT !.pc = pc, !.target = v,
                                                         !.exe = exe,
                                                         !.rollback = (pc = "undo")]]
    /\ overlap' = (overlap \/ \E other \in Helpers : Working(other))
    /\ runs' = [runs EXCEPT ![v] = IF pc = "read" THEN @ + 1 ELSE @]
    /\ origin' = IF runs[v] = 0 THEN [origin EXCEPT ![v] = dest] ELSE origin

(* Whatever a helper does next may fail, and its process may die.           *)
HelperStops(h) ==
    /\ Working(h)
    /\ Exits(h, "stopped")
    /\ UNCHANGED <<files, origin, runs, overlap>>

(* After the parent exited, or 30 seconds, whichever is first.              *)
ReadPlan(h) ==
    /\ helper[h].pc = "read"
    /\ planFile[helper[h].target]
    /\ Goto(h, "verify")
    /\ UNCHANGED <<files, origin, runs, overlap>>

(* After the checksums, Stremio's own runtime is copied aside, unless there *)
(* is an stremio-runtime.node.exe already, complete or not.                 *)
KeepsRuntime == Runtime \in Plan /\ node = Absent /\ dest[Runtime] # Absent

VerifyAssets(h) ==
    /\ helper[h].pc = "verify"
    /\ \A e \in Plan : IsStaged(helper[h].target, e)
    /\ node' = IF KeepsRuntime THEN Torn ELSE node
    /\ helper' = [helper EXCEPT ![h].pc = IF KeepsRuntime THEN "saving" ELSE "check",
                                ![h].entry = IF helper[h].exe THEN Exe ELSE Exe + 1]
    /\ UNCHANGED <<dest, temp, backup, undo, staging, planFile, msi, origin, runs, overlap>>

EndRuntimeBackup(h) ==
    /\ helper[h].pc = "saving"
    /\ node' = dest[Runtime]
    /\ Goto(h, "check")
    /\ UNCHANGED <<dest, temp, backup, undo, staging, planFile, msi, origin, runs, overlap>>

\* Fault: an installed file is replaced without a backup.
BeginReplaceUnsaved(h) ==
    /\ helper[h].pc = "check"
    /\ helper[h].entry \in Plan
    /\ IsStaged(helper[h].target, helper[h].entry)
    /\ Goto(h, "copy")
    /\ UNCHANGED <<files, origin, runs, overlap>>

(* The checksum once more, then the backup of what is installed, if it is.  *)
BeginReplace(h) ==
    LET v == helper[h].target
        e == helper[h].entry IN
    /\ helper[h].pc = "check"
    /\ e \in Plan
    /\ IsStaged(v, e)
    /\ IF dest[e] = Absent
          THEN Goto(h, "copy") /\ UNCHANGED backup
          ELSE Goto(h, "backing") /\ backup' = [backup EXCEPT ![v][e] = Torn]
    /\ UNCHANGED <<dest, temp, undo, staging, planFile, node, msi, origin, runs, overlap>>

\* Fault: the backup is made from the staged file.
EndBackupOfStaged(h) ==
    LET v == helper[h].target
        e == helper[h].entry IN
    /\ helper[h].pc = "backing"
    /\ backup' = [backup EXCEPT ![v][e] = v]
    /\ helper' = [helper EXCEPT ![h].pc = "copy", ![h].kept = @ \cup {e}]
    /\ UNCHANGED <<dest, temp, undo, staging, planFile, node, msi, origin, runs, overlap>>

EndBackup(h) ==
    LET v == helper[h].target
        e == helper[h].entry IN
    /\ helper[h].pc = "backing"
    /\ backup' = [backup EXCEPT ![v][e] = dest[e]]
    /\ helper' = [helper EXCEPT ![h].pc = "copy", ![h].kept = @ \cup {e}]
    /\ UNCHANGED <<dest, temp, undo, staging, planFile, node, msi, origin, runs, overlap>>

(* A stale temporary file is removed first.  The staging directory may have *)
(* been emptied since the check: then there is nothing to copy, or a file   *)
(* that is being downloaded again.                                          *)
BeginCopy(h) ==
    LET v == helper[h].target
        e == helper[h].entry IN
    /\ helper[h].pc = "copy"
    /\ IsStaged(v, e) \/ IsPartial(v, e)
    /\ temp' = [temp EXCEPT ![e] = Torn]
    /\ Goto(h, IF IsStaged(v, e) THEN "copying" ELSE "short")
    /\ UNCHANGED <<dest, backup, undo, staging, planFile, node, msi, origin, runs, overlap>>

EndCopy(h) ==
    /\ helper[h].pc \in {"copying", "short"}
    /\ temp' = [temp EXCEPT ![helper[h].entry] =
                    IF helper[h].pc = "copying" THEN helper[h].target ELSE Torn]
    /\ Goto(h, "remove")
    /\ UNCHANGED <<dest, backup, undo, staging, planFile, node, msi, origin, runs, overlap>>

RemoveInstalled(h) ==
    /\ helper[h].pc = "remove"
    /\ dest' = [dest EXCEPT ![helper[h].entry] = Absent]
    /\ Goto(h, "rename")
    /\ UNCHANGED <<temp, backup, undo, staging, planFile, node, msi, origin, runs, overlap>>

RenameIntoPlace(h) ==
    LET e == helper[h].entry IN
    /\ helper[h].pc = "rename"
    /\ temp[e] # Absent
    /\ dest' = [dest EXCEPT ![e] = temp[e]]
    /\ temp' = [temp EXCEPT ![e] = Absent]
    /\ Goto(h, "confirm")
    /\ UNCHANGED <<backup, undo, staging, planFile, node, msi, origin, runs, overlap>>

\* Fault: the installed file's checksum is not taken.
ConfirmUnread(h) ==
    /\ helper[h].pc = "confirm"
    /\ helper' = [helper EXCEPT ![h].pc = "check", ![h].entry = @ + 1]
    /\ UNCHANGED <<files, origin, runs, overlap>>

ConfirmInstalled(h) ==
    /\ helper[h].pc = "confirm"
    /\ dest[helper[h].entry] = helper[h].target
    /\ helper' = [helper EXCEPT ![h].pc = "check", ![h].entry = @ + 1]
    /\ UNCHANGED <<files, origin, runs, overlap>>

(* rollback-plan.json is written over the one of an earlier run, and only    *)
(* after the last replacement: torn, it cannot be read, as if it were none. *)
BeginRollbackPlan(h) ==
    /\ helper[h].pc = "check"
    /\ helper[h].entry \notin Plan
    /\ undo' = [undo EXCEPT ![helper[h].target] = {}]
    /\ Goto(h, "planning")
    /\ UNCHANGED <<dest, temp, backup, staging, planFile, node, msi, origin, runs, overlap>>

EndRollbackPlan(h) ==
    /\ helper[h].pc = "planning"
    /\ undo' = [undo EXCEPT ![helper[h].target] = helper[h].kept]
    /\ Goto(h, IF helper[h].exe THEN "restart" ELSE "msi")
    /\ UNCHANGED <<dest, temp, backup, staging, planFile, node, msi, origin, runs, overlap>>

(* The plan of an executable in a directory that is not writable has an MSI. *)
LaunchMsi(h) ==
    /\ helper[h].pc = "msi"
    /\ msi' = helper[h].target
    /\ Goto(h, "restart")
    /\ UNCHANGED <<dest, temp, backup, undo, staging, planFile, node, origin, runs, overlap>>

(* External: the Windows installer replaces the executable in its own time. *)
MsiInstalls ==
    /\ msi # 0
    /\ dest' = [dest EXCEPT ![Exe] = msi]
    /\ msi' = 0
    /\ UNCHANGED <<temp, backup, undo, staging, planFile, node, helper, origin, runs, overlap>>

-----------------------------------------------------------------------------
(* --rollback: each backup is copied over the installed file.               *)
BeginUndo(h) ==
    LET v == helper[h].target
        todo == {e \in undo[v] : e >= helper[h].entry}
        e == CHOOSE f \in todo : \A g \in todo : f <= g IN
    /\ helper[h].pc = "undo"
    /\ todo # {}
    /\ backup[v][e] # Absent
    /\ dest' = [dest EXCEPT ![e] = Torn]
    /\ helper' = [helper EXCEPT ![h].pc = "undoing", ![h].entry = e]
    /\ UNCHANGED <<temp, backup, undo, staging, planFile, node, msi, origin, runs, overlap>>

EndUndo(h) ==
    LET e == helper[h].entry IN
    /\ helper[h].pc = "undoing"
    /\ dest' = [dest EXCEPT ![e] = backup[helper[h].target][e]]
    /\ helper' = [helper EXCEPT ![h].pc = "undo", ![h].entry = e + 1]
    /\ UNCHANGED <<temp, backup, undo, staging, planFile, node, msi, origin, runs, overlap>>

UndoCompleted(h) ==
    /\ helper[h].pc = "undo"
    /\ \A e \in undo[helper[h].target] : e < helper[h].entry
    /\ Exits(h, "done")
    /\ UNCHANGED <<files, origin, runs, overlap>>

HelperStep(h) ==
    \/ ReadPlan(h) \/ VerifyAssets(h)
    \/ EndRuntimeBackup(h)
    \/ BeginReplace(h) \/ EndBackup(h) \/ BeginCopy(h) \/ EndCopy(h)
    \/ RemoveInstalled(h) \/ RenameIntoPlace(h) \/ ConfirmInstalled(h)
    \/ BeginRollbackPlan(h) \/ EndRollbackPlan(h) \/ LaunchMsi(h)
    \/ BeginUndo(h) \/ EndUndo(h) \/ UndoCompleted(h)
=============================================================================
