---------------------------- MODULE SettingsStore ----------------------------
(***************************************************************************)
(* The settings and their file: update_settings (routes/system.rs), the    *)
(* load and save of state.rs, and the tracker manager (enginefs            *)
(* trackers.rs), which keeps its list of trackers in the settings.         *)
(*                                                                         *)
(* The values of a settings object are abstracted to the update they come  *)
(* from.  tokio::fs::write is a thread of its own that empties the file    *)
(* and then fills it, and goes on when the future that asked is dropped.   *)
(***************************************************************************)
EXTENDS Naturals

CONSTANTS Requests,      \* updates from the web, the tray or the settings window
          Trackers,      \* stands for the task of save_trackers
          MaxUpdates     \* bound: updates merged

Writers == Requests \cup {Trackers}

VARIABLES
    memory,     \* AppState.settings
    file,       \* settings.json
    request,    \* update_settings, for each request
    manager,    \* TrackerManager: where its task is, and whether it has a list
    saving,     \* the task that save_trackers spawned waits for the lock
    writer,     \* the writes of the file under way
    owed,       \* history: memory differs from what was last handed to a write,
                \* or a write failed since
    raced       \* history: a write began while an uncovered one of different
                \* settings was under way

vars == <<memory, file, request, manager, saving, writer, owed, raced>>

(* cached_trackers: whether a list was saved.                               *)
Settings == [user : 0..MaxUpdates, trackers : BOOLEAN]

Defaults == [user |-> 0, trackers |-> FALSE]

TypeOK ==
    /\ memory \in Settings
    /\ file \in [state : {"absent", "torn", "whole"}, content : Settings]
    /\ request \in [Requests -> {"idle", "merged", "applied", "saving"}]
    /\ manager \in [pc : {"starting", "waiting", "fetching"}, list : BOOLEAN]
    /\ saving \in BOOLEAN
    /\ writer \in [Writers -> [pc : {"none", "queued", "open"}, content : Settings,
                               mixed : BOOLEAN]]
    /\ owed \in BOOLEAN /\ raced \in BOOLEAN

NoWrite == [pc |-> "none", content |-> Defaults, mixed |-> FALSE]

Init ==
    /\ memory = Defaults
    /\ file = [state |-> "absent", content |-> Defaults]
    /\ request = [r \in Requests |-> "idle"]
    /\ manager = [pc |-> "starting", list |-> FALSE]
    /\ saving = FALSE
    /\ writer = [w \in Writers |-> NoWrite]
    /\ owed = FALSE /\ raced = FALSE

-----------------------------------------------------------------------------
(* The lock: save_settings keeps its read guard until the write is over.    *)
ReadLocked == \E r \in Requests : request[r] = "saving"

\* Fault: the guard is dropped before the file is written.
LockIgnored == TRUE

WriteLockFree == ~ReadLocked

At(r, pc) == request[r] = pc
Goto(r, pc) == request' = [request EXCEPT ![r] = pc]

(* The payload's fields are merged under the write lock; nothing awaits.    *)
Merge(r) ==
    /\ At(r, "idle") /\ writer[r].pc = "none"
    /\ WriteLockFree /\ memory.user < MaxUpdates
    /\ memory' = [memory EXCEPT !.user = @ + 1]
    /\ Goto(r, "merged")
    /\ owed' = TRUE
    /\ UNCHANGED <<file, manager, saving, writer, raced>>

(* What was merged is applied to the two engines, behind awaits.            *)
Apply(r) ==
    /\ At(r, "merged")
    /\ Goto(r, "applied")
    /\ UNCHANGED <<memory, file, manager, saving, writer, owed, raced>>

(* The writes under way of other settings than these.                       *)
Others(w, content) ==
    {x \in Writers \ {w} : writer[x].pc # "none" /\ (Trackers \in {w, x} \/ writer[x].content # content)}

(* The lock does not cover the save of trackers and that of a request that  *)
(* was dropped.                                                             *)
Uncovered(w) == w = Trackers \/ ~At(w, "saving")

(* A write is handed the settings as they are.                              *)
Write(w, content) ==
    /\ writer' = [writer EXCEPT ![w] = [pc |-> "queued", content |-> content, mixed |-> FALSE]]
    /\ owed' = FALSE
    /\ raced' = (raced \/ \E x \in Others(w, content) : Uncovered(x))

SaveSettings(r) ==
    /\ At(r, "applied")
    /\ Write(r, memory)
    /\ Goto(r, "saving")
    /\ UNCHANGED <<memory, file, manager, saving>>

(* The client goes away: the handler is dropped where it awaits.            *)
DropRequest(r) ==
    /\ ~At(r, "idle")
    /\ request' = [request EXCEPT ![r] = "idle"]
    /\ UNCHANGED <<memory, file, manager, saving, writer, owed, raced>>

-----------------------------------------------------------------------------
(* tokio::fs::write.                                                        *)
WriteOpens(w) ==
    /\ writer[w].pc = "queued"
    /\ file' = [file EXCEPT !.state = "torn"]
    /\ LET others == {x \in Others(w, writer[w].content) : writer[x].pc = "open"}
       IN writer' = [x \in Writers |->
                        IF x = w THEN [writer[w] EXCEPT !.pc = "open", !.mixed = (others # {})]
                        ELSE [writer[x] EXCEPT !.mixed = @ \/ x \in others]]
    /\ UNCHANGED <<memory, request, manager, saving, owed, raced>>

Over(w) ==
    /\ writer' = [writer EXCEPT ![w] = NoWrite]
    /\ request' = [r \in Requests |-> IF r = w /\ At(r, "saving") THEN "idle" ELSE request[r]]

(* Where writes of different settings overlap the file may hold parts of    *)
(* both.                                                                    *)
WriteEnds(w) ==
    /\ writer[w].pc = "open"
    /\ \E state \in {"whole"} \cup (IF writer[w].mixed THEN {"torn"} ELSE {}) :
           file' = [state |-> state, content |-> writer[w].content]
    /\ Over(w)
    /\ UNCHANGED <<memory, manager, saving, owed, raced>>

WriteFails(w) ==
    /\ writer[w].pc # "none"
    /\ Over(w)
    /\ owed' = TRUE
    /\ UNCHANGED <<memory, file, manager, saving, raced>>

-----------------------------------------------------------------------------
(* The tracker manager's task.  The reads of the settings wait for a merge, *)
(* which takes no time.                                                     *)
LoadFromCache ==
    /\ manager.pc = "starting"
    /\ manager' = [pc |-> "waiting", list |-> memory.trackers]
    /\ UNCHANGED <<memory, file, request, saving, writer, owed, raced>>

(* refresh_if_needed: a list that is not a day old is kept, or taken from   *)
(* the settings; the day may have passed at any check.                      *)
KeepList ==
    /\ manager.pc = "waiting" /\ memory.trackers
    /\ manager' = [manager EXCEPT !.list = TRUE]
    /\ UNCHANGED <<memory, file, request, saving, writer, owed, raced>>

StartFetch ==
    /\ manager.pc = "waiting"
    /\ manager' = [manager EXCEPT !.pc = "fetching"]
    /\ UNCHANGED <<memory, file, request, saving, writer, owed, raced>>

(* It fails, or brings an empty list.                                       *)
FetchFails ==
    /\ manager.pc = "fetching"
    /\ manager' = [manager EXCEPT !.pc = "waiting"]
    /\ UNCHANGED <<memory, file, request, saving, writer, owed, raced>>

(* Every probe of a tracker has its timeout; the best twenty are kept,      *)
(* whether they answered or not.  The save is a task of its own.            *)
Ranked ==
    /\ manager.pc = "fetching" /\ ~saving
    /\ saving' = TRUE
    /\ manager' = [pc |-> "waiting", list |-> TRUE]
    /\ UNCHANGED <<memory, file, request, writer, owed, raced>>

(* The guard is dropped before the file is written.                         *)
SaveTrackers ==
    /\ saving /\ WriteLockFree /\ writer[Trackers].pc = "none"
    /\ saving' = FALSE
    /\ memory' = [memory EXCEPT !.trackers = TRUE]
    /\ Write(Trackers, memory')
    /\ UNCHANGED <<file, request, manager>>

-----------------------------------------------------------------------------
(* load_settings: what cannot be read or parsed is replaced by the defaults. *)
(* Left out: in a parsed file it also replaces an empty cache root and a     *)
(* legacy connection limit by the default; "user" stands for the others.     *)
Loaded == IF file.state = "whole" THEN file.content ELSE Defaults

(* The process ends, at any point, and starts again.                        *)
Restart ==
    /\ memory' = Loaded
    /\ request' = [r \in Requests |-> "idle"]
    /\ manager' = [pc |-> "starting", list |-> FALSE]
    /\ saving' = FALSE
    /\ writer' = [w \in Writers |-> NoWrite]
    /\ owed' = FALSE /\ raced' = FALSE
    /\ UNCHANGED file

Next ==
    \/ LoadFromCache \/ KeepList \/ StartFetch \/ FetchFails \/ Ranked \/ SaveTrackers
    \/ Restart
    \/ \E r \in Requests :
          \/ Merge(r) \/ Apply(r) \/ SaveSettings(r) \/ DropRequest(r)
    \/ \E w \in Writers : WriteOpens(w) \/ WriteEnds(w) \/ WriteFails(w)

Spec == Init /\ [][Next]_vars

-----------------------------------------------------------------------------
(* A restart brings back the settings as they were, user's and trackers',   *)
(* unless a write was under way or had failed, an update was not handed to  *)
(* a write, or the save of trackers or of a dropped request overlapped      *)
(* another: save_settings keeps the lock until its write is over, so that   *)
(* no update is merged and saved in the meantime.                           *)
RestartKeepsSettings ==
    [][(Restart /\ ~owed /\ ~raced /\ \A w \in Writers : writer[w].pc = "none") =>
            memory' = memory]_vars
=============================================================================
