--------------------------- MODULE RequestsProofs ---------------------------
(***************************************************************************)
(* Proofs about requests and services that are checked side by side        *)
(* (MCRequests), each about one of them; the last section is about their   *)
(* composition.                                                            *)
(***************************************************************************)
EXTENDS MCRequests, WellFoundedInduction, SequenceTheorems, TLAPS

-----------------------------------------------------------------------------
(* PauseConfirmation: for any quiet interval, timeout and bounds on the    *)
(* status.  The tracker sees the totals only at its polls; Watched says    *)
(* why this is enough: totals never go back, so equal totals mean that     *)
(* nothing moved since they were noted, whatever happened between.         *)
PauseTypeOK ==
  /\ now \in Nat /\ moved \in Nat
  /\ status \in [is_paused: BOOLEAN, num_peers: Nat, total_downloaded: Nat, total_uploaded: Nat]
  /\ silence \in [stable_since: SUBSET Nat, total_downloaded: Nat, total_uploaded: Nat]
  /\ wait \in {"polling", "silent", "failed"}

(* What a stable_since of {t} stands for.                                   *)
Watched ==
  \A t \in silence.stable_since :
    /\ t <= now
    /\ silence.total_downloaded <= status.total_downloaded
    /\ silence.total_uploaded <= status.total_uploaded
    /\ ~TotalsChanged => moved <= t

PauseInv == PauseTypeOK /\ moved <= now /\ Watched /\ ConfirmedIsSilent

-----------------------------------------------------------------------------
LEMMA InitPause == ASSUME MaxPeers \in Nat, MaxBytes \in Nat PROVE Init => PauseInv
  BY DEF Init, PauseInv, PauseTypeOK, Watched, ConfirmedIsSilent, Statuses

(* observe: a new stable_since is the present moment.                       *)
LEMMA PollKeeps == ASSUME PAUSE_QUIET_CONFIRMATION \in Nat, PauseInv, Poll PROVE PauseInv'
<1>1. silence' = Observed
  BY DEF Poll
<1>2. CASE Busy
  <2>1. silence' = [silence EXCEPT !.stable_since = {}]
    BY <1>1, <1>2 DEF Observed, Starts
  <2>2. ~Silent
    BY <1>2 DEF Silent
  <2> QED  BY <2>1, <2>2 DEF Poll, PauseInv, PauseTypeOK, Watched, ConfirmedIsSilent
<1>3. CASE Starts
  <2>1. silence' = [stable_since |-> {now}, total_downloaded |-> status.total_downloaded,
                    total_uploaded |-> status.total_uploaded]
    BY <1>1, <1>3 DEF Observed, Starts
  <2>2. ~Silent  BY <1>3 DEF Silent
  <2> QED  BY <2>1, <2>2 DEF Poll, PauseInv, PauseTypeOK, Watched, ConfirmedIsSilent
<1>4. CASE ~Busy /\ ~Starts
  <2>1. silence' = silence  BY <1>1, <1>4 DEF Observed
  <2>2. UNCHANGED <<now, status, moved>>  BY DEF Poll
  <2>3. PauseTypeOK' /\ Watched' /\ moved' <= now'
    BY <2>1, <2>2 DEF Poll, PauseInv, PauseTypeOK, Watched, TotalsChanged
  <2>4. ASSUME wait' = "silent"
        PROVE  status.is_paused /\ status.num_peers = 0 /\ now - moved >= PAUSE_QUIET_CONFIRMATION
    <3>1. Silent  BY <2>4 DEF Poll, PauseInv
    <3>2. PICK t \in silence.stable_since : TRUE
      BY <1>4 DEF Starts, PauseInv, PauseTypeOK
    <3>3. t \in Nat /\ moved <= t /\ now - t >= PAUSE_QUIET_CONFIRMATION
      BY <1>4, <3>1, <3>2 DEF Starts, Silent, PauseInv, PauseTypeOK, Watched
    <3> QED  BY <1>4, <3>3 DEF Busy, PauseInv, PauseTypeOK
  <2> QED  BY <2>2, <2>3, <2>4 DEF PauseInv, ConfirmedIsSilent
<1> QED  BY <1>2, <1>3, <1>4

(* A byte that moves changes a total, and the totals with it.               *)
LEMMA TransfersKeep == ASSUME PauseInv, Transfers PROVE PauseInv'
<1>1. PauseTypeOK' /\ moved' <= now'  BY DEF Transfers, PauseInv, PauseTypeOK
<1>2. ASSUME NEW t \in silence'.stable_since
      PROVE  /\ t <= now'
             /\ silence'.total_downloaded <= status'.total_downloaded
             /\ silence'.total_uploaded <= status'.total_uploaded
             /\ TotalsChanged'
  BY <1>2 DEF Transfers, PauseInv, PauseTypeOK, Watched, TotalsChanged
<1>3. ConfirmedIsSilent'  BY DEF Transfers, ConfirmedIsSilent
<1> QED  BY <1>1, <1>2, <1>3 DEF PauseInv, Watched

(* The rest moves no byte, and nothing happens after the wait has ended.    *)
LEMMA OthersKeep ==
  ASSUME PauseInv, Fails \/ Tick \/ PeerLeaves \/ PeerJoins \/ PausedOrResumed
  PROVE  PauseInv'
<1> USE DEF PauseInv, PauseTypeOK, Watched, TotalsChanged, ConfirmedIsSilent
<1>1. CASE Fails            BY <1>1 DEF Fails
<1>2. CASE Tick             BY <1>2 DEF Tick
<1>3. CASE PeerLeaves       BY <1>3 DEF PeerLeaves
<1>4. CASE PeerJoins        BY <1>4 DEF PeerJoins
<1>5. CASE PausedOrResumed  BY <1>5 DEF PausedOrResumed
<1> QED  BY <1>1, <1>2, <1>3, <1>4, <1>5

LEMMA PauseKeeps ==
  ASSUME PAUSE_QUIET_CONFIRMATION \in Nat, PauseInv, [Next]_vars PROVE PauseInv'
<1>1. CASE UNCHANGED vars
  BY <1>1 DEF vars, PauseInv, PauseTypeOK, Watched, TotalsChanged, ConfirmedIsSilent
<1> QED  BY <1>1, PollKeeps, TransfersKeep, OthersKeep DEF Next

-----------------------------------------------------------------------------
(* YtDlp: for any number of requests and calls.  Only the request that     *)
(* holds RESOLVE_LOCK writes the staging file, so that what it renames is  *)
(* what it has written itself.                                             *)
Downloading == {"downloading", "writing", "renaming"}
Copies == {"absent", "fresh", "stale", "truncated"}

ToolTypeOK ==
  /\ managed \in Copies /\ staging \in {"absent", "truncated", "whole"}
  /\ resolving \in [Requests -> [pc : Downloading \cup {"idle", "asking", "answered", "failed"},
                               tried : BOOLEAN, copy : Copies]]

(* Whoever downloads has the lock, and renames a complete file.             *)
OwnDownload ==
  \A r \in Requests :
    /\ resolving[r].pc \in Downloading => lock = r
    /\ resolving[r].pc = "renaming" => staging = "whole"

ToolInv == ToolTypeOK /\ Tool!InstalledToolIsWhole /\ OwnDownload

-----------------------------------------------------------------------------
LEMMA InitTool == Tool!Init => ToolInv
  BY DEF Tool!Init, ToolInv, ToolTypeOK, Tool!InstalledToolIsWhole, OwnDownload, Downloading, Copies, Tool!Idle

(* A request that downloads nothing leaves both files alone, and takes the  *)
(* lock only when it is free.                                               *)
LEMMA LookupKeeps ==
  ASSUME Tool!NoLock \notin Requests, ToolInv, NEW r \in Requests,
         Tool!Call(r) \/ Tool!AnswerCached(r) \/ Tool!StartDownload(r) \/ Tool!AnswerFound(r)
  PROVE  ToolInv'
<1> USE DEF ToolInv, ToolTypeOK, Tool!InstalledToolIsWhole, OwnDownload, Downloading, Copies
<1>1. CASE Tool!Call(r)           BY <1>1 DEF Tool!Call, Tool!Idle
<1>2. CASE Tool!AnswerCached(r)   BY <1>2 DEF Tool!AnswerCached, Tool!LockFree, Tool!Answer
<1>3. CASE Tool!StartDownload(r)  BY <1>3 DEF Tool!StartDownload, Tool!LockFree
<1>4. CASE Tool!AnswerFound(r)    BY <1>4 DEF Tool!AnswerFound, Tool!LockFree, Tool!Answer
<1> QED  BY <1>1, <1>2, <1>3, <1>4

(* The request that downloads is alone with the staging file.               *)
LEMMA DownloadKeeps ==
  ASSUME ToolInv, NEW r \in Requests,
         Tool!BytesArrive(r) \/ Tool!Written(r) \/ Tool!Renamed(r) \/ Tool!DownloadFails(r) \/ Tool!Dropped(r)
  PROVE  ToolInv'
<1> USE DEF ToolInv, ToolTypeOK, Tool!InstalledToolIsWhole, OwnDownload, Downloading, Copies
<1>1. CASE Tool!BytesArrive(r)    BY <1>1 DEF Tool!BytesArrive, Tool!Goto
<1>2. CASE Tool!Written(r)        BY <1>2 DEF Tool!Written, Tool!Goto
<1>3. CASE Tool!Renamed(r)        BY <1>3 DEF Tool!Renamed, Tool!Answer
<1>4. CASE Tool!DownloadFails(r)
  <2>1. CASE managed = "absent"  BY <1>4, <2>1 DEF Tool!DownloadFails, Tool!Goto
  <2>2. CASE managed # "absent"  BY <1>4, <2>2 DEF Tool!DownloadFails, Tool!Answer
  <2> QED  BY <2>1, <2>2
<1>5. CASE Tool!Dropped(r)        BY <1>5 DEF Tool!Dropped, Tool!Goto
<1> QED  BY <1>1, <1>2, <1>3, <1>4, <1>5

(* Time, the user and a crash: after a crash nobody downloads.              *)
LEMMA WorldKeeps == ASSUME ToolInv, Tool!Ages \/ Tool!Removed \/ Tool!Crash PROVE ToolInv'
<1> USE DEF ToolInv, ToolTypeOK, Tool!InstalledToolIsWhole, OwnDownload, Downloading, Copies
<1>1. CASE Tool!Ages     BY <1>1 DEF Tool!Ages
<1>2. CASE Tool!Removed  BY <1>2 DEF Tool!Removed
<1>3. CASE Tool!Crash    BY <1>3 DEF Tool!Crash, Tool!Idle
<1> QED  BY <1>1, <1>2, <1>3

LEMMA ToolKeeps == ASSUME ToolInv, [Tool!Next]_(Tool!vars) PROVE ToolInv'
<1>1. CASE UNCHANGED Tool!vars
  BY <1>1 DEF Tool!vars, ToolInv, ToolTypeOK, Tool!InstalledToolIsWhole, OwnDownload
<1> QED  BY <1>1, RequestsAssumption, LookupKeeps, DownloadKeeps, WorldKeeps DEF Tool!Next, Tool!NoLock

-----------------------------------------------------------------------------
(* SettingsStore: for any number of requests and updates.  What makes a     *)
(* restart safe is that a write is handed the settings as they are, that a  *)
(* request which saves holds the lock for as long as its write goes on, and *)
(* that, until two uncovered writes meet, all writes under way agree.       *)
Writing(w) == settingsWriter[w].pc # "none"

(* A request saves with the lock, and what it saves are the settings.       *)
Handed ==
  \A r \in Requests :
    update[r] = "saving" => Writing(r) /\ settingsWriter[r].content = settings

(* Writes that did not race wrote the same.                                 *)
Agreeing ==
  ~raced =>
    /\ \A w, x \in Store!Writers :
         Writing(w) /\ Writing(x) /\ w # x =>
           w # Nothing /\ x # Nothing /\ settingsWriter[w].content = settingsWriter[x].content
    /\ \A w \in Store!Writers : ~settingsWriter[w].mixed

(* What was last handed to a write is under way, or in the file.            *)
Latest ==
  ~owed /\ ~raced =>
    /\ \A w \in Store!Writers : Writing(w) => settingsWriter[w].content = settings
    /\ (\A w \in Store!Writers : ~Writing(w)) => Store!Loaded = settings

StoreInv == Store!TypeOK /\ Handed /\ Agreeing /\ Latest

Writes == [pc : {"none", "queued", "open"}, content : Store!Settings, mixed : BOOLEAN]

LEMMA NothingWritten ==
  Store!Defaults \in Store!Settings /\ Store!NoWrite \in Writes
    /\ Store!NoWrite.pc = "none" /\ ~Store!NoWrite.mixed
<1>1. Store!Defaults \in Store!Settings
  BY RequestsAssumption DEF Store!Defaults, Store!Settings
<1> QED  BY <1>1 DEF Store!NoWrite, Writes

LEMMA InitStore == Store!Init => StoreInv
<1> SUFFICES ASSUME Store!Init PROVE StoreInv  OBVIOUS
<1>1. settingsWriter \in [Store!Writers -> Writes]  BY NothingWritten DEF Store!Init
<1>2. settingsFile \in [state : {"absent", "torn", "whole"}, content : Store!Settings]
  BY NothingWritten DEF Store!Init
<1>3. Store!TypeOK  BY <1>1, <1>2, NothingWritten DEF Store!Init, Store!TypeOK, Writes
<1>4. Handed /\ Agreeing /\ Latest
  BY NothingWritten DEF Store!Init, Handed, Agreeing, Latest, Writing, Store!Loaded
<1> QED  BY <1>3, <1>4 DEF StoreInv

(* A save is handed the settings of the moment, and races with what the     *)
(* lock does not cover.                                                     *)
LEMMA WriteKeeps ==
  ASSUME StoreInv, NEW w \in Store!Writers, Store!Write(w, settings'), settings' \in Store!Settings,
         UNCHANGED settingsFile,
         w # Nothing => UNCHANGED settings /\ update' = [update EXCEPT ![w] = "saving"],
         w = Nothing => UNCHANGED update /\ ~Store!ReadLocked,
         manager' = manager, saving' \in BOOLEAN
  PROVE  StoreInv'
<1> DEFINE c == [pc |-> "queued", content |-> settings', mixed |-> FALSE]
<1>1. /\ settingsWriter' = [settingsWriter EXCEPT ![w] = c]
      /\ owed' = FALSE /\ raced' \in BOOLEAN
      /\ ~raced' => ~raced /\ \A x \in Store!Others(w, settings') : ~Store!Uncovered(x)
  BY DEF Store!Write, StoreInv, Store!TypeOK
<1>2. settingsWriter \in [Store!Writers -> [pc : {"none", "queued", "open"}, content : Store!Settings,
                                            mixed : BOOLEAN]]
      /\ update \in [Requests -> {"idle", "merged", "applied", "saving"}]
  BY DEF StoreInv, Store!TypeOK
<1>3. settingsWriter'[w] = c /\ \A x \in Store!Writers \ {w} : settingsWriter'[x] = settingsWriter[x]
  BY <1>1, <1>2
<1>4. Store!TypeOK'
  <2>1. update' \in [Requests -> {"idle", "merged", "applied", "saving"}]
    BY <1>2 DEF Store!Writers
  <2>2. c \in [pc : {"none", "queued", "open"}, content : Store!Settings, mixed : BOOLEAN]
    OBVIOUS
  <2> HIDE DEF c
  <2>3. settingsWriter' \in [Store!Writers -> [pc : {"none", "queued", "open"}, content : Store!Settings,
                                               mixed : BOOLEAN]]
    BY <1>1, <1>2, <2>2
  <2>4. manager' \in [pc : {"starting", "waiting", "fetching"}, list : BOOLEAN]
        /\ settingsFile' \in [state : {"absent", "torn", "whole"}, content : Store!Settings]
    BY DEF StoreInv, Store!TypeOK
  <2> QED  BY <1>1, <2>1, <2>3, <2>4 DEF Store!TypeOK
<1>5. Handed'
  <2>1. CASE w = Nothing
    BY <2>1, <1>2, <1>3 DEF Handed, StoreInv, Store!ReadLocked, Writing, Store!Writers
  <2>2. CASE w # Nothing
    BY <2>2, <1>2, <1>3 DEF Handed, StoreInv, Writing, Store!Writers
  <2> QED  BY <2>1, <2>2
(* Until now nothing raced: whatever else is under way is covered, and of   *)
(* the same settings.                                                       *)
<1>6. ASSUME ~raced', NEW x \in Store!Writers, x # w, Writing(x)
      PROVE  w # Nothing /\ x # Nothing /\ settingsWriter[x].content = settings'
  <2>1. CASE x \in Store!Others(w, settings')
    <3>1. x # Nothing /\ x \in Requests /\ update[x] = "saving"
      BY <1>1, <1>6, <2>1 DEF Store!Uncovered, Store!At, Store!Writers
    <3> QED  BY <3>1 DEF Handed, StoreInv, Store!ReadLocked
  <2>2. CASE x \notin Store!Others(w, settings')
    BY <1>6, <2>2 DEF Store!Others, Writing
  <2> QED  BY <2>1, <2>2
<1>7. Agreeing'
  BY <1>1, <1>3, <1>6 DEF Agreeing, StoreInv, Writing
<1>8. Latest'
  BY <1>1, <1>3, <1>6 DEF Latest, Writing
<1> QED  BY <1>4, <1>5, <1>7, <1>8 DEF StoreInv

(* Requests up to their save, and the tracker manager, leave the file and   *)
(* the writes alone.                                                        *)
LEMMA AskKeeps ==
  ASSUME StoreInv,
         \/ Store!LoadFromCache \/ Store!KeepList \/ Store!StartFetch \/ Store!FetchFails \/ Store!Ranked
         \/ \E r \in Requests : Store!Merge(r) \/ Store!Apply(r) \/ Store!DropRequest(r)
  PROVE  StoreInv'
<1>1. CASE Store!LoadFromCache \/ Store!KeepList \/ Store!StartFetch \/ Store!FetchFails \/ Store!Ranked
  <2>1. UNCHANGED <<settings, settingsFile, update, settingsWriter, owed, raced>>
    BY <1>1 DEF Store!LoadFromCache, Store!KeepList, Store!StartFetch, Store!FetchFails, Store!Ranked
  <2>2. manager' \in [pc : {"starting", "waiting", "fetching"}, list : BOOLEAN] /\ saving' \in BOOLEAN
    <3>1. settings.trackers \in BOOLEAN /\ manager \in [pc : {"starting", "waiting", "fetching"}, list : BOOLEAN]
          /\ saving \in BOOLEAN
      BY DEF StoreInv, Store!TypeOK, Store!Settings
    <3>2. CASE Store!LoadFromCache  BY <3>1, <3>2 DEF Store!LoadFromCache
    <3>3. CASE Store!KeepList       BY <3>1, <3>3 DEF Store!KeepList
    <3>4. CASE Store!StartFetch     BY <3>1, <3>4 DEF Store!StartFetch
    <3>5. CASE Store!FetchFails     BY <3>1, <3>5 DEF Store!FetchFails
    <3>6. CASE Store!Ranked         BY <3>1, <3>6 DEF Store!Ranked
    <3> QED  BY <1>1, <3>2, <3>3, <3>4, <3>5, <3>6
  <2> QED
    BY <2>1, <2>2 DEF StoreInv, Store!TypeOK, Handed, Agreeing, Latest, Writing, Store!Loaded
<1>2. ASSUME NEW r \in Requests, Store!Merge(r) PROVE StoreInv'
  <2>1. settings' = [settings EXCEPT !.user = @ + 1] /\ settings' \in Store!Settings
    BY <1>2, RequestsAssumption DEF Store!Merge, StoreInv, Store!TypeOK, Store!Settings
  <2>2. /\ owed' /\ UNCHANGED <<settingsFile, manager, saving, settingsWriter, raced>>
        /\ update' = [update EXCEPT ![r] = "merged"] /\ ~Store!ReadLocked
    BY <1>2 DEF Store!Merge, Store!Goto, Store!WriteLockFree
  <2>3. Store!TypeOK'  BY <2>1, <2>2 DEF StoreInv, Store!TypeOK
  <2>4. Handed'  BY <2>2 DEF StoreInv, Store!TypeOK, Handed, Store!ReadLocked
  <2> QED  BY <2>2, <2>3, <2>4 DEF StoreInv, Agreeing, Latest, Writing
<1>3. ASSUME NEW r \in Requests, Store!Apply(r) \/ Store!DropRequest(r) PROVE StoreInv'
  <2>1. /\ UNCHANGED <<settings, settingsFile, manager, saving, settingsWriter, owed, raced>>
        /\ \E pc \in {"applied", "idle"} : update' = [update EXCEPT ![r] = pc]
    BY <1>3 DEF Store!Apply, Store!DropRequest, Store!Goto
  <2>2. Store!TypeOK'  BY <2>1 DEF StoreInv, Store!TypeOK
  <2>3. Handed'  BY <2>1 DEF StoreInv, Store!TypeOK, Handed, Writing
  <2> QED  BY <2>1, <2>2, <2>3 DEF StoreInv, Agreeing, Latest, Writing, Store!Loaded
<1> QED  BY <1>1, <1>2, <1>3

(* A write opens: what it mixes with, it raced with.                        *)
LEMMA OpenKeeps ==
  ASSUME StoreInv, NEW w \in Store!Writers, Store!WriteOpens(w) PROVE StoreInv'
<1> DEFINE Type == [pc : {"none", "queued", "open"}, content : Store!Settings, mixed : BOOLEAN]
<1>1. /\ settingsWriter \in [Store!Writers -> Type] /\ Writing(w)
      /\ UNCHANGED <<settings, update, manager, saving, owed, raced>>
      /\ settingsFile' = [settingsFile EXCEPT !.state = "torn"]
  BY DEF StoreInv, Store!TypeOK, Store!WriteOpens, Writing
<1>2. PICK others \in SUBSET Store!Others(w, settingsWriter[w].content) :
        settingsWriter' = [x \in Store!Writers |->
                             IF x = w THEN [settingsWriter[w] EXCEPT !.pc = "open", !.mixed = (others # {})]
                             ELSE [settingsWriter[x] EXCEPT !.mixed = @ \/ x \in others]]
  BY DEF Store!WriteOpens
<1>3. /\ settingsWriter' \in [Store!Writers -> Type]
      /\ \A x \in Store!Writers : /\ settingsWriter'[x].content = settingsWriter[x].content
                                  /\ Writing(x)' <=> Writing(x)
                                  /\ settingsWriter'[x].mixed => settingsWriter[x].mixed \/ others # {}
  BY <1>1, <1>2 DEF Writing
<1>4. ~raced => others = {}
  <2>1. ASSUME ~raced, NEW x \in others PROVE FALSE
    <3>1. x \in Store!Writers /\ x # w /\ Writing(x)
          /\ (Nothing \in {w, x} \/ settingsWriter[x].content # settingsWriter[w].content)
      BY <2>1 DEF Store!Others, Writing
    <3> QED  BY <1>1, <2>1, <3>1 DEF StoreInv, Agreeing
  <2> QED  BY <2>1
<1>5. Store!TypeOK'
  BY <1>1, <1>3 DEF StoreInv, Store!TypeOK
<1> HIDE DEF Type
<1>6. Handed'
  BY <1>1, <1>3 DEF StoreInv, Handed, Store!Writers
<1>7. Agreeing'
  BY <1>1, <1>3, <1>4 DEF StoreInv, Agreeing
<1>8. Latest'
  BY <1>1, <1>3 DEF StoreInv, Latest
<1> QED  BY <1>5, <1>6, <1>7, <1>8 DEF StoreInv

(* A write ends, and the lock is given back.                                *)
LEMMA EndKeeps ==
  ASSUME StoreInv, NEW w \in Store!Writers, Store!WriteEnds(w) \/ Store!WriteFails(w) PROVE StoreInv'
<1>1. /\ settingsWriter' = [settingsWriter EXCEPT ![w] = Store!NoWrite]
      /\ update' = [r \in Requests |-> IF r = w /\ update[r] = "saving" THEN "idle" ELSE update[r]]
      /\ UNCHANGED <<settings, manager, saving, raced>>
      /\ Writing(w)
  BY DEF Store!WriteEnds, Store!WriteFails, Store!Over, Store!At, Writing
<1>2. /\ settingsWriter \in [Store!Writers -> [pc : {"none", "queued", "open"}, content : Store!Settings,
                                               mixed : BOOLEAN]]
      /\ update \in [Requests -> {"idle", "merged", "applied", "saving"}]
  BY DEF StoreInv, Store!TypeOK
<1>3. \A x \in Store!Writers : settingsWriter'[x] = IF x = w THEN Store!NoWrite ELSE settingsWriter[x]
  BY <1>1, <1>2
<1>4. Store!NoWrite \in [pc : {"none", "queued", "open"}, content : Store!Settings, mixed : BOOLEAN]
      /\ Store!NoWrite.pc = "none" /\ ~Store!NoWrite.mixed
  BY NothingWritten DEF Writes
<1>5. \/ owed' /\ UNCHANGED settingsFile
      \/ owed' = owed /\ \E state \in {"whole"} \cup (IF settingsWriter[w].mixed THEN {"torn"} ELSE {}) :
            settingsFile' = [state |-> state, content |-> settingsWriter[w].content]
  BY DEF Store!WriteEnds, Store!WriteFails
<1>6. Store!TypeOK'
  <2>1. settingsFile' \in [state : {"absent", "torn", "whole"}, content : Store!Settings] /\ owed' \in BOOLEAN
    <3>1. settingsWriter[w].content \in Store!Settings
      BY <1>2
    <3>2. \A state \in {"whole", "torn"} :
             [state |-> state, content |-> settingsWriter[w].content]
               \in [state : {"absent", "torn", "whole"}, content : Store!Settings]
      BY <3>1
    <3>3. /\ settingsFile \in [state : {"absent", "torn", "whole"}, content : Store!Settings]
          /\ owed \in BOOLEAN
          /\ Store!WriteEnds(w) => owed' = owed
          /\ Store!WriteFails(w) => owed' = TRUE
      BY DEF StoreInv, Store!TypeOK, Store!WriteEnds, Store!WriteFails
    <3> QED  BY <1>5, <3>2, <3>3
  <2>2. settingsWriter' \in [Store!Writers -> [pc : {"none", "queued", "open"}, content : Store!Settings,
                                               mixed : BOOLEAN]]
    BY <1>1, <1>2, <1>4
  <2>3. update' \in [Requests -> {"idle", "merged", "applied", "saving"}]
    BY <1>1, <1>2
  <2> QED  BY <1>1, <2>1, <2>2, <2>3 DEF StoreInv, Store!TypeOK
<1>7. Handed'
  BY <1>1, <1>2, <1>3 DEF StoreInv, Handed, Writing, Store!Writers
<1>8. Agreeing'
  BY <1>1, <1>3, <1>4 DEF StoreInv, Agreeing, Writing
<1>9. Latest'
  <2> SUFFICES ASSUME ~owed', ~raced' PROVE Latest'
    BY DEF Latest
  <2>1. ~owed /\ ~raced /\ settingsFile' = [state |-> "whole", content |-> settings]
    BY <1>1, <1>5 DEF StoreInv, Agreeing, Latest
  <2> QED
    BY <1>1, <1>3, <1>4, <2>1 DEF StoreInv, Latest, Writing, Store!Loaded
<1> QED  BY <1>6, <1>7, <1>8, <1>9 DEF StoreInv

LEMMA StoreKeeps == ASSUME StoreInv, [Store!Next]_(Store!vars) PROVE StoreInv'
<1>1. CASE UNCHANGED Store!vars
  BY <1>1 DEF Store!vars, StoreInv, Store!TypeOK, Handed, Agreeing, Latest, Writing, Store!Loaded
<1>2. CASE Store!SaveTrackers
  <2>1. settings' \in Store!Settings
    BY <1>2 DEF Store!SaveTrackers, StoreInv, Store!TypeOK, Store!Settings
  <2> QED  BY <1>2, <2>1, WriteKeeps DEF Store!SaveTrackers, Store!WriteLockFree, Store!Writers
<1>3. ASSUME NEW r \in Requests, Store!SaveSettings(r) PROVE StoreInv'
  <2>1. r \in Store!Writers /\ r # Nothing /\ saving \in BOOLEAN /\ settings \in Store!Settings
    BY RequestsAssumption DEF Store!Writers, StoreInv, Store!TypeOK
  <2>2. settings' = settings
    BY <1>3 DEF Store!SaveSettings
  <2>3. Store!Write(r, settings')
    BY <1>3, <2>2 DEF Store!SaveSettings
  <2> QED  BY <1>3, <2>1, <2>2, <2>3, WriteKeeps DEF Store!SaveSettings, Store!Goto
<1>4. CASE Store!Restart
  <2>1. Store!Loaded \in Store!Settings
    BY RequestsAssumption DEF StoreInv, Store!TypeOK, Store!Loaded, Store!Defaults, Store!Settings
  <2>2. Store!TypeOK'
    <3>1. settingsWriter' \in [Store!Writers -> Writes] /\ update' \in [Requests -> {"idle", "merged", "applied", "saving"}]
      BY <1>4, NothingWritten DEF Store!Restart
    <3> QED  BY <1>4, <2>1, <3>1 DEF Store!Restart, StoreInv, Store!TypeOK, Writes
  <2>3. Handed'  BY <1>4 DEF Store!Restart, Handed
  <2>4. Agreeing' /\ Latest'
    BY <1>4 DEF Store!Restart, Agreeing, Latest, Writing, Store!NoWrite, Store!Loaded
  <2> QED  BY <2>2, <2>3, <2>4 DEF StoreInv
<1> QED
  BY <1>1, <1>2, <1>3, <1>4, AskKeeps, OpenKeeps, EndKeeps DEF Store!Next

-----------------------------------------------------------------------------
(* StreamRequests: for any number of players and any size of the files.     *)
(* A request asks from where the last one was cut; the interval it is       *)
(* answered with starts there and ends within the file; and what the body   *)
(* has left is what its headers announced but for what was sent.            *)
Ranges ==
  {[form |-> "none"], [form |-> "bad"]}
  \cup [form : {"from", "suffix"}, n : Nat] \cup [form : {"both"}, n : Nat, m : Nat]

Asks ==
  [pc : {"asked", "ranged", "answered"}, method : Route!Methods, requested : {-1, 1, 3},
   filtered : BOOLEAN, range : Ranges, download : BOOLEAN, hls : BOOLEAN, priority : {0, 1, 255}]

Opens ==
  [pc : {"ready", "answered"}, method : Route!Methods, requested : {-1, 1, 3},
   filtered : BOOLEAN, range : Ranges, download : BOOLEAN, hls : BOOLEAN, priority : {0, 1, 255},
   fallback : BOOLEAN, storage : {"disk", "memory"}]

TwoFiles == DOMAIN files = {1, 2} /\ \A i \in {1, 2} : files[i].length \in Nat

IntervalOf(p) == Route!Interval(request[p].range, Route!SizeOf(p))

(* A range is asked from the end of what the player holds.                  *)
AskedOn(p) ==
  /\ request[p].range.form \in {"from", "both"} => request[p].range.n = Len(held[p])
  /\ request[p].range.form = "none" => Len(held[p]) = 0

Resumed(p) ==
  held[p] \in Seq(Nat) /\ \A k \in 1..Len(held[p]) : held[p][k] = k - 1

Bodies == [pos : Nat, left : Nat, sent : Nat, intent : Route!PlaybackIntent]

(* The body is where its headers say that it is.                            *)
Announced(p) ==
  /\ body[p] \in Bodies
  /\ response[p].length \in Nat /\ response[p].end \in Nat
  /\ body[p].left + body[p].sent = response[p].length
  /\ body[p].pos + body[p].left = response[p].end + 1
  /\ response[p].end < Route!SizeOf(p)
  /\ Route!Keeps(p) => body[p].pos = Len(held[p])

RequestSound(p) ==
  /\ Resumed(p)
  /\ request[p] = Route!NoRequest \/ request[p] \in Asks \cup Opens
  /\ request[p].pc \in {"asked", "ranged", "ready"} => AskedOn(p)
  /\ request[p].pc \in {"ranged", "ready"} => Route!FileOf(p) # 0 /\ IntervalOf(p) # <<>>
  /\ body[p] # Nothing => request[p].pc = "answered" /\ Announced(p)

RouteInv ==
  /\ TwoFiles
  /\ request = [p \in Players |-> request[p]] /\ response = [p \in Players |-> response[p]]
  /\ body = [p \in Players |-> body[p]] /\ held = [p \in Players |-> held[p]]
  /\ \A p \in Players : RequestSound(p)

(* resolve_file_idx: a file of the torrent, or none.                        *)
LEMMA ResolvesToAFile ==
  ASSUME TwoFiles, NEW n \in {-1, 1, 3}, NEW b \in BOOLEAN
  PROVE  Route!resolve_file_idx(n, b) \in 0..2
<1>1. ASSUME NEW S \in SUBSET {1, 2}, S # {} PROVE Route!Longest(S) \in S
  <2>1. \E i \in S : \A j \in S \ {i} :
          files[j].length < files[i].length \/ (files[j].length = files[i].length /\ j < i)
    <3>1. files[1].length \in Nat /\ files[2].length \in Nat  BY DEF TwoFiles
    <3>2. S = {1} \/ S = {2} \/ S = {1, 2}  BY <1>1
    <3>3. CASE S = {1} \/ S = {2}  BY <3>3
    <3>4. CASE S = {1, 2}
      <4>1. CASE files[1].length <= files[2].length
        <5>1. 2 \in S /\ \A j \in S \ {2} : j = 1  BY <3>4
        <5>2. files[1].length < files[2].length \/ files[1].length = files[2].length  BY <3>1, <4>1
        <5>3. \A j \in S \ {2} :
                files[j].length < files[2].length \/ (files[j].length = files[2].length /\ j < 2)
          <6> TAKE j \in S \ {2}
          <6>1. j = 1  BY <5>1
          <6> QED  BY ONLY <5>2, <6>1
        <5> QED  BY <5>1, <5>3
      <4>2. CASE files[1].length > files[2].length
        <5>1. 1 \in S /\ \A j \in S \ {1} : j = 2  BY <3>4
        <5>2. files[2].length < files[1].length  BY <3>1, <4>2
        <5>3. \A j \in S \ {1} :
                files[j].length < files[1].length \/ (files[j].length = files[1].length /\ j < 1)
          <6> TAKE j \in S \ {1}
          <6>1. j = 2  BY <5>1
          <6> QED  BY ONLY <5>2, <6>1
        <5> QED  BY <5>1, <5>3
      <4>3. files[1].length <= files[2].length \/ files[1].length > files[2].length  BY <3>1
      <4> QED  BY <4>1, <4>2, <4>3
    <3> QED  BY <3>2, <3>3, <3>4
  <2> QED  BY <2>1 DEF Route!Longest
<1>2. Route!Matches # {} => (CHOOSE i \in Route!Matches : \A j \in Route!Matches : i <= j) \in Route!Matches
  <2>1. Route!Matches \in SUBSET {1, 2}  BY DEF TwoFiles, Route!Matches
  <2>2. Route!Matches # {} => \E i \in Route!Matches : \A j \in Route!Matches : i <= j
    <3>1. CASE 1 \in Route!Matches  BY <2>1, <3>1
    <3>2. CASE 1 \notin Route!Matches
      <4>1. Route!Matches = {} \/ Route!Matches = {2}  BY <2>1, <3>2
      <4> QED  BY <4>1
    <3> QED  BY <3>1, <3>2
  <2> QED  BY <2>2
<1>3. Route!Matches \in SUBSET {1, 2} /\ Route!Videos \in SUBSET {1, 2} /\ DOMAIN files = {1, 2}
  BY DEF TwoFiles, Route!Matches, Route!Videos
<1>4. Route!Longest(IF Route!Videos # {} THEN Route!Videos ELSE DOMAIN files) \in {1, 2}
  BY <1>1, <1>3
<1>5. CASE n # -1
  <2>1. Route!resolve_file_idx(n, b) = IF n \in DOMAIN files THEN n ELSE 0
    BY <1>5 DEF Route!resolve_file_idx
  <2> QED  BY <1>3, <2>1
<1>6. CASE n = -1 /\ b /\ Route!Matches # {}
  <2>1. Route!resolve_file_idx(n, b) = CHOOSE i \in Route!Matches : \A j \in Route!Matches : i <= j
    BY <1>6 DEF Route!resolve_file_idx
  <2>2. Route!resolve_file_idx(n, b) \in Route!Matches  BY <1>2, <1>6, <2>1
  <2>3. \A i \in Route!Matches : i \in 0..2  BY <1>3
  <2> QED  BY <2>2, <2>3
<1>7. CASE n = -1 /\ ~(b /\ Route!Matches # {})
  <2>1. Route!resolve_file_idx(n, b) =
          Route!Longest(IF Route!Videos # {} THEN Route!Videos ELSE DOMAIN files)
    BY <1>7 DEF Route!resolve_file_idx
  <2> QED  BY <1>4, <2>1
<1> QED  BY <1>5, <1>6, <1>7

(* The file of a request is the same for as long as the request is.         *)
LEMMA SameFile ==
  ASSUME NEW p \in Players, files' = files,
         request'[p].requested = request[p].requested, request'[p].filtered = request[p].filtered,
         request'[p].range = request[p].range
  PROVE  /\ Route!FileOf(p)' = Route!FileOf(p) /\ Route!SizeOf(p)' = Route!SizeOf(p)
         /\ IntervalOf(p)' = IntervalOf(p) /\ Route!Keeps(p)' = Route!Keeps(p)
<1>1. Route!Matches' = Route!Matches /\ Route!Videos' = Route!Videos
  BY DEF Route!Matches, Route!Videos
<1>2. ASSUME NEW S PROVE Route!Longest(S)' = Route!Longest(S)
  BY DEF Route!Longest
<1>3. Route!FileOf(p)' = Route!FileOf(p)
  BY <1>1 DEF Route!FileOf, Route!resolve_file_idx, Route!Longest
<1>4. Route!SizeOf(p)' = Route!SizeOf(p)
  BY <1>3 DEF Route!SizeOf
<1>5. IntervalOf(p)' = IntervalOf(p)
  BY <1>4
  DEF IntervalOf, Route!Interval, Route!parse_range, Route!Whole, Route!CutAtEnd,
      Route!Lower, Route!Higher
<1>6. Route!Keeps(p)' = Route!Keeps(p)  BY DEF Route!Keeps
<1> QED  BY <1>3, <1>4, <1>5, <1>6

(* parse_range: what it gives lies in the file, from where it was asked.    *)
LEMMA IntervalsFit ==
  ASSUME NEW size \in Nat, NEW range \in Ranges, Route!Interval(range, size) # <<>>
  PROVE  \E first, last \in Nat :
            /\ Route!Interval(range, size) = <<first, last>>
            /\ first < size => first <= last /\ last < size
            /\ range.form \in {"from", "both"} => first = range.n
            /\ range.form = "none" => first = 0
<1> USE DEF Route!Interval, Route!Lower, Route!Higher
<1>1. CASE range.form = "none"
  BY <1>1 DEF Route!Whole
<1>2. CASE range.form # "none"
  <2>1. size > 0 /\ range.form # "bad" /\ Route!parse_range(range, size) # <<>>
    <3>1. Route!parse_range(range, size) # <<>>  BY <1>2
    <3>2. size = 0 \/ range.form = "bad" => Route!parse_range(range, size) = <<>>
      BY DEF Route!parse_range
    <3> QED  BY <3>1, <3>2
  <2>2. CASE range.form = "suffix"
    <3>1. range.n \in Nat  BY <2>2 DEF Ranges
    <3>2. range.n # 0 /\ Route!parse_range(range, size) = <<Route!Higher(size - range.n, 0), size - 1>>
      BY <2>1, <2>2 DEF Route!parse_range
    <3> QED  BY <1>2, <2>1, <2>2, <3>1, <3>2
  <2>3. CASE range.form = "from"
    <3>1. range.n \in Nat  BY <2>3 DEF Ranges
    <3>2. range.n < size /\ Route!parse_range(range, size) = <<range.n, size - 1>>
      BY <2>1, <2>3, <3>1 DEF Route!parse_range
    <3> QED  BY <1>2, <2>1, <2>3, <3>1, <3>2
  <2>4. CASE range.form = "both"
    <3>1. range.n \in Nat /\ range.m \in Nat  BY <2>4 DEF Ranges
    <3>2. /\ range.n < size /\ range.n <= range.m
          /\ Route!parse_range(range, size) = <<range.n, Route!Lower(range.m, size - 1)>>
      BY <2>1, <2>4, <3>1 DEF Route!parse_range, Route!CutAtEnd
    <3> QED  BY <1>2, <2>1, <2>4, <3>1, <3>2
  <2>5. range.form \in {"none", "bad", "suffix", "from", "both"}  BY DEF Ranges
  <2> QED  BY <1>2, <2>1, <2>2, <2>3, <2>4, <2>5
<1> QED  BY <1>1, <1>2

LEMMA InitRoute == Route!Init => RouteInv
<1> SUFFICES ASSUME Route!Init PROVE RouteInv  OBVIOUS
<1>1. TwoFiles
  BY RequestsAssumption DEF Route!Init, TwoFiles
<1>2. \A p \in Players : RequestSound(p)
  BY DEF Route!Init, Route!NoRequest, RequestSound, Resumed
<1> QED  BY <1>1, <1>2 DEF Route!Init, RouteInv

(* A request goes on: only its place, and what it was answered, change.     *)
LEMMA PlaceMoves ==
  ASSUME NEW r \in Asks \cup Opens, NEW pc \in {"ranged", "answered"},
         pc = "ranged" => r \in Asks
  PROVE  LET q == [r EXCEPT !.pc = pc]
         IN /\ q \in Asks \cup Opens /\ q.pc = pc
            /\ q.requested = r.requested /\ q.filtered = r.filtered /\ q.range = r.range
<1>1. CASE r \in Asks  BY <1>1 DEF Asks
<1>2. CASE r \in Opens /\ pc = "answered"  BY <1>2 DEF Opens
<1> QED  BY <1>1, <1>2

LEMMA BodyMoves ==
  ASSUME NEW c \in Bodies, c.left > 0
  PROVE  LET b == [c EXCEPT !.pos = @ + 1, !.left = @ - 1, !.sent = @ + 1]
         IN b \in Bodies /\ b.pos = c.pos + 1 /\ b.left = c.left - 1 /\ b.sent = c.sent + 1
<1> DEFINE Set == Route!PlaybackIntent
<1> HIDE DEF Set
<1>1. c \in [pos : Nat, left : Nat, sent : Nat, intent : Set]  BY DEF Bodies, Set
<1> DEFINE x == c.pos + 1
           l == c.left - 1
           n == c.sent + 1
           b == [c EXCEPT !.pos = x, !.left = l, !.sent = n]
<1>2. x \in Nat /\ l \in Nat /\ n \in Nat  BY <1>1
<1>3. b = [c EXCEPT !.pos = @ + 1, !.left = @ - 1, !.sent = @ + 1]  OBVIOUS
<1> HIDE DEF x, l, n
<1>4. b \in [pos : Nat, left : Nat, sent : Nat, intent : Set] /\ b.pos = x /\ b.left = l /\ b.sent = n
  BY <1>1, <1>2
<1> HIDE DEF b
<1> QED  BY <1>3, <1>4 DEF Bodies, Set, x, l, n

LEMMA IntentIsOne ==
  ASSUME NEW r \in Asks \cup Opens, NEW start, NEW len, NEW size
  PROVE  Route!playback_intent_for_request(r, start, len, size) \in Route!PlaybackIntent
<1>1. r.priority \in {0, 1, 255} /\ r.download \in BOOLEAN  BY DEF Asks, Opens
<1> QED
  BY <1>1
  DEF Route!playback_intent_for_request, Route!PlaybackIntent, Route!DirectIntents,
      Route!HlsIntents, Route!Downloads

LEMMA RouteStepKeeps ==
  ASSUME RouteInv, NEW p \in Players,
         \/ Route!Ask(p) \/ Route!EngineFails(p) \/ Route!Ranged(p) \/ Route!CheckDisk(p)
         \/ Route!DiskUnready(p) \/ Route!OpenReader(p) \/ Route!ReaderFails(p)
         \/ Route!ReadBody(p) \/ Route!RequestOver(p)
  PROVE  RouteInv'
<1>1. /\ TwoFiles /\ RequestSound(p) /\ Resumed(p)
      /\ request = [q \in Players |-> request[q]] /\ response = [q \in Players |-> response[q]]
      /\ body = [q \in Players |-> body[q]] /\ held = [q \in Players |-> held[q]]
  BY DEF RouteInv, RequestSound
(* The others' requests stay as they are.                                   *)
<1>2. ASSUME NEW r, NEW a, NEW b, NEW h,
             request' = [request EXCEPT ![p] = r], response' = [response EXCEPT ![p] = a],
             body' = [body EXCEPT ![p] = b], held' = [held EXCEPT ![p] = h],
             files' = files, RequestSound(p)'
      PROVE  RouteInv'
  <2>1. ASSUME NEW q \in Players, q # p PROVE RequestSound(q)'
    <3>1. /\ request'[q] = request[q] /\ response'[q] = response[q]
          /\ body'[q] = body[q] /\ held'[q] = held[q]
      BY <1>1, <1>2, <2>1
    <3>2. RequestSound(q)  BY DEF RouteInv
    <3>3. Route!FileOf(q)' = Route!FileOf(q) /\ Route!SizeOf(q)' = Route!SizeOf(q)
          /\ IntervalOf(q)' = IntervalOf(q) /\ Route!Keeps(q)' = Route!Keeps(q)
      BY <1>2, <3>1, SameFile
    <3> QED
      BY <3>1, <3>2, <3>3 DEF RequestSound, Resumed, AskedOn, Announced
  <2>2. /\ request' = [q \in Players |-> request'[q]] /\ response' = [q \in Players |-> response'[q]]
        /\ body' = [q \in Players |-> body'[q]] /\ held' = [q \in Players |-> held'[q]]
    BY <1>1, <1>2
  <2> QED  BY <1>1, <1>2, <2>1, <2>2 DEF RouteInv, TwoFiles
<1>3. ASSUME NEW r, request' = [request EXCEPT ![p] = r], files' = files,
             r.requested = request[p].requested, r.filtered = request[p].filtered,
             r.range = request[p].range
      PROVE  /\ Route!FileOf(p)' = Route!FileOf(p) /\ Route!SizeOf(p)' = Route!SizeOf(p)
             /\ IntervalOf(p)' = IntervalOf(p) /\ Route!Keeps(p)' = Route!Keeps(p)
  <2>1. request'[p] = r  BY <1>1, <1>3
  <2> QED  BY <1>3, <2>1, SameFile
<1> DEFINE q == request[p]
<1>4. q.pc \in {"asked", "ranged", "ready"} =>
        q \in Asks \cup Opens /\ body[p] = Nothing /\ AskedOn(p)
  BY <1>1 DEF RequestSound, Route!NoRequest
<1>5. q.pc \in {"asked", "ranged"} => q \in Asks
  BY <1>4 DEF Opens
<1>6. q \in Asks \cup Opens => Route!FileOf(p) \in 0..2
  <2>1. ASSUME q \in Asks \cup Opens PROVE q.requested \in {-1, 1, 3} /\ q.filtered \in BOOLEAN
    BY <2>1 DEF Asks, Opens
  <2> QED  BY <1>1, <2>1, ResolvesToAFile DEF Route!FileOf
(* It is answered without a body.                                           *)
<1>7. ASSUME request[p].pc \in {"asked", "ranged", "ready"},
             request' = [request EXCEPT ![p].pc = "answered"],
             \E a : response' = [response EXCEPT ![p] = a], UNCHANGED <<files, body, held>>
      PROVE  RouteInv'
  <2> DEFINE r == [q EXCEPT !.pc = "answered"]
  <2>1. r \in Asks \cup Opens /\ r.pc = "answered"  BY <1>4, <1>7, PlaceMoves
  <2>2. request' = [request EXCEPT ![p] = r]  BY <1>1, <1>7
  <2> HIDE DEF r
  <2>3. request'[p] = r /\ body'[p] = Nothing /\ held'[p] = held[p]  BY <1>1, <1>4, <1>7, <2>2
  <2>4. RequestSound(p)'  BY <1>1, <2>1, <2>3 DEF RequestSound, Resumed
  <2>5. body' = [body EXCEPT ![p] = body[p]] /\ held' = [held EXCEPT ![p] = held[p]]  BY <1>1, <1>7
  <2>6. PICK a : response' = [response EXCEPT ![p] = a]  BY <1>7
  <2>7. files' = files  BY <1>7
  <2> QED  BY <1>2, <2>2, <2>4, <2>5, <2>6, <2>7
(* It goes on to its reader.                                                *)
<1>8. ASSUME NEW r \in Asks \cup Opens, r.pc \in {"ranged", "ready"},
             q.pc \in {"asked", "ranged"}, request' = [request EXCEPT ![p] = r],
             r.requested = q.requested, r.filtered = q.filtered, r.range = q.range,
             Route!FileOf(p) # 0, IntervalOf(p) # <<>>, UNCHANGED <<files, response, body, held>>
      PROVE  RouteInv'
  <2>1. request'[p] = r /\ body'[p] = Nothing /\ held'[p] = held[p]  BY <1>1, <1>4, <1>8
  <2>2. Route!FileOf(p)' # 0 /\ IntervalOf(p)' # <<>>  BY <1>3, <1>8
  <2>3. AskedOn(p)'  BY <1>4, <1>8, <2>1 DEF AskedOn
  <2>4. RequestSound(p)'  BY <1>1, <1>8, <2>1, <2>2, <2>3 DEF RequestSound, Resumed
  <2>5. /\ body' = [body EXCEPT ![p] = body[p]] /\ held' = [held EXCEPT ![p] = held[p]]
        /\ response' = [response EXCEPT ![p] = response[p]]
    BY <1>1, <1>8
  <2>6. files' = files /\ request' = [request EXCEPT ![p] = r]  BY <1>8
  <2> QED  BY <1>2, <2>4, <2>5, <2>6
<1>9. CASE Route!Ask(p)
  <2>1. PICK r : /\ request' = [request EXCEPT ![p] = r] /\ r \in Asks /\ r.pc = "asked"
                 /\ r.range \in Route!Asked(p)
    <3>1. PICK method \in Route!Methods, requested \in {-1, 1, 3}, range \in Route!Asked(p),
               download \in BOOLEAN, hls \in BOOLEAN, priority \in {0, 1, 255} :
             /\ download => ~hls /\ priority = 1 /\ requested = 1
             /\ priority # 1 => ~hls /\ requested = 1 /\ range.form = "none"
             /\ request' = [request EXCEPT ![p] =
                  [pc |-> "asked", method |-> method, requested |-> requested, filtered |-> TRUE,
                   range |-> range, download |-> download, hls |-> hls, priority |-> priority]]
      BY <1>9, Zenon DEF Route!Ask
    <3>2. range \in Ranges
      <4>1. Len(held[p]) \in Nat  BY <1>1 DEF Resumed
      <4> QED  BY <4>1 DEF Route!Asked, Ranges
    <3> DEFINE r == [pc |-> "asked", method |-> method, requested |-> requested, filtered |-> TRUE,
                     range |-> range, download |-> download, hls |-> hls, priority |-> priority]
    <3>3. r \in Asks /\ r.pc = "asked" /\ r.range = range  BY <3>2 DEF Asks
    <3>4. request' = [request EXCEPT ![p] = r]  BY <3>1
    <3> HIDE DEF r
    <3> QED  BY <3>3, <3>4
  <2>2. /\ UNCHANGED <<files, body, held>> /\ response' = [response EXCEPT ![p] = Route!NoAnswer]
        /\ q.pc = "none"
    BY <1>9 DEF Route!Ask
  <2>3. request'[p] = r /\ body'[p] = Nothing /\ held'[p] = held[p]
    BY <1>1, <2>1, <2>2 DEF RequestSound
  <2>4. AskedOn(p)'  BY <1>1, <2>1, <2>3 DEF AskedOn, Route!Asked, Resumed
  <2>5. RequestSound(p)'  BY <1>1, <2>1, <2>3, <2>4 DEF RequestSound, Resumed
  <2>6. body' = [body EXCEPT ![p] = body[p]] /\ held' = [held EXCEPT ![p] = held[p]]  BY <1>1, <2>2
  <2> QED  BY <1>2, <2>1, <2>2, <2>5, <2>6
<1>10. CASE Route!EngineFails(p) \/ Route!ReaderFails(p)
  BY <1>7, <1>10 DEF Route!EngineFails, Route!ReaderFails, Route!Answer
<1>11. CASE Route!Ranged(p)
  <2> DEFINE Goes == Route!FileOf(p) # 0 /\ IntervalOf(p) # <<>> /\ q.method # "HEAD"
  <2>1. q.pc = "asked" /\ UNCHANGED <<files, space, body, held>>  BY <1>11 DEF Route!Ranged
  <2>2. CASE ~Goes
    <3>1. /\ request' = [request EXCEPT ![p].pc = "answered"]
          /\ \E a : response' = [response EXCEPT ![p] = a]
      <4>1. CASE Route!FileOf(p) = 0
        BY <1>11, <4>1 DEF Route!Ranged, Route!Answer
      <4>2. CASE Route!FileOf(p) # 0 /\ IntervalOf(p) = <<>>
        BY <1>11, <4>2 DEF Route!Ranged, Route!Answer, IntervalOf
      <4>3. CASE Route!FileOf(p) # 0 /\ IntervalOf(p) # <<>> /\ q.method = "HEAD"
        BY <1>11, <4>3 DEF Route!Ranged, IntervalOf
      <4> QED  BY <2>2, <4>1, <4>2, <4>3
    <3>2. UNCHANGED <<files, body, held>> /\ request[p].pc \in {"asked", "ranged", "ready"}  BY <2>1
    <3> QED  BY <1>7, <3>1, <3>2, Zenon
  <2>3. CASE Goes
    <3>1. request' = [request EXCEPT ![p].pc = "ranged"] /\ UNCHANGED response
      BY <1>11, <2>3 DEF Route!Ranged, IntervalOf
    <3> DEFINE r == [q EXCEPT !.pc = "ranged"]
    <3>2. /\ r \in Asks \cup Opens /\ r.pc = "ranged"
          /\ r.requested = q.requested /\ r.filtered = q.filtered /\ r.range = q.range
      BY <1>5, <2>1, PlaceMoves
    <3>3. request' = [request EXCEPT ![p] = r]  BY <1>1, <3>1
    <3> HIDE DEF r
    <3> QED  BY <1>8, <2>1, <2>3, <3>1, <3>2, <3>3
  <2> QED  BY <2>2, <2>3
<1>12. CASE Route!CheckDisk(p) \/ Route!DiskUnready(p)
  <2>1. PICK ready \in BOOLEAN : request' = [request EXCEPT ![p] = Route!WithMode(q, ready)]
    <3>1. CASE Route!DiskUnready(p)  BY <1>1, <3>1 DEF Route!DiskUnready
    <3>2. CASE Route!CheckDisk(p)
      <4>1. PICK free, existing :
              request' = [request EXCEPT ![p] = Route!WithMode(@, free >= Route!Required(p, existing))]
        BY <3>2 DEF Route!CheckDisk
      <4>2. (free >= Route!Required(p, existing)) \in BOOLEAN  OBVIOUS
      <4> QED  BY <1>1, <4>1, <4>2
    <3> QED  BY <1>12, <3>1, <3>2
  <2>2. q.pc = "ranged" /\ UNCHANGED <<files, response, body, held>>
    BY <1>12 DEF Route!CheckDisk, Route!DiskUnready
  <2> DEFINE r == Route!WithMode(q, ready)
  <2>3. /\ r \in Opens /\ r.pc = "ready"
        /\ r.requested = q.requested /\ r.filtered = q.filtered /\ r.range = q.range
    BY <1>5, <2>2
    DEF Route!WithMode, Route!Storage, Route!DownloadStorage, Route!EngineStorage, Asks, Opens
  <2>4. Route!FileOf(p) # 0 /\ IntervalOf(p) # <<>>  BY <1>1, <2>2 DEF RequestSound
  <2> HIDE DEF r
  <2> QED  BY <1>8, <2>1, <2>2, <2>3, <2>4 DEF r
<1>13. CASE Route!OpenReader(p)
  <2>1. q.pc = "ready" /\ UNCHANGED <<files, held>>  BY <1>13 DEF Route!OpenReader
  <2>2. CASE IntervalOf(p)[1] >= Route!SizeOf(p)
    BY <1>7, <1>13, <2>1, <2>2 DEF Route!OpenReader, Route!Answer, IntervalOf
  <2>3. CASE ~(IntervalOf(p)[1] >= Route!SizeOf(p))
    <3>1. Route!SizeOf(p) \in Nat /\ q.range \in Ranges /\ IntervalOf(p) # <<>>
      <4>1. Route!FileOf(p) \in {1, 2}  BY <1>1, <1>4, <1>6, <2>1 DEF RequestSound
      <4>2. q.range \in Ranges  BY <1>4, <2>1 DEF Asks, Opens
      <4> QED  BY <1>1, <2>1, <4>1, <4>2 DEF RequestSound, TwoFiles, Route!SizeOf
    <3>2. PICK first, last \in Nat :
             /\ IntervalOf(p) = <<first, last>> /\ first <= last /\ last < Route!SizeOf(p)
             /\ q.range.form \in {"from", "both"} => first = q.range.n
             /\ q.range.form = "none" => first = 0
      BY <2>3, <3>1, IntervalsFit DEF IntervalOf
    <3>3. PICK aim, a, b :
             /\ response' = [response EXCEPT ![p] = a] /\ body' = [body EXCEPT ![p] = b]
             /\ a.end = last /\ a.length = last - first + 1
             /\ b = [pos |-> first, left |-> last - first + 1, sent |-> 0, intent |-> aim]
             /\ aim \in Route!PlaybackIntent
             /\ request' = [request EXCEPT ![p].pc = "answered"]
      <4>1. Route!GetLength(p, IntervalOf(p)) = last - first + 1
        BY <3>1, <3>2 DEF Route!GetLength
      <4> DEFINE n == Route!GetLength(p, IntervalOf(p))
                 aim == Route!playback_intent_for_request(q, first, n, Route!SizeOf(p))
                 a == [status |-> IF Route!Partial(p) THEN 206 ELSE 200, file |-> Route!FileOf(p),
                       start |-> first, end |-> last, length |-> n]
                 b == [pos |-> first, left |-> n, sent |-> 0, intent |-> aim]
      <4>2. /\ response' = [response EXCEPT ![p] = a] /\ body' = [body EXCEPT ![p] = b]
            /\ request' = [request EXCEPT ![p].pc = "answered"]
        <5>1. IntervalOf(p)[1] = first /\ IntervalOf(p)[2] = last  BY <3>2
        <5> QED  BY <1>13, <2>3, <5>1 DEF Route!OpenReader, Route!Sought, IntervalOf
      <4>3. a.end = last /\ a.length = last - first + 1
            /\ b = [pos |-> first, left |-> last - first + 1, sent |-> 0, intent |-> aim]
        BY <4>1
      <4>4. aim \in Route!PlaybackIntent  BY <1>4, <2>1, IntentIsOne
      <4> HIDE DEF a, b, aim
      <4> QED  BY <4>2, <4>3, <4>4
    <3> DEFINE r == [q EXCEPT !.pc = "answered"]
    <3>4. /\ r \in Asks \cup Opens /\ r.pc = "answered"
          /\ r.requested = q.requested /\ r.filtered = q.filtered /\ r.range = q.range
      BY <1>4, <2>1, PlaceMoves
    <3>5. request' = [request EXCEPT ![p] = r]  BY <1>1, <3>3
    <3> HIDE DEF r
    <3>6. request'[p] = r /\ response'[p] = a /\ body'[p] = b /\ held'[p] = held[p]
      BY <1>1, <2>1, <3>3, <3>5
    <3>7. Route!SizeOf(p)' = Route!SizeOf(p) /\ Route!Keeps(p)' = Route!Keeps(p)
      BY <1>3, <2>1, <3>4, <3>5
    <3>8. Route!Keeps(p) => first = Len(held[p])
      BY <1>4, <2>1, <3>1, <3>2 DEF AskedOn, Route!Keeps, Ranges, IntervalOf, Route!Interval, Route!parse_range
    <3>9. Announced(p)'
      <4>1. b \in Bodies  BY <3>2, <3>3 DEF Bodies
      <4>2. b.pos = first /\ b.left = last - first + 1 /\ b.sent = 0  BY <3>3
      <4> QED  BY <3>2, <3>3, <3>6, <3>7, <3>8, <4>1, <4>2 DEF Announced
    <3>10. RequestSound(p)'
      BY <1>1, <3>4, <3>6, <3>9 DEF RequestSound, Resumed
    <3>11. held' = [held EXCEPT ![p] = held[p]]  BY <1>1, <2>1
    <3>12. files' = files  BY <2>1
    <3>13. response' = [response EXCEPT ![p] = a] /\ body' = [body EXCEPT ![p] = b]  BY <3>3
    <3> QED  BY <1>2, <3>5, <3>10, <3>11, <3>12, <3>13
  <2> QED  BY <2>2, <2>3
<1>14. CASE Route!ReadBody(p)
  <2>1. /\ body[p] # Nothing /\ body[p].left > 0 /\ UNCHANGED <<files, request, response>>
        /\ Announced(p) /\ q.pc = "answered"
    BY <1>1, <1>14 DEF Route!ReadBody, RequestSound
  <2> DEFINE b == [body[p] EXCEPT !.pos = @ + 1, !.left = @ - 1, !.sent = @ + 1]
             h == IF Route!Keeps(p) THEN Append(held[p], body[p].pos) ELSE held[p]
  <2>2. body' = [body EXCEPT ![p] = b]
    BY <1>1, <1>14 DEF Route!ReadBody
  <2>3. held' = [held EXCEPT ![p] = h]
    BY <1>1, <1>14 DEF Route!ReadBody
  <2>4. body'[p] = b /\ held'[p] = h /\ request'[p] = request[p] /\ response'[p] = response[p]
    BY <1>1, <2>1, <2>2, <2>3
  <2>5. Route!SizeOf(p)' = Route!SizeOf(p) /\ Route!Keeps(p)' = Route!Keeps(p)
    BY <2>1, SameFile
  <2>6. Resumed(p)'
    <3>1. h \in Seq(Nat) /\ \A k \in 1..Len(h) : h[k] = k - 1
      <4>1. CASE ~Route!Keeps(p)  BY <1>1, <4>1 DEF Resumed
      <4>2. CASE Route!Keeps(p)
        <5>1. body[p].pos = Len(held[p]) /\ body[p].pos \in Nat  BY <2>1, <4>2 DEF Announced, Bodies
        <5>2. h = Append(held[p], Len(held[p]))  BY <4>2, <5>1
        <5> HIDE DEF h
        <5> QED  BY <1>1, <5>1, <5>2 DEF Resumed
      <4> QED  BY <4>1, <4>2
    <3> QED  BY <2>4, <3>1 DEF Resumed
  <2>7. Announced(p)'
    <3> DEFINE x == body[p].pos
               l == body[p].left
               n == body[p].sent
    <3>4. /\ x \in Nat /\ l \in Nat /\ n \in Nat /\ l > 0
          /\ l + n = response[p].length /\ x + l = response[p].end + 1
          /\ Route!Keeps(p) => x = Len(held[p])
          /\ response[p].length \in Nat /\ response[p].end \in Nat
          /\ response[p].end < Route!SizeOf(p)
      BY <2>1 DEF Announced, Bodies
    <3>5. b \in Bodies /\ b.pos = x + 1 /\ b.left = l - 1 /\ b.sent = n + 1
      BY <2>1, BodyMoves DEF Announced
    <3>1. Route!Keeps(p) => b.pos = Len(h)
      <4>1. held[p] \in Seq(Nat)  BY <1>1 DEF Resumed
      <4> QED  BY <3>4, <3>5, <4>1
    <3> HIDE DEF b, x, l, n
    <3>2. b.left + b.sent = response[p].length /\ b.pos + b.left = response[p].end + 1
      BY <3>4, <3>5
    <3> HIDE DEF h
    <3> QED  BY <2>4, <2>5, <3>1, <3>2, <3>4, <3>5 DEF Announced
  <2>8. RequestSound(p)'
    BY <1>1, <2>1, <2>4, <2>6, <2>7 DEF RequestSound
  <2>9. request' = [request EXCEPT ![p] = request[p]] /\ response' = [response EXCEPT ![p] = response[p]]
    BY <1>1, <2>1
  <2> HIDE DEF b, h
  <2> QED  BY <1>2, <2>1, <2>2, <2>3, <2>8, <2>9
<1>15. CASE Route!RequestOver(p)
  <2>1. /\ request' = [request EXCEPT ![p] = Route!NoRequest]
        /\ response' = [response EXCEPT ![p] = Route!NoAnswer]
        /\ body' = [body EXCEPT ![p] = Nothing] /\ UNCHANGED <<files, held>>
    BY <1>15 DEF Route!RequestOver
  <2>2. request'[p] = Route!NoRequest /\ body'[p] = Nothing /\ held'[p] = held[p]  BY <1>1, <2>1
  <2>3. RequestSound(p)'  BY <1>1, <2>2 DEF RequestSound, Resumed, Route!NoRequest
  <2>4. held' = [held EXCEPT ![p] = held[p]]  BY <1>1, <2>1
  <2> QED  BY <1>2, <2>1, <2>3, <2>4
<1> QED
  BY <1>9, <1>10, <1>11, <1>12, <1>13, <1>14, <1>15

LEMMA RouteKeeps == ASSUME RouteInv, [Route!Next]_(Route!vars) PROVE RouteInv'
<1>1. CASE UNCHANGED Route!vars \/ Route!SpaceExpires
  <2>1. UNCHANGED <<files, request, response, body, held>>
    BY <1>1 DEF Route!vars, Route!SpaceExpires
  <2>2. ASSUME NEW p \in Players PROVE RequestSound(p)'
    <3>1. Route!FileOf(p)' = Route!FileOf(p) /\ Route!SizeOf(p)' = Route!SizeOf(p)
          /\ IntervalOf(p)' = IntervalOf(p) /\ Route!Keeps(p)' = Route!Keeps(p)
      BY <2>1, SameFile
    <3>2. RequestSound(p)  BY DEF RouteInv
    <3> QED  BY <2>1, <3>1, <3>2 DEF RequestSound, Resumed, AskedOn, Announced
  <2> QED  BY <2>1, <2>2 DEF RouteInv, TwoFiles
<1> QED  BY <1>1, RouteStepKeeps DEF Route!Next

LEMMA RouteDelivers == RouteInv => Route!DeliveredAsAsked
<1> SUFFICES ASSUME RouteInv, NEW p \in Players
             PROVE  /\ \A k \in 1..Len(held[p]) : held[p][k] = k - 1
                    /\ Route!Ended(p) => /\ body[p].sent = response[p].length
                                         /\ body[p].pos = response[p].end + 1
  BY DEF Route!DeliveredAsAsked, Route!ResumedFileIsWhole, Route!AnnouncedIsSent
<1>1. RequestSound(p)  BY DEF RouteInv
<1>2. ASSUME Route!Ended(p) PROVE body[p].left = 0
  <2>1. CASE body[p].pos = Route!SizeOf(p)
    BY <1>1, <1>2, <2>1 DEF RequestSound, Announced, Bodies, Route!Ended
  <2> QED  BY <1>2, <2>1 DEF Route!Ended
<1> QED  BY <1>1, <1>2 DEF RequestSound, Resumed, Announced, Bodies, Route!Ended

-----------------------------------------------------------------------------
(* DiskWindow: for any pieces of a file and any length of them.  The piece  *)
(* that prioritize_from takes for prioritized is in the window, with no     *)
(* delay for a foreground reader, until it is verified; and a reader that   *)
(* waits has just asked from the piece that it waits for.                   *)
PiecesD == DiskReader!Pieces

PrioritizedIsWanted ==
  prioritized \in PiecesD \ have =>
    /\ prioritized \in DOMAIN window
    /\ ~DiskReader!is_background_reader => window[prioritized] = [priority |-> 7, deadline |-> 0]

DiskInv ==
  /\ intent \in DiskReader!PlaybackIntent /\ sent \in BOOLEAN
  /\ PrioritizedIsWanted
  /\ waiting \in PiecesD => waiting = prioritized

(* cap_pieces_by_bytes: at least the piece itself.                          *)
LEMMA WindowIsOpen ==
  ASSUME NEW i \in DiskReader!PlaybackIntent
  PROVE  /\ DiskReader!disk_backed_forward_window_pieces_for(i, LengthD) \in Int
         /\ DiskReader!disk_backed_forward_window_pieces_for(i, LengthD) >= 1
<1>1. /\ DiskReader!disk_backed_forward_window_pieces(i) \in Nat
      /\ DiskReader!disk_backed_forward_window_pieces(i) >= 1
  BY DEF DiskReader!disk_backed_forward_window_pieces, DiskReader!PlaybackIntent,
    DiskReader!DirectIntents, DiskReader!HlsIntents, DiskReader!Downloads, DiskReader!Initial,
    DiskReader!MAX_STARTUP_PIECES
<1>2. DiskReader!forward_window_bytes(i) \in Nat /\ DiskReader!forward_window_bytes(i) > 0
  BY MBAssumption
  DEF DiskReader!forward_window_bytes, DiskReader!PlaybackIntent, DiskReader!DirectIntents,
    DiskReader!HlsIntents, DiskReader!Downloads, DiskReader!Initial, DiskReader!Seeks,
    DiskReader!Sequential, DiskReader!MAX_WARM_WINDOW_BYTES, DiskReader!MAX_DOWNLOAD_RANGE_WINDOW_BYTES,
    DiskReader!MAX_STARTUP_WINDOW_BYTES, DiskReader!MAX_SEEK_HOT_WINDOW_BYTES,
    DiskReader!MAX_CONTAINER_METADATA_WINDOW_BYTES
<1>3. ASSUME NEW b \in Nat, b > 0 PROVE DiskReader!pieces_for_bytes(b, LengthD) \in Int
  BY <1>3, RequestsAssumption, I32Assumption
  DEF DiskReader!pieces_for_bytes, DiskReader!Clamp, DiskReader!CeilDiv, DiskReader!MaxI32,
    DiskReader!Lower, DiskReader!Higher
<1> QED
  BY <1>1, <1>2, <1>3
  DEF DiskReader!disk_backed_forward_window_pieces_for, DiskReader!cap_pieces_by_bytes,
    DiskReader!Lower, DiskReader!Higher

(* A window from a missing piece has this piece first.                      *)
LEMMA FirstIsUrgent ==
  ASSUME DiskInv, NEW piece \in PiecesD \ have, NEW s \in BOOLEAN, NEW pinned
  PROVE  LET f == DiskReader!WithPins(DiskReader!Ahead(piece, DiskReader!Missing(piece, s)), pinned)
         IN piece \in DOMAIN f /\ f[piece] = [priority |-> 7, deadline |-> 0]
<1> DEFINE i == DiskReader!priority_intent(s)
           n == DiskReader!active_forward_window(s)
<1>1. i \in DiskReader!PlaybackIntent
  BY DEF DiskInv, DiskReader!priority_intent, DiskReader!sequential_after_first_byte,
    DiskReader!PlaybackIntent, DiskReader!DirectIntents, DiskReader!HlsIntents
<1>2. n \in Int /\ n >= 1
  BY <1>1, WindowIsOpen DEF DiskReader!active_forward_window, DiskReader!Lower
<1>3. piece \in FirstD..LastD /\ piece \in Int /\ LastD \in Int
  BY RequestsAssumption DEF PiecesD, DiskReader!Pieces
<1> HIDE DEF n
<1>4. piece \in DiskReader!Missing(piece, s)
  BY <1>2, <1>3 DEF DiskReader!Missing, DiskReader!forward_window_end, DiskReader!Lower, n
<1>5. DiskReader!playback_deadline_step_ms(LengthD, -1, 0) \in Int
  BY MBAssumption, RequestsAssumption
  DEF DiskReader!playback_deadline_step_ms, DiskReader!effective_rate, DiskReader!Clamp,
    DiskReader!CeilDiv, DiskReader!Lower, DiskReader!Higher
<1>6. (piece - piece) * DiskReader!playback_deadline_step_ms(LengthD, -1, 0) = 0
  BY <1>3, <1>5
<1> QED  BY <1>4, <1>6 DEF DiskReader!WithPins, DiskReader!Ahead

LEMMA InitDisk == DiskReader!Init => DiskInv
<1> SUFFICES ASSUME DiskReader!Init PROVE DiskInv  OBVIOUS
<1>1. intent \in DiskReader!PlaybackIntent
  BY DEF DiskReader!Init, DiskReader!Opened, DiskReader!PlaybackIntent, DiskReader!DirectIntents,
    DiskReader!HlsIntents, DiskReader!Downloads, DiskReader!Initial, DiskReader!Seeks
<1>2. -1 \notin PiecesD
  BY RequestsAssumption DEF PiecesD, DiskReader!Pieces
<1>3. FirstD \in PiecesD
  BY RequestsAssumption DEF PiecesD, DiskReader!Pieces, DiskReader!Init
<1> QED  BY <1>1, <1>2, <1>3 DEF DiskReader!Init, DiskInv, PrioritizedIsWanted

(* prioritize_from, and the replan of a blocked reader.                     *)
LEMMA AsksKeep ==
  ASSUME DiskInv, NEW piece, NEW s, piece \in Int, s \in BOOLEAN, sent' \in BOOLEAN,
         UNCHANGED <<intent, subordinate, have>>,
         \/ DiskReader!prioritize_from(piece, s)
         \/ /\ prioritized' = piece /\ piece \in PiecesD \ have
            /\ \E pinned : window' = DiskReader!WithPins(
                   DiskReader!Ahead(piece, DiskReader!Missing(piece, s)), pinned),
         (waiting' = -1) \/ (waiting' = piece /\ piece \in PiecesD)
  PROVE  DiskInv'
<1>1. -1 \notin PiecesD  BY RequestsAssumption DEF PiecesD, DiskReader!Pieces
<1>2. PiecesD' = PiecesD  BY DEF PiecesD, DiskReader!Pieces
<1>3. /\ waiting' \in PiecesD => waiting' = prioritized'
      /\ prioritized' # prioritized => prioritized' = piece
  BY <1>1 DEF PiecesD, DiskReader!prioritize_from, DiskReader!AlreadyPrioritized
<1>4. PrioritizedIsWanted'
  <2>1. CASE UNCHANGED <<prioritized, window>>
    BY <1>2, <2>1 DEF DiskInv, PrioritizedIsWanted, DiskReader!is_background_reader
  <2>2. CASE prioritized' = piece /\ window' = DiskReader!Behind(piece) /\ DiskReader!is_background_reader
    BY <1>2, <2>2 DEF PrioritizedIsWanted, DiskReader!is_background_reader, DiskReader!Behind
  <2>3. CASE prioritized' = piece /\ \E pinned : window' = DiskReader!WithPins(
                   DiskReader!Ahead(piece, DiskReader!Missing(piece, s)), pinned)
    <3>1. PICK pinned : window' = DiskReader!WithPins(
                   DiskReader!Ahead(piece, DiskReader!Missing(piece, s)), pinned)
      BY <2>3
    <3>2. piece \in PiecesD \ have =>
            piece \in DOMAIN window' /\ window'[piece] = [priority |-> 7, deadline |-> 0]
      BY <3>1, FirstIsUrgent
    <3> QED  BY <1>2, <2>3, <3>2 DEF PrioritizedIsWanted
  <2> QED  BY <2>1, <2>2, <2>3 DEF DiskReader!prioritize_from
<1> QED  BY <1>2, <1>3, <1>4 DEF DiskInv

LEMMA DiskKeeps == ASSUME DiskInv, [DiskReader!Next]_(DiskReader!vars) PROVE DiskInv'
<1>1. -1 \notin PiecesD /\ PiecesD' = PiecesD /\ PiecesD \subseteq Int
  BY RequestsAssumption DEF PiecesD, DiskReader!Pieces
<1>2. CASE DiskReader!WaitForPiece
  <2>1. /\ pos \in PiecesD \ have /\ pos \in Int /\ sent \in BOOLEAN /\ sent' = sent /\ waiting' = pos
        /\ UNCHANGED <<intent, subordinate, have>>
    BY <1>1, <1>2 DEF DiskReader!WaitForPiece, PiecesD, DiskInv
  <2>2. CASE DiskReader!prioritize_from(pos, sent)
    BY <2>1, <2>2, AsksKeep DEF DiskInv
  <2>3. CASE ~DiskReader!prioritize_from(pos, sent)
    <3>1. /\ prioritized' = pos
          /\ \E pinned : window' = DiskReader!WithPins(
                DiskReader!Ahead(pos, DiskReader!Missing(pos, sent)), pinned)
      BY <1>2, <2>3 DEF DiskReader!WaitForPiece
    <3> QED  BY <2>1, <3>1, AsksKeep DEF DiskInv
  <2> QED  BY <2>2, <2>3
<1>3. CASE DiskReader!Serve
  <2>1. PICK s : s \in {TRUE}  OBVIOUS
  <2>2. PICK piece : piece \in {pos + 1}  OBVIOUS
  <2>5. piece \in Int /\ s \in BOOLEAN
    BY <1>1, <1>3, <2>1, <2>2 DEF DiskReader!Serve, PiecesD
  <2>3. DiskReader!prioritize_from(piece, s)
    BY <1>3, <2>1, <2>2 DEF DiskReader!Serve
  <2>4. sent' \in BOOLEAN /\ waiting' = -1 /\ UNCHANGED <<intent, subordinate, have>>
    BY <1>3 DEF DiskReader!Serve
  <2> QED  BY <2>3, <2>4, <2>5, AsksKeep
<1>4. CASE DiskReader!Seek
  BY <1>1, <1>4 DEF DiskReader!Seek, DiskReader!AfterSeek, DiskInv, PrioritizedIsWanted
<1>5. CASE DiskReader!PieceVerified
  <2>1. PICK p \in PiecesD \ have :
           have' = have \cup {p} /\ window' = [x \in DOMAIN window \ {p} |-> window[x]]
    BY <1>5 DEF DiskReader!PieceVerified, PiecesD
  <2>2. UNCHANGED <<intent, subordinate, sent, prioritized, waiting>>
    BY <1>5 DEF DiskReader!PieceVerified
  <2> QED
    BY <1>1, <2>1, <2>2 DEF DiskInv, PrioritizedIsWanted, DiskReader!is_background_reader
<1>6. CASE DiskReader!IntervalPasses \/ DiskReader!PinTail \/ UNCHANGED DiskReader!vars
  <2>1. UNCHANGED <<intent, subordinate, have, sent, prioritized, window, waiting>>
    BY <1>6 DEF DiskReader!IntervalPasses, DiskReader!PinTail, DiskReader!vars
  <2> QED
    BY <1>1, <2>1 DEF DiskInv, PrioritizedIsWanted, DiskReader!is_background_reader
<1> QED  BY <1>2, <1>3, <1>4, <1>5, <1>6 DEF DiskReader!Next

-----------------------------------------------------------------------------
(* MemoryWindow: for any pieces of a file, any length of them, any rates    *)
(* and peers.  Whatever the policy decides for a piece of the file has this *)
(* piece first, as long as the cache's pieces can be counted by an i32; and *)
(* the piece that set_priorities takes for prioritized is first in the      *)
(* window until it is verified.                                             *)
PiecesM == MemoryReader!Pieces

CacheIsCounted == 2 * MemoryReader!Higher(CacheM \div LengthM, 1) < I32

UrgentIn(f, piece) ==
  /\ piece \in DOMAIN f
  /\ ~MemoryReader!is_background_reader => f[piece] = [priority |-> 7, deadline |-> 0]

MemoryInv ==
  /\ intentM \in MemoryReader!PlaybackIntent /\ sentM \in BOOLEAN /\ waits \in 0..3
  /\ seek_type \in MemoryReader!SeekTypes /\ cached \subseteq haveM
  /\ last_priorities_piece \in PiecesM \ haveM => UrgentIn(windowM, last_priorities_piece)
  /\ waitingM \in PiecesM \ haveM => waitingM = last_priorities_piece

(* A context of this reader.                                                *)
LEMMA IntentsWant ==
  ASSUME NEW ctx, ctx.intent \in MemoryReader!PlaybackIntent, ctx.bitrate = -1,
         ctx.rate \in Nat, ctx.peers \in Nat, ctx.waits \in 0..3, ctx.sent \in BOOLEAN,
         ctx.length \in Nat \ {0}, ctx.size \in Nat
  PROVE  MemoryReader!wanted(ctx)[2] \in Int /\ MemoryReader!wanted(ctx)[2] >= 1
         /\ MemoryReader!wanted(ctx)[3] \in {0, 32}
<1>1. MemoryReader!by_rate(ctx) \in {96, 48, 24, 16}
  BY DEF MemoryReader!by_rate, MemoryReader!MIN_SEEK_HOT_PIECES
<1>2. MemoryReader!dynamic_hot_window(ctx) \in {96, 48, 24, 16}
  BY <1>1 DEF MemoryReader!dynamic_hot_window, MemoryReader!Lower, MemoryReader!MIN_SEEK_HOT_PIECES
<1>3. MemoryReader!hls_cap(ctx, MemoryReader!dynamic_hot_window(ctx)) \in {96, 48, 24, 16}
  BY <1>2 DEF MemoryReader!hls_cap, MemoryReader!Lower
<1>4. MemoryReader!blocked_hot(ctx) \in {96, 48, 24}
  BY <1>2
  DEF MemoryReader!blocked_hot, MemoryReader!hls_cap, MemoryReader!Lower, MemoryReader!Higher,
    MemoryReader!MIN_SEEK_HOT_PIECES, MemoryReader!MAX_HOT_PIECES
<1>5. MemoryReader!startup_pieces(ctx) \in Int /\ MemoryReader!startup_pieces(ctx) >= 1
  <2>1. MemoryReader!startup_bytes(ctx) \in Nat
    BY MBAssumption
    DEF MemoryReader!startup_bytes, MemoryReader!Lower, MemoryReader!Higher, MemoryReader!SMALL_FILE_BYTES,
      MemoryReader!MIN_STARTUP_BYTES, MemoryReader!MAX_STARTUP_WINDOW_BYTES
  <2>2. MemoryReader!AsI32(MemoryReader!CeilDiv(MemoryReader!startup_bytes(ctx), ctx.length)) \in Int
    BY <2>1, I32Assumption DEF MemoryReader!AsI32, MemoryReader!CeilDiv
  <2>3. MemoryReader!max_startup_pieces(ctx) \in Int /\ MemoryReader!max_startup_pieces(ctx) >= 1
    <3>1. ASSUME NEW b \in Nat PROVE MemoryReader!pieces_for_bytes(b, ctx.length) \in Int
      BY I32Assumption
      DEF MemoryReader!pieces_for_bytes, MemoryReader!Clamp, MemoryReader!CeilDiv, MemoryReader!MaxI32,
        MemoryReader!Lower, MemoryReader!Higher
    <3>2. MemoryReader!Lower(ctx.size, MemoryReader!MAX_STARTUP_WINDOW_BYTES) \in Nat
      BY MBAssumption DEF MemoryReader!Lower, MemoryReader!MAX_STARTUP_WINDOW_BYTES
    <3> QED
      BY <3>1, <3>2
      DEF MemoryReader!max_startup_pieces, MemoryReader!Clamp, MemoryReader!Lower, MemoryReader!Higher,
        MemoryReader!MAX_STARTUP_PIECES, MemoryReader!MAX_SMALL_FILE_STARTUP_PIECES
  <2> QED
    BY <2>2, <2>3
    DEF MemoryReader!startup_pieces, MemoryReader!Clamp, MemoryReader!Lower, MemoryReader!Higher,
      MemoryReader!MIN_STARTUP_PIECES
<1> DEFINE w == MemoryReader!wanted(ctx)
<1>6. /\ w[2] \in {MemoryReader!startup_pieces(ctx), MemoryReader!blocked_hot(ctx), 1, 2, 4, 16,
                   MemoryReader!hls_cap(ctx, MemoryReader!dynamic_hot_window(ctx))}
      /\ w[3] \in {0, 32}
  <2> USE DEF MemoryReader!PlaybackIntent, MemoryReader!DirectIntents, MemoryReader!HlsIntents,
      MemoryReader!Downloads, MemoryReader!Initial, MemoryReader!Seeks, MemoryReader!Sequential
  <2>1. CASE ctx.intent \in MemoryReader!Initial /\ ~ctx.sent  BY <2>1 DEF MemoryReader!wanted
  <2>2. CASE ctx.intent \in MemoryReader!Sequential \/ (ctx.intent \in MemoryReader!Initial /\ ctx.sent)
    BY <2>2 DEF MemoryReader!wanted
  <2>3. CASE ctx.intent \in MemoryReader!Seeks  BY <2>3 DEF MemoryReader!wanted
  <2>4. CASE ctx.intent \in MemoryReader!Downloads  BY <2>4 DEF MemoryReader!wanted
  <2>5. CASE ctx.intent \in {"ContainerMetadata", "InternalProbe", "Background"}
    BY <2>5 DEF MemoryReader!wanted
  <2> QED  BY <2>1, <2>2, <2>3, <2>4, <2>5
<1> QED  BY <1>3, <1>4, <1>5, <1>6

LEMMA CapIsPositive ==
  ASSUME NEW n, NEW len, NEW b, n \in Int, len \in Nat \ {0}, b \in Nat
  PROVE  /\ MemoryReader!cap_pieces_by_bytes(n, len, b) \in Nat
         /\ n >= 1 /\ b > 0 => MemoryReader!cap_pieces_by_bytes(n, len, b) >= 1
  BY I32Assumption
  DEF MemoryReader!cap_pieces_by_bytes, MemoryReader!pieces_for_bytes, MemoryReader!Clamp,
    MemoryReader!CeilDiv, MemoryReader!MaxI32, MemoryReader!Lower, MemoryReader!Higher

LEMMA HotWindowOpens ==
  ASSUME NEW ctx, ctx.intent \in MemoryReader!PlaybackIntent, ctx.bitrate = -1,
         ctx.rate \in Nat, ctx.peers \in Nat, ctx.waits \in 0..3, ctx.sent \in BOOLEAN,
         ctx.length = LengthM, ctx.size \in Nat, ctx.cache = CacheM, CacheIsCounted,
         ctx.current \in Int, ctx.last \in Int, ctx.current <= ctx.last, ctx.pressure \in BOOLEAN
  PROVE  /\ MemoryReader!hot_window(ctx) \in Int /\ MemoryReader!hot_window(ctx) >= 1
         /\ MemoryReader!warm_window(ctx) \in Int /\ MemoryReader!warm_window(ctx) >= 0
<1>1. /\ MemoryReader!wanted(ctx)[2] \in Int /\ MemoryReader!wanted(ctx)[2] >= 1
      /\ MemoryReader!wanted(ctx)[3] \in Int
  BY IntentsWant, RequestsAssumption
<1>2. LET h == MemoryReader!under_pressure(ctx, MemoryReader!wanted(ctx)[2]) IN h \in Int /\ h >= 1
  BY <1>1 DEF MemoryReader!under_pressure, MemoryReader!Lower, MemoryReader!MIN_SEEK_HOT_PIECES
<1>3. /\ MemoryReader!hot_byte_cap(ctx) \in Nat /\ MemoryReader!hot_byte_cap(ctx) > 0
      /\ MemoryReader!warm_byte_cap(ctx.intent) \in Nat
  BY MBAssumption
  DEF MemoryReader!hot_byte_cap, MemoryReader!forward_window_bytes, MemoryReader!warm_byte_cap,
    MemoryReader!PlaybackIntent, MemoryReader!DirectIntents, MemoryReader!HlsIntents,
    MemoryReader!Downloads, MemoryReader!Initial, MemoryReader!Seeks, MemoryReader!Sequential,
    MemoryReader!MAX_WARM_WINDOW_BYTES, MemoryReader!MAX_DOWNLOAD_RANGE_WINDOW_BYTES,
    MemoryReader!MAX_STARTUP_WINDOW_BYTES, MemoryReader!MAX_SEEK_HOT_WINDOW_BYTES,
    MemoryReader!MAX_CONTAINER_METADATA_WINDOW_BYTES
<1>4. MemoryReader!max_cache_pieces(ctx) \in Int /\ MemoryReader!max_cache_pieces(ctx) >= 1
  <2> DEFINE n == MemoryReader!Higher(CacheM \div LengthM, 1)
  <2>1. n \in Nat /\ n >= 1 /\ 2 * n < I32
    BY RequestsAssumption DEF CacheIsCounted, MemoryReader!Higher
  <2> HIDE DEF n
  <2>2. MemoryReader!AsI32(n) = n
    <3>1. n % I32 = n  BY <2>1, I32Assumption
    <3> QED  BY <2>1, <3>1, I32Assumption DEF MemoryReader!AsI32
  <2> QED  BY <2>1, <2>2 DEF n, MemoryReader!max_cache_pieces, MemoryReader!MAX_HOT_PIECES
<1>5. MemoryReader!remaining_pieces(ctx) \in Int /\ MemoryReader!remaining_pieces(ctx) >= 1
  BY DEF MemoryReader!remaining_pieces
<1> DEFINE h == MemoryReader!under_pressure(ctx, MemoryReader!wanted(ctx)[2])
           c == MemoryReader!cap_pieces_by_bytes(h, ctx.length, MemoryReader!hot_byte_cap(ctx))
           v == MemoryReader!cap_pieces_by_bytes(MemoryReader!wanted(ctx)[3], ctx.length,
                                                 MemoryReader!warm_byte_cap(ctx.intent))
<1>l. ctx.length \in Nat \ {0}  BY RequestsAssumption
<1>6. c \in Int /\ c >= 1
  <2> HIDE DEF h
  <2>1. h \in Int /\ h >= 1  BY <1>2 DEF h
  <2> QED  BY <1>3, <1>l, <2>1, CapIsPositive
<1>7. /\ MemoryReader!hot_window(ctx) \in Int /\ MemoryReader!hot_window(ctx) >= 1
      /\ MemoryReader!hot_window(ctx) <= MemoryReader!max_cache_pieces(ctx)
      /\ MemoryReader!hot_window(ctx) <= MemoryReader!remaining_pieces(ctx)
  BY <1>4, <1>5, <1>6
  DEF MemoryReader!hot_window, MemoryReader!Clamp, MemoryReader!Lower, MemoryReader!Higher,
    MemoryReader!MAX_HOT_PIECES
<1>8. v \in Int  BY <1>1, <1>3, <1>l, CapIsPositive
<1>9. MemoryReader!warm_window(ctx) \in Int /\ MemoryReader!warm_window(ctx) >= 0
  BY <1>4, <1>5, <1>7, <1>8
  DEF MemoryReader!warm_window, MemoryReader!Clamp, MemoryReader!Lower, MemoryReader!Higher,
    MemoryReader!MAX_WARM_PIECES
<1> QED  BY <1>7, <1>9

LEMMA ProductIsNat == ASSUME NEW a \in Nat, NEW b \in Nat PROVE a * b \in Nat
  OBVIOUS

(* The decision for a foreground reader has the current piece first.        *)
LEMMA DecisionIsUrgent ==
  ASSUME CacheIsCounted, NEW i, NEW piece, NEW s, NEW w, NEW f,
         i \in MemoryReader!PlaybackIntent, piece \in PiecesM, s \in BOOLEAN, w \in 0..3,
         f \in MemoryReader!Decisions(i, piece, s, w),
         i \in {"InternalProbe", "Background"} => MemoryReader!is_background_reader
  PROVE  UrgentIn(f, piece)
<1>1. PICK rate \in Rates, peers \in Peers, pressure \in BOOLEAN :
         f = MemoryReader!Submitted(MemoryReader!decide(
                 MemoryReader!Context(i, piece, s, w, rate, peers, pressure)))
  BY DEF MemoryReader!Decisions
<1> DEFINE ctx == MemoryReader!Context(i, piece, s, w, rate, peers, pressure)
<1>2. /\ ctx.intent = i /\ ctx.bitrate = -1 /\ ctx.rate = rate /\ ctx.peers = peers
      /\ ctx.waits = w /\ ctx.sent = s /\ ctx.length = LengthM /\ ctx.cache = CacheM
      /\ ctx.size = (LastM - FirstM + 1) * LengthM /\ ctx.current = piece
      /\ ctx.first = FirstM /\ ctx.last = LastM /\ ctx.pressure = pressure
  BY DEF MemoryReader!Context
<1> HIDE DEF ctx
<1>3. /\ FirstM \in Int /\ LastM \in Int /\ piece \in Int /\ FirstM <= piece /\ piece <= LastM
      /\ rate \in Nat /\ peers \in Nat /\ LengthM \in Nat \ {0}
  BY RequestsAssumption DEF PiecesM, MemoryReader!Pieces
<1>4. (LastM - FirstM + 1) * LengthM \in Nat
  <2>1. LastM - FirstM + 1 \in Nat /\ LengthM \in Nat  BY <1>3
  <2> QED  BY <2>1, ProductIsNat
<1>5. /\ MemoryReader!hot_window(ctx) \in Int /\ MemoryReader!hot_window(ctx) >= 1
      /\ MemoryReader!warm_window(ctx) \in Int /\ MemoryReader!warm_window(ctx) >= 0
  <2>1. /\ ctx.intent \in MemoryReader!PlaybackIntent /\ ctx.bitrate = -1 /\ ctx.rate \in Nat
        /\ ctx.peers \in Nat /\ ctx.waits \in 0..3 /\ ctx.sent \in BOOLEAN
        /\ ctx.length = LengthM /\ ctx.size \in Nat /\ ctx.cache = CacheM
        /\ ctx.current \in Int /\ ctx.last \in Int /\ ctx.current <= ctx.last
        /\ ctx.pressure \in BOOLEAN
    BY <1>2, <1>3, <1>4
  <2> QED  BY <2>1, HotWindowOpens
<1> DEFINE g == MemoryReader!decide(ctx)
           step == MemoryReader!playback_deadline_step_ms(ctx.length, ctx.bitrate, ctx.rate)
<1>6. piece \in MemoryReader!assigned(ctx)
  BY <1>2, <1>3, <1>5
  DEF MemoryReader!assigned, MemoryReader!valid, MemoryReader!target_window
<1>7. step \in Int
  BY <1>2, <1>3, MBAssumption
  DEF MemoryReader!playback_deadline_step_ms, MemoryReader!effective_rate, MemoryReader!Clamp,
    MemoryReader!CeilDiv, MemoryReader!Lower, MemoryReader!Higher
<1>8. DOMAIN g = MemoryReader!assigned(ctx) /\ g[piece] = MemoryReader!assignment_for(ctx, 0)
  <2>1. piece - ctx.current = 0  BY <1>2, <1>3
  <2> QED  BY <1>6, <2>1 DEF MemoryReader!decide
<1> HIDE DEF g, step
<1>9. CASE MemoryReader!is_background_reader
  BY <1>1, <1>6, <1>8, <1>9 DEF UrgentIn, MemoryReader!Submitted, g, ctx
<1>10. CASE ~MemoryReader!is_background_reader
  <2>1. 0 * step = 0  BY <1>7
  <2>2. i \notin {"InternalProbe", "Background"}  BY <1>10
  <2>3. MemoryReader!assignment_for(ctx, 0) = [priority |-> 7, deadline |-> 0 * step]
    <3>1. CASE i = "ContainerMetadata"
      BY <1>2, <3>1 DEF MemoryReader!assignment_for, step
    <3>2. CASE i # "ContainerMetadata"
      <4>1. 0 < MemoryReader!hot_window(ctx)  BY <1>5
      <4> QED  BY <1>2, <2>2, <3>2, <4>1 DEF MemoryReader!assignment_for, step
    <3> QED  BY <3>1, <3>2
  <2>4. f = g  BY <1>1, <1>10 DEF MemoryReader!Submitted, g, ctx
  <2> QED  BY <1>6, <1>8, <2>1, <2>3, <2>4 DEF UrgentIn
<1> QED  BY <1>9, <1>10

(* What a replan and a move submit for is a background's only when the      *)
(* reader is one.                                                           *)
LEMMA ReplansKeepTheClass ==
  ASSUME intentM \in MemoryReader!PlaybackIntent, sentM \in BOOLEAN,
         NEW seek, seek \in MemoryReader!SeekTypes
  PROVE  LET a == MemoryReader!priority_replan_intent
             b == MemoryReader!intent_of(seek)
         IN /\ a \in MemoryReader!PlaybackIntent /\ b \in MemoryReader!PlaybackIntent
            /\ a \in {"InternalProbe", "Background"} => MemoryReader!is_background_reader
            /\ b \in {"InternalProbe", "Background"} => MemoryReader!is_background_reader
<1> USE DEF MemoryReader!PlaybackIntent, MemoryReader!DirectIntents,
      MemoryReader!HlsIntents, MemoryReader!Downloads, MemoryReader!is_background_reader
<1> DEFINE a == MemoryReader!priority_replan_intent
           b == MemoryReader!intent_of(seek)
<1>1. /\ a \in MemoryReader!PlaybackIntent
      /\ a \in {"InternalProbe", "Background"} => MemoryReader!is_background_reader
  BY DEF MemoryReader!priority_replan_intent, MemoryReader!seek_for_same_family
<1>2. /\ b \in MemoryReader!PlaybackIntent
      /\ b \in {"InternalProbe", "Background"} => MemoryReader!is_background_reader
  <2> HIDE DEF a
  <2>1. CASE seek = "ContainerMetadata"  BY <2>1 DEF MemoryReader!intent_of
  <2>2. CASE seek = "UserScrub"  BY <1>1, <2>2 DEF MemoryReader!intent_of, a
  <2>3. CASE seek \notin {"ContainerMetadata", "UserScrub"}
    BY <2>3 DEF MemoryReader!intent_of, MemoryReader!sequential_after_first_byte
  <2> QED  BY <2>1, <2>2, <2>3
<1> QED  BY <1>1, <1>2

LEMMA MovesAreUrgent ==
  ASSUME MemoryInv, CacheIsCounted, NEW piece, NEW seek, NEW f,
         seek \in MemoryReader!SeekTypes, piece \in PiecesM \ haveM,
         f \in MemoryReader!SetWindows(piece, seek)
  PROVE  UrgentIn(f, piece)
<1>1. CASE MemoryReader!Prioritized(piece)
  BY <1>1 DEF MemoryReader!SetWindows, MemoryReader!Prioritized, MemoryInv
<1>2. CASE ~MemoryReader!Prioritized(piece)
  <2>1. f \in MemoryReader!Decisions(MemoryReader!intent_of(seek), piece, sentM, waits)
    BY <1>2 DEF MemoryReader!SetWindows
  <2>2. /\ MemoryReader!intent_of(seek) \in MemoryReader!PlaybackIntent
        /\ MemoryReader!intent_of(seek) \in {"InternalProbe", "Background"}
               => MemoryReader!is_background_reader
    BY ReplansKeepTheClass DEF MemoryInv
  <2>3. piece \in PiecesM /\ sentM \in BOOLEAN /\ waits \in 0..3  BY DEF MemoryInv
  <2> QED  BY <2>1, <2>2, <2>3, DecisionIsUrgent
<1> QED  BY <1>1, <1>2

LEMMA InitMemory == ASSUME CacheIsCounted, MemoryReader!Init PROVE MemoryInv
<1>1. intentM \in MemoryReader!PlaybackIntent
  BY DEF MemoryReader!Init, MemoryReader!Opened, MemoryReader!PlaybackIntent,
    MemoryReader!DirectIntents, MemoryReader!HlsIntents, MemoryReader!Downloads,
    MemoryReader!Initial, MemoryReader!Seeks
<1>2. -1 \notin PiecesM  BY RequestsAssumption DEF PiecesM, MemoryReader!Pieces
<1>3. /\ posM \in PiecesM /\ windowM \in MemoryReader!Decisions(intentM, posM, FALSE, 0)
      /\ last_priorities_piece = posM /\ sentM = FALSE /\ waits = 0 /\ waitingM = -1
      /\ seek_type \in MemoryReader!SeekTypes /\ cached = {}
  BY DEF MemoryReader!Init, MemoryReader!SeekTypes, PiecesM
<1>4. UrgentIn(windowM, posM)
  <2>1. PICK s : s \in {FALSE}  OBVIOUS
  <2>2. PICK w : w \in {0}  OBVIOUS
  <2>3. windowM \in MemoryReader!Decisions(intentM, posM, s, w)  BY <1>3, <2>1, <2>2
  <2>4. s \in BOOLEAN /\ w \in 0..3  BY <2>1, <2>2
  <2>5. intentM \in {"InternalProbe", "Background"} => MemoryReader!is_background_reader
    BY DEF MemoryReader!is_background_reader
  <2> QED  BY <1>1, <1>3, <2>3, <2>4, <2>5, DecisionIsUrgent
<1>5. sentM \in BOOLEAN /\ waits \in 0..3 /\ cached \subseteq haveM
  <2>1. sentM \in BOOLEAN  BY DEF MemoryReader!Init
  <2>2. waits \in 0..3  BY <1>3
  <2>3. cached \subseteq haveM  BY DEF MemoryReader!Init
  <2> QED  BY <2>1, <2>2, <2>3
<1>6. waitingM \notin PiecesM  BY <1>2, <1>3
<1> QED  BY <1>1, <1>3, <1>4, <1>5, <1>6 DEF MemoryInv

LEMMA MemoryKeeps ==
  ASSUME CacheIsCounted, MemoryInv, [MemoryReader!Next]_(MemoryReader!vars)
  PROVE  MemoryInv'
<1>1. -1 \notin PiecesM /\ PiecesM' = PiecesM
  BY RequestsAssumption DEF PiecesM, MemoryReader!Pieces
<1>2. ASSUME NEW f, NEW p, UNCHANGED <<intentM, subordinateM>>, UrgentIn(f, p)
      PROVE  /\ p \in DOMAIN f
             /\ ~MemoryReader!is_background_reader' => f[p] = [priority |-> 7, deadline |-> 0]
  BY <1>2 DEF UrgentIn, MemoryReader!is_background_reader
<1>3. ASSUME NEW p, NEW s, s \in MemoryReader!SeekTypes
      PROVE  MemoryReader!SeekTypeAfter(p, s) \in MemoryReader!SeekTypes
  BY <1>3 DEF MemoryReader!SeekTypeAfter, MemoryReader!SeekTypes
<1>4. CASE MemoryReader!WaitForPiece
  <2>1. /\ posM \in PiecesM \ haveM /\ waits' = MemoryReader!Lower(waits + 1, 3)
        /\ last_priorities_piece' = posM /\ seek_type' = MemoryReader!SeekTypeAfter(posM, seek_type)
        /\ waitingM' = posM /\ UNCHANGED <<intentM, subordinateM, haveM, cached, sentM>>
        /\ \/ windowM' \in MemoryReader!SetWindows(posM, seek_type)
           \/ windowM' \in MemoryReader!Decisions(MemoryReader!priority_replan_intent, posM, sentM, waits')
    BY <1>4 DEF MemoryReader!WaitForPiece, PiecesM
  <2>2. waits' \in 0..3  BY <2>1 DEF MemoryInv, MemoryReader!Lower
  <2>3. UrgentIn(windowM', posM)
    <3>1. CASE windowM' \in MemoryReader!SetWindows(posM, seek_type)
      BY <2>1, <3>1, MovesAreUrgent DEF MemoryInv
    <3>2. CASE windowM' \in MemoryReader!Decisions(MemoryReader!priority_replan_intent, posM, sentM, waits')
      <4>1. /\ MemoryReader!priority_replan_intent \in MemoryReader!PlaybackIntent
            /\ MemoryReader!priority_replan_intent \in {"InternalProbe", "Background"}
                   => MemoryReader!is_background_reader
        BY ReplansKeepTheClass DEF MemoryInv
      <4>2. posM \in PiecesM /\ sentM \in BOOLEAN  BY <2>1 DEF MemoryInv
      <4> QED  BY <2>2, <3>2, <4>1, <4>2, DecisionIsUrgent
    <3> QED  BY <2>1, <3>1, <3>2
  <2>4. UrgentIn(windowM, last_priorities_piece)'  BY <1>2, <2>1, <2>3 DEF UrgentIn
  <2>5. seek_type' \in MemoryReader!SeekTypes  BY <1>3, <2>1 DEF MemoryInv
  <2> QED  BY <1>1, <2>1, <2>2, <2>4, <2>5 DEF MemoryInv
<1>5. CASE MemoryReader!CopyPiece \/ MemoryReader!Serve
  <2>1. /\ posM \in haveM /\ cached' \subseteq haveM /\ last_priorities_piece' = posM
        /\ seek_type' = MemoryReader!SeekTypeAfter(posM, seek_type)
        /\ waitingM' \in {posM, -1} /\ UNCHANGED <<intentM, subordinateM, haveM>>
        /\ sentM' \in BOOLEAN /\ waits' \in 0..3
    <3>1. CASE MemoryReader!CopyPiece  BY <3>1 DEF MemoryReader!CopyPiece, MemoryInv
    <3>2. CASE MemoryReader!Serve
      <4>1. sentM' \in BOOLEAN /\ waits' \in 0..3  BY <3>2 DEF MemoryReader!Serve
      <4>2. cached \subseteq haveM  BY DEF MemoryInv
      <4> QED  BY <3>2, <4>1, <4>2 DEF MemoryReader!Serve
    <3> QED  BY <1>5, <3>1, <3>2
  <2>2. seek_type' \in MemoryReader!SeekTypes  BY <1>3, <2>1 DEF MemoryInv
  <2> QED  BY <1>1, <2>1, <2>2 DEF MemoryInv
<1>6. CASE MemoryReader!Seek
  <2>1. PICK p, seek :
           /\ seek \in MemoryReader!SeekTypes /\ windowM' \in MemoryReader!SetWindows(p, seek)
           /\ seek_type' = MemoryReader!SeekTypeAfter(p, seek) /\ last_priorities_piece' = p
    BY <1>6 DEF MemoryReader!Seek, MemoryReader!SeekTypes
  <2>2. waitingM' = -1 /\ UNCHANGED <<intentM, subordinateM, haveM, cached, sentM, waits>>
    BY <1>6 DEF MemoryReader!Seek
  <2>3. seek_type' \in MemoryReader!SeekTypes  BY <1>3, <2>1
  <2>4. p \in PiecesM \ haveM => UrgentIn(windowM', p)  BY <2>1, MovesAreUrgent
  <2>5. p \in PiecesM \ haveM => UrgentIn(windowM, last_priorities_piece)'
    BY <1>2, <2>1, <2>2, <2>4 DEF UrgentIn
  <2> QED  BY <1>1, <2>1, <2>2, <2>3, <2>5 DEF MemoryInv
<1>7. CASE MemoryReader!PieceVerified
  <2>1. PICK p \in PiecesM \ haveM :
           haveM' = haveM \cup {p} /\ windowM' = [x \in DOMAIN windowM \ {p} |-> windowM[x]]
    BY <1>7 DEF MemoryReader!PieceVerified, PiecesM
  <2>2. UNCHANGED <<intentM, subordinateM, cached, sentM, seek_type, last_priorities_piece, waits, waitingM>>
    BY <1>7 DEF MemoryReader!PieceVerified, MemoryReader!reader
  <2>3. last_priorities_piece \in PiecesM \ haveM' => UrgentIn(windowM, last_priorities_piece)'
    BY <2>1, <2>2 DEF MemoryInv, UrgentIn, MemoryReader!is_background_reader
  <2> QED  BY <1>1, <2>1, <2>2, <2>3 DEF MemoryInv
<1>8. CASE MemoryReader!IntervalPasses \/ UNCHANGED MemoryReader!vars
  <2>1. UNCHANGED <<intentM, subordinateM, haveM, cached, sentM, seek_type, last_priorities_piece,
                    waits, windowM, waitingM>>
    BY <1>8 DEF MemoryReader!IntervalPasses, MemoryReader!vars, MemoryReader!reader
  <2> QED  BY <1>1, <2>1 DEF MemoryInv, UrgentIn, MemoryReader!is_background_reader
<1> QED  BY <1>4, <1>5, <1>6, <1>7, <1>8 DEF MemoryReader!Next

-----------------------------------------------------------------------------
(* MemoryWindow, again for any pieces, lengths, rates and peers, and for    *)
(* any cache: also where the cast of max_cache_pieces wraps, for a cast of  *)
(* a natural number never gives more than that number.  What a reader asks  *)
(* for fits in the cache that has to hold it, and is asked for in the order *)
(* in which it is played.                                                   *)
FitsTheCache(f) ==
  CacheM > 0 =>
    \A p, q \in DOMAIN f : (q - p + 1) * LengthM <= MemoryReader!Higher(CacheM, LengthM)

InPlayingOrder(f) ==
  \A p, q \in DOMAIN f : p < q =>
    /\ f[p].priority >= f[q].priority
    /\ f[p].deadline < f[q].deadline \/ MemoryReader!is_background_reader

WindowIsPlanned(f) == DOMAIN f \subseteq PiecesM /\ FitsTheCache(f) /\ InPlayingOrder(f)

PlanInv ==
  /\ intentM \in MemoryReader!PlaybackIntent /\ sentM \in BOOLEAN /\ waits \in 0..3
  /\ seek_type \in MemoryReader!SeekTypes
  /\ FirstM <= LastM /\ posM \in FirstM..(LastM + 1)
  /\ cached \subseteq haveM /\ haveM \subseteq PiecesM
  /\ WindowIsPlanned(windowM)

LEMMA RemainderIsLess == ASSUME NEW n \in Nat, NEW m \in Nat \ {0} PROVE n % m \in Nat /\ n % m <= n
<1>1. n % m \in Nat /\ n % m < m  OBVIOUS
<1>2. CASE n < m  BY <1>1, <1>2
<1>3. CASE n >= m  BY <1>1, <1>3
<1> QED  BY <1>2, <1>3

LEMMA ProductsKeepOrder ==
  ASSUME NEW a \in Int, NEW b \in Int, NEW c \in Nat, a <= b PROVE a * c <= b * c
<1>1. (b - a) * c >= 0
  <2>1. b - a \in Nat  OBVIOUS
  <2>2. (b - a) * c \in Nat  BY <2>1, ProductIsNat
  <2> QED  BY <2>2
<1> QED  BY <1>1

(* max_cache_pieces: what an i32 makes of it still fits.                     *)
LEMMA CacheHoldsThem ==
  ASSUME NEW ctx, ctx.cache = CacheM, ctx.length = LengthM
  PROVE  /\ MemoryReader!max_cache_pieces(ctx) \in Int
         /\ CacheM > 0 => \A k \in Int : k <= MemoryReader!max_cache_pieces(ctx) =>
                            k * LengthM <= MemoryReader!Higher(CacheM, LengthM)
<1> DEFINE n == MemoryReader!Higher(CacheM \div LengthM, 1)
<1>1. CacheM \in Nat /\ LengthM \in Nat /\ LengthM # 0 /\ CacheM \div LengthM \in Nat
  BY RequestsAssumption
<1>2. n \in Nat  BY <1>1 DEF MemoryReader!Higher
<1>3. n * LengthM <= MemoryReader!Higher(CacheM, LengthM)
  <2>1. (CacheM \div LengthM) * LengthM <= CacheM  BY <1>1
  <2>2. 1 * LengthM = LengthM  BY <1>1
  <2> QED  BY <1>1, <2>1, <2>2 DEF MemoryReader!Higher
<1> HIDE DEF n
<1>4. MemoryReader!AsI32(n) \in Int /\ MemoryReader!AsI32(n) <= n
  <2>1. I32 \in Nat \ {0}  BY I32Assumption
  <2>2. n % I32 \in Nat /\ n % I32 <= n  BY <1>2, <2>1, RemainderIsLess
  <2> QED  BY <1>2, <2>1, <2>2 DEF MemoryReader!AsI32
<1>5. CASE CacheM > 0
  <2>1. MemoryReader!max_cache_pieces(ctx) = MemoryReader!AsI32(n)
    BY <1>5 DEF MemoryReader!max_cache_pieces, n
  <2>2. ASSUME NEW k \in Int, k <= MemoryReader!AsI32(n)
        PROVE  k * LengthM <= MemoryReader!Higher(CacheM, LengthM)
    <3>1. k <= n  BY <1>2, <1>4, <2>2
    <3>2. k * LengthM <= n * LengthM  BY <1>1, <1>2, <3>1, ProductsKeepOrder
    <3>3. k * LengthM \in Int /\ n * LengthM \in Int /\ MemoryReader!Higher(CacheM, LengthM) \in Int
      BY <1>1, <1>2 DEF MemoryReader!Higher
    <3> QED  BY <1>3, <3>2, <3>3
  <2> QED  BY <1>4, <2>1, <2>2
<1>6. CASE ~(CacheM > 0)
  BY <1>6 DEF MemoryReader!max_cache_pieces, MemoryReader!MAX_HOT_PIECES
<1> QED  BY <1>5, <1>6

LEMMA WindowsAreBounded ==
  ASSUME NEW ctx, ctx.intent \in MemoryReader!PlaybackIntent, ctx.bitrate = -1,
         ctx.rate \in Nat, ctx.peers \in Nat, ctx.waits \in 0..3, ctx.sent \in BOOLEAN,
         ctx.length = LengthM, ctx.size \in Nat, ctx.cache = CacheM,
         ctx.current \in Int, ctx.last \in Int, ctx.pressure \in BOOLEAN
  PROVE  /\ MemoryReader!hot_window(ctx) \in Int /\ MemoryReader!target_window(ctx) \in Int
         /\ MemoryReader!target_window(ctx) <= MemoryReader!max_cache_pieces(ctx)
<1>l. ctx.length \in Nat \ {0}  BY RequestsAssumption
<1>1. MemoryReader!wanted(ctx)[2] \in Int /\ MemoryReader!wanted(ctx)[3] \in Int
  BY <1>l, IntentsWant
<1>2. /\ MemoryReader!hot_byte_cap(ctx) \in Nat /\ MemoryReader!warm_byte_cap(ctx.intent) \in Nat
  BY MBAssumption
  DEF MemoryReader!hot_byte_cap, MemoryReader!forward_window_bytes, MemoryReader!warm_byte_cap,
    MemoryReader!PlaybackIntent, MemoryReader!DirectIntents, MemoryReader!HlsIntents,
    MemoryReader!Downloads, MemoryReader!Initial, MemoryReader!Seeks, MemoryReader!Sequential,
    MemoryReader!MAX_WARM_WINDOW_BYTES, MemoryReader!MAX_DOWNLOAD_RANGE_WINDOW_BYTES,
    MemoryReader!MAX_STARTUP_WINDOW_BYTES, MemoryReader!MAX_SEEK_HOT_WINDOW_BYTES,
    MemoryReader!MAX_CONTAINER_METADATA_WINDOW_BYTES
<1>3. MemoryReader!max_cache_pieces(ctx) \in Int  BY CacheHoldsThem
<1>4. MemoryReader!remaining_pieces(ctx) \in Int  BY DEF MemoryReader!remaining_pieces
<1> DEFINE h == MemoryReader!under_pressure(ctx, MemoryReader!wanted(ctx)[2])
           c == MemoryReader!cap_pieces_by_bytes(h, ctx.length, MemoryReader!hot_byte_cap(ctx))
           v == MemoryReader!cap_pieces_by_bytes(MemoryReader!wanted(ctx)[3], ctx.length,
                                                 MemoryReader!warm_byte_cap(ctx.intent))
<1>5. c \in Int
  <2>1. h \in Int
    BY <1>1 DEF MemoryReader!under_pressure, MemoryReader!Lower, MemoryReader!MIN_SEEK_HOT_PIECES
  <2> HIDE DEF h
  <2> QED  BY <1>2, <1>l, <2>1, CapIsPositive
<1>6. v \in Int  BY <1>1, <1>2, <1>l, CapIsPositive
<1>7. /\ MemoryReader!hot_window(ctx) \in Int
      /\ MemoryReader!hot_window(ctx) <= MemoryReader!max_cache_pieces(ctx)
  BY <1>3, <1>4, <1>5
  DEF MemoryReader!hot_window, MemoryReader!Clamp, MemoryReader!Lower, MemoryReader!Higher,
    MemoryReader!MAX_HOT_PIECES
<1>8. /\ MemoryReader!warm_window(ctx) \in Int
      /\ MemoryReader!warm_window(ctx) <= MemoryReader!max_cache_pieces(ctx) - MemoryReader!hot_window(ctx)
  BY <1>3, <1>4, <1>6, <1>7
  DEF MemoryReader!warm_window, MemoryReader!Clamp, MemoryReader!Lower, MemoryReader!Higher,
    MemoryReader!MAX_WARM_PIECES
<1> QED  BY <1>3, <1>7, <1>8 DEF MemoryReader!target_window

(* assignment_for: the further a piece, the later and the less urgent.       *)
LEMMA FurtherIsLater ==
  ASSUME NEW ctx, MemoryReader!hot_window(ctx) \in Int, ctx.length = LengthM,
         ctx.bitrate = -1, ctx.rate \in Nat, NEW d \in Nat, NEW e \in Nat, d < e
  PROVE  LET a == MemoryReader!assignment_for(ctx, d)
             b == MemoryReader!assignment_for(ctx, e)
         IN a.priority >= b.priority /\ a.deadline < b.deadline
<1> DEFINE step == MemoryReader!playback_deadline_step_ms(ctx.length, ctx.bitrate, ctx.rate)
<1>1. step \in Nat /\ step >= 1
  BY MBAssumption, RequestsAssumption
  DEF MemoryReader!playback_deadline_step_ms, MemoryReader!effective_rate, MemoryReader!Clamp,
    MemoryReader!CeilDiv, MemoryReader!Lower, MemoryReader!Higher
<1> HIDE DEF step
<1>2. d * step \in Int /\ e * step \in Int /\ d * step < e * step
  <2>1. (d + 1) * step <= e * step  BY <1>1, ProductsKeepOrder
  <2>2. (d + 1) * step = d * step + step  BY <1>1
  <2>3. d * step \in Nat /\ e * step \in Nat  BY <1>1, ProductIsNat
  <2> QED  BY <1>1, <2>1, <2>2, <2>3
<1> DEFINE x == d * step
           y == e * step
<1> HIDE DEF x, y
<1>3. x \in Int /\ y \in Int /\ x < y  BY <1>2 DEF x, y
<1>4. CASE ctx.intent = "ContainerMetadata"
  BY <1>3, <1>4 DEF MemoryReader!assignment_for, step, x, y
<1>5. CASE ctx.intent = "InternalProbe"
  BY <1>3, <1>5 DEF MemoryReader!assignment_for, step, x, y
<1>6. CASE ctx.intent = "Background"
  BY <1>3, <1>6 DEF MemoryReader!assignment_for, step, x, y
<1>7. CASE ctx.intent \notin {"ContainerMetadata", "InternalProbe", "Background"}
  <2>1. ASSUME NEW k \in Nat
        PROVE  MemoryReader!assignment_for(ctx, k) =
                 IF k < MemoryReader!hot_window(ctx)
                 THEN [priority |-> 7, deadline |-> k * step]
                 ELSE [priority |-> 2, deadline |-> 10000 + k * step]
    BY <1>7 DEF MemoryReader!assignment_for, step
  <2> QED  BY <1>3, <2>1 DEF x, y
<1> QED  BY <1>4, <1>5, <1>6, <1>7

LEMMA DecisionIsPlanned ==
  ASSUME NEW i, NEW piece, NEW s, NEW w, NEW f,
         i \in MemoryReader!PlaybackIntent, piece \in FirstM..(LastM + 1), s \in BOOLEAN, w \in 0..3,
         f \in MemoryReader!Decisions(i, piece, s, w)
  PROVE  WindowIsPlanned(f)
<1>1. PICK rate \in Rates, peers \in Peers, pressure \in BOOLEAN :
         f = MemoryReader!Submitted(MemoryReader!decide(
                 MemoryReader!Context(i, piece, s, w, rate, peers, pressure)))
  BY DEF MemoryReader!Decisions
<1> DEFINE ctx == MemoryReader!Context(i, piece, s, w, rate, peers, pressure)
<1>2. /\ ctx.intent = i /\ ctx.bitrate = -1 /\ ctx.rate = rate /\ ctx.peers = peers
      /\ ctx.waits = w /\ ctx.sent = s /\ ctx.length = LengthM /\ ctx.cache = CacheM
      /\ ctx.size = (LastM - FirstM + 1) * LengthM /\ ctx.current = piece
      /\ ctx.first = FirstM /\ ctx.last = LastM /\ ctx.pressure = pressure
  BY DEF MemoryReader!Context
<1> HIDE DEF ctx
<1>3. /\ FirstM \in Int /\ LastM \in Int /\ piece \in Int /\ FirstM <= piece /\ piece <= LastM + 1
      /\ rate \in Nat /\ peers \in Nat /\ LengthM \in Nat \ {0}
  BY RequestsAssumption
<1>4. ctx.size \in Nat
  <2>1. LastM - FirstM + 1 \in Nat /\ LengthM \in Nat  BY <1>3
  <2> QED  BY <1>2, <2>1, ProductIsNat
<1>5. /\ MemoryReader!hot_window(ctx) \in Int /\ MemoryReader!target_window(ctx) \in Int
      /\ MemoryReader!target_window(ctx) <= MemoryReader!max_cache_pieces(ctx)
  <2>1. /\ ctx.intent \in MemoryReader!PlaybackIntent /\ ctx.bitrate = -1 /\ ctx.rate \in Nat
        /\ ctx.peers \in Nat /\ ctx.waits \in 0..3 /\ ctx.sent \in BOOLEAN
        /\ ctx.length = LengthM /\ ctx.cache = CacheM
        /\ ctx.current \in Int /\ ctx.last \in Int /\ ctx.pressure \in BOOLEAN
    BY <1>2, <1>3
  <2> QED  BY <1>4, <2>1, WindowsAreBounded
<1> DEFINE g == MemoryReader!decide(ctx)
           A == MemoryReader!assigned(ctx)
<1>6. /\ DOMAIN g = A /\ \A p \in A : g[p] = MemoryReader!assignment_for(ctx, p - ctx.current)
      /\ \A p \in A : /\ p \in FirstM..LastM /\ p >= piece
                      /\ p - piece < MemoryReader!target_window(ctx)
  BY <1>2 DEF MemoryReader!decide, MemoryReader!assigned
<1> HIDE DEF g, A
<1>7. /\ DOMAIN f = A
      /\ ~MemoryReader!is_background_reader => f = g
      /\ \A p \in A : f[p].priority = g[p].priority
  <2>1. CASE MemoryReader!is_background_reader
    <3>1. f = [p \in A |-> [g[p] EXCEPT !.deadline = MemoryReader!NoDeadline]]
      BY <1>1, <1>6, <2>1 DEF MemoryReader!Submitted, g, ctx
    <3>2. ASSUME NEW p \in A PROVE [g[p] EXCEPT !.deadline = MemoryReader!NoDeadline].priority = g[p].priority
      <4>1. PICK x, y : g[p] = [priority |-> x, deadline |-> y]
        BY <1>6 DEF MemoryReader!assignment_for
      <4> QED  BY <4>1
    <3> QED  BY <2>1, <3>1, <3>2
  <2>2. CASE ~MemoryReader!is_background_reader
    BY <1>1, <1>6, <2>2 DEF MemoryReader!Submitted, g, ctx
  <2> QED  BY <2>1, <2>2
<1>8. FitsTheCache(f)
  <2> SUFFICES ASSUME CacheM > 0, NEW p \in A, NEW q \in A
               PROVE  (q - p + 1) * LengthM <= MemoryReader!Higher(CacheM, LengthM)
    BY <1>7 DEF FitsTheCache
  <2>1. q - p + 1 \in Int /\ q - p + 1 <= MemoryReader!target_window(ctx)
    BY <1>3, <1>5, <1>6
  <2>2. MemoryReader!max_cache_pieces(ctx) \in Int
        /\ \A k \in Int : k <= MemoryReader!max_cache_pieces(ctx) =>
                            k * LengthM <= MemoryReader!Higher(CacheM, LengthM)
    BY <1>2, CacheHoldsThem
  <2>3. q - p + 1 <= MemoryReader!max_cache_pieces(ctx)  BY <1>5, <2>1, <2>2
  <2> QED  BY <2>1, <2>2, <2>3
<1>9. InPlayingOrder(f)
  <2> SUFFICES ASSUME NEW p \in A, NEW q \in A, p < q
               PROVE  /\ g[p].priority >= g[q].priority
                      /\ g[p].deadline < g[q].deadline
    BY <1>7 DEF InPlayingOrder
  <2>1. p - piece \in Nat /\ q - piece \in Nat /\ p - piece < q - piece  BY <1>3, <1>6
  <2> QED  BY <1>2, <1>3, <1>5, <1>6, <2>1, FurtherIsLater
<1> QED  BY <1>6, <1>7, <1>8, <1>9 DEF WindowIsPlanned, PiecesM, MemoryReader!Pieces

(* Each step keeps the window, takes a verified piece out of it or submits   *)
(* what the policy decides.                                                  *)
LEMMA MovesArePlanned ==
  ASSUME PlanInv, NEW piece, NEW seek, NEW f,
         seek \in MemoryReader!SeekTypes, piece \in FirstM..(LastM + 1),
         f \in MemoryReader!SetWindows(piece, seek)
  PROVE  WindowIsPlanned(f)
<1>1. CASE MemoryReader!Prioritized(piece)  BY <1>1 DEF MemoryReader!SetWindows, PlanInv
<1>2. CASE ~MemoryReader!Prioritized(piece)
  <2>1. f \in MemoryReader!Decisions(MemoryReader!intent_of(seek), piece, sentM, waits)
    BY <1>2 DEF MemoryReader!SetWindows
  <2>2. MemoryReader!intent_of(seek) \in MemoryReader!PlaybackIntent  BY ReplansKeepTheClass DEF PlanInv
  <2> QED  BY <2>1, <2>2, DecisionIsPlanned DEF PlanInv
<1> QED  BY <1>1, <1>2

LEMMA ServingIsPlanned ==
  ASSUME PlanInv, NEW piece, NEW s, NEW w, NEW f,
         piece \in PiecesM, s \in BOOLEAN, w \in 0..3,
         f \in MemoryReader!ServingWindows(piece, s, w, MemoryReader!SetWindows(piece, seek_type))
  PROVE  WindowIsPlanned(f)
<1>1. FirstM \in Int /\ LastM \in Int /\ piece \in Int /\ FirstM <= piece /\ piece <= LastM
  BY RequestsAssumption DEF PiecesM, MemoryReader!Pieces
<1>2. CASE f \in MemoryReader!SetWindows(piece, seek_type)
  <2>1. piece \in FirstM..(LastM + 1)  BY <1>1
  <2> QED  BY <1>2, <2>1, MovesArePlanned DEF PlanInv
<1>3. CASE f \in MemoryReader!Decisions(MemoryReader!priority_replan_intent,
                                       MemoryReader!Lower(piece + 1, LastM), s, w)
  <2>1. MemoryReader!Lower(piece + 1, LastM) \in FirstM..(LastM + 1)  BY <1>1 DEF MemoryReader!Lower
  <2>2. MemoryReader!priority_replan_intent \in MemoryReader!PlaybackIntent
    <3>1. seek_type \in MemoryReader!SeekTypes  BY DEF PlanInv
    <3> QED  BY <3>1, ReplansKeepTheClass DEF PlanInv
  <2> QED  BY <1>3, <2>1, <2>2, DecisionIsPlanned
<1> QED  BY <1>2, <1>3 DEF MemoryReader!ServingWindows

LEMMA InitPlan == ASSUME MemoryReader!Init PROVE PlanInv
<1>1. intentM \in MemoryReader!PlaybackIntent
  BY DEF MemoryReader!Init, MemoryReader!Opened, MemoryReader!PlaybackIntent,
    MemoryReader!DirectIntents, MemoryReader!HlsIntents, MemoryReader!Downloads,
    MemoryReader!Initial, MemoryReader!Seeks
<1>2. /\ posM \in PiecesM /\ windowM \in MemoryReader!Decisions(intentM, posM, FALSE, 0)
      /\ sentM = FALSE /\ waits = 0 /\ haveM \in {{}, {FirstM}} /\ cached = {}
      /\ seek_type \in MemoryReader!SeekTypes
  BY DEF MemoryReader!Init, MemoryReader!SeekTypes, PiecesM
<1>3. /\ FirstM \in Int /\ LastM \in Int /\ FirstM <= LastM /\ posM \in FirstM..(LastM + 1)
      /\ FirstM \in PiecesM
  BY <1>2, RequestsAssumption DEF PiecesM, MemoryReader!Pieces
<1>4. WindowIsPlanned(windowM)
  <2>1. PICK s \in BOOLEAN : s = FALSE  OBVIOUS
  <2>2. PICK w \in 0..3 : w = 0  OBVIOUS
  <2>3. windowM \in MemoryReader!Decisions(intentM, posM, s, w)  BY <1>2, <2>1, <2>2
  <2> QED  BY <1>1, <1>3, <2>3, DecisionIsPlanned
<1>5. cached \subseteq haveM /\ haveM \subseteq PiecesM  BY <1>2, <1>3
<1>6. sentM \in BOOLEAN /\ waits \in 0..3
  <2>1. sentM \in BOOLEAN  BY DEF MemoryReader!Init
  <2>2. waits \in 0..3  BY DEF MemoryReader!Init
  <2> QED  BY <2>1, <2>2
<1>7. seek_type \in MemoryReader!SeekTypes  BY <1>2
<1> QED  BY <1>1, <1>3, <1>4, <1>5, <1>6, <1>7 DEF PlanInv

LEMMA PlanKeeps ==
  ASSUME PlanInv, [MemoryReader!Next]_(MemoryReader!vars)
  PROVE  PlanInv'
<1>1. /\ FirstM \in Int /\ LastM \in Int /\ FirstM <= LastM /\ posM \in Int
      /\ \A p : p \in PiecesM <=> p \in Int /\ FirstM <= p /\ p <= LastM
  BY RequestsAssumption DEF PlanInv, PiecesM, MemoryReader!Pieces
<1>2. ASSUME NEW f, UNCHANGED <<intentM, subordinateM>>, WindowIsPlanned(f), windowM' = f
      PROVE  WindowIsPlanned(windowM)'
  BY <1>2
  DEF WindowIsPlanned, FitsTheCache, InPlayingOrder, MemoryReader!is_background_reader, PiecesM,
    MemoryReader!Pieces
<1>3. ASSUME NEW p, NEW s, s \in MemoryReader!SeekTypes
      PROVE  MemoryReader!SeekTypeAfter(p, s) \in MemoryReader!SeekTypes
  BY <1>3 DEF MemoryReader!SeekTypeAfter, MemoryReader!SeekTypes
<1>4. PiecesM' = PiecesM  BY DEF PiecesM, MemoryReader!Pieces
<1>5. CASE MemoryReader!WaitForPiece
  <2>1. /\ posM \in PiecesM \ haveM /\ waits' = MemoryReader!Lower(waits + 1, 3)
        /\ seek_type' = MemoryReader!SeekTypeAfter(posM, seek_type)
        /\ UNCHANGED <<intentM, subordinateM, posM, haveM, cached, sentM>>
        /\ \/ windowM' \in MemoryReader!SetWindows(posM, seek_type)
           \/ windowM' \in MemoryReader!Decisions(MemoryReader!priority_replan_intent, posM, sentM, waits')
    BY <1>5 DEF MemoryReader!WaitForPiece, PiecesM
  <2>2. waits' \in 0..3  BY <2>1 DEF PlanInv, MemoryReader!Lower
  <2>3. seek_type' \in MemoryReader!SeekTypes  BY <1>3, <2>1 DEF PlanInv
  <2>4. WindowIsPlanned(windowM')
    <3>1. CASE windowM' \in MemoryReader!SetWindows(posM, seek_type)
      BY <3>1, MovesArePlanned DEF PlanInv
    <3>2. CASE windowM' \in MemoryReader!Decisions(MemoryReader!priority_replan_intent, posM, sentM, waits')
      <4>1. MemoryReader!priority_replan_intent \in MemoryReader!PlaybackIntent
        <5>1. seek_type \in MemoryReader!SeekTypes  BY DEF PlanInv
        <5> QED  BY <5>1, ReplansKeepTheClass DEF PlanInv
      <4> QED  BY <2>2, <3>2, <4>1, DecisionIsPlanned DEF PlanInv
    <3> QED  BY <2>1, <3>1, <3>2
  <2>5. WindowIsPlanned(windowM)'  BY <1>2, <2>1, <2>4
  <2> QED  BY <1>4, <2>1, <2>2, <2>3, <2>5 DEF PlanInv
<1>6. CASE MemoryReader!CopyPiece
  <2>1. /\ posM \in haveM \ cached /\ cached' = cached \cup {posM}
        /\ windowM' \in MemoryReader!ServingWindows(posM, sentM, waits,
                           MemoryReader!SetWindows(posM, seek_type))
        /\ seek_type' = MemoryReader!SeekTypeAfter(posM, seek_type)
        /\ UNCHANGED <<intentM, subordinateM, posM, haveM, sentM, waits>>
    BY <1>6 DEF MemoryReader!CopyPiece
  <2>2. seek_type' \in MemoryReader!SeekTypes  BY <1>3, <2>1 DEF PlanInv
  <2>3. posM \in PiecesM  BY <2>1 DEF PlanInv
  <2>4. WindowIsPlanned(windowM')  BY <2>1, <2>3, ServingIsPlanned DEF PlanInv
  <2>5. WindowIsPlanned(windowM)'  BY <1>2, <2>1, <2>4
  <2> QED  BY <1>4, <2>1, <2>2, <2>5 DEF PlanInv
<1>7. CASE MemoryReader!Serve
  <2>1. /\ posM \in cached /\ sentM' = TRUE /\ waits' = 0 /\ posM' \in {posM, posM + 1}
        /\ windowM' \in MemoryReader!ServingWindows(posM, TRUE, 0,
                           MemoryReader!SetWindows(posM, seek_type))
        /\ seek_type' = MemoryReader!SeekTypeAfter(posM, seek_type)
        /\ UNCHANGED <<intentM, subordinateM, haveM, cached>>
    BY <1>7 DEF MemoryReader!Serve
  <2>2. seek_type' \in MemoryReader!SeekTypes  BY <1>3, <2>1 DEF PlanInv
  <2>3. posM \in PiecesM  BY <2>1 DEF PlanInv
  <2>4. WindowIsPlanned(windowM')
    <3>1. PICK s \in BOOLEAN : s = TRUE  OBVIOUS
    <3>2. PICK w \in 0..3 : w = 0  OBVIOUS
    <3>3. windowM' \in MemoryReader!ServingWindows(posM, s, w, MemoryReader!SetWindows(posM, seek_type))
      BY <2>1, <3>1, <3>2
    <3> QED  BY <2>3, <3>3, ServingIsPlanned
  <2>5. WindowIsPlanned(windowM)'  BY <1>2, <2>1, <2>4
  <2>6. posM' \in FirstM..(LastM + 1)  BY <1>1, <2>1, <2>3
  <2>7. sentM' \in BOOLEAN /\ waits' \in 0..3  BY <2>1
  <2> QED  BY <1>4, <2>1, <2>2, <2>5, <2>6, <2>7 DEF PlanInv
<1>8. CASE MemoryReader!Seek
  <2>1. PICK p \in FirstM..(LastM + 1), seek \in MemoryReader!SeekTypes :
           /\ posM' = p /\ windowM' \in MemoryReader!SetWindows(p, seek)
           /\ seek_type' = MemoryReader!SeekTypeAfter(p, seek)
    BY <1>8 DEF MemoryReader!Seek, MemoryReader!SeekTypes
  <2>2. UNCHANGED <<intentM, subordinateM, haveM, cached, sentM, waits>>
    BY <1>8 DEF MemoryReader!Seek
  <2>3. WindowIsPlanned(windowM')  BY <2>1, MovesArePlanned
  <2>4. WindowIsPlanned(windowM)'  BY <1>2, <2>2, <2>3
  <2>5. seek_type' \in MemoryReader!SeekTypes  BY <1>3, <2>1
  <2> QED  BY <1>4, <2>1, <2>2, <2>4, <2>5 DEF PlanInv
<1>9. CASE MemoryReader!PieceVerified
  <2>1. PICK p \in PiecesM \ haveM :
           haveM' = haveM \cup {p} /\ windowM' = [x \in DOMAIN windowM \ {p} |-> windowM[x]]
    BY <1>9 DEF MemoryReader!PieceVerified, PiecesM
  <2>2. UNCHANGED <<intentM, subordinateM, posM, cached, sentM, seek_type, waits>>
    BY <1>9 DEF MemoryReader!PieceVerified, MemoryReader!reader
  <2>3. WindowIsPlanned(windowM')
    BY <2>1 DEF PlanInv, WindowIsPlanned, FitsTheCache, InPlayingOrder
  <2>4. WindowIsPlanned(windowM)'  BY <1>2, <2>2, <2>3
  <2> QED  BY <1>4, <2>1, <2>2, <2>4 DEF PlanInv
<1>10. CASE MemoryReader!IntervalPasses \/ UNCHANGED MemoryReader!vars
  <2>1. UNCHANGED <<intentM, subordinateM, posM, haveM, cached, sentM, seek_type, waits, windowM>>
    BY <1>10 DEF MemoryReader!IntervalPasses, MemoryReader!vars, MemoryReader!reader
  <2>2. WindowIsPlanned(windowM)'  BY <1>2, <2>1 DEF PlanInv
  <2> QED  BY <1>4, <2>1, <2>2 DEF PlanInv
<1> QED  BY <1>5, <1>6, <1>7, <1>8, <1>9, <1>10 DEF MemoryReader!Next

-----------------------------------------------------------------------------
(* LocalAddon: for any library, any names that IMDb may answer and any     *)
(* torrents.  The player may hold an identifier for as long as it likes    *)
(* while the walk goes on: an episode is found because items are only ever *)
(* appended to those of their identifier, and the identifier in the meta   *)
(* tells the item's own season and first episode.                          *)
(* Everything that a walk may index.                                        *)
AllItems ==
  UNION {UNION {{Addon!Item(e, e.videos[i], i, imdb) : imdb \in Addon!ResolveImdb} :
                   i \in DOMAIN e.videos} : e \in Library}

(* The identifier that the meta lists a video of the item by.               *)
Numbered(item) == item.id \o <<Addon!FirstOrOne(item.season), Addon!FirstOrOne(item.episode)>>

(* An item is filed under its own identifier.                               *)
ItemsFiled ==
  \A id \in DOMAIN items :
    /\ id = <<id[1], id[2]>>
    /\ items[id] \in Seq(AllItems)
    /\ \A item \in Addon!Range(items[id]) : item.id = id

(* What the player has open of a local identifier was filed, and still is:  *)
(* the index only grows.                                                    *)
OpenedIsFiled ==
  /\ viewer.pc \in {"idle", "chosen", "opened", "answered"}
  /\ viewer.pc = "chosen" => viewer.id \in DOMAIN items
  /\ viewer.pc = "opened" /\ Head(viewer.video) = "local" =>
       viewer.item \in Addon!Listed /\ viewer.video = Numbered(viewer.item)

WalkedOK == walked \in [done : SUBSET Library, now : SUBSET Library, videos : Nat]

AddonInv == WalkedOK /\ ItemsFiled /\ OpenedIsFiled /\ EpisodePlays

(* An identifier and two numbers behind it, taken apart again.               *)
LEMMA Quad ==
  ASSUME NEW a, NEW b, NEW c, NEW d
  PROVE  LET v == <<a, b>> \o <<c, d>> IN
         Len(v) = 4 /\ v[1] = a /\ v[2] = b /\ v[3] = c /\ v[4] = d
<1>1. PICK S : S = {a, b, c, d}
  OBVIOUS
<1>2. <<a, b>> \in Seq(S) /\ <<c, d>> \in Seq(S)  BY <1>1
<1> QED  BY <1>2, ConcatProperties

(* And its first two parts are the identifier.                               *)
LEMMA QuadPrefix ==
  ASSUME NEW a, NEW b, NEW c, NEW d
  PROVE  LET v == <<a, b>> \o <<c, d>> IN SubSeq(v, 1, 2) = <<a, b>> /\ Head(v) = a
<1>1. PICK S : S = {a, b, c, d}
  OBVIOUS
<1>2. <<a, b>> \in Seq(S) /\ <<c, d>> \in Seq(S)  BY <1>1
<1>3. PICK v : v = <<a, b>> \o <<c, d>>  OBVIOUS
<1>4. v \in Seq(S) /\ Len(v) = 4 /\ v[1] = a /\ v[2] = b
  BY <1>2, <1>3, ConcatProperties
<1>5. SubSeq(v, 1, 2) = <<a, b>>
  <2>1. PICK p, q : p = SubSeq(v, 1, 2) /\ q = <<a, b>>  OBVIOUS
  <2>2. p \in Seq(S) /\ Len(p) = 2 /\ p[1] = a /\ p[2] = b
    BY <1>4, <2>1, SubSeqProperties
  <2>3. q \in Seq(S) /\ Len(q) = 2 /\ q[1] = a /\ q[2] = b  BY <1>2, <2>1
  <2>4. \A i \in 1..Len(p) : p[i] = q[i]  BY <2>2, <2>3
  <2> QED  BY <2>1, <2>2, <2>3, <2>4, SeqEqual
<1> QED  BY <1>3, <1>4, <1>5

(* A torrent's identifier keeps its prefix with an index behind it.          *)
LEMMA TripleHead ==
  ASSUME NEW a, NEW b, NEW c
  PROVE  Head(<<a, b>> \o <<c>>) = a
<1>1. PICK S : S = {a, b, c}  OBVIOUS
<1>2. <<a, b>> \in Seq(S) /\ <<c>> \in Seq(S)  BY <1>1
<1>3. PICK v : v = <<a, b>> \o <<c>>  OBVIOUS
<1>4. v \in Seq(S) /\ Len(v) = 3 /\ v[1] = a
  BY <1>2, <1>3, ConcatProperties
<1> QED  BY <1>3, <1>4

(* Min is a member of any set of numbers that has one.                       *)
LEMMA Least ==
  ASSUME NEW S \in SUBSET Nat, S # {}
  PROVE  \E m \in S : \A n \in S : m <= n
<1>1. PICK m \in S : \A n \in S : ~(<<n, m>> \in OpToRel(<, Nat))
  BY WFMin, NatLessThanWellFounded
<1>2. \A n \in S : ~(n < m)  BY <1>1 DEF OpToRel
<1> QED  BY <1>2

(* What an indexed item is like: parse_filename gives at most one season,    *)
(* and a series has a season and an episode.                                 *)
LEMMA ItemShape ==
  ASSUME NEW item \in AllItems
  PROVE  /\ item.season \in Seq(Nat) /\ Len(item.season) <= 1
         /\ item.episode \in Seq(Nat)
         /\ item.type = "series" => item.season # <<>> /\ item.episode # <<>>
         /\ item.id = <<item.id[1], item.id[2]>>
<1>0. PICK e \in Library : \E i \in DOMAIN e.videos : \E imdb \in Addon!ResolveImdb :
        item = Addon!Item(e, e.videos[i], i, imdb)
  BY DEF AllItems
<1>1. PICK i \in DOMAIN e.videos, imdb \in Addon!ResolveImdb :
        item = Addon!Item(e, e.videos[i], i, imdb)
  BY <1>0
<1>2. /\ e.videos[i].season \in Seq(Nat) /\ Len(e.videos[i].season) <= 1
      /\ e.videos[i].episode \in Seq(Nat)
  BY LibraryAssumption
<1>3. /\ item.season = e.videos[i].season /\ item.episode = e.videos[i].episode
      /\ item.type = Addon!Type(e.videos[i]) /\ item.id = Addon!Id(e, e.videos[i], imdb)
  BY <1>1 DEF Addon!Item
<1>4. item.type = "series" => item.season # <<>> /\ item.episode # <<>>
  BY <1>3 DEF Addon!Type
<1>5. item.id = <<item.id[1], item.id[2]>>
  BY <1>3 DEF Addon!Id
<1> QED  BY <1>2, <1>3, <1>4, <1>5

LEMMA InitAddon == Addon!Init => AddonInv
  BY DEF Addon!Init, Addon!NoPlayer, AddonInv, WalkedOK, ItemsFiled, OpenedIsFiled, EpisodePlays, Addon!EpisodePlays

(* index: the items that were filed stay where they are.                     *)
LEMMA Filing ==
  ASSUME ItemsFiled, NEW item \in AllItems,
         items' = [id \in Addon!Ids \cup {item.id} |->
                      IF id = item.id THEN Addon!Inserted(item) ELSE items[id]]
  PROVE  /\ ItemsFiled' /\ DOMAIN items \subseteq DOMAIN items'
         /\ Addon!Listed \subseteq (Addon!Listed)'
<1>1. DOMAIN items' = DOMAIN items \cup {item.id}  BY DEF Addon!Ids
<1>2. item.id = <<item.id[1], item.id[2]>>  BY ItemShape
<1>3. Addon!Filed(item.id) \in Seq(AllItems)  BY DEF Addon!Filed, Addon!Ids, ItemsFiled
<1>4. PICK filed \in Seq(AllItems) : filed = Addon!Filed(item.id)  BY <1>3
<1>5. items'[item.id] = Append(filed, item)  BY <1>1, <1>4 DEF Addon!Inserted
<1>6. /\ Append(filed, item) \in Seq(AllItems)
      /\ Addon!Range(Append(filed, item)) = Addon!Range(filed) \cup {item}
  BY AppendProperties DEF Addon!Range
<1>7. \A id \in DOMAIN items : id # item.id => items'[id] = items[id]
  BY DEF Addon!Ids
<1>8. item.id \in DOMAIN items => filed = items[item.id]  BY <1>4 DEF Addon!Filed, Addon!Ids
<1>9. item.id \notin DOMAIN items => Addon!Range(filed) = {}  BY <1>4 DEF Addon!Filed, Addon!Ids, Addon!Range
<1>10. \A other \in Addon!Range(filed) : other.id = item.id
  BY <1>8, <1>9 DEF ItemsFiled
<1>11. ItemsFiled'
  <2> SUFFICES ASSUME NEW id \in DOMAIN items'
               PROVE  /\ id = <<id[1], id[2]>> /\ items'[id] \in Seq(AllItems)
                      /\ \A other \in Addon!Range(items'[id]) : other.id = id
    BY DEF ItemsFiled
  <2>1. CASE id = item.id  BY <2>1, <1>2, <1>5, <1>6, <1>10
  <2>2. CASE id # item.id  BY <2>2, <1>1, <1>7 DEF ItemsFiled
  <2> QED  BY <2>1, <2>2
<1>12. ASSUME NEW other \in Addon!Listed PROVE other \in (Addon!Listed)'
  <2>1. PICK id \in DOMAIN items : other \in Addon!Range(items[id])  BY DEF Addon!Listed, Addon!Ids
  <2>2. other \in Addon!Range(items'[id])
    <3>1. CASE id = item.id  BY <3>1, <2>1, <1>5, <1>6, <1>8
    <3>2. CASE id # item.id  BY <3>2, <2>1, <1>7
    <3> QED  BY <3>1, <3>2
  <2> QED  BY <2>1, <2>2, <1>1 DEF Addon!Listed, Addon!Ids
<1> QED  BY <1>1, <1>11, <1>12

LEMMA IndexKeeps ==
  ASSUME AddonInv, NEW entry \in Library, Addon!Index(entry)
  PROVE  AddonInv'
<1>1. viewer' = viewer  BY DEF Addon!Index
<1>2. /\ ItemsFiled' /\ DOMAIN items \subseteq DOMAIN items'
      /\ Addon!Listed \subseteq (Addon!Listed)'
  <2>1. CASE UNCHANGED items
    BY <2>1 DEF AddonInv, ItemsFiled, Addon!Listed, Addon!Ids
  <2>2. CASE items' # items
    <3>0. PICK idx \in DOMAIN entry.videos : idx = walked.videos + 1
      <4>1. walked.videos + 1 \in DOMAIN entry.videos
        BY LibraryAssumption DEF Addon!Index, AddonInv, WalkedOK
      <4> QED  BY <4>1
    <3>1. PICK imdb \in Addon!ResolveImdb :
            items' = [id \in Addon!Ids \cup {Addon!Item(entry, entry.videos[idx], idx, imdb).id} |->
                           IF id = Addon!Item(entry, entry.videos[idx], idx, imdb).id
                           THEN Addon!Inserted(Addon!Item(entry, entry.videos[idx], idx, imdb)) ELSE items[id]]
      BY <2>2, <3>0 DEF Addon!Index
    <3>2. Addon!Item(entry, entry.videos[idx], idx, imdb) \in AllItems  BY <3>1 DEF AllItems
    <3> QED  BY <3>1, <3>2, Filing DEF AddonInv
  <2> QED  BY <2>1, <2>2
<1>3. OpenedIsFiled'  BY <1>1, <1>2 DEF AddonInv, OpenedIsFiled, Numbered
<1>4. EpisodePlays'  BY <1>1, <1>2 DEF AddonInv, EpisodePlays, Addon!EpisodePlays
<1>5. WalkedOK'  BY DEF Addon!Index, AddonInv, WalkedOK
<1> QED  BY <1>2, <1>3, <1>4, <1>5 DEF AddonInv

(* handle_meta: what it lists of a local identifier was filed there, and a   *)
(* torrent's videos are told by their prefix.                                *)
LEMMA MetaKeeps == ASSUME AddonInv, Addon!Meta PROVE AddonInv'
<1>1. UNCHANGED <<items, walked>>  BY DEF Addon!Meta
<1>2. viewer.id \in DOMAIN items  BY DEF Addon!Meta, AddonInv, OpenedIsFiled
<1>3. viewer.id = <<viewer.id[1], viewer.id[2]>>  BY <1>2 DEF AddonInv, ItemsFiled
<1>4. PICK k, n : viewer.id = <<k, n>>  BY <1>3
<1>5. CASE viewer' = Addon!NoPlayer
  BY <1>1, <1>5 DEF Addon!NoPlayer, AddonInv, WalkedOK, ItemsFiled, OpenedIsFiled, EpisodePlays, Addon!EpisodePlays
<1>6. CASE Head(viewer.id) = "bt" /\ viewer' # Addon!NoPlayer
  <2>1. viewer' \in Addon!TorrentVideos(viewer.id)  BY <1>6 DEF Addon!Meta
  <2>2. PICK idx : viewer' = [pc |-> "opened", item |-> <<>>, video |-> viewer.id \o <<idx>>]
    BY <2>1 DEF Addon!TorrentVideos
  <2>3. k = "bt"  BY <1>4, <1>6
  <2>4. Head(<<k, n>> \o <<idx>>) = k  BY TripleHead
  <2>5. viewer'.pc = "opened" /\ Head(viewer'.video) = "bt"  BY <1>4, <2>2, <2>3, <2>4
  <2> QED  BY <1>1, <2>5 DEF AddonInv, WalkedOK, ItemsFiled, OpenedIsFiled, EpisodePlays, Addon!EpisodePlays
<1>7. CASE Head(viewer.id) # "bt" /\ viewer' # Addon!NoPlayer
  <2>1. viewer' \in Addon!LocalVideos(viewer.id)  BY <1>7 DEF Addon!Meta
  <2>2. PICK item \in Addon!Range(items[viewer.id]) :
          viewer' = [pc |-> "opened", item |-> item,
                     video |-> viewer.id \o <<Addon!FirstOrOne(item.season), Addon!FirstOrOne(item.episode)>>]
    BY <2>1 DEF Addon!LocalVideos
  <2>3. item.id = viewer.id /\ item \in Addon!Listed
    BY <1>2, <2>2 DEF AddonInv, ItemsFiled, Addon!Listed, Addon!Ids
  <2>4. viewer'.pc = "opened" /\ viewer'.item = item /\ viewer'.video = Numbered(item)
    BY <2>2, <2>3 DEF Numbered
  <2>5. OpenedIsFiled'  BY <1>1, <2>3, <2>4 DEF OpenedIsFiled, Numbered, Addon!Listed, Addon!Ids
  <2> QED  BY <1>1, <2>4, <2>5 DEF AddonInv, WalkedOK, ItemsFiled, EpisodePlays, Addon!EpisodePlays
<1> QED  BY <1>5, <1>6, <1>7

(* handle_stream: the item itself matches the identifier made from it, and   *)
(* what matches has its season and its first episode.                        *)
LEMMA EpisodeIsFound ==
  ASSUME ItemsFiled, NEW item \in Addon!Listed, item.type = "series",
         NEW video, video = Numbered(item), Head(video) = "local"
  PROVE  \E other \in Addon!Listed :
           /\ other.path = Addon!Answer(video)
           /\ other.season = item.season /\ Head(item.episode) \in Addon!Range(other.episode)
<1>1. PICK id \in DOMAIN items : item \in Addon!Range(items[id])  BY DEF Addon!Listed, Addon!Ids
<1>2. item.id = id /\ items[id] \in Seq(AllItems) /\ id = <<id[1], id[2]>>
  BY <1>1 DEF ItemsFiled
<1>3. PICK i \in DOMAIN items[id] : item = items[id][i]  BY <1>1 DEF Addon!Range
<1>4. item \in AllItems  BY <1>2, <1>3
<1>5. /\ item.season \in Seq(Nat) /\ Len(item.season) <= 1 /\ item.episode \in Seq(Nat)
      /\ item.season # <<>> /\ item.episode # <<>>
  BY <1>4, ItemShape
<1>6. PICK k, n, s, e :
        id = <<k, n>> /\ s = Head(item.season) /\ e = Head(item.episode)
  BY <1>2
<1>7. Addon!FirstOrOne(item.season) = s /\ Addon!FirstOrOne(item.episode) = e
  BY <1>5, <1>6 DEF Addon!FirstOrOne
<1>8. item.season = <<s>>  BY <1>5, <1>6
<1>9. e \in Addon!Range(item.episode)  BY <1>5, <1>6 DEF Addon!Range
<1>10. video = <<k, n>> \o <<s, e>>  BY <1>2, <1>6, <1>7 DEF Numbered
<1>11. Len(video) = 4 /\ video[3] = s /\ video[4] = e  BY <1>10, Quad
<1>12. SubSeq(video, 1, 2) = id  BY <1>6, <1>10, QuadPrefix
<1>13. Addon!Filed(SubSeq(video, 1, 2)) = items[id]  BY <1>12 DEF Addon!Filed, Addon!Ids
<1>14. Addon!Found(video) = {j \in DOMAIN items[id] : Addon!Matches(items[id][j], video)}
  BY <1>13 DEF Addon!Found
<1>15. i \in Addon!Found(video)  BY <1>3, <1>8, <1>9, <1>11, <1>14 DEF Addon!Matches
<1>16. Addon!Found(video) \in SUBSET Nat  BY <1>2, <1>14
<1>17. PICK m \in Addon!Found(video) : m = Addon!Min(Addon!Found(video))
  <2>1. \E m \in Addon!Found(video) : \A j \in Addon!Found(video) : m <= j
    BY <1>15, <1>16, Least
  <2> QED  BY <2>1 DEF Addon!Min
<1>18. PICK other : other = items[id][m]  OBVIOUS
<1>19. m \in DOMAIN items[id] /\ Addon!Matches(other, video)  BY <1>14, <1>17, <1>18
<1>20. other \in Addon!Listed  BY <1>18, <1>19 DEF Addon!Listed, Addon!Ids, Addon!Range
<1>21. other.season = <<s>> /\ e \in Addon!Range(other.episode)
  BY <1>11, <1>19 DEF Addon!Matches
<1>22. Addon!Answer(video) = other.path
  BY <1>13, <1>15, <1>17, <1>18 DEF Addon!Answer
<1> QED  BY <1>6, <1>8, <1>20, <1>21, <1>22

LEMMA StreamKeeps == ASSUME AddonInv, Addon!Stream PROVE AddonInv'
<1>1. UNCHANGED <<items, walked>>  BY DEF Addon!Stream
<1>2. /\ viewer'.pc = "answered" /\ viewer'.item = viewer.item
      /\ viewer'.video = viewer.video /\ viewer'.answer = Addon!Answer(viewer.video)
  BY DEF Addon!Stream
<1>3. ASSUME Head(viewer.video) = "local", viewer.item.type = "series"
      PROVE  \E other \in Addon!Listed :
               /\ other.path = Addon!Answer(viewer.video)
               /\ other.season = viewer.item.season
               /\ Head(viewer.item.episode) \in Addon!Range(other.episode)
  <2>1. viewer.item \in Addon!Listed /\ viewer.video = Numbered(viewer.item)
    BY <1>3 DEF Addon!Stream, AddonInv, OpenedIsFiled
  <2> QED  BY <1>3, <2>1, EpisodeIsFound DEF AddonInv
<1>4. EpisodePlays'
  BY <1>1, <1>2, <1>3 DEF EpisodePlays, Addon!EpisodePlays, Addon!Listed, Addon!Ids
<1> QED  BY <1>1, <1>2, <1>4 DEF AddonInv, WalkedOK, ItemsFiled, OpenedIsFiled

LEMMA AddonKeeps == ASSUME AddonInv, [Addon!Next]_(Addon!vars) PROVE AddonInv'
<1>1. ASSUME UNCHANGED <<items, viewer>>, WalkedOK'
      PROVE  AddonInv'
  <2>1. items' = items /\ viewer' = viewer  BY <1>1
  <2>2. ItemsFiled'  BY <2>1 DEF AddonInv, ItemsFiled
  <2>3. OpenedIsFiled'  BY <2>1 DEF AddonInv, OpenedIsFiled, Numbered, Addon!Listed, Addon!Ids
  <2>4. EpisodePlays'
    BY <2>1 DEF AddonInv, EpisodePlays, Addon!EpisodePlays, Addon!Listed, Addon!Ids
  <2> QED  BY <1>1, <2>2, <2>3, <2>4 DEF AddonInv
<1>2. CASE UNCHANGED Addon!vars  BY <1>1, <1>2 DEF Addon!vars, AddonInv, WalkedOK
<1>3. ASSUME NEW entry \in Library, Addon!Walk(entry)  PROVE AddonInv'
  <2>1. UNCHANGED <<items, viewer>>  BY <1>3 DEF Addon!Walk
  <2>2. WalkedOK'
    <3>1. CASE walked' = [walked EXCEPT !.now = {entry}, !.videos = 0]
      BY <3>1 DEF AddonInv, WalkedOK
    <3>2. CASE walked' = [walked EXCEPT !.done = @ \cup {entry}]
      BY <3>2 DEF AddonInv, WalkedOK
    <3> QED  BY <1>3, <3>1, <3>2 DEF Addon!Walk
  <2> QED  BY <1>1, <2>1, <2>2
<1>4. ASSUME NEW entry \in Library, Addon!EntryDone(entry)  PROVE AddonInv'
  BY <1>1, <1>4 DEF Addon!EntryDone, AddonInv, WalkedOK
<1>5. ASSUME NEW id \in Addon!Ids, Addon!Catalog(id)  PROVE AddonInv'
  BY <1>5 DEF Addon!Catalog, AddonInv, WalkedOK, ItemsFiled, OpenedIsFiled, EpisodePlays, Addon!EpisodePlays, Addon!Ids
<1>6. CASE Addon!Back
  BY <1>6 DEF Addon!Back, Addon!NoPlayer, AddonInv, WalkedOK, ItemsFiled, OpenedIsFiled, EpisodePlays, Addon!EpisodePlays
<1>7. ASSUME NEW torrent \in Addon!Torrents, Addon!EngineComesOrGoes(torrent)  PROVE AddonInv'
  BY <1>1, <1>7 DEF Addon!EngineComesOrGoes, AddonInv, WalkedOK
<1> QED  BY <1>2, <1>3, <1>4, <1>5, <1>6, <1>7, IndexKeeps, MetaKeeps, StreamKeeps DEF Addon!Next

-----------------------------------------------------------------------------
(* The requests side by side: a step of one leaves the others alone.        *)
LEMMA OneRequestMoves ==
  ASSUME [RequestsNext]_requestsVars
  PROVE  /\ [Next]_vars /\ [Tool!Next]_(Tool!vars)
         /\ [Store!Next]_(Store!vars) /\ [Route!Next]_(Route!vars)
         /\ [DiskReader!Next]_(DiskReader!vars) /\ [MemoryReader!Next]_(MemoryReader!vars)
         /\ [Addon!Next]_(Addon!vars)
<1>1. [Next]_vars /\ [Tool!Next]_(Tool!vars)
  BY DEF RequestsNext, requestsVars, SettingsNext, RouteNext, DiskReaderNext, MemoryReaderNext,
         PauseNext, ToolNext, AddonNext, EnginesNext, On, toolVars, Tool!vars
<1>2. [Store!Next]_(Store!vars) /\ [Route!Next]_(Route!vars)
  BY DEF RequestsNext, requestsVars, SettingsNext, RouteNext, DiskReaderNext, MemoryReaderNext,
         PauseNext, ToolNext, AddonNext, EnginesNext, On, settingsVars, Store!vars, routeVars, Route!vars
<1>3. [DiskReader!Next]_(DiskReader!vars)
  BY DEF RequestsNext, requestsVars, SettingsNext, RouteNext, DiskReaderNext, MemoryReaderNext,
         PauseNext, ToolNext, AddonNext, EnginesNext, On, diskReaderVars, DiskReader!vars
<1>4. [MemoryReader!Next]_(MemoryReader!vars)
  BY DEF RequestsNext, requestsVars, SettingsNext, RouteNext, DiskReaderNext, MemoryReaderNext,
         PauseNext, ToolNext, AddonNext, EnginesNext, On, memoryReaderVars, MemoryReader!vars,
         MemoryReader!reader
<1>5. [Addon!Next]_(Addon!vars)
  BY DEF RequestsNext, requestsVars, SettingsNext, RouteNext, DiskReaderNext, MemoryReaderNext,
         PauseNext, ToolNext, AddonNext, EnginesNext, On, addonVars, Addon!vars
<1> QED  BY <1>1, <1>2, <1>3, <1>4, <1>5

(* playback.rs, PauseSilenceTracker: a torrent is recorded as paused only    *)
(* after a whole quiet interval without peers or transfers.                  *)
THEOREM ConfirmedPauseIsSilent ==
  ASSUME PAUSE_QUIET_CONFIRMATION \in Nat, MaxPeers \in Nat, MaxBytes \in Nat
  PROVE  RequestsSpec => []ConfirmedIsSilent
<1>1. RequestsInit => PauseInv  BY InitPause DEF RequestsInit
<1>2. PauseInv /\ [RequestsNext]_requestsVars => PauseInv'  BY OneRequestMoves, PauseKeeps
<1>3. PauseInv => ConfirmedIsSilent  BY DEF PauseInv
<1> QED  BY <1>1, <1>2, <1>3, PTL DEF RequestsSpec

(* ytdlp.rs: whatever interrupts a download, the executable in its place is  *)
(* absent or complete.                                                       *)
THEOREM InstalledCopyIsWhole == RequestsSpec => []InstalledToolIsWhole
<1>1. RequestsInit => ToolInv  BY InitTool DEF RequestsInit
<1>2. ToolInv /\ [RequestsNext]_requestsVars => ToolInv'  BY OneRequestMoves, ToolKeeps
<1>3. ToolInv => InstalledToolIsWhole  BY DEF ToolInv, InstalledToolIsWhole
<1> QED  BY <1>1, <1>2, <1>3, PTL DEF RequestsSpec

(* state.rs: the settings handed to a write are the settings, unless a save  *)
(* that no request waits for met another one.                                *)
THEOREM StoreInvariant == RequestsSpec => []StoreInv
<1>1. RequestsInit => StoreInv  BY InitStore DEF RequestsInit
<1>2. StoreInv /\ [RequestsNext]_requestsVars => StoreInv'  BY OneRequestMoves, StoreKeeps
<1> QED  BY <1>1, <1>2, PTL DEF RequestsSpec

(* state.rs, system.rs: a restart with no write under way, none owed to a    *)
(* dropped request and none that met another brings back the settings that   *)
(* were in force, whatever updates came before.                              *)
THEOREM RestartsKeepSettings == RequestsSpec => RestartKeepsSettings
<1>1. StoreInv /\ [RequestsNext]_requestsVars =>
        [(Store!Restart /\ ~owed /\ ~raced /\ \A w \in Store!Writers : settingsWriter[w].pc = "none")
           => settings' = settings]_(Store!vars)
  BY DEF StoreInv, Latest, Writing, Store!Restart
<1> QED  BY <1>1, StoreInvariant, PTL DEF RequestsSpec, RestartKeepsSettings, Store!RestartKeepsSettings

(* routes/stream.rs: whatever a player asks for and however the connection   *)
(* ends, what it holds are the bytes of the file that it asked for, in their *)
(* places, and a body that ends is as long as its headers said.              *)
THEOREM DeliveriesAreAsAsked == RequestsSpec => []DeliveredAsAsked
<1>1. RequestsInit => RouteInv  BY InitRoute DEF RequestsInit
<1>2. RouteInv /\ [RequestsNext]_requestsVars => RouteInv'  BY OneRequestMoves, RouteKeeps
<1>3. RouteInv => DeliveredAsAsked  BY RouteDelivers DEF DeliveredAsAsked
<1> QED  BY <1>1, <1>2, <1>3, PTL DEF RequestsSpec

(* disk_stream.rs, stream.rs: a reader of either kind that waits has asked   *)
(* for the piece it waits for, a foreground reader with no delay and before  *)
(* every other, as long as the pieces of the cache can be counted by an i32. *)
THEOREM BlockedReadersAreServed ==
  ASSUME CacheIsCounted
  PROVE  RequestsSpec => []BlockedPieceIsWanted
<1>1. RequestsInit => DiskInv /\ MemoryInv  BY InitDisk, InitMemory DEF RequestsInit
<1>2. DiskInv /\ MemoryInv /\ [RequestsNext]_requestsVars => (DiskInv /\ MemoryInv)'
  BY OneRequestMoves, DiskKeeps, MemoryKeeps
<1>3. DiskInv => DiskReader!BlockedPieceIsWanted
  BY DEF DiskInv, PrioritizedIsWanted, DiskReader!BlockedPieceIsWanted, PiecesD
<1>4. MemoryInv => MemoryReader!UrgentWhenBlocked
  BY DEF MemoryInv, UrgentIn, MemoryReader!UrgentWhenBlocked, PiecesM
<1>5. DiskInv /\ MemoryInv => BlockedPieceIsWanted  BY <1>3, <1>4 DEF BlockedPieceIsWanted
<1> QED  BY <1>1, <1>2, <1>5, PTL DEF RequestsSpec

(* stream.rs, priorities.rs: the window of a memory-backed reader holds no    *)
(* piece beyond the file, spans no more bytes than the cache (or one piece)  *)
(* can hold, whatever size the cache has, and asks for what is played sooner *)
(* no later and no less urgently than for what follows.                      *)
THEOREM MemoryWindowsArePlanned == RequestsSpec => []WindowIsPlanned(windowM)
<1>1. RequestsInit => PlanInv  BY InitPlan DEF RequestsInit
<1>2. PlanInv /\ [RequestsNext]_requestsVars => PlanInv'  BY OneRequestMoves, PlanKeeps
<1>3. PlanInv => WindowIsPlanned(windowM)  BY DEF PlanInv
<1> QED  BY <1>1, <1>2, <1>3, PTL DEF RequestsSpec

(* local_addon/mod.rs, handle_meta and handle_stream: an episode that the    *)
(* meta of a local series lists has a stream whenever it is asked for, and   *)
(* the file has that episode, whatever the walk has indexed in between.      *)
THEOREM ListedEpisodesPlay == RequestsSpec => []EpisodePlays
<1>1. RequestsInit => AddonInv  BY InitAddon DEF RequestsInit
<1>2. AddonInv /\ [RequestsNext]_requestsVars => AddonInv'  BY OneRequestMoves, AddonKeeps
<1>3. AddonInv => EpisodePlays  BY DEF AddonInv
<1> QED  BY <1>1, <1>2, <1>3, PTL DEF RequestsSpec
=============================================================================
