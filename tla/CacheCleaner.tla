---------------------------- MODULE CacheCleaner ----------------------------
(***************************************************************************)
(* The cache cleaner (server/src/cache_cleaner.rs): a task that waits for  *)
(* a poll of once an hour or for a minute of quiet after file system       *)
(* events, then walks the download directories, deletes what is older than *)
(* thirty days, and evicts the oldest files until the rest fits the limit. *)
(* Files of active torrents are protected.                                 *)
(*                                                                         *)
(* Files are numbered by their modification times; the directories of the  *)
(* two engines are walked one after the other and taken as one.            *)
(***************************************************************************)
EXTENDS Naturals, FiniteSets, FiniteSetsExt

CONSTANTS NFiles,      \* files that may lie in the download directories
          MaxSize,     \* of a file, in units
          MaxLimit,    \* cache_size; 0 is no limit
          MaxQueued    \* events the watcher's channel holds

Files == 1..NFiles

VARIABLES
    size,      \* of each file
    aged,      \* files 1..aged are older than thirty days
    owned,     \* files of the one torrent that comes and goes
    active,    \* that torrent has an engine
    disk,      \* files in the download directories
    fresh,     \* bound: files that can still be written, each once
    events,    \* notifications in the channel
    timer,     \* the debounce timer is set
    cleaner,   \* clean_cache: what its locals hold
    dirty      \* history: something was written since the last pass began

vars == <<size, aged, owned, active, disk, fresh, events, timer, cleaner, dirty>>
world == <<size, aged, owned>>

CleanerType ==
    [pc        : {"waiting", "scanning", "evicting"},
     limit     : 0..MaxLimit,
     protected : SUBSET Files,
     todo      : SUBSET Files,       \* entries the walk has still to give
     total     : 0..NFiles * MaxSize,
     list      : SUBSET Files,       \* candidates for eviction
     stuck     : SUBSET Files]       \* history: could not be deleted

TypeOK ==
    /\ size \in [Files -> 1..MaxSize]
    /\ aged \in 0..NFiles
    /\ owned \in SUBSET Files
    /\ active \in BOOLEAN
    /\ disk \in SUBSET Files
    /\ fresh \in SUBSET Files
    /\ events \in 0..MaxQueued
    /\ timer \in BOOLEAN
    /\ cleaner \in CleanerType
    /\ dirty \in BOOLEAN

Waiting == [pc |-> "waiting", limit |-> 0, protected |-> {}, todo |-> {}, total |-> 0,
            list |-> {}, stuck |-> {}]

Init ==
    /\ size \in [Files -> 1..MaxSize]
    /\ aged \in 0..NFiles
    /\ owned \in SUBSET Files
    /\ active \in BOOLEAN
    /\ disk \in {Files, Files \ owned}
    /\ fresh = Files \ disk
    /\ events = 0
    /\ timer = FALSE
    /\ cleaner = Waiting
    /\ dirty = FALSE

Bytes(S) == FoldSet(LAMBDA f, n : size[f] + n, 0, S)

-----------------------------------------------------------------------------
(* The watcher's callback blocks while the channel is full.                 *)
Notified == events' = IF events < MaxQueued THEN events + 1 ELSE events

TorrentWrites ==
    /\ active
    /\ \E f \in owned \cap fresh :
          /\ disk' = disk \cup {f}
          /\ fresh' = fresh \ {f}
          /\ cleaner.pc = "scanning" => \E seen \in BOOLEAN :
                cleaner' = [cleaner EXCEPT !.todo = IF seen THEN @ \cup {f} ELSE @]
          /\ cleaner.pc # "scanning" => UNCHANGED cleaner
    /\ Notified
    /\ dirty' = TRUE
    /\ UNCHANGED <<world, active, timer>>

TorrentAdded ==
    /\ ~active
    /\ active' = TRUE
    /\ UNCHANGED <<world, fresh, disk, events, timer, cleaner, dirty>>

(* Its files stay on the disk.                                              *)
TorrentRemoved ==
    /\ active
    /\ active' = FALSE
    /\ UNCHANGED <<world, fresh, disk, events, timer, cleaner, dirty>>

-----------------------------------------------------------------------------
(* The select! of the task: one of its three branches, while no pass runs.  *)
EventReceived ==
    /\ cleaner.pc = "waiting" /\ events > 0
    /\ events' = events - 1
    /\ timer' = TRUE
    /\ UNCHANGED <<world, fresh, active, disk, cleaner, dirty>>

(* clean_cache reads the limit, then the files of the active engines.       *)
Begin ==
    /\ \E limit \in 0..MaxLimit :
          cleaner' = [Waiting EXCEPT !.pc = "scanning", !.limit = limit, !.todo = disk,
                                     !.protected = IF active THEN owned ELSE {}]
    /\ dirty' = FALSE
    /\ UNCHANGED <<world, fresh, active, disk>>

PollTick ==
    /\ cleaner.pc = "waiting"
    /\ Begin
    /\ UNCHANGED <<events, timer>>

(* The timer is set to infinity when the pass is over; nothing reads it     *)
(* before.                                                                  *)
DebounceReset == timer' = FALSE /\ UNCHANGED events

DebounceFires ==
    /\ cleaner.pc = "waiting" /\ timer
    /\ Begin
    /\ DebounceReset

-----------------------------------------------------------------------------
Deleted(f) ==
    /\ disk' = disk \ {f}
    /\ Notified

Spared == UNCHANGED <<disk, events>>

Walked(f) == [cleaner EXCEPT !.todo = @ \ {f}]

InUse(f) == f \in cleaner.protected

(* One entry of the walk.  A protected file counts and stays; an old one is *)
(* deleted, and counts if it cannot be; the others are listed.              *)
WalkInUse(f) ==
    /\ InUse(f)
    /\ cleaner' = [Walked(f) EXCEPT !.total = @ + size[f]]
    /\ Spared

WalkAged(f) ==
    /\ ~InUse(f) /\ f <= aged
    /\ \/ cleaner' = Walked(f) /\ Deleted(f)
       \/ cleaner' = [Walked(f) EXCEPT !.total = @ + size[f], !.stuck = @ \cup {f}] /\ Spared

WalkListed(f) ==
    /\ ~InUse(f) /\ f > aged
    /\ cleaner' = [Walked(f) EXCEPT !.total = @ + size[f], !.list = @ \cup {f}]
    /\ Spared

Walk ==
    /\ cleaner.pc = "scanning"
    /\ \E f \in cleaner.todo : WalkInUse(f) \/ WalkAged(f) \/ WalkListed(f)
    /\ UNCHANGED <<world, fresh, active, timer, dirty>>

WalkEnds ==
    /\ cleaner.pc = "scanning" /\ cleaner.todo = {}
    /\ cleaner' = [cleaner EXCEPT !.pc = "evicting"]
    /\ UNCHANGED <<world, fresh, active, disk, events, timer, dirty>>

\* Fault: one file more than needed is kept.
FitsNearly == cleaner.total <= cleaner.limit + 1

Fits == cleaner.total <= cleaner.limit

(* The oldest candidate; one larger than the whole limit is passed over.    *)
Evict ==
    /\ cleaner.pc = "evicting" /\ cleaner.limit > 0 /\ ~Fits /\ cleaner.list # {}
    /\ LET f == Min(cleaner.list)
           next == [cleaner EXCEPT !.list = @ \ {f}]
       IN \/ /\ size[f] > cleaner.limit
             /\ cleaner' = next /\ Spared
          \/ /\ size[f] <= cleaner.limit
             /\ cleaner' = [next EXCEPT !.total = @ - size[f]] /\ Deleted(f)
          \/ /\ size[f] <= cleaner.limit
             /\ cleaner' = [next EXCEPT !.stuck = @ \cup {f}] /\ Spared
    /\ UNCHANGED <<world, fresh, active, timer, dirty>>

\* Fault: what came during a pass is dropped when it is over.
PassEndsDrained ==
    /\ cleaner.pc = "evicting" /\ (cleaner.limit = 0 \/ Fits \/ cleaner.list = {})
    /\ cleaner' = Waiting /\ events' = 0
    /\ UNCHANGED <<world, fresh, active, disk, timer, dirty>>

PassEnds ==
    /\ cleaner.pc = "evicting" /\ (cleaner.limit = 0 \/ Fits \/ cleaner.list = {})
    /\ cleaner' = Waiting
    /\ UNCHANGED <<world, fresh, active, disk, events, timer, dirty>>

Next ==
    \/ TorrentWrites \/ TorrentAdded \/ TorrentRemoved
    \/ EventReceived \/ PollTick \/ DebounceFires
    \/ Walk \/ WalkEnds \/ Evict \/ PassEnds

(* The task is scheduled and the debounce fires once the events cease; the  *)
(* hourly poll is not relied on.                                            *)
Fairness ==
    /\ WF_vars(EventReceived) /\ WF_vars(DebounceFires)
    /\ WF_vars(Walk \/ WalkEnds \/ Evict \/ PassEnds)

Spec == Init /\ [][Next]_vars /\ Fairness

-----------------------------------------------------------------------------
(* After a pass, if nothing was written during it, the files fit the limit, *)
(* unless what is left is protected, could not be deleted or is larger than *)
(* the limit ("cache soft limit exceeded by single retained file").         *)
PassFitsLimit ==
    [][(PassEnds /\ cleaner.limit > 0 /\ ~dirty) =>
          \/ Bytes(disk) <= cleaner.limit
          \/ \A f \in disk : \/ f \in cleaner.protected \cup cleaner.stuck
                             \/ size[f] > cleaner.limit]_vars

(* Whatever is written is followed by a pass that sees it, the events alone *)
(* being enough: none is lost when it comes during a pass.                  *)
ChangesCleaned == []<>~dirty
=============================================================================
