---------------------------- MODULE SingleFlight ----------------------------
(***************************************************************************)
(* The caches of an engine for what is expensive to learn about a file     *)
(* (enginefs/src/engine.rs): get_probe_result and, on libtorrent,          *)
(* get_opensub_hash.  Concurrent callers share one computation through a   *)
(* OnceCell in a map of computations in flight.  One file and one of the    *)
(* two caches are modelled; the cell that a caller inserts is named after  *)
(* that caller.                                                            *)
(***************************************************************************)
CONSTANTS Callers,
          NoCell     \* no computation in flight

VARIABLES
    cache,     \* probe_cache or opensub_hash_cache has the file
    inflight,  \* the cell in probe_inflight or opensub_hash_inflight
    value,     \* of each cell
    caller     \* where each caller is, and the cell it cloned

vars == <<cache, inflight, value, caller>>

Cells  == Callers \cup {NoCell}
Values == {"empty", "running", "ready", "partial", "error"}
PCs    == {"idle", "looked", "waiting", "running", "told", "removed", "done", "failed", "dropped"}

TypeOK ==
    /\ cache \in BOOLEAN
    /\ inflight \in Cells
    /\ value \in [Callers -> Values]
    /\ caller \in [Callers -> [pc : PCs, cell : Cells]]

Init ==
    /\ cache = FALSE
    /\ inflight = NoCell
    /\ value = [c \in Callers |-> "empty"]
    /\ caller = [c \in Callers |-> [pc |-> "idle", cell |-> NoCell]]

At(c, pc) == caller[c].pc = pc
Goto(c, pc) == caller' = [caller EXCEPT ![c].pc = pc]
Leave(c, pc) == caller' = [caller EXCEPT ![c] = [pc |-> pc, cell |-> NoCell]]
Cell(c) == caller[c].cell

-----------------------------------------------------------------------------
CacheHit(c) ==
    /\ At(c, "idle") /\ cache
    /\ Goto(c, "done")
    /\ UNCHANGED <<cache, inflight, value>>

CacheMiss(c) ==
    /\ At(c, "idle") /\ ~cache
    /\ Goto(c, "looked")
    /\ UNCHANGED <<cache, inflight, value>>

(* entry().or_insert_with().clone(), after the cache was unlocked.          *)
Join(c) ==
    /\ At(c, "looked")
    /\ inflight' = IF inflight = NoCell THEN c ELSE inflight
    /\ caller' = [caller EXCEPT ![c] = [pc |-> "waiting", cell |-> inflight']]
    /\ UNCHANGED <<cache, value>>

(* get_or_init: one caller initialises the cell, the others wait for it; if *)
(* that caller is dropped another one takes over.                           *)
StartRun(c) ==
    /\ At(c, "waiting") /\ value[Cell(c)] = "empty"
    /\ value' = [value EXCEPT ![Cell(c)] = "running"]
    /\ Goto(c, "running")
    /\ UNCHANGED <<cache, inflight>>

(* ffmpeg's attempts, or the hash of head and tail, end or fail; only a     *)
(* probe can be "partial".                                                  *)
RunEnds(c) ==
    /\ At(c, "running")
    /\ \E v \in {"ready", "partial", "error"} : value' = [value EXCEPT ![Cell(c)] = v]
    /\ Goto(c, "told")
    /\ UNCHANGED <<cache, inflight>>

ValueTold(c) ==
    /\ At(c, "waiting") /\ value[Cell(c)] \in {"ready", "partial", "error"}
    /\ Goto(c, "told")
    /\ UNCHANGED <<cache, inflight, value>>

\* Fault: whoever is told clears the entry, whichever cell is in it.
OwnEntryUnchecked(c) == TRUE

OwnEntry(c) == inflight = Cell(c)

(* The entry is removed unless a later computation has replaced it.         *)
RemoveEntry(c) ==
    /\ At(c, "told")
    /\ inflight' = IF OwnEntry(c) THEN NoCell ELSE inflight
    /\ IF value[Cell(c)] = "error" THEN Leave(c, "failed") ELSE Goto(c, "removed")
    /\ UNCHANGED <<cache, value>>

(* Only a result that HLS can use is cached.                                *)
StoreResult(c) ==
    /\ At(c, "removed")
    /\ cache' = (cache \/ value[Cell(c)] = "ready")
    /\ Leave(c, "done")
    /\ UNCHANGED <<inflight, value>>

\* Fault: a dropped initialiser leaves the cell locked.
AfterDropLocked(c) == value

AfterDrop(c) == IF At(c, "running") THEN [value EXCEPT ![Cell(c)] = "empty"] ELSE value

(* The request's future is dropped at any await; its entry stays.           *)
DropCaller(c) ==
    /\ caller[c].pc \in {"looked", "waiting", "running", "told", "removed"}
    /\ value' = AfterDrop(c)
    /\ Leave(c, "dropped")
    /\ UNCHANGED <<cache, inflight>>

(* A later request, once nobody uses the cell of the one before.            *)
AskAgain(c) ==
    /\ caller[c].pc \in {"done", "failed", "dropped"}
    /\ inflight # c /\ \A d \in Callers : Cell(d) # c
    /\ Goto(c, "idle")
    /\ value' = [value EXCEPT ![c] = "empty"]
    /\ UNCHANGED <<cache, inflight>>

CallerStep(c) == \/ CacheHit(c) \/ CacheMiss(c) \/ Join(c) \/ StartRun(c) \/ RunEnds(c)
                 \/ ValueTold(c) \/ RemoveEntry(c) \/ StoreResult(c)

Next ==
    \E c \in Callers :
        \/ CacheHit(c) \/ CacheMiss(c) \/ Join(c) \/ StartRun(c) \/ RunEnds(c)
        \/ ValueTold(c) \/ RemoveEntry(c) \/ StoreResult(c) \/ DropCaller(c)
        \/ AskAgain(c)

(* Tasks are polled, ffmpeg and the reads of a hash end, and the semaphore  *)
(* of a OnceCell serves its waiters in order.                               *)
Fairness == \A c \in Callers : /\ WF_vars(CallerStep(c))
                               /\ SF_vars(StartRun(c) \/ ValueTold(c))

Spec == Init /\ [][Next]_vars /\ Fairness

-----------------------------------------------------------------------------
(* At most one probe of a file runs at a time, although an entry is removed *)
(* by callers that learn of its end late, when another may be in its place  *)
(* (Arc::ptr_eq in get_probe_result).                                       *)
OneProbeAtATime == \A c, d \in Callers : At(c, "running") /\ At(d, "running") => c = d

(* Every caller that is not dropped is answered, even if the caller that    *)
(* was probing for it is (OnceCell::get_or_init).                           *)
CallersAnswered ==
    \A c \in Callers : []<>(caller[c].pc \notin {"waiting", "running", "told", "removed"})
=============================================================================
