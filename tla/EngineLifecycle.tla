---------------------------- MODULE EngineLifecycle ----------------------------
(***************************************************************************)
(* The registry of engines and the shared playback lifecycle               *)
(* (enginefs/src/lib.rs) of one torrent, with the request path that drives *)
(* it (server/src/routes/stream.rs): requests that look an engine up or    *)
(* add it, count themselves, may be dropped by their client at an await,   *)
(* and end in a task of their own; HLS leases; the selection of one file   *)
(* of a multi-file torrent; delayed cleanups; and the sweeper that expires *)
(* leases and removes inactive engines.                                    *)
(*                                                                         *)
(* One step is what a task does under one lock, or up to its next await.   *)
(* Every map of the source is restricted to the torrent; the other         *)
(* torrents show only in active_file, which is one for all.  native is     *)
(* what handle.manages_playback_lifecycle() answers: TRUE for libtorrent.  *)
(* The idle pause is left out: the handle it would call does nothing for   *)
(* librqbit, and libtorrent's pauses are PlaybackCoordinator's.            *)
(***************************************************************************)
EXTENDS Naturals, Sequences, FiniteSets

CONSTANTS
    Actors,         \* HTTP requests, each made at most once
    Files,          \* files of the torrent
    Operations,     \* the kinds of request made, of the five below
    Natives,        \* the answers manages_playback_lifecycle may give
    MaxEngines      \* bound: engines created, and additions to the session

ASSUME LifecycleAssumption ==
    /\ Operations \subseteq {"stream", "hls", "refresh", "poll", "end"}
    /\ Natives \subseteq BOOLEAN
    /\ MaxEngines \in Nat
    /\ IsFiniteSet(Actors)

VARIABLES
    native,         \* handle.manages_playback_lifecycle()
    registry,       \* engines[info_hash]: the number of an engine, 0 for none
    session,        \* the addition of the torrent the session holds, 0 for none
    added,          \* additions so far
    engines,        \* every engine created: its torrent, active_streams, age
    streams,        \* active_streams[info_hash]
    fileStreams,    \* active_file_streams
    lease,          \* active_playback_leases
    activeFile,     \* active_file
    selection,      \* active_multifile_files[info_hash]
    generation,     \* priority_generation
    actor,          \* the requests
    cleanups,       \* tasks of schedule_file_cleanup_after that sleep or run
    sweep           \* the sweeper task

vars == <<native, registry, session, added, engines, streams, fileStreams,
          lease, activeFile, selection, generation, actor, cleanups, sweep>>
backend == <<session, added>>
playback == <<lease, activeFile, selection, generation>>
counters == <<streams, fileStreams>>

NoFile == "none"
NoSelection == [file |-> NoFile, generation |-> 0]

Count == 0..Cardinality(Actors)
Ids == 0..MaxEngines
Engine == [torrent : Ids, readers : Count, aged : BOOLEAN]
Selection == [file : Files, generation : Nat] \cup {NoSelection}

(* The awaits of a request, in order; "reading" is a response body that is *)
(* being sent, "ending" the task its StreamLifecycleGuard spawns.          *)
Pcs == {"new", "adding", "resolving", "count", "countFile", "lease", "reselect",
        "generation", "insert", "retain", "open", "reading",
        "ending", "endFile", "endTouch", "dropped", "done"}
Actor == [pc : Pcs, next : Pcs, op : Operations, file : Files, torrent : Ids,
          engine : Ids, generation : Nat, counted : 0..2, last : BOOLEAN]
Cleanup == [file : Files, generation : Nat, checked : BOOLEAN]

TypeOK ==
    /\ native \in BOOLEAN
    /\ registry \in Ids /\ registry <= Len(engines)
    /\ session \in Ids /\ added \in Ids /\ session <= added
    /\ engines \in Seq(Engine) /\ Len(engines) <= MaxEngines
    /\ streams \in Count
    /\ fileStreams \in [Files -> Count]
    /\ lease \in [Files -> {"none", "live", "expired"}]
    /\ activeFile \in Files \cup {NoFile, "other"}
    /\ selection \in Selection
    /\ generation \in Nat
    /\ actor \in [Actors -> Actor]
    /\ cleanups \subseteq Cleanup
    /\ sweep \in [pc : {"sleeping", "leases", "scan", "unregister", "backend"},
                  expired : SUBSET Files]

Init ==
    /\ native \in Natives
    /\ registry = 0 /\ session = 0 /\ added = 0
    /\ engines = <<>>
    /\ streams = 0
    /\ fileStreams = [f \in Files |-> 0]
    /\ lease = [f \in Files |-> "none"]
    /\ activeFile = NoFile
    /\ selection = NoSelection
    /\ generation = 0
    /\ actor \in [Actors -> [pc : {"new"}, next : {"done"}, op : Operations,
                             file : Files, torrent : {0}, engine : {0},
                             generation : {0}, counted : {0}, last : {FALSE}]]
    /\ cleanups = {}
    /\ sweep = [pc |-> "sleeping", expired |-> {}]

----------------------------------------------------------------------------
(* Helpers. *)

Managed == registry # 0 /\ native
MultiFile == Cardinality(Files) > 1

At(a, pc) == actor[a].pc = pc
Goto(a, pc) == actor' = [actor EXCEPT ![a].pc = pc]
Streaming(a) == actor[a].op \in {"stream", "hls"}

(* get_engine: an engine that is found is touched. *)
Touched == IF registry = 0 THEN engines
                           ELSE [engines EXCEPT ![registry].aged = FALSE]

Decremented(n) == IF n = 0 THEN 0 ELSE n - 1

(* activate_file: in native mode, and without an engine, only active_file  *)
(* is written; a file of a multi-file torrent is then selected, in the     *)
(* steps generation, insert and retain, before the request goes on.        *)
ActivateThen(a, next, newEngines) ==
    /\ activeFile' = actor[a].file
    /\ engines' = newEngines
    /\ actor' = [actor EXCEPT
          ![a].pc = IF registry # 0 /\ ~native /\ MultiFile THEN "generation" ELSE next,
          ![a].next = next]

----------------------------------------------------------------------------
(* A request finds the engine, or adds the torrent and registers one.      *)

(* The engine e answers a: a stream counts itself as its reader while it   *)
(* resolves the file (MetadataResolutionGuard::acquire).                   *)
Answered(a, e, es) ==
    /\ engines' = [es EXCEPT ![e].aged = FALSE,
                             ![e].readers = IF Streaming(a) THEN @ + 1 ELSE @]
    /\ actor' = [actor EXCEPT ![a].engine = e,
          ![a].pc = IF Streaming(a) THEN "resolving" ELSE "lease"]

LookupFound(a) ==
    /\ At(a, "new") /\ registry # 0
    /\ actor[a].op \in {"stream", "hls", "refresh"}
    /\ Answered(a, registry, engines)
    /\ UNCHANGED <<native, registry, backend, counters, playback, cleanups, sweep>>

LookupMissing(a) ==
    /\ At(a, "new") /\ registry = 0
    /\ actor[a].op \in {"stream", "hls", "refresh"}
    /\ session = 0 => added < MaxEngines
    /\ added' = IF session = 0 THEN added + 1 ELSE added
    /\ session' = IF session = 0 THEN added' ELSE session
    /\ actor' = [actor EXCEPT ![a].pc = "adding", ![a].torrent = session']
    /\ UNCHANGED <<native, registry, engines, counters, playback, cleanups, sweep>>

AddFails(a) ==
    /\ At(a, "new") /\ registry = 0
    /\ Goto(a, "done")
    /\ UNCHANGED <<native, registry, backend, engines, counters, playback, cleanups, sweep>>

(* A second adder finds the first one's engine. *)
RegisterFound(a) ==
    /\ At(a, "adding") /\ registry # 0
    /\ Answered(a, registry, engines)
    /\ UNCHANGED <<native, registry, backend, counters, playback, cleanups, sweep>>

Register(a) ==
    /\ At(a, "adding") /\ registry = 0
    /\ Len(engines) < MaxEngines
    /\ registry' = Len(engines) + 1
    /\ Answered(a, registry',
                Append(engines, [torrent |-> actor[a].torrent, readers |-> 0, aged |-> FALSE]))
    /\ UNCHANGED <<native, backend, counters, playback, cleanups, sweep>>

(* The file is not found, or the range cannot be served. *)
Refused(a) ==
    /\ At(a, "resolving")
    /\ engines' = [engines EXCEPT ![actor[a].engine].readers = @ - 1]
    /\ Goto(a, "done")
    /\ UNCHANGED <<native, registry, backend, counters, playback, cleanups, sweep>>

----------------------------------------------------------------------------
(* on_stream_start, the HLS lease, and the guard that will count it out.   *)

StreamStarts(a) ==
    /\ At(a, "resolving")
    /\ ActivateThen(a, "count", Touched)
    /\ UNCHANGED <<native, registry, backend, counters, lease, selection, generation,
                   cleanups, sweep>>

CountStream(a) ==
    /\ At(a, "count")
    /\ streams' = streams + 1
    /\ actor' = [actor EXCEPT ![a].pc = "countFile", ![a].counted = 1]
    /\ UNCHANGED <<native, registry, backend, engines, fileStreams, playback, cleanups, sweep>>

AfterCount(a) == IF actor[a].op = "hls" THEN "lease"
                 ELSE IF native THEN "open" ELSE "reselect"

CountFile(a) ==
    /\ At(a, "countFile")
    /\ fileStreams' = [fileStreams EXCEPT ![actor[a].file] = @ + 1]
    /\ actor' = [actor EXCEPT ![a].pc = AfterCount(a), ![a].counted = 2]
    /\ UNCHANGED <<native, registry, backend, engines, streams, playback, cleanups, sweep>>

AfterLease(a) == IF actor[a].op = "refresh" THEN "done"
                 ELSE IF native THEN "open" ELSE "reselect"

(* refresh_hls_playback *)
RefreshLease(a) ==
    /\ At(a, "lease")
    /\ lease' = [lease EXCEPT ![actor[a].file] = "live"]
    /\ \/ /\ registry # 0
          /\ ActivateThen(a, AfterLease(a), Touched)
       \/ /\ registry = 0
          /\ Goto(a, AfterLease(a))
          /\ UNCHANGED <<engines, activeFile>>
    /\ UNCHANGED <<native, registry, backend, counters, selection, generation, cleanups, sweep>>

(* activate_multifile_file_for_playback *)
Reselect(a) ==
    /\ At(a, "reselect")
    /\ engines' = Touched
    /\ actor' = [actor EXCEPT
          ![a].pc = IF registry # 0 /\ ~Managed /\ MultiFile THEN "generation" ELSE "open",
          ![a].next = "open"]
    /\ UNCHANGED <<native, registry, backend, counters, playback, cleanups, sweep>>

(* activate_multifile_file: its generation, its selection, and the end of  *)
(* the leases and counters of the other files.                             *)
TakeGeneration(a) ==
    /\ At(a, "generation")
    /\ engines' = Touched
    /\ IF registry = 0
       THEN Goto(a, actor[a].next) /\ UNCHANGED generation
       ELSE /\ generation' = generation + 1
            /\ actor' = [actor EXCEPT ![a].pc = "insert", ![a].generation = generation']
    /\ UNCHANGED <<native, registry, backend, counters, lease, activeFile, selection,
                   cleanups, sweep>>

InsertSelection(a) ==
    /\ At(a, "insert")
    /\ selection' = [file |-> actor[a].file, generation |-> actor[a].generation]
    /\ Goto(a, "retain")
    /\ UNCHANGED <<native, registry, backend, engines, counters, lease, activeFile,
                   generation, cleanups, sweep>>

RetainFile(a) ==
    /\ At(a, "retain")
    /\ lease' = [f \in Files |-> IF f = actor[a].file THEN lease[f] ELSE "none"]
    /\ fileStreams' = [f \in Files |-> IF f = actor[a].file THEN fileStreams[f] ELSE 0]
    /\ activeFile' = actor[a].file
    /\ Goto(a, actor[a].next)
    /\ UNCHANGED <<native, registry, backend, engines, streams, selection, generation,
                   cleanups, sweep>>

\* Fault: the guard exists before the request counted itself.
RequestDroppedGuarded(a) ==
    /\ actor[a].pc \in {"resolving", "count", "countFile", "lease", "reselect",
                        "generation", "insert", "retain"}
    /\ engines' = IF Streaming(a)
                  THEN [engines EXCEPT ![actor[a].engine].readers = @ - 1] ELSE engines
    /\ Goto(a, IF Streaming(a) THEN "ending" ELSE "dropped")
    /\ UNCHANGED <<native, registry, backend, counters, playback, cleanups, sweep>>

(* The client goes away while the handler waits: nothing counts it out     *)
(* before the guard exists.                                                *)
RequestDropped(a) ==
    /\ actor[a].pc \in {"resolving", "count", "countFile", "lease", "reselect",
                        "generation", "insert", "retain"}
    /\ engines' = IF Streaming(a)
                  THEN [engines EXCEPT ![actor[a].engine].readers = @ - 1] ELSE engines
    /\ Goto(a, "dropped")
    /\ UNCHANGED <<native, registry, backend, counters, playback, cleanups, sweep>>

(* get_file_with_intent: the reader takes over from the resolution guard. *)
OpenReader(a) ==
    /\ At(a, "open")
    /\ engines' = [engines EXCEPT ![actor[a].engine].aged = FALSE]
    /\ Goto(a, "reading")
    /\ UNCHANGED <<native, registry, backend, counters, playback, cleanups, sweep>>

\* Fault: the reader is taken from the engine registered now.
StreamEndsElsewhere(a) ==
    /\ actor[a].pc \in {"open", "reading"} /\ registry # 0
    /\ engines' = [engines EXCEPT ![registry].readers = Decremented(@)]
    /\ Goto(a, "ending")
    /\ UNCHANGED <<native, registry, backend, counters, playback, cleanups, sweep>>

(* The body ends, its client goes away, or no reader could be opened. *)
StreamEnds(a) ==
    /\ actor[a].pc \in {"open", "reading"}
    /\ engines' = [engines EXCEPT ![actor[a].engine].readers = @ - 1]
    /\ Goto(a, "ending")
    /\ UNCHANGED <<native, registry, backend, counters, playback, cleanups, sweep>>

----------------------------------------------------------------------------
(* on_stream_end, in a task of its own. *)

\* Fault: the last stream stays in the map.
UncountAllButLast(a) ==
    /\ At(a, "ending")
    /\ streams' = IF streams = 1 THEN 1 ELSE Decremented(streams)
    /\ actor' = [actor EXCEPT ![a].pc = "endFile", ![a].counted = 1]
    /\ UNCHANGED <<native, registry, backend, engines, fileStreams, playback, cleanups, sweep>>

UncountStream(a) ==
    /\ At(a, "ending")
    /\ streams' = Decremented(streams)
    /\ actor' = [actor EXCEPT ![a].pc = "endFile", ![a].counted = 1]
    /\ UNCHANGED <<native, registry, backend, engines, fileStreams, playback, cleanups, sweep>>

UncountFile(a) ==
    LET left == Decremented(fileStreams[actor[a].file])
    IN  /\ At(a, "endFile")
        /\ fileStreams' = [fileStreams EXCEPT ![actor[a].file] = left]
        /\ actor' = [actor EXCEPT ![a].pc = "endTouch", ![a].counted = 0,
                                  ![a].last = (left = 0)]
        /\ UNCHANGED <<native, registry, backend, engines, streams, playback, cleanups, sweep>>

(* schedule_file_cleanup_after: the generation selected now, if the        *)
(* selection is of this file.                                              *)
NewCleanup(f) ==
    IF Managed THEN {}
    ELSE {[file |-> f, checked |-> FALSE,
           generation |-> IF selection.file = f THEN selection.generation ELSE 0]}

EndTouch(a) ==
    /\ At(a, "endTouch")
    /\ engines' = Touched
    /\ cleanups' = IF actor[a].last
                   THEN cleanups \cup NewCleanup(actor[a].file) ELSE cleanups
    /\ Goto(a, "done")
    /\ UNCHANGED <<native, registry, backend, counters, playback, sweep>>

----------------------------------------------------------------------------
(* A statistics poll and the explicit end of an HLS session. *)

(* refresh_existing_hls_playback *)
Poll(a) ==
    /\ At(a, "new") /\ actor[a].op = "poll"
    /\ \/ /\ lease[actor[a].file] = "live"
          /\ IF Managed \/ registry = 0
             THEN Goto(a, "done") /\ engines' = Touched /\ UNCHANGED activeFile
             ELSE ActivateThen(a, "done", Touched)
          /\ UNCHANGED lease
       \/ /\ lease[actor[a].file] # "live"
          /\ lease' = [lease EXCEPT ![actor[a].file] = "none"]
          /\ engines' = Touched
          /\ Goto(a, "done")
          /\ UNCHANGED activeFile
    /\ UNCHANGED <<native, registry, backend, counters, selection, generation, cleanups, sweep>>

(* end_hls_playback *)
EndHls(a) ==
    /\ At(a, "new") /\ actor[a].op = "end"
    /\ lease' = [lease EXCEPT ![actor[a].file] = "none"]
    /\ engines' = Touched
    /\ cleanups' = IF lease[actor[a].file] # "none"
                   THEN cleanups \cup NewCleanup(actor[a].file) ELSE cleanups
    /\ Goto(a, "done")
    /\ UNCHANGED <<native, registry, backend, counters, activeFile, selection, generation, sweep>>

----------------------------------------------------------------------------
(* A delayed cleanup looks at the counters, then at the selection. *)

CheckCleanup(c) ==
    /\ c \in cleanups /\ ~c.checked
    /\ cleanups' = IF fileStreams[c.file] > 0 \/ lease[c.file] = "live"
                   THEN cleanups \ {c}
                   ELSE (cleanups \ {c}) \cup {[c EXCEPT !.checked = TRUE]}
    /\ UNCHANGED <<native, registry, backend, engines, counters, playback, actor, sweep>>

(* The file of activeFile gives way to the file still selected. *)
GiveWay(f, s) == IF activeFile = f THEN s.file ELSE activeFile

ClearSelection(c) ==
    /\ c \in cleanups /\ c.checked
    /\ cleanups' = cleanups \ {c}
    /\ IF selection.file = c.file /\ selection.generation # c.generation
       THEN UNCHANGED <<selection, activeFile>>
       ELSE /\ selection' = IF selection.file = c.file THEN NoSelection ELSE selection
            /\ activeFile' = GiveWay(c.file, selection')
    /\ UNCHANGED <<native, registry, backend, engines, counters, lease, generation, actor, sweep>>

----------------------------------------------------------------------------
(* The sweeper. *)

SweepWakes ==
    /\ sweep.pc = "sleeping"
    /\ sweep' = [pc |-> "leases", expired |-> {f \in Files : lease[f] = "expired"}]
    /\ lease' = [f \in Files |-> IF lease[f] = "expired" THEN "none" ELSE lease[f]]
    /\ UNCHANGED <<native, registry, backend, engines, counters, activeFile, selection,
                   generation, actor, cleanups>>

SweepLease(f) ==
    /\ sweep.pc = "leases" /\ f \in sweep.expired
    /\ sweep' = [sweep EXCEPT !.expired = @ \ {f}]
    /\ IF fileStreams[f] > 0
       THEN UNCHANGED <<selection, activeFile>>
       ELSE /\ selection' = IF selection.file = f THEN NoSelection ELSE selection
            /\ activeFile' = GiveWay(f, selection')
    /\ UNCHANGED <<native, registry, backend, engines, counters, lease, generation,
                   actor, cleanups>>

SweepLeasesDone ==
    /\ sweep.pc = "leases" /\ sweep.expired = {}
    /\ sweep' = [sweep EXCEPT !.pc = "scan"]
    /\ UNCHANGED <<native, registry, backend, engines, counters, playback, actor, cleanups>>

\* Fault: a player that reads from its buffer is not seen.
InactiveIgnoresLeases ==
    /\ registry # 0
    /\ engines[registry].aged
    /\ engines[registry].readers = 0
    /\ streams = 0
    /\ \A f \in Files : fileStreams[f] = 0
    /\ activeFile \notin Files
    /\ selection = NoSelection

Inactive ==
    /\ registry # 0
    /\ engines[registry].aged
    /\ engines[registry].readers = 0
    /\ streams = 0
    /\ \A f \in Files : fileStreams[f] = 0
    /\ \A f \in Files : lease[f] # "live"
    /\ activeFile \notin Files
    /\ selection = NoSelection

SweepScan ==
    /\ sweep.pc = "scan"
    /\ sweep' = [sweep EXCEPT !.pc = IF Inactive THEN "unregister" ELSE "sleeping"]
    /\ UNCHANGED <<native, registry, backend, engines, counters, playback, actor, cleanups>>

SweepUnregister ==
    /\ sweep.pc = "unregister"
    /\ registry' = 0
    /\ sweep' = [sweep EXCEPT !.pc = "backend"]
    /\ UNCHANGED <<native, backend, engines, counters, playback, actor, cleanups>>

(* backend.remove_torrent(info_hash) *)
SweepRemovesTorrent ==
    /\ sweep.pc = "backend"
    /\ session' = 0
    /\ sweep' = [sweep EXCEPT !.pc = "sleeping"]
    /\ UNCHANGED <<native, registry, added, engines, counters, playback, actor, cleanups>>

----------------------------------------------------------------------------
(* Time, the other torrents, and a client that removes the engine. *)

(* No request touched the engine for INACTIVE_TORRENT_REMOVE_TIMEOUT; the  *)
(* age of an engine that left the registry is not read any more.           *)
Ages ==
    /\ registry # 0 /\ ~engines[registry].aged
    /\ engines' = [engines EXCEPT ![registry].aged = TRUE]
    /\ UNCHANGED <<native, registry, backend, counters, playback, actor, cleanups, sweep>>

(* A lease outlives the handler that made it. *)
LeaseExpires(f) ==
    /\ lease[f] = "live"
    /\ \A a \in Actors : actor[a].file = f =>
          actor[a].pc \notin {"generation", "insert", "retain", "reselect"}
    /\ lease' = [lease EXCEPT ![f] = "expired"]
    /\ UNCHANGED <<native, registry, backend, engines, counters, activeFile, selection,
                   generation, actor, cleanups, sweep>>

OtherTorrentStreams ==
    /\ activeFile # "other"
    /\ activeFile' = "other"
    /\ UNCHANGED <<native, registry, backend, engines, counters, lease, selection,
                   generation, actor, cleanups, sweep>>

(* remove_engine *)
EngineRemoved ==
    /\ registry # 0
    /\ registry' = 0
    /\ UNCHANGED <<native, backend, engines, counters, playback, actor, cleanups, sweep>>

----------------------------------------------------------------------------
FindEngine(a) == LookupFound(a) \/ LookupMissing(a) \/ AddFails(a)
Handle(a) == \/ RegisterFound(a) \/ Register(a) \/ Refused(a) \/ StreamStarts(a)
             \/ CountStream(a) \/ CountFile(a) \/ RefreshLease(a) \/ Reselect(a)
             \/ TakeGeneration(a) \/ InsertSelection(a) \/ RetainFile(a)
StreamEndTask(a) == UncountStream(a) \/ UncountFile(a) \/ EndTouch(a)
CleanupTask(c) == CheckCleanup(c) \/ ClearSelection(c)
Sweep == \/ SweepWakes \/ (\E f \in Files : SweepLease(f)) \/ SweepLeasesDone
         \/ SweepScan \/ SweepUnregister \/ SweepRemovesTorrent

Next ==
    \/ \E a \in Actors : \/ FindEngine(a) \/ Handle(a) \/ RequestDropped(a)
                         \/ OpenReader(a) \/ StreamEnds(a) \/ StreamEndTask(a)
                         \/ Poll(a) \/ EndHls(a)
    \/ \E c \in cleanups : CleanupTask(c)
    \/ Sweep
    \/ Ages
    \/ \E f \in Files : LeaseExpires(f)
    \/ OtherTorrentStreams
    \/ EngineRemoved

Spec == Init /\ [][Next]_vars

----------------------------------------------------------------------------
(* Properties. *)

Counted(n, f) == {a \in Actors : actor[a].counted >= n /\ actor[a].file = f}
Reading(a) == actor[a].pc \in {"open", "reading"}

(* active_streams counts exactly the requests that counted themselves and  *)
(* did not end, those dropped in between included, and active_file_streams *)
(* never more than those of its file; in native mode exactly those.        *)
CountsBalance ==
    /\ streams = Cardinality({a \in Actors : actor[a].counted >= 1
                                             /\ ~At(a, "endFile")})
    /\ \A f \in Files :
          LET n == Cardinality({a \in Counted(1, f) : actor[a].counted = 2 \/ At(a, "endFile")})
          IN  fileStreams[f] <= n /\ (native => fileStreams[f] = n)

(* An engine's own active_streams counts the requests that resolve or read *)
(* a file of that engine, also when another engine took its place.         *)
ReadersBalance ==
    \A e \in DOMAIN engines :
        engines[e].readers =
            Cardinality({a \in Actors : /\ actor[a].engine = e /\ Streaming(a)
                                        /\ actor[a].pc \notin {"ending", "endFile", "endTouch",
                                                               "dropped", "done"}})

(* The sweeper never chooses an engine while a response body is open or a  *)
(* lease is live, whatever counters were dropped, saturated or leaked.     *)
SweepSparesPlayback ==
    [][(sweep.pc = "scan" /\ sweep'.pc = "unregister")
       => /\ \A a \in Actors : ~Reading(a)
          /\ \A f \in Files : lease[f] # "live"]_vars

(* No request is on its way, and none was dropped halfway. *)
Quiet == \A a \in Actors : actor[a].pc \in {"new", "done"}

(* Once every request has ended, none of them dropped halfway, and another *)
(* torrent is the active one, the engine leaves the registry.              *)
InactiveEngineLeaves ==
    (<>[](Quiet /\ activeFile \notin Files)) => <>[](registry = 0)
================================================================================
