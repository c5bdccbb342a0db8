------------------------------ MODULE MCRequests ------------------------------
(* The requests of a player and of the settings window, the windows of the    *)
(* two readers, yt-dlp, the local add-on and the engines: modules that share  *)
(* no state, checked side by side with the wait for a pause.  A behaviour     *)
(* follows one of them, and the others stay where they start.                 *)
EXTENDS PriorityPolicy, PauseConfirmation, Sequences

CONSTANTS
    Requests, Players, Actors, Files, Names, Nothing,
    MaxRequests,   \* bound: calls of yt-dlp's resolve
    MaxUpdates,    \* bound: updates of the settings
    MaxSize,       \* of a file that is asked for
    FreeSpace,     \* of the cache's volume, as a check may find it
    FirstD, LastD, LengthD, TailD,   \* the disk reader's pieces, their bytes, the index
    FirstM, LastM, LengthM, CacheM,  \* the memory reader's, and its cache's bytes
    Rates, Peers,                    \* of its torrent
    Library                          \* what the walk of the local add-on finds

(* A request is named by itself, and not by the words for no request.         *)
ASSUME RequestsAssumption == /\ Nothing \notin Requests /\ "none" \notin Requests
                             /\ MaxUpdates \in Nat /\ MaxSize \in Nat
                             /\ FirstD \in Nat /\ LastD \in Nat /\ LengthD \in Nat \ {0}
                             /\ FirstM \in Nat /\ LastM \in Nat /\ LengthM \in Nat \ {0}
                             /\ CacheM \in Nat /\ Rates \subseteq Nat /\ Peers \subseteq Nat

(* parse_filename: a name tells at most one season, and any episodes.         *)
ASSUME LibraryAssumption ==
    \A entry \in Library :
        /\ Len(entry.videos) \in Nat /\ DOMAIN entry.videos = 1..Len(entry.videos)
        /\ \A i \in DOMAIN entry.videos :
              /\ entry.videos[i].season \in Seq(Nat) /\ Len(entry.videos[i].season) <= 1
              /\ entry.videos[i].episode \in Seq(Nat)

VARIABLES service,
    settings, settingsFile, update, manager, saving, settingsWriter, owed, raced,
    files, space, request, response, body, held,
    intent, subordinate, pos, have, sent, prioritized, due, window, waiting, pins,
    intentM, subordinateM, posM, haveM, cached, sentM, seek_type, last_priorities_piece,
    last_served_replan_piece, last_blocking_piece, dueM, waits, windowM, waitingM,
    managed, staging, cachedTool, lock, resolving, calls,
    items, walked, known, viewer,
    native, registry, session, added, engines, streams, fileStreams, lease, activeFile,
    selection, generation, actor, cleanups, sweep

Store   == INSTANCE SettingsStore WITH
    Trackers <- Nothing, memory <- settings, file <- settingsFile,
    request <- update, writer <- settingsWriter
Route   == INSTANCE StreamRequests WITH
    DiskEngine <- TRUE
DiskReader == INSTANCE DiskWindow WITH
    First <- FirstD, Last <- LastD, Length <- LengthD, Indexed <- TailD
MemoryReader == INSTANCE MemoryWindow WITH
    First <- FirstM, Last <- LastM, Length <- LengthM, Cache <- CacheM,
    intent <- intentM, subordinate <- subordinateM, pos <- posM, have <- haveM,
    sent <- sentM, due <- dueM, window <- windowM, waiting <- waitingM

Tool    == INSTANCE YtDlp WITH
    cached <- cachedTool, request <- resolving

Video(name, episode) ==
    [name |-> name, season |-> IF episode = <<>> THEN <<>> ELSE <<1>>, episode |-> episode,
     year |-> episode = <<>>, extension |-> name # "subtitles"]
SmallLibrary ==
    {[kind |-> "file", path |-> "one", videos |-> <<Video("first", <<1>>)>>],
     [kind |-> "file", path |-> "two", videos |-> <<Video("double", <<1, 2>>)>>],
     [kind |-> "archive", path |-> "zip", videos |-> <<Video("film", <<>>), Video("third", <<2, 3>>)>>],
     [kind |-> "torrent", path |-> "hash", videos |-> <<Video("first", <<1>>), Video("subtitles", <<1>>)>>]}
Addon   == INSTANCE LocalAddon WITH
    Entries <- Library, ImdbNames <- Names, Unresolved <- Nothing,
    engines <- known, player <- viewer
Engines == INSTANCE EngineLifecycle WITH
    Operations <- {"stream", "refresh"}, Natives <- {TRUE}, MaxEngines <- 1

Services == {"settings", "route", "disk reader", "memory reader", "pause", "tool", "add-on", "engines"}

settingsVars == <<settings, settingsFile, update, manager, saving, settingsWriter, owed, raced>>
routeVars    == <<files, space, request, response, body, held>>
diskReaderVars   == <<intent, subordinate, pos, have, sent, prioritized, due, window, waiting, pins>>
memoryReaderVars == <<intentM, subordinateM, posM, haveM, cached, sentM, seek_type,
                      last_priorities_piece, last_served_replan_piece, last_blocking_piece,
                      dueM, waits, windowM, waitingM>>
toolVars     == <<managed, staging, cachedTool, lock, resolving, calls>>
addonVars    == <<items, walked, known, viewer>>
engineVars   == <<native, registry, session, added, engines, streams, fileStreams, lease,
                  activeFile, selection, generation, actor, cleanups, sweep>>
requestsVars == <<service, settingsVars, routeVars, diskReaderVars, memoryReaderVars,
                  vars, toolVars, addonVars, engineVars>>

(* A service that does not run starts in one of its initial states.           *)
RequestsInit ==
    /\ service \in Services
    /\ Store!Init
    /\ Route!Init
    /\ (service # "route" => files[1].length = 0 /\ files[2].length = 1 /\ files[1].video /\ files[1].match)
    /\ DiskReader!Init
    /\ (service # "disk reader" => intent = "Background" /\ subordinate /\ pos = 1 /\ have = {})
    /\ MemoryReader!Init
    /\ (service # "memory reader" => intentM = "Background" /\ subordinateM /\ posM = 1 /\ haveM = {})
    /\ Init
    /\ (service # "pause" => status.is_paused /\ status.num_peers = 0)
    /\ Tool!Init
    /\ (service # "tool" => managed = "absent")
    /\ Addon!Init
    /\ Engines!Init
    /\ (service # "engines" =>
           \A a \in Actors : actor[a].op = "stream" /\ actor[a].file = CHOOSE f \in Files : TRUE)

On(s) ==
    /\ service = s /\ UNCHANGED service
    /\ IF s = "settings" THEN TRUE ELSE UNCHANGED settingsVars
    /\ IF s = "route"    THEN TRUE ELSE UNCHANGED routeVars
    /\ IF s = "disk reader"   THEN TRUE ELSE UNCHANGED diskReaderVars
    /\ IF s = "memory reader" THEN TRUE ELSE UNCHANGED memoryReaderVars
    /\ IF s = "pause"   THEN TRUE ELSE UNCHANGED vars
    /\ IF s = "tool"    THEN TRUE ELSE UNCHANGED toolVars
    /\ IF s = "add-on"  THEN TRUE ELSE UNCHANGED addonVars
    /\ IF s = "engines" THEN TRUE ELSE UNCHANGED engineVars

SettingsNext == On("settings") /\ Store!Next
RouteNext    == On("route") /\ Route!Next
DiskReaderNext   == On("disk reader") /\ DiskReader!Next
MemoryReaderNext == On("memory reader") /\ MemoryReader!Next

PauseNext    == On("pause") /\ Next
ToolNext     == On("tool") /\ Tool!Next
AddonNext    == On("add-on") /\ Addon!Next
EnginesNext  == On("engines") /\ Engines!Next

RequestsNext ==
    \/ SettingsNext \/ RouteNext \/ DiskReaderNext \/ MemoryReaderNext
    \/ PauseNext \/ ToolNext \/ AddonNext \/ EnginesNext

(* Tokio runs every task that can run, and time passes; no client is forced   *)
(* to make, drop or finish a request.                                         *)
RequestsFairness ==
    /\ WF_requestsVars(On("engines") /\ Engines!Sweep)
    /\ \A a \in Actors : /\ WF_requestsVars(On("engines") /\ Engines!Handle(a))
                         /\ WF_requestsVars(On("engines") /\ Engines!StreamEndTask(a))
    /\ WF_requestsVars(On("engines") /\ \E c \in cleanups : Engines!CleanupTask(c))
    /\ WF_requestsVars(On("engines") /\ Engines!Ages)
    /\ \A f \in Files : WF_requestsVars(On("engines") /\ Engines!LeaseExpires(f))

RequestsSpec == RequestsInit /\ [][RequestsNext]_requestsVars /\ RequestsFairness

-----------------------------------------------------------------------------
(* state.rs, system.rs: a restart brings back the settings that were saved.   *)
RestartKeepsSettings == Store!RestartKeepsSettings

(* routes/stream.rs: what a player assembles from any number of requests is   *)
(* the file, and a body that ends is as long as its headers said.             *)
DeliveredAsAsked == Route!DeliveredAsAsked

(* disk_stream.rs, stream.rs: a reader that waits has asked for the piece it  *)
(* waits for, before every other.                                             *)
BlockedPieceIsWanted == DiskReader!BlockedPieceIsWanted /\ MemoryReader!UrgentWhenBlocked

(* ytdlp.rs: no truncated executable is ever left in its place.               *)
InstalledToolIsWhole == Tool!InstalledToolIsWhole

(* local_addon/mod.rs: an episode that is listed can be played.               *)
EpisodePlays == Addon!EpisodePlays

(* lib.rs: an engine whose requests have ended leaves the registry, unless    *)
(* its own file is the last one played.                                       *)
InactiveEngineLeaves == Engines!InactiveEngineLeaves
=============================================================================
