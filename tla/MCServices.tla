------------------------------ MODULE MCServices ------------------------------
(* The services that share no state with each other, each a module of its     *)
(* own, checked side by side with the usenet sessions: a behaviour follows    *)
(* one of them, and the others stay where they start.                         *)
EXTENDS UsenetSession

CONSTANTS
    Callers, Torrents, Tracks, Nothing, SegmentLength, MaxDuration,
    CacheFiles, MaxFileSize, MaxCacheSize, MaxEvents,  \* of the cache cleaner
    EntrySize                                          \* of the archives

ASSUME ServicesAssumption == /\ Nothing \notin Callers
                             /\ SegmentLength \in Nat \ {0} /\ MaxDuration \in Nat
                             /\ EntrySize \in Nat
ASSUME CleanerAssumption == CacheFiles \in Nat /\ MaxFileSize \in Nat /\ MaxCacheSize \in Nat

VARIABLES service,
    archive, archiveCache, extraction, archiveReader,
    probeCache, inflight, value, caller,
    size, aged, owned, active, disk, fresh, events, timer, cleaner, dirty,
    session, storages, verified, alerts, moka, writer, file, clearing, reader, losses,
    duration, hardware, probe, player, encode

Archive == INSTANCE ArchiveStream WITH
    Size <- EntrySize, session <- archive, cache <- archiveCache, task <- extraction,
    reader <- archiveReader
Flight  == INSTANCE SingleFlight WITH cache <- probeCache, NoCell <- Nothing
Cleaner == INSTANCE CacheCleaner WITH
    NFiles <- CacheFiles, MaxSize <- MaxFileSize, MaxLimit <- MaxCacheSize, MaxQueued <- MaxEvents
Memory  == INSTANCE MemoryTorrents WITH DiskCache <- TRUE, MaxLosses <- 2
Hls     == INSTANCE HlsSession

Services == {"archive", "usenet", "flight", "cleaner", "memory", "hls"}

archiveVars  == <<archive, archiveCache, extraction, archiveReader>>
flightVars   == <<probeCache, inflight, value, caller>>
cleanerVars  == <<size, aged, owned, active, disk, fresh, events, timer, cleaner, dirty>>
memoryVars   == <<session, storages, verified, alerts, moka, writer, file, clearing, reader, losses>>
hlsVars      == <<duration, hardware, probe, player, encode>>
servicesVars ==
    <<service, archiveVars, vars, flightVars, cleanerVars, memoryVars, hlsVars>>

(* A service that does not run starts in one of its initial states.           *)
ServicesInit ==
    /\ service \in Services
    /\ Archive!Init /\ Init /\ Memory!Init /\ Flight!Init
    /\ Hls!Init /\ (service # "hls" => duration = 1 /\ ~hardware)
    /\ Cleaner!Init
    /\ (service # "cleaner" => aged = 0 /\ owned = {} /\ active /\ \A f \in Cleaner!Files : size[f] = 1)

On(s) ==
    /\ service = s /\ UNCHANGED service
    /\ IF s = "archive"  THEN TRUE ELSE UNCHANGED archiveVars
    /\ IF s = "usenet"   THEN TRUE ELSE UNCHANGED vars
    /\ IF s = "flight"   THEN TRUE ELSE UNCHANGED flightVars
    /\ IF s = "cleaner"  THEN TRUE ELSE UNCHANGED cleanerVars
    /\ IF s = "memory"   THEN TRUE ELSE UNCHANGED memoryVars
    /\ IF s = "hls"      THEN TRUE ELSE UNCHANGED hlsVars

ArchiveNext  == On("archive") /\ Archive!Next
UsenetNext   == On("usenet") /\ Next
FlightNext   == On("flight") /\ Flight!Next
CleanerNext  == On("cleaner") /\ Cleaner!Next
MemoryNext   == On("memory") /\ Memory!Next
HlsNext      == On("hls") /\ Hls!Next

ServicesNext == ArchiveNext \/ UsenetNext \/ FlightNext \/ CleanerNext \/ MemoryNext \/ HlsNext

(* The fairness of each module, for the service that runs.                    *)
ServicesFairness ==
    /\ WF_servicesVars(On("archive") /\ Archive!Extracts)
    /\ WF_servicesVars(On("archive") /\ Archive!Disk)
    /\ WF_servicesVars(On("archive") /\ Archive!Reads)
    /\ \A c \in Clients : WF_servicesVars(On("usenet") /\ (ConnectClient(c) \/ ClientRefused(c)))
    /\ \A s \in Streams : /\ WF_servicesVars(On("usenet") /\ StreamStep(s))
                          /\ WF_servicesVars(On("usenet") /\ FetchEnds(s))
                          /\ WF_servicesVars(On("usenet") /\ \E c \in Clients : TakeClient(s, c))
    /\ \A c \in Callers : /\ WF_servicesVars(On("flight") /\ Flight!CallerStep(c))
                          /\ SF_servicesVars(On("flight") /\ (Flight!StartRun(c) \/ Flight!ValueTold(c)))
    /\ WF_servicesVars(On("cleaner") /\ Cleaner!EventReceived)
    /\ WF_servicesVars(On("cleaner") /\ Cleaner!DebounceFires)
    /\ WF_servicesVars(On("cleaner") /\ (\/ Cleaner!Walk \/ Cleaner!WalkEnds
                                 \/ Cleaner!Evict \/ Cleaner!PassEnds))
    /\ \A t \in Torrents : /\ WF_servicesVars(On("memory") /\ Memory!Poll(t))
                           /\ WF_servicesVars(On("memory") /\ Memory!Superseded(t))
                           /\ WF_servicesVars(On("memory") /\ Memory!LookupEnds(t))
                           /\ WF_servicesVars(On("memory") /\ Memory!AlertServed(t))

ServicesSpec == ServicesInit /\ [][ServicesNext]_servicesVars /\ ServicesFairness

-----------------------------------------------------------------------------
(* cache.rs, archives: whoever waits for a file that is being extracted is    *)
(* answered, with the bytes or an error.                                      *)
ExtractionSettles == Archive!ExtractionSettles

(* engine.rs: a probe never runs twice at the same time.                      *)
OneProbeAtATime == Flight!OneProbeAtATime

(* engine.rs: a caller of a probe that stays is answered.                     *)
CallersAnswered == Flight!CallersAnswered

(* cache_cleaner.rs: a pass leaves the cache within its limit, but for what   *)
(* it may not delete.                                                         *)
PassFitsLimit == Cleaner!PassFitsLimit

(* cache_cleaner.rs: a change of the cache is followed by a pass.             *)
ChangesCleaned == Cleaner!ChangesCleaned

(* stream.rs, memory_storage.cpp: a memory-backed reader of a verified piece  *)
(* does not wait for ever, whatever evictions and lost copies come between.   *)
MemoryReaderServed == Memory!MemoryReaderServed

(* hls.rs: a player told that the list has ended has been given the last      *)
(* segment of every track.                                                    *)
EndedMeansPlayed == Hls!EndedMeansPlayed

(* hls.rs: no encoder runs that no body owns.                                 *)
EncoderIsOwned == Hls!EncoderIsOwned
==============================================================================
