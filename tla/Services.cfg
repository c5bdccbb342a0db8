CONSTANTS
    Clients = {c1, c2}
    Streams = {s1, s2}
    Segments = 2
    NoClient = NoClient
    Callers = {p1, p2, p3}
    Torrents = {t1}
    Tracks = {"video", "audio"}
    Nothing = Nothing
    SegmentLength = 2
    MaxDuration = 5
    CacheFiles = 2
    MaxFileSize = 2
    MaxCacheSize = 1
    MaxEvents = 1
    EntrySize = 2
SPECIFICATION ServicesSpec
CHECK_DEADLOCK FALSE
INVARIANTS OneProbeAtATime EndedMeansPlayed EncoderIsOwned
PROPERTIES ExtractionSettles IsConnectionPool StreamsSettle CallersAnswered PassFitsLimit
    ChangesCleaned MemoryReaderServed
