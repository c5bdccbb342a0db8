CONSTANTS
    MB = 1
    I32 = 512
    Requests = {r1, r2}
    Players = {q1}
    Actors = {a1, a2}
    Files = {f1}
    Names = {tt1}
    Nothing = Nothing
    PAUSE_QUIET_CONFIRMATION = 2
    PAUSE_CONFIRM_TIMEOUT = 4
    MaxPeers = 1
    MaxBytes = 2
    MaxRequests = 3
    MaxUpdates = 2
    MaxSize = 3
    FreeSpace = {0, 600}
    FirstD = 1
    LastD = 3
    LengthD = 8
    TailD = {3}
    FirstM = 1
    LastM = 2
    LengthM = 128
    CacheM = 600
    Rates = {0}
    Peers = {8}
    Library <- SmallLibrary
SPECIFICATION RequestsSpec
CHECK_DEADLOCK FALSE
INVARIANTS DeliveredAsAsked BlockedPieceIsWanted ConfirmedIsSilent InstalledToolIsWhole EpisodePlays
PROPERTIES RestartKeepsSettings InactiveEngineLeaves
