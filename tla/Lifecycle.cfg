CONSTANTS
    Actors = {a1, a2}
    Files = {f1, f2}
    Operations = {"stream", "hls", "refresh", "poll", "end"}
    Natives = {TRUE, FALSE}
    MaxEngines = 2
SPECIFICATION Spec
SYMMETRY Symmetry
CONSTRAINT Reduced
CHECK_DEADLOCK FALSE
INVARIANTS CountsBalance ReadersBalance
PROPERTIES SweepSparesPlayback
