SPECIFICATION Spec
CONSTANTS
    Period = 1
    MaxLate = 2
    StateTimeout = 1
    CommandTimeout = 1
    RampTime = 2
    ExecLag = 1
    RejectRivals = TRUE
    Reports = {"safe", "unsafe"}
    Watched = {"stateStale", "commandStale", "rival", "unsafe"}
INVARIANTS
    TypeOK
    RunningNeedsRequest
    NoPositionAfterDisable
    FrameMatchesPhase
    WatchdogReaction
PROPERTIES
    RampTakesItsTime
    PositionFrameBound
    ImplementsContract
