SPECIFICATION FairSpec
CONSTANTS
    Period = 1
    MaxLate = 1
    StateTimeout = 1
    CommandTimeout = 1
    RampTime = 1
    ExecLag = 1
    RejectRivals = FALSE
    Reports = {"safe"}
    Watched = {"stateStale"}
PROPERTIES
    UnusableLowStateCancels
