SPECIFICATION TimedFairSpec
CONSTANTS
    Period = 1
    MaxLate = 2
    StateTimeout = 0
    CommandTimeout = 1
    RampTime = 1
    ExecLag = 1
    RejectRivals = TRUE
    Reports = {"safe"}
    Watched = {"stateStale"}
INVARIANTS
    EnableAnswered
    JoinReturns
PROPERTIES
    EnableResolves
    IdleDamps
    StopsOnShutdown
    ImplementsWatch
