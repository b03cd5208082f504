SPECIFICATION Spec
CONSTANTS
    Period = 1
    MaxLate = 1
    StateTimeout = 1
    CommandTimeout = 1
    RampTime = 2
    ExecLag = 1
    RejectRivals = TRUE
    Reports = {"safe", "unsafe", "nanJoint"}
    Watched = {"stateStale"}
PROPERTIES
    RampEndsAtDefaultPose
