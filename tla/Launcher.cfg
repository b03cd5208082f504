SPECIFICATION FairSpec
CONSTANTS
    armed = armed
    safe = safe
    Launches = {armed, safe}
    WithArm = {armed}
    CheckOnly = {}
    JointNames <- TwoJoints
    Policies <- FewPolicies
    Tries = 2
    Waits = TRUE
INVARIANTS
    TypeOK
    OnlyUndiscoveredRivals
    EnabledForAReason
    GainsWereChecked
    RefusalExplained
PROPERTIES
    ArmResolves
    RivalsPart
