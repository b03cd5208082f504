SPECIFICATION Spec
CONSTANTS
    armed = armed
    safe = safe
    probe = probe
    Launches = {armed, safe, probe}
    WithArm = {armed, probe}
    CheckOnly = {probe}
    JointNames <- TwoJoints
    Policies <- FewPolicies
    Tries = 2
    Waits = TRUE
PROPERTIES
    SafeStartStaysDisabled
