SPECIFICATION Spec
CONSTANTS
    armed = armed
    safe = safe
    probe = probe
    Launches = {safe}
    WithArm = {}
    CheckOnly = {}
    JointNames <- TwoJoints
    Policies <- DocPolicies
    Tries = 1
    Waits = TRUE
INVARIANTS
    PassedIsCompatible
