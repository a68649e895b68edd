SPECIFICATION FairSpec
CONSTANTS
    K8sGPT = {a}
    Version = {"v1", "v2"}
    SecretData = {s, t}
    DynamicRBAC = FALSE
    None = None
    Events = {"edit", "no backOff", "delete", "secret", "object", "rollout"}
    MaxEdits = 4
    MaxFaults = 1
INVARIANTS
    TypeOK
    ServerIsHeld
PROPERTIES
    SpecReached
    DeletionEnds
CHECK_DEADLOCK FALSE
