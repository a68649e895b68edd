SPECIFICATION FairSpec
CONSTANTS
    K8sGPT = {a, b}
    Version = {"v1"}
    SecretData = {s}
    DynamicRBAC = TRUE
    None = None
    Events = {"delete"}
    MaxEdits = 3
    MaxFaults = 0
PROPERTY SharedRestored
CHECK_DEADLOCK FALSE
