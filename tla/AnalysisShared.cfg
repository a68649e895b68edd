SPECIFICATION FairSpec
CONSTANTS
    a = a
    b = b
    K8sGPT = {a, b}
    BackOff = {a, b}
    MaxRetries <- MCMaxRetries
    Message = {e, f}
    None = None
    MaxEdits = 2
    MaxFaults = 2
INVARIANT TypeOK
PROPERTIES
    OffWhenExceeded
    StatusSettles
