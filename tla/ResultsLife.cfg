SPECIFICATION FairSpec
CONSTANTS
    K8sGPT = {a, b}
    Name = {n}
    Content = {c, d}
    None = None
    Endpoint = "url"
    SinkAtFirst = {a}
    MaxChanges = 3
    Removable = {a}
    MaxFaults = 1
INVARIANTS
    TypeOK
    HashOfSpec
    WebhookWasUsed
PROPERTIES
    EventuallyExact
    FindingReported
    EventuallyQuiet
    FirstReport
CHECK_DEADLOCK FALSE
