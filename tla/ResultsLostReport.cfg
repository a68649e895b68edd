SPECIFICATION Spec
CONSTANTS
    K8sGPT = {a}
    Name = {n}
    Content = {c, d}
    None = None
    Endpoint = "url"
    SinkAtFirst = {a}
    MaxChanges = 2
    Removable = {}
    MaxFaults = 0
INVARIANT HistoricalWasSent
