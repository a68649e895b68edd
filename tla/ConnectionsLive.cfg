SPECIFICATION RunsOn
CONSTANTS
    Res = {a, b}
    Remediating = {a}
    NoRes = NoRes
    NoConn = NoConn
    ChanCap = 1
    MaxEdits = 3
    MaxFaults = 1
INVARIANTS
    TypeOK
    OpenIsCached
    NoUseAfterClose
    RemovedIsClosed
PROPERTY ReconcileEnds
