SPECIFICATION FairSpec
CONSTANTS
    Res = {a}
    Remediating = {a}
    NoRes = NoRes
    NoConn = NoConn
    ChanCap = 1
    MaxEdits = 2
    MaxFaults = 0
PROPERTY ClientRecovers
