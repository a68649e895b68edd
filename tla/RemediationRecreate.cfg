SPECIFICATION Spec
CONSTANTS
    web = web
    Target = {web}
    Deployments = {web}
    Finding = {f1}
    TargetOf <- MCTargetOf
    Uid = {u1, u2}
    NoUid = NoUid
    Image = {good, bad}
    NoImage = NoImage
    Wide = Wide
    Foreign = Foreign
    Refused = {}
    NoKey = NoKey
    MaxRev = 3
    MaxVer = 2
    MaxFaults = 1
SYMMETRY Symmetry
INVARIANTS
    TypeOK
    NoStaleOverwrite
    OnePatchPerVersion
    CompletedWasApplied
    SuccessfulWasRolledOut
