SPECIFICATION Spec
CONSTANTS
    web = web
    Target = {web}
    Deployments = {web}
    Finding = {f1}
    TargetOf <- MCTargetOf
    Uid = {u1}
    NoUid = NoUid
    Image = {good, bad}
    NoImage = NoImage
    Wide = Wide
    Foreign = Foreign
    Refused = {}
    NoKey = NoKey
    MaxRev = 2
    MaxVer = 3
    MaxFaults = 0
PROPERTY PatchHasMutation
