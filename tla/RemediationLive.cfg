SPECIFICATION FairSpec
CONSTANTS
    web = web
    Target = {web}
    Deployments = {web}
    Finding = {f1}
    TargetOf <- MCTargetOf
    Uid = {u1}
    NoUid = NoUid
    Image = {good, bad}
    NoImage = NoImage
    Wide = Wide
    Foreign = Foreign
    Refused = {bad}
    NoKey = NoKey
    MaxRev = 3
    MaxVer = 3
    MaxFaults = 1
PROPERTIES
    PhaseOnlyForward
    ProposalDecided
    RemediationIsAtomic
