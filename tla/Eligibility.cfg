SPECIFICATION FairSpec
CONSTANTS
    pod = pod
    rs = rs
    web = web
    otherPod = otherPod
    otherRs = otherRs
    twin = twin
    p = p
    q = q
    Object <- MCObject
    Gvk <- MCGvk
    Namespace <- MCNamespace
    Name <- MCName
    Finding = {p, q}
    About <- MCAbout
    Legacy = {q}
    Resources <- MCResources
    VersionLike = {"vx"}
    Owners <- MCOwners
    None = None
    MaxDepth = 3
    MaxEvents = 1
INVARIANTS
    TypeOK
    ResolvesNearest
PROPERTIES
    MutationForSubject
    CalculationEnds
    EventuallyProposed
CHECK_DEADLOCK FALSE
