SPECIFICATION Spec
CONSTANTS
    Kind = {"Pod", "Deployment", "CronJob", "ConfigMap"}
    Image = {"v1", "v2"}
    MaxChangedPaths = 0
    MaxEdits = 2
    MaxHeight = 9
INVARIANT DiffIsExact
PROPERTIES
    OneValueReplaced
    PatchMakesProposal
    SelectionAccepted
    SelectionHonoured
CHECK_DEADLOCK FALSE
