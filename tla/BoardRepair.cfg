SPECIFICATION RepairSpec
CONSTANTS
    Requests = {r1, r2}
    MaxRuns = 3
    MaxResets = 2
INVARIANTS
    OkMeansPersistent
    SlcrIsProtected
SYMMETRY Alike
PROPERTIES
    OnlyResetsStopJournald
CHECK_DEADLOCK FALSE
