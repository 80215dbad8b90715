SPECIFICATION Spec
CONSTANTS
    Workers = {w1, w2}
    Threshold = 2
    MaxTime = 2
    MaxBoots = 2
    MaxProbes = 2
    PromptDrop = TRUE
    None = None
INVARIANTS
    AbsenceProvesReboot
    SameIdMeansNoReboot
PROPERTIES
    VerdictsInOrder
CHECK_DEADLOCK FALSE
