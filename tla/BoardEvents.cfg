SPECIFICATION Spec
CONSTANTS
    MaxPerDevice = 2
    MaxCalls = 3
    MaxBoots = 2
    MaxFaults = 1
    None = None
INVARIANTS
    RebootsNotOvercounted
    CleanMeansWritten
CHECK_DEADLOCK FALSE
