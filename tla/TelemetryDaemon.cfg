SPECIFICATION FairSpec
CONSTANTS
    Slots = {d0, d1}
    Strict = TRUE
    Clients = {c1, c2}
    MaxRequest = 4
    MaxResponse = 5
    Prefix = 2
    OtherKeys = 1
    MaxText = 1
    MinDelta = 2
    MaxWindow = 2
    MaxJump = 1
    MaxChanges = 1
    None = None
INVARIANTS
    OnlyThePsXadc
PROPERTIES
    EveryClientIsServed
    CpuFollowsLoad
CHECK_DEADLOCK FALSE
