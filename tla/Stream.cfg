SPECIFICATION StreamFairSpec
CONSTANTS
    Clients = {c1}
    Writers = {w1, w2}
    QueueSize = 2
    DropOld = TRUE
    MaxChanges = 3
    MaxFrames = 1
    MaxFaults = 2
INVARIANTS
    SettledIsCurrent
PROPERTIES
    Converges
CHECK_DEADLOCK FALSE
