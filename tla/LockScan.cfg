SPECIFICATION Spec
CONSTANTS
    Movers = {relock, request}
    Centers = {c1, c2}
    MaxWidth = 2
    LockWidth = 1
    MaxStages = 1
    FramesWanted = 2
    None = None
    Mixed = Mixed
INVARIANTS
    
    JudgesFreshTraces
    
PROPERTIES
    MovesAdvance
CHECK_DEADLOCK FALSE
SYMMETRY Symmetry
