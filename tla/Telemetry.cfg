SPECIFICATION TelemetryFairSpec
CONSTANTS
    Operators = {o1}
    Reads = {r1}
    LossPolls = 2
    ProbeAttempts = 2
    MaxActions = 2
    MaxBoardChanges = 1
    Deletions = TRUE
    Poll = Poll
    Nil = Nil
INVARIANTS
    LossIsReported
PROPERTIES
    OperatorsWin
    ShowsTheBoard
CHECK_DEADLOCK FALSE
