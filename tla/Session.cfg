SPECIFICATION FairSpec
CONSTANTS
    MaxConns = 1
    MaxOps = 1
    MaxBoots = 2
    MaxSpawned = 1
    Readable = {1, 2}
    History = FALSE
INVARIANTS
    RebootingBoardHasNoClient
    ActiveHasWorker
    LivePoller
    WantedIsScheduled
    KnownBootIsSaved
PROPERTIES
    RecoveryEnds
CHECK_DEADLOCK FALSE
CONSTRAINT OneOrTheOther
