SPECIFICATION FairSpec
CONSTANTS
    Databases = {d1, d2}
    Requests = {r1}
    MaxRows = 3
    QueueSize = 1
    MaxSaves = 1
PROPERTIES
    ColumnsExist
    ImplementsRowLog
    RowsHandled
CHECK_DEADLOCK FALSE
