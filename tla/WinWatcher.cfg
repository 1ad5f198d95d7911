CONSTANTS
    WatchId = {1, 2}
    DirId = {1, 2}
    MaxChanges = 1
    MaxFailures = 1
SPECIFICATION FairSpec
INVARIANTS
    TypeOK
    BufferOutlivesRead
PROPERTIES
    ImplementsFileWatch
    ChangeIsReported
    UnwatchTakesEffect
    DestructorReturns
CHECK_DEADLOCK FALSE
