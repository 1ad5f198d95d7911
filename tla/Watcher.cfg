CONSTANTS
    WatchId = {w1}
    kBatch = 2
    MaxChanges = 3
    MaxUpsets = 1
SPECIFICATION FairSpec
INVARIANTS
    TypeOK
    StaleOnlyIfUntold
    NoCallbackWithoutChange
PROPERTIES
    ImplementsFileWatch
    ChangeIsReported
    UnwatchTakesEffect
    DestructorReturns
CHECK_DEADLOCK FALSE
