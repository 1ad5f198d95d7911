CONSTANTS
    WatchId = {w1}
    kBatch = 3
    MaxChanges = 3
    MaxUpsets = 0
SPECIFICATION Spec
INVARIANTS
    LiveFdIsCurrent
CHECK_DEADLOCK FALSE
