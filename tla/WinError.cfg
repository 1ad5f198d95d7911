CONSTANTS
    WatchId = {1, 2}
    DirId = {1, 2}
    MaxChanges = 1
    MaxFailures = 1
SPECIFICATION Spec
INVARIANTS
    DrainingIsAwaited
CHECK_DEADLOCK FALSE
