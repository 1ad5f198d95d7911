CONSTANTS
    ConnId = {c1}
    Observer = {adapter, watcher}
    SessionObserver = adapter
    Message = {1, 2, 3}
    Capacity = 1
    MaxPerRead = 2
    MaxReceived = 2
    MaxCalls = 2
SPECIFICATION FairSpec
PROPERTIES
    ClosedIsReported
CHECK_DEADLOCK FALSE
