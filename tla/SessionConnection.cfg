CONSTANTS
    ConnId = {c1}
    Observer = {adapter, watcher}
    SessionObserver = adapter
    Message = {1, 2, 3, 4}
    Capacity = 2
    MaxPerRead = 2
    MaxReceived = 2
    MaxCalls = 3
SPECIFICATION FairSpec
INVARIANTS
    TypeOK
    ResponsesConserved
    NoLostWakeup
    NothingAfterSessionClose
    ClosedIsDetached
    DisconnectedOnce
PROPERTIES
    ResponsesInOrder
    ClosedIsFreed
CHECK_DEADLOCK FALSE
