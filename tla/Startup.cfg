CONSTANTS
    Key = {"", "server", "num_workers", "port", "tls_port"}
    WorkerBits = 2
    PortBits = 3
    Path <- Paths
    NodeId = {1, 2, 3}
    NoNode = NoNode
    Expired = Expired
    Document <- Documents
    Garbled = Garbled
    Missing = Missing
    TheWatch = TheWatch
    Subscriber = {s1}
    MaxChanges = 3
    MaxReloads = 2
SPECIFICATION FairSpec
INVARIANTS
    TypeOK
    DigFindsThePath
    EveryLiveNodeIsCached
    StaleOnlyIfPinned
PROPERTIES
    SubscriberCatchesUp
