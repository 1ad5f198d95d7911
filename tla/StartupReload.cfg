CONSTANTS
    Key = {"", "server", "num_workers", "port", "tls_port"}
    WorkerBits = 2
    PortBits = 3
    Path <- Paths
    NodeId = {1, 2}
    NoNode = NoNode
    Expired = Expired
    Document <- Documents
    Garbled = Garbled
    Missing = Missing
    TheWatch = TheWatch
    Subscriber = {}
    MaxChanges = 2
    MaxReloads = 1
SPECIFICATION FairSpec
PROPERTIES
    SettingsFollowReload
