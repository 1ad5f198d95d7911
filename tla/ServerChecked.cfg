CONSTANTS
    ConnId = {1, 2}
    Observer = {server}
    ServerObserver = server
    Message = {}
    Capacity = 5
    NumWorkers = 2
    MaxReloads = 1
    AcceptorCloseMayThrow = FALSE
    CheckedIterators = TRUE
SPECIFICATION FairSpec
PROPERTIES
    DrainTerminates
