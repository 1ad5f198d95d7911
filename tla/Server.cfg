CONSTANTS
    ConnId = {1, 2}
    Observer = {server}
    ServerObserver = server
    Message = {}
    Capacity = 5
    NumWorkers = 2
    MaxReloads = 1
    AcceptorCloseMayThrow = TRUE
    CheckedIterators = FALSE
SPECIFICATION FairSpec
INVARIANTS
    TypeOK
    OpenIsTracked
    ClosedIsErased
    NeverDestroyedOpen
    DrainReachesEveryone
    ReturnIsClean
PROPERTIES
    DrainTerminates
    ImplementsLifecycle
    ClosedIsDestroyed
