CONSTANTS
    CharIsSigned = TRUE
    BufferSize = 3
    Outgoing <- MCOutgoing
    MaxMessages = 2
    Fragment <- MCFragment
    MaxFragments = 6
    MaxUnread = 0
SPECIFICATION Spec
INVARIANTS
    RoundTrip
    NotifiedIsWellFormed
    NotifiedCanBeRelayed
CHECK_DEADLOCK FALSE
