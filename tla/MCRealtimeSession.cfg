\* Two projectors, two check-progress rows and an upload whose events expire at
\* different times, two connections, pages of one event, a queue of one message.
SPECIFICATION Spec
CONSTANTS
    p1 = p1
    p2 = p2
    Projectors = {p1, p2}
    None = None
    SessionExpiry = 3
    TokenTTL = 2
    BatchSize = 1
    MaxRows = 2
    MaxUploads = 1
    MaxTime = 2
    PageSize = 1
    QueueDepth = 1
    UnackedLimit = 1
    MaxConnections = 2
    MaxCommands = 1
SYMMETRY MCSymmetry
CHECK_DEADLOCK FALSE
INVARIANTS
    
    PublishedOnce
    NoSilentGap
PROPERTY ImplementsFollow
