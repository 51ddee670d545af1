CONSTANTS
    r1 = r1
    r2 = r2
    c1 = c1
    None = None
    Requests = {r1, r2}
    Reconcilers = {c1}
    MaxAttempts = 2
    AttemptTimeout = 1
    Expires = 3
    ClaimTimeout = 1
    RetryDelay = 1
    OrphanAge = 2
    LateDeletes = {TRUE, FALSE}
    LongCommits = FALSE
    MaxVersion = 4
    MaxTime = 3
SPECIFICATION Spec
SYMMETRY MCSymmetry
INVARIANTS  DispositionIsTrue
CHECK_DEADLOCK FALSE
