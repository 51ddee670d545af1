CONSTANTS
    a1 = a1
    a2 = a2
    w1 = w1
    w2 = w2
    None = None
    Attempts = {a1, a2}
    Reconcilers = {w1, w2}
    Lease = 2
    Backoff = 1
    MaxTries = 8
    MaxFaults = 2
    Quiet = 2
    MaxTime = 8
SPECIFICATION FairReconcile
INVARIANT TaskEndsResolved
PROPERTY ReconciliationEnds
CHECK_DEADLOCK FALSE
