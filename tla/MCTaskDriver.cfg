\* Safety of the driver: leases one tick long, retries without back-off up to
\* two attempts, two crashes.
SPECIFICATION FairSpec
CONSTANTS
    t1 = t1
    t2 = t2
    t3 = t3
    w1 = w1
    w2 = w2
    None = None
    Tasks = {t1, t2, t3}
    Workers = {w1, w2}
    Key <- MCKey
    ScheduledAt <- MCScheduledAt
    Deadline <- MCDeadline
    MaxAttempts = 2
    CrashLimit = 2
    Lease = 1
    Backoff = 1
    MaxBatch = 2
    MaxTime = 3
INVARIANTS
    ActiveIsExact
    OneHolder
    AttemptBudget
PROPERTIES
    OnlyHolderCompletes
    
