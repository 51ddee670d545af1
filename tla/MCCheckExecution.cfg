\* One check, up to three semantic attempts, windows one tick long.
SPECIFICATION Spec
CONSTANTS
    w1 = w1
    w2 = w2
    s1 = s1
    None = None
    Workers = {w1, w2}
    Services = {s1}
    Results <- MCResults
    RunnerKind = "provider"
    MinRetryAfter = 1
    MaxRetryAfter = 2
    MaxSemantic = 3
    MaxDuration = 1
    ExpiresAt = 4
    MaxInstant = 2
    MaxSaves = 4
SYMMETRY Symmetry
INVARIANTS
    AttemptsAreChain
    RunningIsDriven
    ResultsAreAccounted
    ProgressIsComplete
PROPERTY ImplementsChecks
CHECK_DEADLOCK FALSE
