\* Four calls through one worker, which may restart once and seed itself from
\* the snapshot it left behind.
SPECIFICATION BreakerSpec
CONSTANTS
    c1 = c1
    c2 = c2
    c3 = c3
    c4 = c4
    w1 = w1
    None = None
    Calls = {c1, c2, c3, c4}
    Workers = {w1}
    Window = 2
    MinimumSamples = 2
    FailurePercent = 50
    OpenDuration = 2
    HalfOpenProbes = 1
    CacheTTL = 1
    MaxRestarts = 1
    MaxTime = 3
SYMMETRY MCSymmetry
CHECK_DEADLOCK FALSE
INVARIANTS
    OpenHoldsOff
PROPERTIES
    TripIsEarned
