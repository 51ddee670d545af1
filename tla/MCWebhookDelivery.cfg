\* Two endpoints in batches of one, two attempts in a window of two ticks, a
\* replay, one fault, one worker.
CONSTANTS
    w1 = w1
    None = None
    Workers = {w1}
    Endpoints = {1, 2}
    FanoutBatch = 1
    MaxAttempts = 2
    MaxTries = 1
    Backoff = 1
    Window = 2
    Hour = 1
    Retention = 2
    Replayed = {1}
    MaxReplays = 1
    LateReplays = TRUE
    MaxFaults = 1
    Quiet = 0
    MaxTime = 2
SPECIFICATION FairSpec
INVARIANT FanoutReachesAll
PROPERTIES  DeliveryEnds
CHECK_DEADLOCK FALSE
