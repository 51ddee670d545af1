\* Two workers and one callback, two attempts, and a poll whose lease can run
\* out before the deadline.
SPECIFICATION FairSpec
CHECK_DEADLOCK FALSE
CONSTANTS
    None = None
    Workers = {w1, w2}
    Callers = {c1}
    ReplayIDs = {1}
    Jobs = {}
    Answers = {"passed", "busy"}
    Retryable = {"busy"}
    MaxSemantic = 2
    Deadline = 2
    PollLease = 1
    PollDelay = 1
    MaxTime = 2
INVARIANTS
    SubmittedOnce
    UsageIsExact
    OnePoller
PROPERTIES
    FirstResultWins
    AsyncResolves
