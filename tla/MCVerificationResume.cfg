SPECIFICATION Spec
CONSTANTS
    None = None
    primary = primary
    fallback = fallback
    dependent = dependent
    Checks = {primary, fallback}
    DependsOn <- PairDependsOn
    FallbackFor <- PairFallbackFor
    Async = {primary, fallback}
    Workers = {w1}
    Authors = {a1}
    Clients = {u1}
    Outcomes = {"completed", "failed", "retryable"}
    Verdicts = {"completed", "awaiting_input", "manual_review", "failed"}
    MaxSemantic = 2
    MaxResponses = 1
INVARIANT ResumedCanStart
CHECK_DEADLOCK FALSE
