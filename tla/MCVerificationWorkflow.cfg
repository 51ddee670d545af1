SPECIFICATION Spec
CONSTANTS
    None = None
    primary = primary
    fallback = fallback
    dependent = dependent
    Checks = {primary, fallback, dependent}
    DependsOn <- PlanDependsOn
    FallbackFor <- PlanFallbackFor
    Async = {primary, fallback}
    Workers = {w1, w2}
    Authors = {a1, a2}
    Clients = {u1}
    Outcomes = {"completed", "cancelled", "retryable"}
    Verdicts = {"completed", "awaiting_input", "manual_review", "failed"}
    MaxSemantic = 2
    MaxResponses = 1
SYMMETRY Deliveries
INVARIANTS RouteRespected CompletionIsEarned CancelledHoldsReservations
PROPERTIES StoppedAcceptsNothing  ImplementsChecks
CHECK_DEADLOCK FALSE
