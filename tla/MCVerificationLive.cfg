SPECIFICATION FairSpec
CONSTANTS
    None = None
    primary = primary
    fallback = fallback
    dependent = dependent
    Checks = {primary, fallback, dependent}
    DependsOn <- PlanDependsOn
    FallbackFor <- PlanFallbackFor
    Async = {primary, fallback}
    Workers = {w1}
    Authors = {a1}
    Clients = {}
    Outcomes = {"completed", "failed"}
    Verdicts = {"completed", "awaiting_input"}
    MaxSemantic = 1
    MaxResponses = 0
PROPERTIES  DueEnds
CHECK_DEADLOCK FALSE
