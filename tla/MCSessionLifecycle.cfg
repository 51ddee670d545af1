SPECIFICATION Spec
CONSTANTS
    None = None
    w1 = w1
    w2 = w2
    e1 = e1
    e2 = e2
    e3 = e3
    d1 = d1
    f1 = f1
    Writers <- MCWriters
    Events <- MCEvents
    Decisions <- MCDecisions
    Failures <- MCFailures
    Initial = "collecting"
    ExpiresAt = 1
    MaxTime = 1
SYMMETRY MCSymmetry
INVARIANTS  ReceiptIsOriginal
PROPERTIES  WindowIsRespected
