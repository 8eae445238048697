SPECIFICATION Spec
CONSTANTS
    h1 = h1
    h2 = h2
    h3 = h3
    h4 = h4
    p1 = p1
    p2 = p2
    Handlers = {h1, h2, h3, h4}
    Payments = {p1, p2}
    Amounts = {1, 2}
    Workload <- TwoPayments
    MaxInFlight = 1
    Durable = FALSE
    MaxCrashes = 0
    MaxDbErrors = 0
SYMMETRY HandlerSymmetry
INVARIANTS
    LogReplaysToState
PROPERTIES
    KeepsLedger
CHECK_DEADLOCK FALSE
