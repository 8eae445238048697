SPECIFICATION Spec
CONSTANTS
    h1 = h1
    h2 = h2
    h3 = h3
    h4 = h4
    p1 = p1
    p2 = p2
    Handlers = {h1, h2, h3, h4}
    Payments = {p1}
    Amounts = {1, 2}
    Workload <- AuthorizeAndCapture
    MaxInFlight = 2
    Durable = FALSE
    MaxCrashes = 0
    MaxDbErrors = 0
SYMMETRY HandlerSymmetry
INVARIANTS
    ReplaysAreDeduped
CHECK_DEADLOCK FALSE
