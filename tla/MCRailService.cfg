SPECIFICATION Spec
CONSTANTS
    h1 = h1
    h2 = h2
    h3 = h3
    h4 = h4
    p1 = p1
    p2 = p2
    Handlers = {h1, h2, h3, h4}
    Payments = {p1}
    Amounts = {1, 2}
    Workload <- OnePayment
    MaxInFlight = 4
    Durable = TRUE
    MaxCrashes = 1
    MaxDbErrors = 1
SYMMETRY HandlerSymmetry
INVARIANTS
    TypeOK
    TrackerMatchesAudit
    StateExplained
    AnswersMatchAudit
    ConnectorMeetsARow
    AuthorizedIsRecorded
CHECK_DEADLOCK FALSE
