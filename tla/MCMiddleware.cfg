SPECIFICATION FairSpec
CONSTANTS
    c1 = c1
    c2 = c2
    c3 = c3
    p1 = p1
    p2 = p2
    Calls = {c1, c2, c3}
    Payments = {p1}
    PaymentOf <- ThreeOnOnePayment
    MaxAttempts = 2
    MaxFailures = 2
    CoolDown = 1
INVARIANTS
    TypeOK
    ClosedIffBelowThreshold
    HalfOpenOnlyAfterCoolDown
    AnswersAreHonest
PROPERTIES
    OneRequestPerOpening
    KeepsOutboundPromise
    EveryCallReturns
CHECK_DEADLOCK FALSE
