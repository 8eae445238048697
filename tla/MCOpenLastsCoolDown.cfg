SPECIFICATION Spec
CONSTANTS
    c1 = c1
    c2 = c2
    c3 = c3
    p1 = p1
    p2 = p2
    Calls = {c1, c2, c3}
    Payments = {p1, p2}
    PaymentOf <- TwoOnOnePayment
    MaxAttempts = 2
    MaxFailures = 2
    CoolDown = 1
PROPERTIES
    OpenLastsCoolDown
CHECK_DEADLOCK FALSE
