SPECIFICATION Spec
CONSTANTS
    c1 = c1
    c2 = c2
    c3 = c3
    Calls = {c1, c2, c3}
    AttemptOf <- SecondAttempts
    KeyOf <- LastHasKey
    MaxInFlight = 1
    MaxDbErrors = 0
INVARIANTS
    RefundsAreCovered
CHECK_DEADLOCK FALSE
