SPECIFICATION Spec
CONSTANTS
    x1 = x1
    x2 = x2
    d1 = d1
    p1 = p1
    p2 = p2
    BadAmount = BadAmount
    NoRef = NoRef
    Passes = {x1, x2}
    Disputes = {d1}
    Payments = {p1, p2}
    PaymentOf <- DisputeOfFirst
    Files <- AllFiles
    ServiceStatuses = {"authorized", "settled", "chargeback"}
    MaxCrashes = 1
    MaxDbErrors = 1
SYMMETRY PassSymmetry
INVARIANTS
    TypeOK
    MemoryMatchesLog
    SettledOnceAndAnnounced
    CompletedIsBooked
    StatusHasRecord
    ResultsFollowFile
    AnsweredDisputesAreRecorded
CHECK_DEADLOCK FALSE
