SPECIFICATION Spec
CONSTANTS
    c1 = c1
    c2 = c2
    c3 = c3
    Calls = {c1, c2, c3}
    AttemptOf <- SecondAttempts
    KeyOf <- LastHasKey
    MaxInFlight = 2
    MaxDbErrors = 1
INVARIANTS
    TypeOK
    AnnouncementsAreHonest
    MoneyMovesOnce
    ReferenceNamesAnOrder
    RowIsOneAnswer
    CapturedMeansTaken
    DeclinedTookNothing
SYMMETRY KeylessCalls
CHECK_DEADLOCK FALSE
