SPECIFICATION Spec
CONSTANTS
    Radix = 8
    AmountWidth = 1
    CountWidth = 2
    TotalWidth = 2
    HashWidth = 3
    Files <- SmallFiles
INVARIANTS
    TypeOK
    AcceptedIsAsAsked
    BatchControlsAddUp
    FittingIsAccepted
    BlocksAreFull
CHECK_DEADLOCK FALSE
