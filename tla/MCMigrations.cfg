SPECIFICATION Spec
CONSTANTS
    p1 = p1
    p2 = p2
    p3 = p3
    Procs = {p1, p2, p3}
    MaxKills = 2
    MaxErrors = 1
    MaxDowns = 2
INVARIANTS
    TypeOK
    RecordedIsApplied
    RecordsArePrefix
    ServingHasSchema
PROPERTIES
    StartsKeepData
    StartsSucceed
CHECK_DEADLOCK FALSE
