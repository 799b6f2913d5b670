SPECIFICATION PartsSpec
CONSTANTS
    Keys = {k1}
    Sweepers = {s1}
    MaxCrashes = 1
    NoKey = NoKey
    Requests = {r1, r2}
    Ids = {i1}
    Subjects = {s1, s2}
    Approvers = {a1}
    SharedStore = FALSE
    OnErrorContinue = FALSE
CHECK_DEADLOCK FALSE
INVARIANT PartsTypeOK
PROPERTY OrphanAnswered
PROPERTY EveryRequestEnds
