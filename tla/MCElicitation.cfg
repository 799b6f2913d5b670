SPECIFICATION ElicitSpec
CONSTANTS
    Requests = {r1, r2, r3}
    Ids = {i1}
    Subjects = {s1, s2}
    Approvers = {a1, a2}
    SharedStore = TRUE
    OnErrorContinue = TRUE
SYMMETRY MCSym
CHECK_DEADLOCK FALSE
INVARIANT ApprovalGenuine
INVARIANT NeverRepolled
PROPERTY ApprovalImplemented
