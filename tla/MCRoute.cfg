SPECIFICATION RouteSpec
CONSTANTS
    RouteReqs = {q1, q2}
    Sessions = {s1}
    Labels = {l1}
    Members = {m1, m2}
    OwnLabels <- MCOwn
SYMMETRY MCSym
CHECK_DEADLOCK FALSE
INVARIANT TaintDurable
