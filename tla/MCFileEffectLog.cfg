SPECIFICATION Spec
CONSTANTS
    k1 = k1
    k2 = k2
    k3 = k3
    Keys <- MCKeys
    Handles = {h1, h2}
    NoHandle = NoHandle
    NoKey = NoKey
    Threshold = 2
    MaxCrashes = 2
    Environments <- MCEnvironments
SYMMETRY Symmetry
CHECK_DEADLOCK FALSE
PROPERTY ImplementsLog
INVARIANT NeverSilent
