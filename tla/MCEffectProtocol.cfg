SPECIFICATION Spec
CONSTANTS
    Keys = {k1, k2}
    Sweepers = {s1, s2}
    MaxCrashes = 1
    NoKey = NoKey
SYMMETRY Symmetry
INVARIANT WriteAhead
INVARIANT AnswersTrue
INVARIANT OneAnswer
INVARIANT ToldAfterDurable
