---------------------------- MODULE MCElicitation ----------------------------
EXTENDS Elicitation, TLC
MCSym == Permutations(Requests) \cup Permutations(Subjects) \cup Permutations(Approvers)
=============================================================================
