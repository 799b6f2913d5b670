------------------------------- MODULE MCRoute -------------------------------
(* A request may arrive carrying labels of its own.                        *)
EXTENDS RouteRequest, TLC

MCOwn == SUBSET Labels
MCSym == Permutations(RouteReqs) \cup Permutations(Members)
=============================================================================
