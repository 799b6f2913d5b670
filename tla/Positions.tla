------------------------------ MODULE Positions ------------------------------
(***************************************************************************)
(* The members of a sequence at some of its positions, in their order.     *)
(* Written without recursion, so that it can be reasoned about.            *)
(***************************************************************************)
EXTENDS Naturals, FiniteSets, Sequences

\* The n-th least of a set of positions.
NthOf(S, n) == CHOOSE i \in S : Cardinality({j \in S : j <= i}) = n

Picked(q, S) == [n \in 1 .. Cardinality(S) |-> q[NthOf(S, n)]]
=============================================================================
