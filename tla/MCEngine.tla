------------------------------ MODULE MCEngine ------------------------------
(* Documents for the runs of Engine: two that name the same secrets and    *)
(* different plugins, and one that declares none.                          *)
EXTENDS Engine, TLC

CONSTANTS d1, d2, d3, p1, p2, s1

MCDocs == {d1, d2, d3}
MCDocPlugins == [d \in MCDocs |-> IF d = d2 THEN {p2} ELSE {p1}]
MCDocPolicy == [d \in MCDocs |-> Routes]
MCDocSecrets == [d \in MCDocs |-> IF d = d3 THEN None ELSE s1]
Symmetry == Permutations(Initializers)
=============================================================================
