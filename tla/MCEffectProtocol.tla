--------------------------- MODULE MCEffectProtocol ---------------------------
(* EffectProtocol for TLC. *)
EXTENDS EffectProtocol, TLC

Symmetry == Permutations(Keys) \cup Permutations(Sweepers)
=============================================================================
