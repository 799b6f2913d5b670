---------------------------- MODULE EffectRecords ----------------------------
(***************************************************************************)
(* The effect records of ppe-core (effect.rs) and what recovery makes of a *)
(* set of them.  Shared by the abstract log, the file and the protocol.    *)
(***************************************************************************)
EXTENDS Naturals

CONSTANT Keys      \* idempotency keys, one per attempted effect

----------------------------------------------------------------------------
(* EffectState and EffectRecord: what recovery looks at of a record is its *)
(* key and its state.                                                      *)

States == {"Prepared", "Confirmed", "Rejected", "Unknown"}

\* The states recovery takes as an answer; Unknown is explicitly not one.
Terminal == {"Confirmed", "Rejected"}

Records == [key : Keys, state : States]

Rec(k, st) == [key |-> k, state |-> st]

KeysOf(log) == {r.key : r \in log}

\* A key is resolved when some record for it, anywhere in the log, reached
\* a terminal state.
Resolved(log) == {r.key : r \in {x \in log : x.state \in Terminal}}

Unresolved(log) == KeysOf(log) \ Resolved(log)

\* What a compaction may leave of `log`: no resolved key, and at least one
\* record for every other key.
IsCompactionOf(kept, log) ==
    /\ kept \subseteq log
    /\ KeysOf(kept) = Unresolved(log)

=============================================================================
