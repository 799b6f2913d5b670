------------------------------ MODULE DurableLog ------------------------------
(***************************************************************************)
(* What a write-ahead log of effect records promises its users: the        *)
(* contract of the trait DurableEffectLog (ppe-core, effect.rs).           *)
(*                                                                         *)
(* The log is the set of records a recovery would read back.  `acked` are  *)
(* the records whose append returned Ok and that no compaction has since   *)
(* dropped on purpose: what the log still owes.  FileEffectLog implements  *)
(* this specification; EffectProtocol is written against it.               *)
(***************************************************************************)
EXTENDS EffectRecords

VARIABLES wal,     \* records a recovery would read back
          acked    \* records acknowledged and not compacted away

vars == <<wal, acked>>

----------------------------------------------------------------------------
Init == wal = {} /\ acked = {}

\* A record reaches the log, before anybody is told so.
Persist(r) ==
    /\ wal' = wal \cup {r}
    /\ UNCHANGED acked

\* The append of a record that is in the log returns Ok.
Acknowledge(r) ==
    /\ r \in wal
    /\ acked' = acked \cup {r}
    /\ UNCHANGED wal

\* A refused or interrupted append leaves no trace.
Withdraw(r) ==
    /\ r \in wal \ acked
    /\ wal' = wal \ {r}
    /\ UNCHANGED acked

\* Recovery rewrites the log and drops what it owes nobody any more.
Compact ==
    /\ IsCompactionOf(wal', wal)
    /\ acked' = acked \cap wal'

Next == \/ \E r \in Records : Persist(r) \/ Acknowledge(r) \/ Withdraw(r)
        \/ Compact

Spec == Init /\ [][Next]_vars
=============================================================================
