----------------------------- MODULE TokenCache -----------------------------
(***************************************************************************)
(* The delegated-token cache (delegator_oauth/cache): a bounded map that   *)
(* coalesces exchanges with the IdP and retires an entry on a monotonic    *)
(* clock, which a suspended host stops; a read repeats the decision on the *)
(* wall clock.  The map is moka's, modelled from how store.rs uses it.     *)
(*                                                                         *)
(* One key: keys meet only where the map is full, and an entry may be      *)
(* evicted at any time.  Times are seconds; a key byte decides the jitter. *)
(***************************************************************************)
EXTENDS Naturals

CONSTANTS Delegations, \* bound: delegations
          Lifetimes,   \* what the IdP answers
          Jitters,
          TtlCeiling, FloorSeconds, FractionPercent,
          SuspendSecs, \* how long a suspend lasts
          MaxWall      \* bound

ASSUME TokenCacheAssumption ==
    /\ Lifetimes \subseteq Nat /\ Jitters \subseteq Nat
    /\ TtlCeiling \in Nat \ {0} /\ FloorSeconds \in Nat /\ FractionPercent \in 0 .. 99
    /\ SuspendSecs \in Nat /\ MaxWall \in Nat

VARIABLES
    mono, wall, \* the clocks
    entry,      \* the key's entry, or NoToken
    dele        \* dele[d]: its step, when it began, what it was handed and when

tokenVars == <<mono, wall, entry, dele>>

NoToken == [minted |-> 0, expires |-> 0, window |-> 0, retires |-> 0, here |-> FALSE]
IdleDele == [at |-> "idle", began |-> 0, got |-> NoToken, when |-> 0]

TokenTypeOK ==
    LET Token == [minted : 0 .. MaxWall, expires : Nat, window : Nat, retires : Nat, here : BOOLEAN] IN
    /\ mono \in 0 .. MaxWall /\ wall \in mono .. MaxWall
    /\ entry \in Token
    /\ dele \in [Delegations -> [at : {"idle", "stale", "miss", "mint", "wait", "done", "failed"},
                               began : Nat, got : Token, when : Nat]]

TokenInit ==
    /\ mono = 0 /\ wall = 0
    /\ entry = NoToken
    /\ dele = [d \in Delegations |-> IdleDele]

Least(a, b) == IF a < b THEN a ELSE b

\* serve_window: 0 stands for None.
ServeWindow(lifetime, jitter) ==
    LET capped == Least(lifetime, TtlCeiling)
        fractional == (capped * FractionPercent) \div 100
        margin == (IF fractional > FloorSeconds THEN fractional ELSE FloorSeconds) + jitter
    IN IF capped > margin THEN capped - margin ELSE 0

\* An entry moka still returns.
Unretired == entry.here /\ mono < entry.retires

\* Mutant: the wall clock is held against the token's expiry alone.
IsServableByExpiry(t) == t.window > 0 /\ wall + FloorSeconds <= t.expires

\* is_servable_now
IsServableNow(t) ==
    /\ wall + FloorSeconds <= t.expires
    /\ t.window > 0 /\ wall <= t.minted + t.window

Moves(d, step) == dele' = [dele EXCEPT ![d].at = step]
HandsOut(d, t) == [dele[d] EXCEPT !.at = "done", !.got = t, !.when = wall]

-----------------------------------------------------------------------------
(* get_or_mint.                                                            *)

\* A delegation begins, after an earlier one: the read ahead of the coalesced
\* path.
ReadsCache(d) ==
    /\ dele[d].at \in {"idle", "done", "failed"}
    /\ LET begun == [IdleDele EXCEPT !.began = wall] IN
       dele' = [dele EXCEPT ![d] =
                  IF ~Unretired THEN [begun EXCEPT !.at = "miss"]
                  ELSE IF IsServableNow(entry)
                       THEN [HandsOut(d, entry) EXCEPT !.began = wall]
                       ELSE [begun EXCEPT !.at = "stale"]]
    /\ UNCHANGED <<mono, wall, entry>>

\* The entry under the key goes, whichever it is by now.
Invalidates(d) ==
    /\ dele[d].at = "stale"
    /\ Moves(d, "miss")
    /\ entry' = NoToken
    /\ UNCHANGED <<mono, wall>>

Minting == {d \in Delegations : dele[d].at = "mint"}

\* entry(key).or_try_insert_with: an entry there by now is returned, an
\* exchange under way is waited for, else this call's own exchange begins.
Coalesces(d) ==
    /\ dele[d].at = "miss"
    /\ dele' = [dele EXCEPT ![d] =
                  IF Unretired THEN HandsOut(d, entry)
                  ELSE [@ EXCEPT !.at = IF Minting = {} THEN "mint" ELSE "wait"]]
    /\ UNCHANGED <<mono, wall, entry>>

\* The exchange ends well: the entry is stored and everyone waiting has it.
MintSucceeds(d) ==
    /\ dele[d].at = "mint"
    /\ \E lifetime \in Lifetimes, jitter \in Jitters :
          LET window == ServeWindow(lifetime, jitter)
              t == [minted |-> wall, expires |-> wall + lifetime, window |-> window,
                    retires |-> mono + window, here |-> TRUE]
          IN /\ entry' = t
             /\ dele' = [e \in Delegations |->
                           IF e = d \/ dele[e].at = "wait"
                           THEN HandsOut(e, t) ELSE dele[e]]
    /\ UNCHANGED <<mono, wall>>

\* Everyone who waited shares the error.
FailedWith(d) == {e \in Delegations : e = d \/ dele[e].at = "wait"}

MintFails(d) ==
    /\ dele[d].at = "mint"
    /\ dele' = [e \in Delegations |-> IF e \in FailedWith(d)
                                      THEN [dele[e] EXCEPT !.at = "failed"] ELSE dele[e]]
    /\ UNCHANGED <<mono, wall, entry>>

\* The request is dropped; when it led, those who waited start over.
DelegationDropped(d) ==
    /\ dele[d].at \in {"stale", "miss", "mint", "wait"}
    /\ dele' = [e \in Delegations |->
                  IF e = d THEN [dele[e] EXCEPT !.at = "failed"]
                  ELSE IF dele[d].at = "mint" /\ dele[e].at = "wait"
                       THEN [dele[e] EXCEPT !.at = "miss"] ELSE dele[e]]
    /\ UNCHANGED <<mono, wall, entry>>

-----------------------------------------------------------------------------
(* The map and the clocks.                                                 *)

\* max_entries: moka drops an entry, when it sees fit.
EntryEvicted ==
    /\ entry.here
    /\ entry' = NoToken
    /\ UNCHANGED <<mono, wall, dele>>

SecondPasses ==
    /\ wall < MaxWall
    /\ mono' = mono + 1 /\ wall' = wall + 1
    /\ UNCHANGED <<entry, dele>>

HostSuspends ==
    /\ wall + SuspendSecs <= MaxWall
    /\ wall' = wall + SuspendSecs
    /\ UNCHANGED <<mono, entry, dele>>

TokenNext ==
    \/ SecondPasses \/ HostSuspends \/ EntryEvicted
    \/ \E d \in Delegations :
          \/ ReadsCache(d) \/ Invalidates(d) \/ Coalesces(d)
          \/ MintSucceeds(d) \/ MintFails(d) \/ DelegationDropped(d)

TokenSpec == TokenInit /\ [][TokenNext]_tokenVars

-----------------------------------------------------------------------------
(* Properties.                                                             *)

\* store.rs: the ceiling "has to hold on both clocks".  A token handed out is
\* short of its ceiling and of its expiry by the floor, on the wall clock,
\* suspends or not, unless it was minted since the call that is handed it began.
HandedOutInWindow ==
    \A d \in Delegations :
        LET c == dele[d] IN
        c.at = "done" /\ c.got.minted < c.began =>
            /\ c.when + FloorSeconds <= c.got.minted + TtlCeiling
            /\ c.when + FloorSeconds <= c.got.expires

\* Whoever waits, waits for an exchange that is under way, though leaders fail
\* and are dropped; and there is one exchange for a key at a time.
WaitersHaveALeader ==
    /\ \A d, e \in Minting : d = e
    /\ (\E d \in Delegations : dele[d].at = "wait") => Minting # {}

\* A shared token is served within its window, and whoever waits for one waits
\* for an exchange that is under way.
TokensShared == HandedOutInWindow /\ WaitersHaveALeader
=============================================================================
