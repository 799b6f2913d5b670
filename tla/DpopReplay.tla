----------------------------- MODULE DpopReplay -----------------------------
(***************************************************************************)
(* DPoP proofs of possession (identity_jwt/dpop.rs, dpop_valkey.rs): a     *)
(* proof is accepted while its iat is near the gateway's clock, and its    *)
(* id is recorded in a replay guard, shared by the gateways, that forgets  *)
(* it after twice the window.  One request may resolve identity several    *)
(* times, and then reuses the record in its own context table.             *)
(*                                                                         *)
(* Time is the client's clock, by which proofs are issued; each gateway's  *)
(* clock is off by a fixed amount.  A resolution that checked the iat      *)
(* reaches the guard some time later, within the store's timeouts.         *)
(***************************************************************************)
EXTENDS Integers, FiniteSets

CONSTANTS DpopReqs,  \* bound: requests
          Gateways,
          Scopes,    \* issuer and key thumbprint
          Jtis,      \* proof ids
          Window,    \* iat_window_seconds
          MaxSkew,   \* how far a gateway's clock is from the client's
          MaxDelay,  \* connect and command timeouts of the guard
          CapacityPerKey, GuardCapacity, \* of the in-memory guard
          MaxDpopTime  \* bound

\* The window is what the operator allows for clocks and delays.
ASSUME DpopAssumption ==
    /\ Window \in Nat /\ MaxSkew \in Nat /\ MaxDelay \in Nat
    /\ MaxSkew + MaxDelay <= Window
    /\ CapacityPerKey \in Nat \ {0} /\ GuardCapacity \in Nat \ {0} /\ MaxDpopTime \in Nat

Proofs == Scopes \X Jtis
NoProof == <<"none", "none">>

VARIABLES
    time,      \* the client's clock
    skew,      \* skew[g]: gateway g's clock minus it
    iat,       \* iat[p]: when proof p was issued, -1 before
    remembered,\* ReplayState.seen: proof -> when it is forgotten
    perScope,  \* ReplayState.per_scope
    dreq       \* dreq[r]: its proof, gateway, step, the time of its check, and
               \* until when its context's record may be reused

dpopVars == <<time, skew, iat, remembered, perScope, dreq>>

\* No clock shows a time before this one.
NoRecord == -MaxSkew
IdleDpop == [proof |-> NoProof, at |-> "idle", gw |-> "none", checked |-> 0,
             record |-> NoRecord, accepted |-> FALSE]

DpopTypeOK ==
    /\ time \in 0 .. MaxDpopTime
    /\ skew \in [Gateways -> -MaxSkew .. MaxSkew]
    /\ iat \in [Proofs -> -1 .. MaxDpopTime]
    /\ DOMAIN remembered \subseteq Proofs /\ \A p \in DOMAIN remembered : remembered[p] \in Int
    /\ Cardinality(DOMAIN remembered) <= GuardCapacity
    /\ perScope \in [Scopes -> 0 .. CapacityPerKey]
    /\ dreq \in [DpopReqs -> [proof : Proofs \cup {NoProof}, at : {"idle", "ready", "consume"},
                              gw : Gateways \cup {"none"}, checked : 0 .. MaxDpopTime,
                              record : Int, accepted : BOOLEAN]]

Forgotten == [p \in {} |-> 0]

DpopInit ==
    /\ time = 0 /\ skew \in [Gateways -> -MaxSkew .. MaxSkew]
    /\ iat = [p \in Proofs |-> -1]
    /\ remembered = Forgotten /\ perScope = [s \in Scopes |-> 0]
    /\ dreq = [r \in DpopReqs |-> IdleDpop]

Clock(r) == time + skew[dreq[r].gw]

\* Mutant: the id is kept for one window.
RetentionOneWindow == Window

\* retained_until, as the time from the first use.
Retention == 2 * Window + 1

-----------------------------------------------------------------------------
(* The client and the clock.                                               *)

Issue(p) ==
    /\ iat[p] = -1
    /\ iat' = [iat EXCEPT ![p] = time]
    /\ UNCHANGED <<time, skew, remembered, perScope, dreq>>

\* A request presents a proof, a new one or one used before, to a gateway.
PresentProof(r) ==
    /\ dreq[r].at = "idle"
    /\ \E p \in Proofs, g \in Gateways :
          /\ iat[p] # -1
          /\ dreq' = [dreq EXCEPT ![r] = [IdleDpop EXCEPT !.proof = p, !.gw = g, !.at = "ready"]]
    /\ UNCHANGED <<time, skew, iat, remembered, perScope>>

\* The guard answers, or its timeouts end the call, before MaxDelay is over.
DpopTick ==
    /\ time < MaxDpopTime
    /\ \A r \in DpopReqs : dreq[r].at = "consume" => time < dreq[r].checked + MaxDelay
    /\ time' = time + 1
    /\ UNCHANGED <<skew, iat, remembered, perScope, dreq>>

-----------------------------------------------------------------------------
(* verify_in.                                                              *)

\* check: signature, key, method, URL and token hash agree; so must the time.
Recent(r) ==
    LET off == iat[dreq[r].proof] - Clock(r) IN -Window <= off /\ off <= Window

\* The request's own context holds an unexpired record of this very proof.
Reusable(r) == Clock(r) < dreq[r].record

\* A resolution of identity: a proof out of its window is denied, one this
\* request recorded is accepted, any other goes to the guard.
CheckProof(r) ==
    /\ dreq[r].at = "ready" /\ Recent(r)
    /\ \/ /\ Reusable(r)
          /\ dreq' = [dreq EXCEPT ![r].accepted = TRUE]
       \/ /\ ~Reusable(r)
          /\ dreq' = [dreq EXCEPT ![r].at = "consume", ![r].checked = time]
    /\ UNCHANGED <<time, skew, iat, remembered, perScope>>

Kept == {p \in DOMAIN remembered : remembered[p] > time}

\* What prune leaves of a scope's count.
CountAfterPrune(s) ==
    perScope[s] - Cardinality({p \in DOMAIN remembered \ Kept : p[1] = s})

\* Mutant: one key may fill the guard.
FullOverall(s) == Cardinality(Kept) >= GuardCapacity

Full(s) == CountAfterPrune(s) >= CapacityPerKey \/ Cardinality(Kept) >= GuardCapacity

Denied(r) == dreq' = [dreq EXCEPT ![r].at = "ready", ![r].checked = 0]

\* prune, and then the id goes in.
RecordUse(p) ==
    /\ remembered' = [q \in Kept \cup {p} |-> IF q = p THEN time + Retention
                                                       ELSE remembered[q]]
    /\ perScope' = [s \in Scopes |-> CountAfterPrune(s) + (IF s = p[1] THEN 1 ELSE 0)]

\* prune alone.
Prune ==
    /\ remembered' = [q \in Kept |-> remembered[q]]
    /\ perScope' = [s \in Scopes |-> CountAfterPrune(s)]

\* consume and first_use, one lock or one SET NX EX; an accepted proof is
\* recorded in the request's context until the guard forgets it, counted from
\* the check.
Consume(r) ==
    LET p == dreq[r].proof IN
    /\ dreq[r].at = "consume"
    /\ \/ /\ p \in Kept /\ Denied(r)
          /\ Prune
       \/ /\ p \notin Kept /\ Full(p[1]) /\ Denied(r)
          /\ Prune
       \/ /\ p \notin Kept /\ ~Full(p[1])
          /\ RecordUse(p)
          /\ dreq' = [dreq EXCEPT ![r].at = "ready", ![r].checked = 0, ![r].accepted = TRUE,
                         ![r].record = dreq[r].checked + skew[dreq[r].gw] + Retention]
    /\ UNCHANGED <<time, skew, iat>>

\* The store does not answer, having recorded the id or not: denied.
GuardUnavailable(r) ==
    LET p == dreq[r].proof IN
    /\ dreq[r].at = "consume"
    /\ Denied(r)
    /\ \/ UNCHANGED <<remembered, perScope>>
       \/ p \notin Kept /\ ~Full(p[1]) /\ RecordUse(p)
    /\ UNCHANGED <<time, skew, iat>>

DpopNext ==
    \/ DpopTick \/ \E p \in Proofs : Issue(p)
    \/ \E r \in DpopReqs :
          PresentProof(r) \/ CheckProof(r) \/ Consume(r) \/ GuardUnavailable(r)

DpopSpec == DpopInit /\ [][DpopNext]_dpopVars

-----------------------------------------------------------------------------
(* Properties.                                                             *)

\* dpop.rs: retain the id "for the full span in which any one clock can accept
\* this proof".  While clocks and delays stay within the window, a proof gets
\* one request accepted and no other, at whichever gateway, however often the
\* guard's answer was lost and though a request resolves identity repeatedly.
ProofAcceptedOnce ==
    \A r, s \in DpopReqs :
        dreq[r].accepted /\ dreq[s].accepted /\ dreq[r].proof = dreq[s].proof => r = s

\* The count that bounds a key is the number of its ids the guard holds: a
\* count left behind would deny the key for good.
CountsAgree ==
    \A s \in Scopes : perScope[s] = Cardinality({p \in DOMAIN remembered : p[1] = s})

\* The guard admits a proof once, and its count per key never drifts.
ReplayGuarded == ProofAcceptedOnce /\ CountsAgree
=============================================================================
