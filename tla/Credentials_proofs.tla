------------------------- MODULE Credentials_proofs -------------------------
(***************************************************************************)
(* Proofs about the components that hold credentials of outside services:  *)
(* the Vault delegator, the delegated-token cache, the Vault secret        *)
(* provider and the signing keys.  Each part has the shape of the others:  *)
(* an inductive invariant, one step of the proof per action, the theorems. *)
(***************************************************************************)
EXTENDS VaultDelegation, TokenCache, VaultSession, JwksRefresh, TLAPS

-----------------------------------------------------------------------------
(* VaultDelegation: RevokedOrOwned.  Where a call stands says who owns its *)
(* token: nobody has one before the login is answered, the request that    *)
(* reads has armed the task, and a triggered task still has a live token.  *)
(* What is served points at a call whose task succeeded, which stays so.   *)

VaultCallInv(c) ==
    /\ vcall[c].at \in {"idle", "wait", "login"} => vtoken[c] = "none" /\ cleanup[c] = "none"
    /\ vcall[c].at = "read" => vtoken[c] = "live" /\ cleanup[c] = "armed"
    /\ cleanup[c] = "armed" => vcall[c].at = "read"
    /\ cleanup[c] = "triggered" => vtoken[c] = "live"
    /\ vtoken[c] = "live" => cleanup[c] \in {"armed", "triggered", "failed"}
    /\ cleanup[c] = "ok" => vtoken[c] = "revoked"

ServedInv ==
    /\ \A c \in VaultCalls : vcall[c].at = "served" =>
            vcall[c].mint \in VaultCalls /\ cleanup[vcall[c].mint] = "ok"
    /\ secretOf # NoCall => secretOf \in VaultCalls /\ cleanup[secretOf] = "ok"

VaultInv == VaultTypeOK /\ ServedInv /\ \A c \in VaultCalls : VaultCallInv(c)

CallSteps == {"idle", "wait", "login", "read", "revoke"} \cup Ended
CallRecords == [at : CallSteps, read : {"none", "secret", "failed"}, mint : VaultCalls \cup {NoCall}]

LEMMA VaultTypes ==
    VaultTypeOK <=>
        /\ caching \in BOOLEAN
        /\ secretOf \in VaultCalls \cup {NoCall}
        /\ vcall \in [VaultCalls -> CallRecords]
        /\ vtoken \in [VaultCalls -> {"none", "unknown", "live", "revoked"}]
        /\ cleanup \in [VaultCalls -> {"none", "armed", "triggered", "ok", "failed"}]
BY DEF VaultTypeOK, CallRecords, CallSteps

\* The steps of a call, opaque to the provers.
LEMMA CallStepsAre ==
    /\ "idle" \in CallSteps /\ "wait" \in CallSteps /\ "login" \in CallSteps
    /\ "read" \in CallSteps /\ "revoke" \in CallSteps /\ "served" \in CallSteps
    /\ "denied" \in CallSteps /\ "dropped" \in CallSteps
BY DEF CallSteps, Ended

\* A call that goes to another step, the rest of it as it was.
LEMMA CallGoes ==
    ASSUME VaultTypeOK, NEW c \in VaultCalls, NEW step \in CallSteps, Goes(c, step)
    PROVE  /\ vcall' \in [VaultCalls -> CallRecords]
           /\ \A e \in VaultCalls \ {c} : vcall'[e] = vcall[e]
           /\ vcall'[c].at = step /\ vcall'[c].mint = vcall[c].mint
<1>1. vcall \in [VaultCalls -> CallRecords] /\ vcall' = [vcall EXCEPT ![c].at = step]
  BY VaultTypes DEF Goes
<1> QED BY <1>1 DEF CallRecords

\* A fetch that ends takes those that wait for it along.
LEMMA FetchEnds ==
    ASSUME VaultTypeOK, NEW c \in VaultCalls, NEW step \in CallSteps,
           NEW mint \in VaultCalls \cup {NoCall}, EndFetch(c, step, mint)
    PROVE  /\ vcall' \in [VaultCalls -> CallRecords]
           /\ \A e \in VaultCalls :
                 \/ vcall'[e] = vcall[e] /\ e # c
                 \/ /\ e = c \/ vcall[e].at = "wait"
                    /\ vcall'[e].at = step /\ vcall'[e].mint = mint
<1>1. vcall \in [VaultCalls -> CallRecords]
  BY VaultTypes
<1>2. ASSUME NEW e \in VaultCalls
      PROVE  /\ [vcall[e] EXCEPT !.at = step, !.mint = mint] \in CallRecords
             /\ [vcall[e] EXCEPT !.at = step, !.mint = mint].at = step
             /\ [vcall[e] EXCEPT !.at = step, !.mint = mint].mint = mint
  BY <1>1 DEF CallRecords
<1>3. \A e \in VaultCalls : vcall'[e] = IF e = c \/ e \in Waiting
                                        THEN [vcall[e] EXCEPT !.at = step, !.mint = mint] ELSE vcall[e]
  BY DEF EndFetch
<1>4. \A e \in VaultCalls : vcall'[e] \in CallRecords
  BY <1>1, <1>2, <1>3
<1>5. vcall' \in [VaultCalls -> CallRecords]
  BY <1>4 DEF EndFetch
<1>6. \A e \in Waiting : vcall[e].at = "wait"
  BY DEF Waiting
<1> QED BY <1>2, <1>3, <1>5, <1>6

LEMMA VaultStep == VaultInv /\ [VaultNext]_vaultVars => VaultInv'
<1> SUFFICES ASSUME VaultInv, [VaultNext]_vaultVars PROVE VaultInv'
  OBVIOUS
<1>t. /\ caching \in BOOLEAN
      /\ secretOf \in VaultCalls \cup {NoCall}
      /\ vcall \in [VaultCalls -> CallRecords]
      /\ vtoken \in [VaultCalls -> {"none", "unknown", "live", "revoked"}]
      /\ cleanup \in [VaultCalls -> {"none", "armed", "triggered", "ok", "failed"}]
  BY VaultTypes DEF VaultInv
<1>i. VaultTypeOK /\ ServedInv /\ \A e \in VaultCalls : VaultCallInv(e)
  BY DEF VaultInv
<1>1. ASSUME NEW c \in VaultCalls, RefuseDelegation(c) PROVE VaultInv'
  <2>1. /\ vcall[c].at = "idle" /\ Goes(c, "denied") /\ caching' = caching /\ secretOf' = secretOf
        /\ vtoken' = vtoken /\ cleanup' = cleanup
    BY <1>1 DEF RefuseDelegation
  <2>2. /\ vcall' \in [VaultCalls -> CallRecords] /\ vcall'[c].at = "denied"
        /\ \A e \in VaultCalls \ {c} : vcall'[e] = vcall[e]
    BY <1>i, <2>1, CallGoes, CallStepsAre
  <2>3. VaultTypeOK'
    BY <1>t, <2>1, <2>2 DEF VaultTypeOK, CallRecords, CallSteps
  <2>4. \A e \in VaultCalls : VaultCallInv(e)'
    BY <1>i, <2>1, <2>2 DEF VaultCallInv
  <2>5. ServedInv'
    BY <1>i, <2>1, <2>2 DEF ServedInv
  <2> QED BY <2>3, <2>4, <2>5 DEF VaultInv
<1>2. ASSUME NEW c \in VaultCalls, StartDelegation(c) PROVE VaultInv'
  <2>1. /\ vcall[c].at = "idle" /\ caching' = caching /\ secretOf' = secretOf
        /\ vtoken' = vtoken /\ cleanup' = cleanup
    BY <1>2 DEF StartDelegation
  <2>2. /\ vcall' \in [VaultCalls -> CallRecords]
        /\ \A e \in VaultCalls \ {c} : vcall'[e] = vcall[e]
        /\ \/ vcall'[c].at \in {"wait", "login"}
           \/ vcall'[c].at = "served" /\ secretOf # NoCall /\ vcall'[c].mint = secretOf
    <3>1. CASE caching /\ secretOf # NoCall
      <4>1. vcall' = [vcall EXCEPT ![c].at = "served", ![c].mint = secretOf]
        BY <1>2, <3>1 DEF StartDelegation
      <4> QED BY <1>t, <3>1, <4>1, CallStepsAre DEF CallRecords
    <3>2. CASE ~(caching /\ secretOf # NoCall)
      <4>1. Goes(c, "wait") \/ Goes(c, "login")
        BY <1>2, <3>2 DEF StartDelegation
      <4> QED BY <1>i, <4>1, CallGoes, CallStepsAre
    <3> QED BY <3>1, <3>2
  <2>3. VaultTypeOK'
    BY <1>t, <2>1, <2>2 DEF VaultTypeOK, CallRecords, CallSteps
  <2>4. \A e \in VaultCalls : VaultCallInv(e)'
    BY <1>i, <2>1, <2>2 DEF VaultCallInv
  <2>5. ServedInv'
    BY <1>i, <2>1, <2>2 DEF ServedInv
  <2> QED BY <2>3, <2>4, <2>5 DEF VaultInv
<1>3. ASSUME NEW c \in VaultCalls, LoginAnswered(c) PROVE VaultInv'
  <2>1. /\ vcall[c].at = "login" /\ Goes(c, "read") /\ caching' = caching /\ secretOf' = secretOf
        /\ vtoken' = [vtoken EXCEPT ![c] = "live"] /\ cleanup' = [cleanup EXCEPT ![c] = "armed"]
    BY <1>3 DEF LoginAnswered, LoggedIn
  <2>2. /\ vcall' \in [VaultCalls -> CallRecords] /\ vcall'[c].at = "read"
        /\ \A e \in VaultCalls \ {c} : vcall'[e] = vcall[e]
    BY <1>i, <2>1, CallGoes, CallStepsAre
  <2>3. VaultTypeOK'
    BY <1>t, <2>1, <2>2 DEF VaultTypeOK, CallRecords, CallSteps
  <2>4. \A e \in VaultCalls : VaultCallInv(e)'
    BY <1>t, <1>i, <2>1, <2>2 DEF VaultCallInv
  <2>5. ServedInv'
    BY <1>t, <1>i, <2>1, <2>2 DEF ServedInv, VaultCallInv
  <2> QED BY <2>3, <2>4, <2>5 DEF VaultInv
<1>4. ASSUME NEW c \in VaultCalls, LoginFails(c) PROVE VaultInv'
  <2>1. /\ vcall[c].at = "login" /\ EndFetch(c, "denied", NoCall) /\ caching' = caching
        /\ secretOf' = secretOf /\ cleanup' = cleanup
    BY <1>4 DEF LoginFails
  <2>2. PICK t \in {"none", "unknown"} : vtoken' = [vtoken EXCEPT ![c] = t]
    BY <1>4 DEF LoginFails
  <2>3. /\ vcall' \in [VaultCalls -> CallRecords]
        /\ \A e \in VaultCalls : \/ vcall'[e] = vcall[e] /\ e # c
                                 \/ (e = c \/ vcall[e].at = "wait") /\ vcall'[e].at = "denied"
    BY <1>i, <2>1, FetchEnds, CallStepsAre
  <2>4. VaultTypeOK'
    BY <1>t, <2>1, <2>2, <2>3 DEF VaultTypeOK, CallRecords, CallSteps
  <2>5. \A e \in VaultCalls : VaultCallInv(e)'
    BY <1>t, <1>i, <2>1, <2>2, <2>3 DEF VaultCallInv
  <2>6. ServedInv'
    BY <1>i, <2>1, <2>3 DEF ServedInv
  <2> QED BY <2>4, <2>5, <2>6 DEF VaultInv
<1>5. ASSUME NEW c \in VaultCalls, SecretRead(c) PROVE VaultInv'
  <2>1. /\ vcall[c].at = "read" /\ caching' = caching /\ secretOf' = secretOf /\ vtoken' = vtoken
        /\ cleanup' = [cleanup EXCEPT ![c] = "triggered"]
    BY <1>5 DEF SecretRead
  <2>2. PICK got \in {"failed", "secret"} : vcall' = [vcall EXCEPT ![c].at = "revoke", ![c].read = got]
    BY <1>5 DEF SecretRead
  <2>3. /\ vcall' \in [VaultCalls -> CallRecords] /\ vcall'[c].at = "revoke"
        /\ \A e \in VaultCalls \ {c} : vcall'[e] = vcall[e]
    BY <1>t, <2>2, CallStepsAre DEF CallRecords
  <2>4. VaultTypeOK'
    BY <1>t, <2>1, <2>3 DEF VaultTypeOK, CallRecords, CallSteps
  <2>5. \A e \in VaultCalls : VaultCallInv(e)'
    BY <1>t, <1>i, <2>1, <2>3 DEF VaultCallInv
  <2>6. ServedInv'
    BY <1>t, <1>i, <2>1, <2>3 DEF ServedInv, VaultCallInv
  <2> QED BY <2>4, <2>5, <2>6 DEF VaultInv
<1>6. ASSUME NEW c \in VaultCalls, Revokes(c) PROVE VaultInv'
  <2>1. /\ cleanup[c] = "triggered" /\ caching' = caching /\ secretOf' = secretOf /\ vcall' = vcall
    BY <1>6 DEF Revokes
  <2>2. PICK end \in {"ok", "failed"}, t \in {"live", "revoked"} :
            /\ cleanup' = [cleanup EXCEPT ![c] = end] /\ vtoken' = [vtoken EXCEPT ![c] = t]
            /\ end = "ok" => t = "revoked"
    BY <1>6 DEF Revokes
  <2>3. VaultTypeOK'
    BY <1>t, <2>1, <2>2 DEF VaultTypeOK, CallRecords, CallSteps
  <2>4. \A e \in VaultCalls : VaultCallInv(e)'
    BY <1>t, <1>i, <2>1, <2>2 DEF VaultCallInv
  <2>5. ServedInv'
    BY <1>t, <1>i, <2>1, <2>2 DEF ServedInv
  <2> QED BY <2>3, <2>4, <2>5 DEF VaultInv
<1>7. ASSUME NEW c \in VaultCalls, RevocationEnds(c) PROVE VaultInv'
  <2>1. vcall[c].at = "revoke" /\ caching' = caching /\ vtoken' = vtoken /\ cleanup' = cleanup
    BY <1>7 DEF RevocationEnds
  <2>2. PICK step \in {"served", "denied"}, mint \in VaultCalls \cup {NoCall} :
            /\ EndFetch(c, step, mint)
            /\ secretOf' \in {secretOf, mint}
            /\ step = "served" => mint = c /\ cleanup[c] = "ok"
            /\ step = "denied" => secretOf' = secretOf
    BY <1>7 DEF RevocationEnds, MayServe
  <2>3. /\ vcall' \in [VaultCalls -> CallRecords]
        /\ \A e \in VaultCalls : \/ vcall'[e] = vcall[e] /\ e # c
                                 \/ /\ e = c \/ vcall[e].at = "wait"
                                    /\ vcall'[e].at = step /\ vcall'[e].mint = mint
    BY <1>i, <2>2, FetchEnds, CallStepsAre
  <2>4. VaultTypeOK'
    BY <1>t, <2>1, <2>2, <2>3 DEF VaultTypeOK, CallRecords, CallSteps
  <2>5. \A e \in VaultCalls : VaultCallInv(e)'
    BY <1>i, <2>1, <2>2, <2>3 DEF VaultCallInv
  <2>6. ServedInv'
    BY <1>i, <2>1, <2>2, <2>3 DEF ServedInv
  <2> QED BY <2>4, <2>5, <2>6 DEF VaultInv
<1>8. ASSUME NEW c \in VaultCalls, DelegationCancelled(c) PROVE VaultInv'
  <2>1. /\ vcall[c].at \in {"wait", "login", "read", "revoke"}
        /\ caching' = caching /\ secretOf' = secretOf
        /\ cleanup' = [cleanup EXCEPT ![c] = IF @ = "armed" THEN "triggered" ELSE @]
    BY <1>8 DEF DelegationCancelled
  <2>2. PICK t \in {"none", "unknown", "live", "revoked"} :
            /\ vtoken' = [vtoken EXCEPT ![c] = t]
            /\ IF vcall[c].at = "login" THEN t \in {"none", "unknown"} ELSE t = vtoken[c]
    BY <1>t, <1>8 DEF DelegationCancelled
  <2>3. /\ vcall' \in [VaultCalls -> CallRecords] /\ vcall'[c].at = "dropped"
        /\ \A e \in VaultCalls \ {c} :
              vcall'[e] = vcall[e] \/ (vcall[e].at = "wait" /\ vcall'[e].at = "login")
    <3>1. CASE c \in Leading /\ Waiting # {}
      <4>1. PICK e \in Waiting : vcall' = [vcall EXCEPT ![c].at = "dropped", ![e].at = "login"]
        BY <1>8, <3>1 DEF DelegationCancelled
      <4>2. e \in VaultCalls /\ vcall[e].at = "wait" /\ e # c
        BY <3>1 DEF Waiting, Leading
      <4> QED BY <1>t, <4>1, <4>2, CallStepsAre DEF CallRecords
    <3>2. CASE ~(c \in Leading /\ Waiting # {})
      <4>1. Goes(c, "dropped")
        BY <1>8, <3>2 DEF DelegationCancelled
      <4> QED BY <1>i, <4>1, CallGoes, CallStepsAre
    <3> QED BY <3>1, <3>2
  <2>4. VaultTypeOK'
    BY <1>t, <2>1, <2>2, <2>3 DEF VaultTypeOK, CallRecords, CallSteps
  <2>5. \A e \in VaultCalls : VaultCallInv(e)'
    BY <1>t, <1>i, <2>1, <2>2, <2>3 DEF VaultCallInv
  <2>6. ServedInv'
    BY <1>t, <1>i, <2>1, <2>3 DEF ServedInv
  <2> QED BY <2>4, <2>5, <2>6 DEF VaultInv
<1>9. CASE CredentialRetired
  BY <1>t, <1>i, <1>9 DEF CredentialRetired, VaultInv, VaultTypeOK, ServedInv, VaultCallInv
<1>10. CASE UNCHANGED vaultVars
  BY <1>i, <1>10 DEF vaultVars, VaultInv, VaultTypeOK, ServedInv, VaultCallInv
<1> QED BY <1>1, <1>2, <1>3, <1>4, <1>5, <1>6, <1>7, <1>8, <1>9, <1>10 DEF VaultNext

LEMMA VaultInvariant == VaultSpec => []VaultInv
<1>1. VaultInit => VaultInv
  BY DEF VaultInit, VaultInv, VaultTypeOK, ServedInv, VaultCallInv, Ended
<1> QED BY <1>1, VaultStep, PTL DEF VaultSpec

\* A login token is owned until it is revoked, and nothing read with it is given
\* out before: for any number of delegations, with the cache or without.
THEOREM RevokedOrOwnedHolds == VaultSpec => []RevokedOrOwned
<1>1. VaultInv => RevokedOrOwned
  BY DEF VaultInv, ServedInv, VaultCallInv, RevokedOrOwned, NoTokenAbandoned,
         ServedMeansRevoked, ReadsWithItsToken
<1> QED BY <1>1, VaultInvariant, PTL

\* Every variable of the delegator keeps its type.
THEOREM VaultTypeCorrect == VaultSpec => []VaultTypeOK
<1>1. VaultInv => VaultTypeOK
  BY DEF VaultInv
<1> QED BY <1>1, VaultInvariant, PTL

-----------------------------------------------------------------------------
(* TokenCache: TokensShared.  A call that found nothing to serve is handed *)
(* what is minted after it began: until the next exchange ends there is no *)
(* entry it could be given.  What is served from the map has a window that *)
(* ends by the floor before the ceiling.                                   *)

Tokens == [minted : 0 .. MaxWall, expires : Nat, window : Nat, retires : Nat, here : BOOLEAN]
DeleSteps == {"idle", "stale", "miss", "mint", "wait", "done", "failed"}
DeleRecords == [at : DeleSteps, began : Nat, got : Tokens, when : Nat]

LookingInv(d) ==
    /\ dele[d].at \in {"stale", "miss", "mint", "wait"} => dele[d].began <= wall
    /\ dele[d].at \in {"miss", "mint", "wait"} => (Unretired => entry.minted >= dele[d].began)

HandedInv(d) ==
    dele[d].at = "done" /\ dele[d].got.minted < dele[d].began =>
        /\ dele[d].when + FloorSeconds <= dele[d].got.minted + TtlCeiling
        /\ dele[d].when + FloorSeconds <= dele[d].got.expires

TokenInv ==
    /\ TokenTypeOK
    /\ entry.window > 0 => entry.window + FloorSeconds <= TtlCeiling
    /\ \A d \in Delegations : LookingInv(d) /\ HandedInv(d)
    /\ WaitersHaveALeader

LEMMA TokenTypes ==
    TokenTypeOK <=>
        /\ mono \in 0 .. MaxWall /\ wall \in mono .. MaxWall
        /\ entry \in Tokens /\ dele \in [Delegations -> DeleRecords]
BY DEF TokenTypeOK, Tokens, DeleRecords, DeleSteps

LEMMA DeleStepsAre ==
    /\ "idle" \in DeleSteps /\ "stale" \in DeleSteps /\ "miss" \in DeleSteps /\ "mint" \in DeleSteps
    /\ "wait" \in DeleSteps /\ "done" \in DeleSteps /\ "failed" \in DeleSteps
BY DEF DeleSteps

LEMMA NoTokenType == NoToken \in Tokens /\ NoToken.here = FALSE /\ NoToken.window = 0
<1>1. 0 \in 0 .. MaxWall
  BY TokenCacheAssumption
<1> QED BY <1>1 DEF NoToken, Tokens

\* serve_window: the margin is at least the floor.
LEMMA ServeWindowShort ==
    ASSUME NEW lifetime \in Lifetimes, NEW jitter \in Jitters
    PROVE  /\ ServeWindow(lifetime, jitter) \in Nat
           /\ ServeWindow(lifetime, jitter) > 0 =>
                  ServeWindow(lifetime, jitter) + FloorSeconds <= TtlCeiling
<1> DEFINE capped == Least(lifetime, TtlCeiling)
           fractional == (capped * FractionPercent) \div 100
<1>1. /\ capped \in Nat /\ capped <= TtlCeiling /\ TtlCeiling \in Nat /\ FloorSeconds \in Nat
      /\ jitter \in Nat /\ FractionPercent \in Nat
  BY TokenCacheAssumption DEF Least
<1> HIDE DEF capped
<1>2. capped * FractionPercent \in Nat
  BY <1>1
<1>3. PICK product \in Nat : product = capped * FractionPercent
  BY <1>2
<1>4. fractional \in Nat
  <2>1. product \div 100 \in Nat
    OBVIOUS
  <2> QED BY <1>3, <2>1
<1> HIDE DEF fractional
<1>5. PICK margin \in Nat : /\ margin = (IF fractional > FloorSeconds THEN fractional ELSE FloorSeconds) + jitter
                            /\ margin >= FloorSeconds
  BY <1>1, <1>4
<1>6. ServeWindow(lifetime, jitter) = IF capped > margin THEN capped - margin ELSE 0
  BY <1>5 DEF ServeWindow, capped, fractional
<1> QED BY <1>1, <1>5, <1>6

LEMMA HandedOut ==
    ASSUME NEW d \in Delegations, dele[d] \in DeleRecords, NEW t \in Tokens, wall \in Nat
    PROVE  /\ HandsOut(d, t) \in DeleRecords
           /\ HandsOut(d, t).at = "done" /\ HandsOut(d, t).got = t /\ HandsOut(d, t).when = wall
           /\ HandsOut(d, t).began = dele[d].began
BY DeleStepsAre DEF HandsOut, DeleRecords

\* Whoever minted mints on, and nobody new waits.
LEMMA SameLeader ==
    ASSUME WaitersHaveALeader,
           \A e \in Delegations : /\ dele'[e].at = "mint" <=> dele[e].at = "mint"
                                  /\ dele'[e].at = "wait" => dele[e].at = "wait"
    PROVE  WaitersHaveALeader'
BY DEF WaitersHaveALeader, Minting

\* A call that is where it was.
LEMMA SameDele ==
    ASSUME NEW e \in Delegations, dele'[e] = dele[e], wall' = wall, mono' = mono,
           entry' = entry, LookingInv(e), HandedInv(e)
    PROVE  LookingInv(e)' /\ HandedInv(e)'
BY DEF LookingInv, HandedInv, Unretired

LEMMA TokenLookStep ==
    ASSUME TokenInv, NEW d \in Delegations, ReadsCache(d) \/ Invalidates(d) \/ Coalesces(d)
    PROVE  TokenInv'
<1> USE TokenCacheAssumption
<1>t. /\ mono \in 0 .. MaxWall /\ wall \in mono .. MaxWall /\ wall \in Nat /\ mono \in Nat
      /\ entry \in Tokens /\ dele \in [Delegations -> DeleRecords] /\ dele[d] \in DeleRecords
  BY TokenTypes DEF TokenInv
<1>i. /\ entry.window > 0 => entry.window + FloorSeconds <= TtlCeiling
      /\ \A e \in Delegations : LookingInv(e) /\ HandedInv(e)
      /\ WaitersHaveALeader
  BY DEF TokenInv
<1>n. entry.minted \in Nat /\ entry.window \in Nat /\ entry.expires \in Nat
  BY <1>t DEF Tokens
<1>1. CASE ReadsCache(d)
  <2>1. mono' = mono /\ wall' = wall /\ entry' = entry /\ dele[d].at \in {"idle", "done", "failed"}
    BY <1>1 DEF ReadsCache
  <2>2. PICK begun \in DeleRecords : begun = [IdleDele EXCEPT !.began = wall] /\ begun.began = wall
    <3>1. IdleDele \in DeleRecords
      BY NoTokenType, DeleStepsAre DEF IdleDele, DeleRecords
    <3>2. PICK i \in DeleRecords : i = IdleDele
      BY <3>1
    <3>3. [i EXCEPT !.began = wall] \in DeleRecords /\ [i EXCEPT !.began = wall].began = wall
      BY <1>t DEF DeleRecords
    <3> QED BY <3>2, <3>3
  <2>3. PICK h \in DeleRecords : /\ h = [HandsOut(d, entry) EXCEPT !.began = wall]
                                 /\ h.at = "done" /\ h.got = entry /\ h.when = wall /\ h.began = wall
    <3>1. PICK i \in DeleRecords : /\ i = HandsOut(d, entry)
                                   /\ i.at = "done" /\ i.got = entry /\ i.when = wall
      BY <1>t, HandedOut
    <3> DEFINE j == [i EXCEPT !.began = wall]
    <3>2. j \in DeleRecords /\ j.at = "done" /\ j.got = entry /\ j.when = wall /\ j.began = wall
      BY <1>t, <3>1 DEF DeleRecords
    <3> QED BY <3>1, <3>2
  <2>4. PICK r \in DeleRecords :
            /\ dele' = [dele EXCEPT ![d] = r]
            /\ \/ r.at = "miss" /\ r.began = wall /\ ~Unretired
               \/ r.at = "stale" /\ r.began = wall
               \/ r = h /\ IsServableNow(entry)
    <3>1. [begun EXCEPT !.at = "miss"] \in DeleRecords /\ [begun EXCEPT !.at = "miss"].at = "miss"
          /\ [begun EXCEPT !.at = "miss"].began = wall
      BY <2>2, DeleStepsAre DEF DeleRecords
    <3>2. [begun EXCEPT !.at = "stale"] \in DeleRecords /\ [begun EXCEPT !.at = "stale"].at = "stale"
          /\ [begun EXCEPT !.at = "stale"].began = wall
      BY <2>2, DeleStepsAre DEF DeleRecords
    <3>3. dele' = [dele EXCEPT ![d] = IF ~Unretired THEN [begun EXCEPT !.at = "miss"]
                                      ELSE IF IsServableNow(entry) THEN h
                                           ELSE [begun EXCEPT !.at = "stale"]]
      BY <1>1, <2>2, <2>3 DEF ReadsCache
    <3> QED BY <2>3, <3>1, <3>2, <3>3
  <2>5. dele' \in [Delegations -> DeleRecords] /\ dele'[d] = r
        /\ \A e \in Delegations \ {d} : dele'[e] = dele[e]
    BY <1>t, <2>4
  <2>6. TokenTypeOK'
    BY <1>t, <2>1, <2>5, TokenTypes DEF TokenTypeOK, Tokens, DeleRecords, DeleSteps
  <2>7. WaitersHaveALeader'
    <3>1. r.at # "mint" /\ r.at # "wait"
      BY <2>3, <2>4
    <3> QED BY <1>i, <2>1, <2>5, <3>1, SameLeader
  <2>8. LookingInv(d)'
    <3>1. CASE r.at = "miss" /\ r.began = wall /\ ~Unretired
      BY <1>t, <2>1, <2>5, <3>1 DEF LookingInv, Unretired
    <3>2. CASE r.at = "stale" /\ r.began = wall
      BY <1>t, <2>1, <2>5, <3>2 DEF LookingInv
    <3>3. CASE r = h
      BY <2>3, <2>5, <3>3 DEF LookingInv
    <3> QED BY <2>4, <3>1, <3>2, <3>3
  <2>9. HandedInv(d)'
    <3>1. CASE r = h /\ IsServableNow(entry)
      BY <1>t, <1>i, <1>n, <2>3, <2>5, <3>1 DEF HandedInv, IsServableNow
    <3>2. CASE r.at # "done"
      BY <2>5, <3>2 DEF HandedInv
    <3> QED BY <2>4, <3>1, <3>2
  <2>10. \A e \in Delegations : LookingInv(e)' /\ HandedInv(e)'
    BY <1>i, <2>1, <2>5, <2>8, <2>9, SameDele
  <2> QED BY <1>i, <2>1, <2>6, <2>7, <2>10 DEF TokenInv
<1>2. CASE Invalidates(d)
  <2>1. /\ mono' = mono /\ wall' = wall /\ entry' = NoToken /\ dele[d].at = "stale"
        /\ dele' = [dele EXCEPT ![d].at = "miss"]
    BY <1>2 DEF Invalidates, Moves
  <2>2. /\ dele' \in [Delegations -> DeleRecords] /\ dele'[d].at = "miss"
        /\ dele'[d].began = dele[d].began
        /\ \A e \in Delegations \ {d} : dele'[e] = dele[e]
    BY <1>t, <2>1, DeleStepsAre DEF DeleRecords
  <2>3. TokenTypeOK'
    BY <1>t, <2>1, <2>2, NoTokenType DEF TokenTypeOK, Tokens, DeleRecords, DeleSteps
  <2>4. ~Unretired' /\ ~(entry'.window > 0)
    BY <2>1, NoTokenType DEF Unretired
  <2>5. WaitersHaveALeader'
    BY <1>i, <2>1, <2>2, SameLeader
  <2>6. \A e \in Delegations : LookingInv(e)'
    BY <1>i, <2>1, <2>2, <2>4 DEF LookingInv
  <2>7. \A e \in Delegations : HandedInv(e)'
    BY <1>i, <2>1, <2>2 DEF HandedInv
  <2> QED BY <2>3, <2>4, <2>5, <2>6, <2>7 DEF TokenInv
<1>3. CASE Coalesces(d)
  <2>1. /\ mono' = mono /\ wall' = wall /\ entry' = entry /\ dele[d].at = "miss"
    BY <1>3 DEF Coalesces
  <2>2. PICK r \in DeleRecords :
            /\ dele' = [dele EXCEPT ![d] = r]
            /\ r.began = dele[d].began
            /\ \/ Unretired /\ r.at = "done" /\ r.got = entry
               \/ ~Unretired /\ r.at = "mint" /\ Minting = {}
               \/ ~Unretired /\ r.at = "wait" /\ Minting # {}
    <3>1. CASE Unretired
      <4>1. dele' = [dele EXCEPT ![d] = HandsOut(d, entry)]
        BY <1>3, <3>1 DEF Coalesces
      <4> QED BY <1>t, <3>1, <4>1, HandedOut
    <3>2. CASE ~Unretired
      <4> DEFINE step == IF Minting = {} THEN "mint" ELSE "wait"
                 r == [dele[d] EXCEPT !.at = step]
      <4>1. dele' = [dele EXCEPT ![d] = r]
        BY <1>3, <3>2 DEF Coalesces
      <4>2. r \in DeleRecords /\ r.at = step /\ r.began = dele[d].began
        BY <1>t, DeleStepsAre DEF DeleRecords
      <4> QED BY <3>2, <4>1, <4>2
    <3> QED BY <3>1, <3>2
  <2>3. /\ dele' \in [Delegations -> DeleRecords] /\ dele'[d] = r
        /\ \A e \in Delegations \ {d} : dele'[e] = dele[e]
    BY <1>t, <2>2
  <2>4. TokenTypeOK'
    BY <1>t, <2>1, <2>3 DEF TokenTypeOK, Tokens, DeleRecords, DeleSteps
  <2>5. WaitersHaveALeader'
    <3>1. CASE r.at = "done"
      BY <1>i, <2>1, <2>3, <3>1, SameLeader
    <3>2. CASE r.at = "mint" /\ Minting = {}
      BY <2>3, <3>2 DEF WaitersHaveALeader, Minting
    <3>3. CASE r.at = "wait" /\ Minting # {}
      BY <1>i, <2>1, <2>3, <3>3 DEF WaitersHaveALeader, Minting
    <3> QED BY <2>2, <3>1, <3>2, <3>3
  <2>6. LookingInv(d)'
    BY <1>i, <2>1, <2>2, <2>3 DEF LookingInv, Unretired
  <2>7. HandedInv(d)'
    <3>1. CASE r.at = "done" /\ r.got = entry /\ Unretired
      <4>1. entry.minted >= dele[d].began /\ dele[d].began \in Nat
        BY <1>t, <1>i, <2>1, <3>1 DEF LookingInv, DeleRecords
      <4> QED BY <1>n, <2>2, <2>3, <3>1, <4>1 DEF HandedInv
    <3>2. CASE r.at # "done"
      BY <2>3, <3>2 DEF HandedInv
    <3> QED BY <2>2, <3>1, <3>2
  <2>8. \A e \in Delegations : LookingInv(e)' /\ HandedInv(e)'
    BY <1>i, <2>1, <2>3, <2>6, <2>7, SameDele
  <2> QED BY <1>i, <2>1, <2>4, <2>5, <2>8 DEF TokenInv
<1> QED BY <1>1, <1>2, <1>3

LEMMA TokenMintStep ==
    ASSUME TokenInv, NEW d \in Delegations, MintSucceeds(d) \/ MintFails(d) \/ DelegationDropped(d)
    PROVE  TokenInv'
<1> USE TokenCacheAssumption
<1>t. /\ mono \in 0 .. MaxWall /\ wall \in mono .. MaxWall /\ wall \in Nat /\ mono \in Nat
      /\ entry \in Tokens /\ dele \in [Delegations -> DeleRecords]
      /\ \A e \in Delegations : dele[e] \in DeleRecords
  BY TokenTypes DEF TokenInv
<1>i. /\ entry.window > 0 => entry.window + FloorSeconds <= TtlCeiling
      /\ \A e \in Delegations : LookingInv(e) /\ HandedInv(e)
      /\ WaitersHaveALeader
  BY DEF TokenInv
<1>1. CASE MintSucceeds(d)
  <2>1. mono' = mono /\ wall' = wall /\ dele[d].at = "mint"
    BY <1>1 DEF MintSucceeds
  <2>2. PICK lifetime \in Lifetimes, jitter \in Jitters :
            /\ entry' = [minted |-> wall, expires |-> wall + lifetime,
                         window |-> ServeWindow(lifetime, jitter),
                         retires |-> mono + ServeWindow(lifetime, jitter), here |-> TRUE]
            /\ dele' = [e \in Delegations |->
                          IF e = d \/ dele[e].at = "wait" THEN HandsOut(e, entry') ELSE dele[e]]
    BY <1>1 DEF MintSucceeds
  <2>3. PICK w \in Nat : w = ServeWindow(lifetime, jitter) /\ (w > 0 => w + FloorSeconds <= TtlCeiling)
    BY ServeWindowShort
  <2>4. PICK t \in Tokens : t = entry' /\ t.minted = wall /\ t.window = w
    <3>1. /\ wall \in 0 .. MaxWall /\ wall + lifetime \in Nat /\ mono + w \in Nat
      BY <1>t
    <3>2. entry' = [minted |-> wall, expires |-> wall + lifetime, window |-> w,
                    retires |-> mono + w, here |-> TRUE]
      BY <2>2, <2>3
    <3>3. entry' \in Tokens
      BY <3>1, <3>2 DEF Tokens
    <3>4. entry'.minted = wall /\ entry'.window = w
      BY <3>2
    <3> QED BY <3>3, <3>4
  <2>5. \A e \in Delegations :
            /\ HandsOut(e, t) \in DeleRecords
            /\ HandsOut(e, t).at = "done" /\ HandsOut(e, t).got = t
            /\ HandsOut(e, t).began = dele[e].began
    BY <1>t, HandedOut
  <2>6. dele' = [e \in Delegations |-> IF e = d \/ dele[e].at = "wait" THEN HandsOut(e, t) ELSE dele[e]]
    BY <2>2, <2>4
  <2>7. \A e \in Delegations :
            \/ /\ e = d \/ dele[e].at = "wait"
               /\ dele'[e].at = "done" /\ dele'[e].got = t /\ dele'[e].began = dele[e].began
            \/ e # d /\ dele[e].at # "wait" /\ dele'[e] = dele[e]
    BY <2>5, <2>6
  <2>8. dele' \in [Delegations -> DeleRecords]
    BY <1>t, <2>5, <2>6
  <2>9. TokenTypeOK'
    BY <1>t, <2>1, <2>4, <2>8 DEF TokenTypeOK, Tokens, DeleRecords, DeleSteps
  <2>10. entry'.window > 0 => entry'.window + FloorSeconds <= TtlCeiling
    BY <2>3, <2>4
  <2>11. WaitersHaveALeader'
    <3>1. \A e \in Delegations : dele'[e].at # "wait" /\ (dele'[e].at = "mint" => FALSE)
      BY <1>i, <2>1, <2>7 DEF WaitersHaveALeader, Minting
    <3> QED BY <3>1 DEF WaitersHaveALeader, Minting
  <2>12. ASSUME NEW e \in Delegations PROVE LookingInv(e)' /\ HandedInv(e)'
    <3>1. dele[e].began \in Nat
      BY <1>t DEF DeleRecords
    <3>2. CASE dele'[e].at = "done" /\ dele'[e].got = t /\ dele'[e].began = dele[e].began
               /\ (e = d \/ dele[e].at = "wait")
      <4>1. dele[e].began <= wall
        BY <1>i, <2>1, <3>2 DEF LookingInv
      <4> QED BY <1>t, <2>4, <3>1, <3>2, <4>1 DEF LookingInv, HandedInv
    <3>3. CASE dele'[e] = dele[e]
      <4>1. LookingInv(e) /\ HandedInv(e)
        BY <1>i
      <4>2. HandedInv(e)'
        BY <3>3, <4>1 DEF HandedInv
      <4>3. LookingInv(e)'
        BY <1>t, <2>1, <2>4, <3>1, <3>3, <4>1 DEF LookingInv
      <4> QED BY <4>2, <4>3
    <3> QED BY <2>7, <3>2, <3>3
  <2> QED BY <2>9, <2>10, <2>11, <2>12 DEF TokenInv
<1>2. CASE MintFails(d)
  <2>1. /\ mono' = mono /\ wall' = wall /\ entry' = entry /\ dele[d].at = "mint"
        /\ dele' = [e \in Delegations |-> IF e \in FailedWith(d)
                                          THEN [dele[e] EXCEPT !.at = "failed"] ELSE dele[e]]
    BY <1>2 DEF MintFails
  <2>2. \A e \in Delegations : /\ [dele[e] EXCEPT !.at = "failed"] \in DeleRecords
                               /\ [dele[e] EXCEPT !.at = "failed"].at = "failed"
    BY <1>t, DeleStepsAre DEF DeleRecords
  <2>3. /\ dele' \in [Delegations -> DeleRecords]
        /\ \A e \in Delegations :
              \/ (e = d \/ dele[e].at = "wait") /\ dele'[e].at = "failed"
              \/ e # d /\ dele[e].at # "wait" /\ dele'[e] = dele[e]
    BY <1>t, <2>1, <2>2 DEF FailedWith
  <2>4. TokenTypeOK'
    BY <1>t, <2>1, <2>3 DEF TokenTypeOK, Tokens, DeleRecords, DeleSteps
  <2>5. WaitersHaveALeader'
    <3>1. \A e \in Delegations : dele'[e].at # "wait" /\ (dele'[e].at = "mint" => FALSE)
      BY <1>i, <2>1, <2>3 DEF WaitersHaveALeader, Minting
    <3> QED BY <3>1 DEF WaitersHaveALeader, Minting
  <2>6. \A e \in Delegations : LookingInv(e)' /\ HandedInv(e)'
    BY <1>i, <2>1, <2>3 DEF LookingInv, HandedInv, Unretired
  <2> QED BY <1>i, <2>1, <2>4, <2>5, <2>6 DEF TokenInv
<1>3. CASE DelegationDropped(d)
  <2>1. /\ mono' = mono /\ wall' = wall /\ entry' = entry
        /\ dele[d].at \in {"stale", "miss", "mint", "wait"}
        /\ dele' = [e \in Delegations |->
                      IF e = d THEN [dele[e] EXCEPT !.at = "failed"]
                      ELSE IF dele[d].at = "mint" /\ dele[e].at = "wait"
                           THEN [dele[e] EXCEPT !.at = "miss"] ELSE dele[e]]
    BY <1>3 DEF DelegationDropped
  <2>2. \A e \in Delegations : /\ [dele[e] EXCEPT !.at = "failed"] \in DeleRecords
                               /\ [dele[e] EXCEPT !.at = "failed"].at = "failed"
                               /\ [dele[e] EXCEPT !.at = "miss"] \in DeleRecords
                               /\ [dele[e] EXCEPT !.at = "miss"].at = "miss"
                               /\ [dele[e] EXCEPT !.at = "miss"].began = dele[e].began
    BY <1>t, DeleStepsAre DEF DeleRecords
  <2>3. /\ dele' \in [Delegations -> DeleRecords] /\ dele'[d].at = "failed"
        /\ \A e \in Delegations \ {d} :
              \/ /\ dele[d].at = "mint" /\ dele[e].at = "wait"
                 /\ dele'[e].at = "miss" /\ dele'[e].began = dele[e].began
              \/ (dele[d].at # "mint" \/ dele[e].at # "wait") /\ dele'[e] = dele[e]
    BY <1>t, <2>1, <2>2
  <2>4. TokenTypeOK'
    BY <1>t, <2>1, <2>3 DEF TokenTypeOK, Tokens, DeleRecords, DeleSteps
  <2>5. WaitersHaveALeader'
    <3>1. CASE dele[d].at = "mint"
      <4>1. \A e \in Delegations : dele'[e].at # "wait" /\ (dele'[e].at = "mint" => FALSE)
        BY <1>i, <2>3, <3>1 DEF WaitersHaveALeader, Minting
      <4> QED BY <4>1 DEF WaitersHaveALeader, Minting
    <3>2. CASE dele[d].at # "mint"
      <4>1. \A e \in Delegations : /\ dele'[e].at = "mint" <=> dele[e].at = "mint"
                                   /\ dele'[e].at = "wait" => dele[e].at = "wait"
        BY <2>3, <3>2
      <4> QED BY <1>i, <4>1, SameLeader
    <3> QED BY <3>1, <3>2
  <2>6. \A e \in Delegations : LookingInv(e)' /\ HandedInv(e)'
    BY <1>i, <2>1, <2>3 DEF LookingInv, HandedInv, Unretired
  <2> QED BY <1>i, <2>1, <2>4, <2>5, <2>6 DEF TokenInv
<1> QED BY <1>1, <1>2, <1>3

\* The clocks and evictions only take an entry away.
LEMMA TokenClockStep ==
    ASSUME TokenInv, SecondPasses \/ HostSuspends \/ EntryEvicted \/ UNCHANGED tokenVars
    PROVE  TokenInv'
<1> USE TokenCacheAssumption
<1>t. /\ mono \in 0 .. MaxWall /\ wall \in mono .. MaxWall /\ wall \in Nat /\ mono \in Nat
      /\ entry \in Tokens /\ dele \in [Delegations -> DeleRecords]
  BY TokenTypes DEF TokenInv
<1>i. /\ entry.window > 0 => entry.window + FloorSeconds <= TtlCeiling
      /\ \A e \in Delegations : LookingInv(e) /\ HandedInv(e)
      /\ WaitersHaveALeader
  BY DEF TokenInv
<1>1. /\ mono' \in 0 .. MaxWall /\ wall' \in mono' .. MaxWall
      /\ mono <= mono' /\ wall <= wall' /\ dele' = dele
      /\ entry' = entry \/ entry' = NoToken
  BY <1>t DEF SecondPasses, HostSuspends, EntryEvicted, tokenVars
<1>2. /\ entry' \in Tokens
      /\ Unretired' => Unretired /\ entry' = entry
      /\ entry'.window > 0 => entry'.window + FloorSeconds <= TtlCeiling
  <2>1. CASE entry' = entry
    <3>1. entry.retires \in Nat /\ mono' \in Nat
      BY <1>t, <1>1 DEF Tokens
    <3> QED BY <1>t, <1>i, <1>1, <2>1, <3>1 DEF Unretired
  <2>2. CASE entry' = NoToken
    BY <2>2, NoTokenType DEF Unretired
  <2> QED BY <1>1, <2>1, <2>2
<1>3. TokenTypeOK'
  BY <1>t, <1>1, <1>2 DEF TokenTypeOK, Tokens, DeleRecords, DeleSteps
<1>4. WaitersHaveALeader'
  BY <1>i, <1>1, SameLeader
<1>5. ASSUME NEW e \in Delegations PROVE LookingInv(e)' /\ HandedInv(e)'
  <2>1. dele[e].began \in Nat /\ LookingInv(e) /\ HandedInv(e) /\ wall' \in Nat
    BY <1>t, <1>i, <1>1 DEF DeleRecords
  <2>2. HandedInv(e)'
    BY <1>1, <2>1 DEF HandedInv
  <2>3. LookingInv(e)'
    BY <1>t, <1>1, <1>2, <2>1 DEF LookingInv
  <2> QED BY <2>2, <2>3
<1> QED BY <1>2, <1>3, <1>4, <1>5 DEF TokenInv

LEMMA TokenInvariant == TokenSpec => []TokenInv
<1>1. TokenInit => TokenInv
  <2> SUFFICES ASSUME TokenInit PROVE TokenInv
    OBVIOUS
  <2>1. /\ mono = 0 /\ wall = 0 /\ entry = NoToken
        /\ \A d \in Delegations : dele[d] = IdleDele /\ IdleDele.at = "idle"
        /\ dele = [d \in Delegations |-> IdleDele]
    BY DEF TokenInit, IdleDele
  <2>2. IdleDele \in DeleRecords
    BY NoTokenType, DeleStepsAre DEF IdleDele, DeleRecords
  <2>3. TokenTypeOK
    BY <2>1, <2>2, NoTokenType, TokenTypes, TokenCacheAssumption
  <2>4. \A d \in Delegations : LookingInv(d) /\ HandedInv(d)
    BY <2>1 DEF LookingInv, HandedInv
  <2>5. WaitersHaveALeader
    BY <2>1 DEF WaitersHaveALeader, Minting
  <2>6. ~(entry.window > 0)
    BY <2>1, NoTokenType
  <2> QED BY <2>3, <2>4, <2>5, <2>6 DEF TokenInv
<1>2. TokenInv /\ [TokenNext]_tokenVars => TokenInv'
  BY TokenLookStep, TokenMintStep, TokenClockStep DEF TokenNext
<1> QED BY <1>1, <1>2, PTL DEF TokenSpec

\* A shared token is handed out by the floor before its ceiling and its expiry,
\* and waiters have one exchange to wait for: for any configuration of the cache
\* validate accepts, any lifetimes and any suspends.
THEOREM TokensSharedHolds == TokenSpec => []TokensShared
<1>1. TokenInv => TokensShared
  BY DEF TokenInv, HandedInv, TokensShared, HandedOutInWindow
<1> QED BY <1>1, TokenInvariant, PTL

\* Every variable of the token cache keeps its type.
THEOREM TokenTypeCorrect == TokenSpec => []TokenTypeOK
<1>1. TokenInv => TokenTypeOK
  BY DEF TokenInv
<1> QED BY <1>1, TokenInvariant, PTL

-----------------------------------------------------------------------------
(* VaultSession: LoginsJustified.  The mutex is held by the reader whose   *)
(* step says so, and a session keeps the last generation.  A reader on its *)
(* second pass remembers a session whose token was refused, so that what   *)
(* it drops under the lock is a session with a token Vault does not        *)
(* honour, and the cause of the login is already counted.                  *)

HoldSteps == {"ensure", "renew", "login"}
ReaderSteps == {"idle", "lock", "ensure", "renew", "login", "read", "value", "forbidden", "failed"}
ReaderRecords == [at : ReaderSteps, gen : Nat, tok : Nat, first : Nat, refused : Nat,
                  pass : 1 .. 2, attempt : 0 .. 3, minted : Nat]
SessionRecords == [gen : Nat, tok : Nat, renewAt : Nat, renewable : BOOLEAN]

SessionBase ==
    /\ leaseClock \in 0 .. MaxLeaseClock /\ denies \in BOOLEAN
    /\ session \in SessionRecords
    /\ holder \in SecretReaders \cup {Free}
    /\ reader \in [SecretReaders -> ReaderRecords]
    /\ issued \in 0 .. MaxLogins /\ good \subseteq 1 .. issued
    /\ generations \in Nat /\ logins \in Nat /\ causes \in Nat

LatestInv ==
    /\ session = NoVaultSession \/ (session.gen = generations /\ generations >= 1)
    /\ session.tok <= issued

ReaderInv(r) ==
    /\ reader[r].at \in HoldSteps <=> holder = r
    /\ reader[r].gen <= generations /\ reader[r].tok <= issued
    /\ reader[r].gen = session.gen => reader[r].tok = session.tok
    /\ reader[r].gen = 0 => reader[r].tok = 0
    /\ reader[r].minted <= 1
    /\ reader[r].at = "login" => reader[r].minted = 0
    /\ reader[r].at = "read" => reader[r].gen >= 1
    /\ reader[r].pass = 2 =>
          /\ reader[r].at # "idle"
          /\ reader[r].at = "lock" => /\ reader[r].gen >= 1 /\ reader[r].first = reader[r].gen
                                      /\ ~denies => reader[r].tok \notin good
          /\ reader[r].at \in HoldSteps => /\ reader[r].gen >= 1 /\ reader[r].first = reader[r].gen
                                           /\ session.gen # reader[r].gen
          /\ reader[r].at = "read" => reader[r].gen > reader[r].first
    /\ reader[r].at = "forbidden" => reader[r].gen > reader[r].first

AtLogin == \E r \in SecretReaders : reader[r].at = "login"

CreditInv ==
    ~denies => /\ logins <= causes
               /\ session.tok \notin good /\ ~AtLogin => logins < causes

SessionInv ==
    /\ SessionBase /\ LatestInv /\ CreditInv
    /\ \A r \in SecretReaders : ReaderInv(r)

LEMMA ReaderStepsAre ==
    /\ "idle" \in ReaderSteps /\ "lock" \in ReaderSteps /\ "ensure" \in ReaderSteps
    /\ "renew" \in ReaderSteps /\ "login" \in ReaderSteps /\ "read" \in ReaderSteps
    /\ "value" \in ReaderSteps /\ "forbidden" \in ReaderSteps /\ "failed" \in ReaderSteps
    /\ "ensure" \in HoldSteps /\ "renew" \in HoldSteps /\ "login" \in HoldSteps
    /\ "idle" \notin HoldSteps /\ "lock" \notin HoldSteps /\ "read" \notin HoldSteps
    /\ "value" \notin HoldSteps /\ "forbidden" \notin HoldSteps /\ "failed" \notin HoldSteps
BY DEF ReaderSteps, HoldSteps

LEMMA NoSessionIs ==
    /\ NoVaultSession \in SessionRecords /\ NoVaultSession.gen = 0 /\ NoVaultSession.tok = 0
BY DEF NoVaultSession, SessionRecords

\* What a login or a renewal answers is the next session.
LEMMA SessionIs ==
    ASSUME SessionBase, NEW tok \in Nat, NEW lease \in Leases, NEW renewable \in BOOLEAN
    PROVE  /\ Session(tok, lease, renewable) \in SessionRecords
           /\ Session(tok, lease, renewable).gen = generations + 1
           /\ Session(tok, lease, renewable).tok = tok
<1>1. PICK l \in Nat : l = lease
  BY VaultSessionAssumption
<1>2. RenewAfter(l) \in Nat
  <2>1. PICK twice \in Nat : twice = 2 * l
    OBVIOUS
  <2>2. twice \div 3 \in Nat
    OBVIOUS
  <2> QED BY <2>1, <2>2 DEF RenewAfter
<1>3. PICK at \in Nat : at = IF lease > 0 THEN leaseClock + RenewAfter(lease) ELSE 0
  BY <1>1, <1>2, VaultSessionAssumption DEF SessionBase
<1>4. Session(tok, lease, renewable) =
          [gen |-> generations + 1, tok |-> tok, renewAt |-> at, renewable |-> renewable]
  BY <1>3 DEF Session
<1>5. generations + 1 \in Nat
  BY DEF SessionBase
<1> QED BY <1>4, <1>5 DEF SessionRecords

\* A reader that leaves the mutex with a session.
LEMMA ReadsWithIs ==
    ASSUME NEW r \in SecretReaders, reader[r] \in ReaderRecords, NEW s \in SessionRecords
    PROVE  /\ ReadsWith(r, s) \in ReaderRecords
           /\ ReadsWith(r, s).at = "read" /\ ReadsWith(r, s).gen = s.gen /\ ReadsWith(r, s).tok = s.tok
           /\ ReadsWith(r, s).pass = reader[r].pass /\ ReadsWith(r, s).first = reader[r].first
           /\ ReadsWith(r, s).minted = reader[r].minted
BY ReaderStepsAre DEF ReadsWith, ReaderRecords, SessionRecords

\* A reader that does not move, whatever another one does to the session.
LEMMA OtherReader ==
    ASSUME NEW e \in SecretReaders, SessionInv, reader'[e] = reader[e],
           generations' \in Nat, generations <= generations', denies' = denies,
           issued' \in Nat, issued <= issued',
           \A t \in 0 .. issued : t \in good' => t \in good,
           holder' = e <=> holder = e,
           \/ session' = session
           \/ holder # e /\ session' = NoVaultSession
           \/ holder # e /\ session'.gen = generations + 1
    PROVE  ReaderInv(e)'
<1>1. /\ reader[e].gen \in Nat /\ reader[e].tok \in Nat /\ reader[e].gen <= generations
      /\ reader[e].tok <= issued /\ generations \in Nat /\ issued \in Nat
      /\ reader[e].gen = 0 => reader[e].tok = 0
  BY DEF SessionInv, SessionBase, ReaderInv, ReaderRecords
<1>2. ReaderInv(e)
  BY DEF SessionInv
<1>3. reader[e].gen <= generations' /\ reader[e].tok <= issued'
  BY <1>1
<1>4. reader[e].tok \notin good => reader[e].tok \notin good'
  BY <1>1
<1>5. reader[e].gen = session'.gen => reader[e].tok = session'.tok
  <2>1. CASE session' = session
    BY <1>2, <2>1 DEF ReaderInv
  <2>2. CASE session' = NoVaultSession
    BY <1>1, <2>2, NoSessionIs
  <2>3. CASE session'.gen = generations + 1
    BY <1>1, <2>3
  <2> QED BY <2>1, <2>2, <2>3
<1>6. holder = e => session' = session
  OBVIOUS
<1>7. reader[e].at \in HoldSteps <=> holder = e
  BY <1>2 DEF ReaderInv
<1> QED BY <1>2, <1>3, <1>4, <1>5, <1>6, <1>7 DEF ReaderInv

\* What a step of reader r starts from.
SessionState(r) ==
    /\ SessionBase /\ LatestInv /\ CreditInv /\ ReaderInv(r)
    /\ reader \in [SecretReaders -> ReaderRecords] /\ reader[r] \in ReaderRecords
    /\ reader[r].gen \in Nat /\ reader[r].tok \in Nat /\ reader[r].first \in Nat
    /\ reader[r].minted \in Nat /\ reader[r].pass \in 1 .. 2 /\ reader[r].attempt \in 0 .. 3
    /\ generations \in Nat /\ issued \in Nat /\ logins \in Nat /\ causes \in Nat
    /\ MaxLogins \in Nat
    /\ session \in SessionRecords /\ session.gen \in Nat /\ session.tok \in Nat
    /\ good \subseteq 1 .. issued

LEMMA SessionFacts == ASSUME SessionInv, NEW r \in SecretReaders PROVE SessionState(r)
<1>1. /\ SessionBase /\ LatestInv /\ CreditInv /\ ReaderInv(r)
      /\ reader \in [SecretReaders -> ReaderRecords] /\ session \in SessionRecords
      /\ generations \in Nat /\ issued \in 0 .. MaxLogins /\ logins \in Nat /\ causes \in Nat
      /\ good \subseteq 1 .. issued
  BY DEF SessionInv, SessionBase
<1>2. reader[r] \in ReaderRecords
  BY <1>1
<1>3. /\ reader[r].gen \in Nat /\ reader[r].tok \in Nat /\ reader[r].first \in Nat
      /\ reader[r].minted \in Nat /\ reader[r].pass \in 1 .. 2 /\ reader[r].attempt \in 0 .. 3
  BY <1>2 DEF ReaderRecords
<1>4. session.gen \in Nat /\ session.tok \in Nat
  BY <1>1 DEF SessionRecords
<1>5. issued \in Nat /\ MaxLogins \in Nat
  BY <1>1, VaultSessionAssumption
<1> QED BY <1>1, <1>2, <1>3, <1>4, <1>5 DEF SessionState

\* A reader replaced by another record.
LEMMA ReaderReplaced ==
    ASSUME NEW r \in SecretReaders, reader \in [SecretReaders -> ReaderRecords],
           NEW rec \in ReaderRecords, reader' = [reader EXCEPT ![r] = rec]
    PROVE  /\ reader' \in [SecretReaders -> ReaderRecords] /\ reader'[r] = rec
           /\ \A e \in SecretReaders \ {r} : reader'[e] = reader[e]
OBVIOUS

\* Vault may issue a token; it honours no other one that it did not.
IssuedGrows ==
    /\ issued' \in 0 .. MaxLogins /\ issued <= issued' /\ good' \subseteq 1 .. issued'
    /\ \A t \in 0 .. issued : t \in good' => t \in good

LEMMA NoneIssued ==
    ASSUME SessionInv, issued' = issued, good' = good PROVE IssuedGrows
<1>1. issued \in 0 .. MaxLogins /\ good \subseteq 1 .. issued
  BY DEF SessionInv, SessionBase
<1>2. issued <= issued
  BY <1>1, VaultSessionAssumption
<1> QED BY <1>1, <1>2 DEF IssuedGrows

LEMMA OneIssued ==
    ASSUME SessionInv, issued < MaxLogins, issued' = issued + 1, good' = good \cup {issued + 1}
    PROVE  IssuedGrows
<1>1. issued \in 0 .. MaxLogins /\ good \subseteq 1 .. issued /\ MaxLogins \in Nat
  BY VaultSessionAssumption DEF SessionInv, SessionBase
<1>2. issued' \in 0 .. MaxLogins /\ issued <= issued'
  BY <1>1
<1>3. good' \subseteq 1 .. issued'
  BY <1>1
<1>4. \A t \in 0 .. issued : t # issued + 1
  BY <1>1
<1> QED BY <1>2, <1>3, <1>4 DEF IssuedGrows

\* One reader moves and the session and its generation stay.
LEMMA ReaderMoves ==
    ASSUME SessionInv, NEW r \in SecretReaders, NEW rec \in ReaderRecords,
           reader' = [reader EXCEPT ![r] = rec],
           holder' \in SecretReaders \cup {Free},
           \A e \in SecretReaders \ {r} : holder' = e <=> holder = e,
           session' = session \/ (holder \in {r, Free} /\ session' = NoVaultSession),
           UNCHANGED <<leaseClock, generations, denies>>, IssuedGrows,
           logins' \in Nat, causes' \in Nat, CreditInv', ReaderInv(r)'
    PROVE  SessionInv'
<1>f. SessionState(r)
  BY SessionFacts
<1>1. /\ reader' \in [SecretReaders -> ReaderRecords]
      /\ \A e \in SecretReaders \ {r} : reader'[e] = reader[e]
  BY <1>f, ReaderReplaced DEF SessionState
<1>2. session' \in SessionRecords
  BY <1>f, NoSessionIs DEF SessionState
<1>3. SessionBase'
  BY <1>f, <1>1, <1>2 DEF SessionState, SessionBase, IssuedGrows
<1>i. issued' \in Nat /\ issued <= issued'
  BY <1>f DEF SessionState, IssuedGrows
<1>4. LatestInv'
  BY <1>f, <1>i, NoSessionIs DEF SessionState, LatestInv
<1>5. ASSUME NEW e \in SecretReaders, e # r PROVE ReaderInv(e)'
  <2>1. holder \in {r, Free} => holder # e
    BY <1>5, VaultSessionAssumption
  <2>2. generations <= generations' /\ generations' \in Nat
    BY <1>f DEF SessionState
  <2>3. \A t \in 0 .. issued : t \in good' => t \in good
    BY DEF IssuedGrows
  <2> QED BY <1>1, <1>5, <1>i, <2>1, <2>2, <2>3, OtherReader
<1> QED BY <1>3, <1>4, <1>5 DEF SessionInv

\* Who logs in, when one reader has moved.
LEMMA LoginMoves ==
    ASSUME NEW r \in SecretReaders,
           \A e \in SecretReaders \ {r} : reader'[e] = reader[e],
           reader[r].at = "login" => reader'[r].at = "login"
    PROVE  AtLogin => AtLogin'
BY DEF AtLogin

LEMMA AskStep == ASSUME SessionInv, NEW r \in SecretReaders, AskSecret(r) PROVE SessionInv'
<1>f. SessionState(r)
  BY SessionFacts
<1>1. /\ reader[r].at = "idle" /\ At(r, "lock")
      /\ UNCHANGED <<leaseClock, generations, issued, good, denies, session, holder, logins, causes>>
  BY DEF AskSecret, Stays
<1>2. PICK rec \in ReaderRecords :
          /\ reader' = [reader EXCEPT ![r] = rec]
          /\ rec.at = "lock" /\ rec.pass = reader[r].pass /\ rec.gen = reader[r].gen
          /\ rec.tok = reader[r].tok /\ rec.minted = reader[r].minted /\ rec.first = reader[r].first
  <2> DEFINE rec == [reader[r] EXCEPT !.at = "lock"]
  <2>1. /\ rec \in ReaderRecords /\ rec.at = "lock" /\ rec.pass = reader[r].pass
        /\ rec.gen = reader[r].gen /\ rec.tok = reader[r].tok /\ rec.minted = reader[r].minted
        /\ rec.first = reader[r].first
    BY <1>f, ReaderStepsAre DEF SessionState, ReaderRecords
  <2>2. reader' = [reader EXCEPT ![r] = rec]
    BY <1>f, <1>1 DEF SessionState, At
  <2> QED BY <2>1, <2>2
<1>3. reader'[r] = rec /\ \A e \in SecretReaders \ {r} : reader'[e] = reader[e]
  BY <1>f, <1>2, ReaderReplaced DEF SessionState
<1>4. reader[r].pass # 2 /\ holder # r
  BY <1>f, <1>1, ReaderStepsAre DEF SessionState, ReaderInv
<1>5. ReaderInv(r)'
  BY <1>f, <1>1, <1>2, <1>3, <1>4, ReaderStepsAre DEF SessionState, ReaderInv
<1>6. CreditInv'
  <2>1. AtLogin => AtLogin'
    BY <1>1, <1>3, LoginMoves
  <2> QED BY <1>f, <1>1, <2>1 DEF SessionState, CreditInv
<1>7. IssuedGrows
  BY <1>1, NoneIssued
<1> QED BY <1>f, <1>1, <1>2, <1>5, <1>6, <1>7, ReaderMoves DEF SessionState, SessionBase

LEMMA TakeStep == ASSUME SessionInv, NEW r \in SecretReaders, TakeSession(r) PROVE SessionInv'
<1>f. SessionState(r)
  BY SessionFacts
<1>1. /\ reader[r].at = "lock" /\ At(r, "ensure") /\ holder = Free /\ holder' = r
      /\ UNCHANGED <<leaseClock, generations, issued, good, denies, logins, causes>>
      /\ session' = IF reader[r].pass = 2 /\ session.gen = reader[r].gen THEN NoVaultSession ELSE session
  BY DEF TakeSession, Stays, RefusedSession
<1>2. PICK rec \in ReaderRecords :
          /\ reader' = [reader EXCEPT ![r] = rec]
          /\ rec.at = "ensure" /\ rec.pass = reader[r].pass /\ rec.gen = reader[r].gen
          /\ rec.tok = reader[r].tok /\ rec.minted = reader[r].minted /\ rec.first = reader[r].first
  <2> DEFINE rec == [reader[r] EXCEPT !.at = "ensure"]
  <2>1. /\ rec \in ReaderRecords /\ rec.at = "ensure" /\ rec.pass = reader[r].pass
        /\ rec.gen = reader[r].gen /\ rec.tok = reader[r].tok /\ rec.minted = reader[r].minted
        /\ rec.first = reader[r].first
    BY <1>f, ReaderStepsAre DEF SessionState, ReaderRecords
  <2>2. reader' = [reader EXCEPT ![r] = rec]
    BY <1>f, <1>1 DEF SessionState, At
  <2> QED BY <2>1, <2>2
<1>3. reader'[r] = rec /\ \A e \in SecretReaders \ {r} : reader'[e] = reader[e]
  BY <1>f, <1>2, ReaderReplaced DEF SessionState
<1>4. reader[r].pass = 2 => session'.gen # reader[r].gen
  BY <1>f, <1>1, NoSessionIs DEF SessionState, ReaderInv
<1>5. reader[r].gen = session'.gen => reader[r].tok = session'.tok
  BY <1>f, <1>1, NoSessionIs DEF SessionState, ReaderInv
<1>6. ReaderInv(r)'
  BY <1>f, <1>1, <1>2, <1>3, <1>4, <1>5, ReaderStepsAre DEF SessionState, ReaderInv
<1>7. CreditInv'
  <2>1. AtLogin => AtLogin'
    BY <1>1, <1>3, LoginMoves
  <2>2. ~AtLogin
    BY <1>1, VaultSessionAssumption, ReaderStepsAre DEF SessionInv, ReaderInv, AtLogin
  <2>3. CASE session' = session
    BY <1>f, <1>1, <2>1, <2>3 DEF SessionState, CreditInv
  <2>4. CASE reader[r].pass = 2 /\ session.gen = reader[r].gen
    <3>1. ~denies => session.tok \notin good
      BY <1>f, <1>1, <2>4 DEF SessionState, ReaderInv
    <3>2. ~denies => logins < causes
      BY <1>f, <2>2, <3>1 DEF SessionState, CreditInv
    <3> QED BY <1>f, <1>1, <3>2 DEF SessionState, CreditInv
  <2> QED BY <1>1, <2>3, <2>4
<1>8. \A e \in SecretReaders \ {r} : holder' = e <=> holder = e
  BY <1>1, VaultSessionAssumption
<1>9. IssuedGrows
  BY <1>1, NoneIssued
<1> QED BY <1>f, <1>1, <1>2, <1>6, <1>7, <1>8, <1>9, ReaderMoves DEF SessionState, SessionBase

\* The reader has a new session, and leaves the mutex to read with it.
LEMMA NewSession ==
    ASSUME SessionInv, NEW r \in SecretReaders, reader[r].at \in HoldSteps,
           NEW s \in SessionRecords, s.gen = generations + 1, s.tok \in good',
           session' = s, generations' = generations + 1, holder' = Free,
           NEW rec \in ReaderRecords, reader' = [reader EXCEPT ![r] = rec],
           rec.at = "read", rec.gen = s.gen, rec.tok = s.tok, rec.minted <= 1,
           rec.pass = reader[r].pass, rec.first = reader[r].first,
           IssuedGrows, UNCHANGED <<leaseClock, denies, logins, causes>>
    PROVE  SessionInv'
<1>f. SessionState(r)
  BY SessionFacts
<1>1. /\ reader' \in [SecretReaders -> ReaderRecords] /\ reader'[r] = rec
      /\ \A e \in SecretReaders \ {r} : reader'[e] = reader[e]
  BY <1>f, ReaderReplaced DEF SessionState
<1>2. holder = r
  BY <1>f DEF SessionState, ReaderInv
<1>3. /\ issued' \in Nat /\ issued <= issued' /\ s.tok \in 1 .. issued' /\ s.tok \in Nat
      /\ s.tok <= issued' /\ s.tok # 0
  <2>1. issued' \in 0 .. MaxLogins /\ issued <= issued' /\ good' \subseteq 1 .. issued'
    BY DEF IssuedGrows
  <2>2. issued' \in Nat
    BY <2>1, VaultSessionAssumption
  <2>3. s.tok \in 1 .. issued'
    BY <2>1
  <2> QED BY <2>1, <2>2, <2>3
<1>4. SessionBase'
  BY <1>f, <1>1 DEF SessionState, SessionBase, IssuedGrows
<1>5. LatestInv'
  BY <1>f, <1>3 DEF SessionState, LatestInv
<1>6. CreditInv'
  BY <1>f DEF SessionState, CreditInv
<1>7. ReaderInv(r)'
  <2>1. rec.gen >= 1 /\ rec.gen <= generations' /\ rec.gen # 0
    BY <1>f DEF SessionState
  <2>2. rec.pass = 2 => rec.gen > rec.first
    BY <1>f DEF SessionState, ReaderInv
  <2>3. holder' # r /\ rec.at \notin HoldSteps
    BY VaultSessionAssumption, ReaderStepsAre
  <2> QED BY <1>1, <1>3, <2>1, <2>2, <2>3 DEF ReaderInv
<1>8. ASSUME NEW e \in SecretReaders, e # r PROVE ReaderInv(e)'
  <2>1. holder # e /\ holder' # e
    BY <1>2, <1>8, VaultSessionAssumption
  <2>2. generations <= generations' /\ generations' \in Nat
    BY <1>f DEF SessionState
  <2>3. \A t \in 0 .. issued : t \in good' => t \in good
    BY DEF IssuedGrows
  <2> QED BY <1>1, <1>3, <1>8, <2>1, <2>2, <2>3, OtherReader
<1> QED BY <1>4, <1>5, <1>6, <1>7, <1>8 DEF SessionInv

\* A reader that begins a login.
LEMMA LogsInStep ==
    ASSUME SessionInv, NEW r \in SecretReaders, reader[r].at \in {"ensure", "renew"}, LogsIn(r),
           UNCHANGED <<leaseClock, denies, session, generations, issued, good, holder>>,
           \/ causes' = causes + 1
           \/ causes' = causes /\ session = NoVaultSession
    PROVE  SessionInv'
<1>f. SessionState(r)
  BY SessionFacts
<1>1. PICK rec \in ReaderRecords :
          /\ reader' = [reader EXCEPT ![r] = rec]
          /\ rec.at = "login" /\ rec.pass = reader[r].pass /\ rec.gen = reader[r].gen
          /\ rec.tok = reader[r].tok /\ rec.minted = 0 /\ rec.first = reader[r].first
  <2> DEFINE rec == [reader[r] EXCEPT !.at = "login", !.attempt = 1, !.minted = 0]
  <2>1. /\ rec \in ReaderRecords /\ rec.at = "login" /\ rec.pass = reader[r].pass
        /\ rec.gen = reader[r].gen /\ rec.tok = reader[r].tok /\ rec.minted = 0
        /\ rec.first = reader[r].first
    <3>1. reader[r] \in ReaderRecords /\ 1 \in 0 .. 3 /\ 0 \in Nat
      BY <1>f DEF SessionState
    <3> QED BY <3>1, ReaderStepsAre DEF ReaderRecords
  <2>2. reader' = [reader EXCEPT ![r] = rec]
    BY <1>f DEF SessionState, LogsIn
  <2> QED BY <2>1, <2>2
<1>2. reader'[r] = rec /\ \A e \in SecretReaders \ {r} : reader'[e] = reader[e]
  BY <1>f, <1>1, ReaderReplaced DEF SessionState
<1>3. ReaderInv(r)'
  BY <1>f, <1>1, <1>2, ReaderStepsAre DEF SessionState, ReaderInv
<1>4. CreditInv'
  <2>1. AtLogin'
    BY <1>1, <1>2 DEF AtLogin
  <2>2. holder = r /\ reader[r].at # "login"
    BY <1>f, ReaderStepsAre DEF SessionState, ReaderInv
  <2>3. ~AtLogin
    BY <2>2, ReaderStepsAre DEF SessionInv, ReaderInv, AtLogin
  <2>4. session = NoVaultSession => session.tok \notin good
    BY <1>f, NoSessionIs DEF SessionState
  <2>5. logins' = logins + 1
    BY DEF LogsIn
  <2> QED BY <1>f, <2>1, <2>3, <2>4, <2>5 DEF SessionState, CreditInv
<1>5. IssuedGrows
  BY NoneIssued
<1>6. logins' \in Nat /\ causes' \in Nat /\ holder' \in SecretReaders \cup {Free}
  BY <1>f DEF SessionState, SessionBase, LogsIn
<1> QED BY <1>1, <1>3, <1>4, <1>5, <1>6, ReaderMoves

LEMMA EnsureStep == ASSUME SessionInv, NEW r \in SecretReaders, EnsureToken(r) PROVE SessionInv'
<1>f. SessionState(r)
  BY SessionFacts
<1>1. /\ reader[r].at = "ensure" /\ holder = r
      /\ UNCHANGED <<leaseClock, generations, issued, good, denies, session>>
  BY <1>f, ReaderStepsAre DEF SessionState, ReaderInv, EnsureToken, Stays
<1>g. IssuedGrows
  BY <1>1, NoneIssued
<1>2. CASE /\ session # NoVaultSession
           /\ reader' = [reader EXCEPT ![r] = ReadsWith(r, session)]
           /\ holder' = Free /\ UNCHANGED <<logins, causes>>
  <2>1. PICK rec \in ReaderRecords :
            /\ rec = ReadsWith(r, session) /\ rec.at = "read" /\ rec.gen = session.gen
            /\ rec.tok = session.tok /\ rec.pass = reader[r].pass /\ rec.first = reader[r].first
            /\ rec.minted = reader[r].minted
    BY <1>f, ReadsWithIs DEF SessionState
  <2>2. reader' = [reader EXCEPT ![r] = rec]
    BY <1>2, <2>1
  <2>3. reader'[r] = rec /\ \A e \in SecretReaders \ {r} : reader'[e] = reader[e]
    BY <1>f, <2>2, ReaderReplaced DEF SessionState
  <2>4. session.gen = generations /\ generations >= 1 /\ session.tok <= issued
    BY <1>f, <1>2 DEF SessionState, LatestInv
  <2>5. rec.pass = 2 => rec.gen > rec.first
    BY <1>f, <1>1, <2>1, <2>4, ReaderStepsAre DEF SessionState, ReaderInv
  <2>6. ReaderInv(r)'
    <3>1. holder' # r /\ rec.at \notin HoldSteps
      BY <1>2, <2>1, VaultSessionAssumption, ReaderStepsAre
    <3>2. rec.gen >= 1 /\ rec.gen # 0 /\ rec.gen <= generations /\ rec.tok <= issued /\ rec.minted <= 1
      BY <1>f, <2>1, <2>4 DEF SessionState, ReaderInv
    <3> QED BY <1>1, <2>1, <2>3, <2>5, <3>1, <3>2 DEF ReaderInv
  <2>7. CreditInv'
    <3>1. AtLogin => AtLogin'
      BY <1>1, <2>3, LoginMoves
    <3> QED BY <1>f, <1>1, <1>2, <3>1 DEF SessionState, CreditInv
  <2>8. \A e \in SecretReaders \ {r} : holder' = e <=> holder = e
    BY <1>1, <1>2, VaultSessionAssumption
  <2>9. logins' \in Nat /\ causes' \in Nat
    BY <1>f, <1>2 DEF SessionState
  <2> QED BY <1>g, <1>1, <1>2, <2>2, <2>6, <2>7, <2>8, <2>9, ReaderMoves
<1>3. CASE At(r, "renew") /\ UNCHANGED <<holder, logins, causes>>
  <2>1. PICK rec \in ReaderRecords :
            /\ reader' = [reader EXCEPT ![r] = rec]
            /\ rec.at = "renew" /\ rec.pass = reader[r].pass /\ rec.gen = reader[r].gen
            /\ rec.tok = reader[r].tok /\ rec.minted = reader[r].minted /\ rec.first = reader[r].first
    <3> DEFINE rec == [reader[r] EXCEPT !.at = "renew"]
    <3>1. /\ rec \in ReaderRecords /\ rec.at = "renew" /\ rec.pass = reader[r].pass
          /\ rec.gen = reader[r].gen /\ rec.tok = reader[r].tok /\ rec.minted = reader[r].minted
          /\ rec.first = reader[r].first
      BY <1>f, ReaderStepsAre DEF SessionState, ReaderRecords
    <3>2. reader' = [reader EXCEPT ![r] = rec]
      BY <1>f, <1>3 DEF SessionState, At
    <3> QED BY <3>1, <3>2
  <2>2. reader'[r] = rec /\ \A e \in SecretReaders \ {r} : reader'[e] = reader[e]
    BY <1>f, <2>1, ReaderReplaced DEF SessionState
  <2>3. ReaderInv(r)'
    BY <1>f, <1>1, <1>3, <2>1, <2>2, ReaderStepsAre DEF SessionState, ReaderInv
  <2>4. CreditInv'
    <3>1. AtLogin => AtLogin'
      BY <1>1, <2>2, LoginMoves
    <3> QED BY <1>f, <1>1, <1>3, <3>1 DEF SessionState, CreditInv
  <2>5. logins' \in Nat /\ causes' \in Nat /\ holder' \in SecretReaders \cup {Free}
    BY <1>f, <1>3 DEF SessionState, SessionBase
  <2> QED BY <1>g, <1>1, <1>3, <2>1, <2>3, <2>4, <2>5, ReaderMoves
<1>4. CASE /\ LogsIn(r) /\ UNCHANGED holder
           /\ causes' = IF session = NoVaultSession THEN causes ELSE causes + 1
  BY <1>1, <1>4, LogsInStep
<1> QED BY <1>2, <1>3, <1>4 DEF EnsureToken

LEMMA RenewStep == ASSUME SessionInv, NEW r \in SecretReaders, RenewAnswered(r) PROVE SessionInv'
<1>f. SessionState(r)
  BY SessionFacts
<1>1. reader[r].at = "renew" /\ UNCHANGED <<leaseClock, issued, good, denies>>
  BY DEF RenewAnswered, Stays
<1>2. CASE LogsIn(r) /\ causes' = causes + 1 /\ UNCHANGED <<session, generations, holder>>
  BY <1>1, <1>2, LogsInStep
<1>3. CASE /\ session.tok \in good
           /\ \E lease \in Leases, renewable \in BOOLEAN :
                 LET s == Session(session.tok, lease, renewable) IN
                 session' = s /\ reader' = [reader EXCEPT ![r] = ReadsWith(r, s)]
           /\ generations' = generations + 1 /\ holder' = Free
           /\ UNCHANGED <<logins, causes>>
  <2>1. PICK s \in SessionRecords :
            /\ session' = s /\ s.gen = generations + 1 /\ s.tok = session.tok
            /\ reader' = [reader EXCEPT ![r] = ReadsWith(r, s)]
    BY <1>f, <1>3, SessionIs DEF SessionState
  <2>2. PICK rec \in ReaderRecords :
            /\ rec = ReadsWith(r, s) /\ rec.at = "read" /\ rec.gen = s.gen
            /\ rec.tok = s.tok /\ rec.pass = reader[r].pass /\ rec.first = reader[r].first
            /\ rec.minted = reader[r].minted
    BY <1>f, ReadsWithIs DEF SessionState
  <2>3. rec.minted <= 1 /\ IssuedGrows /\ s.tok \in good' /\ reader[r].at \in HoldSteps
    BY <1>f, <1>1, <1>3, <2>1, <2>2, NoneIssued, ReaderStepsAre DEF SessionState, ReaderInv
  <2>4. reader' = [reader EXCEPT ![r] = rec]
    BY <2>1, <2>2
  <2> QED BY <1>1, <1>3, <2>1, <2>2, <2>3, <2>4, NewSession
<1> QED BY <1>2, <1>3 DEF RenewAnswered

LEMMA LoginStep == ASSUME SessionInv, NEW r \in SecretReaders, LoginSucceeds(r) PROVE SessionInv'
<1>f. SessionState(r)
  BY SessionFacts
<1>1. /\ reader[r].at = "login" /\ issued < MaxLogins /\ issued' = issued + 1
      /\ good' = good \cup {issued + 1} /\ generations' = generations + 1 /\ holder' = Free
      /\ UNCHANGED <<leaseClock, denies, logins, causes>>
  BY DEF LoginSucceeds, Stays
<1>2. PICK s \in SessionRecords :
          /\ session' = s /\ s.gen = generations + 1 /\ s.tok = issued + 1
          /\ reader' = [reader EXCEPT ![r] = [ReadsWith(r, s) EXCEPT !.minted = @ + 1]]
  <2>1. issued + 1 \in Nat
    BY <1>f DEF SessionState
  <2>2. PICK lease \in Leases, renewable \in BOOLEAN :
            /\ session' = Session(issued + 1, lease, renewable)
            /\ reader' = [reader EXCEPT ![r] =
                            [ReadsWith(r, Session(issued + 1, lease, renewable)) EXCEPT !.minted = @ + 1]]
    BY DEF LoginSucceeds
  <2>3. PICK s : s = Session(issued + 1, lease, renewable)
    OBVIOUS
  <2>4. s \in SessionRecords /\ s.gen = generations + 1 /\ s.tok = issued + 1
    BY <1>f, <2>1, <2>3, SessionIs DEF SessionState
  <2> QED BY <2>2, <2>3, <2>4
<1>3. PICK old \in ReaderRecords :
          /\ old = ReadsWith(r, s) /\ old.at = "read" /\ old.gen = s.gen
          /\ old.tok = s.tok /\ old.pass = reader[r].pass /\ old.first = reader[r].first
          /\ old.minted = reader[r].minted
  BY <1>f, ReadsWithIs DEF SessionState
<1>4. reader[r].minted = 0
  BY <1>f, <1>1 DEF SessionState, ReaderInv
<1>5. PICK rec \in ReaderRecords :
          /\ rec = [old EXCEPT !.minted = @ + 1] /\ rec.at = "read" /\ rec.gen = s.gen
          /\ rec.tok = s.tok /\ rec.pass = reader[r].pass /\ rec.first = reader[r].first
          /\ rec.minted <= 1
  <2> DEFINE rec == [old EXCEPT !.minted = @ + 1]
  <2>1. /\ rec \in ReaderRecords /\ rec.at = "read" /\ rec.gen = s.gen
        /\ rec.tok = s.tok /\ rec.pass = reader[r].pass /\ rec.first = reader[r].first
        /\ rec.minted <= 1
    BY <1>3, <1>4 DEF ReaderRecords
  <2> QED BY <2>1
<1>6. /\ reader' = [reader EXCEPT ![r] = rec] /\ IssuedGrows /\ s.tok \in good'
      /\ reader[r].at \in HoldSteps
  BY <1>1, <1>2, <1>3, <1>5, OneIssued, ReaderStepsAre
<1>7. /\ s.gen = generations + 1 /\ session' = s /\ generations' = generations + 1 /\ holder' = Free
      /\ UNCHANGED <<leaseClock, denies, logins, causes>>
      /\ rec.at = "read" /\ rec.gen = s.gen /\ rec.tok = s.tok /\ rec.minted <= 1
      /\ rec.pass = reader[r].pass /\ rec.first = reader[r].first
  BY <1>1, <1>2, <1>5
<1> QED BY <1>6, <1>7, NewSession

LEMMA LoginFailsStep ==
    ASSUME SessionInv, NEW r \in SecretReaders, LoginAttemptFails(r) PROVE SessionInv'
<1>f. SessionState(r)
  BY SessionFacts
<1>0. reader[r].at = "login" /\ UNCHANGED <<leaseClock, denies, session, generations, logins>>
  BY DEF LoginAttemptFails, Stays
<1>1. PICK err \in TransportErrors, lost \in BOOLEAN, again \in BOOLEAN :
          /\ lost => MayHaveReachedPeer(err) /\ issued < MaxLogins
          /\ issued' = IF lost THEN issued + 1 ELSE issued
          /\ good' = IF lost THEN good \cup {issued + 1} ELSE good
          /\ again = TriesAgain(UndeliveredOnly, reader[r].attempt, err)
          /\ reader' = [reader EXCEPT ![r].at = IF again THEN "login" ELSE "failed",
                                      ![r].attempt = IF again THEN @ + 1 ELSE @,
                                      ![r].minted = IF lost THEN @ + 1 ELSE @]
          /\ holder' = IF again THEN holder ELSE Free
          /\ causes' = IF again THEN causes ELSE causes + 1
  <2>1. PICK err \in TransportErrors, lost \in BOOLEAN :
          /\ lost => MayHaveReachedPeer(err) /\ issued < MaxLogins
          /\ issued' = IF lost THEN issued + 1 ELSE issued
          /\ good' = IF lost THEN good \cup {issued + 1} ELSE good
          /\ LET again == TriesAgain(UndeliveredOnly, reader[r].attempt, err) IN
             /\ reader' = [reader EXCEPT
                    ![r].at = IF again THEN "login" ELSE "failed",
                    ![r].attempt = IF again THEN @ + 1 ELSE @,
                    ![r].minted = IF lost THEN @ + 1 ELSE @]
             /\ holder' = IF again THEN holder ELSE Free
             /\ causes' = IF again THEN causes ELSE causes + 1
    BY DEF LoginAttemptFails
  <2>2. TriesAgain(UndeliveredOnly, reader[r].attempt, err) \in BOOLEAN
    BY DEF TriesAgain
  <2> QED BY <2>1, <2>2
<1>2. again => reader[r].attempt < 3 /\ ~lost
  BY <1>1 DEF TriesAgain, ShouldRetry, UndeliveredOnly, MayHaveReachedPeer
<1>3. IssuedGrows
  <2>1. CASE lost
    BY <1>1, <2>1, OneIssued
  <2>2. CASE ~lost
    BY <1>1, <2>2, NoneIssued
  <2> QED BY <2>1, <2>2
<1>4. reader[r].minted = 0 /\ holder = r
  BY <1>f, <1>0, ReaderStepsAre DEF SessionState, ReaderInv
<1>5. PICK rec \in ReaderRecords :
          /\ reader' = [reader EXCEPT ![r] = rec]
          /\ rec.at = IF again THEN "login" ELSE "failed"
          /\ rec.minted = IF lost THEN 1 ELSE 0
          /\ rec.pass = reader[r].pass /\ rec.gen = reader[r].gen
          /\ rec.tok = reader[r].tok /\ rec.first = reader[r].first
  <2>1. PICK step \in {"login", "failed"}, attempt \in 0 .. 3, minted \in 0 .. 1 :
            /\ step = IF again THEN "login" ELSE "failed"
            /\ attempt = IF again THEN reader[r].attempt + 1 ELSE reader[r].attempt
            /\ minted = IF lost THEN 1 ELSE 0
    <3>1. reader[r].attempt \in 0 .. 3
      BY <1>f DEF SessionState
    <3>2. (IF again THEN reader[r].attempt + 1 ELSE reader[r].attempt) \in 0 .. 3
      BY <1>2, <3>1
    <3> QED BY <3>2
  <2> DEFINE rec == [reader[r] EXCEPT !.at = step, !.attempt = attempt, !.minted = minted]
  <2>2. /\ rec \in ReaderRecords /\ rec.at = step /\ rec.minted = minted
        /\ rec.pass = reader[r].pass /\ rec.gen = reader[r].gen
        /\ rec.tok = reader[r].tok /\ rec.first = reader[r].first
    <3>1. reader[r] \in ReaderRecords /\ minted \in Nat
      BY <1>f DEF SessionState
    <3> QED BY <3>1, ReaderStepsAre DEF ReaderRecords
  <2>3. reader' = [reader EXCEPT ![r] = rec]
    <3>1. /\ (IF again THEN "login" ELSE "failed") = step
          /\ (IF again THEN reader[r].attempt + 1 ELSE reader[r].attempt) = attempt
          /\ (IF lost THEN reader[r].minted + 1 ELSE reader[r].minted) = minted
      BY <1>4, <2>1
    <3>2. reader' = [reader EXCEPT ![r] = [reader[r] EXCEPT
                        !.at = IF again THEN "login" ELSE "failed",
                        !.attempt = IF again THEN reader[r].attempt + 1 ELSE reader[r].attempt,
                        !.minted = IF lost THEN reader[r].minted + 1 ELSE reader[r].minted]]
      BY <1>f, <1>1 DEF SessionState, ReaderRecords
    <3> QED BY <3>1, <3>2
  <2> QED BY <2>1, <2>2, <2>3
<1>6. reader'[r] = rec /\ \A e \in SecretReaders \ {r} : reader'[e] = reader[e]
  BY <1>f, <1>5, ReaderReplaced DEF SessionState
<1>i. issued' \in Nat /\ issued <= issued'
  BY <1>f, <1>3 DEF SessionState, IssuedGrows
<1>7. ReaderInv(r)'
  <2>1. rec.at \in HoldSteps <=> holder' = r
    BY <1>1, <1>4, <1>5, VaultSessionAssumption, ReaderStepsAre
  <2>2. rec.minted <= 1 /\ (rec.at = "login" => rec.minted = 0) /\ rec.at # "read" /\ rec.at # "lock"
        /\ rec.at # "forbidden" /\ rec.at # "idle"
    BY <1>2, <1>5
  <2>3. rec.tok <= issued'
    BY <1>f, <1>5, <1>i DEF SessionState, ReaderInv
  <2>4. rec.pass = 2 => rec.gen >= 1 /\ rec.first = rec.gen /\ session.gen # rec.gen
    BY <1>f, <1>0, <1>5, ReaderStepsAre DEF SessionState, ReaderInv
  <2>5. /\ rec.gen <= generations /\ (rec.gen = session.gen => rec.tok = session.tok)
        /\ (rec.gen = 0 => rec.tok = 0)
    BY <1>f, <1>5 DEF SessionState, ReaderInv
  <2> QED BY <1>0, <1>6, <2>1, <2>2, <2>3, <2>4, <2>5 DEF ReaderInv
<1>8. CreditInv'
  <2>1. ~denies => logins <= causes
    BY <1>f DEF SessionState, CreditInv
  <2>2. CASE again
    <3>1. AtLogin'
      BY <1>5, <1>6, <2>2 DEF AtLogin
    <3> QED BY <1>0, <1>1, <2>1, <2>2, <3>1 DEF CreditInv
  <2>3. CASE ~again
    BY <1>f, <1>0, <1>1, <2>1, <2>3 DEF SessionState, CreditInv
  <2> QED BY <2>2, <2>3
<1>9. /\ logins' \in Nat /\ causes' \in Nat /\ holder' \in SecretReaders \cup {Free}
      /\ \A e \in SecretReaders \ {r} : holder' = e <=> holder = e
  BY <1>f, <1>0, <1>1, <1>4, VaultSessionAssumption DEF SessionState
<1> QED BY <1>0, <1>3, <1>5, <1>7, <1>8, <1>9, ReaderMoves

LEMMA ReadStep == ASSUME SessionInv, NEW r \in SecretReaders, ReadAnswered(r) PROVE SessionInv'
<1>f. SessionState(r)
  BY SessionFacts
<1>1. /\ reader[r].at = "read"
      /\ UNCHANGED <<leaseClock, denies, session, holder, generations, issued, good, logins, causes>>
  BY DEF ReadAnswered, Stays
<1>2. PICK s \in {"value", "failed", "lock", "forbidden"} :
          /\ s = "lock" => reader[r].pass = 1 /\ ~(reader[r].tok \in good /\ ~denies)
          /\ s = "forbidden" => reader[r].pass # 1
          /\ reader' = [reader EXCEPT ![r].at = s,
                          ![r].pass = IF s = "lock" THEN 2 ELSE @,
                          ![r].first = IF reader[r].pass = 1 THEN reader[r].gen ELSE @,
                          ![r].refused = IF reader[r].pass = 1 THEN reader[r].tok ELSE @]
  <2>1. CASE reader[r].tok \in good /\ ~denies
    BY <2>1 DEF ReadAnswered
  <2>2. CASE ~(reader[r].tok \in good /\ ~denies)
    BY <2>2 DEF ReadAnswered
  <2> QED BY <2>1, <2>2
<1>3. PICK rec \in ReaderRecords :
          /\ reader' = [reader EXCEPT ![r] = rec]
          /\ rec.at = s /\ rec.pass = (IF s = "lock" THEN 2 ELSE reader[r].pass)
          /\ rec.first = (IF reader[r].pass = 1 THEN reader[r].gen ELSE reader[r].first)
          /\ rec.gen = reader[r].gen /\ rec.tok = reader[r].tok /\ rec.minted = reader[r].minted
  <2>0. reader[r].refused \in Nat
    BY <1>f DEF SessionState, ReaderRecords
  <2>1. PICK pass \in 1 .. 2, first \in Nat, refused \in Nat :
            /\ pass = (IF s = "lock" THEN 2 ELSE reader[r].pass)
            /\ first = (IF reader[r].pass = 1 THEN reader[r].gen ELSE reader[r].first)
            /\ refused = (IF reader[r].pass = 1 THEN reader[r].tok ELSE reader[r].refused)
    BY <1>f, <2>0 DEF SessionState
  <2> DEFINE rec == [reader[r] EXCEPT !.at = s, !.pass = pass, !.first = first, !.refused = refused]
  <2>2. /\ rec \in ReaderRecords /\ rec.at = s /\ rec.pass = pass /\ rec.first = first
        /\ rec.gen = reader[r].gen /\ rec.tok = reader[r].tok /\ rec.minted = reader[r].minted
    <3>1. reader[r] \in ReaderRecords
      BY <1>f DEF SessionState
    <3> QED BY <3>1, ReaderStepsAre DEF ReaderRecords
  <2>3. reader' = [reader EXCEPT ![r] = rec]
    BY <1>f, <1>2, <2>1 DEF SessionState, ReaderRecords
  <2> QED BY <2>1, <2>2, <2>3
<1>4. reader'[r] = rec /\ \A e \in SecretReaders \ {r} : reader'[e] = reader[e]
  BY <1>f, <1>3, ReaderReplaced DEF SessionState
<1>5. ReaderInv(r)'
  <2>1. rec.at \notin HoldSteps /\ holder # r /\ rec.at # "read" /\ rec.at # "login" /\ rec.at # "idle"
    BY <1>f, <1>1, <1>2, <1>3, ReaderStepsAre DEF SessionState, ReaderInv
  <2>2. rec.at = "lock" => /\ rec.gen >= 1 /\ rec.first = rec.gen
                           /\ ~denies => rec.tok \notin good
    BY <1>f, <1>1, <1>2, <1>3 DEF SessionState, ReaderInv
  <2>3. rec.at = "forbidden" => rec.gen > rec.first
    BY <1>f, <1>1, <1>2, <1>3 DEF SessionState, ReaderInv
  <2>4. /\ rec.gen <= generations /\ rec.tok <= issued
        /\ (rec.gen = session.gen => rec.tok = session.tok)
        /\ (rec.gen = 0 => rec.tok = 0) /\ rec.minted <= 1
    BY <1>f, <1>3 DEF SessionState, ReaderInv
  <2> QED BY <1>1, <1>4, <2>1, <2>2, <2>3, <2>4 DEF ReaderInv
<1>6. CreditInv'
  <2>1. AtLogin => AtLogin'
    BY <1>1, <1>4, LoginMoves
  <2> QED BY <1>f, <1>1, <2>1 DEF SessionState, CreditInv
<1>7. IssuedGrows
  BY <1>1, NoneIssued
<1> QED BY <1>f, <1>1, <1>3, <1>5, <1>6, <1>7, ReaderMoves DEF SessionState, SessionBase

LEMMA CancelStep == ASSUME SessionInv, NEW r \in SecretReaders, ReadCancelled(r) PROVE SessionInv'
<1>f. SessionState(r)
  BY SessionFacts
<1>1. /\ reader[r].at \in {"lock", "ensure", "renew", "login", "read"} /\ At(r, "failed")
      /\ holder' = IF holder = r THEN Free ELSE holder
      /\ causes' = IF holder = r THEN causes + 1 ELSE causes
      /\ UNCHANGED <<leaseClock, denies, session, generations, logins>>
  BY DEF ReadCancelled, Stays
<1>2. IssuedGrows
  <2>1. PICK lost \in BOOLEAN :
            /\ lost => issued < MaxLogins
            /\ issued' = IF lost THEN issued + 1 ELSE issued
            /\ good' = IF lost THEN good \cup {issued + 1} ELSE good
    BY DEF ReadCancelled
  <2>2. CASE lost
    BY <2>1, <2>2, OneIssued
  <2>3. CASE ~lost
    BY <2>1, <2>3, NoneIssued
  <2> QED BY <2>2, <2>3
<1>3. PICK rec \in ReaderRecords :
          /\ reader' = [reader EXCEPT ![r] = rec]
          /\ rec.at = "failed" /\ rec.pass = reader[r].pass /\ rec.gen = reader[r].gen
          /\ rec.tok = reader[r].tok /\ rec.minted = reader[r].minted /\ rec.first = reader[r].first
  <2> DEFINE rec == [reader[r] EXCEPT !.at = "failed"]
  <2>1. /\ rec \in ReaderRecords /\ rec.at = "failed" /\ rec.pass = reader[r].pass
        /\ rec.gen = reader[r].gen /\ rec.tok = reader[r].tok /\ rec.minted = reader[r].minted
        /\ rec.first = reader[r].first
    BY <1>f, ReaderStepsAre DEF SessionState, ReaderRecords
  <2>2. reader' = [reader EXCEPT ![r] = rec]
    BY <1>f, <1>1 DEF SessionState, At
  <2> QED BY <2>1, <2>2
<1>4. reader'[r] = rec /\ \A e \in SecretReaders \ {r} : reader'[e] = reader[e]
  BY <1>f, <1>3, ReaderReplaced DEF SessionState
<1>i. issued' \in Nat /\ issued <= issued'
  BY <1>f, <1>2 DEF SessionState, IssuedGrows
<1>5. ReaderInv(r)'
  <2>1. rec.at \notin HoldSteps /\ holder' # r
    BY <1>1, <1>3, VaultSessionAssumption, ReaderStepsAre
  <2>2. /\ rec.gen <= generations /\ rec.tok <= issued'
        /\ (rec.gen = session.gen => rec.tok = session.tok)
        /\ (rec.gen = 0 => rec.tok = 0) /\ rec.minted <= 1
    BY <1>f, <1>3, <1>i DEF SessionState, ReaderInv
  <2> QED BY <1>1, <1>3, <1>4, <2>1, <2>2 DEF ReaderInv
<1>6. CreditInv'
  <2>1. CASE holder = r
    BY <1>f, <1>1, <2>1 DEF SessionState, CreditInv
  <2>2. CASE holder # r
    <3>1. reader[r].at # "login"
      BY <1>f, <2>2, ReaderStepsAre DEF SessionState, ReaderInv
    <3>2. AtLogin => AtLogin'
      BY <1>4, <3>1, LoginMoves
    <3>3. session.tok \in good => session.tok \in good'
      BY DEF ReadCancelled
    <3> QED BY <1>f, <1>1, <2>2, <3>2, <3>3 DEF SessionState, CreditInv
  <2> QED BY <2>1, <2>2
<1>7. /\ logins' \in Nat /\ causes' \in Nat /\ holder' \in SecretReaders \cup {Free}
      /\ \A e \in SecretReaders \ {r} : holder' = e <=> holder = e
  BY <1>f, <1>1, VaultSessionAssumption DEF SessionState, SessionBase
<1> QED BY <1>1, <1>2, <1>3, <1>5, <1>6, <1>7, ReaderMoves

\* Vault and the clock.
LEMMA VaultActs ==
    ASSUME SessionInv, TokenRevoked \/ LeaseClockTicks \/ UNCHANGED sessionVars PROVE SessionInv'
<1>1. CASE TokenRevoked
  <2>1. /\ session.tok \in good /\ good' = good \ {session.tok} /\ causes' = causes + 1
        /\ UNCHANGED <<leaseClock, denies, session, holder, generations, reader, issued, logins>>
    BY <1>1 DEF TokenRevoked, Stays
  <2>2. SessionBase'
    <3>0. good \subseteq 1 .. issued /\ causes \in Nat
      BY DEF SessionInv, SessionBase
    <3>1. good' \subseteq 1 .. issued /\ causes' \in Nat
      <4>1. good' \subseteq good
        BY <2>1
      <4>2. causes' \in Nat
        BY <2>1, <3>0
      <4> QED BY <3>0, <4>1, <4>2
    <3> QED BY <2>1, <3>1 DEF SessionInv, SessionBase
  <2>3. LatestInv'
    BY <2>1 DEF SessionInv, LatestInv
  <2>4. CreditInv'
    BY <2>1 DEF SessionInv, SessionBase, CreditInv
  <2>5. \A e \in SecretReaders : ReaderInv(e)'
    BY <2>1 DEF SessionInv, ReaderInv
  <2> QED BY <2>2, <2>3, <2>4, <2>5 DEF SessionInv
<1>2. CASE LeaseClockTicks \/ UNCHANGED sessionVars
  <2>1. /\ leaseClock' \in 0 .. MaxLeaseClock
        /\ UNCHANGED <<session, holder, generations, reader, issued, good, denies, logins, causes>>
    <3>1. leaseClock \in 0 .. MaxLeaseClock
      BY DEF SessionInv, SessionBase
    <3> QED BY <1>2, <3>1, VaultSessionAssumption DEF LeaseClockTicks, sessionVars
  <2>2. SessionBase'
    BY <2>1 DEF SessionInv, SessionBase
  <2>3. LatestInv' /\ CreditInv'
    BY <2>1 DEF SessionInv, LatestInv, CreditInv, AtLogin
  <2>4. \A e \in SecretReaders : ReaderInv(e)'
    BY <2>1 DEF SessionInv, ReaderInv
  <2> QED BY <2>2, <2>3, <2>4 DEF SessionInv
<1> QED BY <1>1, <1>2

LEMMA SessionInvariant == SessionSpec => []SessionInv
<1>1. SessionInit => SessionInv
  <2> SUFFICES ASSUME SessionInit PROVE SessionInv
    OBVIOUS
  <2>0. IdleReader \in ReaderRecords
    BY ReaderStepsAre DEF IdleReader, ReaderRecords
  <2>1. SessionBase
    BY <2>0, NoSessionIs, VaultSessionAssumption DEF SessionInit, SessionBase
  <2>2. LatestInv
    BY NoSessionIs DEF SessionInit, LatestInv
  <2>3. CreditInv
    BY DEF SessionInit, CreditInv
  <2>4. ASSUME NEW r \in SecretReaders PROVE ReaderInv(r)
    <3>1. /\ reader[r] = IdleReader /\ session = NoVaultSession /\ holder = Free
          /\ generations = 0 /\ issued = 0
      BY DEF SessionInit
    <3>2. /\ IdleReader.at = "idle" /\ IdleReader.gen = 0 /\ IdleReader.tok = 0
          /\ IdleReader.minted = 0 /\ IdleReader.pass = 1
      BY DEF IdleReader
    <3> QED BY <3>1, <3>2, NoSessionIs, ReaderStepsAre, VaultSessionAssumption DEF ReaderInv
  <2> QED BY <2>1, <2>2, <2>3, <2>4 DEF SessionInv
<1>2. SessionInv /\ [SessionNext]_sessionVars => SessionInv'
  BY VaultActs, AskStep, TakeStep, EnsureStep, RenewStep, LoginStep, LoginFailsStep, ReadStep,
     CancelStep DEF SessionNext
<1> QED BY <1>1, <1>2, PTL DEF SessionSpec

\* Tokens are tried in the order Vault issued them: the session's is no older
\* than any a reader has tried, and a reader's second is no older than its first.
AgeOf(r) ==
    /\ session # NoVaultSession => reader[r].tok <= session.tok
    /\ reader[r].pass = 2 /\ reader[r].at \in {"lock", "ensure", "renew", "login"} =>
          reader[r].refused = reader[r].tok
    /\ reader[r].pass = 2 /\ reader[r].at \in {"read", "forbidden"} =>
          reader[r].refused <= reader[r].tok
    /\ reader[r].at = "forbidden" => reader[r].pass = 2
    /\ reader[r].refused <= issued

AgeInv == \A r \in SecretReaders : AgeOf(r)

\* Another reader's token is no newer than the session's, whatever r makes of it.
LEMMA AgeFollows ==
    ASSUME SessionInv, AgeInv, NEW r \in SecretReaders,
           \A e \in SecretReaders \ {r} : reader'[e] = reader[e],
           issued' \in Nat, issued <= issued', session'.tok \in Nat,
           \/ session' = NoVaultSession
           \/ session # NoVaultSession /\ session.tok <= session'.tok
           \/ issued <= session'.tok,
           AgeOf(r)'
    PROVE  AgeInv'
<1>1. ASSUME NEW e \in SecretReaders, e # r PROVE AgeOf(e)'
  <2>1. /\ AgeOf(e) /\ reader'[e] = reader[e] /\ reader[e].tok <= issued
        /\ reader[e].tok \in Nat /\ reader[e].refused \in Nat
        /\ issued \in Nat /\ session.tok \in Nat
    <3>1. SessionState(e) /\ AgeOf(e) /\ reader'[e] = reader[e]
      BY <1>1, SessionFacts DEF AgeInv
    <3> QED BY <3>1 DEF SessionState, ReaderInv, ReaderRecords
  <2>2. session' # NoVaultSession => reader[e].tok <= session'.tok
    BY <2>1 DEF AgeOf
  <2>3. reader[e].refused <= issued'
    BY <2>1 DEF AgeOf
  <2> QED BY <2>1, <2>2, <2>3 DEF AgeOf
<1> QED BY <1>1 DEF AgeInv

\* A reader that neither reads nor takes a token up keeps the one it tried.
LEMMA AgeKept ==
    ASSUME SessionInv, AgeInv, NEW r \in SecretReaders,
           \A e \in SecretReaders \ {r} : reader'[e] = reader[e],
           /\ reader'[r].tok = reader[r].tok /\ reader'[r].pass = reader[r].pass
           /\ reader'[r].refused = reader[r].refused,
           \/ reader'[r].at \in {"value", "failed"}
           \/ /\ reader[r].at \in {"idle", "lock", "ensure", "renew", "login"}
              /\ reader'[r].at \in {"lock", "ensure", "renew", "login"},
           issued' \in Nat, issued <= issued',
           session' = session \/ session' = NoVaultSession
    PROVE  AgeInv'
<1>1. SessionState(r) /\ AgeOf(r)
  BY SessionFacts DEF AgeInv
<1>2. session'.tok \in Nat /\ session.tok <= session.tok /\ reader[r].refused \in Nat /\ issued \in Nat
  BY <1>1, NoSessionIs DEF SessionState, ReaderRecords
<1>3. reader[r].at = "idle" => reader[r].pass # 2
  BY <1>1 DEF SessionState, ReaderInv
<1>4. reader'[r].refused <= issued'
  BY <1>1, <1>2 DEF AgeOf
<1>5. AgeOf(r)'
  BY <1>1, <1>3, <1>4 DEF AgeOf
<1> QED BY <1>2, <1>5, AgeFollows

\* A reader takes up the session's token: the one it had, or a new one.
LEMMA AgeOfSession ==
    ASSUME SessionInv, AgeInv, NEW r \in SecretReaders,
           \A e \in SecretReaders \ {r} : reader'[e] = reader[e],
           reader[r].at \in {"ensure", "renew", "login"},
           /\ reader'[r].at = "read" /\ reader'[r].tok = session'.tok
           /\ reader'[r].pass = reader[r].pass /\ reader'[r].refused = reader[r].refused,
           issued' \in Nat, issued <= issued', session'.tok \in Nat,
           \/ session # NoVaultSession /\ session.tok <= session'.tok
           \/ issued <= session'.tok
    PROVE  AgeInv'
<1>1. SessionState(r) /\ AgeOf(r)
  BY SessionFacts DEF AgeInv
<1>2. /\ reader[r].tok \in Nat /\ reader[r].refused \in Nat /\ session.tok \in Nat /\ issued \in Nat
      /\ reader[r].tok <= issued
  BY <1>1 DEF SessionState, ReaderInv, ReaderRecords
<1>3. reader[r].tok <= session'.tok
  BY <1>1, <1>2 DEF AgeOf
<1>4. reader'[r].refused <= issued'
  BY <1>1, <1>2 DEF AgeOf
<1>5. AgeOf(r)'
  <2>1. session'.tok <= session'.tok
    OBVIOUS
  <2> QED BY <1>1, <1>3, <1>4, <2>1 DEF AgeOf
<1> QED BY <1>5, AgeFollows

LEMMA AgeStep ==
    ASSUME SessionInv, AgeInv, [SessionNext]_sessionVars PROVE AgeInv'
<1>b. /\ reader \in [SecretReaders -> ReaderRecords] /\ issued \in Nat /\ session \in SessionRecords
      /\ session.tok \in Nat
  BY VaultSessionAssumption DEF SessionInv, SessionBase, SessionRecords
<1>0. ASSUME NEW r \in SecretReaders PROVE reader[r] \in ReaderRecords
  BY <1>b
<1>i. issued <= issued /\ session.tok <= session.tok /\ issued + 1 \in Nat /\ issued <= issued + 1
  BY <1>b
<1>1. CASE TokenRevoked \/ LeaseClockTicks \/ UNCHANGED sessionVars
  <2>1. UNCHANGED <<session, reader, issued>>
    BY <1>1 DEF TokenRevoked, LeaseClockTicks, sessionVars, Stays
  <2> QED BY <2>1 DEF AgeInv, AgeOf
<1>2. ASSUME NEW r \in SecretReaders, AskSecret(r) \/ TakeSession(r) \/ ReadCancelled(r) PROVE AgeInv'
  <2>1. PICK step \in {"lock", "ensure", "failed"} :
            /\ reader' = [reader EXCEPT ![r].at = step]
            /\ step # "failed" => reader[r].at \in {"idle", "lock"}
    BY <1>2 DEF AskSecret, TakeSession, ReadCancelled, At
  <2>2. /\ reader'[r].at = step /\ reader'[r].tok = reader[r].tok /\ reader'[r].pass = reader[r].pass
        /\ reader'[r].refused = reader[r].refused
        /\ \A e \in SecretReaders \ {r} : reader'[e] = reader[e]
    BY <1>b, <2>1 DEF ReaderRecords
  <2>3. session' = session \/ session' = NoVaultSession
    BY <1>2 DEF AskSecret, TakeSession, ReadCancelled
  <2>4. issued' \in {issued, issued + 1}
    BY <1>2 DEF AskSecret, TakeSession, ReadCancelled
  <2>5. issued' \in Nat /\ issued <= issued'
    BY <1>b, <1>i, <2>4
  <2> QED BY <2>1, <2>2, <2>3, <2>5, AgeKept
<1>3. ASSUME NEW r \in SecretReaders, LogsIn(r), reader[r].at \in {"ensure", "renew"},
             UNCHANGED <<session, issued>> PROVE AgeInv'
  <2>1. /\ reader'[r].at = "login" /\ reader'[r].tok = reader[r].tok
        /\ reader'[r].pass = reader[r].pass /\ reader'[r].refused = reader[r].refused
        /\ \A e \in SecretReaders \ {r} : reader'[e] = reader[e]
    BY <1>b, <1>3 DEF LogsIn, ReaderRecords
  <2> QED BY <1>b, <1>i, <1>3, <2>1, AgeKept
<1>4. ASSUME NEW r \in SecretReaders, NEW s, s.gen \in Nat, s.tok \in Nat,
             NEW minted \in Nat,
             reader' = [reader EXCEPT ![r] = [ReadsWith(r, s) EXCEPT !.minted = minted]]
      PROVE  /\ reader'[r].at = "read" /\ reader'[r].tok = s.tok
             /\ reader'[r].pass = reader[r].pass /\ reader'[r].refused = reader[r].refused
             /\ \A e \in SecretReaders \ {r} : reader'[e] = reader[e]
  BY <1>b, <1>4 DEF ReadsWith, ReaderRecords
<1>5. ASSUME NEW r \in SecretReaders, EnsureToken(r) PROVE AgeInv'
  <2>1. reader[r].at = "ensure" /\ UNCHANGED <<session, issued>>
    BY <1>5 DEF EnsureToken
  <2>2. CASE session # NoVaultSession /\ reader' = [reader EXCEPT ![r] = ReadsWith(r, session)]
    <3>1. /\ reader'[r].at = "read" /\ reader'[r].tok = session.tok
          /\ reader'[r].pass = reader[r].pass /\ reader'[r].refused = reader[r].refused
          /\ \A e \in SecretReaders \ {r} : reader'[e] = reader[e]
      BY <1>b, <2>2 DEF ReadsWith, ReaderRecords, SessionRecords
    <3> QED BY <1>b, <1>i, <2>1, <2>2, <3>1, AgeOfSession
  <2>3. CASE At(r, "renew")
    <3>1. /\ reader'[r].at = "renew" /\ reader'[r].tok = reader[r].tok
          /\ reader'[r].pass = reader[r].pass /\ reader'[r].refused = reader[r].refused
          /\ \A e \in SecretReaders \ {r} : reader'[e] = reader[e]
      BY <1>b, <2>3 DEF At, ReaderRecords
    <3> QED BY <1>b, <1>i, <2>1, <3>1, AgeKept
  <2>4. CASE LogsIn(r)
    BY <1>3, <2>1, <2>4
  <2> QED BY <1>5, <2>2, <2>3, <2>4 DEF EnsureToken
<1>6. ASSUME NEW r \in SecretReaders, RenewAnswered(r) PROVE AgeInv'
  <2>1. reader[r].at = "renew" /\ issued' = issued
    BY <1>6 DEF RenewAnswered
  <2>2. CASE /\ session.tok \in good
             /\ \E lease \in Leases, renewable \in BOOLEAN :
                   LET s == Session(session.tok, lease, renewable) IN
                   session' = s /\ reader' = [reader EXCEPT ![r] = ReadsWith(r, s)]
    <3>1. PICK s \in SessionRecords :
              /\ session' = s /\ s.tok = session.tok
              /\ reader' = [reader EXCEPT ![r] = ReadsWith(r, s)]
      BY <1>b, <2>2, SessionIs DEF SessionInv
    <3>2. /\ reader'[r].at = "read" /\ reader'[r].tok = session'.tok
          /\ reader'[r].pass = reader[r].pass /\ reader'[r].refused = reader[r].refused
          /\ \A e \in SecretReaders \ {r} : reader'[e] = reader[e]
      BY <1>b, <3>1 DEF ReadsWith, ReaderRecords, SessionRecords
    <3>3. session # NoVaultSession
      <4>1. good \subseteq 1 .. issued
        BY DEF SessionInv, SessionBase
      <4>2. session.tok # 0
        BY <1>b, <2>2, <4>1
      <4> QED BY <4>2, NoSessionIs
    <3> QED BY <1>b, <1>i, <2>1, <3>1, <3>2, <3>3, AgeOfSession
  <2>3. CASE LogsIn(r) /\ UNCHANGED session
    BY <1>3, <2>1, <2>3
  <2> QED BY <1>6, <2>2, <2>3 DEF RenewAnswered
<1>7. ASSUME NEW r \in SecretReaders, LoginSucceeds(r) PROVE AgeInv'
  <2>1. reader[r].at = "login" /\ issued' = issued + 1
    BY <1>7 DEF LoginSucceeds
  <2>2. PICK lease \in Leases, renewable \in BOOLEAN :
            LET s == Session(issued + 1, lease, renewable) IN
            /\ session' = s
            /\ reader' = [reader EXCEPT ![r] = [ReadsWith(r, s) EXCEPT !.minted = @ + 1]]
    BY <1>7 DEF LoginSucceeds
  <2>3. PICK s \in SessionRecords :
            /\ session' = s /\ s.tok = issued + 1
            /\ reader' = [reader EXCEPT ![r] = [ReadsWith(r, s) EXCEPT !.minted = @ + 1]]
    BY <1>i, <2>2, SessionIs DEF SessionInv
  <2>4. /\ reader'[r].at = "read" /\ reader'[r].tok = session'.tok
        /\ reader'[r].pass = reader[r].pass /\ reader'[r].refused = reader[r].refused
        /\ \A e \in SecretReaders \ {r} : reader'[e] = reader[e]
    BY <1>b, <2>3 DEF ReadsWith, ReaderRecords, SessionRecords
  <2> QED BY <1>i, <2>1, <2>3, <2>4, AgeOfSession
<1>8. ASSUME NEW r \in SecretReaders, LoginAttemptFails(r) PROVE AgeInv'
  <2>1. reader[r].at = "login" /\ UNCHANGED session
    BY <1>8 DEF LoginAttemptFails
  <2>2. PICK again \in BOOLEAN, lost \in BOOLEAN :
            /\ issued' = (IF lost THEN issued + 1 ELSE issued)
            /\ reader' = [reader EXCEPT ![r].at = IF again THEN "login" ELSE "failed",
                                        ![r].attempt = IF again THEN @ + 1 ELSE @,
                                        ![r].minted = IF lost THEN @ + 1 ELSE @]
    <3>1. PICK err \in TransportErrors, lost \in BOOLEAN :
            /\ issued' = (IF lost THEN issued + 1 ELSE issued)
            /\ LET again == TriesAgain(UndeliveredOnly, reader[r].attempt, err) IN
               reader' = [reader EXCEPT ![r].at = IF again THEN "login" ELSE "failed",
                                        ![r].attempt = IF again THEN @ + 1 ELSE @,
                                        ![r].minted = IF lost THEN @ + 1 ELSE @]
      BY <1>8 DEF LoginAttemptFails
    <3>2. TriesAgain(UndeliveredOnly, reader[r].attempt, err) \in BOOLEAN
      BY DEF TriesAgain
    <3> QED BY <3>1, <3>2
  <2>3. /\ reader'[r].at \in {"login", "failed"} /\ reader'[r].tok = reader[r].tok
        /\ reader'[r].pass = reader[r].pass /\ reader'[r].refused = reader[r].refused
        /\ \A e \in SecretReaders \ {r} : reader'[e] = reader[e]
    BY <1>b, <2>2 DEF ReaderRecords
  <2>4. issued' \in Nat /\ issued <= issued'
    BY <1>b, <1>i, <2>2
  <2> QED BY <2>1, <2>3, <2>4, AgeKept
<1>9. ASSUME NEW r \in SecretReaders, ReadAnswered(r) PROVE AgeInv'
  <2>1. reader[r].at = "read" /\ UNCHANGED <<session, issued>>
    BY <1>9 DEF ReadAnswered
  <2>2. PICK s \in {"value", "failed", "lock", "forbidden"} :
          /\ s = "lock" => reader[r].pass = 1
          /\ s = "forbidden" => reader[r].pass # 1
          /\ reader' = [reader EXCEPT ![r].at = s,
                          ![r].pass = IF s = "lock" THEN 2 ELSE @,
                          ![r].first = IF reader[r].pass = 1 THEN reader[r].gen ELSE @,
                          ![r].refused = IF reader[r].pass = 1 THEN reader[r].tok ELSE @]
    <3>1. CASE reader[r].tok \in good /\ ~denies
      BY <1>9, <3>1 DEF ReadAnswered
    <3>2. CASE ~(reader[r].tok \in good /\ ~denies)
      BY <1>9, <3>2 DEF ReadAnswered
    <3> QED BY <3>1, <3>2
  <2>3. /\ reader'[r].at = s /\ reader'[r].tok = reader[r].tok
        /\ reader'[r].pass = (IF s = "lock" THEN 2 ELSE reader[r].pass)
        /\ reader'[r].refused = (IF reader[r].pass = 1 THEN reader[r].tok ELSE reader[r].refused)
        /\ \A e \in SecretReaders \ {r} : reader'[e] = reader[e]
    BY <1>b, <2>2 DEF ReaderRecords
  <2>4. /\ AgeOf(r) /\ reader[r].tok \in Nat /\ reader[r].tok <= issued /\ reader[r].pass \in 1 .. 2
        /\ reader[r].refused \in Nat
    <3>1. SessionState(r) /\ AgeOf(r)
      BY SessionFacts DEF AgeInv
    <3> QED BY <3>1 DEF SessionState, ReaderInv, ReaderRecords
  <2>5. AgeOf(r)'
    <3>1. CASE reader[r].pass = 1
      BY <2>1, <2>2, <2>3, <2>4, <3>1 DEF AgeOf
    <3>2. CASE reader[r].pass = 2
      BY <2>1, <2>2, <2>3, <2>4, <3>2 DEF AgeOf
    <3> QED BY <2>4, <3>1, <3>2
  <2> QED BY <1>b, <1>i, <2>1, <2>3, <2>5, AgeFollows
<1> QED BY <1>1, <1>2, <1>5, <1>6, <1>7, <1>8, <1>9 DEF SessionNext

LEMMA AgeInvariant == SessionSpec => []AgeInv
<1>1. SessionInit => AgeInv
  <2> SUFFICES ASSUME SessionInit, NEW r \in SecretReaders PROVE AgeOf(r)
    BY DEF AgeInv
  <2>1. reader[r] = IdleReader /\ session = NoVaultSession /\ issued = 0
    BY DEF SessionInit
  <2>2. IdleReader.at = "idle" /\ IdleReader.pass = 1 /\ IdleReader.refused = 0
    BY DEF IdleReader
  <2> QED BY <2>1, <2>2 DEF AgeOf
<1>2. SessionInv /\ AgeInv /\ [SessionNext]_sessionVars => AgeInv'
  BY AgeStep
<1> QED BY <1>1, <1>2, SessionInvariant, PTL DEF SessionSpec

\* The provider logs in for a reason and once each time, and blames the policy only
\* after a second read with another session: one of a token issued later, or the
\* refused token's own if it was renewed in between.  For any number of readers,
\* tokens and leases.
THEOREM LoginsJustifiedHolds == SessionSpec => []LoginsJustified
<1>1. SessionInv /\ AgeInv => LoginsJustified
  <2> SUFFICES ASSUME SessionInv, AgeInv PROVE LoginsJustified
    OBVIOUS
  <2>1. NoLoginStorm /\ OneTokenPerLogin
    BY DEF SessionInv, CreditInv, ReaderInv, NoLoginStorm, OneTokenPerLogin
  <2>2. ASSUME NEW r \in SecretReaders, reader[r].at = "forbidden"
        PROVE  \/ reader[r].tok > reader[r].refused
               \/ reader[r].tok = reader[r].refused /\ reader[r].gen > reader[r].first
    <3>1. SessionState(r) /\ AgeOf(r)
      BY SessionFacts DEF AgeInv
    <3>2. reader[r].tok \in Nat /\ reader[r].refused \in Nat
      BY <3>1 DEF SessionState, ReaderRecords
    <3>3. reader[r].refused <= reader[r].tok
      BY <2>2, <3>1 DEF AgeOf
    <3>4. reader[r].gen > reader[r].first
      BY <2>2, <3>1 DEF SessionState, ReaderInv
    <3> QED BY <3>2, <3>3, <3>4
  <2> QED BY <2>1, <2>2 DEF LoginsJustified, ForbiddenAfterRenewal
<1> QED BY <1>1, SessionInvariant, AgeInvariant, PTL

\* Every variable of the provider keeps its type, and the mutex is free when
\* nobody is in it.
THEOREM SessionTypeCorrect == SessionSpec => []SessionTypeOK
<1>1. SessionInv /\ AgeInv => SessionTypeOK
  <2> SUFFICES ASSUME SessionInv, AgeInv PROVE SessionTypeOK
    OBVIOUS
  <2>0. issued \in Nat /\ SessionBase /\ LatestInv
    BY VaultSessionAssumption DEF SessionInv, SessionBase
  <2>1. session \in [gen : Nat, tok : 0 .. issued, renewAt : Nat, renewable : BOOLEAN]
    BY <2>0 DEF SessionBase, LatestInv, SessionRecords
  <2>2. ASSUME NEW r \in SecretReaders
        PROVE  reader[r] \in [at : ReaderSteps, gen : Nat, tok : 0 .. issued, first : Nat,
                              refused : 0 .. issued, pass : 1 .. 2, attempt : 0 .. 3, minted : Nat]
    <3>1. reader[r] \in ReaderRecords /\ reader[r].tok <= issued /\ reader[r].refused <= issued
      BY <2>0 DEF SessionBase, SessionInv, ReaderInv, AgeInv, AgeOf
    <3> QED BY <2>0, <3>1 DEF ReaderRecords
  <2>3. reader \in [SecretReaders -> [at : ReaderSteps, gen : Nat, tok : 0 .. issued, first : Nat,
                                      refused : 0 .. issued, pass : 1 .. 2, attempt : 0 .. 3, minted : Nat]]
    BY <2>0, <2>2 DEF SessionBase
  <2>4. holder = Free <=> \A r \in SecretReaders : reader[r].at \notin HoldSteps
    BY <2>0, VaultSessionAssumption DEF SessionBase, SessionInv, ReaderInv
  <2> QED BY <2>0, <2>1, <2>3, <2>4 DEF SessionBase, SessionTypeOK, ReaderSteps, HoldSteps
<1> QED BY <1>1, SessionInvariant, AgeInvariant, PTL

-----------------------------------------------------------------------------
(* JwksRefresh: RefreshSound.  A request that lacked its key at the        *)
(* generation it validated against lacks it as long as the generation      *)
(* stands, since the keys and the generation move together; and only the   *)
(* one that fetches moves them.                                            *)

JwtSteps == {"start", "validated", "wait", "again", "accepted", "denied", "dropped"} \cup Fetching
JwtRecords == [at : JwtSteps, kid : TokenKids, ok : BOOLEAN, genAt : Nat, genBefore : Nat,
               answer : DOMAIN JwksDocs \cup {NoDoc}, gaveUp : BOOLEAN]
BeforeVerdict == {"validated", "wait"} \cup Fetching

JwksBase ==
    /\ published \in DOMAIN JwksDocs
    /\ held \in DOMAIN JwksDocs \cup {NoDoc} /\ etag \in {held, NoDoc}
    /\ generation \in Nat
    /\ jwksClock \in 0 .. MaxJwksClock
    /\ lastAttempt \in 0 .. Never /\ lastSuccess \in 0 .. Never
    /\ fetching \in JwtReqs \cup {Nobody}
    /\ jwt \in [JwtReqs -> JwtRecords]

AttemptsInv ==
    /\ attempts \in Seq(0 .. MaxJwksClock)
    /\ attempts = <<>> \/ (lastAttempt = attempts[Len(attempts)] /\ lastAttempt <= jwksClock)
    /\ AttemptsSpaced

JwtInv(r) ==
    /\ jwt[r].at \in Fetching <=> fetching = r
    /\ jwt[r].at \in Fetching => jwt[r].genBefore = generation
    /\ jwt[r].at \in BeforeVerdict =>
          /\ jwt[r].genAt <= generation
          /\ ~jwt[r].ok /\ jwt[r].genAt = generation => jwt[r].kid \notin HeldKids

JwksInv == JwksBase /\ AttemptsInv /\ \A r \in JwtReqs : JwtInv(r)

LEMMA JwtStepsAre ==
    /\ "start" \in JwtSteps /\ "validated" \in JwtSteps /\ "wait" \in JwtSteps /\ "again" \in JwtSteps
    /\ "accepted" \in JwtSteps /\ "denied" \in JwtSteps /\ "dropped" \in JwtSteps
    /\ "fetch" \in JwtSteps /\ "answered" \in JwtSteps
    /\ "fetch" \in Fetching /\ "answered" \in Fetching
    /\ "start" \notin Fetching /\ "validated" \notin Fetching /\ "wait" \notin Fetching
    /\ "again" \notin Fetching /\ "accepted" \notin Fetching /\ "denied" \notin Fetching
    /\ "dropped" \notin Fetching
    /\ "start" \notin BeforeVerdict /\ "again" \notin BeforeVerdict /\ "accepted" \notin BeforeVerdict
    /\ "denied" \notin BeforeVerdict /\ "dropped" \notin BeforeVerdict
    /\ "validated" \in BeforeVerdict /\ "wait" \in BeforeVerdict
    /\ Fetching \subseteq BeforeVerdict
BY DEF JwtSteps, Fetching, BeforeVerdict

\* The request moves, and nobody else.
JwtMoves(r, rec) ==
    /\ rec \in JwtRecords /\ jwt' = [jwt EXCEPT ![r] = rec]
    /\ rec.kid = jwt[r].kid

\* Keys, clock and attempts as they were.
LEMMA JwtStep ==
    ASSUME JwksInv, NEW r \in JwtReqs, NEW rec, JwtMoves(r, rec), SameIdp, SameKeys,
           fetching' \in JwtReqs \cup {Nobody},
           \A q \in JwtReqs \ {r} : fetching' = q <=> fetching = q,
           rec.at \in Fetching <=> fetching' = r,
           rec.at \in Fetching => rec.genBefore = generation,
           rec.at \in BeforeVerdict =>
              /\ rec.genAt <= generation
              /\ ~rec.ok /\ rec.genAt = generation => rec.kid \notin HeldKids,
           lastAttempt' \in 0 .. Never, AttemptsInv',
           jwt[r].at # "denied" /\ rec.at = "denied" =>
              \/ jwt[r].kid \notin HeldKids
              \/ rec.gaveUp
              \/ rec.genAt # rec.genBefore
    PROVE  JwksInv' /\ WinnerHelps
<1>1. /\ jwt' \in [JwtReqs -> JwtRecords] /\ jwt'[r] = rec
      /\ \A q \in JwtReqs \ {r} : jwt'[q] = jwt[q]
  BY DEF JwksInv, JwksBase, JwtMoves
<1>2. HeldKids' = HeldKids /\ generation' = generation
  BY DEF SameKeys, HeldKids
<1>3. JwksBase'
  BY <1>1 DEF JwksInv, JwksBase, SameKeys, SameIdp
<1>4. \A q \in JwtReqs : JwtInv(q)'
  BY <1>1, <1>2 DEF JwksInv, JwtInv, JwtMoves
<1>5. WinnerHelps
  BY <1>1 DEF WinnerHelps
<1> QED BY <1>3, <1>4, <1>5 DEF JwksInv

\* The types a step of request r starts from.
JwksState(r) ==
    /\ JwksBase /\ AttemptsInv /\ JwtInv(r)
    /\ jwt \in [JwtReqs -> JwtRecords] /\ jwt[r] \in JwtRecords
    /\ jwt[r].genAt \in Nat /\ jwt[r].genBefore \in Nat /\ generation \in Nat

LEMMA JwksFacts == ASSUME JwksInv, NEW r \in JwtReqs PROVE JwksState(r)
<1>1. JwksBase /\ AttemptsInv /\ JwtInv(r) /\ jwt \in [JwtReqs -> JwtRecords] /\ generation \in Nat
  BY DEF JwksInv, JwksBase
<1>2. jwt[r] \in JwtRecords
  BY <1>1
<1>3. jwt[r].genAt \in Nat /\ jwt[r].genBefore \in Nat
  BY <1>2 DEF JwtRecords
<1> QED BY <1>1, <1>2, <1>3 DEF JwksState

\* Nothing was attempted.
LEMMA SameAttempts ==
    ASSUME JwksInv, UNCHANGED <<lastAttempt, attempts, jwksClock>>
    PROVE  AttemptsInv' /\ lastAttempt' \in 0 .. Never
BY DEF JwksInv, JwksBase, AttemptsInv, AttemptsSpaced

\* claim_attempt keeps the floor.
LEMMA AttemptMade ==
    ASSUME JwksInv, ClaimAttempt, lastAttempt' = jwksClock, attempts' = Append(attempts, jwksClock),
           jwksClock' = jwksClock
    PROVE  AttemptsInv' /\ lastAttempt' \in 0 .. Never
<1> DEFINE n == Len(attempts)
<1>1. /\ attempts \in Seq(0 .. MaxJwksClock) /\ jwksClock \in 0 .. MaxJwksClock
      /\ MaxJwksClock \in Nat /\ MinRefresh \in Nat /\ n \in Nat /\ lastAttempt \in Nat
      /\ attempts = <<>> \/ (lastAttempt = attempts[n] /\ lastAttempt <= jwksClock)
      /\ \A i \in 1 .. n - 1 : attempts[i + 1] - attempts[i] >= MinRefresh
  BY JwksAssumption DEF JwksInv, JwksBase, AttemptsInv, AttemptsSpaced, Never
<1>2. /\ attempts' \in Seq(0 .. MaxJwksClock) /\ Len(attempts') = n + 1
      /\ \A i \in 1 .. n : attempts'[i] = attempts[i]
      /\ attempts'[n + 1] = jwksClock
  BY <1>1
<1>3. n >= 1 => jwksClock - attempts[n] >= MinRefresh
  <2> SUFFICES ASSUME n >= 1 PROVE jwksClock - attempts[n] >= MinRefresh
    OBVIOUS
  <2>1. attempts # <<>>
    OBVIOUS
  <2>2. lastAttempt = attempts[n] /\ lastAttempt # Never
    BY <1>1, <2>1 DEF Never
  <2> QED BY <2>2 DEF ClaimAttempt
<1>4. ASSUME NEW i \in 1 .. Len(attempts') - 1
      PROVE  attempts'[i + 1] - attempts'[i] >= MinRefresh
  <2>1. i \in 1 .. n
    BY <1>1, <1>2
  <2>2. CASE i = n
    BY <1>1, <1>2, <1>3, <2>1, <2>2
  <2>3. CASE i < n
    <3>1. i \in 1 .. n - 1 /\ i + 1 \in 1 .. n
      BY <1>1, <2>1, <2>3
    <3>2. attempts'[i + 1] = attempts[i + 1] /\ attempts'[i] = attempts[i]
      BY <1>2, <2>1, <3>1
    <3> QED BY <1>1, <3>1, <3>2
  <2> QED BY <1>1, <2>1, <2>2, <2>3
<1>5. AttemptsSpaced'
  BY <1>4 DEF AttemptsSpaced
<1>6. lastAttempt' = attempts'[Len(attempts')] /\ lastAttempt' <= jwksClock'
  BY <1>1, <1>2
<1>7. lastAttempt' \in 0 .. Never
  BY <1>1 DEF Never
<1> QED BY <1>2, <1>5, <1>6, <1>7 DEF AttemptsInv

LEMMA ValidatedStep ==
    ASSUME JwksInv, NEW r \in JwtReqs, JwtValidated(r) PROVE JwksInv' /\ WinnerHelps
<1>f. JwksState(r)
  BY JwksFacts
<1>1. /\ jwt[r].at = "start" /\ SameIdp /\ SameKeys /\ UNCHANGED <<lastAttempt, fetching, attempts>>
      /\ jwt' = [jwt EXCEPT ![r].at = "validated", ![r].ok = Validates(r), ![r].genAt = generation]
  BY DEF JwtValidated
<1>2. PICK ok \in BOOLEAN : ok = Validates(r)
  <2>1. Validates(r) \in BOOLEAN
    BY SMT DEF Validates
  <2> QED BY <2>1, Zenon
<1>3. PICK rec \in JwtRecords :
          /\ JwtMoves(r, rec) /\ rec.at = "validated" /\ rec.ok = ok /\ rec.genAt = generation
          /\ rec.kid = jwt[r].kid
  <2> DEFINE rec == [jwt[r] EXCEPT !.at = "validated", !.ok = ok, !.genAt = generation]
  <2>1. /\ rec \in JwtRecords /\ rec.at = "validated" /\ rec.ok = ok /\ rec.genAt = generation
        /\ rec.kid = jwt[r].kid
    BY <1>f, JwtStepsAre DEF JwksState, JwtRecords
  <2>2. jwt' = [jwt EXCEPT ![r] = rec]
    BY <1>f, <1>1, <1>2 DEF JwksState
  <2> QED BY <2>1, <2>2 DEF JwtMoves
<1>4. fetching # r
  BY <1>f, <1>1, JwtStepsAre DEF JwksState, JwtInv
<1>5. ~rec.ok => rec.kid \notin HeldKids
  BY <1>2, <1>3 DEF Validates
<1>6. AttemptsInv' /\ lastAttempt' \in 0 .. Never /\ fetching' \in JwtReqs \cup {Nobody}
  BY <1>f, <1>1, SameAttempts DEF JwksState, JwksBase, SameIdp
<1>7. rec.genAt <= generation
  BY <1>f, <1>3 DEF JwksState
<1>8. rec.at \notin Fetching /\ rec.at # "denied"
  BY <1>3, JwtStepsAre
<1> QED BY <1>1, <1>3, <1>4, <1>5, <1>6, <1>7, <1>8, JwtStep

\* refresh_issuer under the lock: a request is denied there only if the keys
\* have not moved since it validated, or moved before it looked.
LEMMA LockStep ==
    ASSUME JwksInv, NEW r \in JwtReqs, jwt[r].at \in {"validated", "wait"}, fetching = Nobody,
           NEW seen \in Nat, HoldsLock(r, seen), SameIdp, SameKeys
    PROVE  JwksInv' /\ WinnerHelps
<1>f. JwksState(r)
  BY JwksFacts
<1>v. /\ jwt[r].genAt <= generation
      /\ ~jwt[r].ok /\ jwt[r].genAt = generation => jwt[r].kid \notin HeldKids
  BY <1>f, JwtStepsAre DEF JwksState, JwtInv
<1>n. fetching # r /\ \A q \in JwtReqs : fetching # q
  BY JwksAssumption
<1>1. CASE generation # seen
  <2>1. /\ jwt' = [jwt EXCEPT ![r].at = "again", ![r].genBefore = seen]
        /\ UNCHANGED <<lastAttempt, fetching, attempts>>
    BY <1>1 DEF HoldsLock
  <2>2. PICK rec \in JwtRecords : JwtMoves(r, rec) /\ rec.at = "again"
    <3> DEFINE rec == [jwt[r] EXCEPT !.at = "again", !.genBefore = seen]
    <3>1. rec \in JwtRecords /\ rec.at = "again" /\ rec.kid = jwt[r].kid
      BY <1>f, JwtStepsAre DEF JwksState, JwtRecords
    <3>2. jwt' = [jwt EXCEPT ![r] = rec]
      BY <1>f, <2>1 DEF JwksState
    <3> QED BY <3>1, <3>2 DEF JwtMoves
  <2>3. AttemptsInv' /\ lastAttempt' \in 0 .. Never
    BY <2>1, SameAttempts DEF SameIdp
  <2>4. rec.at \notin Fetching /\ rec.at \notin BeforeVerdict /\ rec.at # "denied"
    BY <2>2, JwtStepsAre
  <2>5. fetching' = fetching
    BY <2>1
  <2> QED BY <1>n, <2>2, <2>3, <2>4, <2>5, JwtStep
<1>2. CASE generation = seen /\ ClaimAttempt
  <2>1. /\ jwt' = [jwt EXCEPT ![r].at = "fetch", ![r].genBefore = seen]
        /\ lastAttempt' = jwksClock /\ fetching' = r /\ attempts' = Append(attempts, jwksClock)
    BY <1>2 DEF HoldsLock
  <2>2. PICK rec \in JwtRecords :
            /\ JwtMoves(r, rec) /\ rec.at = "fetch" /\ rec.genBefore = seen /\ rec.ok = jwt[r].ok
            /\ rec.genAt = jwt[r].genAt /\ rec.kid = jwt[r].kid
    <3> DEFINE rec == [jwt[r] EXCEPT !.at = "fetch", !.genBefore = seen]
    <3>1. /\ rec \in JwtRecords /\ rec.at = "fetch" /\ rec.genBefore = seen /\ rec.ok = jwt[r].ok
          /\ rec.genAt = jwt[r].genAt /\ rec.kid = jwt[r].kid
      BY <1>f, JwtStepsAre DEF JwksState, JwtRecords
    <3>2. jwt' = [jwt EXCEPT ![r] = rec]
      BY <1>f, <2>1 DEF JwksState
    <3> QED BY <3>1, <3>2 DEF JwtMoves
  <2>3. AttemptsInv' /\ lastAttempt' \in 0 .. Never
    BY <1>2, <2>1, AttemptMade DEF SameIdp
  <2>4. rec.at \in Fetching /\ rec.at # "denied" /\ rec.genBefore = generation
    BY <1>2, <2>2, JwtStepsAre
  <2>5. \A q \in JwtReqs \ {r} : fetching' = q <=> fetching = q
    BY <1>n, <2>1
  <2> QED BY <1>v, <2>1, <2>2, <2>3, <2>4, <2>5, JwtStep
<1>3. CASE generation = seen /\ ~ClaimAttempt
  <2>1. /\ jwt' = [jwt EXCEPT ![r].at = Concludes(r), ![r].genBefore = seen]
        /\ UNCHANGED <<lastAttempt, fetching, attempts>>
    BY <1>3 DEF HoldsLock
  <2>2. PICK rec \in JwtRecords :
            /\ JwtMoves(r, rec) /\ rec.at = Concludes(r) /\ rec.genBefore = seen
            /\ rec.genAt = jwt[r].genAt
    <3>1. PICK step \in JwtSteps : step = Concludes(r)
      BY JwtStepsAre DEF Concludes
    <3> DEFINE rec == [jwt[r] EXCEPT !.at = step, !.genBefore = seen]
    <3>2. /\ rec \in JwtRecords /\ rec.at = step /\ rec.genBefore = seen
          /\ rec.genAt = jwt[r].genAt /\ rec.kid = jwt[r].kid
      BY <1>f DEF JwksState, JwtRecords
    <3>3. jwt' = [jwt EXCEPT ![r] = rec]
      BY <1>f, <2>1, <3>1 DEF JwksState
    <3> QED BY <3>1, <3>2, <3>3 DEF JwtMoves
  <2>3. AttemptsInv' /\ lastAttempt' \in 0 .. Never
    BY <2>1, SameAttempts DEF SameIdp
  <2>4. rec.at \notin Fetching /\ rec.at \notin BeforeVerdict
    BY <2>2, JwtStepsAre DEF Concludes
  <2>5. rec.at = "denied" => jwt[r].kid \notin HeldKids \/ rec.genAt # rec.genBefore
    <3>1. rec.at = "denied" => ~jwt[r].ok
      BY <2>2 DEF Concludes
    <3> QED BY <1>v, <1>3, <2>2, <3>1
  <2>6. fetching' = fetching
    BY <2>1
  <2> QED BY <1>n, <2>2, <2>3, <2>4, <2>5, <2>6, JwtStep
<1> QED BY <1>1, <1>2, <1>3

LEMMA AskedStep ==
    ASSUME JwksInv, NEW r \in JwtReqs, RefreshAskedFor(r) PROVE JwksInv' /\ WinnerHelps
<1>f. JwksState(r)
  BY JwksFacts
<1>0. jwt[r].at = "validated" /\ SameIdp /\ SameKeys
  BY DEF RefreshAskedFor
<1>v. /\ jwt[r].genAt <= generation
      /\ ~jwt[r].ok /\ jwt[r].genAt = generation => jwt[r].kid \notin HeldKids
  BY <1>f, <1>0, JwtStepsAre DEF JwksState, JwtInv
<1>n. fetching # r /\ fetching \in JwtReqs \cup {Nobody}
  BY <1>f, <1>0, JwtStepsAre DEF JwksState, JwtInv, JwksBase
<1>1. CASE /\ jwt' = [jwt EXCEPT ![r].at = "wait", ![r].genBefore = generation]
           /\ UNCHANGED <<lastAttempt, fetching, attempts>>
  <2>1. PICK rec \in JwtRecords :
            /\ JwtMoves(r, rec) /\ rec.at = "wait" /\ rec.ok = jwt[r].ok
            /\ rec.genAt = jwt[r].genAt /\ rec.kid = jwt[r].kid
    <3> DEFINE rec == [jwt[r] EXCEPT !.at = "wait", !.genBefore = generation]
    <3>1. /\ rec \in JwtRecords /\ rec.at = "wait" /\ rec.ok = jwt[r].ok
          /\ rec.genAt = jwt[r].genAt /\ rec.kid = jwt[r].kid
      BY <1>f, JwtStepsAre DEF JwksState, JwtRecords
    <3>2. jwt' = [jwt EXCEPT ![r] = rec]
      BY <1>f, <1>1 DEF JwksState
    <3> QED BY <3>1, <3>2 DEF JwtMoves
  <2>2. AttemptsInv' /\ lastAttempt' \in 0 .. Never
    BY <1>0, <1>1, SameAttempts DEF SameIdp
  <2>3. rec.at \notin Fetching /\ rec.at # "denied"
    BY <2>1, JwtStepsAre
  <2>4. fetching' = fetching
    BY <1>1
  <2> QED BY <1>0, <1>v, <1>n, <2>1, <2>2, <2>3, <2>4, JwtStep
<1>2. CASE fetching = Nobody /\ HoldsLock(r, generation)
  <2>1. generation \in Nat
    BY <1>f DEF JwksState
  <2> QED BY <1>0, <1>2, <2>1, LockStep
<1>3. CASE /\ jwt' = [jwt EXCEPT ![r].at = "accepted"] /\ UNCHANGED <<lastAttempt, fetching, attempts>>
  <2>1. PICK rec \in JwtRecords : JwtMoves(r, rec) /\ rec.at = "accepted"
    <3> DEFINE rec == [jwt[r] EXCEPT !.at = "accepted"]
    <3>1. rec \in JwtRecords /\ rec.at = "accepted" /\ rec.kid = jwt[r].kid
      BY <1>f, JwtStepsAre DEF JwksState, JwtRecords
    <3>2. jwt' = [jwt EXCEPT ![r] = rec]
      BY <1>f, <1>3 DEF JwksState
    <3> QED BY <3>1, <3>2 DEF JwtMoves
  <2>2. AttemptsInv' /\ lastAttempt' \in 0 .. Never
    BY <1>0, <1>3, SameAttempts DEF SameIdp
  <2>3. rec.at \notin Fetching /\ rec.at # "denied" /\ rec.at \notin BeforeVerdict
    BY <2>1, JwtStepsAre
  <2>4. fetching' = fetching
    BY <1>3
  <2> QED BY <1>0, <1>n, <2>1, <2>2, <2>3, <2>4, JwtStep
<1> QED BY <1>1, <1>2, <1>3 DEF RefreshAskedFor

\* Waiting given up, an answer on its way, a second look, a dropped request.
LEMMA QueueStep ==
    ASSUME JwksInv, NEW r \in JwtReqs,
           LockTaken(r) \/ WaitGivenUp(r) \/ IdpAnswers(r) \/ JwtRevalidated(r) \/ JwtCancelled(r)
    PROVE  JwksInv' /\ WinnerHelps
<1>f. JwksState(r)
  BY JwksFacts
<1>b. fetching \in JwtReqs \cup {Nobody}
  BY <1>f DEF JwksState, JwksBase
<1>1. CASE LockTaken(r)
  <2>1. /\ jwt[r].at = "wait" /\ fetching = Nobody /\ HoldsLock(r, jwt[r].genBefore)
        /\ SameIdp /\ SameKeys /\ jwt[r].genBefore \in Nat
    BY <1>f, <1>1 DEF LockTaken, JwksState
  <2> QED BY <2>1, LockStep
<1>2. CASE WaitGivenUp(r)
  <2>1. /\ jwt[r].at = "wait" /\ SameIdp /\ SameKeys /\ UNCHANGED <<lastAttempt, fetching, attempts>>
        /\ jwt' = [jwt EXCEPT ![r].at = Concludes(r), ![r].gaveUp = TRUE]
    BY <1>2 DEF WaitGivenUp
  <2>2. PICK rec \in JwtRecords : JwtMoves(r, rec) /\ rec.at = Concludes(r) /\ rec.gaveUp = TRUE
    <3>1. PICK step \in JwtSteps : step = Concludes(r)
      BY JwtStepsAre DEF Concludes
    <3> DEFINE rec == [jwt[r] EXCEPT !.at = step, !.gaveUp = TRUE]
    <3>2. rec \in JwtRecords /\ rec.at = step /\ rec.gaveUp = TRUE /\ rec.kid = jwt[r].kid
      BY <1>f DEF JwksState, JwtRecords
    <3>3. jwt' = [jwt EXCEPT ![r] = rec]
      BY <1>f, <2>1, <3>1 DEF JwksState
    <3> QED BY <3>1, <3>2, <3>3 DEF JwtMoves
  <2>3. AttemptsInv' /\ lastAttempt' \in 0 .. Never
    BY <2>1, SameAttempts DEF SameIdp
  <2>4. rec.at \notin Fetching /\ rec.at \notin BeforeVerdict /\ fetching # r
    BY <1>f, <2>1, <2>2, JwtStepsAre DEF Concludes, JwksState, JwtInv
  <2>5. fetching' = fetching
    BY <2>1
  <2> QED BY <1>b, <2>1, <2>2, <2>3, <2>4, <2>5, JwtStep
<1>3. CASE IdpAnswers(r)
  <2>1. /\ jwt[r].at = "fetch" /\ SameIdp /\ SameKeys /\ UNCHANGED <<lastAttempt, fetching, attempts>>
        /\ jwt' = [jwt EXCEPT ![r].at = "answered", ![r].answer = published]
    BY <1>3 DEF IdpAnswers
  <2>2. PICK rec \in JwtRecords :
            /\ JwtMoves(r, rec) /\ rec.at = "answered" /\ rec.genBefore = jwt[r].genBefore
            /\ rec.ok = jwt[r].ok /\ rec.genAt = jwt[r].genAt /\ rec.kid = jwt[r].kid
    <3>1. published \in DOMAIN JwksDocs
      BY <1>f DEF JwksState, JwksBase
    <3> DEFINE rec == [jwt[r] EXCEPT !.at = "answered", !.answer = published]
    <3>2. /\ rec \in JwtRecords /\ rec.at = "answered" /\ rec.genBefore = jwt[r].genBefore
          /\ rec.ok = jwt[r].ok /\ rec.genAt = jwt[r].genAt /\ rec.kid = jwt[r].kid
      BY <1>f, <3>1, JwtStepsAre DEF JwksState, JwtRecords
    <3>3. jwt' = [jwt EXCEPT ![r] = rec]
      BY <1>f, <2>1 DEF JwksState
    <3> QED BY <3>2, <3>3 DEF JwtMoves
  <2>3. AttemptsInv' /\ lastAttempt' \in 0 .. Never
    BY <2>1, SameAttempts DEF SameIdp
  <2>4. /\ rec.at \in Fetching /\ rec.at # "denied" /\ fetching = r /\ rec.genBefore = generation
        /\ rec.genAt <= generation
        /\ ~rec.ok /\ rec.genAt = generation => rec.kid \notin HeldKids
    BY <1>f, <2>1, <2>2, JwtStepsAre DEF JwksState, JwtInv
  <2>5. fetching' = fetching
    BY <2>1
  <2> QED BY <1>b, <2>1, <2>2, <2>3, <2>4, <2>5, JwtStep
<1>4. CASE JwtRevalidated(r)
  <2>1. /\ jwt[r].at = "again" /\ SameIdp /\ SameKeys /\ UNCHANGED <<lastAttempt, fetching, attempts>>
        /\ jwt' = [jwt EXCEPT ![r].ok = Validates(r),
                              ![r].at = IF Validates(r) THEN "accepted" ELSE "denied"]
    BY <1>4 DEF JwtRevalidated
  <2>2. PICK ok \in BOOLEAN : ok = Validates(r)
    <3>1. Validates(r) \in BOOLEAN
      BY SMT DEF Validates
    <3> QED BY <3>1, Zenon
  <2>3. PICK rec \in JwtRecords : JwtMoves(r, rec) /\ rec.at = IF ok THEN "accepted" ELSE "denied"
    <3>1. PICK step \in JwtSteps : step = IF ok THEN "accepted" ELSE "denied"
      BY JwtStepsAre
    <3> DEFINE rec == [jwt[r] EXCEPT !.ok = ok, !.at = step]
    <3>2. rec \in JwtRecords /\ rec.at = step /\ rec.kid = jwt[r].kid
      BY <1>f DEF JwksState, JwtRecords
    <3>3. jwt' = [jwt EXCEPT ![r] = rec]
      BY <1>f, <2>1, <2>2, <3>1 DEF JwksState
    <3> QED BY <3>1, <3>2, <3>3 DEF JwtMoves
  <2>4. AttemptsInv' /\ lastAttempt' \in 0 .. Never
    BY <2>1, SameAttempts DEF SameIdp
  <2>5. rec.at \notin Fetching /\ rec.at \notin BeforeVerdict /\ fetching # r
    BY <1>f, <2>1, <2>3, JwtStepsAre DEF JwksState, JwtInv
  <2>6. rec.at = "denied" => jwt[r].kid \notin HeldKids
    BY <2>2, <2>3 DEF Validates
  <2>7. fetching' = fetching
    BY <2>1
  <2> QED BY <1>b, <2>1, <2>3, <2>4, <2>5, <2>6, <2>7, JwtStep
<1>5. CASE JwtCancelled(r)
  <2>1. /\ SameIdp /\ SameKeys /\ UNCHANGED <<lastAttempt, attempts>>
        /\ jwt' = [jwt EXCEPT ![r].at = "dropped", ![r].answer = NoDoc]
        /\ fetching' = IF fetching = r THEN Nobody ELSE fetching
    BY <1>5 DEF JwtCancelled
  <2>2. PICK rec \in JwtRecords : JwtMoves(r, rec) /\ rec.at = "dropped"
    <3> DEFINE rec == [jwt[r] EXCEPT !.at = "dropped", !.answer = NoDoc]
    <3>1. rec \in JwtRecords /\ rec.at = "dropped" /\ rec.kid = jwt[r].kid
      BY <1>f, JwtStepsAre DEF JwksState, JwtRecords
    <3>2. jwt' = [jwt EXCEPT ![r] = rec]
      BY <1>f, <2>1 DEF JwksState
    <3> QED BY <3>1, <3>2 DEF JwtMoves
  <2>3. AttemptsInv' /\ lastAttempt' \in 0 .. Never
    BY <2>1, SameAttempts DEF SameIdp
  <2>4. rec.at \notin Fetching /\ rec.at \notin BeforeVerdict /\ rec.at # "denied"
    BY <2>2, JwtStepsAre
  <2>5. /\ fetching' # r /\ fetching' \in JwtReqs \cup {Nobody}
        /\ \A q \in JwtReqs \ {r} : fetching' = q <=> fetching = q
    BY <1>b, <2>1, JwksAssumption
  <2> QED BY <2>1, <2>2, <2>3, <2>4, <2>5, JwtStep
<1> QED BY <1>1, <1>2, <1>3, <1>4, <1>5

\* The fetch ends.  Keys and generation move together, and no other request
\* that fetches is there to compare with the generation of before.
LEMMA FetchStep ==
    ASSUME JwksInv, NEW r \in JwtReqs, DocumentArrives(r) \/ NotModified(r) \/ FetchFails(r)
    PROVE  JwksInv' /\ WinnerHelps
<1>f. JwksState(r)
  BY JwksFacts
<1>0. /\ jwt[r].at \in Fetching /\ fetching = r /\ fetching' = Nobody
      /\ SameIdp /\ UNCHANGED <<lastAttempt, attempts>>
      /\ jwt[r].genBefore = generation
      /\ ~jwt[r].ok /\ jwt[r].genAt = generation => jwt[r].kid \notin HeldKids
      /\ lastSuccess' \in 0 .. Never
  <2>1. /\ jwt[r].at \in Fetching /\ fetching' = Nobody /\ SameIdp /\ UNCHANGED <<lastAttempt, attempts>>
        /\ lastSuccess' \in {lastSuccess, jwksClock}
    BY JwtStepsAre DEF DocumentArrives, NotModified, FetchFails, MarkSuccess, SameKeys
  <2>2. lastSuccess' \in 0 .. Never
    BY <1>f, <2>1, JwksAssumption DEF JwksState, JwksBase, Never
  <2> QED BY <1>f, <2>1, <2>2, JwtStepsAre DEF JwksState, JwtInv
<1>1. PICK rec \in JwtRecords :
          /\ JwtMoves(r, rec) /\ rec.at \in {"again", Concludes(r)}
          /\ rec.genBefore = jwt[r].genBefore /\ rec.genAt = jwt[r].genAt
  <2>1. PICK step \in JwtSteps : /\ step \in {"again", Concludes(r)}
                                 /\ jwt' = [jwt EXCEPT ![r].at = step, ![r].answer = NoDoc]
    <3>1. Concludes(r) \in JwtSteps /\ "again" \in JwtSteps
      BY JwtStepsAre DEF Concludes
    <3> QED BY <3>1 DEF DocumentArrives, NotModified, FetchFails
  <2> DEFINE rec == [jwt[r] EXCEPT !.at = step, !.answer = NoDoc]
  <2>2. /\ rec \in JwtRecords /\ rec.at = step /\ rec.kid = jwt[r].kid
        /\ rec.genBefore = jwt[r].genBefore /\ rec.genAt = jwt[r].genAt
    BY <1>f DEF JwksState, JwtRecords
  <2>3. jwt' = [jwt EXCEPT ![r] = rec]
    BY <1>f, <2>1 DEF JwksState
  <2> QED BY <2>1, <2>2, <2>3 DEF JwtMoves
<1>2. /\ jwt' \in [JwtReqs -> JwtRecords] /\ jwt'[r] = rec
      /\ \A q \in JwtReqs \ {r} : jwt'[q] = jwt[q]
  BY <1>f, <1>1 DEF JwksState, JwtMoves
<1>3. \/ held' = held /\ etag' = etag /\ generation' = generation
      \/ /\ held' = jwt[r].answer /\ etag' \in {held', NoDoc} /\ generation' = generation + 1
  BY DEF DocumentArrives, NotModified, FetchFails, MarkSuccess, SetEtag, SameKeys
<1>4. JwksBase'
  <2>1. jwt[r].answer \in DOMAIN JwksDocs \cup {NoDoc}
    BY <1>f DEF JwksState, JwtRecords
  <2>2. held' \in DOMAIN JwksDocs \cup {NoDoc} /\ etag' \in {held', NoDoc} /\ generation' \in Nat
    BY <1>f, <1>3, <2>1 DEF JwksState, JwksBase
  <2> QED BY <1>f, <1>0, <1>2, <2>2 DEF JwksState, JwksBase, SameIdp
<1>5. AttemptsInv'
  BY <1>0, SameAttempts DEF SameIdp
<1>6. JwtInv(r)'
  <2>1. rec.at \notin Fetching /\ rec.at \notin BeforeVerdict
    BY <1>1, JwtStepsAre DEF Concludes
  <2> QED BY <1>0, <1>2, <2>1, JwksAssumption DEF JwtInv
<1>7. ASSUME NEW q \in JwtReqs, q # r PROVE JwtInv(q)'
  <2>1. JwksState(q)
    BY JwksFacts
  <2>2. jwt[q].at \notin Fetching /\ fetching' # q
    BY <1>0, <1>7, <2>1, JwksAssumption DEF JwksState, JwtInv
  <2>3. jwt'[q] = jwt[q]
    BY <1>2, <1>7
  <2>4. CASE held' = held /\ generation' = generation
    <3>1. HeldKids' = HeldKids
      BY <2>4 DEF HeldKids
    <3> QED BY <2>1, <2>2, <2>3, <2>4, <3>1 DEF JwksState, JwtInv
  <2>5. CASE generation' = generation + 1
    <3>1. jwt[q].at \in BeforeVerdict => jwt[q].genAt <= generation' /\ jwt[q].genAt # generation'
      BY <2>1, <2>5 DEF JwksState, JwtInv
    <3> QED BY <2>2, <2>3, <3>1 DEF JwtInv
  <2> QED BY <1>3, <2>4, <2>5
<1>8. WinnerHelps
  <2>1. rec.at = "denied" => ~jwt[r].ok
    BY <1>1 DEF Concludes
  <2>2. rec.at = "denied" => jwt[r].kid \notin HeldKids \/ rec.genAt # rec.genBefore
    BY <1>0, <1>1, <2>1
  <2> QED BY <1>2, <2>2 DEF WinnerHelps
<1> QED BY <1>4, <1>5, <1>6, <1>7, <1>8 DEF JwksInv

\* The IdP and the clock.
LEMMA IdpStep ==
    ASSUME JwksInv, IdpRotates \/ JwksClockTicks \/ UNCHANGED jwksVars
    PROVE  JwksInv' /\ WinnerHelps
<1>1. /\ UNCHANGED <<held, etag, generation, lastSuccess, lastAttempt, fetching, jwt, attempts>>
      /\ published' \in DOMAIN JwksDocs
      /\ jwksClock' \in 0 .. MaxJwksClock /\ jwksClock <= jwksClock'
  <2>1. published \in DOMAIN JwksDocs /\ jwksClock \in 0 .. MaxJwksClock /\ MaxJwksClock \in Nat
    BY JwksAssumption DEF JwksInv, JwksBase
  <2> QED BY <2>1 DEF IdpRotates, JwksClockTicks, jwksVars, SameKeys
<1>2. JwksBase'
  BY <1>1 DEF JwksInv, JwksBase
<1>3. AttemptsInv'
  <2>1. lastAttempt \in Nat /\ jwksClock \in Nat /\ jwksClock' \in Nat
    BY <1>1, JwksAssumption DEF JwksInv, JwksBase, Never
  <2> QED BY <1>1, <2>1 DEF JwksInv, AttemptsInv, AttemptsSpaced
<1>4. \A q \in JwtReqs : JwtInv(q)'
  BY <1>1 DEF JwksInv, JwtInv, HeldKids
<1>5. WinnerHelps
  BY <1>1 DEF WinnerHelps
<1> QED BY <1>2, <1>3, <1>4, <1>5 DEF JwksInv

LEMMA JwksStep == JwksInv /\ [JwksNext]_jwksVars => JwksInv' /\ WinnerHelps
BY IdpStep, ValidatedStep, AskedStep, QueueStep, FetchStep DEF JwksNext

LEMMA JwksInvariant == JwksSpec => []JwksInv
<1>1. JwksInit => JwksInv
  <2> SUFFICES ASSUME JwksInit PROVE JwksInv
    OBVIOUS
  <2>1. ASSUME NEW r \in JwtReqs
        PROVE  jwt[r] \in JwtRecords /\ jwt[r].at = "start"
    <3>1. PICK kid \in TokenKids : jwt[r] = IdleJwt(kid)
      BY DEF JwksInit
    <3> QED BY <3>1, JwtStepsAre DEF IdleJwt, JwtRecords
  <2>2. jwt \in [JwtReqs -> JwtRecords]
    BY <2>1 DEF JwksInit
  <2>3. lastAttempt \in 0 .. Never /\ lastSuccess \in 0 .. Never /\ jwksClock \in 0 .. MaxJwksClock
    BY JwksAssumption DEF JwksInit, Never
  <2>4. JwksBase
    BY <2>2, <2>3 DEF JwksInit, JwksBase
  <2>5. AttemptsInv
    BY DEF JwksInit, AttemptsInv, AttemptsSpaced
  <2>6. \A r \in JwtReqs : JwtInv(r)
    BY <2>1, JwtStepsAre, JwksAssumption DEF JwksInit, JwtInv
  <2> QED BY <2>4, <2>5, <2>6 DEF JwksInv
<1> QED BY <1>1, JwksStep, PTL DEF JwksSpec

\* Refreshes serve those who wait for them, keep the floor between them and send
\* the validator of the keys in use: for any documents, tokens, requests and
\* refresh settings.
THEOREM RefreshSoundHolds == JwksSpec => RefreshSound
<1>1. JwksInv' => AttemptsSpaced' /\ ValidatorOfTheKeys'
  BY DEF JwksInv, JwksBase, AttemptsInv, ValidatorOfTheKeys
<1>2. JwksInv /\ [JwksNext]_jwksVars =>
          [WinnerHelps /\ AttemptsSpaced' /\ ValidatorOfTheKeys']_jwksVars
  BY <1>1, JwksStep
<1> QED BY <1>2, JwksInvariant, PTL DEF JwksSpec, RefreshSound

\* Every variable of the key store and its refresh keeps its type.
THEOREM JwksTypeCorrect == JwksSpec => []JwksTypeOK
<1>1. JwksInv => JwksTypeOK
  BY DEF JwksInv, JwksBase, JwtInv, JwksTypeOK, JwtRecords, JwtSteps
<1> QED BY <1>1, JwksInvariant, PTL

=============================================================================
