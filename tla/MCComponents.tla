---------------------------- MODULE MCComponents ----------------------------
(***************************************************************************)
(* Components with a state of their own, each explored by itself in one    *)
(* run: the initial state picks the part that moves, and the others stay   *)
(* as they start.  Lookups, refreshes and the like are the same two actors *)
(* in every part, which keeps the symmetry small.                          *)
(***************************************************************************)
EXTENDS ApiKeys, Quota, RateLimit, DecisionCache, AuditChain, SecretStore, TLC

CONSTANT Actors

MCSym == Permutations(Actors)

\* Two rate limits, and three secrets of two providers.
MCLimitOf == [one |-> 1, two |-> 2]
MCSecretOrder == <<"db", "api", "mail">>
MCSecretProviderOf == ("db" :> "file") @@ ("api" :> "vault") @@ ("mail" :> "vault")

VARIABLE part

Parts == {"keys", "quota", "rate", "cache", "audit", "secrets"}

\* A part that does not move has one initial state.
RateAtRest == rated = [r \in LimitedReqs |-> [at |-> "new", matched |-> {}]] /\ RateInit

ComponentsInit ==
    /\ part \in Parts
    /\ ApiKeyInit /\ QuotaInit /\ CacheInit /\ AuditInit /\ SecretInit
    /\ IF part = "rate" THEN RateInit ELSE RateAtRest

ComponentsNext ==
    /\ UNCHANGED part
    /\ \/ part = "keys" /\ ApiKeyNext
       \/ part # "keys" /\ UNCHANGED apiKeyVars
    /\ \/ part = "quota" /\ QuotaNext
       \/ part # "quota" /\ UNCHANGED quotaVars
    /\ \/ part = "rate" /\ RateNext
       \/ part # "rate" /\ UNCHANGED rateVars
    /\ \/ part = "cache" /\ CacheNext
       \/ part # "cache" /\ UNCHANGED cacheVars
    /\ \/ part = "audit" /\ AuditNext
       \/ part # "audit" /\ UNCHANGED auditVars
    /\ \/ part = "secrets" /\ SecretNext
       \/ part # "secrets" /\ UNCHANGED secretVars

componentsVars == <<part, apiKeyVars, quotaVars, rateVars, cacheVars, auditVars, secretVars>>

ComponentsSpec == ComponentsInit /\ [][ComponentsNext]_componentsVars

\* The type invariants of the parts.
ComponentsTypeOK ==
    /\ ApiKeyTypeOK /\ QuotaTypeOK /\ RateTypeOK /\ CacheTypeOK
    /\ AuditTypeOK /\ SecretTypeOK
=============================================================================
