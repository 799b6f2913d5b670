--------------------------- MODULE VaultDelegation ---------------------------
(***************************************************************************)
(* The Vault delegator (delegator_vault): log in, arm the revocation of    *)
(* the login token, read the secret, revoke, and serve the secret only if  *)
(* the revocation succeeded.  The revocation runs in a task of its own,    *)
(* which outlives the request: it starts when it is triggered or when the  *)
(* request is dropped and its trigger with it.                             *)
(*                                                                         *)
(* The credentials cache is moka's (external): one fetch for a key at a    *)
(* time, the others wait for it.  Requests here ask for the same key;      *)
(* caching may be off.  A call makes one login, so its token goes by its   *)
(* name.                                                                   *)
(***************************************************************************)
EXTENDS Naturals

CONSTANTS VaultCalls \* bound: delegations

VARIABLES
    caching,  \* the cache is configured
    secretOf, \* the call whose mint the cache holds, or NoCall
    vcall,    \* vcall[c]: step, what its KV read gave, whose mint it serves
    vtoken,   \* vtoken[c]: its login token, at Vault
    cleanup   \* cleanup[c]: the revocation task of its token

vaultVars == <<caching, secretOf, vcall, vtoken, cleanup>>

NoCall == "no call"
Ended == {"served", "denied", "dropped"}

VaultTypeOK ==
    /\ caching \in BOOLEAN
    /\ secretOf \in VaultCalls \cup {NoCall}
    /\ vcall \in [VaultCalls -> [at : {"idle", "wait", "login", "read", "revoke"} \cup Ended,
                                 read : {"none", "secret", "failed"},
                                 mint : VaultCalls \cup {NoCall}]]
    /\ vtoken \in [VaultCalls -> {"none", "unknown", "live", "revoked"}]
    /\ cleanup \in [VaultCalls -> {"none", "armed", "triggered", "ok", "failed"}]

VaultInit ==
    /\ caching \in BOOLEAN
    /\ secretOf = NoCall
    /\ vcall = [c \in VaultCalls |-> [at |-> "idle", read |-> "none", mint |-> NoCall]]
    /\ vtoken = [c \in VaultCalls |-> "none"]
    /\ cleanup = [c \in VaultCalls |-> "none"]

Leading == {c \in VaultCalls : vcall[c].at \in {"login", "read", "revoke"}}
Waiting == {c \in VaultCalls : caching /\ vcall[c].at = "wait"}

Goes(c, step) == vcall' = [vcall EXCEPT ![c].at = step]

\* Everyone a fetch was for ends with it.
EndFetch(c, step, mint) ==
    vcall' = [e \in VaultCalls |->
                IF e = c \/ e \in Waiting
                THEN [vcall[e] EXCEPT !.at = step, !.mint = mint] ELSE vcall[e]]

\* handle refuses: no auth for the subject, an actor, an attenuation or
\* permissions it cannot honour, no identity for the path, no credential.
RefuseDelegation(c) ==
    /\ vcall[c].at = "idle"
    /\ Goes(c, "denied")
    /\ UNCHANGED <<caching, secretOf, vtoken, cleanup>>

\* get_or_mint, or fetch_from_vault at once when nothing is cached.
StartDelegation(c) ==
    /\ vcall[c].at = "idle"
    /\ IF caching /\ secretOf # NoCall
       THEN vcall' = [vcall EXCEPT ![c].at = "served", ![c].mint = secretOf]
       ELSE Goes(c, IF caching /\ Leading # {} THEN "wait" ELSE "login")
    /\ UNCHANGED <<caching, secretOf, vtoken, cleanup>>

\* The token, and RevokeGuard::arm, with no await between them.
LoggedIn(c) ==
    /\ vtoken' = [vtoken EXCEPT ![c] = "live"]
    /\ cleanup' = [cleanup EXCEPT ![c] = "armed"]

LoginAnswered(c) ==
    /\ vcall[c].at = "login"
    /\ LoggedIn(c)
    /\ Goes(c, "read")
    /\ UNCHANGED <<caching, secretOf>>

\* Refused, unreachable, timed out, or an answer that holds no usable token:
\* Vault may have issued one that nobody here knows.
LoginFails(c) ==
    /\ vcall[c].at = "login"
    /\ \E t \in {"none", "unknown"} : vtoken' = [vtoken EXCEPT ![c] = t]
    /\ EndFetch(c, "denied", NoCall)
    /\ UNCHANGED <<caching, secretOf, cleanup>>

\* kv_read answers, and revoke triggers the task whatever the answer; a secret
\* without the configured field is a failed read too.
SecretRead(c) ==
    /\ vcall[c].at = "read"
    /\ \E got \in {"failed"} \cup (IF vtoken[c] = "live" THEN {"secret"} ELSE {}) :
          vcall' = [vcall EXCEPT ![c].at = "revoke", ![c].read = got]
    /\ cleanup' = [cleanup EXCEPT ![c] = "triggered"]
    /\ UNCHANGED <<caching, secretOf, vtoken>>

\* The task of the guard: one revoke-self.  An answer that is lost leaves the
\* token revoked and the task failed.
Revokes(c) ==
    /\ cleanup[c] = "triggered"
    /\ \/ /\ cleanup' = [cleanup EXCEPT ![c] = "ok"]
          /\ vtoken' = [vtoken EXCEPT ![c] = "revoked"]
       \/ /\ cleanup' = [cleanup EXCEPT ![c] = "failed"]
          /\ \E t \in {"live", "revoked"} : vtoken' = [vtoken EXCEPT ![c] = t]
    /\ UNCHANGED <<caching, secretOf, vcall>>

\* Mutant: a read that succeeded is enough.
MayServeUnrevoked(c) == vcall[c].read = "secret"

\* revoker.revoke().await? comes before kv_result?.
MayServe(c) == cleanup[c] = "ok" /\ vcall[c].read = "secret"

RevocationEnds(c) ==
    /\ vcall[c].at = "revoke"
    /\ cleanup[c] \in {"ok", "failed"}
    /\ IF MayServe(c)
       THEN /\ EndFetch(c, "served", c)
            /\ secretOf' = IF caching THEN c ELSE secretOf
       ELSE EndFetch(c, "denied", NoCall) /\ UNCHANGED secretOf
    /\ UNCHANGED <<caching, vtoken, cleanup>>

\* The request is dropped.  An armed guard goes with it and its trigger wakes
\* the task; at a login the token may have been issued.  When it led, one of
\* those waiting fetches.
DelegationCancelled(c) ==
    /\ vcall[c].at \in {"wait", "login", "read", "revoke"}
    /\ cleanup' = [cleanup EXCEPT ![c] = IF @ = "armed" THEN "triggered" ELSE @]
    /\ \E t \in IF vcall[c].at = "login" THEN {"none", "unknown"} ELSE {vtoken[c]} :
          vtoken' = [vtoken EXCEPT ![c] = t]
    /\ IF c \in Leading /\ Waiting # {}
       THEN \E e \in Waiting :
               vcall' = [vcall EXCEPT ![c].at = "dropped", ![e].at = "login"]
       ELSE Goes(c, "dropped")
    /\ UNCHANGED <<caching, secretOf>>

\* ttl_seconds, or max_entries.
CredentialRetired ==
    /\ secretOf # NoCall
    /\ secretOf' = NoCall
    /\ UNCHANGED <<caching, vcall, vtoken, cleanup>>

VaultNext ==
    \/ CredentialRetired
    \/ \E c \in VaultCalls :
          \/ RefuseDelegation(c) \/ StartDelegation(c) \/ LoginAnswered(c) \/ LoginFails(c)
          \/ SecretRead(c) \/ Revokes(c) \/ RevocationEnds(c) \/ DelegationCancelled(c)

VaultSpec == VaultInit /\ [][VaultNext]_vaultVars

-----------------------------------------------------------------------------
(* Properties.                                                             *)

\* A login token the delegator was given, and that is still good, has someone
\* who will revoke it or has tried to: the request, as long as it reads, or
\* the task that outlives it, wherever the request is dropped.
NoTokenAbandoned ==
    \A c \in VaultCalls :
        vtoken[c] = "live" =>
            \/ cleanup[c] = "armed" /\ vcall[c].at = "read"
            \/ cleanup[c] \in {"triggered", "failed"}

\* vault.rs: "no delegated credential was returned" when a revocation fails.
\* Whatever is served, to the caller that fetched it, to those that waited and
\* to those that find it cached, the token it was read with is revoked.
ServedMeansRevoked ==
    /\ \A c \in VaultCalls : vcall[c].at = "served" => vtoken[vcall[c].mint] = "revoked"
    /\ secretOf # NoCall => vtoken[secretOf] = "revoked"

\* A read under way is not cut short by the revocation of its own token.
ReadsWithItsToken ==
    \A c \in VaultCalls : vcall[c].at = "read" => vtoken[c] = "live"

\* Every login token is owned until it is revoked, and nothing read with it is
\* given out before that: dropped requests, waiters and the cache included.
RevokedOrOwned == NoTokenAbandoned /\ ServedMeansRevoked /\ ReadsWithItsToken
=============================================================================
