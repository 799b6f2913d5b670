----------------------------- MODULE SecretStore -----------------------------
(***************************************************************************)
(* Declared secrets (secrets/store.rs): every value is read at startup or  *)
(* there is no store; afterwards the host refreshes them, a provider at a  *)
(* time, under a lock.  A value that cannot be read keeps its last bytes.  *)
(* Whoever builds something from a value keeps the generation with it, and *)
(* rebuilds when the generation has moved.                                 *)
(*                                                                         *)
(* A value is the number of times its backend has rotated it.              *)
(***************************************************************************)
EXTENDS Naturals, Sequences

CONSTANTS SecretOrder,  \* the declared names, by provider and name
          SecretProviderOf,
          Refreshes,    \* bound: the host's calls of refresh
          MaxSecretRotations, MaxSecretClock \* bounds

NoRefresh == "none"

\* refresh walks the providers of a BTreeMap and the names of each: every name
\* is reached, and the names of a provider follow each other.
ASSUME SecretStoreAssumption ==
    /\ SecretOrder \in Seq(DOMAIN SecretProviderOf) /\ SecretOrder # <<>>
    /\ \A n \in DOMAIN SecretProviderOf : \E i \in 1 .. Len(SecretOrder) : SecretOrder[i] = n
    /\ \A i, j, k \in 1 .. Len(SecretOrder) :
          /\ i <= j /\ j <= k
          /\ SecretProviderOf[SecretOrder[i]] = SecretProviderOf[SecretOrder[k]]
          => SecretProviderOf[SecretOrder[j]] = SecretProviderOf[SecretOrder[i]]
    /\ MaxSecretRotations \in Nat /\ MaxSecretClock \in Nat
    /\ NoRefresh \notin Refreshes

SecretNames == DOMAIN SecretProviderOf
SecretProviders == {SecretProviderOf[n] : n \in SecretNames}

VARIABLES
    secretClock,
    backend,   \* backend[n]: the value at its provider
    resolve,   \* startup: the name it reads; past the last one it is up, 0 is failed
    cell,      \* cell[n]: value and generation, in memory
    health,    \* health[p]: time of the last success, and whether it fails now
    refresh,   \* refresh[f]: step, name it is at, what it read and when, since when
    refresher, \* who holds refresh_lock, or NoRefresh
    readAt,    \* readAt[n]: when the provider gave the bytes in memory
    since,     \* since[p]: when the refresh behind its last success began
    built      \* built[n]: the snapshot a consumer has built from

secretVars == <<secretClock, backend, resolve, cell, health, refresh, refresher, readAt,
                since, built>>

Resolving == resolve \in 1 .. Len(SecretOrder)
Resolved == resolve = Len(SecretOrder) + 1

IdleRefresh == [at |-> "idle", pos |-> 1, got |-> 0, failed |-> FALSE, began |-> 0, when |-> 0]

SecretTypeOK ==
    /\ backend \in [SecretNames -> 0 .. MaxSecretRotations]
    /\ resolve \in 0 .. Len(SecretOrder) + 1
    /\ cell \in [SecretNames -> [value : 0 .. MaxSecretRotations, gen : 0 .. MaxSecretRotations]]
    /\ health \in [SecretProviders -> [lastSuccess : 0 .. MaxSecretClock, failing : BOOLEAN]]
    /\ refresh \in [Refreshes -> [at : {"idle", "queued", "read", "store", "done"},
                                  pos : 1 .. Len(SecretOrder), got : Nat, failed : BOOLEAN,
                                  began : 0 .. MaxSecretClock, when : 0 .. MaxSecretClock]]
    /\ refresher \in Refreshes \cup {NoRefresh}

SecretInit ==
    /\ secretClock = 0
    /\ backend = [n \in SecretNames |-> 0]
    /\ resolve = 1
    /\ cell = [n \in SecretNames |-> [value |-> 0, gen |-> 0]]
    /\ health = [p \in SecretProviders |-> [lastSuccess |-> 0, failing |-> FALSE]]
    /\ refresh = [f \in Refreshes |-> IdleRefresh]
    /\ refresher = NoRefresh
    /\ readAt = [n \in SecretNames |-> 0]
    /\ since = [p \in SecretProviders |-> 0]
    /\ built = cell

-----------------------------------------------------------------------------
(* SecretStore::resolve.                                                   *)

\* One value after the other; the last one makes the store.
ResolveReads ==
    /\ Resolving
    /\ LET n == SecretOrder[resolve] IN
       /\ cell' = [cell EXCEPT ![n].value = backend[n]]
       /\ built' = [built EXCEPT ![n].value = backend[n]]
       /\ readAt' = [readAt EXCEPT ![n] = secretClock]
    /\ resolve' = resolve + 1
    /\ health' = IF resolve < Len(SecretOrder) THEN health
                 ELSE [p \in SecretProviders |-> [lastSuccess |-> secretClock, failing |-> FALSE]]
    /\ UNCHANGED <<secretClock, backend, refresh, refresher, since>>

ResolveFails ==
    /\ Resolving
    /\ resolve' = 0
    /\ UNCHANGED <<secretClock, backend, cell, health, refresh, refresher, readAt, since, built>>

-----------------------------------------------------------------------------
(* SecretStore::refresh.                                                   *)

RefreshAsked(f) ==
    /\ Resolved /\ refresh[f].at = "idle"
    /\ refresh' = [refresh EXCEPT ![f].at = "queued"]
    /\ UNCHANGED <<secretClock, backend, resolve, cell, health, refresher, readAt, since, built>>

\* Mutant: refreshes are not serialized.
RefreshLockFreeAlways == TRUE

RefreshLockFree == refresher = NoRefresh

RefreshLocks(f) ==
    /\ refresh[f].at = "queued" /\ RefreshLockFree
    /\ refresher' = f
    /\ refresh' = [refresh EXCEPT ![f].at = "read", ![f].began = secretClock]
    /\ UNCHANGED <<secretClock, backend, resolve, cell, health, readAt, since, built>>

\* record_refresh
Recorded(p, failed) ==
    IF failed THEN [health[p] EXCEPT !.failing = TRUE]
    ELSE [lastSuccess |-> secretClock, failing |-> FALSE]

\* The refresh is done with its name: the provider's health when it was the
\* provider's last, then the next name, or the lock is left.
Advances(f, failed) ==
    LET pos == refresh[f].pos
        p == SecretProviderOf[SecretOrder[pos]]
        last == pos = Len(SecretOrder)
        lastOfProvider == last \/ SecretProviderOf[SecretOrder[pos + 1]] # p
    IN /\ refresh' = [refresh EXCEPT ![f] =
                        IF last THEN [IdleRefresh EXCEPT !.at = "done"]
                        ELSE [@ EXCEPT !.at = "read", !.pos = pos + 1,
                                       !.failed = failed /\ ~lastOfProvider]]
       /\ refresher' = IF last THEN NoRefresh ELSE refresher
       /\ IF lastOfProvider
          THEN /\ health' = [health EXCEPT ![p] = Recorded(p, failed)]
               /\ since' = [since EXCEPT ![p] = IF Recorded(p, failed).failing THEN @ ELSE refresh[f].began]
          ELSE UNCHANGED <<health, since>>

\* get_secret answers with what the backend held when it answered.
SecretFetched(f) ==
    /\ refresh[f].at = "read"
    /\ refresh' = [refresh EXCEPT ![f].at = "store", ![f].when = secretClock,
                                   ![f].got = backend[SecretOrder[refresh[f].pos]]]
    /\ UNCHANGED <<secretClock, backend, resolve, cell, health, refresher, readAt, since, built>>

\* get_secret fails: the value in memory stays.
SecretFetchFails(f) ==
    /\ refresh[f].at = "read"
    /\ Advances(f, TRUE)
    /\ UNCHANGED <<secretClock, backend, resolve, cell, readAt, built>>

\* replace_if_changed
Replaced(n, v) ==
    IF cell[n].value = v THEN cell[n] ELSE [value |-> v, gen |-> cell[n].gen + 1]

SecretStored(f) ==
    /\ refresh[f].at = "store"
    /\ LET n == SecretOrder[refresh[f].pos] IN
       /\ cell' = [cell EXCEPT ![n] = Replaced(n, refresh[f].got)]
       /\ readAt' = [readAt EXCEPT ![n] = refresh[f].when]
    /\ Advances(f, refresh[f].failed)
    /\ UNCHANGED <<secretClock, backend, resolve, built>>

\* The host drops the refresh: what it replaced stays, no health is recorded.
RefreshDropped(f) ==
    /\ refresh[f].at \in {"queued", "read", "store"}
    /\ refresh' = [refresh EXCEPT ![f] = [IdleRefresh EXCEPT !.at = "done"]]
    /\ refresher' = IF refresher = f THEN NoRefresh ELSE refresher
    /\ UNCHANGED <<secretClock, backend, resolve, cell, health, readAt, since, built>>

-----------------------------------------------------------------------------
(* Backends, consumers and time.                                           *)

BackendRotates(n) ==
    /\ backend[n] < MaxSecretRotations
    /\ backend' = [backend EXCEPT ![n] = @ + 1]
    /\ UNCHANGED <<secretClock, resolve, cell, health, refresh, refresher, readAt, since, built>>

\* A consumer sees that the generation moved, and rebuilds from one snapshot.
Rebuilds(n) ==
    /\ Resolved /\ built[n].gen # cell[n].gen
    /\ built' = [built EXCEPT ![n] = cell[n]]
    /\ UNCHANGED <<secretClock, backend, resolve, cell, health, refresh, refresher, readAt, since>>

SecretClockTicks ==
    /\ secretClock < MaxSecretClock
    /\ secretClock' = secretClock + 1
    /\ UNCHANGED <<backend, resolve, cell, health, refresh, refresher, readAt, since, built>>

SecretNext ==
    \/ ResolveReads \/ ResolveFails \/ SecretClockTicks
    \/ \E n \in SecretNames : BackendRotates(n) \/ Rebuilds(n)
    \/ \E f \in Refreshes :
          \/ RefreshAsked(f) \/ RefreshLocks(f) \/ SecretFetched(f) \/ SecretFetchFails(f)
          \/ SecretStored(f) \/ RefreshDropped(f)

SecretSpec == SecretInit /\ [][SecretNext]_secretVars

-----------------------------------------------------------------------------
(* Properties.                                                             *)

\* Whoever compares generations is never fooled: at the generation it built
\* from, a consumer holds the bytes in memory.
SameGenerationSameBytes ==
    Resolved => \A n \in SecretNames : built[n].gen = cell[n].gen => built[n] = cell[n]

\* The age of last_success, which "a host alarms on", is never too young: every
\* value of the provider was read since the refresh it stands for began,
\* through failures, dropped refreshes and passes over other providers.
LastSuccessTruthful ==
    Resolved =>
        \A n \in SecretNames : readAt[n] >= since[SecretProviderOf[n]]

\* What the store tells its consumers and its operator is true: the generation
\* of the bytes, and the age of the values behind a provider's last success.
RefreshTruthful == SameGenerationSameBytes /\ LastSuccessTruthful
=============================================================================
