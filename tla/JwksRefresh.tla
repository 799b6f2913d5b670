----------------------------- MODULE JwksRefresh -----------------------------
(***************************************************************************)
(* The signing keys of one trusted issuer (identity_jwt): fetched at boot, *)
(* and re-fetched from the verify path when a token needs a key that is    *)
(* not held, or when the keys are stale.  RefreshGate lets one fetch run   *)
(* at a time and keeps a floor between attempts; a request that queued     *)
(* behind a fetch learns from the generation that it replaced the keys.    *)
(*                                                                         *)
(* The IdP (external) publishes one of several documents, each with keys   *)
(* of its own, and may or may not send an ETag.  Requests run on several   *)
(* threads: the validation, the generation it compares with and the lock   *)
(* are steps of their own.  A token is named by its kid, and its           *)
(* signature and claims are good; DpopReplay models what follows.          *)
(***************************************************************************)
EXTENDS Naturals, Sequences

CONSTANTS JwksDocs,     \* the documents: the kids that each publishes
          TokenKids,    \* the kids tokens name; one of them is invented
          JwtReqs,      \* bound: requests
          RefreshSecs,  \* refresh_secs: when the keys are stale
          MinRefresh,   \* min_refresh_interval_secs
          MaxJwksClock, MaxJwksRotations \* bounds

Nobody == "nobody"

ASSUME JwksAssumption ==
    /\ Nobody \notin JwtReqs
    /\ RefreshSecs \in Nat /\ MinRefresh \in Nat \ {0}
    /\ MaxJwksClock \in Nat /\ MaxJwksRotations \in Nat

VARIABLES
    jwksClock,
    published,   \* the document the IdP publishes
    rotations,
    held,        \* the document behind the key store, or NoDoc
    etag,        \* the document its ETag names, or NoDoc
    generation,
    lastAttempt, lastSuccess, \* times, or Never
    fetching,    \* who holds the single-flight lock, or Nobody
    jwt,         \* jwt[r]: step, kid, verdict, generations it saw, answer
    attempts     \* when each refresh was sent

jwksVars == <<jwksClock, published, rotations, held, etag, generation, lastAttempt,
              lastSuccess, fetching, jwt, attempts>>

NoDoc == "no document"
Never == MaxJwksClock + 1
Fetching == {"fetch", "answered"}

IdleJwt(kid) == [at |-> "start", kid |-> kid, ok |-> FALSE, genAt |-> 0, genBefore |-> 0,
                 answer |-> NoDoc, gaveUp |-> FALSE]

JwksTypeOK ==
    /\ published \in DOMAIN JwksDocs
    /\ held \in DOMAIN JwksDocs \cup {NoDoc} /\ etag \in DOMAIN JwksDocs \cup {NoDoc}
    /\ generation \in Nat
    /\ lastAttempt \in 0 .. Never /\ lastSuccess \in 0 .. Never
    /\ fetching \in JwtReqs \cup {Nobody}
    /\ jwt \in [JwtReqs -> [at : {"start", "validated", "wait", "again", "accepted", "denied",
                                  "dropped"} \cup Fetching,
                            kid : TokenKids, ok : BOOLEAN, genAt : Nat, genBefore : Nat,
                            answer : DOMAIN JwksDocs \cup {NoDoc}, gaveUp : BOOLEAN]]
    /\ \A r \in JwtReqs : jwt[r].at \in Fetching <=> fetching = r

\* initialize_with: the boot fetch gave the keys, with or without an ETag, or
\* failed softly and left the store empty.
JwksInit ==
    /\ jwksClock = 0 /\ rotations = 0
    /\ published \in DOMAIN JwksDocs
    /\ held \in {published, NoDoc} /\ etag \in {held, NoDoc}
    /\ generation = IF held = NoDoc THEN 0 ELSE 1
    /\ lastAttempt = Never
    /\ lastSuccess = IF held = NoDoc THEN Never ELSE 0
    /\ fetching = Nobody
    /\ jwt \in [JwtReqs -> {IdleJwt(kid) : kid \in TokenKids}]
    /\ attempts = <<>>

SameIdp == UNCHANGED <<jwksClock, published, rotations>>
SameKeys == UNCHANGED <<held, etag, generation, lastSuccess>>
HeldKids == IF held = NoDoc THEN {} ELSE JwksDocs[held]

\* validate_token, on signature keys alone: UnknownKid or KeysUnavailable.
Validates(r) == jwt[r].kid \in HeldKids

\* The verdict is what the last validation said.
Concludes(r) == IF jwt[r].ok THEN "accepted" ELSE "denied"

JwtValidated(r) ==
    /\ jwt[r].at = "start"
    /\ jwt' = [jwt EXCEPT ![r].at = "validated", ![r].ok = Validates(r), ![r].genAt = generation]
    /\ SameIdp /\ SameKeys /\ UNCHANGED <<lastAttempt, fetching, attempts>>

IsStale == lastSuccess = Never \/ jwksClock - lastSuccess >= RefreshSecs

\* claim_attempt
ClaimAttempt == lastAttempt = Never \/ jwksClock - lastAttempt >= MinRefresh

\* refresh_issuer under the lock, up to the fetch: the winner replaced the keys,
\* or the floor forbids an attempt, or the fetch is sent.
HoldsLock(r, seen) ==
    IF generation # seen
    THEN /\ jwt' = [jwt EXCEPT ![r].at = "again", ![r].genBefore = seen]
         /\ UNCHANGED <<lastAttempt, fetching, attempts>>
    ELSE IF ClaimAttempt
         THEN /\ jwt' = [jwt EXCEPT ![r].at = "fetch", ![r].genBefore = seen]
              /\ lastAttempt' = jwksClock
              /\ fetching' = r
              /\ attempts' = Append(attempts, jwksClock)
         ELSE /\ jwt' = [jwt EXCEPT ![r].at = Concludes(r), ![r].genBefore = seen]
              /\ UNCHANGED <<lastAttempt, fetching, attempts>>

\* handle after the validation: a token that lacks its key is owed a refresh
\* and queues for the lock; one that validated tries the lock if the keys are
\* stale, and does not wait.
RefreshAskedFor(r) ==
    /\ jwt[r].at = "validated"
    /\ \/ /\ ~jwt[r].ok
          /\ jwt' = [jwt EXCEPT ![r].at = "wait", ![r].genBefore = generation]
          /\ UNCHANGED <<lastAttempt, fetching, attempts>>
       \/ /\ jwt[r].ok /\ IsStale /\ fetching = Nobody
          /\ HoldsLock(r, generation)
       \/ /\ jwt[r].ok /\ (~IsStale \/ fetching # Nobody)
          /\ jwt' = [jwt EXCEPT ![r].at = "accepted"]
          /\ UNCHANGED <<lastAttempt, fetching, attempts>>
    /\ SameIdp /\ SameKeys

LockTaken(r) ==
    /\ jwt[r].at = "wait" /\ fetching = Nobody
    /\ HoldsLock(r, jwt[r].genBefore)
    /\ SameIdp /\ SameKeys

\* REFRESH_WAIT_BUDGET runs out while another request fetches.
WaitGivenUp(r) ==
    /\ jwt[r].at = "wait" /\ fetching # Nobody
    /\ jwt' = [jwt EXCEPT ![r].at = Concludes(r), ![r].gaveUp = TRUE]
    /\ SameIdp /\ SameKeys /\ UNCHANGED <<lastAttempt, fetching, attempts>>

\* The IdP answers with the document it publishes at that moment.
IdpAnswers(r) ==
    /\ jwt[r].at = "fetch"
    /\ jwt' = [jwt EXCEPT ![r].at = "answered", ![r].answer = published]
    /\ SameIdp /\ SameKeys /\ UNCHANGED <<lastAttempt, fetching, attempts>>

\* set_etag
SetEtag(doc, sent) == IF sent THEN doc ELSE NoDoc

\* Mutant: mark_success without the generation.
MarkSuccessSilent == lastSuccess' = jwksClock /\ UNCHANGED generation

MarkSuccess == lastSuccess' = jwksClock /\ generation' = generation + 1

\* The document arrives whole and replaces the store; the IdP may have had a
\* validator to answer 304 to, and sends one or not.
DocumentArrives(r) ==
    /\ jwt[r].at = "answered" /\ jwt[r].answer # etag
    /\ held' = jwt[r].answer
    /\ \E sent \in BOOLEAN : etag' = SetEtag(jwt[r].answer, sent)
    /\ MarkSuccess
    /\ fetching' = Nobody
    /\ jwt' = [jwt EXCEPT ![r].at = "again", ![r].answer = NoDoc]
    /\ SameIdp /\ UNCHANGED <<lastAttempt, attempts>>

\* 304: the keys are current, and nobody need look again.
NotModified(r) ==
    /\ jwt[r].at = "answered" /\ jwt[r].answer = etag
    /\ lastSuccess' = jwksClock
    /\ fetching' = Nobody
    /\ jwt' = [jwt EXCEPT ![r].at = Concludes(r), ![r].answer = NoDoc]
    /\ SameIdp /\ UNCHANGED <<held, etag, generation, lastAttempt, attempts>>

\* Unreachable, too slow, unusable, or no longer permitted: the keys stay.
FetchFails(r) ==
    /\ jwt[r].at \in Fetching
    /\ fetching' = Nobody
    /\ jwt' = [jwt EXCEPT ![r].at = Concludes(r), ![r].answer = NoDoc]
    /\ SameIdp /\ SameKeys /\ UNCHANGED <<lastAttempt, attempts>>

\* Once more, against keys that changed.
JwtRevalidated(r) ==
    /\ jwt[r].at = "again"
    /\ jwt' = [jwt EXCEPT ![r].ok = Validates(r),
                          ![r].at = IF Validates(r) THEN "accepted" ELSE "denied"]
    /\ SameIdp /\ SameKeys /\ UNCHANGED <<lastAttempt, fetching, attempts>>

JwtCancelled(r) ==
    /\ jwt[r].at \in {"wait"} \cup Fetching
    /\ jwt' = [jwt EXCEPT ![r].at = "dropped", ![r].answer = NoDoc]
    /\ fetching' = IF fetching = r THEN Nobody ELSE fetching
    /\ SameIdp /\ SameKeys /\ UNCHANGED <<lastAttempt, attempts>>

IdpRotates ==
    /\ rotations < MaxJwksRotations
    /\ rotations' = rotations + 1
    /\ published' \in DOMAIN JwksDocs \ {published}
    /\ SameKeys /\ UNCHANGED <<jwksClock, lastAttempt, fetching, jwt, attempts>>

JwksClockTicks ==
    /\ jwksClock < MaxJwksClock
    /\ jwksClock' = jwksClock + 1
    /\ SameKeys /\ UNCHANGED <<published, rotations, lastAttempt, fetching, jwt, attempts>>

JwksNext ==
    \/ IdpRotates \/ JwksClockTicks
    \/ \E r \in JwtReqs :
          \/ JwtValidated(r) \/ RefreshAskedFor(r) \/ LockTaken(r) \/ WaitGivenUp(r)
          \/ IdpAnswers(r) \/ DocumentArrives(r) \/ NotModified(r) \/ FetchFails(r)
          \/ JwtRevalidated(r) \/ JwtCancelled(r)

JwksSpec == JwksInit /\ [][JwksNext]_jwksVars

-----------------------------------------------------------------------------
(* Properties.                                                             *)

\* "A floor between attempts": whatever tokens name and however refreshes end,
\* failed, dropped or not modified, two are never closer than the floor.
AttemptsSpaced ==
    \A i \in 1 .. Len(attempts) - 1 : attempts[i + 1] - attempts[i] >= MinRefresh

\* A 304 is about the keys in use: the validator sent is that of the document
\* they came from, or there is none, though the IdP stops sending it and goes
\* back to a document it published before.
ValidatorOfTheKeys == etag \in {held, NoDoc}

\* A token is denied for a key that is held only where the request stopped
\* waiting, or where the keys were replaced between its validation and its
\* look at the generation; a refresh that ended while it queued is not missed.
WinnerHelps ==
    \A r \in JwtReqs :
        jwt[r].at # "denied" /\ jwt'[r].at = "denied" =>
            \/ jwt[r].kid \notin HeldKids
            \/ jwt'[r].gaveUp
            \/ jwt'[r].genAt # jwt'[r].genBefore

\* Refreshes serve those who wait for them, at the IdP's pace and on the right
\* validator.
RefreshSound == [][WinnerHelps /\ AttemptsSpaced' /\ ValidatorOfTheKeys']_jwksVars
=============================================================================
