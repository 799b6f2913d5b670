---------------------------- MODULE VaultSession -----------------------------
(***************************************************************************)
(* The Vault secret provider (secrets/vault/provider.rs): it logs in when  *)
(* it first reads, renews on the read that finds the lease due, and after  *)
(* a 403 drops its session and logs in once more.  The session is under an *)
(* asynchronous mutex that is held across login and renewal; the KV read   *)
(* itself runs outside it, so a 403 may come for a session that another    *)
(* reader has replaced.                                                    *)
(*                                                                         *)
(* A renewal keeps the token and makes a new generation.  Vault is         *)
(* external: it may revoke a token, and its policy may deny the path.      *)
(***************************************************************************)
EXTENDS Naturals, HttpRetry

CONSTANTS SecretReaders, \* bound: get_secret calls
          Leases,        \* what a login may answer; 0 is a token that does not expire
          MaxLogins,     \* bound: tokens issued
          MaxLeaseClock  \* bound

Free == "nobody"

ASSUME VaultSessionAssumption ==
    /\ Leases \subseteq Nat /\ MaxLogins \in Nat /\ MaxLeaseClock \in Nat
    /\ Free \notin SecretReaders

VARIABLES
    leaseClock,
    session,   \* the session, or NoVaultSession
    holder,    \* the reader that holds the mutex, or Free
    generations, \* SESSION_GENERATION
    reader,    \* reader[r]: step, session it read with, pass 1 or 2, attempt
    issued,    \* number of tokens Vault has issued
    good,      \* the tokens Vault honours
    denies,    \* Vault's policy denies the path
    logins,    \* logins begun
    causes     \* what may cost a login: revocations, renewals and logins that failed

sessionVars == <<leaseClock, session, holder, generations, reader, issued, good, denies,
                 logins, causes>>

NoVaultSession == [gen |-> 0, tok |-> 0, renewAt |-> 0, renewable |-> FALSE]
\* first and refused: the generation and the token of its first read.
IdleReader == [at |-> "idle", gen |-> 0, tok |-> 0, first |-> 0, refused |-> 0,
               pass |-> 1, attempt |-> 0, minted |-> 0]

SessionTypeOK ==
    /\ leaseClock \in 0 .. MaxLeaseClock
    /\ session \in [gen : Nat, tok : 0 .. issued, renewAt : Nat, renewable : BOOLEAN]
    /\ holder \in SecretReaders \cup {Free}
    /\ reader \in [SecretReaders ->
                     [at : {"idle", "lock", "ensure", "renew", "login", "read",
                            "value", "forbidden", "failed"},
                      gen : Nat, tok : 0 .. issued, first : Nat, refused : 0 .. issued,
                      pass : 1 .. 2, attempt : 0 .. 3, minted : Nat]]
    /\ issued \in 0 .. MaxLogins /\ good \subseteq 1 .. issued
    /\ denies \in BOOLEAN
    /\ holder = Free <=> \A r \in SecretReaders : reader[r].at \notin {"ensure", "renew", "login"}

SessionInit ==
    /\ leaseClock = 0
    /\ session = NoVaultSession
    /\ holder = Free
    /\ generations = 0
    /\ reader = [r \in SecretReaders |-> IdleReader]
    /\ issued = 0 /\ good = {}
    /\ denies \in BOOLEAN
    /\ logins = 0 /\ causes = 1

Stays == UNCHANGED <<leaseClock, denies>>
At(r, step) == reader' = [reader EXCEPT ![r].at = step]

\* The reader leaves the mutex with the session.
ReadsWith(r, s) == [reader[r] EXCEPT !.at = "read", !.gen = s.gen, !.tok = s.tok]

\* renew_after, without the jitter, which only brings it forward.
RenewAfter(lease) == (2 * lease) \div 3

\* needs_renewal; renewAt = 0 stands for None.
NeedsRenewal(s) == s.renewAt > 0 /\ leaseClock >= s.renewAt

\* from_auth: what a login or a renewal answers.
Session(tok, lease, renewable) ==
    [gen |-> generations + 1, tok |-> tok,
     renewAt |-> IF lease > 0 THEN leaseClock + RenewAfter(lease) ELSE 0,
     renewable |-> renewable]

AskSecret(r) ==
    /\ reader[r].at = "idle"
    /\ At(r, "lock")
    /\ Stays /\ UNCHANGED <<session, holder, generations, issued, good, logins, causes>>

\* Mutant: a refused session is dropped whichever it is by now.
RefusedSessionAny(r) == TRUE

\* The session a 403 was answered to is still the current one.
RefusedSession(r) == session.gen = reader[r].gen

\* The mutex is taken; on the second pass the session that was refused goes.
TakeSession(r) ==
    /\ reader[r].at = "lock" /\ holder = Free
    /\ holder' = r
    /\ session' = IF reader[r].pass = 2 /\ RefusedSession(r) THEN NoVaultSession ELSE session
    /\ At(r, "ensure")
    /\ Stays /\ UNCHANGED <<generations, issued, good, logins, causes>>

LogsIn(r) ==
    /\ reader' = [reader EXCEPT ![r].at = "login", ![r].attempt = 1, ![r].minted = 0]
    /\ logins' = logins + 1

\* ensure_token: a session that is not due is used as it is.
EnsureToken(r) ==
    /\ reader[r].at = "ensure"
    /\ \/ /\ session # NoVaultSession /\ ~NeedsRenewal(session)
          /\ reader' = [reader EXCEPT ![r] = ReadsWith(r, session)]
          /\ holder' = Free
          /\ UNCHANGED <<logins, causes>>
       \/ /\ session # NoVaultSession /\ NeedsRenewal(session) /\ session.renewable
          /\ At(r, "renew")
          /\ UNCHANGED <<holder, logins, causes>>
       \/ /\ session = NoVaultSession \/ (NeedsRenewal(session) /\ ~session.renewable)
          /\ LogsIn(r)
          /\ causes' = IF session = NoVaultSession THEN causes ELSE causes + 1
          /\ UNCHANGED holder
    /\ Stays /\ UNCHANGED <<session, generations, issued, good>>

\* renew-self: Vault renews a token it honours; whatever goes wrong, the
\* provider logs in instead.
RenewAnswered(r) ==
    /\ reader[r].at = "renew"
    /\ \/ /\ session.tok \in good
          /\ \E lease \in Leases, renewable \in BOOLEAN :
                LET s == Session(session.tok, lease, renewable) IN
                session' = s /\ reader' = [reader EXCEPT ![r] = ReadsWith(r, s)]
          /\ generations' = generations + 1
          /\ holder' = Free
          /\ UNCHANGED <<logins, causes>>
       \/ /\ LogsIn(r) /\ causes' = causes + 1
          /\ UNCHANGED <<session, generations, holder>>
    /\ Stays /\ UNCHANGED <<issued, good>>

LoginSucceeds(r) ==
    /\ reader[r].at = "login" /\ issued < MaxLogins
    /\ issued' = issued + 1 /\ good' = good \cup {issued + 1}
    /\ generations' = generations + 1
    /\ \E lease \in Leases, renewable \in BOOLEAN :
          LET s == Session(issued + 1, lease, renewable) IN
          /\ session' = s
          /\ reader' = [reader EXCEPT ![r] = [ReadsWith(r, s) EXCEPT !.minted = @ + 1]]
    /\ holder' = Free
    /\ Stays /\ UNCHANGED <<logins, causes>>

\* An attempt fails.  One that reached Vault may have made a token that is
\* lost.  When no other attempt follows, the mutex goes and the session stays
\* as it is.
LoginAttemptFails(r) ==
    /\ reader[r].at = "login"
    /\ \E err \in TransportErrors, lost \in BOOLEAN :
          /\ lost => MayHaveReachedPeer(err) /\ issued < MaxLogins
          /\ issued' = IF lost THEN issued + 1 ELSE issued
          /\ good' = IF lost THEN good \cup {issued + 1} ELSE good
          /\ LET again == TriesAgain(UndeliveredOnly, reader[r].attempt, err) IN
             /\ reader' = [reader EXCEPT
                    ![r].at = IF again THEN "login" ELSE "failed",
                    ![r].attempt = IF again THEN @ + 1 ELSE @,
                    ![r].minted = IF lost THEN @ + 1 ELSE @]
             /\ holder' = IF again THEN holder ELSE Free
             /\ causes' = IF again THEN causes ELSE causes + 1
    /\ Stays /\ UNCHANGED <<session, generations, logins>>

\* kv_read: 403 for a token Vault does not honour or a path it denies; any
\* other failure ends the call.
ReadAnswered(r) ==
    /\ reader[r].at = "read"
    /\ LET step == IF reader[r].tok \in good /\ ~denies THEN {"value", "failed"}
                   ELSE {IF reader[r].pass = 1 THEN "lock" ELSE "forbidden", "failed"}
       IN \E s \in step :
             reader' = [reader EXCEPT ![r].at = s,
                          ![r].pass = IF s = "lock" THEN 2 ELSE @,
                          ![r].first = IF reader[r].pass = 1 THEN reader[r].gen ELSE @,
                          ![r].refused = IF reader[r].pass = 1 THEN reader[r].tok ELSE @]
    /\ Stays /\ UNCHANGED <<session, holder, generations, issued, good, logins, causes>>

\* The reader is dropped, and the mutex with it.
ReadCancelled(r) ==
    /\ reader[r].at \in {"lock", "ensure", "renew", "login", "read"}
    /\ At(r, "failed")
    /\ holder' = IF holder = r THEN Free ELSE holder
    /\ \E lost \in IF reader[r].at = "login" /\ issued < MaxLogins THEN BOOLEAN ELSE {FALSE} :
          /\ issued' = IF lost THEN issued + 1 ELSE issued
          /\ good' = IF lost THEN good \cup {issued + 1} ELSE good
    \* a session dropped by the second pass is not there for the next reader
    /\ causes' = IF holder = r THEN causes + 1 ELSE causes
    /\ Stays /\ UNCHANGED <<session, generations, logins>>

\* Vault revokes the token of the session, or lets it expire.
TokenRevoked ==
    /\ session.tok \in good
    /\ good' = good \ {session.tok}
    /\ causes' = causes + 1
    /\ Stays /\ UNCHANGED <<session, holder, generations, reader, issued, logins>>

LeaseClockTicks ==
    /\ leaseClock < MaxLeaseClock
    /\ leaseClock' = leaseClock + 1
    /\ UNCHANGED <<session, holder, generations, reader, issued, good, denies, logins, causes>>

SessionNext ==
    \/ TokenRevoked \/ LeaseClockTicks
    \/ \E r \in SecretReaders :
          \/ AskSecret(r) \/ TakeSession(r) \/ EnsureToken(r) \/ RenewAnswered(r)
          \/ LoginSucceeds(r) \/ LoginAttemptFails(r) \/ ReadAnswered(r) \/ ReadCancelled(r)

SessionSpec == SessionInit /\ [][SessionNext]_sessionVars

-----------------------------------------------------------------------------
(* Properties.                                                             *)

\* Readers refused together do not each log in: as long as the policy allows
\* the path, every login beyond the first is paid for by a token Vault
\* revoked, a lease that could not be renewed, or a login or reader that ended
\* early.
NoLoginStorm == ~denies => logins <= causes

\* "403 after reauthentication; this is a permission error" is said only by a
\* reader whose second read used a later session than its first: with a token
\* issued later, or with the refused token itself if another reader had renewed it
\* by then.  In the second case nobody has logged in since the refusal.
ForbiddenAfterRenewal ==
    \A r \in SecretReaders : reader[r].at = "forbidden" =>
        \/ reader[r].tok > reader[r].refused
        \/ reader[r].tok = reader[r].refused /\ reader[r].gen > reader[r].first

\* http_retry.rs: a login is retried only if it was not delivered, since "a
\* retry after a delivered login could mint a second token".  One login never
\* makes two.
OneTokenPerLogin == \A r \in SecretReaders : reader[r].minted <= 1

\* The provider logs in for a reason, once each time, and blames the policy only
\* after a second read with another session, which a renewal may have made.
LoginsJustified == NoLoginStorm /\ OneTokenPerLogin /\ ForbiddenAfterRenewal
=============================================================================
