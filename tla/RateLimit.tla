------------------------------ MODULE RateLimit ------------------------------
(***************************************************************************)
(* The rate limiter (plugins/ratelimit/handler.rs): a request whose        *)
(* bindings, conditions or counter keys cannot be had is denied before any *)
(* counter changes; the others go through Limitador's check and update,    *)
(* two operations, under a lock of the plugin.  Limitador is external: a   *)
(* counter for each limit, reset when its window ends.  The counters fit   *)
(* its capacity; the code warns that a full store restarts counters.       *)
(***************************************************************************)
EXTENDS Naturals, FiniteSets

CONSTANTS LimitedReqs, \* bound: requests
          LimitOf      \* LimitOf[l]: the maximum of each limit for a window

Unlocked == "nobody"

ASSUME RateLimitAssumption ==
    /\ LimitOf \in [DOMAIN LimitOf -> Nat]
    /\ Unlocked \notin LimitedReqs

Limits == DOMAIN LimitOf

VARIABLES
    counter,   \* counter[l], at Limitador
    rated,     \* rated[r]: step, limits that match it
    checkLock, \* who holds check_lock, or Unlocked
    admitted   \* admitted[l]: the requests allowed in its window

rateVars == <<counter, rated, checkLock, admitted>>

RateTypeOK ==
    /\ counter \in [Limits -> Nat]
    /\ rated \in [LimitedReqs -> [at : {"new", "queued", "check", "update", "allowed",
                                        "exceeded", "refused", "dropped"},
                                  matched : SUBSET Limits]]
    /\ checkLock \in LimitedReqs \cup {Unlocked}
    /\ admitted \in [Limits -> SUBSET LimitedReqs]

RateInit ==
    /\ counter = [l \in Limits |-> 0]
    /\ rated \in [LimitedReqs -> [at : {"new"}, matched : SUBSET Limits]]
    /\ checkLock = Unlocked
    /\ admitted = [l \in Limits |-> {}]

Step(r, step) == rated' = [rated EXCEPT ![r].at = step]

\* A bound attribute is missing or no string, a condition fails, or a matching
\* limit has no counter key.
RequestRefused(r) ==
    /\ rated[r].at = "new"
    /\ Step(r, "refused")
    /\ UNCHANGED <<counter, checkLock, admitted>>

RequestQueues(r) ==
    /\ rated[r].at = "new"
    /\ Step(r, "queued")
    /\ UNCHANGED <<counter, checkLock, admitted>>

\* Mutant: no lock around check and update.
CheckLockFreeAlways == TRUE

CheckLockFree == checkLock = Unlocked

CheckLocked(r) ==
    /\ rated[r].at = "queued" /\ CheckLockFree
    /\ checkLock' = r
    /\ Step(r, "check")
    /\ UNCHANGED <<counter, admitted>>

\* The check: one limit that is used up limits the request; a panic or an error
\* in Limitador denies it.
LimitadorChecks(r) ==
    /\ rated[r].at = "check"
    /\ \/ /\ \A l \in rated[r].matched : counter[l] + 1 <= LimitOf[l]
          /\ Step(r, "update") /\ UNCHANGED checkLock
       \/ /\ \E l \in rated[r].matched : counter[l] + 1 > LimitOf[l]
          /\ Step(r, "exceeded") /\ checkLock' = Unlocked
       \/ Step(r, "refused") /\ checkLock' = Unlocked
    /\ UNCHANGED <<counter, admitted>>

LimitadorUpdates(r) ==
    /\ rated[r].at = "update"
    /\ counter' = [l \in Limits |-> IF l \in rated[r].matched THEN counter[l] + 1 ELSE counter[l]]
    /\ admitted' = [l \in Limits |-> IF l \in rated[r].matched THEN admitted[l] \cup {r}
                                     ELSE admitted[l]]
    /\ Step(r, "allowed") /\ checkLock' = Unlocked

\* Check and update have no await between them; only the queue can be left.
RatedDropped(r) ==
    /\ rated[r].at = "queued"
    /\ Step(r, "dropped")
    /\ UNCHANGED <<counter, checkLock, admitted>>

WindowEnds(l) ==
    /\ counter[l] > 0
    /\ counter' = [counter EXCEPT ![l] = 0]
    /\ admitted' = [admitted EXCEPT ![l] = {}]
    /\ UNCHANGED <<rated, checkLock>>

RateNext ==
    \/ \E l \in Limits : WindowEnds(l)
    \/ \E r \in LimitedReqs :
          \/ RequestRefused(r) \/ RequestQueues(r) \/ CheckLocked(r) \/ LimitadorChecks(r)
          \/ LimitadorUpdates(r) \/ RatedDropped(r)

RateSpec == RateInit /\ [][RateNext]_rateVars

-----------------------------------------------------------------------------
(* Properties.                                                             *)

\* "so concurrent requests cannot exceed the limit": no window admits more than
\* the limit, and a limit's counter stands for the requests admitted under it
\* alone, whatever another limit said of them.
RateHeld ==
    \A l \in Limits : /\ Cardinality(admitted[l]) <= LimitOf[l]
                      /\ counter[l] = Cardinality(admitted[l])
=============================================================================
