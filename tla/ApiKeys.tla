------------------------------- MODULE ApiKeys -------------------------------
(***************************************************************************)
(* API key authentication (identity_api_key): a cache of answers           *)
(* (cache.rs) over a directory read from a file an operator edits          *)
(* (file_directory.rs).  A lookup that finds the record set due reloads it *)
(* on the request path; the index and the time it was loaded are published *)
(* one after the other; a set past the staleness ceiling is not an answer. *)
(* Requests overlap, and every read of shared state is a step.             *)
(***************************************************************************)
EXTENDS Naturals, FiniteSets, Sequences

CONSTANTS Lookups,     \* bound: overlapping requests
          ApiKeySet,   \* the credentials presented
          InitialKeys, \* those with a record in the file at startup
          PositiveTtl, NegativeTtl, Capacity,
          RefreshSecs, MaxStaleness,
          MaxClock, MaxEdits   \* bounds

ASSUME ApiKeysAssumption ==
    /\ InitialKeys \subseteq ApiKeySet
    /\ PositiveTtl \in Nat \ {0} /\ NegativeTtl \in Nat /\ Capacity \in Nat \ {0}
    /\ RefreshSecs \in Nat \ {0} /\ MaxStaleness \in Nat /\ MaxStaleness >= RefreshSecs
    /\ MaxClock \in Nat /\ MaxEdits \in Nat

VARIABLES
    clock,     \* the monotonic clock
    contents,  \* the versions of the record file: the keys in it, oldest first
    index,     \* records: the version the published index was built from
    raced,     \* ... by a reload that ran beside another
    loadedAt,  \* loaded_at_ms
    stamp,     \* the version that the reload which set loadedAt had read
    nextAttempt, \* next_attempt_ms
    hits, misses, \* key -> the cached answer: its expiry, and when it was given
    look       \* look[l]: where lookup l is, and what it holds

apiKeyVars == <<clock, contents, index, raced, loadedAt, stamp, nextAttempt,
                hits, misses, look>>

LookSteps == {"idle", "due", "claim", "read", "publish", "stamp", "ceiling",
              "probe", "put"}
\* asked: `now` of the caller; due: what it read of next_attempt_ms; found: the
\* answer; at: when that was given, and before it refresh_if_due's `now`; no: the
\* version read, then the one the stamp is of; beside: another reload overlaps.
IdleLook == [pc |-> "idle", key |-> "none", asked |-> 0, due |-> 0,
             found |-> FALSE, at |-> 0, no |-> 0, beside |-> FALSE]

Answer == [expires : Nat, at : 0 .. MaxClock]

ApiKeyTypeOK ==
    /\ clock \in 0 .. MaxClock /\ loadedAt \in 0 .. clock
    /\ contents \in Seq(SUBSET ApiKeySet) /\ Len(contents) \in 1 .. MaxEdits + 1
    /\ index \in 1 .. Len(contents) /\ stamp \in 1 .. Len(contents)
    /\ raced \in BOOLEAN /\ nextAttempt \in Nat
    /\ \A m \in {hits, misses} :
          /\ DOMAIN m \subseteq ApiKeySet /\ Cardinality(DOMAIN m) <= Capacity
          /\ \A k \in DOMAIN m : m[k] \in Answer
    /\ look \in [Lookups -> [pc : LookSteps, key : ApiKeySet \cup {"none"},
                    asked : 0 .. clock, due : Nat, found : BOOLEAN, at : 0 .. clock,
                    no : 0 .. Len(contents), beside : BOOLEAN]]

NoAnswers == [k \in {} |-> 0]

\* FileDirectory::new reads the file once.
ApiKeyInit ==
    /\ clock = 0 /\ contents = <<InitialKeys>>
    /\ index = 1 /\ raced = FALSE /\ loadedAt = 0 /\ stamp = 1
    /\ nextAttempt = RefreshSecs
    /\ hits = NoAnswers /\ misses = NoAnswers
    /\ look = [l \in Lookups |-> IdleLook]

directoryVars == <<index, raced, loadedAt, stamp>>
worldVars == <<clock, contents>>

LookAt(l, step) == look[l].pc = step
LookGo(l, step) == look' = [look EXCEPT ![l].pc = step]

-----------------------------------------------------------------------------
(* CachingDirectory.                                                       *)

LiveAnswer(m, k) == k \in DOMAIN m /\ m[k].expires > clock

\* The caller reads the clock and both maps; a live answer ends the lookup
\* and changes nothing, so only a lookup that asks the directory shows.
LookInCache(l) ==
    /\ LookAt(l, "idle")
    /\ \E k \in ApiKeySet :
          /\ ~LiveAnswer(hits, k)
          /\ NegativeTtl > 0 => ~LiveAnswer(misses, k)
          /\ look' = [look EXCEPT ![l] =
                         [IdleLook EXCEPT !.pc = "due", !.key = k, !.asked = clock]]
    /\ UNCHANGED <<worldVars, directoryVars, nextAttempt, hits, misses>>

\* Mutant: a full map takes the answer all the same.
PutOverfull(m, l, ttl) ==
    [k \in DOMAIN m \cup {look[l].key} |->
        IF k = look[l].key THEN [expires |-> look[l].asked + ttl, at |-> look[l].at]
        ELSE m[k]]

\* put: a full map first loses what has expired; full of live answers, it
\* keeps them and this one goes uncached.
PutAnswer(m, l, ttl) ==
    LET k    == look[l].key
        kept == IF Cardinality(DOMAIN m) >= Capacity /\ k \notin DOMAIN m
                THEN {j \in DOMAIN m : m[j].expires > look[l].asked}
                ELSE DOMAIN m
    IN  [j \in kept \cup (IF Cardinality(kept) >= Capacity /\ k \notin kept THEN {} ELSE {k}) |->
            IF j = k THEN [expires |-> look[l].asked + ttl, at |-> look[l].at] ELSE m[j]]

\* Mutant: the answer is kept for the TTL from when it is stored.
RememberFromNow(l) ==
    LET m == [k \in {look[l].key} |-> [expires |-> clock + PositiveTtl, at |-> look[l].at]] IN
    IF look[l].found THEN hits' = m /\ UNCHANGED misses ELSE UNCHANGED <<hits, misses>>

\* Positive and negative answers have a map and a ceiling each.  The TTL runs
\* from before the directory was asked.
Remember(l) ==
    IF look[l].found THEN hits' = PutAnswer(hits, l, PositiveTtl) /\ UNCHANGED misses
    ELSE /\ UNCHANGED hits
         /\ misses' = IF NegativeTtl > 0 THEN PutAnswer(misses, l, NegativeTtl) ELSE misses

CacheAnswer(l) ==
    /\ LookAt(l, "put")
    /\ Remember(l)
    /\ look' = [look EXCEPT ![l] = IdleLook]
    /\ UNCHANGED <<worldVars, directoryVars, nextAttempt>>

-----------------------------------------------------------------------------
(* FileDirectory::lookup.                                                  *)

\* refresh_if_due reads the clock and the marker ...
SeesDue(l) ==
    /\ LookAt(l, "due")
    /\ IF clock < nextAttempt THEN LookGo(l, "ceiling")
       ELSE look' = [look EXCEPT ![l].pc = "claim", ![l].due = nextAttempt, ![l].at = clock]
    /\ UNCHANGED <<worldVars, directoryVars, nextAttempt, hits, misses>>

\* The exchange succeeds for one of those that read the same marker.
Wins(l) == nextAttempt = look[l].due

Reloading == {l \in Lookups : look[l].pc \in {"read", "publish", "stamp"}}

\* ... and claims the reload by moving the marker on from the time it read.  A
\* reload that outlasts the interval overlaps the next one.
ClaimReload(l) ==
    /\ LookAt(l, "claim")
    /\ IF Wins(l)
       THEN /\ nextAttempt' = look[l].at + RefreshSecs
            /\ look' = [m \in Lookups |->
                  IF m = l THEN [look[l] EXCEPT !.pc = "read", !.due = 0, !.at = 0,
                                                !.beside = (Reloading # {})]
                  ELSE IF m \in Reloading THEN [look[m] EXCEPT !.beside = TRUE] ELSE look[m]]
       ELSE /\ look' = [look EXCEPT ![l].pc = "ceiling", ![l].due = 0, ![l].at = 0]
            /\ UNCHANGED nextAttempt
    /\ UNCHANGED <<worldVars, directoryVars, hits, misses>>

\* Mutant: a file that cannot be read is stamped all the same.
ReadFileStampsAnyway(l) ==
    /\ LookAt(l, "read")
    /\ \E step \in {"publish", "stamp"} :
          look' = [look EXCEPT ![l].pc = step, ![l].no = Len(contents)]
    /\ UNCHANGED <<worldVars, directoryVars, nextAttempt, hits, misses>>

\* The file is read and indexed; an unreadable one leaves the old records.
ReadFile(l) ==
    /\ LookAt(l, "read")
    /\ \/ look' = [look EXCEPT ![l].pc = "publish", ![l].no = Len(contents)]
       \/ look' = [look EXCEPT ![l].pc = "ceiling", ![l].beside = FALSE]
    /\ UNCHANGED <<worldVars, directoryVars, nextAttempt, hits, misses>>

\* reload publishes the records first ...
PublishReload(l) ==
    /\ LookAt(l, "publish")
    /\ LookGo(l, "stamp")
    /\ index' = look[l].no /\ raced' = look[l].beside
    /\ UNCHANGED <<worldVars, loadedAt, stamp, nextAttempt, hits, misses>>

\* ... then the time.
Stamps(l) ==
    /\ LookAt(l, "stamp")
    /\ loadedAt' = clock /\ stamp' = look[l].no
    /\ look' = [look EXCEPT ![l].pc = "ceiling", ![l].no = 0, ![l].beside = FALSE]
    /\ UNCHANGED <<worldVars, index, raced, nextAttempt, hits, misses>>

\* A set past the ceiling fails the lookup, which is not cached.  `no` is now
\* the version whose stamp the lookup took for fresh enough.
ChecksCeiling(l) ==
    /\ LookAt(l, "ceiling")
    /\ IF clock - loadedAt > MaxStaleness
       THEN look' = [look EXCEPT ![l] = IdleLook]
       ELSE look' = [look EXCEPT ![l].pc = "probe", ![l].no = stamp]
    /\ UNCHANGED <<worldVars, directoryVars, nextAttempt, hits, misses>>

\* The keys that have a record in the published index.
Records == contents[index]

\* The index is probed.
ProbesIndex(l) ==
    /\ LookAt(l, "probe")
    /\ look' = [look EXCEPT ![l].pc = "put", ![l].found = look[l].key \in Records,
                            ![l].at = clock, ![l].no = 0]
    /\ UNCHANGED <<worldVars, directoryVars, nextAttempt, hits, misses>>

-----------------------------------------------------------------------------
(* The world.                                                              *)

OperatorEdits ==
    /\ Len(contents) <= MaxEdits
    /\ \E ks \in SUBSET ApiKeySet :
          ks # contents[Len(contents)] /\ contents' = Append(contents, ks)
    /\ UNCHANGED <<clock, directoryVars, nextAttempt, hits, misses, look>>

ClockTicks ==
    /\ clock < MaxClock
    /\ clock' = clock + 1
    /\ UNCHANGED <<contents, directoryVars, nextAttempt, hits, misses, look>>

ApiKeyNext ==
    \/ OperatorEdits \/ ClockTicks
    \/ \E l \in Lookups :
          \/ LookInCache(l) \/ CacheAnswer(l) \/ SeesDue(l) \/ ClaimReload(l) \/ ReadFile(l)
          \/ PublishReload(l) \/ Stamps(l) \/ ChecksCeiling(l) \/ ProbesIndex(l)

ApiKeySpec == ApiKeyInit /\ [][ApiKeyNext]_apiKeyVars

-----------------------------------------------------------------------------
(* Properties.                                                             *)

\* cache.rs: "the positive TTL is the revocation window".  A cached answer is
\* live for less than its TTL after the directory gave it, however long the
\* lookup that stored it was held up.
WithinWindow ==
    \A k \in ApiKeySet :
        /\ LiveAnswer(hits, k) => clock - hits[k].at < PositiveTtl
        /\ LiveAnswer(misses, k) => clock - misses[k].at < NegativeTtl

\* What the file held when it was read as version v, or at some time after.
HeldSince(v) == {contents[w] : w \in v .. Len(contents)}

\* file_directory.rs:342: stamping the time first "would show old records under a
\* fresh one".  A lookup that took the record set for fresh, on the stamp of one
\* reload, probes records the file held when that reload read it or later, and so
\* would one that begins now.  Not so while the published index is of a reload
\* that overlapped another: nothing keeps the older read from being published
\* last, with a fresh time, and it then serves until the next reload.
FreshStampFreshRecords ==
    ~raced => /\ Records \in HeldSince(stamp)
              /\ \A l \in Lookups : LookAt(l, "probe") => Records \in HeldSince(look[l].no)

\* How long a revoked key may still be let in: a cached answer lives for less
\* than its TTL, and an answer of the directory is never from records older than
\* the reload whose time it was judged by, however lookups and failed reads fall
\* between, as long as reloads do not overlap.
RevocationWindow == WithinWindow /\ FreshStampFreshRecords
=============================================================================
