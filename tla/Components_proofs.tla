-------------------------- MODULE Components_proofs --------------------------
(***************************************************************************)
(* Proofs about six components with a state of their own: the rate         *)
(* limiter, the API key directory, the audit sink, the secrets store, the  *)
(* token quota and the decision cache.                                     *)
(* Each section gives one component's inductive invariant and shows, for   *)
(* every value of its constants, the invariant its run checks; the last    *)
(* puts the six side by side, as the run does.                             *)
(***************************************************************************)
EXTENDS MCComponents, Loops_proofs

----------------------------------------------------------------------------
(* The rate limiter.                                                       *)

\* Only the holder of check_lock is between the check and the update.
LockedInv ==
    \A r \in LimitedReqs : rated[r].at \in {"check", "update"} => checkLock = r

\* What a request about to be counted was told still holds: there is room
\* under each of its limits.
RoomInv ==
    \A r \in LimitedReqs : rated[r].at = "update" =>
        \A l \in rated[r].matched : counter[l] + 1 <= LimitOf[l]

\* A counter is the number of requests admitted under its limit.
CountInv(l) ==
    /\ IsFiniteSet(admitted[l]) /\ counter[l] = Cardinality(admitted[l])
    /\ counter[l] <= LimitOf[l]
    /\ \A r \in admitted[l] : rated[r].at = "allowed"

RateInv ==
    /\ RateTypeOK /\ LockedInv /\ RoomInv
    /\ \A l \in Limits : CountInv(l)

\* Moving one request to another step.
LEMMA RateMoves ==
    ASSUME RateTypeOK, NEW r \in LimitedReqs, NEW step, Step(r, step),
           step \in {"queued", "check", "update", "allowed", "exceeded", "refused", "dropped"}
    PROVE  /\ rated' \in [LimitedReqs -> [at : {"new", "queued", "check", "update", "allowed",
                                                "exceeded", "refused", "dropped"},
                                          matched : SUBSET Limits]]
           /\ rated'[r].at = step /\ rated'[r].matched = rated[r].matched
           /\ \A s \in LimitedReqs : s # r => rated'[s] = rated[s]
  BY DEF RateTypeOK, Step

\* Every step of the limiter keeps the invariant.
LEMMA RateStep == RateInv /\ [RateNext]_rateVars => RateInv'
<1> SUFFICES ASSUME RateInv, [RateNext]_rateVars PROVE RateInv'
  OBVIOUS
<1> USE RateLimitAssumption
<1>1. ASSUME NEW l \in Limits, WindowEnds(l) PROVE RateInv'
  <2>1. RateTypeOK'
    BY <1>1 DEF RateInv, RateTypeOK, WindowEnds
  <2>2. LockedInv'
    BY <1>1 DEF RateInv, LockedInv, WindowEnds
  <2>3. RoomInv'
    BY <1>1 DEF RateInv, RateTypeOK, RoomInv, WindowEnds, Limits
  <2>4. ASSUME NEW m \in Limits PROVE CountInv(m)'
    <3>1. counter'[m] = (IF m = l THEN 0 ELSE counter[m]) /\ admitted'[m] = (IF m = l THEN {} ELSE admitted[m])
      BY <1>1, <2>4 DEF RateInv, RateTypeOK, WindowEnds
    <3>2. CountInv(m) /\ UNCHANGED rated
      BY <1>1, <2>4 DEF RateInv, WindowEnds
    <3>3. LimitOf[m] \in Nat
      BY DEF Limits
    <3> QED BY <3>1, <3>2, <3>3, FS_EmptySet DEF CountInv
  <2> QED BY <2>1, <2>2, <2>3, <2>4 DEF RateInv
<1>2. ASSUME NEW r \in LimitedReqs, NEW step, Step(r, step), UNCHANGED <<counter, admitted>>,
             step \in {"queued", "check", "update", "exceeded", "refused", "dropped"},
             rated[r].at # "allowed",
             \/ step = "check" /\ checkLock = Unlocked /\ checkLock' = r
             \/ step = "update" /\ rated[r].at = "check" /\ UNCHANGED checkLock
             \/ /\ step \in {"exceeded", "refused"} /\ rated[r].at = "check"
                /\ checkLock' = Unlocked
             \/ /\ step \in {"queued", "refused", "dropped"} /\ UNCHANGED checkLock,
             step = "update" => \A l \in rated[r].matched : counter[l] + 1 <= LimitOf[l]
      PROVE  RateInv'
  <2>1. /\ rated' \in [LimitedReqs -> [at : {"new", "queued", "check", "update", "allowed",
                                             "exceeded", "refused", "dropped"},
                                       matched : SUBSET Limits]]
        /\ rated'[r].at = step /\ rated'[r].matched = rated[r].matched
        /\ \A s \in LimitedReqs : s # r => rated'[s] = rated[s]
    BY <1>2, RateMoves DEF RateInv
  <2>2. RateTypeOK'
    BY <1>2, <2>1 DEF RateInv, RateTypeOK
  <2>3. LockedInv'
    BY <1>2, <2>1 DEF RateInv, LockedInv
  <2>4. RoomInv'
    BY <1>2, <2>1 DEF RateInv, RoomInv
  <2>5. ASSUME NEW m \in Limits PROVE CountInv(m)'
    <3>1. admitted[m] \subseteq LimitedReqs
      BY <2>5 DEF RateInv, RateTypeOK
    <3>2. CountInv(m)
      BY <2>5 DEF RateInv
    <3> QED BY <1>2, <2>1, <3>1, <3>2 DEF CountInv
  <2> QED BY <2>2, <2>3, <2>4, <2>5 DEF RateInv
<1>3. ASSUME NEW r \in LimitedReqs, LimitadorUpdates(r) PROVE RateInv'
  <2>1. /\ rated' \in [LimitedReqs -> [at : {"new", "queued", "check", "update", "allowed",
                                             "exceeded", "refused", "dropped"},
                                       matched : SUBSET Limits]]
        /\ rated'[r].at = "allowed" /\ rated'[r].matched = rated[r].matched
        /\ \A s \in LimitedReqs : s # r => rated'[s] = rated[s]
    BY <1>3, RateMoves DEF RateInv, LimitadorUpdates
  <2>2. \A s \in LimitedReqs : s # r => rated[s].at \notin {"check", "update"}
    BY <1>3 DEF RateInv, LockedInv, LimitadorUpdates
  <2>3. \A l \in Limits :
           /\ counter'[l] = (IF l \in rated[r].matched THEN counter[l] + 1 ELSE counter[l])
           /\ admitted'[l] = (IF l \in rated[r].matched THEN admitted[l] \cup {r} ELSE admitted[l])
    BY <1>3 DEF LimitadorUpdates
  <2>4. counter' \in [Limits -> Nat] /\ admitted' \in [Limits -> SUBSET LimitedReqs]
    BY <1>3 DEF LimitadorUpdates, RateInv, RateTypeOK
  <2>5. RateTypeOK'
    BY <1>3, <2>1, <2>4 DEF RateTypeOK, LimitadorUpdates
  <2>6. LockedInv' /\ RoomInv'
    BY <2>1, <2>2 DEF LockedInv, RoomInv
  <2>7. ASSUME NEW m \in Limits PROVE CountInv(m)'
    <3>1. CountInv(m) /\ admitted[m] \subseteq LimitedReqs
      BY <2>7 DEF RateInv, RateTypeOK
    <3>2. r \notin admitted[m]
      BY <1>3, <3>1 DEF CountInv, LimitadorUpdates
    <3>3. CASE m \in rated[r].matched
      <4>1. counter[m] + 1 <= LimitOf[m]
        BY <1>3, <3>3 DEF RateInv, RoomInv, LimitadorUpdates
      <4>2. IsFiniteSet(admitted[m] \cup {r}) /\ Cardinality(admitted[m] \cup {r}) = Cardinality(admitted[m]) + 1
        BY <3>1, <3>2, FS_AddElement DEF CountInv
      <4> QED BY <2>1, <2>3, <3>1, <3>3, <4>1, <4>2 DEF CountInv
    <3>4. CASE m \notin rated[r].matched
      BY <2>1, <2>3, <3>1, <3>4 DEF CountInv
    <3> QED BY <3>3, <3>4
  <2> QED BY <2>5, <2>6, <2>7 DEF RateInv
<1>4. CASE UNCHANGED rateVars
  BY <1>4 DEF rateVars, RateInv, RateTypeOK, LockedInv, RoomInv, CountInv
<1>5. ASSUME NEW r \in LimitedReqs,
             RequestRefused(r) \/ RequestQueues(r) \/ CheckLocked(r)
                \/ LimitadorChecks(r) \/ RatedDropped(r)
      PROVE  RateInv'
  BY <1>5, <1>2 DEF RequestRefused, RequestQueues, CheckLocked, CheckLockFree, LimitadorChecks, RatedDropped
<1> QED BY <1>1, <1>3, <1>4, <1>5 DEF RateNext

LEMMA RateStart == RateInit => RateInv
<1> SUFFICES ASSUME RateInit PROVE RateInv
  OBVIOUS
<1>1. RateTypeOK
  BY DEF RateInit, RateTypeOK
<1>2. LockedInv /\ RoomInv
  BY DEF RateInit, LockedInv, RoomInv
<1>3. \A l \in Limits : LimitOf[l] \in Nat
  BY RateLimitAssumption DEF Limits
<1>4. \A l \in Limits : CountInv(l)
  BY <1>3, FS_EmptySet DEF RateInit, CountInv
<1> QED BY <1>1, <1>2, <1>4 DEF RateInv

\* However requests, windows and limits interleave, no window admits more than
\* its limit: the lock around Limitador's check and update is enough.
THEOREM RateHeldHolds == RateSpec => []RateHeld
<1>1. RateInv => RateHeld
  BY DEF RateInv, CountInv, RateHeld
<1> QED BY <1>1, RateStart, RateStep, PTL DEF RateSpec

\* Every variable of the rate limiter keeps its type.
THEOREM RateTypeCorrect == RateSpec => []RateTypeOK
<1>1. RateInv => RateTypeOK
  BY DEF RateInv
<1> QED BY <1>1, RateStart, RateStep, PTL DEF RateSpec

----------------------------------------------------------------------------
(* API keys.                                                               *)

\* What a lookup holds at each step: the key it asks about, and an answer no
\* older than the question.
LookInv(l) ==
    /\ look[l].pc # "idle" => look[l].key \in ApiKeySet
    /\ look[l].pc = "put" => look[l].asked <= look[l].at

\* A reload that overlaps none is the only one.  Once it has read the file, no
\* stamp, whether published or taken by a lookup, is of a later version; and once
\* such a reload has published its index, none is of a later one than the index.
AloneInv(l) ==
    look[l].pc \in {"read", "publish", "stamp"} /\ ~look[l].beside =>
        \A m \in Lookups : look[m].pc \in {"read", "publish", "stamp"} => m = l

NewestInv(l) ==
    look[l].pc = "publish" /\ ~look[l].beside =>
        /\ stamp <= look[l].no
        /\ \A m \in Lookups : look[m].pc = "probe" => look[m].no <= look[l].no

IndexInv ==
    ~raced => /\ stamp <= index
              /\ \A l \in Lookups : look[l].pc \in {"stamp", "probe"} => look[l].no <= index

ReadInv(l) == look[l].pc \in {"publish", "stamp", "probe"} => look[l].no \in 1 .. Len(contents)

ReloadInv ==
    /\ \A l \in Lookups : AloneInv(l) /\ NewestInv(l) /\ ReadInv(l)
    /\ IndexInv

\* A cached answer expires within its TTL of when the directory gave it.
AnswersInv(m, ttl) ==
    /\ IsFiniteSet(DOMAIN m)
    /\ \A k \in DOMAIN m : m[k].expires <= m[k].at + ttl

KeysInv ==
    /\ ApiKeyTypeOK
    /\ AnswersInv(hits, PositiveTtl) /\ AnswersInv(misses, NegativeTtl)
    /\ \A l \in Lookups : LookInv(l)
    /\ ReloadInv

\* What one map of the cache is, apart from its TTL.
AnswerMap(m) ==
    /\ DOMAIN m \subseteq ApiKeySet /\ Cardinality(DOMAIN m) <= Capacity
    /\ \A k \in DOMAIN m : m[k] \in Answer

\* put keeps a map within its capacity, and adds at most the one answer.
LEMMA PutAnswerKeeps ==
    ASSUME ApiKeyTypeOK, NEW m, AnswerMap(m), NEW ttl \in Nat, AnswersInv(m, ttl),
           NEW l \in Lookups, look[l].key \in ApiKeySet, look[l].asked <= look[l].at
    PROVE  AnswerMap(PutAnswer(m, l, ttl)) /\ AnswersInv(PutAnswer(m, l, ttl), ttl)
<1> USE ApiKeysAssumption
<1> DEFINE k == look[l].key
           a == [expires |-> look[l].asked + ttl, at |-> look[l].at]
           kept == IF Cardinality(DOMAIN m) >= Capacity /\ k \notin DOMAIN m
                   THEN {j \in DOMAIN m : m[j].expires > look[l].asked}
                   ELSE DOMAIN m
           added == IF Cardinality(kept) >= Capacity /\ k \notin kept THEN {} ELSE {k}
           new == PutAnswer(m, l, ttl)
<1>1. new = [j \in kept \cup added |-> IF j = k THEN a ELSE m[j]]
  BY DEF PutAnswer
<1>2. kept \in SUBSET DOMAIN m
  OBVIOUS
<1>3. IsFiniteSet(kept) /\ Cardinality(kept) <= Cardinality(DOMAIN m)
  BY <1>2, FS_Subset DEF AnswersInv
<1>4. Cardinality(kept) \in Nat /\ Cardinality(DOMAIN m) \in Nat
  BY <1>3, FS_CardinalityType DEF AnswersInv
<1>5. look[l].asked \in Nat /\ look[l].at \in 0 .. MaxClock /\ look[l].at \in Nat
  BY DEF ApiKeyTypeOK
<1>6. a \in Answer /\ a.expires <= a.at + ttl
  BY <1>5 DEF Answer
<1>7. k \in ApiKeySet
  OBVIOUS
<1> HIDE DEF a, kept, new, k
<1>8. added \in {{}, {k}} /\ (added = {k} => (Cardinality(kept) < Capacity \/ k \in kept))
  BY <1>4
<1>9. IsFiniteSet(kept \cup added) /\ Cardinality(kept \cup added) <= Capacity
  <2>1. CASE added = {}
    BY <1>3, <1>4, <2>1 DEF AnswerMap
  <2>2. CASE added = {k}
    <3>1. IsFiniteSet(kept \cup {k}) /\ Cardinality(kept \cup {k}) =
             IF k \in kept THEN Cardinality(kept) ELSE Cardinality(kept) + 1
      BY <1>3, FS_AddElement
    <3> QED BY <1>3, <1>4, <1>8, <2>2, <3>1 DEF AnswerMap
  <2> QED BY <1>8, <2>1, <2>2
<1> HIDE DEF added
<1>10. ASSUME NEW j \in kept \cup added
       PROVE  new[j] \in Answer /\ new[j].expires <= new[j].at + ttl /\ j \in ApiKeySet
  <2>1. CASE j = k
    BY <1>1, <1>6, <1>7, <1>10, <2>1
  <2>2. CASE j # k
    <3>1. j \in DOMAIN m
      BY <1>2, <1>8, <1>10, <2>2
    <3>2. new[j] = m[j]
      BY <1>1, <1>10, <2>2
    <3> QED BY <3>1, <3>2 DEF AnswerMap, AnswersInv
  <2> QED BY <2>1, <2>2
<1>11. DOMAIN new = kept \cup added
  BY <1>1
<1> QED BY <1>9, <1>10, <1>11 DEF AnswerMap, AnswersInv, new

\* What a lookup may hold while the clock shows c and the file has n versions.
LookType(c, n) ==
    [pc : LookSteps, key : ApiKeySet \cup {"none"}, asked : 0 .. c, due : Nat,
     found : BOOLEAN, at : 0 .. c, no : 0 .. n, beside : BOOLEAN]

\* A lookup at rest has its type at any time.
LEMMA IdleLookType == ASSUME NEW c \in Nat, NEW n \in Nat PROVE IdleLook \in LookType(c, n)
  BY DEF IdleLook, LookType, LookSteps

\* One lookup moves, to e.
LookMoves(l, e) == look' = [look EXCEPT ![l] = e]

LEMMA LookMovesOne ==
    ASSUME NEW c \in Nat, NEW n \in Nat, look \in [Lookups -> LookType(c, n)],
           NEW l \in Lookups, NEW e \in LookType(c, n), LookMoves(l, e)
    PROVE  /\ look' \in [Lookups -> LookType(c, n)]
           /\ look'[l] = e
           /\ \A j \in Lookups : j # l => look'[j] = look[j]
BY DEF LookMoves

\* A move that reads, publishes and stamps nothing leaves what reloads rely on:
\* the lookup was in no reload and is in none, or it left one.
LEMMA ReloadKept ==
    ASSUME ReloadInv, NEW l \in Lookups, UNCHANGED <<contents, index, raced, stamp>>,
           \A j \in Lookups : j # l => look'[j] = look[j],
           look'[l].pc \notin {"read", "publish", "stamp"},
           look'[l].pc = "probe" => look'[l].no = stamp /\ stamp \in 1 .. Len(contents)
    PROVE  ReloadInv'
<1>1. ASSUME NEW j \in Lookups PROVE AloneInv(j)' /\ NewestInv(j)' /\ ReadInv(j)'
  <2>1. CASE j = l
    BY <2>1 DEF ReloadInv, AloneInv, NewestInv, ReadInv
  <2>2. CASE j # l
    <3>1. look'[j] = look[j] /\ AloneInv(j) /\ NewestInv(j) /\ ReadInv(j)
      BY <2>2 DEF ReloadInv
    <3>2. AloneInv(j)'
      BY <3>1 DEF AloneInv
    <3>3. NewestInv(j)'
      BY <3>1 DEF NewestInv
    <3> QED BY <3>1, <3>2, <3>3 DEF ReadInv
  <2> QED BY <2>1, <2>2
<1>2. IndexInv'
  BY DEF ReloadInv, IndexInv
<1> QED BY <1>1, <1>2 DEF ReloadInv

\* Every step of the cache, the directory and the world keeps the invariant.
LEMMA KeysStep == KeysInv /\ [ApiKeyNext]_apiKeyVars => KeysInv'
<1> SUFFICES ASSUME KeysInv, [ApiKeyNext]_apiKeyVars PROVE KeysInv'
  OBVIOUS
<1> USE ApiKeysAssumption DEF worldVars, directoryVars
<1> DEFINE n == Len(contents)
           T == LookType(clock, n)
<1>t. /\ clock \in 0 .. MaxClock /\ loadedAt \in 0 .. clock /\ clock \in Nat
      /\ contents \in Seq(SUBSET ApiKeySet) /\ n \in 1 .. MaxEdits + 1 /\ n \in Nat
      /\ index \in 1 .. n /\ stamp \in 1 .. n
      /\ raced \in BOOLEAN /\ nextAttempt \in Nat
      /\ AnswerMap(hits) /\ AnswerMap(misses)
      /\ look \in [Lookups -> T]
  BY DEF KeysInv, ApiKeyTypeOK, AnswerMap, LookType
<1>k. ASSUME /\ clock' \in 0 .. MaxClock /\ loadedAt' \in 0 .. clock'
             /\ contents' \in Seq(SUBSET ApiKeySet) /\ Len(contents') \in 1 .. MaxEdits + 1
             /\ index' \in 1 .. Len(contents') /\ stamp' \in 1 .. Len(contents')
             /\ raced' \in BOOLEAN /\ nextAttempt' \in Nat
             /\ AnswerMap(hits') /\ AnswerMap(misses')
             /\ look' \in [Lookups -> LookType(clock', Len(contents'))]
      PROVE  ApiKeyTypeOK'
  BY <1>k DEF ApiKeyTypeOK, AnswerMap, LookType
<1>i. /\ AnswersInv(hits, PositiveTtl) /\ AnswersInv(misses, NegativeTtl)
      /\ ReloadInv /\ \A l \in Lookups : LookInv(l)
  BY DEF KeysInv
<1>c. ASSUME UNCHANGED <<hits, misses>>, ApiKeyTypeOK', ReloadInv', \A l \in Lookups : LookInv(l)'
      PROVE  KeysInv'
  BY <1>c, <1>i DEF KeysInv
<1> HIDE DEF n
<1>r. clock \in 0 .. clock /\ 0 \in 0 .. clock /\ 0 \in 0 .. n /\ n \in 0 .. n /\ stamp \in 0 .. n
  BY <1>t
<1>n. nextAttempt \in Nat /\ 0 \in Nat
  BY <1>t
<1>1. CASE OperatorEdits
  <2>1. PICK ks \in SUBSET ApiKeySet : contents' = Append(contents, ks)
    BY <1>1 DEF OperatorEdits
  <2>2. UNCHANGED <<clock, index, raced, loadedAt, stamp, nextAttempt, hits, misses, look>> /\ n <= MaxEdits
    BY <1>1 DEF OperatorEdits, n
  <2>3. Len(contents') = n + 1 /\ contents' \in Seq(SUBSET ApiKeySet)
    BY <1>t, <2>1 DEF n
  <2>4. look' \in [Lookups -> LookType(clock', n + 1)]
    BY <1>t, <2>2 DEF LookType
  <2>5. ApiKeyTypeOK'
    BY <1>t, <1>k, <2>2, <2>3, <2>4
  <2>6. ReloadInv'
    <3>1. ASSUME NEW j \in Lookups PROVE AloneInv(j)' /\ NewestInv(j)'
      BY <1>i, <2>2 DEF ReloadInv, AloneInv, NewestInv
    <3>2. ASSUME NEW j \in Lookups PROVE ReadInv(j)'
      BY <1>t, <1>i, <2>2, <2>3 DEF ReloadInv, ReadInv, n
    <3>3. IndexInv'
      BY <1>i, <2>2 DEF ReloadInv, IndexInv
    <3> QED BY <3>1, <3>2, <3>3 DEF ReloadInv
  <2>7. \A l \in Lookups : LookInv(l)'
    BY <1>i, <2>2 DEF LookInv
  <2> QED BY <1>c, <2>2, <2>5, <2>6, <2>7
<1>2. CASE ClockTicks
  <2>1. /\ UNCHANGED <<contents, index, raced, loadedAt, stamp, nextAttempt, hits, misses, look>>
        /\ clock' = clock + 1 /\ clock' \in 0 .. MaxClock
    BY <1>2, <1>t DEF ClockTicks
  <2>2. look' \in [Lookups -> LookType(clock', n)]
    BY <1>t, <2>1 DEF LookType
  <2>3. ApiKeyTypeOK'
    BY <1>t, <1>k, <2>1, <2>2 DEF n
  <2>4. ReloadInv' /\ \A l \in Lookups : LookInv(l)'
    BY <1>i, <2>1 DEF ReloadInv, AloneInv, NewestInv, ReadInv, IndexInv, LookInv
  <2> QED BY <1>c, <2>1, <2>3, <2>4
<1>m. ASSUME NEW l \in Lookups, NEW e \in T, LookMoves(l, e), UNCHANGED <<clock, contents>>
      PROVE  /\ look' \in [Lookups -> LookType(clock', Len(contents'))]
             /\ look'[l] = e
             /\ \A j \in Lookups : j # l => look'[j] = look[j]
             /\ \A j \in Lookups : j # l => LookInv(j)'
  <2>1. /\ look' \in [Lookups -> T] /\ look'[l] = e
        /\ \A j \in Lookups : j # l => look'[j] = look[j]
    BY <1>t, <1>m, LookMovesOne
  <2>2. \A j \in Lookups : j # l => LookInv(j)'
    BY <1>i, <2>1 DEF LookInv
  <2> QED BY <1>m, <2>1, <2>2 DEF n
<1>3. ASSUME NEW l \in Lookups, LookInCache(l) PROVE KeysInv'
  <2>1. PICK k \in ApiKeySet :
           look' = [look EXCEPT ![l] =
                       [IdleLook EXCEPT !.pc = "due", !.key = k, !.asked = clock]]
    BY <1>3 DEF LookInCache
  <2> DEFINE e == [IdleLook EXCEPT !.pc = "due", !.key = k, !.asked = clock]
  <2>2. e \in T /\ e.pc = "due" /\ e.key = k
    <3>1. IdleLook \in T
      BY <1>t, IdleLookType
    <3>2. "due" \in LookSteps /\ k \in ApiKeySet /\ clock \in 0 .. clock
      BY <1>t DEF LookSteps
    <3> QED BY <3>1, <3>2 DEF LookType
  <2>3. /\ LookMoves(l, e)
        /\ UNCHANGED <<clock, contents, index, raced, loadedAt, stamp, nextAttempt, hits, misses>>
    BY <1>3, <2>1 DEF LookMoves, LookInCache
  <2> HIDE DEF e
  <2>4. ApiKeyTypeOK'
    BY <1>t, <1>k, <1>m, <2>2, <2>3 DEF n
  <2>5. ReloadInv'
    BY <1>i, <1>m, <2>2, <2>3, ReloadKept
  <2>6. LookInv(l)'
    BY <1>m, <2>2, <2>3 DEF LookInv
  <2> QED BY <1>c, <1>m, <2>2, <2>3, <2>4, <2>5, <2>6
<1>4. ASSUME NEW l \in Lookups, CacheAnswer(l) PROVE KeysInv'
  <2>1. look[l].key \in ApiKeySet /\ look[l].asked <= look[l].at
    BY <1>4, <1>i DEF CacheAnswer, LookAt, LookInv
  <2>2. ApiKeyTypeOK
    BY DEF KeysInv
  <2>3. /\ AnswerMap(hits') /\ AnswerMap(misses')
        /\ AnswersInv(hits', PositiveTtl) /\ AnswersInv(misses', NegativeTtl)
    BY <1>4, <1>t, <1>i, <2>1, <2>2, PutAnswerKeeps DEF CacheAnswer, Remember
  <2>4. /\ LookMoves(l, IdleLook) /\ IdleLook \in T /\ IdleLook.pc = "idle"
        /\ UNCHANGED <<clock, contents, index, raced, loadedAt, stamp, nextAttempt>>
    BY <1>4, <1>t, IdleLookType DEF CacheAnswer, LookMoves, IdleLook
  <2>5. ApiKeyTypeOK'
    BY <1>t, <1>k, <1>m, <2>3, <2>4 DEF n
  <2>6. ReloadInv'
    BY <1>i, <1>m, <2>4, ReloadKept
  <2>7. LookInv(l)'
    BY <1>m, <2>4 DEF LookInv
  <2> QED BY <1>m, <2>3, <2>4, <2>5, <2>6, <2>7 DEF KeysInv
<1>5. ASSUME NEW l \in Lookups, SeesDue(l) PROVE KeysInv'
  <2> DEFINE e == IF clock < nextAttempt THEN [look[l] EXCEPT !.pc = "ceiling"]
                  ELSE [look[l] EXCEPT !.pc = "claim", !.due = nextAttempt, !.at = clock]
  <2>1. look[l] \in T /\ look[l].pc = "due" /\ look[l].key \in ApiKeySet
    BY <1>5, <1>t, <1>i DEF SeesDue, LookAt, LookInv
  <2>2. e \in T /\ e.pc \in {"ceiling", "claim"} /\ e.key = look[l].key
    BY <1>r, <1>n, <2>1 DEF LookType, LookSteps
  <2>3. /\ LookMoves(l, e)
        /\ UNCHANGED <<clock, contents, index, raced, loadedAt, stamp, nextAttempt, hits, misses>>
    BY <1>5, <1>t DEF SeesDue, LookGo, LookMoves
  <2> HIDE DEF e
  <2>4. ApiKeyTypeOK'
    BY <1>t, <1>k, <1>m, <2>2, <2>3 DEF n
  <2>5. ReloadInv'
    BY <1>i, <1>m, <2>2, <2>3, ReloadKept
  <2>6. LookInv(l)'
    BY <1>m, <2>1, <2>2, <2>3 DEF LookInv
  <2> QED BY <1>c, <1>m, <2>2, <2>3, <2>4, <2>5, <2>6
<1>6. ASSUME NEW l \in Lookups, ClaimReload(l) PROVE KeysInv'
  <2>1. look[l] \in T /\ look[l].pc = "claim" /\ look[l].key \in ApiKeySet
    BY <1>6, <1>t, <1>i DEF ClaimReload, LookAt, LookInv
  <2>2. UNCHANGED <<clock, contents, index, raced, loadedAt, stamp, hits, misses>>
    BY <1>6 DEF ClaimReload
  <2>3. CASE ~Wins(l)
    <3> DEFINE e == [look[l] EXCEPT !.pc = "ceiling", !.due = 0, !.at = 0]
    <3>1. e \in T /\ e.pc = "ceiling" /\ e.key = look[l].key
      BY <1>r, <1>n, <2>1 DEF LookType, LookSteps
    <3>2. LookMoves(l, e) /\ UNCHANGED nextAttempt
      BY <1>6, <1>t, <2>3 DEF ClaimReload, LookMoves
    <3> HIDE DEF e
    <3>3. ApiKeyTypeOK'
      BY <1>t, <1>k, <1>m, <2>2, <3>1, <3>2 DEF n
    <3>4. ReloadInv'
      BY <1>i, <1>m, <2>2, <3>1, <3>2, ReloadKept
    <3>5. LookInv(l)'
      BY <1>m, <2>1, <2>2, <3>1, <3>2 DEF LookInv
    <3> QED BY <1>c, <1>m, <2>2, <3>1, <3>2, <3>3, <3>4, <3>5
  <2>4. CASE Wins(l)
    <3> DEFINE e == [look[l] EXCEPT !.pc = "read", !.due = 0, !.at = 0, !.beside = (Reloading # {})]
               b(m) == [look[m] EXCEPT !.beside = TRUE]
    <3>1. e \in T /\ e.pc = "read" /\ e.key = look[l].key /\ e.beside = (Reloading # {})
      BY <1>r, <1>n, <2>1 DEF LookType, LookSteps
    <3>2. \A m \in Lookups : /\ b(m) \in T /\ b(m).pc = look[m].pc /\ b(m).key = look[m].key
                             /\ b(m).asked = look[m].asked /\ b(m).at = look[m].at
                             /\ b(m).no = look[m].no /\ b(m).beside = TRUE
      BY <1>t DEF LookType
    <3>3. /\ nextAttempt' = look[l].at + RefreshSecs
          /\ look' = [m \in Lookups |-> IF m = l THEN e ELSE IF m \in Reloading THEN b(m) ELSE look[m]]
      BY <1>6, <2>4 DEF ClaimReload
    <3> HIDE DEF e, b
    <3>4. look' \in [Lookups -> T] /\ nextAttempt' \in Nat
      BY <1>t, <2>1, <3>1, <3>2, <3>3 DEF LookType
    <3>5. ApiKeyTypeOK'
      BY <1>t, <1>k, <2>2, <3>4 DEF n
    <3>6. /\ look'[l] = e
          /\ \A m \in Lookups : m # l =>
                /\ look'[m].pc = look[m].pc /\ look'[m].no = look[m].no
                /\ look'[m].key = look[m].key /\ look'[m].asked = look[m].asked
                /\ look'[m].at = look[m].at
                /\ look[m].pc \in {"read", "publish", "stamp"} => look'[m].beside = TRUE
      BY <3>2, <3>3 DEF Reloading
    <3>7. \A m \in Lookups : LookInv(m)'
      BY <1>i, <2>1, <3>1, <3>6 DEF LookInv
    <3>8. ASSUME NEW j \in Lookups PROVE AloneInv(j)' /\ NewestInv(j)' /\ ReadInv(j)'
      <4>1. CASE j = l
        <5>1. AloneInv(l)'
          BY <3>1, <3>6 DEF AloneInv, Reloading
        <5> QED BY <3>1, <3>6, <4>1, <5>1 DEF NewestInv, ReadInv
      <4>2. CASE j # l
        BY <1>i, <2>2, <3>6, <4>2 DEF AloneInv, NewestInv, ReadInv, ReloadInv
      <4> QED BY <4>1, <4>2
    <3>9. IndexInv'
      BY <1>i, <2>2, <3>1, <3>6 DEF ReloadInv, IndexInv
    <3>10. ReloadInv'
      BY <3>8, <3>9 DEF ReloadInv
    <3> QED BY <1>c, <2>2, <3>5, <3>7, <3>10
  <2> QED BY <2>3, <2>4
<1>7. ASSUME NEW l \in Lookups, ReadFile(l) PROVE KeysInv'
  <2>1. look[l] \in T /\ look[l].pc = "read" /\ look[l].key \in ApiKeySet
    BY <1>7, <1>t, <1>i DEF ReadFile, LookAt, LookInv
  <2>2. UNCHANGED <<clock, contents, index, raced, loadedAt, stamp, nextAttempt, hits, misses>>
    BY <1>7 DEF ReadFile
  <2>3. CASE look' = [look EXCEPT ![l].pc = "ceiling", ![l].beside = FALSE]
    <3> DEFINE e == [look[l] EXCEPT !.pc = "ceiling", !.beside = FALSE]
    <3>1. e \in T /\ e.pc = "ceiling" /\ e.key = look[l].key
      BY <2>1 DEF LookType, LookSteps
    <3>2. LookMoves(l, e)
      BY <1>t, <2>3 DEF LookMoves
    <3> HIDE DEF e
    <3>3. ApiKeyTypeOK'
      BY <1>t, <1>k, <1>m, <2>2, <3>1, <3>2 DEF n
    <3>4. ReloadInv'
      BY <1>i, <1>m, <2>2, <3>1, <3>2, ReloadKept
    <3>5. LookInv(l)'
      BY <1>m, <2>1, <2>2, <3>1, <3>2 DEF LookInv
    <3> QED BY <1>c, <1>m, <2>2, <3>1, <3>2, <3>3, <3>4, <3>5
  <2>4. CASE look' = [look EXCEPT ![l].pc = "publish", ![l].no = Len(contents)]
    <3> DEFINE e == [look[l] EXCEPT !.pc = "publish", !.no = n]
    <3>1. e \in T /\ e.pc = "publish" /\ e.key = look[l].key /\ e.no = n /\ e.beside = look[l].beside
      BY <1>r, <1>n, <2>1 DEF LookType, LookSteps
    <3>2. LookMoves(l, e)
      BY <1>t, <2>4 DEF LookMoves, n
    <3> HIDE DEF e
    <3>3. ApiKeyTypeOK'
      BY <1>t, <1>k, <1>m, <2>2, <3>1, <3>2 DEF n
    <3>4. look'[l] = e /\ \A j \in Lookups : j # l => look'[j] = look[j]
      BY <1>m, <2>2, <3>1, <3>2
    <3>5. \A j \in Lookups : look[j].no \in 0 .. n
      BY <1>t DEF LookType
    <3>6. ASSUME NEW j \in Lookups PROVE AloneInv(j)' /\ NewestInv(j)' /\ ReadInv(j)'
      <4>1. CASE j = l
        <5>1. AloneInv(l) /\ AloneInv(l)'
          BY <1>i, <2>1, <3>1, <3>4 DEF ReloadInv, AloneInv
        <5>2. NewestInv(l)'
          BY <1>t, <2>2, <3>1, <3>4, <3>5 DEF NewestInv
        <5>3. ReadInv(l)'
          BY <1>t, <2>2, <3>1, <3>4 DEF ReadInv, n
        <5> QED BY <4>1, <5>1, <5>2, <5>3
      <4>2. CASE j # l
        BY <1>i, <2>1, <2>2, <3>1, <3>4, <4>2 DEF AloneInv, NewestInv, ReadInv, ReloadInv
      <4> QED BY <4>1, <4>2
    <3>7. IndexInv'
      BY <1>i, <2>2, <3>1, <3>4 DEF ReloadInv, IndexInv
    <3>8. ReloadInv'
      BY <3>6, <3>7 DEF ReloadInv
    <3>9. LookInv(l)'
      BY <2>1, <3>1, <3>4 DEF LookInv
    <3> QED BY <1>c, <1>m, <2>2, <3>1, <3>2, <3>3, <3>8, <3>9
  <2> QED BY <1>7, <2>3, <2>4 DEF ReadFile
<1>8. ASSUME NEW l \in Lookups, PublishReload(l) PROVE KeysInv'
  <2> DEFINE e == [look[l] EXCEPT !.pc = "stamp"]
  <2>1. /\ look[l] \in T /\ look[l].pc = "publish" /\ look[l].key \in ApiKeySet
        /\ look[l].no \in 1 .. n /\ look[l].beside \in BOOLEAN
    BY <1>8, <1>t, <1>i DEF PublishReload, LookAt, LookInv, ReloadInv, ReadInv, LookType, n
  <2>2. /\ UNCHANGED <<clock, contents, loadedAt, stamp, nextAttempt, hits, misses>>
        /\ index' = look[l].no /\ raced' = look[l].beside
    BY <1>8 DEF PublishReload
  <2>3. e \in T /\ e.pc = "stamp" /\ e.key = look[l].key /\ e.no = look[l].no /\ e.beside = look[l].beside
    BY <2>1 DEF LookType, LookSteps
  <2>4. LookMoves(l, e)
    BY <1>8, <1>t DEF PublishReload, LookGo, LookMoves
  <2> HIDE DEF e
  <2>5. ApiKeyTypeOK'
    BY <1>t, <1>k, <1>m, <2>1, <2>2, <2>3, <2>4 DEF n
  <2>6. look'[l] = e /\ \A j \in Lookups : j # l => look'[j] = look[j]
    BY <1>m, <2>2, <2>3, <2>4
  <2>7. ASSUME NEW j \in Lookups PROVE AloneInv(j)' /\ NewestInv(j)' /\ ReadInv(j)'
    <3>1. CASE j = l
      <4>1. AloneInv(l) /\ AloneInv(l)'
        BY <1>i, <2>1, <2>3, <2>6 DEF ReloadInv, AloneInv
      <4> QED BY <2>1, <2>2, <2>3, <2>6, <3>1, <4>1 DEF NewestInv, ReadInv, n
    <3>2. CASE j # l
      BY <1>i, <2>1, <2>2, <2>3, <2>6, <3>2 DEF AloneInv, NewestInv, ReadInv, ReloadInv
    <3> QED BY <3>1, <3>2
  <2>8. IndexInv'
    <3> SUFFICES ASSUME look[l].beside = FALSE PROVE IndexInv'
      BY <2>1, <2>2 DEF IndexInv
    <3>1. AloneInv(l) /\ NewestInv(l)
      BY <1>i DEF ReloadInv
    <3>2. stamp <= look[l].no /\ \A m \in Lookups : look[m].pc = "probe" => look[m].no <= look[l].no
      BY <2>1, <3>1 DEF NewestInv
    <3>3. \A m \in Lookups : look[m].pc = "stamp" => m = l
      BY <2>1, <3>1 DEF AloneInv
    <3>4. look[l].no <= look[l].no
      BY <2>1
    <3> QED BY <2>2, <2>3, <2>6, <3>2, <3>3, <3>4 DEF IndexInv
  <2>9. ReloadInv'
    BY <2>7, <2>8 DEF ReloadInv
  <2>10. LookInv(l)'
    BY <2>1, <2>3, <2>6 DEF LookInv
  <2> QED BY <1>c, <1>m, <2>2, <2>3, <2>4, <2>5, <2>9, <2>10
<1>9. ASSUME NEW l \in Lookups, Stamps(l) PROVE KeysInv'
  <2> DEFINE e == [look[l] EXCEPT !.pc = "ceiling", !.no = 0, !.beside = FALSE]
  <2>1. /\ look[l] \in T /\ look[l].pc = "stamp" /\ look[l].key \in ApiKeySet /\ look[l].no \in 1 .. n
    BY <1>9, <1>t, <1>i DEF Stamps, LookAt, LookInv, ReloadInv, ReadInv, n
  <2>2. /\ UNCHANGED <<clock, contents, index, raced, nextAttempt, hits, misses>>
        /\ loadedAt' = clock /\ stamp' = look[l].no
    BY <1>9 DEF Stamps
  <2>3. e \in T /\ e.pc = "ceiling" /\ e.key = look[l].key
    BY <1>r, <1>n, <2>1 DEF LookType, LookSteps
  <2>4. LookMoves(l, e)
    BY <1>9, <1>t DEF Stamps, LookMoves
  <2> HIDE DEF e
  <2>5. ApiKeyTypeOK'
    BY <1>t, <1>k, <1>m, <2>1, <2>2, <2>3, <2>4 DEF n
  <2>6. look'[l] = e /\ \A j \in Lookups : j # l => look'[j] = look[j]
    BY <1>m, <2>2, <2>3, <2>4
  <2>7. ASSUME NEW j \in Lookups PROVE AloneInv(j)' /\ NewestInv(j)' /\ ReadInv(j)'
    <3>1. CASE j = l
      BY <2>3, <2>6, <3>1 DEF AloneInv, NewestInv, ReadInv
    <3>2. CASE j # l
      <4>1. AloneInv(j) /\ ReadInv(j)
        BY <1>i DEF ReloadInv
      <4>2. ~(look[j].pc = "publish" /\ ~look[j].beside)
        BY <2>1, <3>2, <4>1 DEF AloneInv
      <4> QED BY <2>2, <2>3, <2>6, <3>2, <4>1, <4>2 DEF AloneInv, NewestInv, ReadInv
    <3> QED BY <3>1, <3>2
  <2>8. IndexInv'
    BY <1>i, <2>1, <2>2, <2>3, <2>6 DEF ReloadInv, IndexInv
  <2>9. ReloadInv'
    BY <2>7, <2>8 DEF ReloadInv
  <2>10. LookInv(l)'
    BY <2>1, <2>3, <2>6 DEF LookInv
  <2> QED BY <1>c, <1>m, <2>2, <2>3, <2>4, <2>5, <2>9, <2>10
<1>10. ASSUME NEW l \in Lookups, ChecksCeiling(l) PROVE KeysInv'
  <2>1. look[l] \in T /\ look[l].pc = "ceiling" /\ look[l].key \in ApiKeySet
    BY <1>10, <1>t, <1>i DEF ChecksCeiling, LookAt, LookInv
  <2>2. UNCHANGED <<clock, contents, index, raced, loadedAt, stamp, nextAttempt, hits, misses>>
    BY <1>10 DEF ChecksCeiling
  <2> DEFINE p == [look[l] EXCEPT !.pc = "probe", !.no = stamp]
  <2>3. /\ p \in T /\ p.pc = "probe" /\ p.key = look[l].key /\ p.no = stamp
        /\ IdleLook \in T /\ IdleLook.pc = "idle"
    <3>1. p \in T /\ p.pc = "probe" /\ p.key = look[l].key /\ p.no = stamp
      BY <1>r, <2>1 DEF LookType, LookSteps
    <3>2. IdleLook \in T /\ IdleLook.pc = "idle"
      BY <1>t, IdleLookType DEF IdleLook
    <3> QED BY <3>1, <3>2
  <2>4. LookMoves(l, p) \/ LookMoves(l, IdleLook)
    BY <1>10, <1>t DEF ChecksCeiling, LookMoves
  <2> HIDE DEF p
  <2>5. PICK e \in {p, IdleLook} : LookMoves(l, e)
    BY <2>4
  <2>6. e \in T /\ (e.pc = "idle" \/ (e.pc = "probe" /\ e.key = look[l].key /\ e.no = stamp))
    BY <2>3
  <2>7. ApiKeyTypeOK'
    BY <1>t, <1>k, <1>m, <2>2, <2>5, <2>6 DEF n
  <2>8. ReloadInv'
    BY <1>t, <1>i, <1>m, <2>2, <2>5, <2>6, ReloadKept DEF n
  <2>9. LookInv(l)'
    BY <1>m, <2>1, <2>2, <2>5, <2>6 DEF LookInv
  <2> QED BY <1>c, <1>m, <2>2, <2>5, <2>6, <2>7, <2>8, <2>9
<1>11. ASSUME NEW l \in Lookups, ProbesIndex(l) PROVE KeysInv'
  <2> DEFINE e == [look[l] EXCEPT !.pc = "put", !.found = look[l].key \in Records,
                                  !.at = clock, !.no = 0]
  <2>1. look[l] \in T /\ look[l].pc = "probe" /\ look[l].key \in ApiKeySet
    BY <1>11, <1>t, <1>i DEF ProbesIndex, LookAt, LookInv
  <2>2. UNCHANGED <<clock, contents, index, raced, loadedAt, stamp, nextAttempt, hits, misses>>
    BY <1>11 DEF ProbesIndex
  <2>3. /\ e \in T /\ e.pc = "put" /\ e.key = look[l].key
        /\ e.asked = look[l].asked /\ e.at = clock /\ look[l].asked <= clock
    <3>1. "put" \in LookSteps /\ (look[l].key \in Records) \in BOOLEAN /\ clock \in 0 .. clock /\ 0 \in 0 .. n
      BY <1>t DEF LookSteps
    <3>2. look[l].asked <= clock
      BY <1>t, <2>1 DEF LookType
    <3> QED BY <2>1, <3>1, <3>2 DEF LookType
  <2>4. LookMoves(l, e)
    BY <1>11, <1>t DEF ProbesIndex, LookMoves
  <2> HIDE DEF e
  <2>5. ApiKeyTypeOK'
    BY <1>t, <1>k, <1>m, <2>2, <2>3, <2>4 DEF n
  <2>6. ReloadInv'
    BY <1>i, <1>m, <2>2, <2>3, <2>4, ReloadKept
  <2>7. LookInv(l)'
    BY <1>m, <2>1, <2>2, <2>3, <2>4 DEF LookInv
  <2> QED BY <1>c, <1>m, <2>2, <2>3, <2>4, <2>5, <2>6, <2>7
<1>12. CASE UNCHANGED apiKeyVars
  <2>1. ApiKeyTypeOK'
    BY <1>12, <1>t, <1>k DEF apiKeyVars, n
  <2>2. ReloadInv' /\ \A l \in Lookups : LookInv(l)'
    BY <1>12, <1>i DEF apiKeyVars, ReloadInv, AloneInv, NewestInv, ReadInv, IndexInv, LookInv
  <2> QED BY <1>c, <1>12, <2>1, <2>2 DEF apiKeyVars
<1> QED BY <1>1, <1>2, <1>3, <1>4, <1>5, <1>6, <1>7, <1>8, <1>9, <1>10, <1>11, <1>12 DEF ApiKeyNext

\* The invariant holds in every reachable state.
LEMMA KeysInvariant == ApiKeySpec => []KeysInv
<1>1. ApiKeyInit => KeysInv
  <2> SUFFICES ASSUME ApiKeyInit PROVE KeysInv
    OBVIOUS
  <2> USE ApiKeysAssumption
  <2>1. DOMAIN hits = {} /\ DOMAIN misses = {}
    BY DEF ApiKeyInit, NoAnswers
  <2>2. contents = <<InitialKeys>> /\ contents \in Seq(SUBSET ApiKeySet) /\ Len(contents) = 1
    BY DEF ApiKeyInit
  <2>3. look \in [Lookups -> LookType(clock, 1)]
    BY IdleLookType DEF ApiKeyInit
  <2>4. ApiKeyTypeOK
    <3>1. /\ Cardinality({}) = 0 /\ clock \in 0 .. MaxClock /\ loadedAt \in 0 .. clock
          /\ index \in 1 .. 1 /\ stamp \in 1 .. 1 /\ raced \in BOOLEAN /\ nextAttempt \in Nat
          /\ 1 \in 1 .. MaxEdits + 1
      <4>1. Cardinality({}) = 0
        BY FS_EmptySet
      <4>2. clock = 0 /\ loadedAt = 0 /\ index = 1 /\ stamp = 1 /\ raced = FALSE /\ nextAttempt = RefreshSecs
        BY DEF ApiKeyInit
      <4>3. 0 \in 0 .. MaxClock /\ 0 \in 0 .. 0 /\ 1 \in 1 .. 1 /\ RefreshSecs \in Nat /\ 1 \in 1 .. MaxEdits + 1
        OBVIOUS
      <4> QED BY <4>1, <4>2, <4>3
    <3>2. AnswerMap(hits) /\ AnswerMap(misses)
      BY <2>1, <3>1 DEF AnswerMap
    <3> QED BY <2>2, <2>3, <3>1, <3>2 DEF ApiKeyTypeOK, AnswerMap, LookType
  <2>5. AnswersInv(hits, PositiveTtl) /\ AnswersInv(misses, NegativeTtl)
    BY <2>1, FS_EmptySet DEF AnswersInv
  <2>6. \A l \in Lookups : look[l].pc = "idle"
    BY DEF ApiKeyInit, IdleLook
  <2>7. ReloadInv
    BY <2>6 DEF ApiKeyInit, ReloadInv, AloneInv, NewestInv, ReadInv, IndexInv
  <2>8. \A l \in Lookups : LookInv(l)
    BY <2>6 DEF LookInv
  <2> QED BY <2>4, <2>5, <2>7, <2>8 DEF KeysInv
<1> QED BY <1>1, KeysStep, PTL DEF ApiKeySpec

\* Neither map of the cache ever outgrows its capacity, and every field keeps
\* its type.
THEOREM ApiKeysTypeCorrect == ApiKeySpec => []ApiKeyTypeOK
<1>1. KeysInv => ApiKeyTypeOK
  BY DEF KeysInv
<1> QED BY <1>1, KeysInvariant, PTL

\* A cached answer lives for less than its TTL, and while the published index is
\* of a reload that overlapped none, a lookup that judged the records by a stamp is
\* answered from what the file held when the stamped reload read it, or later.
THEOREM RevocationWindowHolds == ApiKeySpec => []RevocationWindow
<1>1. KeysInv => RevocationWindow
  <2> SUFFICES ASSUME KeysInv PROVE RevocationWindow
    OBVIOUS
  <2>1. ASSUME NEW m, NEW ttl \in Nat, AnswerMap(m), AnswersInv(m, ttl), NEW k, LiveAnswer(m, k)
        PROVE  clock - m[k].at < ttl
    <3>1. m[k].expires \in Nat /\ m[k].at \in Nat /\ clock \in Nat
      BY <2>1, ApiKeysAssumption DEF AnswerMap, Answer, LiveAnswer, KeysInv, ApiKeyTypeOK
    <3>2. m[k].expires > clock /\ m[k].expires <= m[k].at + ttl
      BY <2>1 DEF LiveAnswer, AnswersInv
    <3> QED BY <3>1, <3>2
  <2>2. AnswerMap(hits) /\ AnswerMap(misses)
    BY DEF KeysInv, ApiKeyTypeOK, AnswerMap
  <2>3. PositiveTtl \in Nat /\ NegativeTtl \in Nat
    BY ApiKeysAssumption
  <2>4. WithinWindow
    BY <2>1, <2>2, <2>3 DEF KeysInv, WithinWindow
  <2>5. FreshStampFreshRecords
    <3>1. /\ index \in 1 .. Len(contents) /\ stamp \in 1 .. Len(contents) /\ ReloadInv
          /\ Len(contents) \in Nat
      BY DEF KeysInv, ApiKeyTypeOK
    <3>2. ASSUME NEW v \in 1 .. Len(contents), v <= index PROVE Records \in HeldSince(v)
      <4>1. index \in v .. Len(contents)
        BY <3>1, <3>2
      <4> QED BY <4>1 DEF Records, HeldSince
    <3>3. ~raced => Records \in HeldSince(stamp)
      BY <3>1, <3>2 DEF ReloadInv, IndexInv
    <3>4. ASSUME ~raced, NEW l \in Lookups, LookAt(l, "probe") PROVE Records \in HeldSince(look[l].no)
      BY <3>1, <3>2, <3>4 DEF ReloadInv, IndexInv, ReadInv, LookAt
    <3> QED BY <3>3, <3>4 DEF FreshStampFreshRecords
  <2> QED BY <2>4, <2>5 DEF RevocationWindow
<1> QED BY <1>1, KeysInvariant, PTL

----------------------------------------------------------------------------
(* The audit sink.                                                         *)

\* The emissions that hold an output slot.
Holding == {e \in Emissions : em[e] \in {"slot", "spawned", "appending"}}

\* Slots are never handed out twice, and none is out once shutdown has them all.
SlotsInv ==
    /\ permits + Cardinality(Holding) <= OutputSlots
    /\ down \in {"drained", "ok"} => Holding = {}

\* A position belongs to the record that was given it, and to a writer.
PositionInv(e) ==
    /\ pos[e] # NoPos <=> em[e] \in {"spawned", "appending", "ended"}
    /\ pos[e] # NoPos => pos[e].seq \in 1 .. chainSeq /\ pos[e].prev = pos[e].seq - 1

ChainInv ==
    /\ chainPrev = chainSeq
    /\ \A e \in Emissions : PositionInv(e)
    /\ \A n \in 1 .. chainSeq : \E e \in Minted : pos[e].seq = n
    /\ Cardinality(Minted) = chainSeq

\* A name that is not pending has been synced; an acknowledged record has been
\* written for good.
SyncInv ==
    /\ ~pending => held \in linked
    /\ \A e \in acked : em[e] = "ended" /\ e \in synced /\ inFile[e] \in linked

\* There is a file number left for the file that is missing.
FilesInv == atPath = 0 => lastFile < 2 * MaxRotations + 1

AuditInv == AuditTypeOK /\ SlotsInv /\ ChainInv /\ SyncInv /\ FilesInv

\* Subsets of the emissions are finite.
LEMMA EmissionSets ==
    ASSUME NEW S \in SUBSET Emissions
    PROVE  IsFiniteSet(S) /\ Cardinality(S) \in Nat /\ Cardinality(S) <= Cardinality(Emissions)
           /\ Cardinality(Emissions) \in Nat
  BY AuditAssumption, FS_Subset, FS_CardinalityType

\* A step that gives no position and moves no record over the chain.
LEMMA ChainKept ==
    ASSUME AuditInv, UNCHANGED <<chainSeq, chainPrev, pos>>,
           \A e \in Emissions : em'[e] \in {"spawned", "appending", "ended"}
                                   <=> em[e] \in {"spawned", "appending", "ended"}
    PROVE  ChainInv'
<1>1. Minted' = Minted
  BY DEF Minted
<1>2. ASSUME NEW e \in Emissions PROVE PositionInv(e)'
  BY <1>2 DEF AuditInv, ChainInv, PositionInv
<1> QED BY <1>1, <1>2 DEF AuditInv, ChainInv

\* A step that takes no slot.
LEMMA SlotsKept ==
    ASSUME AuditInv, Holding' = Holding, UNCHANGED permits,
           down' \in {"drained", "ok"} => down \in {"drained", "ok"}
    PROVE  SlotsInv'
  BY DEF AuditInv, SlotsInv

\* A step that acknowledges nothing and leaves the exporter's files alone.
LEMMA SyncKept ==
    ASSUME AuditInv, UNCHANGED <<inFile, synced, linked, acked, held, pending>>,
           \A e \in Emissions : em[e] = "ended" => em'[e] = "ended"
    PROVE  SyncInv'
  BY DEF AuditInv, AuditTypeOK, SyncInv

\* Every step of an emission, the exporter, the rotator and shutdown keeps the
\* invariant.
LEMMA AuditStep == AuditInv /\ [AuditNext]_auditVars => AuditInv'
<1> SUFFICES ASSUME AuditInv, [AuditNext]_auditVars PROVE AuditInv'
  OBVIOUS
<1> USE AuditAssumption DEF emitterVars, exporterVars, chainVars
<1>t. AuditTypeOK
  BY DEF AuditInv
<1>em. ASSUME NEW e \in Emissions, NEW step \in EmSteps, EmTo(e, step)
       PROVE  /\ em' \in [Emissions -> EmSteps] /\ em'[e] = step
              /\ \A d \in Emissions : d # e => em'[d] = em[d]
  BY <1>em, <1>t DEF EmTo, AuditTypeOK
<1>1. ASSUME NEW e \in Emissions, EmissionStarts(e) PROVE AuditInv'
  <2>1. em[e] = "idle" /\ em' \in [Emissions -> EmSteps] /\ em'[e] = "waiting"
        /\ \A d \in Emissions : d # e => em'[d] = em[d]
    BY <1>1, <1>em DEF EmissionStarts, EmSteps
  <2>2. AuditTypeOK'
    BY <1>1, <1>t, <2>1 DEF EmissionStarts, AuditTypeOK
  <2>3. Holding' = Holding
    BY <2>1 DEF Holding
  <2>4. ChainInv'
    BY <1>1, <2>1, ChainKept DEF EmissionStarts
  <2>5. SlotsInv'
    BY <1>1, <2>3, SlotsKept DEF EmissionStarts
  <2>6. SyncInv'
    BY <1>1, <2>1, SyncKept DEF EmissionStarts
  <2>7. FilesInv'
    BY <1>1 DEF EmissionStarts, AuditInv, FilesInv
  <2> QED BY <2>2, <2>4, <2>5, <2>6, <2>7 DEF AuditInv
<1>2. ASSUME NEW e \in Emissions, OutputSlot(e) \/ CallbackTimesOut(e) PROVE AuditInv'
  <2>1. UNCHANGED <<chainSeq, chainPrev, pos, down, exporterVars>>
    BY <1>2 DEF OutputSlot, CallbackTimesOut
  <2>2. CASE em[e] = "waiting" /\ EmTo(e, "refused") /\ UNCHANGED permits
    <3>1. em' \in [Emissions -> EmSteps] /\ em'[e] = "refused"
          /\ \A d \in Emissions : d # e => em'[d] = em[d]
      BY <2>2, <1>em DEF EmSteps
    <3>2. AuditTypeOK'
      BY <1>t, <2>1, <2>2, <3>1 DEF AuditTypeOK
    <3>3. Holding' = Holding
      BY <2>2, <3>1 DEF Holding
    <3>4. ChainInv'
      BY <2>1, <2>2, <3>1, ChainKept
    <3>5. SlotsInv'
      BY <2>1, <2>2, <3>3, SlotsKept
    <3>6. SyncInv'
      BY <2>1, <2>2, <3>1, SyncKept
    <3>7. FilesInv'
      BY <2>1 DEF AuditInv, FilesInv
    <3> QED BY <3>2, <3>4, <3>5, <3>6, <3>7 DEF AuditInv
  <2>3. CASE em[e] = "waiting" /\ ~Closed /\ permits > 0 /\ EmTo(e, "slot") /\ permits' = permits - 1
    <3>1. em' \in [Emissions -> EmSteps] /\ em'[e] = "slot"
          /\ \A d \in Emissions : d # e => em'[d] = em[d]
      BY <2>3, <1>em DEF EmSteps
    <3>2. AuditTypeOK'
      BY <1>t, <2>1, <2>3, <3>1 DEF AuditTypeOK
    <3>3. Holding' = Holding \cup {e} /\ e \notin Holding
      BY <2>3, <3>1 DEF Holding
    <3>4. Cardinality(Holding') = Cardinality(Holding) + 1 /\ Cardinality(Holding) \in Nat
      <4>1. IsFiniteSet(Holding) /\ Cardinality(Holding) \in Nat
        BY EmissionSets DEF Holding
      <4> QED BY <3>3, <4>1, FS_AddElement
    <3>5. SlotsInv'
      BY <1>t, <2>1, <2>3, <3>4 DEF AuditInv, AuditTypeOK, SlotsInv, Closed
    <3>6. ChainInv'
      BY <2>1, <2>3, <3>1, ChainKept
    <3>7. SyncInv'
      BY <2>1, <2>3, <3>1, SyncKept
    <3>8. FilesInv'
      BY <2>1 DEF AuditInv, FilesInv
    <3> QED BY <3>2, <3>5, <3>6, <3>7, <3>8 DEF AuditInv
  <2>4. CASE UNCHANGED <<em, permits>>
    <3>1. UNCHANGED auditVars
      BY <2>1, <2>4 DEF auditVars
    <3> QED BY <3>1 DEF auditVars, AuditInv, AuditTypeOK, SlotsInv, ChainInv, SyncInv, FilesInv,
                        Holding, Minted, PositionInv
  <2> QED BY <1>2, <2>2, <2>3, <2>4 DEF OutputSlot, CallbackTimesOut, Detach
<1>3. ASSUME NEW e \in Emissions, Mint(e) PROVE AuditInv'
  <2>1. em[e] = "slot" /\ em' \in [Emissions -> EmSteps] /\ em'[e] = "spawned"
        /\ \A d \in Emissions : d # e => em'[d] = em[d]
    BY <1>3, <1>em DEF Mint, EmSteps
  <2>2. /\ UNCHANGED <<permits, down, exporterVars>>
        /\ chainSeq' = chainSeq + 1 /\ chainPrev' = chainSeq + 1
    BY <1>3 DEF Mint
  <2>3. chainSeq \in Nat /\ chainPrev = chainSeq /\ pos[e] = NoPos
    BY <1>t, <2>1, EmissionSets DEF AuditTypeOK, AuditInv, ChainInv, PositionInv
  <2>4. /\ pos'[e] = [seq |-> chainSeq + 1, prev |-> chainSeq]
        /\ \A d \in Emissions : d # e => pos'[d] = pos[d]
    BY <1>3, <1>t, <2>3 DEF Mint, Link, AuditTypeOK
  <2>5. pos'[e] # NoPos /\ pos'[e].seq = chainSeq + 1 /\ pos'[e].prev = chainSeq
    BY <2>3, <2>4 DEF NoPos
  <2>6. Minted' = Minted \cup {e} /\ e \notin Minted
    BY <2>3, <2>4, <2>5 DEF Minted
  <2>7. Cardinality(Minted') = chainSeq + 1 /\ chainSeq + 1 <= Cardinality(Emissions)
    <3>1. IsFiniteSet(Minted)
      BY EmissionSets DEF Minted
    <3>2. Cardinality(Minted) = chainSeq
      BY DEF AuditInv, ChainInv
    <3>3. Minted \cup {e} \in SUBSET Emissions
      BY DEF Minted
    <3>4. Cardinality(Minted \cup {e}) = chainSeq + 1
      BY <2>6, <3>1, <3>2, FS_AddElement
    <3> QED BY <2>6, <3>3, <3>4, EmissionSets
  <2>8. pos' \in [Emissions -> [seq : 0 .. chainSeq', prev : 0 .. chainSeq']]
    <3>1. pos' = [pos EXCEPT ![e] = [seq |-> chainSeq + 1, prev |-> chainSeq]]
      BY <1>3, <2>3 DEF Mint, Link
    <3>2. [seq |-> chainSeq + 1, prev |-> chainSeq] \in [seq : 0 .. chainSeq', prev : 0 .. chainSeq']
      BY <2>2, <2>3
    <3>3. \A d \in Emissions : pos[d] \in [seq : 0 .. chainSeq', prev : 0 .. chainSeq']
      BY <1>t, <2>2, <2>3 DEF AuditTypeOK
    <3> QED BY <1>t, <3>1, <3>2, <3>3 DEF AuditTypeOK
  <2>9. AuditTypeOK'
    BY <1>t, <2>1, <2>2, <2>3, <2>7, <2>8, EmissionSets DEF AuditTypeOK
  <2>10. ChainInv'
    <3>1. ASSUME NEW d \in Emissions PROVE PositionInv(d)'
      <4>1. PositionInv(d)
        BY <3>1 DEF AuditInv, ChainInv
      <4>2. CASE d = e
        BY <2>1, <2>2, <2>3, <2>5, <4>2 DEF PositionInv
      <4>3. CASE d # e
        BY <2>1, <2>2, <2>3, <2>4, <3>1, <4>1, <4>3 DEF PositionInv
      <4> QED BY <4>2, <4>3
    <3>2. ASSUME NEW n \in 1 .. chainSeq' PROVE \E d \in Minted' : pos'[d].seq = n
      <4>1. CASE n = chainSeq + 1
        BY <2>5, <2>6, <4>1
      <4>2. CASE n # chainSeq + 1
        <5>1. n \in 1 .. chainSeq
          BY <2>2, <2>3, <3>2, <4>2
        <5>2. PICK d \in Minted : pos[d].seq = n
          BY <5>1 DEF AuditInv, ChainInv
        <5>3. d \in Emissions /\ d # e
          BY <2>6 DEF Minted
        <5> QED BY <2>4, <2>6, <5>2, <5>3
      <4> QED BY <4>1, <4>2
    <3> QED BY <2>2, <2>7, <3>1, <3>2 DEF ChainInv
  <2>11. Holding' = Holding
    BY <2>1 DEF Holding
  <2>12. SlotsInv' /\ SyncInv'
    BY <2>1, <2>2, <2>11, SlotsKept, SyncKept
  <2>13. FilesInv'
    BY <2>2 DEF AuditInv, FilesInv
  <2> QED BY <2>9, <2>10, <2>12, <2>13 DEF AuditInv
<1>4. ASSUME NEW e \in Emissions, FollowRotation(e) PROVE AuditInv'
  <2>1. em[e] = "spawned" /\ em' \in [Emissions -> EmSteps] /\ em'[e] = "appending"
        /\ \A d \in Emissions : d # e => em'[d] = em[d]
    BY <1>4, <1>em DEF FollowRotation, EmSteps
  <2>2. UNCHANGED <<permits, chainSeq, chainPrev, pos, down, inFile, synced, linked, acked>> /\ writer' = e
    BY <1>4 DEF FollowRotation
  <2>3. /\ atPath' \in Files /\ held' \in Files \ {0} /\ lastFile' \in Files /\ pending' \in BOOLEAN
        /\ pending' \/ (UNCHANGED <<held, pending>>)
        /\ FilesInv'
    <3>1. /\ atPath \in Files /\ held \in Files \ {0} /\ lastFile \in Files /\ pending \in BOOLEAN
          /\ FilesInv
      BY <1>t DEF AuditInv, AuditTypeOK
    <3>2. CASE /\ atPath # held /\ atPath # 0 /\ held' = atPath /\ pending' = Reopened
               /\ UNCHANGED <<atPath, lastFile>>
      BY <3>1, <3>2 DEF FilesInv, Reopened
    <3>3. CASE /\ atPath = 0 /\ held' = lastFile + 1 /\ lastFile' = lastFile + 1
               /\ atPath' = lastFile + 1 /\ pending' = Reopened
      <4>1. lastFile + 1 \in Files \ {0}
        BY <3>1, <3>3 DEF FilesInv, Files
      <4> QED BY <3>3, <4>1 DEF FilesInv, Reopened
    <3>4. CASE UNCHANGED <<atPath, held, lastFile, pending>>
      BY <3>1, <3>4 DEF FilesInv
    <3> QED BY <1>4, <3>2, <3>3, <3>4 DEF FollowRotation
  <2>4. AuditTypeOK'
    BY <1>t, <2>1, <2>2, <2>3 DEF AuditTypeOK
  <2>5. Holding' = Holding
    BY <2>1 DEF Holding
  <2>6. SlotsInv' /\ ChainInv'
    BY <2>1, <2>2, <2>5, SlotsKept, ChainKept
  <2>7. SyncInv'
    BY <1>t, <2>1, <2>2, <2>3 DEF AuditInv, AuditTypeOK, SyncInv
  <2> QED BY <2>3, <2>4, <2>6, <2>7 DEF AuditInv
<1>5. ASSUME NEW e \in Emissions, AppendRecord(e) PROVE AuditInv'
  <2>1. em[e] = "appending" /\ em' \in [Emissions -> EmSteps] /\ em'[e] = "ended"
        /\ \A d \in Emissions : d # e => em'[d] = em[d]
    BY <1>5, <1>em DEF AppendRecord, EmSteps
  <2>2. /\ UNCHANGED <<chainSeq, chainPrev, pos, down, atPath, held, lastFile>>
        /\ permits' = permits + 1 /\ writer' = Nobody
    BY <1>5 DEF AppendRecord
  <2>3. Holding' = Holding \ {e} /\ e \in Holding
    BY <2>1 DEF Holding
  <2>4. Cardinality(Holding') = Cardinality(Holding) - 1 /\ Cardinality(Holding) \in Nat /\ Cardinality(Holding') \in Nat
    <3>1. IsFiniteSet(Holding) /\ Cardinality(Holding) \in Nat
      BY EmissionSets DEF Holding
    <3>2. Holding' \in SUBSET Emissions
      BY DEF Holding
    <3> QED BY <2>3, <3>1, <3>2, FS_RemoveElement, EmissionSets
  <2>5. SlotsInv' /\ permits' \in 0 .. OutputSlots
    BY <1>t, <2>2, <2>3, <2>4 DEF AuditInv, AuditTypeOK, SlotsInv
  <2>6. ChainInv'
    BY <2>1, <2>2, ChainKept
  <2>7. /\ inFile' \in [Emissions -> Files] /\ synced' \subseteq Emissions /\ linked' \subseteq Files
        /\ acked' \subseteq Emissions /\ pending' \in BOOLEAN
    <3>1. SyncData \subseteq Emissions
      BY DEF SyncData
    <3>2. held \in Files /\ pending \in BOOLEAN /\ inFile \in [Emissions -> Files]
      BY <1>t DEF AuditTypeOK
    <3>3. inFile' \in [Emissions -> Files]
      BY <1>5, <3>2 DEF AppendRecord
    <3>4. synced' \subseteq Emissions /\ acked' \subseteq Emissions
      BY <1>5, <1>t, <3>1 DEF AppendRecord, AuditTypeOK
    <3>5. linked' \subseteq Files /\ pending' \in BOOLEAN
      BY <1>5, <1>t, <3>2 DEF AppendRecord, AuditTypeOK
    <3> QED BY <3>3, <3>4, <3>5
  <2>8. AuditTypeOK'
    BY <1>t, <2>1, <2>2, <2>5, <2>7 DEF AuditTypeOK
  <2>9. e \notin acked
    BY <2>1 DEF AuditInv, SyncInv
  <2>10. SyncInv'
    <3>1. CASE inFile' = inFile /\ UNCHANGED <<synced, linked, pending, acked>>
      BY <1>t, <2>1, <2>2, <2>9, <3>1 DEF AuditInv, AuditTypeOK, SyncInv
    <3>2. CASE inFile' = [inFile EXCEPT ![e] = held]
      <4>1. inFile'[e] = held /\ \A d \in Emissions : d # e => inFile'[d] = inFile[d]
        BY <1>t, <3>2 DEF AuditTypeOK
      <4>2. CASE UNCHANGED <<linked, pending, acked>> /\ synced \subseteq synced'
        BY <1>t, <2>1, <2>2, <2>9, <4>1, <4>2 DEF AuditInv, AuditTypeOK, SyncInv
      <4>3. CASE /\ synced' = synced \cup SyncData
                 /\ linked' = IF pending THEN linked \cup {held} ELSE linked
                 /\ pending' = FALSE /\ acked' = acked \cup {e}
        <5>1. e \in synced' /\ held \in linked'
          BY <4>1, <4>3 DEF SyncData, AuditInv, SyncInv
        <5>2. \A d \in acked : d # e /\ em'[d] = "ended" /\ d \in synced' /\ inFile'[d] \in linked'
          BY <1>t, <2>1, <2>9, <4>1, <4>3 DEF AuditInv, AuditTypeOK, SyncInv
        <5> QED BY <2>1, <2>2, <4>1, <4>3, <5>1, <5>2 DEF SyncInv
      <4> QED BY <1>5, <3>2, <4>2, <4>3 DEF AppendRecord
    <3> QED BY <1>5, <3>1, <3>2 DEF AppendRecord
  <2>11. FilesInv'
    BY <2>2 DEF AuditInv, FilesInv
  <2> QED BY <2>5, <2>6, <2>8, <2>10, <2>11 DEF AuditInv
<1>6. CASE Rotate
  <2>1. UNCHANGED <<em, permits, chainSeq, chainPrev, pos, down, held, pending, writer, inFile, synced, linked, acked>>
    BY <1>6 DEF Rotate
  <2>2. atPath' \in Files /\ lastFile' \in Files /\ FilesInv'
    BY <1>6, <1>t DEF Rotate, AuditTypeOK, Files, FilesInv
  <2>3. AuditTypeOK'
    BY <1>t, <2>1, <2>2 DEF AuditTypeOK
  <2>4. Holding' = Holding
    BY <2>1 DEF Holding
  <2>5. SlotsInv' /\ ChainInv' /\ SyncInv'
    BY <2>1, <2>4, SlotsKept, ChainKept, SyncKept
  <2> QED BY <2>2, <2>3, <2>5 DEF AuditInv
<1>7. CASE ShutdownStarts \/ Drain
  <2>1. UNCHANGED <<em, chainSeq, chainPrev, pos, exporterVars>>
    BY <1>7 DEF ShutdownStarts, Drain
  <2>2. AuditTypeOK'
    BY <1>7, <1>t, <2>1 DEF ShutdownStarts, Drain, AuditTypeOK, DownSteps
  <2>3. Holding' = Holding
    BY <2>1 DEF Holding
  <2>4. IsFiniteSet(Holding) /\ Cardinality(Holding) \in Nat
    BY EmissionSets DEF Holding
  <2>5. AllPermits => Holding = {}
    BY <2>4, FS_EmptySet DEF AllPermits, AuditInv, SlotsInv
  <2>6. SlotsInv'
    BY <1>7, <1>t, <2>3, <2>4, <2>5, FS_EmptySet DEF ShutdownStarts, Drain, AuditInv, AuditTypeOK, SlotsInv
  <2>7. ChainInv' /\ SyncInv'
    BY <2>1, ChainKept, SyncKept
  <2>8. FilesInv'
    BY <2>1 DEF AuditInv, FilesInv
  <2> QED BY <2>2, <2>6, <2>7, <2>8 DEF AuditInv
<1>8. CASE FlushExporter
  <2>1. UNCHANGED <<em, permits, chainSeq, chainPrev, pos, atPath, held, lastFile, writer, inFile, acked>>
    BY <1>8 DEF FlushExporter
  <2>2. AuditTypeOK'
    BY <1>8, <1>t, <2>1 DEF FlushExporter, AuditTypeOK, DownSteps
  <2>3. Holding' = Holding
    BY <2>1 DEF Holding
  <2>4. SlotsInv'
    BY <1>8, <2>1, <2>3, SlotsKept DEF FlushExporter
  <2>5. ChainInv'
    BY <2>1, ChainKept
  <2>6. SyncInv'
    BY <1>8, <2>1 DEF FlushExporter, AuditInv, SyncInv
  <2>7. FilesInv'
    BY <2>1 DEF AuditInv, FilesInv
  <2> QED BY <2>2, <2>4, <2>5, <2>6, <2>7 DEF AuditInv
<1>9. CASE UNCHANGED auditVars
  BY <1>9 DEF auditVars, AuditInv, AuditTypeOK, SlotsInv, ChainInv, SyncInv, FilesInv,
              Holding, Minted, PositionInv
<1> QED BY <1>1, <1>2, <1>3, <1>4, <1>5, <1>6, <1>7, <1>8, <1>9 DEF AuditNext

\* The invariant holds in every reachable state.
LEMMA AuditInvariant == AuditSpec => []AuditInv
<1>1. AuditInit => AuditInv
  <2> SUFFICES ASSUME AuditInit PROVE AuditInv
    OBVIOUS
  <2> USE AuditAssumption
  <2>1. Holding = {} /\ Minted = {}
    BY DEF AuditInit, Holding, Minted
  <2>2. AuditTypeOK
    <3>1. Cardinality(Emissions) \in Nat
      BY FS_CardinalityType
    <3>2. pos \in [Emissions -> [seq : 0 .. chainSeq, prev : 0 .. chainSeq]]
      BY DEF AuditInit, NoPos
    <3> QED BY <3>1, <3>2 DEF AuditInit, AuditTypeOK, EmSteps, DownSteps, Files
  <2>3. SlotsInv
    BY <2>1, FS_EmptySet DEF AuditInit, SlotsInv
  <2>4. ChainInv
    BY <2>1, FS_EmptySet DEF AuditInit, ChainInv, PositionInv, NoPos
  <2>5. SyncInv /\ FilesInv
    BY DEF AuditInit, SyncInv, FilesInv
  <2> QED BY <2>2, <2>3, <2>4, <2>5 DEF AuditInv
<1> QED BY <1>1, AuditStep, PTL DEF AuditSpec

\* The audit file is one unbroken chain, what was acknowledged survives a power
\* loss, and no more writers run than there are slots, none after shutdown: for
\* any number of emissions, slots and rotations.
THEOREM AuditWholeHolds == AuditSpec => []AuditWhole
<1>1. AuditInv => AuditWhole
  <2> SUFFICES ASSUME AuditInv PROVE AuditWhole
    OBVIOUS
  <2>1. ChainWhole
    <3>1. \A e \in Minted : /\ e \in Emissions /\ pos[e].seq \in 1 .. chainSeq
                            /\ pos[e].prev = pos[e].seq - 1
                            /\ em[e] \in {"spawned", "appending", "ended"}
      BY DEF AuditInv, ChainInv, PositionInv, Minted
    <3>2. {pos[e].seq : e \in Minted} = 1 .. chainSeq
      BY <3>1 DEF AuditInv, ChainInv
    <3> QED BY <3>1, <3>2 DEF AuditInv, ChainInv, ChainWhole
  <2>2. WritersBounded
    <3>1. Writing \in SUBSET Holding /\ Holding \in SUBSET Emissions
      BY DEF Writing, Holding
    <3>2. /\ Cardinality(Writing) <= Cardinality(Holding)
          /\ Cardinality(Holding) \in Nat /\ Cardinality(Writing) \in Nat
      BY <3>1, EmissionSets, FS_Subset, FS_CardinalityType
    <3>3. permits \in Nat /\ OutputSlots \in Nat
      BY AuditAssumption DEF AuditInv, AuditTypeOK
    <3> QED BY <3>2, <3>3 DEF AuditInv, SlotsInv, WritersBounded
  <2>3. ShutdownLast
    BY DEF AuditInv, SlotsInv, Holding, Writing, ShutdownLast
  <2>4. AckedDurable
    BY DEF AuditInv, SyncInv, AckedDurable
  <2> QED BY <2>1, <2>2, <2>3, <2>4 DEF AuditWhole
<1> QED BY <1>1, AuditInvariant, PTL

\* Every variable of the emitter and the exporter keeps its type.
THEOREM AuditTypeCorrect == AuditSpec => []AuditTypeOK
<1>1. AuditInv => AuditTypeOK
  BY DEF AuditInv
<1> QED BY <1>1, AuditInvariant, PTL

-----------------------------------------------------------------------------
(* SecretStore: RefreshTruthful.  The ages need the order of the names: a  *)
(* refresh that is at a name and has not failed has read every earlier     *)
(* name of the same provider since it began, and the names of a provider   *)
(* follow each other.  The generations need that memory never runs ahead   *)
(* of the backend, so that bytes that differ are newer bytes.              *)

ProviderAt(i) == SecretProviderOf[SecretOrder[i]]

SecretTimes ==
    /\ secretClock \in 0 .. MaxSecretClock
    /\ readAt \in [SecretNames -> 0 .. MaxSecretClock]
    /\ since \in [SecretProviders -> 0 .. MaxSecretClock]
    /\ built \in [SecretNames -> [value : 0 .. MaxSecretRotations, gen : 0 .. MaxSecretRotations]]
    /\ \A n \in SecretNames : readAt[n] <= secretClock
    /\ \A p \in SecretProviders : since[p] <= secretClock

\* Before the store is up nothing is refreshed.
StartingInv ==
    ~Resolved =>
        /\ \A n \in SecretNames : built[n] = cell[n] /\ cell[n].gen = 0
        /\ \A p \in SecretProviders : since[p] = 0
        /\ \A f \in Refreshes : refresh[f].at = "idle"

CellInv ==
    \A n \in SecretNames :
        /\ built[n].gen <= cell[n].gen
        /\ built[n].gen = cell[n].gen => built[n] = cell[n]
        /\ cell[n].gen <= cell[n].value /\ cell[n].value <= backend[n]
        /\ readAt[n] >= since[SecretProviderOf[n]]

\* A refresh under way holds the lock.
ActiveInv(f) ==
    refresh[f].at \in {"read", "store"} =>
        /\ refresher = f
        /\ refresh[f].began <= secretClock
        /\ \A p \in SecretProviders : since[p] <= refresh[f].began
        /\ ~refresh[f].failed =>
              \A i \in 1 .. Len(SecretOrder) :
                  i < refresh[f].pos /\ ProviderAt(i) = ProviderAt(refresh[f].pos)
                  => readAt[SecretOrder[i]] >= refresh[f].began

FetchedInv(f) ==
    refresh[f].at = "store" =>
        /\ refresh[f].began <= refresh[f].when /\ refresh[f].when <= secretClock
        /\ cell[SecretOrder[refresh[f].pos]].value <= refresh[f].got
        /\ refresh[f].got <= backend[SecretOrder[refresh[f].pos]]

\* A refresh starts at the first name.
QueuedInv(f) == refresh[f].at \in {"idle", "queued"} => refresh[f].pos = 1

SecretInv ==
    /\ SecretTypeOK /\ SecretTimes /\ StartingInv /\ CellInv
    /\ \A f \in Refreshes : QueuedInv(f) /\ ActiveInv(f) /\ FetchedInv(f)

\* Every position names a secret of a provider.
LEMMA SecretAt ==
    ASSUME NEW i \in 1 .. Len(SecretOrder)
    PROVE  /\ Len(SecretOrder) \in Nat
           /\ SecretOrder[i] \in SecretNames
           /\ ProviderAt(i) \in SecretProviders
<1>1. SecretOrder[i] \in SecretNames /\ Len(SecretOrder) \in Nat
  BY SecretStoreAssumption DEF SecretNames
<1> QED BY <1>1 DEF ProviderAt, SecretProviders

LEMMA SecretOrderLong ==
    /\ Len(SecretOrder) \in Nat /\ 1 <= Len(SecretOrder)
    /\ MaxSecretRotations \in Nat /\ MaxSecretClock \in Nat
BY SecretStoreAssumption

\* The names of a provider follow each other.
LEMMA Grouped ==
    ASSUME NEW i \in 1 .. Len(SecretOrder), NEW j \in 1 .. Len(SecretOrder),
           NEW k \in 1 .. Len(SecretOrder),
           i <= j, j <= k, ProviderAt(i) = ProviderAt(k)
    PROVE  ProviderAt(j) = ProviderAt(i)
BY SecretStoreAssumption DEF ProviderAt

\* Past the last name of a provider comes none of its names.
LEMMA ProviderEnds ==
    ASSUME NEW k \in 1 .. Len(SecretOrder),
           k = Len(SecretOrder) \/ ProviderAt(k + 1) # ProviderAt(k),
           NEW i \in 1 .. Len(SecretOrder), ProviderAt(i) = ProviderAt(k)
    PROVE  i <= k
<1> SUFFICES ASSUME i > k PROVE FALSE
  BY SecretOrderLong
<1>1. k + 1 \in 1 .. Len(SecretOrder) /\ k <= k + 1 /\ k + 1 <= i /\ k # Len(SecretOrder)
  BY SecretOrderLong
<1>2. ProviderAt(k + 1) = ProviderAt(k)
  BY <1>1, Grouped
<1> QED BY <1>1, <1>2

\* A provider's first name is preceded by none of its names.
LEMMA ProviderStarts ==
    ASSUME NEW k \in 1 .. Len(SecretOrder), k + 1 \in 1 .. Len(SecretOrder),
           ProviderAt(k + 1) # ProviderAt(k),
           NEW i \in 1 .. Len(SecretOrder), ProviderAt(i) = ProviderAt(k + 1)
    PROVE  i > k
<1> SUFFICES ASSUME i <= k PROVE FALSE
  BY SecretOrderLong
<1>1. ProviderAt(k) = ProviderAt(i)
  BY Grouped
<1> QED BY <1>1

\* A refresh that is over, as a record of the type.
LEMMA DoneRefresh ==
    [IdleRefresh EXCEPT !.at = "done"] \in
        [at : {"idle", "queued", "read", "store", "done"},
         pos : 1 .. Len(SecretOrder), got : Nat, failed : BOOLEAN,
         began : 0 .. MaxSecretClock, when : 0 .. MaxSecretClock]
<1> DEFINE Rec == [at : {"idle", "queued", "read", "store", "done"},
                   pos : 1 .. Len(SecretOrder), got : Nat, failed : BOOLEAN,
                   began : 0 .. MaxSecretClock, when : 0 .. MaxSecretClock]
<1>1. 1 \in 1 .. Len(SecretOrder) /\ 0 \in 0 .. MaxSecretClock /\ 0 \in Nat
  BY SecretOrderLong
<1>2. IdleRefresh \in Rec
  BY <1>1 DEF IdleRefresh
<1>3. PICK r \in Rec : r = IdleRefresh
  BY <1>2
<1>4. [r EXCEPT !.at = "done"] \in Rec
  OBVIOUS
<1> QED BY <1>3, <1>4

LEMMA ResolveStep == SecretInv /\ (ResolveReads \/ ResolveFails) => SecretInv'
<1> SUFFICES ASSUME SecretInv, ResolveReads \/ ResolveFails PROVE SecretInv'
  OBVIOUS
<1> USE SecretOrderLong
<1>0. /\ resolve \in 1 .. Len(SecretOrder) /\ ~Resolved
      /\ \A f \in Refreshes : refresh[f].at = "idle"
      /\ refresh' = refresh /\ refresher' = refresher /\ secretClock' = secretClock
      /\ backend' = backend /\ since' = since
  BY DEF SecretInv, StartingInv, ResolveReads, ResolveFails, Resolving, Resolved
<1>1. (\A f \in Refreshes : QueuedInv(f) /\ ActiveInv(f) /\ FetchedInv(f))'
  BY <1>0 DEF SecretInv, QueuedInv, ActiveInv, FetchedInv
<1>2. CASE ResolveReads
  <2> DEFINE m == SecretOrder[resolve]
  <2>1. m \in SecretNames
    BY <1>0, SecretAt
  <2>2. /\ cell' = [cell EXCEPT ![m].value = backend[m]]
        /\ built' = [built EXCEPT ![m].value = backend[m]]
        /\ readAt' = [readAt EXCEPT ![m] = secretClock]
        /\ resolve' = resolve + 1
        /\ health' \in [SecretProviders -> [lastSuccess : 0 .. MaxSecretClock, failing : BOOLEAN]]
    BY <1>2 DEF ResolveReads, SecretInv, SecretTypeOK, SecretTimes
  <2> HIDE DEF m
  <2>3. /\ cell' \in [SecretNames -> [value : 0 .. MaxSecretRotations, gen : 0 .. MaxSecretRotations]]
        /\ built' \in [SecretNames -> [value : 0 .. MaxSecretRotations, gen : 0 .. MaxSecretRotations]]
        /\ \A n \in SecretNames : /\ cell'[n].gen = cell[n].gen
                                  /\ built'[n].gen = built[n].gen
                                  /\ cell'[n].value = IF n = m THEN backend[n] ELSE cell[n].value
                                  /\ built'[n].value = IF n = m THEN backend[n] ELSE built[n].value
    BY <2>1, <2>2 DEF SecretInv, SecretTypeOK, SecretTimes
  <2>4. /\ readAt' \in [SecretNames -> 0 .. MaxSecretClock]
        /\ \A n \in SecretNames : readAt'[n] = IF n = m THEN secretClock ELSE readAt[n]
    BY <2>1, <2>2 DEF SecretInv, SecretTimes
  <2>5. SecretTypeOK'
    <3>1. resolve' \in 0 .. Len(SecretOrder) + 1
      BY <1>0, <2>2
    <3>2. /\ backend' \in [SecretNames -> 0 .. MaxSecretRotations]
          /\ refresher' \in Refreshes \cup {NoRefresh}
      BY <1>0 DEF SecretInv, SecretTypeOK
    <3> QED BY <1>0, <2>2, <2>3, <3>1, <3>2 DEF SecretInv, SecretTypeOK
  <2>6. SecretTimes'
    <3>1. \A n \in SecretNames : readAt'[n] <= secretClock'
      <4>1. /\ secretClock \in Nat /\ secretClock' = secretClock
            /\ \A n \in SecretNames : readAt[n] <= secretClock
        BY <1>0 DEF SecretInv, SecretTimes
      <4> QED BY <4>1, <2>4
    <3>2. /\ secretClock' \in 0 .. MaxSecretClock
          /\ since' \in [SecretProviders -> 0 .. MaxSecretClock]
          /\ \A p \in SecretProviders : since'[p] <= secretClock'
      BY <1>0 DEF SecretInv, SecretTimes
    <3> QED BY <2>3, <2>4, <3>1, <3>2 DEF SecretTimes
  <2>7. \A n \in SecretNames : /\ built[n] = cell[n] /\ cell[n].gen = 0 /\ built[n].gen = 0
                               /\ built[n].value = cell[n].value
    BY <1>0 DEF SecretInv, StartingInv
  <2>8. \A n \in SecretNames : built'[n] = cell'[n] /\ cell'[n].gen = 0
    <3> SUFFICES ASSUME NEW n \in SecretNames PROVE built'[n] = cell'[n] /\ cell'[n].gen = 0
      OBVIOUS
    <3>1. /\ built'[n] = [value |-> built'[n].value, gen |-> built'[n].gen]
          /\ cell'[n] = [value |-> cell'[n].value, gen |-> cell'[n].gen]
      BY <2>3
    <3> QED BY <2>3, <2>7, <3>1
  <2>9. StartingInv'
    BY <1>0, <2>8 DEF SecretInv, StartingInv
  <2>10. CellInv'
    <3>1. \A n \in SecretNames : /\ backend[n] \in Nat /\ cell[n].value \in Nat
                                 /\ cell[n].value <= backend[n] /\ SecretProviderOf[n] \in SecretProviders
                                 /\ readAt[n] \in Nat /\ secretClock \in Nat
      BY DEF SecretInv, CellInv, SecretTypeOK, SecretTimes, SecretProviders
    <3>2. \A n \in SecretNames : cell'[n].value <= backend[n] /\ cell'[n].value \in Nat
      BY <2>3, <3>1
    <3>3. \A p \in SecretProviders : since'[p] = 0
      BY <1>0 DEF SecretInv, StartingInv
    <3>4. \A n \in SecretNames : readAt'[n] >= 0
      BY <2>4, <3>1
    <3> QED BY <1>0, <2>8, <3>1, <3>2, <3>3, <3>4 DEF CellInv
  <2> QED BY <1>1, <2>5, <2>6, <2>9, <2>10 DEF SecretInv
<1>3. CASE ResolveFails
  BY <1>0, <1>1, <1>3 DEF ResolveFails, SecretInv, SecretTypeOK, SecretTimes, StartingInv, CellInv, Resolved
<1> QED BY <1>2, <1>3


\* Backends, consumers and the clock.
LEMMA AroundStep ==
    ASSUME SecretInv,
           \/ SecretClockTicks
           \/ \E n \in SecretNames : BackendRotates(n) \/ Rebuilds(n)
    PROVE  SecretInv'
<1> USE SecretOrderLong
<1>0. /\ cell \in [SecretNames -> [value : 0 .. MaxSecretRotations, gen : 0 .. MaxSecretRotations]]
      /\ built \in [SecretNames -> [value : 0 .. MaxSecretRotations, gen : 0 .. MaxSecretRotations]]
      /\ backend \in [SecretNames -> 0 .. MaxSecretRotations]
      /\ secretClock \in 0 .. MaxSecretClock
  BY DEF SecretInv, SecretTypeOK, SecretTimes
<1>pos. \A f \in Refreshes : /\ refresh[f].pos \in 1 .. Len(SecretOrder) /\ refresh[f].got \in Nat
                             /\ refresh[f].when \in Nat /\ refresh[f].began \in Nat
                             /\ SecretOrder[refresh[f].pos] \in SecretNames
  BY SecretAt DEF SecretInv, SecretTypeOK
<1>1. CASE SecretClockTicks
  <2>1. /\ secretClock' \in 0 .. MaxSecretClock /\ secretClock <= secretClock'
        /\ backend' = backend /\ resolve' = resolve /\ cell' = cell /\ health' = health
        /\ refresh' = refresh /\ refresher' = refresher /\ readAt' = readAt
        /\ since' = since /\ built' = built
    BY <1>0, <1>1 DEF SecretClockTicks
  <2>2. SecretTypeOK' /\ StartingInv' /\ CellInv'
    BY <2>1 DEF SecretInv, SecretTypeOK, StartingInv, Resolved, CellInv
  <2>3. SecretTimes'
    <3>1. /\ \A n \in SecretNames : readAt[n] \in Nat /\ readAt[n] <= secretClock
          /\ \A p \in SecretProviders : since[p] \in Nat /\ since[p] <= secretClock
      BY DEF SecretInv, SecretTimes
    <3>2. /\ \A n \in SecretNames : readAt[n] <= secretClock'
          /\ \A p \in SecretProviders : since[p] <= secretClock'
      BY <1>0, <2>1, <3>1
    <3> QED BY <2>1, <3>2 DEF SecretInv, SecretTimes
  <2>4. \A f \in Refreshes : ActiveInv(f)'
    <3> SUFFICES ASSUME NEW f \in Refreshes PROVE ActiveInv(f)'
      OBVIOUS
    <3>1. refresh[f].began \in Nat /\ ActiveInv(f)
      BY <1>pos DEF SecretInv
    <3> QED BY <1>0, <2>1, <3>1 DEF ActiveInv
  <2>5. \A f \in Refreshes : FetchedInv(f)'
    <3> SUFFICES ASSUME NEW f \in Refreshes PROVE FetchedInv(f)'
      OBVIOUS
    <3>1. refresh[f].when \in Nat /\ FetchedInv(f)
      BY <1>pos DEF SecretInv
    <3> QED BY <1>0, <2>1, <3>1 DEF FetchedInv
  <2>6. \A f \in Refreshes : QueuedInv(f)'
    BY <2>1 DEF SecretInv, QueuedInv
  <2> QED BY <2>2, <2>3, <2>4, <2>5, <2>6 DEF SecretInv
<1>2. ASSUME NEW m \in SecretNames, BackendRotates(m) PROVE SecretInv'
  <2>1. /\ secretClock' = secretClock /\ resolve' = resolve /\ cell' = cell /\ health' = health
        /\ refresh' = refresh /\ refresher' = refresher /\ readAt' = readAt
        /\ since' = since /\ built' = built
    BY <1>2 DEF BackendRotates
  <2>2. /\ backend' \in [SecretNames -> 0 .. MaxSecretRotations]
        /\ \A n \in SecretNames : backend[n] <= backend'[n] /\ backend'[n] \in Nat
    BY <1>0, <1>2 DEF BackendRotates
  <2>3. SecretTypeOK' /\ SecretTimes' /\ StartingInv'
    BY <2>1, <2>2 DEF SecretInv, SecretTypeOK, SecretTimes, StartingInv, Resolved
  <2>4. CellInv'
    <3> SUFFICES ASSUME NEW n \in SecretNames PROVE cell[n].value <= backend'[n]
      BY <2>1 DEF SecretInv, CellInv
    <3>1. cell[n].value \in Nat /\ backend[n] \in Nat /\ cell[n].value <= backend[n]
      BY <1>0 DEF SecretInv, CellInv
    <3> QED BY <2>2, <3>1
  <2>5. \A f \in Refreshes : ActiveInv(f)'
    BY <2>1 DEF SecretInv, ActiveInv
  <2>6. \A f \in Refreshes : FetchedInv(f)'
    <3> SUFFICES ASSUME NEW f \in Refreshes, refresh[f].at = "store"
                 PROVE  refresh[f].got <= backend'[SecretOrder[refresh[f].pos]]
      BY <2>1 DEF SecretInv, FetchedInv
    <3> DEFINE n == SecretOrder[refresh[f].pos]
    <3>1. n \in SecretNames /\ refresh[f].got \in Nat /\ refresh[f].got <= backend[n]
      BY <1>pos DEF SecretInv, FetchedInv
    <3>2. backend[n] \in Nat /\ backend[n] <= backend'[n] /\ backend'[n] \in Nat
      BY <1>0, <2>2, <3>1
    <3> QED BY <3>1, <3>2
  <2>7. \A f \in Refreshes : QueuedInv(f)'
    BY <2>1 DEF SecretInv, QueuedInv
  <2> QED BY <2>3, <2>4, <2>5, <2>6, <2>7 DEF SecretInv
<1>3. ASSUME NEW m \in SecretNames, Rebuilds(m) PROVE SecretInv'
  <2>1. /\ secretClock' = secretClock /\ resolve' = resolve /\ cell' = cell /\ health' = health
        /\ refresh' = refresh /\ refresher' = refresher /\ readAt' = readAt
        /\ since' = since /\ backend' = backend /\ Resolved
    BY <1>3 DEF Rebuilds
  <2>2. /\ built' \in [SecretNames -> [value : 0 .. MaxSecretRotations, gen : 0 .. MaxSecretRotations]]
        /\ \A n \in SecretNames : built'[n] = IF n = m THEN cell[n] ELSE built[n]
    BY <1>0, <1>3 DEF Rebuilds
  <2>3. SecretTypeOK' /\ StartingInv'
    BY <2>1 DEF SecretInv, SecretTypeOK, StartingInv, Resolved
  <2>4. SecretTimes'
    BY <2>1, <2>2 DEF SecretInv, SecretTimes
  <2>5. CellInv'
    <3>1. \A n \in SecretNames : cell[n].gen \in Nat
      BY <1>0
    <3> QED BY <2>1, <2>2, <3>1 DEF SecretInv, CellInv
  <2>6. \A f \in Refreshes : QueuedInv(f)' /\ ActiveInv(f)' /\ FetchedInv(f)'
    BY <2>1 DEF SecretInv, QueuedInv, ActiveInv, FetchedInv
  <2> QED BY <2>3, <2>4, <2>5, <2>6 DEF SecretInv
<1> QED BY <1>1, <1>2, <1>3

\* The steps of a refresh that leave the store alone.
LEMMA RefreshStep ==
    ASSUME SecretInv, NEW f \in Refreshes,
           RefreshAsked(f) \/ RefreshLocks(f) \/ SecretFetched(f) \/ RefreshDropped(f)
    PROVE  SecretInv'
<1> USE SecretOrderLong
<1>0. /\ secretClock' = secretClock /\ resolve' = resolve /\ cell' = cell /\ health' = health
      /\ readAt' = readAt /\ since' = since /\ backend' = backend /\ built' = built
  BY DEF RefreshAsked, RefreshLocks, SecretFetched, RefreshDropped
<1>1. SecretTimes' /\ CellInv'
  BY <1>0 DEF SecretInv, SecretTimes, CellInv
<1>t. /\ refresh \in [Refreshes -> [at : {"idle", "queued", "read", "store", "done"},
                                    pos : 1 .. Len(SecretOrder), got : Nat, failed : BOOLEAN,
                                    began : 0 .. MaxSecretClock, when : 0 .. MaxSecretClock]]
      /\ secretClock \in 0 .. MaxSecretClock
      /\ SecretOrder[refresh[f].pos] \in SecretNames
      /\ backend[SecretOrder[refresh[f].pos]] \in Nat
      /\ refresher \in Refreshes \cup {NoRefresh}
  <2>1. refresh[f].pos \in 1 .. Len(SecretOrder)
    BY DEF SecretInv, SecretTypeOK
  <2>2. SecretOrder[refresh[f].pos] \in SecretNames
    BY <2>1, SecretAt
  <2> QED BY <2>2 DEF SecretInv, SecretTypeOK, SecretTimes
<1>2. Resolved
  BY DEF SecretInv, StartingInv, RefreshAsked, RefreshLocks, SecretFetched, RefreshDropped
<1>3. StartingInv'
  BY <1>0, <1>2 DEF StartingInv, Resolved
<1>4. /\ refresh' \in [Refreshes -> [at : {"idle", "queued", "read", "store", "done"},
                                     pos : 1 .. Len(SecretOrder), got : Nat, failed : BOOLEAN,
                                     began : 0 .. MaxSecretClock, when : 0 .. MaxSecretClock]]
      /\ refresher' \in Refreshes \cup {NoRefresh}
      /\ \A g \in Refreshes \ {f} : refresh'[g] = refresh[g]
  <2>1. CASE RefreshAsked(f)
    BY <1>t, <2>1 DEF RefreshAsked
  <2>2. CASE RefreshLocks(f)
    BY <1>t, <2>2 DEF RefreshLocks
  <2>3. CASE SecretFetched(f)
    <3>1. PICK b \in Nat : b = backend[SecretOrder[refresh[f].pos]]
      BY <1>t
    <3>2. PICK r : r = [refresh[f] EXCEPT !.at = "store", !.when = secretClock, !.got = b]
      OBVIOUS
    <3>3. r \in [at : {"idle", "queued", "read", "store", "done"},
                 pos : 1 .. Len(SecretOrder), got : Nat, failed : BOOLEAN,
                 began : 0 .. MaxSecretClock, when : 0 .. MaxSecretClock]
      BY <1>t, <3>2
    <3>4. refresh' = [refresh EXCEPT ![f] = r] /\ refresher' = refresher
      BY <1>t, <2>3, <3>1, <3>2 DEF SecretFetched
    <3> QED BY <1>t, <3>3, <3>4
  <2>4. CASE RefreshDropped(f)
    <3>1. PICK r : r = [IdleRefresh EXCEPT !.at = "done"]
      OBVIOUS
    <3>2. r \in [at : {"idle", "queued", "read", "store", "done"},
                 pos : 1 .. Len(SecretOrder), got : Nat, failed : BOOLEAN,
                 began : 0 .. MaxSecretClock, when : 0 .. MaxSecretClock]
      BY <3>1, DoneRefresh
    <3>3. refresh' = [refresh EXCEPT ![f] = r] /\ refresher' \in Refreshes \cup {NoRefresh}
      BY <1>t, <2>4, <3>1 DEF RefreshDropped
    <3> QED BY <1>t, <3>2, <3>3
  <2> QED BY <2>1, <2>2, <2>3, <2>4
<1>5. SecretTypeOK'
  BY <1>0, <1>4 DEF SecretInv, SecretTypeOK
<1>6. \A g \in Refreshes \ {f} : ActiveInv(g)' /\ FetchedInv(g)'
  <2> SUFFICES ASSUME NEW g \in Refreshes, g # f PROVE ActiveInv(g)' /\ FetchedInv(g)'
    OBVIOUS
  <2>1. refresh'[g] = refresh[g] /\ ActiveInv(g) /\ FetchedInv(g)
    BY <1>4 DEF SecretInv
  <2>2. refresher = g => refresher' = g
    BY SecretStoreAssumption DEF RefreshAsked, RefreshLocks, SecretFetched, RefreshDropped, RefreshLockFree
  <2> QED BY <1>0, <2>1, <2>2 DEF ActiveInv, FetchedInv
<1>7. ActiveInv(f)' /\ FetchedInv(f)'
  <2>1. CASE RefreshAsked(f)
    <3>1. refresh'[f].at = "queued"
      BY <1>t, <2>1 DEF RefreshAsked
    <3> QED BY <3>1 DEF ActiveInv, FetchedInv
  <2>2. CASE RefreshLocks(f)
    <3>1. /\ refresh'[f].at = "read" /\ refresh'[f].began = secretClock /\ refresher' = f
          /\ refresh'[f].pos = refresh[f].pos
      BY <1>t, <2>2 DEF RefreshLocks
    <3>2. refresh'[f].pos = 1
      BY <2>2, <3>1 DEF RefreshLocks, SecretInv, QueuedInv
    <3>3. \A p \in SecretProviders : since'[p] <= secretClock
      BY <1>0 DEF SecretInv, SecretTimes
    <3>4. ~(\E i \in 1 .. Len(SecretOrder) : i < 1)
      OBVIOUS
    <3> QED BY <1>0, <1>t, <3>1, <3>2, <3>3, <3>4 DEF ActiveInv, FetchedInv
  <2>3. CASE SecretFetched(f)
    <3>1. /\ refresh[f].at = "read" /\ refresh'[f].at = "store" /\ refresh'[f].when = secretClock
          /\ refresh'[f].pos = refresh[f].pos /\ refresh'[f].began = refresh[f].began
          /\ refresh'[f].failed = refresh[f].failed
          /\ refresh'[f].got = backend[SecretOrder[refresh[f].pos]] /\ refresher' = refresher
      BY <1>t, <2>3 DEF SecretFetched
    <3>2. ActiveInv(f)'
      BY <1>0, <3>1 DEF SecretInv, ActiveInv
    <3>3. cell[SecretOrder[refresh[f].pos]].value <= backend[SecretOrder[refresh[f].pos]]
      BY <1>t DEF SecretInv, CellInv
    <3>4. refresh[f].began <= secretClock
      BY <3>1 DEF SecretInv, ActiveInv
    <3>5. FetchedInv(f)'
      BY <1>0, <1>t, <3>1, <3>3, <3>4 DEF FetchedInv
    <3> QED BY <3>2, <3>5
  <2>4. CASE RefreshDropped(f)
    <3>1. refresh'[f].at = "done"
      BY <1>t, <2>4 DEF RefreshDropped, IdleRefresh
    <3> QED BY <3>1 DEF ActiveInv, FetchedInv
  <2> QED BY <2>1, <2>2, <2>3, <2>4
<1>q. ASSUME NEW g \in Refreshes PROVE QueuedInv(g)'
  <2>1. CASE RefreshAsked(f)
    BY <1>t, <1>4, <2>1 DEF RefreshAsked, SecretInv, QueuedInv
  <2>2. CASE RefreshLocks(f)
    BY <1>t, <1>4, <2>2 DEF RefreshLocks, SecretInv, QueuedInv
  <2>3. CASE SecretFetched(f)
    BY <1>t, <1>4, <2>3 DEF SecretFetched, SecretInv, QueuedInv
  <2>4. CASE RefreshDropped(f)
    BY <1>t, <1>4, <2>4 DEF RefreshDropped, IdleRefresh, SecretInv, QueuedInv
  <2> QED BY <2>1, <2>2, <2>3, <2>4
<1> QED BY <1>1, <1>3, <1>5, <1>6, <1>7, <1>q DEF SecretInv

\* A refresh leaves its name: cells and times of the name may have moved, and
\* its provider's health and age move when it was the provider's last name.
LEMMA AdvanceStep ==
    ASSUME SecretInv, NEW f \in Refreshes, SecretFetchFails(f) \/ SecretStored(f)
    PROVE  SecretInv'
<1> USE SecretOrderLong
<1> DEFINE m == SecretOrder[refresh[f].pos]
           RefreshRec == [at : {"idle", "queued", "read", "store", "done"},
                          pos : 1 .. Len(SecretOrder), got : Nat, failed : BOOLEAN,
                          began : 0 .. MaxSecretClock, when : 0 .. MaxSecretClock]
<1>0. PICK k, began, failed, ok :
          /\ k = refresh[f].pos /\ began = refresh[f].began /\ failed = refresh[f].failed
          /\ ok = (SecretStored(f) /\ ~failed)
  OBVIOUS
<1>1. /\ refresh \in [Refreshes -> RefreshRec] /\ refresher \in Refreshes \cup {NoRefresh}
      /\ k \in 1 .. Len(SecretOrder) /\ began \in 0 .. MaxSecretClock /\ failed \in BOOLEAN
      /\ m = SecretOrder[k] /\ m \in SecretNames
      /\ ProviderAt(k) \in SecretProviders
      /\ secretClock \in 0 .. MaxSecretClock /\ began <= secretClock
      /\ refresh[f].at \in {"read", "store"} /\ refresher = f
      /\ refresh[f] \in RefreshRec
  <2>1. /\ refresh \in [Refreshes -> RefreshRec] /\ refresher \in Refreshes \cup {NoRefresh}
        /\ secretClock \in 0 .. MaxSecretClock
    BY DEF SecretInv, SecretTypeOK, SecretTimes
  <2>2. refresh[f].at \in {"read", "store"}
    BY DEF SecretFetchFails, SecretStored
  <2>3. refresh[f] \in RefreshRec
    BY <2>1
  <2>4. k \in 1 .. Len(SecretOrder) /\ began \in 0 .. MaxSecretClock /\ failed \in BOOLEAN
    BY <1>0, <2>3
  <2>5. refresher = f /\ began <= secretClock
    BY <1>0, <2>2 DEF SecretInv, ActiveInv
  <2> QED BY <1>0, <2>1, <2>2, <2>3, <2>4, <2>5, SecretAt
<1>2. /\ secretClock' = secretClock /\ backend' = backend /\ resolve' = resolve /\ built' = built
      /\ Advances(f, IF SecretStored(f) THEN failed ELSE TRUE)
  BY <1>0 DEF SecretFetchFails, SecretStored
<1>3. PICK last, ends, fails \in BOOLEAN :
          /\ last = (k = Len(SecretOrder))
          /\ ends = (last \/ ProviderAt(k + 1) # ProviderAt(k))
          /\ fails = IF SecretStored(f) THEN failed ELSE TRUE
  BY <1>1
<1>4. /\ refresh' = [refresh EXCEPT ![f] =
                        IF last THEN [IdleRefresh EXCEPT !.at = "done"]
                        ELSE [refresh[f] EXCEPT !.at = "read", !.pos = k + 1,
                                                !.failed = fails /\ ~ends]]
      /\ refresher' = IF last THEN NoRefresh ELSE refresher
      /\ IF ends
         THEN /\ health' = [health EXCEPT ![ProviderAt(k)] = Recorded(ProviderAt(k), fails)]
              /\ since' = [since EXCEPT ![ProviderAt(k)] =
                              IF Recorded(ProviderAt(k), fails).failing THEN @ ELSE began]
         ELSE health' = health /\ since' = since
  BY <1>0, <1>1, <1>2, <1>3 DEF Advances, ProviderAt
<1>5. /\ health' \in [SecretProviders -> [lastSuccess : 0 .. MaxSecretClock, failing : BOOLEAN]]
      /\ since' \in [SecretProviders -> 0 .. MaxSecretClock]
      /\ \A p \in SecretProviders :
            \/ since'[p] = since[p]
            \/ since'[p] = began /\ p = ProviderAt(k) /\ ends /\ ~fails
  <2>1. CASE ~ends
    BY <1>4, <2>1 DEF SecretInv, SecretTypeOK, SecretTimes
  <2>2. CASE ends
    <3>1. /\ health \in [SecretProviders -> [lastSuccess : 0 .. MaxSecretClock, failing : BOOLEAN]]
          /\ since \in [SecretProviders -> 0 .. MaxSecretClock]
      BY DEF SecretInv, SecretTypeOK, SecretTimes
    <3>2. PICK r : r = Recorded(ProviderAt(k), fails)
      OBVIOUS
    <3>3. r \in [lastSuccess : 0 .. MaxSecretClock, failing : BOOLEAN] /\ (r.failing <=> fails)
      <4>0. health[ProviderAt(k)] \in [lastSuccess : 0 .. MaxSecretClock, failing : BOOLEAN]
        BY <1>1, <3>1
      <4>1. CASE fails
        <5>1. r = [health[ProviderAt(k)] EXCEPT !.failing = TRUE]
          BY <3>2, <4>1 DEF Recorded
        <5> QED BY <4>0, <4>1, <5>1
      <4>2. CASE ~fails
        <5>1. r = [lastSuccess |-> secretClock, failing |-> FALSE]
          BY <3>2, <4>2 DEF Recorded
        <5> QED BY <1>1, <4>2, <5>1
      <4> QED BY <4>1, <4>2
    <3>4. /\ health' = [health EXCEPT ![ProviderAt(k)] = r]
          /\ since' = [since EXCEPT ![ProviderAt(k)] = IF r.failing THEN @ ELSE began]
      BY <1>4, <2>2, <3>2
    <3>5. health' \in [SecretProviders -> [lastSuccess : 0 .. MaxSecretClock, failing : BOOLEAN]]
      BY <3>1, <3>3, <3>4
    <3>6. CASE fails
      <4>1. since' = since
        BY <1>1, <3>1, <3>3, <3>4, <3>6
      <4> QED BY <3>1, <3>5, <4>1
    <3>7. CASE ~fails
      <4>1. since' = [since EXCEPT ![ProviderAt(k)] = began]
        BY <3>3, <3>4, <3>7
      <4> QED BY <1>1, <2>2, <3>1, <3>5, <3>7, <4>1
    <3> QED BY <3>6, <3>7
  <2> QED BY <2>1, <2>2
<1>6. /\ readAt' \in [SecretNames -> 0 .. MaxSecretClock]
      /\ \A n \in SecretNames : \/ readAt'[n] = readAt[n]
                                \/ began <= readAt'[n] /\ readAt'[n] <= secretClock
      /\ ~fails => began <= readAt'[m]
  <2>0. readAt \in [SecretNames -> 0 .. MaxSecretClock]
    BY DEF SecretInv, SecretTimes
  <2>1. CASE SecretFetchFails(f)
    <3>1. readAt' = readAt /\ fails
      BY <1>3, <2>1 DEF SecretFetchFails, SecretStored
    <3> QED BY <2>0, <3>1
  <2>2. CASE SecretStored(f)
    <3>1. PICK w \in 0 .. MaxSecretClock : w = refresh[f].when
      BY <1>1
    <3>2. began <= w /\ w <= secretClock
      BY <1>0, <2>2, <3>1 DEF SecretInv, FetchedInv, SecretStored
    <3>3. readAt' = [readAt EXCEPT ![m] = w]
      BY <2>2, <3>1 DEF SecretStored
    <3> QED BY <1>1, <2>0, <3>2, <3>3
  <2> QED BY <2>1, <2>2
<1>7. /\ cell' \in [SecretNames -> [value : 0 .. MaxSecretRotations, gen : 0 .. MaxSecretRotations]]
      /\ \A n \in SecretNames \ {m} : cell'[n] = cell[n]
      /\ \/ cell'[m] = cell[m]
         \/ /\ cell'[m].gen = cell[m].gen + 1
            /\ cell'[m].gen <= cell'[m].value /\ cell'[m].value <= backend[m]
  <2>0. /\ cell \in [SecretNames -> [value : 0 .. MaxSecretRotations, gen : 0 .. MaxSecretRotations]]
        /\ backend \in [SecretNames -> 0 .. MaxSecretRotations]
    BY DEF SecretInv, SecretTypeOK
  <2>1. CASE SecretFetchFails(f)
    <3>1. cell' = cell
      BY <2>1 DEF SecretFetchFails
    <3> QED BY <2>0, <3>1
  <2>2. CASE SecretStored(f)
    <3>1. PICK got \in Nat : got = refresh[f].got
      BY <1>1
    <3>2. cell[m].value <= got /\ got <= backend[m] /\ cell[m].gen <= cell[m].value
      BY <1>0, <1>1, <2>2, <3>1 DEF SecretInv, FetchedInv, CellInv, SecretStored
    <3>3. PICK c : c = Replaced(m, got)
      OBVIOUS
    <3>4. cell' = [cell EXCEPT ![m] = c]
      BY <2>2, <3>1, <3>3 DEF SecretStored
    <3>5. PICK v, g \in 0 .. MaxSecretRotations : cell[m].value = v /\ cell[m].gen = g
      BY <1>1, <2>0
    <3>6. PICK b \in 0 .. MaxSecretRotations : b = backend[m]
      BY <1>1, <2>0
    <3>7. CASE v = got
      <4>1. c = cell[m]
        BY <3>3, <3>5, <3>7 DEF Replaced
      <4> QED BY <1>1, <2>0, <3>4, <4>1
    <3>8. CASE v # got
      <4>1. c = [value |-> got, gen |-> g + 1]
        BY <3>3, <3>5, <3>8 DEF Replaced
      <4>2. g + 1 <= got /\ got <= b /\ got \in 0 .. MaxSecretRotations /\ g + 1 \in 0 .. MaxSecretRotations
        BY <3>2, <3>5, <3>6, <3>8
      <4>3. /\ c \in [value : 0 .. MaxSecretRotations, gen : 0 .. MaxSecretRotations]
            /\ c.gen = g + 1 /\ c.value = got
        BY <4>1, <4>2
      <4>4. /\ cell' \in [SecretNames -> [value : 0 .. MaxSecretRotations, gen : 0 .. MaxSecretRotations]]
            /\ \A n \in SecretNames \ {m} : cell'[n] = cell[n]
            /\ cell'[m] = c
        BY <1>1, <2>0, <3>4, <4>3
      <4> QED BY <4>2, <4>3, <4>4, <3>5, <3>6
    <3> QED BY <3>7, <3>8
  <2> QED BY <2>1, <2>2
<1>8. /\ refresh' \in [Refreshes -> RefreshRec] /\ refresher' \in Refreshes \cup {NoRefresh}
      /\ \A g \in Refreshes \ {f} : refresh'[g] = refresh[g]
      /\ last => refresh'[f].at = "done"
      /\ ~last => /\ refresh'[f].at = "read" /\ refresh'[f].pos = k + 1
                  /\ refresh'[f].began = began /\ (refresh'[f].failed <=> (fails /\ ~ends))
                  /\ refresher' = f
  <2>1. PICK r : r = IF last THEN [IdleRefresh EXCEPT !.at = "done"]
                     ELSE [refresh[f] EXCEPT !.at = "read", !.pos = k + 1, !.failed = fails /\ ~ends]
    OBVIOUS
  <2>2. r \in RefreshRec
    <3>1. CASE last
      BY <2>1, <3>1, DoneRefresh
    <3>2. CASE ~last
      <4>1. k + 1 \in 1 .. Len(SecretOrder)
        <5>1. k # Len(SecretOrder)
          BY <1>3, <3>2, Zenon
        <5> QED BY <1>1, <5>1
      <4>2. PICK b \in BOOLEAN : b = (fails /\ ~ends)
        BY <1>3
      <4>3. r = [refresh[f] EXCEPT !.at = "read", !.pos = k + 1, !.failed = b]
        BY <2>1, <3>2, <4>2
      <4> QED BY <1>1, <4>1, <4>3
    <3> QED BY <3>1, <3>2
  <2>3. refresh' = [refresh EXCEPT ![f] = r]
    BY <1>4, <2>1
  <2>4. last => r.at = "done"
    BY <2>1 DEF IdleRefresh
  <2>5. ~last => /\ r.at = "read" /\ r.pos = k + 1 /\ r.began = began
                 /\ (r.failed <=> (fails /\ ~ends))
    BY <1>0, <1>1, <2>1
  <2>6. refresh' \in [Refreshes -> RefreshRec] /\ refresh'[f] = r
    BY <1>1, <2>2, <2>3
  <2>7. \A g \in Refreshes \ {f} : refresh'[g] = refresh[g]
    BY <1>1, <2>3
  <2> HIDE DEF RefreshRec
  <2> QED BY <1>1, <1>4, <2>4, <2>5, <2>6, <2>7
<1>9. SecretTypeOK'
  BY <1>2, <1>5, <1>7, <1>8 DEF SecretInv, SecretTypeOK
<1> HIDE DEF RefreshRec, m
<1>10. \A p \in SecretProviders : /\ since[p] \in Nat /\ since[p] <= began
                                  /\ since'[p] \in Nat /\ since'[p] <= began
  <2>1. \A p \in SecretProviders : since[p] \in Nat /\ since[p] <= began
    BY <1>0, <1>1 DEF SecretInv, SecretTimes, ActiveInv
  <2>2. began \in Nat
    BY <1>1
  <2> QED BY <1>5, <2>1, <2>2
<1>11. SecretTimes'
  <2>1. \A n \in SecretNames : readAt'[n] <= secretClock
    BY <1>6 DEF SecretInv, SecretTimes
  <2>2. \A p \in SecretProviders : since'[p] <= secretClock
    BY <1>1, <1>10
  <2>3. /\ secretClock \in 0 .. MaxSecretClock
        /\ built \in [SecretNames -> [value : 0 .. MaxSecretRotations, gen : 0 .. MaxSecretRotations]]
    BY DEF SecretInv, SecretTimes
  <2> QED BY <1>2, <1>5, <1>6, <2>1, <2>2, <2>3 DEF SecretTimes
<1>12. StartingInv'
  <2>1. Resolved
    BY <1>1 DEF SecretInv, StartingInv
  <2> QED BY <1>2, <2>1 DEF StartingInv, Resolved
\* What the refresh had read of a provider it has still read.
<1>13. \A n \in SecretNames : readAt[n] >= began => readAt'[n] >= began
  <2>1. began \in Nat /\ \A n \in SecretNames : readAt'[n] \in Nat
    BY <1>1, <1>6
  <2> QED BY <1>6, <2>1
<1>14. ~fails => \A i \in 1 .. Len(SecretOrder) :
                     i <= k /\ ProviderAt(i) = ProviderAt(k) => readAt'[SecretOrder[i]] >= began
  <2> SUFFICES ASSUME ~fails, NEW i \in 1 .. Len(SecretOrder), i <= k, ProviderAt(i) = ProviderAt(k)
               PROVE  readAt'[SecretOrder[i]] >= began
    OBVIOUS
  <2>0. SecretOrder[i] \in SecretNames /\ ~failed
    BY <1>3, SecretAt
  <2>1. CASE i = k
    <3>1. began \in Nat /\ readAt'[m] \in Nat /\ began <= readAt'[m]
      BY <1>1, <1>6
    <3> QED BY <1>1, <2>1, <3>1
  <2>2. CASE i < k
    <3>1. readAt[SecretOrder[i]] >= began
      BY <1>0, <1>1, <2>0, <2>2 DEF SecretInv, ActiveInv
    <3> QED BY <1>13, <2>0, <3>1
  <2> QED BY <1>1, <2>1, <2>2
<1>15. \A n \in SecretNames : readAt'[n] >= since'[SecretProviderOf[n]]
  <2> SUFFICES ASSUME NEW n \in SecretNames PROVE readAt'[n] >= since'[SecretProviderOf[n]]
    OBVIOUS
  <2>1. PICK p \in SecretProviders : p = SecretProviderOf[n]
    BY DEF SecretProviders
  <2>2. /\ readAt[n] >= since[p] /\ readAt[n] \in Nat /\ readAt'[n] \in Nat /\ began \in Nat
        /\ since[p] \in Nat /\ since[p] <= began
    BY <1>1, <1>6, <1>10, <2>1 DEF SecretInv, CellInv, SecretTimes
  <2>3. readAt'[n] >= since[p]
    BY <1>6, <2>2
  <2>4. CASE since'[p] = since[p]
    BY <2>1, <2>3, <2>4
  <2>5. CASE since'[p] = began /\ p = ProviderAt(k) /\ ends /\ ~fails
    <3>1. PICK i \in 1 .. Len(SecretOrder) : SecretOrder[i] = n
      BY SecretStoreAssumption DEF SecretNames
    <3>2. ProviderAt(i) = ProviderAt(k)
      BY <2>1, <2>5, <3>1 DEF ProviderAt
    <3>3. i <= k
      BY <1>1, <1>3, <2>5, <3>2, ProviderEnds
    <3> QED BY <1>14, <2>1, <2>5, <3>1, <3>2, <3>3
  <2> QED BY <1>5, <2>4, <2>5
<1>16. CellInv'
  <2> SUFFICES ASSUME NEW n \in SecretNames
               PROVE  /\ built[n].gen <= cell'[n].gen
                      /\ built[n].gen = cell'[n].gen => built[n] = cell'[n]
                      /\ cell'[n].gen <= cell'[n].value /\ cell'[n].value <= backend[n]
    BY <1>2, <1>15 DEF CellInv
  <2>1. /\ built[n].gen \in Nat /\ cell[n].gen \in Nat
        /\ built[n].gen <= cell[n].gen
        /\ built[n].gen = cell[n].gen => built[n] = cell[n]
        /\ cell[n].gen <= cell[n].value /\ cell[n].value <= backend[n]
    BY DEF SecretInv, SecretTypeOK, SecretTimes, CellInv
  <2>2. CASE cell'[n] = cell[n]
    BY <2>1, <2>2
  <2>3. CASE cell'[n] # cell[n]
    <3>1. /\ cell'[n].gen = cell[n].gen + 1
          /\ cell'[n].gen <= cell'[n].value /\ cell'[n].value <= backend[n]
      BY <1>7, <2>3
    <3> QED BY <2>1, <3>1
  <2> QED BY <2>2, <2>3
<1>17. ASSUME NEW g \in Refreshes, g # f PROVE QueuedInv(g)' /\ ActiveInv(g)' /\ FetchedInv(g)'
  <2>1. refresh'[g] = refresh[g] /\ QueuedInv(g) /\ ActiveInv(g)
    BY <1>8, <1>17 DEF SecretInv
  <2>2. refresh[g].at \notin {"read", "store"}
    BY <1>1, <1>17, <2>1 DEF ActiveInv
  <2> QED BY <2>1, <2>2 DEF QueuedInv, ActiveInv, FetchedInv
<1>18. QueuedInv(f)' /\ FetchedInv(f)'
  BY <1>8 DEF QueuedInv, FetchedInv
<1>19. ActiveInv(f)'
  <2>1. CASE last
    BY <1>8, <2>1 DEF ActiveInv
  <2>2. CASE ~last
    <3>1. k + 1 \in 1 .. Len(SecretOrder)
      <4>1. k # Len(SecretOrder)
        BY <1>3, <2>2, Zenon
      <4> QED BY <1>1, <4>1
    <3>2. ASSUME ~(fails /\ ~ends), NEW i \in 1 .. Len(SecretOrder), i < k + 1,
                 ProviderAt(i) = ProviderAt(k + 1)
          PROVE  readAt'[SecretOrder[i]] >= began
      <4>1. i <= k
        BY <1>1, <3>2
      <4>2. ProviderAt(k + 1) = ProviderAt(k)
        <5> SUFFICES ASSUME ProviderAt(k + 1) # ProviderAt(k) PROVE FALSE
          OBVIOUS
        <5>1. i > k
          BY <1>1, <3>1, <3>2, ProviderStarts
        <5> QED BY <1>1, <4>1, <5>1
      <4>3. ~fails
        BY <1>3, <2>2, <3>2, <4>2
      <4> QED BY <1>14, <3>2, <4>1, <4>2, <4>3
    <3>3. /\ refresh'[f].pos = k + 1 /\ refresh'[f].began = began /\ refresher' = f
          /\ (refresh'[f].failed <=> (fails /\ ~ends))
      BY <1>8, <2>2
    <3> QED BY <1>1, <1>2, <1>10, <3>2, <3>3 DEF ActiveInv
  <2> QED BY <2>1, <2>2
<1> QED BY <1>9, <1>11, <1>12, <1>16, <1>17, <1>18, <1>19 DEF SecretInv

LEMMA SecretInvariant == SecretSpec => []SecretInv
<1>1. SecretInit => SecretInv
  <2> SUFFICES ASSUME SecretInit PROVE SecretInv
    OBVIOUS
  <2> USE SecretOrderLong
  <2>1. \A f \in Refreshes : refresh[f] = IdleRefresh
    BY DEF SecretInit
  <2>2. \A f \in Refreshes : refresh[f].at = "idle" /\ refresh[f].pos = 1
    BY <2>1 DEF IdleRefresh
  <2>3. SecretTypeOK
    BY DEF SecretInit, SecretTypeOK, IdleRefresh
  <2>4. SecretTimes
    BY DEF SecretInit, SecretTimes
  <2>5. StartingInv
    BY <2>2 DEF SecretInit, StartingInv
  <2>6. CellInv
    <3>1. \A n \in SecretNames : SecretProviderOf[n] \in SecretProviders
      BY DEF SecretProviders
    <3> QED BY <3>1 DEF SecretInit, CellInv
  <2>7. \A f \in Refreshes : QueuedInv(f) /\ ActiveInv(f) /\ FetchedInv(f)
    BY <2>2 DEF QueuedInv, ActiveInv, FetchedInv
  <2> QED BY <2>3, <2>4, <2>5, <2>6, <2>7 DEF SecretInv
<1>2. SecretInv /\ [SecretNext]_secretVars => SecretInv'
  <2> SUFFICES ASSUME SecretInv, [SecretNext]_secretVars PROVE SecretInv'
    OBVIOUS
  <2>1. CASE UNCHANGED secretVars
    BY <2>1 DEF secretVars, SecretInv, SecretTypeOK, SecretTimes, StartingInv, Resolved, CellInv,
                QueuedInv, ActiveInv, FetchedInv
  <2> QED BY <2>1, ResolveStep, AroundStep, RefreshStep, AdvanceStep DEF SecretNext
<1> QED BY <1>1, <1>2, PTL DEF SecretSpec

\* What the store tells is true, for any secrets, providers, number of refreshes
\* and rotations: a consumer at the cell's generation holds its bytes, and every
\* value is as young as its provider's last success says.
THEOREM RefreshTruthfulHolds == SecretSpec => []RefreshTruthful
<1>1. SecretInv => RefreshTruthful
  BY DEF SecretInv, CellInv, RefreshTruthful, SameGenerationSameBytes, LastSuccessTruthful
<1> QED BY <1>1, SecretInvariant, PTL

\* Every variable of the secret store keeps its type.
THEOREM SecretTypeCorrect == SecretSpec => []SecretTypeOK
<1>1. SecretInv => SecretTypeOK
  BY DEF SecretInv
<1> QED BY <1>1, SecretInvariant, PTL

----------------------------------------------------------------------------
(* The token quota: tokens in flight.                                      *)

UnitsOf(cl, D) == UNION {{c} \X (1 .. cl[c].amount) : c \in D}

\* A call's own tokens are as many as its amount.
LEMMA OwnTokens ==
    ASSUME NEW c, NEW n \in Nat
    PROVE  IsFiniteSet({c} \X (1 .. n)) /\ Cardinality({c} \X (1 .. n)) = n
<1>1. IsFiniteSet(1 .. n) /\ Cardinality(1 .. n) = n
  BY FS_Interval
<1>2. IsFiniteSet({c}) /\ Cardinality({c}) = 1
  BY FS_Singleton
<1>3. Cardinality({c} \X (1 .. n)) = 1 * n /\ IsFiniteSet({c} \X (1 .. n))
  BY <1>1, <1>2, FS_Product
<1> QED BY <1>3

\* A call that joins others brings its tokens along.
LEMMA TokensJoin ==
    ASSUME NEW cl, NEW D, NEW c, c \notin D, cl[c].amount \in Nat, IsFiniteSet(UnitsOf(cl, D))
    PROVE  /\ IsFiniteSet(UnitsOf(cl, D \cup {c}))
           /\ Cardinality(UnitsOf(cl, D)) \in Nat
           /\ Cardinality(UnitsOf(cl, D \cup {c})) = Cardinality(UnitsOf(cl, D)) + cl[c].amount
<1> DEFINE own == {c} \X (1 .. cl[c].amount)
           rest == UnitsOf(cl, D)
<1>1. UnitsOf(cl, D \cup {c}) = rest \cup own /\ rest \cap own = {}
  BY DEF UnitsOf
<1>2. IsFiniteSet(own) /\ Cardinality(own) = cl[c].amount
  BY OwnTokens
<1> HIDE DEF own, rest
<1>3. IsFiniteSet(rest)
  BY DEF rest
<1>4. /\ IsFiniteSet(rest \cup own)
      /\ Cardinality(rest \cup own) = Cardinality(rest) + Cardinality(own) - Cardinality(rest \cap own)
      /\ Cardinality(rest) \in Nat
  BY <1>2, <1>3, FS_Union, FS_CardinalityType
<1>5. Cardinality(rest \cup own) = Cardinality(rest) + cl[c].amount
  <2>1. Cardinality(rest \cap own) = 0
    BY <1>1, FS_EmptySet
  <2> QED BY <1>2, <1>4, <2>1
<1> QED BY <1>1, <1>4, <1>5 DEF rest

\* Groups D and E, under cl and cm, differ in call c alone.
OneMoves(cl, cm, D, E, c) ==
    /\ D \ {c} = E \ {c} /\ \A d \in D \ {c} : cl[d].amount = cm[d].amount
    /\ cl[c].amount \in Nat /\ cm[c].amount \in Nat /\ IsFiniteSet(UnitsOf(cl, D))

UnitsMoved(cl, cm, D, E, c) ==
    /\ IsFiniteSet(UnitsOf(cm, E)) /\ Cardinality(UnitsOf(cl, D)) \in Nat
    /\ Cardinality(UnitsOf(cm, E))
          = Cardinality(UnitsOf(cl, D)) - (IF c \in D THEN cl[c].amount ELSE 0)
                                        + (IF c \in E THEN cm[c].amount ELSE 0)

\* One call moves on: a group loses what it brought if it was there, and gains
\* what it brings if it is there now.
LEMMA UnitsMove ==
    ASSUME NEW cl, NEW cm, NEW D, NEW E, NEW c, OneMoves(cl, cm, D, E, c)
    PROVE  UnitsMoved(cl, cm, D, E, c)
<1> USE DEF OneMoves
<1> DEFINE R == D \ {c}
<1>1. /\ D = (IF c \in D THEN R \cup {c} ELSE R) /\ E = (IF c \in E THEN R \cup {c} ELSE R)
      /\ c \notin R /\ R \subseteq D /\ \A d \in R : cl[d].amount = cm[d].amount
  OBVIOUS
<1> HIDE DEF R
<1>2. UnitsOf(cm, R) = UnitsOf(cl, R)
  BY <1>1 DEF UnitsOf
<1>3. UnitsOf(cl, R) \in SUBSET UnitsOf(cl, D)
  BY <1>1 DEF UnitsOf
<1>4. IsFiniteSet(UnitsOf(cl, R)) /\ Cardinality(UnitsOf(cl, R)) \in Nat
  BY <1>3, FS_Subset, FS_CardinalityType
<1> DEFINE base == Cardinality(UnitsOf(cl, R))
           old == cl[c].amount
           fresh == cm[c].amount
<1>5. Cardinality(UnitsOf(cl, D)) = IF c \in D THEN base + old ELSE base
  <2>1. CASE c \in D
    <3>1. D = R \cup {c} /\ c \notin R
      BY <1>1, <2>1
    <3>2. Cardinality(UnitsOf(cl, R \cup {c})) = Cardinality(UnitsOf(cl, R)) + cl[c].amount
      BY <1>4, <3>1, TokensJoin
    <3> QED BY <2>1, <3>1, <3>2
  <2>2. CASE c \notin D
    <3>1. D = R
      BY <1>1, <2>2
    <3> QED BY <2>2, <3>1
  <2> QED BY <2>1, <2>2
<1>6. /\ IsFiniteSet(UnitsOf(cm, E))
      /\ Cardinality(UnitsOf(cm, E)) = IF c \in E THEN base + fresh ELSE base
  <2>1. CASE c \in E
    <3>1. E = R \cup {c} /\ c \notin R
      BY <1>1, <2>1
    <3>2. IsFiniteSet(UnitsOf(cm, R)) /\ Cardinality(UnitsOf(cm, R)) = base
      BY <1>2, <1>4
    <3>3. /\ IsFiniteSet(UnitsOf(cm, R \cup {c}))
          /\ Cardinality(UnitsOf(cm, R \cup {c})) = Cardinality(UnitsOf(cm, R)) + cm[c].amount
      BY <3>1, <3>2, TokensJoin
    <3> QED BY <2>1, <3>1, <3>2, <3>3
  <2>2. CASE c \notin E
    <3>1. E = R
      BY <1>1, <2>2
    <3> QED BY <1>2, <1>4, <2>2, <3>1
  <2> QED BY <2>1, <2>2
<1>7. base \in Nat /\ old \in Nat /\ fresh \in Nat
  BY <1>4
<1> HIDE DEF base, old, fresh
<1>8. /\ Cardinality(UnitsOf(cl, D)) \in Nat
      /\ Cardinality(UnitsOf(cm, E)) = Cardinality(UnitsOf(cl, D)) - (IF c \in D THEN old ELSE 0)
                                                                   + (IF c \in E THEN fresh ELSE 0)
  BY <1>5, <1>6, <1>7
<1> QED BY <1>6, <1>8 DEF old, fresh, UnitsMoved

----------------------------------------------------------------------------
(* The token quota: the books balance and the gate is held by a call.      *)

CallRecs == [by : Principals \cup {NoPrincipal}, at : CallSteps, amount : Nat, landed : BOOLEAN]

Reporting(p) == {c \in Calls : Payer(c) = p /\ CallAt(c, "report")}
Flushing(p) == {c \in Calls : Payer(c) = p /\ CallAt(c, "flush")}

CountersOK ==
    /\ spent \in [Principals -> Nat] /\ delta \in [Principals -> Nat] /\ reports \in [Principals -> Nat]
    /\ owed \in [Principals -> Nat] /\ ambiguous \in [Principals -> Nat] /\ flushing \subseteq Principals

\* A call under way has a payer; a flush takes no more than is pending, and is
\* the only one of its payer.
CallInv(c) ==
    /\ call[c].at \notin {"idle", "denied"} => Payer(c) \in Principals
    /\ CallAt(c, "flush") => /\ call[c].amount <= delta[Payer(c)]
                             /\ Flushing(Payer(c)) = {c}

BooksOf(p) ==
    /\ IsFiniteSet(Tokens(LateReports(p))) /\ IsFiniteSet(Tokens(LandedFlushes(p)))
    /\ spent[p] + delta[p] + InFlight(LateReports(p))
         = owed[p] + ambiguous[p] + InFlight(LandedFlushes(p))

GateOf(p) ==
    /\ p \in flushing <=> Flushing(p) # {}
    /\ IsFiniteSet(Reporting(p)) /\ reports[p] = Cardinality(Reporting(p))

QuotaInv ==
    /\ CountersOK
    /\ call \in [Calls -> CallRecs]
    /\ \A c \in Calls : CallInv(c)
    /\ \A p \in Principals : BooksOf(p) /\ GateOf(p)

Moves(c, new) == new \in CallRecs /\ call' = [call EXCEPT ![c] = new]

\* Where the call that moves was and is, as conditions on p.
Late(r, p) == r.by = p /\ r.at = "report" /\ ~r.landed
Landed(r, p) == r.by = p /\ r.at = "flush" /\ r.landed

LEMMA CallMoves ==
    ASSUME QuotaInv, NEW c \in Calls, NEW new, Moves(c, new)
    PROVE  /\ call' \in [Calls -> CallRecs] /\ DOMAIN call = Calls /\ call[c] \in CallRecs
           /\ call'[c] = new /\ \A d \in Calls \ {c} : call'[d] = call[d]
BY DEF QuotaInv, Moves

LEMMA GroupsMove ==
    ASSUME QuotaInv, NEW c \in Calls, NEW new, Moves(c, new), NEW p
    PROVE  /\ Flushing(p)' = IF new.by = p /\ new.at = "flush" THEN Flushing(p) \cup {c}
                                                              ELSE Flushing(p) \ {c}
           /\ Reporting(p)' = IF new.by = p /\ new.at = "report" THEN Reporting(p) \cup {c}
                                                                ELSE Reporting(p) \ {c}
           /\ LateReports(p)' \ {c} = LateReports(p) \ {c}
           /\ LandedFlushes(p)' \ {c} = LandedFlushes(p) \ {c}
           /\ c \in LateReports(p) <=> Late(call[c], p)
           /\ c \in LateReports(p)' <=> Late(new, p)
           /\ c \in LandedFlushes(p) <=> Landed(call[c], p)
           /\ c \in LandedFlushes(p)' <=> Landed(new, p)
<1>1. call'[c] = new /\ \A d \in Calls \ {c} : call'[d] = call[d]
  BY CallMoves
<1>2. /\ Flushing(p)' = IF new.by = p /\ new.at = "flush" THEN Flushing(p) \cup {c}
                                                         ELSE Flushing(p) \ {c}
      /\ Reporting(p)' = IF new.by = p /\ new.at = "report" THEN Reporting(p) \cup {c}
                                                           ELSE Reporting(p) \ {c}
  BY <1>1 DEF Flushing, Reporting, Payer, CallAt
<1>3. LateReports(p)' \ {c} = LateReports(p) \ {c} /\ LandedFlushes(p)' \ {c} = LandedFlushes(p) \ {c}
  BY <1>1 DEF LateReports, LandedFlushes, Payer, CallAt
<1>4. /\ c \in LateReports(p) <=> Late(call[c], p)
      /\ c \in LateReports(p)' <=> Late(new, p)
      /\ c \in LandedFlushes(p) <=> Landed(call[c], p)
      /\ c \in LandedFlushes(p)' <=> Landed(new, p)
  BY <1>1 DEF LateReports, LandedFlushes, Payer, CallAt, Late, Landed
<1> QED BY <1>2, <1>3, <1>4

\* The tokens of a principal move with its call.
LEMMA BooksMove ==
    ASSUME QuotaInv, NEW c \in Calls, NEW new, Moves(c, new), NEW p \in Principals
    PROVE  /\ IsFiniteSet(Tokens(LateReports(p))') /\ IsFiniteSet(Tokens(LandedFlushes(p))')
           /\ InFlight(LateReports(p)) \in Nat /\ InFlight(LandedFlushes(p)) \in Nat
           /\ InFlight(LateReports(p))'
                = InFlight(LateReports(p)) - (IF Late(call[c], p) THEN call[c].amount ELSE 0)
                                           + (IF Late(new, p) THEN new.amount ELSE 0)
           /\ InFlight(LandedFlushes(p))'
                = InFlight(LandedFlushes(p)) - (IF Landed(call[c], p) THEN call[c].amount ELSE 0)
                                             + (IF Landed(new, p) THEN new.amount ELSE 0)
<1>1. call[c].amount \in Nat /\ call'[c].amount \in Nat /\ call'[c] = new
      /\ \A d \in Calls \ {c} : call[d].amount = call'[d].amount
  BY CallMoves DEF Moves, CallRecs
<1>2. /\ IsFiniteSet(UnitsOf(call, LateReports(p))) /\ IsFiniteSet(UnitsOf(call, LandedFlushes(p)))
      /\ LateReports(p) \subseteq Calls /\ LandedFlushes(p) \subseteq Calls
  BY DEF QuotaInv, BooksOf, Tokens, UnitsOf, LateReports, LandedFlushes
<1>3. /\ InFlight(LateReports(p)) = Cardinality(UnitsOf(call, LateReports(p)))
      /\ InFlight(LandedFlushes(p)) = Cardinality(UnitsOf(call, LandedFlushes(p)))
      /\ InFlight(LateReports(p))' = Cardinality(UnitsOf(call', LateReports(p)'))
      /\ InFlight(LandedFlushes(p))' = Cardinality(UnitsOf(call', LandedFlushes(p)'))
      /\ Tokens(LateReports(p))' = UnitsOf(call', LateReports(p)')
      /\ Tokens(LandedFlushes(p))' = UnitsOf(call', LandedFlushes(p)')
  BY DEF InFlight, Tokens, UnitsOf
<1> DEFINE D == LateReports(p)
           E == LateReports(p)'
           F == LandedFlushes(p)
           G == LandedFlushes(p)'
<1>4. /\ D \ {c} = E \ {c} /\ (c \in D <=> Late(call[c], p)) /\ (c \in E <=> Late(new, p))
      /\ F \ {c} = G \ {c} /\ (c \in F <=> Landed(call[c], p)) /\ (c \in G <=> Landed(new, p))
  BY GroupsMove
<1>5. (\A d \in D \ {c} : call[d].amount = call'[d].amount)
      /\ (\A d \in F \ {c} : call[d].amount = call'[d].amount)
  BY <1>1, <1>2
<1>9. IsFiniteSet(UnitsOf(call, D)) /\ IsFiniteSet(UnitsOf(call, F))
  BY <1>2
<1>10. call[c].amount \in Nat /\ call'[c].amount \in Nat
  BY <1>1
<1> HIDE DEF D, E, F, G
<1>6. UnitsMoved(call, call', D, E, c)
  <2>1. OneMoves(call, call', D, E, c)
    BY <1>4, <1>5, <1>9, <1>10 DEF OneMoves
  <2> QED BY <2>1, UnitsMove
<1>7. UnitsMoved(call, call', F, G, c)
  <2>1. OneMoves(call, call', F, G, c)
    BY <1>4, <1>5, <1>9, <1>10 DEF OneMoves
  <2> QED BY <2>1, UnitsMove
<1> QED BY <1>1, <1>3, <1>4, <1>6, <1>7 DEF D, E, F, G, UnitsMoved

\* A principal whose calls stay where they are keeps its books and its gate.
LEMMA BooksKept ==
    ASSUME QuotaInv, NEW c \in Calls, NEW new, Moves(c, new), NEW p \in Principals,
           \/ call[c].by # p /\ new.by # p
           \/ call[c].at \notin {"report", "flush"} /\ new.at \notin {"report", "flush"},
           /\ spent'[p] = spent[p] /\ delta'[p] = delta[p] /\ owed'[p] = owed[p]
           /\ ambiguous'[p] = ambiguous[p] /\ reports'[p] = reports[p]
           /\ p \in flushing' <=> p \in flushing
    PROVE  BooksOf(p)' /\ GateOf(p)'
<1>1. BooksOf(p) /\ GateOf(p)
  BY DEF QuotaInv
<1>2. ~Late(call[c], p) /\ ~Late(new, p) /\ ~Landed(call[c], p) /\ ~Landed(new, p)
  BY DEF Late, Landed
<1>3. /\ IsFiniteSet(Tokens(LateReports(p))') /\ IsFiniteSet(Tokens(LandedFlushes(p))')
      /\ InFlight(LateReports(p))' = InFlight(LateReports(p))
      /\ InFlight(LandedFlushes(p))' = InFlight(LandedFlushes(p))
  BY <1>2, BooksMove
<1>4. Flushing(p)' = Flushing(p) /\ Reporting(p)' = Reporting(p)
  <2>1. c \notin Flushing(p) /\ c \notin Reporting(p)
    BY DEF Flushing, Reporting, Payer, CallAt
  <2>2. ~(new.by = p /\ new.at = "flush") /\ ~(new.by = p /\ new.at = "report")
    OBVIOUS
  <2>3. Flushing(p)' = Flushing(p) \ {c} /\ Reporting(p)' = Reporting(p) \ {c}
    BY <2>2, GroupsMove
  <2> QED BY <2>1, <2>3
<1> QED BY <1>1, <1>3, <1>4 DEF BooksOf, GateOf

\* The other calls' invariants: what is pending does not fall below what their
\* flush takes.
LEMMA CallsKept ==
    ASSUME QuotaInv, NEW c \in Calls, NEW new, Moves(c, new), CountersOK',
           new.at \in {"idle", "denied"} \/ new.by \in Principals,
           new.at # "flush",
           \A p \in Principals : delta'[p] >= delta[p] \/ (p = call[c].by /\ call[c].at = "flush")
    PROVE  \A d \in Calls : CallInv(d)'
<1> SUFFICES ASSUME NEW d \in Calls PROVE CallInv(d)'
  OBVIOUS
<1>1. /\ call' \in [Calls -> CallRecs] /\ call'[c] = new
      /\ \A e \in Calls \ {c} : call'[e] = call[e]
      /\ \A p : Flushing(p)' = Flushing(p) \ {c}
  BY CallMoves, GroupsMove
<1>2. CASE d = c
  BY <1>1, <1>2 DEF CallInv, CallAt, Payer
<1>3. CASE d # c
  <2>1. call'[d] = call[d] /\ CallInv(d)
    BY <1>1, <1>3 DEF QuotaInv
  <2>2. CASE call[d].at # "flush"
    BY <2>1, <2>2 DEF CallInv, CallAt, Payer
  <2>3. CASE call[d].at = "flush"
    <3> DEFINE p == call[d].by
    <3>1. p \in Principals /\ call[d].amount <= delta[p] /\ Flushing(p) = {d}
      BY <2>1, <2>3 DEF CallInv, CallAt, Payer
    <3>2. ~(p = call[c].by /\ call[c].at = "flush")
      BY <1>3, <3>1 DEF Flushing, CallAt, Payer
    <3>3. delta'[p] >= delta[p] /\ delta[p] \in Nat /\ delta'[p] \in Nat /\ call[d].amount \in Nat
      BY <3>1, <3>2 DEF QuotaInv, CountersOK, CallRecs
    <3>4. Flushing(p)' = {d}
      BY <1>1, <1>3, <3>1
    <3>5. call[d].amount <= delta'[p]
      BY <3>1, <3>3
    <3> QED BY <2>1, <3>1, <3>4, <3>5 DEF CallInv, CallAt, Payer
  <2> QED BY <2>2, <2>3
<1> QED BY <1>2, <1>3

\* The counters of everybody but p stand still.
OthersSame(p) ==
    \A q \in Principals \ {p} :
        /\ spent'[q] = spent[q] /\ delta'[q] = delta[q] /\ owed'[q] = owed[q]
        /\ ambiguous'[q] = ambiguous[q] /\ reports'[q] = reports[q]
        /\ q \in flushing' <=> q \in flushing

\* A step of one call for its payer: what it must show is about that payer.
PayerMoves(c, new, p) ==
    /\ Moves(c, new) /\ p \in Principals /\ call[c].by = p /\ new.by = p
    /\ OthersSame(p) /\ CountersOK'

LEMMA PayerSettles ==
    ASSUME QuotaInv, NEW c \in Calls, NEW new, NEW p, PayerMoves(c, new, p),
           BooksOf(p)', GateOf(p)', \A d \in Calls : CallInv(d)'
    PROVE  QuotaInv'
<1>1. call' \in [Calls -> CallRecs]
  BY CallMoves DEF PayerMoves
<1>2. ASSUME NEW q \in Principals PROVE BooksOf(q)' /\ GateOf(q)'
  <2>1. CASE q = p
    BY <2>1
  <2>2. CASE q # p
    <3>1. call[c].by # q /\ new.by # q /\ q \in Principals \ {p}
      BY <2>2 DEF PayerMoves
    <3>2. /\ spent'[q] = spent[q] /\ delta'[q] = delta[q] /\ owed'[q] = owed[q]
          /\ ambiguous'[q] = ambiguous[q] /\ reports'[q] = reports[q]
          /\ q \in flushing' <=> q \in flushing
      BY <3>1 DEF PayerMoves, OthersSame
    <3> QED BY <3>1, <3>2, BooksKept DEF PayerMoves
  <2> QED BY <2>1, <2>2
<1> QED BY <1>1, <1>2 DEF QuotaInv, PayerMoves

\* A call that neither was nor is at Limitador leaves the books alone.
LEMMA QuietMove ==
    ASSUME QuotaInv, NEW c \in Calls, NEW new, Moves(c, new),
           call[c].at \notin {"report", "flush"}, new.at \notin {"report", "flush"},
           new.at \in {"idle", "denied"} \/ new.by \in Principals,
           UNCHANGED <<spent, delta, flushing, reports, owed, ambiguous>>
    PROVE  QuotaInv'
<1>1. CountersOK'
  BY DEF QuotaInv, CountersOK
<1>2. call' \in [Calls -> CallRecs]
  BY CallMoves
<1>3. \A q \in Principals : BooksOf(q)' /\ GateOf(q)'
  BY BooksKept
<1>4. \A d \in Calls : CallInv(d)'
  <2>1. \A q \in Principals : delta'[q] >= delta[q]
    BY DEF QuotaInv, CountersOK
  <2> QED BY <1>1, <2>1, CallsKept
<1> QED BY <1>1, <1>2, <1>3, <1>4 DEF QuotaInv

\* How many reports a payer has in flight, when one starts and when one ends.
LEMMA ReportJoins ==
    ASSUME QuotaInv, NEW c \in Calls, NEW new, NEW p \in Principals, Moves(c, new),
           new.by = p, new.at = "report", call[c].at # "report"
    PROVE  IsFiniteSet(Reporting(p)') /\ Cardinality(Reporting(p)') = reports[p] + 1
<1>1. IsFiniteSet(Reporting(p)) /\ reports[p] = Cardinality(Reporting(p))
  BY DEF QuotaInv, GateOf
<1>2. c \notin Reporting(p)
  BY DEF Reporting, CallAt, Payer
<1>3. Reporting(p)' = Reporting(p) \cup {c}
  BY GroupsMove
<1> QED BY <1>1, <1>2, <1>3, FS_AddElement

LEMMA ReportLeaves ==
    ASSUME QuotaInv, NEW c \in Calls, NEW new, NEW p \in Principals, Moves(c, new),
           call[c].by = p, new.at # "report", call[c].at = "report"
    PROVE  /\ IsFiniteSet(Reporting(p)') /\ Cardinality(Reporting(p)') = reports[p] - 1
           /\ reports[p] - 1 \in Nat
<1>1. IsFiniteSet(Reporting(p)) /\ reports[p] = Cardinality(Reporting(p))
  BY DEF QuotaInv, GateOf
<1>2. c \in Reporting(p)
  BY DEF Reporting, CallAt, Payer
<1>3. ~(new.by = p /\ new.at = "report")
  OBVIOUS
<1>4. Reporting(p)' = Reporting(p) \ {c}
  BY <1>3, GroupsMove
<1>5. IsFiniteSet(Reporting(p) \ {c}) /\ Cardinality(Reporting(p) \ {c}) = Cardinality(Reporting(p)) - 1
  BY <1>1, <1>2, FS_RemoveElement
<1>6. Cardinality(Reporting(p) \ {c}) \in Nat
  BY <1>5, FS_CardinalityType
<1> QED BY <1>1, <1>4, <1>5, <1>6

\* A payer that neither starts nor ends a report keeps their number.
LEMMA ReportsStay ==
    ASSUME QuotaInv, NEW c \in Calls, NEW new, NEW p \in Principals, Moves(c, new),
           call[c].by = p, new.by = p, new.at = "report" <=> call[c].at = "report"
    PROVE  IsFiniteSet(Reporting(p)') /\ Cardinality(Reporting(p)') = reports[p]
<1>1. IsFiniteSet(Reporting(p)) /\ reports[p] = Cardinality(Reporting(p))
  BY DEF QuotaInv, GateOf
<1>2. Reporting(p)' = Reporting(p)
  <2>1. c \in Reporting(p) <=> call[c].at = "report"
    BY DEF Reporting, CallAt, Payer
  <2>2. Reporting(p)' = IF new.at = "report" THEN Reporting(p) \cup {c} ELSE Reporting(p) \ {c}
    BY GroupsMove
  <2> QED BY <2>1, <2>2
<1> QED BY <1>1, <1>2

\* What the call that moves takes from the two groups and brings to them.
TokensMoved(c, new, p, gone, come, paid, kept) ==
    /\ gone = IF Late(call[c], p) THEN call[c].amount ELSE 0
    /\ come = IF Late(new, p) THEN new.amount ELSE 0
    /\ paid = IF Landed(call[c], p) THEN call[c].amount ELSE 0
    /\ kept = IF Landed(new, p) THEN new.amount ELSE 0

\* What the move of a call must add up to in its payer's books.
LEMMA BooksBalance ==
    ASSUME QuotaInv, NEW c \in Calls, NEW new, NEW p, PayerMoves(c, new, p),
           NEW gone \in Nat, NEW come \in Nat, NEW paid \in Nat, NEW kept \in Nat,
           TokensMoved(c, new, p, gone, come, paid, kept),
           (spent'[p] - spent[p]) + (delta'[p] - delta[p]) - gone + come
             = (owed'[p] - owed[p]) + (ambiguous'[p] - ambiguous[p]) - paid + kept
    PROVE  BooksOf(p)'
<1> DEFINE L == InFlight(LateReports(p))
           F == InFlight(LandedFlushes(p))
<1>1. /\ IsFiniteSet(Tokens(LateReports(p))') /\ IsFiniteSet(Tokens(LandedFlushes(p))')
      /\ L \in Nat /\ F \in Nat
      /\ InFlight(LateReports(p))' = L - gone + come
      /\ InFlight(LandedFlushes(p))' = F - paid + kept
  BY BooksMove DEF PayerMoves, TokensMoved
<1>2. spent[p] + delta[p] + L = owed[p] + ambiguous[p] + F
  BY DEF QuotaInv, BooksOf, PayerMoves
<1>3. /\ spent[p] \in Nat /\ delta[p] \in Nat /\ owed[p] \in Nat /\ ambiguous[p] \in Nat
      /\ spent'[p] \in Nat /\ delta'[p] \in Nat /\ owed'[p] \in Nat /\ ambiguous'[p] \in Nat
  BY DEF QuotaInv, CountersOK, PayerMoves
<1> HIDE DEF L, F
<1>4. spent'[p] + delta'[p] + (L - gone + come) = owed'[p] + ambiguous'[p] + (F - paid + kept)
  BY <1>1, <1>2, <1>3
<1>5. spent'[p] + delta'[p] + InFlight(LateReports(p))'
        = owed'[p] + ambiguous'[p] + InFlight(LandedFlushes(p))'
  BY <1>1, <1>4
<1> QED BY <1>1, <1>5 DEF BooksOf

\* The gate lets a call past, and it reports all that is pending.
LEMMA FlushBegins ==
    ASSUME QuotaInv, NEW c \in Calls, CallAt(c, "gate"), ~Unsettled(Payer(c)),
           Sends(c, "flush", delta[Payer(c)]), flushing' = flushing \cup {Payer(c)},
           UNCHANGED <<spent, delta, reports, owed, ambiguous>>
    PROVE  QuotaInv'
<1>0. PICK p : p = Payer(c)
  OBVIOUS
<1> DEFINE new == [by |-> p, at |-> "flush", amount |-> delta[p], landed |-> FALSE]
<1>1. call \in [Calls -> CallRecs] /\ p \in Principals /\ delta[p] \in Nat /\ CountersOK
  BY <1>0 DEF QuotaInv, CallInv, CallAt, Payer, CountersOK
<1>2. new \in CallRecs
  BY <1>1 DEF CallRecs, CallSteps
<1>3. Moves(c, new) /\ call[c].by = p /\ call[c].at = "gate" /\ p \notin flushing
  BY <1>0, <1>1, <1>2 DEF Moves, Sends, Payer, CallAt, Unsettled
<1>4. /\ new.by = p /\ new.at = "flush" /\ new.amount = delta[p] /\ new.landed = FALSE
      /\ call[c].by = p
  BY <1>0 DEF Payer
<1>5. CountersOK' /\ OthersSame(p)
  BY <1>0, <1>1 DEF CountersOK, OthersSame
<1> HIDE DEF new
<1>6. PayerMoves(c, new, p)
  BY <1>1, <1>3, <1>4, <1>5 DEF PayerMoves
<1>7. Flushing(p) = {} /\ \A q : Flushing(q)' = IF q = p THEN {c} ELSE Flushing(q)
  <2>1. Flushing(p) = {}
    BY <1>1, <1>3 DEF QuotaInv, GateOf
  <2>2. Flushing(p)' = Flushing(p) \cup {c}
    BY <1>3, <1>4, GroupsMove
  <2>3. ASSUME NEW q, q # p PROVE Flushing(q)' = Flushing(q)
    <3>1. c \notin Flushing(q)
      BY <1>3 DEF Flushing, CallAt
    <3>2. ~(new.by = q /\ new.at = "flush")
      BY <1>4, <2>3
    <3>3. Flushing(q)' = Flushing(q) \ {c}
      BY <1>3, <3>2, GroupsMove
    <3> QED BY <3>1, <3>3
  <2> QED BY <2>1, <2>2, <2>3
<1>8. BooksOf(p)'
  <2>1. ~Late(call[c], p) /\ ~Late(new, p) /\ ~Landed(call[c], p) /\ ~Landed(new, p)
    BY <1>3, <1>4 DEF Late, Landed
  <2>2. /\ spent'[p] - spent[p] = 0 /\ delta'[p] - delta[p] = 0
        /\ owed'[p] - owed[p] = 0 /\ ambiguous'[p] - ambiguous[p] = 0
    BY <1>1 DEF CountersOK
  <2>3. 0 \in Nat /\ 0 + 0 - 0 + 0 = 0 + 0 - 0 + 0
    OBVIOUS
  <2>4. TokensMoved(c, new, p, 0, 0, 0, 0)
    BY <2>1 DEF TokensMoved
  <2> QED BY <1>6, <2>2, <2>3, <2>4, BooksBalance
<1>9. GateOf(p)'
  <2>1. IsFiniteSet(Reporting(p)') /\ Cardinality(Reporting(p)') = reports[p]
    BY <1>1, <1>3, <1>4, ReportsStay
  <2> QED BY <1>0, <1>7, <2>1 DEF GateOf
<1>10. \A d \in Calls : CallInv(d)'
  <2> SUFFICES ASSUME NEW d \in Calls PROVE CallInv(d)'
    OBVIOUS
  <2>1. call'[c] = new /\ \A e \in Calls \ {c} : call'[e] = call[e]
    BY <1>3, CallMoves
  <2>2. CASE d = c
    BY <1>1, <1>4, <1>7, <2>1, <2>2 DEF CallInv, CallAt, Payer, CountersOK
  <2>3. CASE d # c
    <3>1. call'[d] = call[d] /\ CallInv(d)
      BY <2>1, <2>3 DEF QuotaInv
    <3>2. PICK q : q = call[d].by
      OBVIOUS
    <3>3. call[d].at = "flush" => q # p
      BY <1>7, <3>2 DEF Flushing, CallAt, Payer
    <3>4. call[d].at = "flush" => Flushing(q)' = Flushing(q)
      BY <1>7, <3>3
    <3> QED BY <3>1, <3>2, <3>4 DEF CallInv, CallAt, Payer
  <2> QED BY <2>2, <2>3
<1> QED BY <1>6, <1>8, <1>9, <1>10, PayerSettles

\* A report arrives at the counter, unknown to the plugin yet.
LEMMA ReportLandsStep == ASSUME QuotaInv, NEW c \in Calls, ReportLands(c) PROVE QuotaInv'
<1>0. PICK p : p = Payer(c)
  OBVIOUS
<1> DEFINE new == [call[c] EXCEPT !.landed = TRUE]
<1>1. /\ call \in [Calls -> CallRecs] /\ call[c] \in CallRecs /\ p \in Principals /\ CountersOK
      /\ call[c].at \in {"flush", "report"} /\ call[c].landed = FALSE
  BY <1>0 DEF QuotaInv, CallInv, CallAt, Payer, ReportLands, CallRecs
<1>2. new \in CallRecs
  BY <1>1 DEF CallRecs
<1>3. Moves(c, new)
  BY <1>1, <1>2 DEF Moves, ReportLands
<1>4. /\ new.by = p /\ new.at = call[c].at /\ new.amount = call[c].amount /\ new.landed = TRUE
      /\ call[c].by = p /\ call[c].amount \in Nat
  BY <1>0, <1>1 DEF Payer, CallRecs
<1>5. /\ CountersOK' /\ OthersSame(p) /\ UNCHANGED <<delta, flushing, reports, owed, ambiguous>>
      /\ spent'[p] = spent[p] + call[c].amount
  BY <1>0, <1>1, <1>4 DEF CountersOK, OthersSame, ReportLands
<1> HIDE DEF new
<1>6. PayerMoves(c, new, p)
  BY <1>1, <1>3, <1>4, <1>5 DEF PayerMoves
<1>7. \A q : Flushing(q)' = Flushing(q)
  <2> SUFFICES ASSUME NEW q PROVE Flushing(q)' = Flushing(q)
    OBVIOUS
  <2>1. Flushing(q)' = IF new.by = q /\ new.at = "flush" THEN Flushing(q) \cup {c} ELSE Flushing(q) \ {c}
    BY <1>3, GroupsMove
  <2>2. c \in Flushing(q) <=> new.by = q /\ new.at = "flush"
    BY <1>4 DEF Flushing, CallAt, Payer
  <2> QED BY <2>1, <2>2
<1>8. BooksOf(p)'
  <2> DEFINE n == call[c].amount
  <2>1. /\ spent'[p] - spent[p] = n /\ delta'[p] - delta[p] = 0
        /\ owed'[p] - owed[p] = 0 /\ ambiguous'[p] - ambiguous[p] = 0 /\ n \in Nat /\ 0 \in Nat
    BY <1>1, <1>4, <1>5 DEF CountersOK
  <2>2. ~Late(new, p) /\ ~Landed(call[c], p) /\ new.amount = n
    BY <1>1, <1>4 DEF Late, Landed
  <2>3. CASE call[c].at = "flush"
    <3>1. ~Late(call[c], p) /\ Landed(new, p)
      BY <1>4, <2>3 DEF Late, Landed
    <3>2. n + 0 - 0 + 0 = 0 + 0 - 0 + n
      BY <2>1
    <3>3. TokensMoved(c, new, p, 0, 0, 0, n)
      BY <2>2, <3>1 DEF TokensMoved
    <3> HIDE DEF n
    <3> QED BY <1>6, <2>1, <3>2, <3>3, BooksBalance
  <2>4. CASE call[c].at = "report"
    <3>1. Late(call[c], p) /\ ~Landed(new, p)
      BY <1>1, <1>4, <2>4 DEF Late, Landed
    <3>2. n + 0 - n + 0 = 0 + 0 - 0 + 0
      BY <2>1
    <3>3. TokensMoved(c, new, p, n, 0, 0, 0)
      BY <2>2, <3>1 DEF TokensMoved
    <3> HIDE DEF n
    <3> QED BY <1>6, <2>1, <3>2, <3>3, BooksBalance
  <2> QED BY <1>1, <2>3, <2>4
<1>9. GateOf(p)'
  <2>1. IsFiniteSet(Reporting(p)') /\ Cardinality(Reporting(p)') = reports[p]
    BY <1>1, <1>3, <1>4, ReportsStay
  <2>2. GateOf(p)
    BY <1>1 DEF QuotaInv
  <2> QED BY <1>5, <1>7, <2>1, <2>2 DEF GateOf
<1>10. \A d \in Calls : CallInv(d)'
  <2> SUFFICES ASSUME NEW d \in Calls PROVE CallInv(d)'
    OBVIOUS
  <2>1. /\ call'[d].by = call[d].by /\ call'[d].at = call[d].at /\ call'[d].amount = call[d].amount
    BY <1>3, <1>4, CallMoves
  <2>2. CallInv(d) /\ delta' = delta
    BY <1>5 DEF QuotaInv
  <2> QED BY <1>7, <2>1, <2>2 DEF CallInv, CallAt, Payer
<1> QED BY <1>6, <1>8, <1>9, <1>10, PayerSettles

\* What a flush leaves behind: confirmed, it settles what it took; otherwise
\* what landed of it is ambiguous.
FlushOver(c) ==
    \/ call[c].landed /\ delta' = [delta EXCEPT ![Payer(c)] = Settled(c)] /\ UNCHANGED ambiguous
    \/ Unconfirmed(c) /\ UNCHANGED delta

LEMMA FlushEnds ==
    ASSUME QuotaInv, NEW c \in Calls, NEW step \in {"check", "denied"}, CallAt(c, "flush"),
           CallTo(c, step), flushing' = flushing \ {Payer(c)}, FlushOver(c),
           UNCHANGED <<spent, reports, owed>>
    PROVE  QuotaInv'
<1>0. PICK p : p = Payer(c)
  OBVIOUS
<1> DEFINE new == [by |-> p, at |-> step, amount |-> 0, landed |-> FALSE]
<1>1. /\ call \in [Calls -> CallRecs] /\ call[c] \in CallRecs /\ p \in Principals /\ CountersOK
      /\ call[c].at = "flush" /\ call[c].by = p /\ call[c].amount \in Nat
      /\ call[c].amount <= delta[p] /\ Flushing(p) = {c}
  BY <1>0 DEF QuotaInv, CallInv, CallAt, Payer, CallRecs
<1>2. new \in CallRecs
  BY <1>1 DEF CallRecs, CallSteps
<1>3. Moves(c, new)
  BY <1>0, <1>1, <1>2 DEF Moves, CallTo, Payer
<1>4. new.by = p /\ new.at = step /\ new.amount = 0 /\ new.landed = FALSE
  OBVIOUS
<1> HIDE DEF new
<1> DEFINE n == call[c].amount
<1>5. delta[p] \in Nat /\ ambiguous[p] \in Nat /\ spent[p] \in Nat /\ owed[p] \in Nat /\ n \in Nat
      /\ delta[p] - n \in Nat
  BY <1>1 DEF CountersOK
<1>6. \/ call[c].landed /\ delta' = [delta EXCEPT ![p] = delta[p] - n] /\ UNCHANGED ambiguous
      \/ call[c].landed /\ ambiguous' = [ambiguous EXCEPT ![p] = ambiguous[p] + n] /\ UNCHANGED delta
      \/ ~call[c].landed /\ ambiguous' = [ambiguous EXCEPT ![p] = ambiguous[p] + 0] /\ UNCHANGED delta
  BY <1>0, <1>5 DEF FlushOver, Unconfirmed, Settled
<1>7. CountersOK' /\ OthersSame(p)
  <2>1. /\ delta' \in [Principals -> Nat] /\ ambiguous' \in [Principals -> Nat]
        /\ \A q \in Principals \ {p} : delta'[q] = delta[q] /\ ambiguous'[q] = ambiguous[q]
    BY <1>1, <1>5, <1>6 DEF CountersOK
  <2> QED BY <1>0, <1>1, <2>1 DEF CountersOK, OthersSame
<1>8. PayerMoves(c, new, p)
  BY <1>1, <1>3, <1>4, <1>7 DEF PayerMoves
<1>9. ~Late(new, p) /\ ~Late(call[c], p) /\ ~Landed(new, p) /\ (Landed(call[c], p) <=> call[c].landed)
  BY <1>1, <1>4 DEF Late, Landed
<1>10. BooksOf(p)'
  <2>1. spent'[p] - spent[p] = 0 /\ owed'[p] - owed[p] = 0 /\ 0 \in Nat
    BY <1>5
  <2>2. CASE call[c].landed
    <3>1. TokensMoved(c, new, p, 0, 0, n, 0)
      BY <1>9, <2>2 DEF TokensMoved
    <3>2. \/ delta'[p] - delta[p] = 0 - n /\ ambiguous'[p] - ambiguous[p] = 0
          \/ delta'[p] - delta[p] = 0 /\ ambiguous'[p] - ambiguous[p] = n
      <4>1. \/ delta'[p] = delta[p] - n /\ ambiguous'[p] = ambiguous[p]
            \/ delta'[p] = delta[p] /\ ambiguous'[p] = ambiguous[p] + n
        BY <1>1, <1>6, <2>2 DEF CountersOK
      <4> HIDE DEF n
      <4> QED BY <1>5, <4>1
    <3>3. 0 + (0 - n) - 0 + 0 = 0 + 0 - n + 0 /\ 0 + 0 - 0 + 0 = 0 + n - n + 0
      BY <1>5
    <3> HIDE DEF n
    <3> QED BY <1>5, <1>8, <2>1, <3>1, <3>2, <3>3, BooksBalance
  <2>3. CASE ~call[c].landed
    <3>1. TokensMoved(c, new, p, 0, 0, 0, 0)
      BY <1>9, <2>3 DEF TokensMoved
    <3>2. delta'[p] - delta[p] = 0 /\ ambiguous'[p] - ambiguous[p] = 0
      BY <1>1, <1>5, <1>6, <2>3 DEF CountersOK
    <3>3. 0 + 0 - 0 + 0 = 0 + 0 - 0 + 0
      OBVIOUS
    <3> QED BY <1>8, <2>1, <3>1, <3>2, <3>3, BooksBalance
  <2> QED BY <2>2, <2>3
<1>11. GateOf(p)'
  <2>1. IsFiniteSet(Reporting(p)') /\ Cardinality(Reporting(p)') = reports[p]
    BY <1>1, <1>3, <1>4, ReportsStay
  <2>2. ~(new.by = p /\ new.at = "flush")
    BY <1>4
  <2>3. Flushing(p)' = Flushing(p) \ {c}
    BY <1>3, <2>2, GroupsMove
  <2>4. Flushing(p)' = {} /\ p \notin flushing'
    BY <1>0, <1>1, <2>3
  <2> QED BY <2>1, <2>4 DEF GateOf
<1>12. \A d \in Calls : CallInv(d)'
  <2>1. \A q \in Principals : delta'[q] >= delta[q] \/ (q = call[c].by /\ call[c].at = "flush")
    BY <1>1, <1>7 DEF OthersSame, CountersOK
  <2> QED BY <1>1, <1>3, <1>4, <1>7, <2>1, CallsKept
<1> QED BY <1>8, <1>10, <1>11, <1>12, PayerSettles

\* A response is charged: its report is under way and counted as such.
LEMMA DebitStartsStep == ASSUME QuotaInv, NEW c \in Calls, DebitStarts(c) PROVE QuotaInv'
<1>0. PICK p : p = Payer(c)
  OBVIOUS
<1>a. PICK n \in Charges : Sends(c, "report", n) /\ owed' = [owed EXCEPT ![Payer(c)] = @ + n]
  BY DEF DebitStarts
<1> DEFINE new == [by |-> p, at |-> "report", amount |-> n, landed |-> FALSE]
<1>1. /\ call \in [Calls -> CallRecs] /\ call[c] \in CallRecs /\ p \in Principals /\ CountersOK
      /\ call[c].at = "serving" /\ call[c].by = p /\ n \in Nat
  BY <1>0, QuotaAssumption DEF QuotaInv, CallInv, CallAt, Payer, CallRecs, DebitStarts
<1>2. new \in CallRecs
  BY <1>1 DEF CallRecs, CallSteps
<1>3. Moves(c, new)
  BY <1>0, <1>1, <1>2, <1>a DEF Moves, Sends, Payer
<1>4. new.by = p /\ new.at = "report" /\ new.amount = n /\ new.landed = FALSE
  OBVIOUS
<1> HIDE DEF new
<1>5. /\ CountersOK' /\ OthersSame(p) /\ UNCHANGED <<spent, delta, flushing, ambiguous>>
      /\ reports'[p] = reports[p] + 1 /\ owed'[p] = owed[p] + n
  BY <1>0, <1>1, <1>a DEF CountersOK, OthersSame, DebitStarts
<1>6. PayerMoves(c, new, p)
  BY <1>1, <1>3, <1>4, <1>5 DEF PayerMoves
<1>7. BooksOf(p)'
  <2>1. /\ spent'[p] - spent[p] = 0 /\ delta'[p] - delta[p] = 0
        /\ owed'[p] - owed[p] = n /\ ambiguous'[p] - ambiguous[p] = 0 /\ 0 \in Nat
    BY <1>1, <1>5 DEF CountersOK
  <2>2. Late(new, p) /\ ~Late(call[c], p) /\ ~Landed(new, p) /\ ~Landed(call[c], p)
    BY <1>1, <1>4 DEF Late, Landed
  <2>3. TokensMoved(c, new, p, 0, n, 0, 0)
    BY <1>4, <2>2 DEF TokensMoved
  <2>4. 0 + 0 - 0 + n = n + 0 - 0 + 0
    BY <1>1
  <2> QED BY <1>1, <1>6, <2>1, <2>3, <2>4, BooksBalance
<1>8. GateOf(p)'
  <2>1. IsFiniteSet(Reporting(p)') /\ Cardinality(Reporting(p)') = reports[p] + 1
    BY <1>1, <1>3, <1>4, ReportJoins
  <2>2. ~(new.by = p /\ new.at = "flush") /\ c \notin Flushing(p)
    BY <1>1, <1>4 DEF Flushing, CallAt
  <2>3. Flushing(p)' = Flushing(p) \ {c}
    BY <1>3, <2>2, GroupsMove
  <2>4. GateOf(p) /\ Flushing(p)' = Flushing(p)
    BY <1>1, <2>2, <2>3 DEF QuotaInv
  <2> QED BY <1>5, <2>1, <2>4 DEF GateOf
<1>9. \A d \in Calls : CallInv(d)'
  <2>1. \A q \in Principals : delta'[q] >= delta[q] \/ (q = call[c].by /\ call[c].at = "flush")
    BY <1>1, <1>5 DEF CountersOK
  <2> QED BY <1>1, <1>3, <1>4, <1>5, <2>1, CallsKept
<1> QED BY <1>6, <1>7, <1>8, <1>9, PayerSettles

\* A report is over: confirmed, or its amount is pending once more.
DebitOver(c) ==
    \/ call[c].landed /\ UNCHANGED <<delta, ambiguous>>
    \/ delta' = [delta EXCEPT ![Payer(c)] = @ + call[c].amount] /\ Unconfirmed(c)

LEMMA DebitIsOver ==
    ASSUME QuotaInv, NEW c \in Calls, CallAt(c, "report"), CallTo(c, "done"), DebitOver(c),
           reports' = [reports EXCEPT ![Payer(c)] = @ - 1], UNCHANGED <<spent, flushing, owed>>
    PROVE  QuotaInv'
<1>0. PICK p : p = Payer(c)
  OBVIOUS
<1> DEFINE new == [by |-> p, at |-> "done", amount |-> 0, landed |-> FALSE]
<1>1. /\ call \in [Calls -> CallRecs] /\ call[c] \in CallRecs /\ p \in Principals /\ CountersOK
      /\ call[c].at = "report" /\ call[c].by = p /\ call[c].amount \in Nat
  BY <1>0 DEF QuotaInv, CallInv, CallAt, Payer, CallRecs
<1>2. new \in CallRecs
  BY <1>1 DEF CallRecs, CallSteps
<1>3. Moves(c, new)
  BY <1>0, <1>1, <1>2 DEF Moves, CallTo, Payer
<1>4. new.by = p /\ new.at = "done" /\ new.amount = 0 /\ new.landed = FALSE
  OBVIOUS
<1> HIDE DEF new
<1> DEFINE n == call[c].amount
<1>5. /\ delta[p] \in Nat /\ ambiguous[p] \in Nat /\ spent[p] \in Nat /\ owed[p] \in Nat /\ n \in Nat
      /\ IsFiniteSet(Reporting(p)') /\ Cardinality(Reporting(p)') = reports[p] - 1
      /\ reports[p] - 1 \in Nat
  BY <1>1, <1>3, <1>4, ReportLeaves DEF CountersOK
<1>6. \/ call[c].landed /\ UNCHANGED <<delta, ambiguous>>
      \/ /\ call[c].landed /\ delta' = [delta EXCEPT ![p] = delta[p] + n]
         /\ ambiguous' = [ambiguous EXCEPT ![p] = ambiguous[p] + n]
      \/ /\ ~call[c].landed /\ delta' = [delta EXCEPT ![p] = delta[p] + n]
         /\ ambiguous' = [ambiguous EXCEPT ![p] = ambiguous[p] + 0]
  BY <1>0, <1>5 DEF DebitOver, Unconfirmed
<1>7. CountersOK' /\ OthersSame(p)
  <2>1. /\ delta' \in [Principals -> Nat] /\ ambiguous' \in [Principals -> Nat]
        /\ \A q \in Principals \ {p} : delta'[q] = delta[q] /\ ambiguous'[q] = ambiguous[q]
    BY <1>1, <1>5, <1>6 DEF CountersOK
  <2>2. /\ reports' \in [Principals -> Nat]
        /\ \A q \in Principals \ {p} : reports'[q] = reports[q]
    BY <1>0, <1>1, <1>5 DEF CountersOK
  <2> QED BY <1>0, <1>1, <2>1, <2>2 DEF CountersOK, OthersSame
<1>8. PayerMoves(c, new, p)
  BY <1>1, <1>3, <1>4, <1>7 DEF PayerMoves
<1>9. /\ ~Late(new, p) /\ ~Landed(call[c], p) /\ ~Landed(new, p)
      /\ (Late(call[c], p) <=> ~call[c].landed)
  BY <1>1, <1>4 DEF Late, Landed
<1>10. BooksOf(p)'
  <2>1. spent'[p] - spent[p] = 0 /\ owed'[p] - owed[p] = 0 /\ 0 \in Nat
    BY <1>5
  <2>2. CASE call[c].landed
    <3>1. TokensMoved(c, new, p, 0, 0, 0, 0)
      BY <1>9, <2>2 DEF TokensMoved
    <3>2. \/ delta'[p] - delta[p] = 0 /\ ambiguous'[p] - ambiguous[p] = 0
          \/ delta'[p] - delta[p] = n /\ ambiguous'[p] - ambiguous[p] = n
      <4>1. \/ delta'[p] = delta[p] /\ ambiguous'[p] = ambiguous[p]
            \/ delta'[p] = delta[p] + n /\ ambiguous'[p] = ambiguous[p] + n
        BY <1>1, <1>6, <2>2 DEF CountersOK
      <4> HIDE DEF n
      <4> QED BY <1>5, <4>1
    <3>3. 0 + 0 - 0 + 0 = 0 + 0 - 0 + 0 /\ 0 + n - 0 + 0 = 0 + n - 0 + 0
      OBVIOUS
    <3> HIDE DEF n
    <3> QED BY <1>5, <1>8, <2>1, <3>1, <3>2, <3>3, BooksBalance
  <2>3. CASE ~call[c].landed
    <3>1. TokensMoved(c, new, p, n, 0, 0, 0)
      BY <1>9, <2>3 DEF TokensMoved
    <3>2. delta'[p] - delta[p] = n /\ ambiguous'[p] - ambiguous[p] = 0
      BY <1>1, <1>5, <1>6, <2>3 DEF CountersOK
    <3>3. 0 + n - n + 0 = 0 + 0 - 0 + 0
      BY <1>5
    <3> HIDE DEF n
    <3> QED BY <1>5, <1>8, <2>1, <3>1, <3>2, <3>3, BooksBalance
  <2> QED BY <2>2, <2>3
<1>11. GateOf(p)'
  <2>1. reports'[p] = reports[p] - 1
    BY <1>0, <1>1 DEF CountersOK
  <2>2. ~(new.by = p /\ new.at = "flush") /\ c \notin Flushing(p)
    BY <1>1, <1>4 DEF Flushing, CallAt
  <2>3. Flushing(p)' = Flushing(p) \ {c}
    BY <1>3, <2>2, GroupsMove
  <2>4. GateOf(p) /\ Flushing(p)' = Flushing(p)
    BY <1>1, <2>2, <2>3 DEF QuotaInv
  <2> QED BY <1>5, <2>1, <2>4 DEF GateOf
<1>12. \A d \in Calls : CallInv(d)'
  <2>1. \A q \in Principals : delta'[q] >= delta[q]
    <3>1. delta'[p] >= delta[p]
      BY <1>1, <1>5, <1>6 DEF CountersOK
    <3>2. \A q \in Principals \ {p} : delta'[q] = delta[q] /\ delta[q] \in Nat
      BY <1>1, <1>7 DEF OthersSame, CountersOK
    <3>3. \A q \in Principals \ {p} : delta'[q] >= delta[q]
      BY <3>2
    <3> QED BY <3>1, <3>3
  <2> QED BY <1>1, <1>3, <1>4, <1>7, <2>1, CallsKept
<1> QED BY <1>8, <1>10, <1>11, <1>12, PayerSettles

LEMMA QuotaStart == QuotaInit => QuotaInv
<1> SUFFICES ASSUME QuotaInit PROVE QuotaInv
  OBVIOUS
<1> USE DEF QuotaInit
<1>1. CountersOK
  BY DEF CountersOK
<1>2. call \in [Calls -> CallRecs] /\ \A c \in Calls : call[c].at = "idle"
  BY DEF IdleCall, CallRecs, CallSteps, NoPrincipal
<1>3. \A c \in Calls : CallInv(c)
  BY <1>2 DEF CallInv, CallAt
<1>4. ASSUME NEW p \in Principals PROVE BooksOf(p) /\ GateOf(p)
  <2>1. LateReports(p) = {} /\ LandedFlushes(p) = {} /\ Reporting(p) = {} /\ Flushing(p) = {}
    BY <1>2 DEF LateReports, LandedFlushes, Reporting, Flushing, CallAt
  <2>2. Tokens(LateReports(p)) = {} /\ Tokens(LandedFlushes(p)) = {}
    BY <2>1 DEF Tokens
  <2>3. IsFiniteSet({}) /\ Cardinality({}) = 0
    BY FS_EmptySet
  <2>4. /\ spent[p] = 0 /\ delta[p] = 0 /\ owed[p] = 0 /\ ambiguous[p] = 0 /\ reports[p] = 0
        /\ p \notin flushing
    OBVIOUS
  <2>5. BooksOf(p)
    BY <2>2, <2>3, <2>4 DEF BooksOf, InFlight
  <2> QED BY <2>1, <2>3, <2>4, <2>5 DEF GateOf
<1> QED BY <1>1, <1>2, <1>3, <1>4 DEF QuotaInv

\* A call that goes on to a step where nothing of it is at Limitador.
LEMMA QuietTo ==
    ASSUME QuotaInv, NEW c \in Calls, NEW step \in {"check", "serving", "denied"}, CallTo(c, step),
           call[c].at \in {"idle", "gate", "check", "serving"}, call[c].at # "idle" \/ step = "denied",
           UNCHANGED <<spent, delta, flushing, reports, owed, ambiguous>>
    PROVE  QuotaInv'
<1> DEFINE new == [by |-> call[c].by, at |-> step, amount |-> 0, landed |-> FALSE]
<1>1. call \in [Calls -> CallRecs] /\ call[c] \in CallRecs /\ CallInv(c)
  BY DEF QuotaInv
<1>2. new \in CallRecs
  BY <1>1 DEF CallRecs, CallSteps
<1>3. Moves(c, new)
  BY <1>1, <1>2 DEF Moves, CallTo
<1>4. new.at = step /\ new.by = call[c].by
  OBVIOUS
<1>5. new.at \in {"idle", "denied"} \/ new.by \in Principals
  BY <1>1, <1>4 DEF CallInv, Payer
<1>6. call[c].at \notin {"report", "flush"} /\ new.at \notin {"report", "flush"}
  BY <1>4
<1> HIDE DEF new
<1> QED BY <1>3, <1>5, <1>6, QuietMove

LEMMA CallArrivesStep == ASSUME QuotaInv, NEW c \in Calls, CallArrives(c) PROVE QuotaInv'
<1>1. CASE CallTo(c, "denied")
  BY <1>1, QuietTo DEF CallArrives, CallAt
<1>2. ASSUME NEW p \in Principals, call' = [call EXCEPT ![c].by = p, ![c].at = "gate"] PROVE QuotaInv'
  <2> DEFINE new == [call[c] EXCEPT !.by = p, !.at = "gate"]
  <2>1. call \in [Calls -> CallRecs] /\ call[c] \in CallRecs
    BY DEF QuotaInv
  <2>2. new \in CallRecs /\ new.by = p /\ new.at = "gate"
    BY <2>1 DEF CallRecs, CallSteps
  <2>3. Moves(c, new)
    BY <1>2, <2>1, <2>2 DEF Moves
  <2>4. call[c].at \notin {"report", "flush"} /\ new.at \notin {"report", "flush"}
    BY <2>2 DEF CallArrives, CallAt
  <2> HIDE DEF new
  <2> QED BY <2>2, <2>3, <2>4, QuietMove DEF CallArrives
<1> QED BY <1>1, <1>2 DEF CallArrives

LEMMA GateStep == ASSUME QuotaInv, NEW c \in Calls, FlushGate(c) PROVE QuotaInv'
<1>1. CASE CallTo(c, "denied") /\ UNCHANGED flushing
  BY <1>1, QuietTo DEF FlushGate, CallAt
<1>2. CASE CallTo(c, "check") /\ UNCHANGED flushing
  BY <1>2, QuietTo DEF FlushGate, CallAt
<1>3. CASE /\ ~Unsettled(Payer(c)) /\ Sends(c, "flush", delta[Payer(c)])
           /\ flushing' = flushing \cup {Payer(c)}
  BY <1>3, FlushBegins DEF FlushGate
<1> QED BY <1>1, <1>2, <1>3 DEF FlushGate

LEMMA SettlesStep == ASSUME QuotaInv, NEW c \in Calls, FlushSettles(c) PROVE QuotaInv'
<1>1. CallTo(c, "check") \/ CallTo(c, "denied")
  BY DEF FlushSettles
<1>2. FlushOver(c)
  BY DEF FlushSettles, FlushOver
<1>3. CallAt(c, "flush") /\ flushing' = flushing \ {Payer(c)} /\ UNCHANGED <<spent, reports, owed>>
  BY DEF FlushSettles
<1> QED BY <1>1, <1>2, <1>3, FlushEnds

LEMMA CheckStep == ASSUME QuotaInv, NEW c \in Calls, CheckReturns(c) PROVE QuotaInv'
<1>1. CallTo(c, "serving") \/ CallTo(c, "denied")
  BY DEF CheckReturns
<1> QED BY <1>1, QuietTo DEF CheckReturns, CallAt

LEMMA DebitEndsStep == ASSUME QuotaInv, NEW c \in Calls, DebitEnds(c) PROVE QuotaInv'
<1>1. DebitOver(c) /\ reports' = [reports EXCEPT ![Payer(c)] = @ - 1]
  BY DEF DebitEnds, FinishDebit, DebitOver
<1> QED BY <1>1, DebitIsOver DEF DebitEnds

LEMMA DroppedStep == ASSUME QuotaInv, NEW c \in Calls, CallDropped(c) PROVE QuotaInv'
<1>1. CASE CallAt(c, "flush") /\ Release(c) /\ Unconfirmed(c) /\ UNCHANGED <<delta, reports>>
  <2>1. CallTo(c, "denied")
    BY <1>1 DEF CallDropped, CallAt
  <2>2. FlushOver(c) /\ flushing' = flushing \ {Payer(c)} /\ UNCHANGED <<spent, reports, owed>>
    BY <1>1 DEF CallDropped, FlushOver, Release
  <2> QED BY <1>1, <2>1, <2>2, FlushEnds
<1>2. CASE CallAt(c, "report") /\ FinishDropped(c) /\ UNCHANGED flushing
  <2>1. CallTo(c, "done")
    BY <1>2 DEF CallDropped
  <2>2. DebitOver(c) /\ reports' = [reports EXCEPT ![Payer(c)] = @ - 1]
    BY <1>2 DEF FinishDropped, FinishDebit, DebitOver
  <2> QED BY <1>2, <2>1, <2>2, DebitIsOver DEF CallDropped
<1>3. CASE /\ CallAt(c, "check") \/ CallAt(c, "serving")
           /\ UNCHANGED <<delta, flushing, reports, ambiguous>>
  <2>1. CallTo(c, "denied")
    BY <1>3 DEF CallDropped, CallAt
  <2> QED BY <1>3, <2>1, QuietTo DEF CallDropped, CallAt
<1> QED BY <1>1, <1>2, <1>3 DEF CallDropped

\* The inductive invariant of the quota: the books of every payer balance with
\* what is in flight, a flush is alone and takes no more than is pending, and
\* the gate counts the calls that hold it.
THEOREM QuotaInvariant == QuotaSpec => []QuotaInv
<1>1. QuotaInit => QuotaInv
  BY QuotaStart
<1>2. QuotaInv /\ [QuotaNext]_quotaVars => QuotaInv'
  <2> SUFFICES ASSUME QuotaInv, [QuotaNext]_quotaVars PROVE QuotaInv'
    OBVIOUS
  <2>1. CASE UNCHANGED quotaVars
    <3> USE DEF quotaVars
    <3>1. CountersOK' /\ call' \in [Calls -> CallRecs]
      BY <2>1 DEF QuotaInv, CountersOK
    <3>2. \A p : /\ LateReports(p)' = LateReports(p) /\ LandedFlushes(p)' = LandedFlushes(p)
                 /\ Reporting(p)' = Reporting(p) /\ Flushing(p)' = Flushing(p)
      BY <2>1 DEF LateReports, LandedFlushes, Reporting, Flushing, CallAt, Payer
    <3>3. \A p : /\ Tokens(LateReports(p))' = Tokens(LateReports(p))
                 /\ Tokens(LandedFlushes(p))' = Tokens(LandedFlushes(p))
      BY <2>1, <3>2 DEF Tokens
    <3>4. \A p \in Principals : BooksOf(p)' /\ GateOf(p)'
      BY <2>1, <3>2, <3>3 DEF QuotaInv, BooksOf, GateOf, InFlight
    <3>5. \A c \in Calls : CallInv(c)'
      BY <2>1, <3>2 DEF QuotaInv, CallInv, CallAt, Payer
    <3> QED BY <3>1, <3>4, <3>5 DEF QuotaInv
  <2>2. CASE QuotaNext
    BY <2>2, CallArrivesStep, GateStep, SettlesStep, CheckStep, DebitStartsStep, DebitEndsStep,
       ReportLandsStep, DroppedStep DEF QuotaNext, QuotaStep
  <2> QED BY <2>1, <2>2
<1> QED BY <1>1, <1>2, PTL DEF QuotaSpec

\* Nothing is charged twice and nothing is forgotten, for any calls, principals,
\* charges and budget, whatever overlaps, is lost or is dropped; and a closed
\* gate is always held by a call that will open it.
THEOREM QuotaSoundHolds == QuotaSpec => []QuotaSound
<1>1. QuotaInv => QuotaSound
  <2> SUFFICES ASSUME QuotaInv PROVE QuotaSound
    OBVIOUS
  <2>1. Accounted
    BY DEF QuotaInv, BooksOf, Accounted
  <2>2. GateHeldByACall
    <3> SUFFICES ASSUME NEW p \in Principals
                 PROVE  /\ p \in flushing <=> \E c \in Calls : Payer(c) = p /\ CallAt(c, "flush")
                        /\ reports[p] = Cardinality({c \in Calls : Payer(c) = p /\ CallAt(c, "report")})
      BY DEF GateHeldByACall
    <3>1. GateOf(p)
      BY DEF QuotaInv
    <3> QED BY <3>1 DEF GateOf, Flushing, Reporting
  <2> QED BY <2>1, <2>2 DEF QuotaSound
<1> QED BY <1>1, QuotaInvariant, PTL

\* Every variable of the quota keeps its type.
THEOREM QuotaTypeCorrect == QuotaSpec => []QuotaTypeOK
<1>1. QuotaInv => QuotaTypeOK
  BY DEF QuotaInv, CountersOK, CallRecs, QuotaTypeOK
<1> QED BY <1>1, QuotaInvariant, PTL

----------------------------------------------------------------------------
(* Admission: nothing a payer owes is still under way.                     *)

LEMMA NoReports ==
    ASSUME QuotaInv, NEW p \in Principals, reports[p] = 0
    PROVE  InFlight(LateReports(p)) = 0
<1>1. Reporting(p) = {}
  BY FS_EmptySet DEF QuotaInv, GateOf
<1>2. LateReports(p) = {}
  BY <1>1 DEF LateReports, Reporting
<1>3. Tokens(LateReports(p)) = {}
  BY <1>2 DEF Tokens
<1> QED BY <1>3, FS_EmptySet DEF InFlight

\* A call gets past the gate only when all its principal's responses have cost
\* has reached the counter that its budget check reads.
THEOREM SettledAtAdmissionHolds == QuotaSpec => SettledAtAdmission
<1> DEFINE Admit == \A c \in Calls : ~CallAt(c, "check") /\ call'[c].at = "check" =>
                        owed[Payer(c)] <= spent[Payer(c)]
<1>1. QuotaInv /\ [QuotaNext]_quotaVars => [Admit]_quotaVars
  <2> SUFFICES ASSUME QuotaInv, QuotaNext, NEW c \in Calls, ~CallAt(c, "check"), call'[c].at = "check"
               PROVE  owed[Payer(c)] <= spent[Payer(c)]
    OBVIOUS
  <2> DEFINE p == Payer(c)
  <2>1. call \in [Calls -> CallRecs] /\ CallInv(c)
    BY DEF QuotaInv
  <2>2. PICK e \in Calls : CallArrives(e) \/ QuotaStep(e) \/ ReportLands(e) \/ CallDropped(e)
    BY DEF QuotaNext
  <2>3. \E new : call' = [call EXCEPT ![e] = new]
    BY <2>1, <2>2 DEF CallArrives, QuotaStep, ReportLands, CallDropped, FlushGate, FlushSettles,
                      CheckReturns, DebitStarts, DebitEnds, CallTo, Sends
  <2>4. e = c
    BY <2>1, <2>3 DEF CallAt
  <2>5. \/ FlushGate(c) /\ ~Unsettled(Payer(c)) /\ delta[Payer(c)] = 0
        \/ FlushSettles(c) /\ call[c].landed /\ Settled(c) = 0 /\ reports[Payer(c)] = 0
    <3>1. \A step : CallTo(c, step) => call'[c].at = step
      BY <2>1 DEF CallTo
    <3>2. \A step, n : Sends(c, step, n) => call'[c].at = step
      BY <2>1 DEF Sends
    <3>3. ~CallArrives(c)
      <4>1. ASSUME NEW q \in Principals, call' = [call EXCEPT ![c].by = q, ![c].at = "gate"]
            PROVE  call'[c].at = "gate"
        BY <2>1, <4>1 DEF CallRecs
      <4> QED BY <3>1, <4>1 DEF CallArrives
    <3>4. ~ReportLands(c)
      <4>1. ReportLands(c) => call'[c].at = call[c].at
        BY <2>1 DEF ReportLands, CallRecs
      <4> QED BY <4>1 DEF CallAt
    <3>5. ~CheckReturns(c) /\ ~CallDropped(c) /\ ~DebitEnds(c) /\ ~DebitStarts(c)
      BY <3>1, <3>2 DEF CheckReturns, CallDropped, DebitEnds, DebitStarts, CallAt
    <3>6. FlushGate(c) => ~Unsettled(Payer(c)) /\ delta[Payer(c)] = 0
      BY <3>1, <3>2 DEF FlushGate
    <3>7. FlushSettles(c) => call[c].landed /\ Settled(c) = 0 /\ reports[Payer(c)] = 0
      <4>1. ~CallTo(c, "denied")
        BY <3>1
      <4> QED BY <4>1 DEF FlushSettles
    <3> QED BY <2>2, <2>4, <3>3, <3>4, <3>5, <3>6, <3>7 DEF QuotaStep
  <2>6. p \in Principals /\ BooksOf(p) /\ GateOf(p)
    BY <2>1, <2>5 DEF QuotaInv, CallInv, FlushGate, FlushSettles, CallAt
  <2>7. /\ spent[p] \in Nat /\ delta[p] \in Nat /\ owed[p] \in Nat /\ ambiguous[p] \in Nat
        /\ call[c].amount \in Nat
    BY <2>1, <2>6 DEF QuotaInv, CountersOK, CallRecs
  <2>8. reports[p] = 0 /\ InFlight(LateReports(p)) = 0
    BY <2>5, <2>6, NoReports DEF Unsettled
  <2>9. CASE FlushGate(c) /\ ~Unsettled(Payer(c)) /\ delta[Payer(c)] = 0
    <3>1. Flushing(p) = {}
      BY <2>6, <2>9 DEF GateOf, Unsettled
    <3>2. LandedFlushes(p) = {}
      BY <3>1 DEF LandedFlushes, Flushing
    <3>3. Tokens(LandedFlushes(p)) = {}
      BY <3>2 DEF Tokens
    <3>4. InFlight(LandedFlushes(p)) = 0 /\ delta[p] = 0
      BY <2>9, <3>3, FS_EmptySet DEF InFlight
    <3>5. spent[p] + delta[p] + 0 = owed[p] + ambiguous[p] + 0
      BY <2>6, <2>8, <3>4 DEF BooksOf
    <3> QED BY <2>7, <3>4, <3>5
  <2>10. CASE FlushSettles(c) /\ call[c].landed /\ Settled(c) = 0 /\ reports[Payer(c)] = 0
    <3>1. Flushing(p) = {c} /\ call[c].at = "flush"
      BY <2>1, <2>10 DEF FlushSettles, CallInv, CallAt
    <3>2. LandedFlushes(p) = {c}
      BY <2>10, <3>1 DEF LandedFlushes, Flushing
    <3>3. Tokens(LandedFlushes(p)) = {c} \X (1 .. call[c].amount)
      BY <3>2 DEF Tokens
    <3>4. InFlight(LandedFlushes(p)) = call[c].amount
      <4>1. Cardinality({c} \X (1 .. call[c].amount)) = call[c].amount
        BY <2>7, OwnTokens
      <4> QED BY <3>3, <4>1 DEF InFlight
    <3>5. delta[p] = call[c].amount
      BY <2>7, <2>10 DEF Settled
    <3>6. spent[p] + delta[p] + 0 = owed[p] + ambiguous[p] + call[c].amount
      BY <2>6, <2>8, <3>4 DEF BooksOf
    <3> QED BY <2>7, <3>5, <3>6
  <2> QED BY <2>5, <2>9, <2>10
<1> QED BY <1>1, QuotaInvariant, PTL DEF QuotaSpec, SettledAtAdmission

-----------------------------------------------------------------------------
(* The decision cache: its two fields agree.                               *)

NoneTwice(q) == \A i, j \in 1 .. Len(q) : q[i] = q[j] => i = j
MembersOf(q) == {q[i] : i \in 1 .. Len(q)}

\* The members at some positions of a sequence without repetitions are those,
\* each once.
LEMMA PickedIs ==
    ASSUME NEW T, NEW q \in Seq(T), NEW S \in SUBSET DOMAIN q, NoneTwice(q)
    PROVE  /\ Picked(q, S) \in Seq(T) /\ NoneTwice(Picked(q, S))
           /\ MembersOf(Picked(q, S)) = {q[i] : i \in S}
<1> DEFINE size == Cardinality(S)
           p == Picked(q, S)
<1>1. DOMAIN q = 1 .. Len(q) /\ \A i \in DOMAIN q : q[i] \in T
  BY PlacesOf
<1>2. S \in SUBSET Nat /\ IsFiniteSet(S) /\ size \in Nat
  BY PlacesOf, FS_Subset, FS_CardinalityType
<1>3. \A n \in 1 .. size : NthOf(S, n) \in S /\ Cardinality(UpTo(S, NthOf(S, n))) = n
  BY <1>2, NthIs
<1>4. p = [n \in 1 .. size |-> q[NthOf(S, n)]]
  BY DEF Picked
<1> HIDE DEF size, p
<1>5. p \in [1 .. size -> T]
  BY <1>1, <1>3, <1>4
<1>6. p \in Seq(T) /\ Len(p) = size
  BY <1>2, <1>5
<1>7. ASSUME NEW i \in 1 .. size, NEW j \in 1 .. size, p[i] = p[j] PROVE i = j
  <2>1. NthOf(S, i) = NthOf(S, j)
    BY <1>1, <1>3, <1>4, <1>7 DEF NoneTwice
  <2> QED BY <1>3, <2>1
<1>8. ASSUME NEW i \in S PROVE \E n \in 1 .. size : p[n] = q[i]
  <2>1. PICK n \in 1 .. size : NthOf(S, n) = i
    BY <1>2, NthReaches DEF size
  <2> QED BY <1>4, <2>1
<1>9. MembersOf(p) = {q[i] : i \in S}
  BY <1>3, <1>4, <1>6, <1>8 DEF MembersOf
<1>10. NoneTwice(p)
  BY <1>6, <1>7 DEF NoneTwice
<1> QED BY <1>6, <1>9, <1>10 DEF p

\* The map holds slots for the keys of the deque, which has each once, and no
\* more of them than it may.
Sane(s) ==
    /\ s.order \in Seq(CacheKeys) /\ NoneTwice(s.order)
    /\ DOMAIN s.entries = MembersOf(s.order)
    /\ \A k \in DOMAIN s.entries : s.entries[k] \in Slot
    /\ IsFiniteSet(DOMAIN s.entries) /\ Cardinality(DOMAIN s.entries) <= MaxEntries

\* What t holds is in s.
PartOf(t, s) ==
    /\ DOMAIN t.entries \subseteq DOMAIN s.entries
    /\ \A k \in DOMAIN t.entries : t.entries[k] = s.entries[k]

LEMMA CacheNumbers == MaxEntries \in Nat /\ MaxEntries > 0 /\ Ttl \in Nat
                      /\ MaxReloads \in Nat /\ MaxTime \in Nat
BY DecisionCacheAssumption

LEMMA SaneKeys ==
    ASSUME NEW s, Sane(s) PROVE DOMAIN s.entries \subseteq CacheKeys
<1>1. DOMAIN s.order = 1 .. Len(s.order) /\ \A i \in DOMAIN s.order : s.order[i] \in CacheKeys
  BY PlacesOf DEF Sane
<1> QED BY <1>1 DEF Sane, MembersOf

LEMMA KeepIs ==
    ASSUME NEW s, Sane(s), NEW ks
    PROVE  /\ Sane(Keep(s, ks)) /\ PartOf(Keep(s, ks), s)
           /\ DOMAIN Keep(s, ks).entries = DOMAIN s.entries \cap ks
<1> DEFINE t == Keep(s, ks)
           at == {i \in DOMAIN s.order : s.order[i] \in ks}
<1>1. /\ t.order = Picked(s.order, at)
      /\ t.entries = [k \in DOMAIN s.entries \cap ks |-> s.entries[k]]
  BY DEF Keep
<1>2. at \in SUBSET DOMAIN s.order /\ DOMAIN s.order = 1 .. Len(s.order)
  BY PlacesOf DEF Sane
<1>3. /\ t.order \in Seq(CacheKeys) /\ NoneTwice(t.order)
      /\ MembersOf(t.order) = {s.order[i] : i \in at}
  <2> HIDE DEF at, t
  <2> QED BY <1>1, <1>2, PickedIs DEF Sane
<1>4. DOMAIN t.entries = DOMAIN s.entries \cap ks /\ \A k \in DOMAIN t.entries : t.entries[k] = s.entries[k]
  BY <1>1
<1> HIDE DEF t
<1>5. {s.order[i] : i \in at} = DOMAIN s.entries \cap ks
  BY <1>2 DEF Sane, MembersOf
<1>6. DOMAIN t.entries \in SUBSET DOMAIN s.entries
  BY <1>4
<1>7. IsFiniteSet(DOMAIN t.entries) /\ Cardinality(DOMAIN t.entries) <= MaxEntries
  <2>1. /\ IsFiniteSet(DOMAIN s.entries) /\ Cardinality(DOMAIN s.entries) \in Nat
        /\ Cardinality(DOMAIN s.entries) <= MaxEntries
    BY FS_CardinalityType DEF Sane
  <2>2. /\ IsFiniteSet(DOMAIN t.entries) /\ Cardinality(DOMAIN t.entries) \in Nat
        /\ Cardinality(DOMAIN t.entries) <= Cardinality(DOMAIN s.entries)
    BY <1>6, <2>1, FS_Subset, FS_CardinalityType
  <2> QED BY <2>1, <2>2, CacheNumbers
<1>8. \A k \in DOMAIN t.entries : t.entries[k] \in Slot
  BY <1>4 DEF Sane
<1>9. Sane(t)
  BY <1>3, <1>4, <1>5, <1>7, <1>8 DEF Sane
<1> QED BY <1>4, <1>9 DEF PartOf, t

LEMMA PartsOfParts ==
    ASSUME NEW s, NEW t, NEW u, PartOf(t, s), PartOf(u, t) PROVE PartOf(u, s)
BY DEF PartOf

\* A store that is trimmed has room for one more.
LEMMA TrimIs ==
    ASSUME NEW s, Sane(s)
    PROVE  Sane(Trim(s)) /\ PartOf(Trim(s), s) /\ HasRoom(Trim(s))
<1> DEFINE t == IF HasRoom(s) THEN s ELSE DropAllExpired(s)
           u == Keep(t, CacheKeys \ {Head(t.order)})
<1>1. Sane(t) /\ PartOf(t, s)
  BY KeepIs DEF DropAllExpired, PartOf
<1>2. Trim(s) = IF HasRoom(t) THEN t ELSE u
  BY DEF Trim
<1> HIDE DEF t
<1>3. Sane(u) /\ PartOf(u, s) /\ DOMAIN u.entries = DOMAIN t.entries \cap (CacheKeys \ {Head(t.order)})
  BY <1>1, KeepIs, PartsOfParts
<1>4. ASSUME ~HasRoom(t) PROVE HasRoom(u)
  <2> DEFINE d == DOMAIN t.entries
             first == Head(t.order)
  <2>1. IsFiniteSet(d) /\ Cardinality(d) \in Nat /\ Cardinality(d) <= MaxEntries /\ d = MembersOf(t.order)
        /\ t.order \in Seq(CacheKeys)
    BY <1>1, FS_CardinalityType DEF Sane
  <2>2. Cardinality(d) = MaxEntries
    BY <1>4, <2>1, CacheNumbers DEF HasRoom
  <2>3. d # {}
    BY <2>2, FS_EmptySet, CacheNumbers
  <2>4. Len(t.order) \in Nat /\ Len(t.order) # 0
    BY <2>1, <2>3 DEF MembersOf
  <2>5. first = t.order[1] /\ 1 \in 1 .. Len(t.order)
    BY <2>1, <2>4
  <2>6. first \in d
    BY <2>1, <2>5 DEF MembersOf
  <2>7. DOMAIN u.entries = d \ {first}
    BY <1>1, <1>3, SaneKeys
  <2> HIDE DEF d, first, u
  <2>8. Cardinality(d \ {first}) = Cardinality(d) - 1
    BY <2>1, <2>6, FS_RemoveElement
  <2> QED BY <2>1, <2>2, <2>7, <2>8, CacheNumbers DEF HasRoom
<1> QED BY <1>1, <1>2, <1>3, <1>4

LEMMA InsertIs ==
    ASSUME NEW s, Sane(s), NEW k \in CacheKeys, NEW slot \in Slot
    PROVE  /\ Sane(Insert(s, k, slot))
           /\ \A j \in DOMAIN Insert(s, k, slot).entries :
                 \/ Insert(s, k, slot).entries[j] = slot
                 \/ j \in DOMAIN s.entries /\ Insert(s, k, slot).entries[j] = s.entries[j]
<1> DEFINE front == DropExpiredFromFront(s)
           room == Trim(front)
           over == With(front, k, slot)
           new == With(room, k, slot)
<1>1. Sane(front) /\ PartOf(front, s)
  BY KeepIs DEF DropExpiredFromFront
<1>2. Sane(room) /\ PartOf(room, s) /\ HasRoom(room)
  BY <1>1, TrimIs, PartsOfParts
<1>3. Insert(s, k, slot) = IF k \in DOMAIN front.entries THEN over
                           ELSE [new EXCEPT !.order = Append(@, k)]
  BY DEF Insert
<1>4. PartOf(room, front)
  BY <1>1, TrimIs
<1> HIDE DEF front, room
<1>5. CASE k \in DOMAIN front.entries
  <2> DEFINE o == over
  <2>1. o.order = front.order /\ DOMAIN o.entries = DOMAIN front.entries \cup {k}
        /\ \A j \in DOMAIN o.entries : o.entries[j] = IF j = k THEN slot ELSE front.entries[j]
    BY DEF With
  <2> HIDE DEF o
  <2>2. DOMAIN o.entries = DOMAIN front.entries
    BY <1>5, <2>1
  <2>3. Sane(o)
    BY <1>1, <2>1, <2>2 DEF Sane
  <2>4. Insert(s, k, slot) = o
    BY <1>3, <1>5 DEF o
  <2> QED BY <1>1, <2>1, <2>2, <2>3, <2>4 DEF PartOf
<1>6. CASE k \notin DOMAIN front.entries
  <2> DEFINE o == [new EXCEPT !.order = Append(@, k)]
  <2>1. /\ o.order = Append(room.order, k) /\ DOMAIN o.entries = DOMAIN room.entries \cup {k}
        /\ \A j \in DOMAIN o.entries : o.entries[j] = IF j = k THEN slot ELSE room.entries[j]
    BY DEF With
  <2> HIDE DEF o, new
  <2>2. k \notin DOMAIN room.entries
    BY <1>4, <1>6 DEF PartOf
  <2>3. /\ o.order \in Seq(CacheKeys) /\ Len(o.order) = Len(room.order) + 1 /\ Len(room.order) \in Nat
        /\ o.order[Len(room.order) + 1] = k /\ \A i \in 1 .. Len(room.order) : o.order[i] = room.order[i]
    BY <1>2, <2>1 DEF Sane
  <2>4. \A i : i \in 1 .. Len(o.order) <=> i \in 1 .. Len(room.order) \/ i = Len(room.order) + 1
    BY <2>3
  <2>5. MembersOf(o.order) = MembersOf(room.order) \cup {k}
    BY <2>3, <2>4 DEF MembersOf
  <2>6. \A i \in 1 .. Len(room.order) : room.order[i] # k
    BY <1>2, <2>2 DEF Sane, MembersOf
  <2>7. NoneTwice(o.order)
    BY <1>2, <2>3, <2>4, <2>6 DEF NoneTwice, Sane
  <2>8. IsFiniteSet(DOMAIN o.entries) /\ Cardinality(DOMAIN o.entries) <= MaxEntries
    <3>1. IsFiniteSet(DOMAIN room.entries) /\ Cardinality(DOMAIN room.entries) \in Nat
          /\ Cardinality(DOMAIN room.entries) < MaxEntries
      BY <1>2, FS_CardinalityType DEF Sane, HasRoom
    <3>2. IsFiniteSet(DOMAIN o.entries)
          /\ Cardinality(DOMAIN o.entries) = Cardinality(DOMAIN room.entries) + 1
      BY <2>1, <2>2, <3>1, FS_AddElement
    <3> QED BY <3>1, <3>2, CacheNumbers
  <2>9. \A j \in DOMAIN o.entries : o.entries[j] \in Slot
    BY <1>2, <2>1 DEF Sane
  <2>10. Sane(o)
    BY <1>2, <2>1, <2>3, <2>5, <2>7, <2>8, <2>9 DEF Sane
  <2>11. Insert(s, k, slot) = o
    BY <1>3, <1>6 DEF o
  <2> QED BY <1>2, <2>1, <2>10, <2>11 DEF PartOf
<1> QED BY <1>5, <1>6

-----------------------------------------------------------------------------
(* The decision cache: what it serves is current.                          *)

Asks == [at : AskSteps, key : CacheKeys \cup {"none"}, gen : 0 .. MaxReloads, of : 0 .. MaxReloads]

\* A backend answers from a configuration no older than the generation its asker
\* read, for the snapshot is published before the generation is raised.
AskInv(a) ==
    /\ asker[a] \in Asks
    /\ asker[a].gen <= generation
    /\ asker[a].at \in {"answered", "hit"} => asker[a].of >= asker[a].gen
    /\ asker[a].at \in {"asking", "answered"} => asker[a].key \in CacheKeys

\* The slots of a store are of a configuration g or later.
Since(s, g) == \A k \in DOMAIN s.entries : s.entries[k].of >= g

ClockInv ==
    /\ snapshot \in 0 .. MaxReloads /\ generation \in 0 .. MaxReloads
    /\ generation <= snapshot /\ seen \in 0 .. generation
    /\ now \in 0 .. MaxTime

CacheInv ==
    /\ ClockInv
    /\ Sane(Store) /\ Since(Store, seen)
    /\ DOMAIN asker = Askers /\ asker = [a \in Askers |-> asker[a]]
    /\ \A a \in Askers : AskInv(a)

LEMMA ClearedIs ==
    ASSUME CacheInv PROVE Sane(Cleared) /\ Since(Cleared, generation)
<1>1. CASE seen = generation
  BY <1>1 DEF CacheInv, Cleared
<1>2. CASE seen # generation
  <2> DEFINE c == [entries |-> Empty, order |-> <<>>]
  <2>1. Cleared = c
    BY <1>2 DEF Cleared
  <2>2. c.order = <<>> /\ DOMAIN c.entries = {} /\ c.order \in Seq(CacheKeys) /\ Len(c.order) = 0
    BY DEF Empty
  <2> HIDE DEF c
  <2>3. MembersOf(c.order) = {} /\ NoneTwice(c.order)
    BY <2>2 DEF MembersOf, NoneTwice
  <2>4. IsFiniteSet({}) /\ Cardinality({}) <= MaxEntries
    BY FS_EmptySet, CacheNumbers
  <2> QED BY <2>1, <2>2, <2>3, <2>4 DEF Sane, Since
<1> QED BY <1>1, <1>2

\* A step that leaves a sane store, of the generation it was made under.
LEMMA Written ==
    ASSUME CacheInv, NEW s, Write(s), Sane(s), Since(s, generation),
           UNCHANGED <<snapshot, generation, now>>
    PROVE  ClockInv' /\ Sane(Store)' /\ Since(Store, seen)'
<1>1. /\ entries' = s.entries /\ order' = s.order /\ seen' = generation
      /\ snapshot' = snapshot /\ generation' = generation /\ now' = now
  BY DEF Write
<1>2. generation \in 0 .. generation
  BY CacheNumbers DEF CacheInv, ClockInv
<1>3. ClockInv'
  BY <1>1, <1>2 DEF CacheInv, ClockInv
<1>4. Store'.entries = s.entries /\ Store'.order = s.order
  BY <1>1 DEF Store
<1>5. Sane(Store)'
  BY <1>4 DEF Sane, MembersOf, NoneTwice, Slot, Store
<1>6. Since(Store, seen)'
  BY <1>1, <1>4 DEF Since, Store
<1> QED BY <1>3, <1>5, <1>6

\* The other evaluations are where they were.
LEMMA AskersFollow ==
    ASSUME CacheInv, NEW a \in Askers, NEW ask, asker' = [asker EXCEPT ![a] = ask],
           UNCHANGED generation, ClockInv', Sane(Store)', Since(Store, seen)',
           ask \in Asks, ask.gen <= generation,
           ask.at \in {"answered", "hit"} => ask.of >= ask.gen,
           ask.at \in {"asking", "answered"} => ask.key \in CacheKeys
    PROVE  CacheInv'
<1>1. DOMAIN asker = Askers
  BY DEF CacheInv
<1>2. \A b \in Askers : asker'[b] = IF b = a THEN ask ELSE asker[b]
  BY <1>1
<1>3. \A b \in Askers : AskInv(b)'
  BY <1>2 DEF CacheInv, AskInv, Asks
<1>4. DOMAIN asker' = Askers /\ asker' = [b \in Askers |-> asker'[b]]
  BY <1>1
<1> QED BY <1>3, <1>4 DEF CacheInv

LEMMA ZeroIs == 0 \in 0 .. MaxReloads /\ IdleAsk \in Asks /\ IdleAsk.at = "idle" /\ IdleAsk.gen = 0
<1>1. 0 \in 0 .. MaxReloads
  BY CacheNumbers
<1> QED BY <1>1 DEF IdleAsk, Asks, AskSteps

LEMMA LookUpKeeps ==
    ASSUME CacheInv, NEW a \in Askers, LookUp(a) PROVE CacheInv'
<1>1. PICK k \in CacheKeys :
          IF k \in Live(Cleared)
          THEN /\ asker' = [asker EXCEPT ![a] =
                      [at |-> "hit", key |-> "none", gen |-> generation,
                       of |-> Cleared.entries[k].of]]
               /\ Write(Cleared)
          ELSE /\ asker' = [asker EXCEPT ![a] =
                      [IdleAsk EXCEPT !.at = "asking", !.key = k, !.gen = generation]]
               /\ Write(Keep(Cleared, CacheKeys \ {k}))
  BY DEF LookUp
<1>2. UNCHANGED <<snapshot, generation, now>>
  BY DEF LookUp
<1>3. Sane(Cleared) /\ Since(Cleared, generation)
  BY ClearedIs
<1>4. generation \in 0 .. MaxReloads /\ generation \in Nat /\ generation <= generation
  BY CacheNumbers DEF CacheInv, ClockInv
<1>5. CASE k \in Live(Cleared)
  <2> DEFINE of == Cleared.entries[k].of
             ask == [at |-> "hit", key |-> "none", gen |-> generation, of |-> of]
  <2>1. of \in 0 .. MaxReloads /\ of >= generation
    BY <1>3, <1>5 DEF Live, Sane, Since, Slot
  <2>2. asker' = [asker EXCEPT ![a] = ask] /\ Write(Cleared)
    BY <1>1, <1>5
  <2>3. ClockInv' /\ Sane(Store)' /\ Since(Store, seen)'
    BY <1>2, <1>3, <2>2, Written
  <2> HIDE DEF of
  <2>4. ask \in Asks /\ ask.gen = generation /\ ask.of = of /\ ask.at = "hit"
    BY <1>4, <2>1 DEF Asks, AskSteps
  <2> HIDE DEF ask
  <2> QED BY <1>2, <1>4, <2>1, <2>2, <2>3, <2>4, AskersFollow
<1>6. CASE k \notin Live(Cleared)
  <2> DEFINE rest == Keep(Cleared, CacheKeys \ {k})
             ask == [IdleAsk EXCEPT !.at = "asking", !.key = k, !.gen = generation]
  <2>1. Sane(rest) /\ Since(rest, generation)
    BY <1>3, KeepIs DEF PartOf, Since
  <2>2. asker' = [asker EXCEPT ![a] = ask] /\ Write(rest)
    BY <1>1, <1>6
  <2>3. ClockInv' /\ Sane(Store)' /\ Since(Store, seen)'
    <3> HIDE DEF rest
    <3> QED BY <1>2, <2>1, <2>2, Written
  <2>4. ask \in Asks /\ ask.gen = generation /\ ask.at = "asking" /\ ask.key = k
    BY <1>4, ZeroIs DEF Asks, AskSteps, IdleAsk
  <2> HIDE DEF ask
  <2> QED BY <1>2, <1>4, <2>2, <2>3, <2>4, AskersFollow
<1> QED BY <1>5, <1>6

LEMMA StoreUntouched ==
    ASSUME CacheInv, UNCHANGED <<entries, order, seen>>
    PROVE  Sane(Store)' /\ Since(Store, seen)'
BY DEF CacheInv, Store, Sane, MembersOf, NoneTwice, Slot, Since

LEMMA BackendAnswersKeeps ==
    ASSUME CacheInv, NEW a \in Askers, BackendAnswers(a) PROVE CacheInv'
<1>1. asker[a].at = "asking" /\ UNCHANGED <<snapshot, generation, seen, entries, order, now>>
  BY DEF BackendAnswers
<1>2. Sane(Store)' /\ Since(Store, seen)' /\ ClockInv'
  BY <1>1, StoreUntouched DEF CacheInv, ClockInv
<1>3. AskInv(a) /\ DOMAIN asker = Askers /\ ClockInv
  BY DEF CacheInv
<1>4. CASE asker' = [asker EXCEPT ![a].at = "answered", ![a].of = snapshot]
  <2> DEFINE ask == [asker[a] EXCEPT !.at = "answered", !.of = snapshot]
  <2>1. asker' = [asker EXCEPT ![a] = ask]
    BY <1>3, <1>4
  <2>2. ask \in Asks /\ ask.at = "answered" /\ ask.of = snapshot /\ ask.gen = asker[a].gen
        /\ ask.key = asker[a].key
    BY <1>3 DEF AskInv, Asks, AskSteps, ClockInv
  <2>3. snapshot >= asker[a].gen /\ asker[a].gen <= generation /\ asker[a].key \in CacheKeys
    BY <1>1, <1>3, CacheNumbers DEF AskInv, Asks, ClockInv
  <2> HIDE DEF ask
  <2> QED BY <1>1, <1>2, <2>1, <2>2, <2>3, AskersFollow
<1>5. CASE asker' = [asker EXCEPT ![a] = IdleAsk]
  <2>1. 0 <= generation
    BY <1>3, CacheNumbers DEF ClockInv
  <2> QED BY <1>1, <1>2, <1>5, <2>1, ZeroIs, AskersFollow
<1> QED BY <1>4, <1>5 DEF BackendAnswers

LEMMA StoreDecisionKeeps ==
    ASSUME CacheInv, NEW a \in Askers, StoreDecision(a) PROVE CacheInv'
<1>1. /\ asker[a].at = "answered" /\ UNCHANGED <<snapshot, generation, now>>
      /\ asker' = [asker EXCEPT ![a] = IdleAsk]
  BY DEF StoreDecision
<1>2. AskInv(a) /\ ClockInv /\ Sane(Cleared) /\ Since(Cleared, generation)
  BY ClearedIs DEF CacheInv
<1>3. ClockInv' /\ Sane(Store)' /\ Since(Store, seen)'
  <2>1. CASE StillCurrent(a)
    <3> DEFINE k == asker[a].key
               slot == [of |-> asker[a].of, expires |-> now + Ttl]
               s == Insert(Cleared, k, slot)
    <3>1. Write(s)
      BY <2>1 DEF StoreDecision
    <3>2. k \in CacheKeys /\ slot \in Slot /\ slot.of >= generation
      BY <1>1, <1>2, <2>1, CacheNumbers DEF AskInv, Asks, StillCurrent, Slot, ClockInv
    <3>3. /\ Sane(s)
          /\ \A j \in DOMAIN s.entries : \/ s.entries[j] = slot
                                         \/ j \in DOMAIN Cleared.entries
                                            /\ s.entries[j] = Cleared.entries[j]
      <4> HIDE DEF k, slot
      <4> QED BY <1>2, <3>2, InsertIs
    <3> HIDE DEF s, slot, k
    <3>4. Since(s, generation)
      BY <1>2, <3>2, <3>3 DEF Since
    <3> QED BY <1>1, <3>1, <3>3, <3>4, Written
  <2>2. CASE ~StillCurrent(a)
    <3>1. Write(Cleared)
      BY <2>2 DEF StoreDecision
    <3> QED BY <1>1, <1>2, <3>1, Written
  <2> QED BY <2>1, <2>2
<1>4. 0 <= generation
  BY <1>2, CacheNumbers DEF ClockInv
<1> QED BY <1>1, <1>3, <1>4, ZeroIs, AskersFollow

\* The engine's steps, and the clock's.
LEMMA EngineSteps ==
    ASSUME CacheInv, Publish \/ Bump \/ CacheTick \/ UNCHANGED cacheVars PROVE CacheInv'
<1>1. UNCHANGED <<seen, entries, order, asker>>
  BY DEF Publish, Bump, CacheTick, cacheVars
<1>2. ClockInv
  BY DEF CacheInv
<1>3. ClockInv' /\ generation' >= generation
  BY <1>1, <1>2, CacheNumbers DEF ClockInv, Publish, Bump, CacheTick, cacheVars
<1>4. Sane(Store)' /\ Since(Store, seen)'
  BY <1>1, StoreUntouched
<1>5. ASSUME NEW a \in Askers PROVE AskInv(a)'
  <2>1. AskInv(a) /\ asker[a].gen \in Nat /\ generation \in Nat /\ generation' \in Nat
    BY <1>2, <1>3, CacheNumbers DEF CacheInv, AskInv, Asks, ClockInv
  <2> QED BY <1>1, <1>3, <2>1 DEF AskInv, Asks
<1> QED BY <1>1, <1>3, <1>4, <1>5 DEF CacheInv

LEMMA CacheStart == CacheInit => CacheInv
<1> SUFFICES ASSUME CacheInit PROVE CacheInv
  OBVIOUS
<1>1. ClockInv
  BY CacheNumbers DEF CacheInit, ClockInv
<1>2. Store.order = <<>> /\ DOMAIN Store.entries = {} /\ Store.order \in Seq(CacheKeys)
      /\ Len(Store.order) = 0
  BY DEF CacheInit, Store, Empty
<1>3. MembersOf(Store.order) = {} /\ NoneTwice(Store.order)
  BY <1>2 DEF MembersOf, NoneTwice
<1>4. IsFiniteSet({}) /\ Cardinality({}) <= MaxEntries
  BY FS_EmptySet, CacheNumbers
<1>5. Sane(Store) /\ Since(Store, seen)
  BY <1>2, <1>3, <1>4 DEF Sane, Since
<1>6. asker = [a \in Askers |-> IdleAsk] /\ 0 <= generation
  BY <1>1, CacheNumbers DEF CacheInit, ClockInv
<1>7. \A a \in Askers : AskInv(a)
  BY <1>6, ZeroIs DEF AskInv
<1> QED BY <1>1, <1>5, <1>6, <1>7 DEF CacheInv

LEMMA CacheStep == CacheInv /\ [CacheNext]_cacheVars => CacheInv'
BY LookUpKeeps, BackendAnswersKeeps, StoreDecisionKeeps, EngineSteps DEF CacheNext

LEMMA CacheInvGives == CacheInv => CacheSound /\ CacheTypeOK
<1> SUFFICES ASSUME CacheInv PROVE CacheSound /\ CacheTypeOK
  OBVIOUS
<1>1. Store.entries = entries /\ Store.order = order
  BY DEF Store
<1>2. OrderAgrees
  BY <1>1 DEF CacheInv, Sane, NoneTwice, MembersOf, OrderAgrees
<1>3. ServedCurrent
  BY DEF CacheInv, AskInv, ServedCurrent
<1>4. asker \in [Askers -> Asks]
  BY DEF CacheInv, AskInv
<1>5. DOMAIN entries \subseteq CacheKeys
  BY <1>1, SaneKeys DEF CacheInv
<1>6. CacheTypeOK
  BY <1>1, <1>4, <1>5 DEF CacheInv, ClockInv, Sane, Asks, CacheTypeOK
<1> QED BY <1>2, <1>3, <1>6 DEF CacheSound

\* The variables of the decision cache keep their types.
THEOREM CacheTypeCorrect == CacheSpec => []CacheTypeOK
BY CacheStart, CacheStep, CacheInvGives, PTL DEF CacheSpec

\* CacheSound, for any number of keys, evaluations and reloads and any capacity
\* and time to live: what the cache serves after a reload's generation was decided
\* under its snapshot or a later one, and map and deque agree within the bound.
THEOREM CacheSoundHolds == CacheSpec => []CacheSound
BY CacheStart, CacheStep, CacheInvGives, PTL DEF CacheSpec


-----------------------------------------------------------------------------
(* The components together (MCComponents): in every behaviour of the run's *)
(* specification each component takes its own steps or none, so that what  *)
(* is proved of it above holds there too.                                  *)

LEMMA ApiKeySpecInComponentsSpec == ComponentsSpec => ApiKeySpec
<1>1. ComponentsInit => ApiKeyInit
  BY DEF ComponentsInit
<1>2. [ComponentsNext]_componentsVars => [ApiKeyNext]_apiKeyVars
  BY DEF ComponentsNext, componentsVars
<1> QED BY <1>1, <1>2, PTL DEF ComponentsSpec, ApiKeySpec

LEMMA QuotaSpecInComponentsSpec == ComponentsSpec => QuotaSpec
<1>1. ComponentsInit => QuotaInit
  BY DEF ComponentsInit
<1>2. [ComponentsNext]_componentsVars => [QuotaNext]_quotaVars
  BY DEF ComponentsNext, componentsVars
<1> QED BY <1>1, <1>2, PTL DEF ComponentsSpec, QuotaSpec

LEMMA RateSpecInComponentsSpec == ComponentsSpec => RateSpec
<1>1. ComponentsInit => RateInit
  BY DEF ComponentsInit, RateAtRest
<1>2. [ComponentsNext]_componentsVars => [RateNext]_rateVars
  BY DEF ComponentsNext, componentsVars
<1> QED BY <1>1, <1>2, PTL DEF ComponentsSpec, RateSpec

LEMMA CacheSpecInComponentsSpec == ComponentsSpec => CacheSpec
<1>1. ComponentsInit => CacheInit
  BY DEF ComponentsInit
<1>2. [ComponentsNext]_componentsVars => [CacheNext]_cacheVars
  BY DEF ComponentsNext, componentsVars
<1> QED BY <1>1, <1>2, PTL DEF ComponentsSpec, CacheSpec

LEMMA AuditSpecInComponentsSpec == ComponentsSpec => AuditSpec
<1>1. ComponentsInit => AuditInit
  BY DEF ComponentsInit
<1>2. [ComponentsNext]_componentsVars => [AuditNext]_auditVars
  BY DEF ComponentsNext, componentsVars
<1> QED BY <1>1, <1>2, PTL DEF ComponentsSpec, AuditSpec

LEMMA SecretSpecInComponentsSpec == ComponentsSpec => SecretSpec
<1>1. ComponentsInit => SecretInit
  BY DEF ComponentsInit
<1>2. [ComponentsNext]_componentsVars => [SecretNext]_secretVars
  BY DEF ComponentsNext, componentsVars
<1> QED BY <1>1, <1>2, PTL DEF ComponentsSpec, SecretSpec

\* Every behaviour of the six components side by side is one of each of them,
\* whatever the others do.
THEOREM ComponentsKeepTheirSpecs ==
    ComponentsSpec => /\ ApiKeySpec /\ QuotaSpec /\ RateSpec /\ CacheSpec
                      /\ AuditSpec /\ SecretSpec
BY ApiKeySpecInComponentsSpec, QuotaSpecInComponentsSpec, RateSpecInComponentsSpec,
   CacheSpecInComponentsSpec, AuditSpecInComponentsSpec, SecretSpecInComponentsSpec

\* The variables of the six components keep their types side by side.
THEOREM ComponentsTypeCorrect == ComponentsSpec => []ComponentsTypeOK
BY ComponentsKeepTheirSpecs, ApiKeysTypeCorrect, QuotaTypeCorrect, RateTypeCorrect,
   CacheTypeCorrect, AuditTypeCorrect, SecretTypeCorrect, PTL DEF ComponentsTypeOK
=============================================================================
