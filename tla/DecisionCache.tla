---------------------------- MODULE DecisionCache ----------------------------
(***************************************************************************)
(* The cache in front of a policy decision point (decision_cache/          *)
(* wrapper.rs, store.rs), and the engine's configuration generation it     *)
(* watches (engine.rs mutate_runtime): a reload publishes its snapshot and *)
(* then raises the generation.  Requests look up, ask the backend on a     *)
(* miss, and insert the answer if no reload was seen meanwhile; lookup and *)
(* insert each hold the store's lock, the backend's answer is awaited      *)
(* without it.                                                             *)
(***************************************************************************)
EXTENDS Positions

CONSTANTS Askers,      \* bound: overlapping evaluations
          CacheKeys,   \* digests of (call, bag, structured input)
          MaxEntries, Ttl,
          MaxReloads, MaxTime   \* bounds

ASSUME DecisionCacheAssumption ==
    /\ MaxEntries \in Nat \ {0} /\ Ttl \in Nat \ {0}
    /\ MaxReloads \in Nat /\ MaxTime \in Nat

VARIABLES
    snapshot,    \* the configuration published, which evaluations read
    generation,  \* PolicyEngine.generation
    seen,        \* CachedPdpResolver.generation
    entries,     \* key -> the slot: the decision's snapshot, and its expiry
    order,       \* insertion order, oldest first
    now,         \* the clock
    asker        \* asker[a]: its step, key, generation, and its decision

cacheVars == <<snapshot, generation, seen, entries, order, now, asker>>

AskSteps == {"idle", "asking", "answered", "hit"}
Slot == [of : 0 .. MaxReloads, expires : Nat]
IdleAsk == [at |-> "idle", key |-> "none", gen |-> 0, of |-> 0]

CacheTypeOK ==
    /\ snapshot \in 0 .. MaxReloads /\ generation \in 0 .. MaxReloads
    /\ seen \in 0 .. generation
    /\ DOMAIN entries \subseteq CacheKeys
    /\ \A k \in DOMAIN entries : entries[k] \in Slot
    /\ order \in Seq(CacheKeys)
    /\ now \in 0 .. MaxTime
    /\ asker \in [Askers -> [at : AskSteps, key : CacheKeys \cup {"none"},
                             gen : 0 .. MaxReloads, of : 0 .. MaxReloads]]

Empty == [k \in {} |-> 0]

CacheInit ==
    /\ snapshot = 0 /\ generation = 0 /\ seen = 0
    /\ entries = Empty /\ order = <<>> /\ now = 0
    /\ asker = [a \in Askers |-> IdleAsk]

-----------------------------------------------------------------------------
(* The store: its two fields, as the operations leave them.                *)

Store == [entries |-> entries, order |-> order]
Keep(s, ks) == [entries |-> [k \in DOMAIN s.entries \cap ks |-> s.entries[k]],
                order   |-> Picked(s.order, {i \in DOMAIN s.order : s.order[i] \in ks})]
Live(s) == {k \in DOMAIN s.entries : s.entries[k].expires > now}

\* drop_expired_from_front: up to the oldest key that is live.
DropExpiredFromFront(s) ==
    LET old == {n \in 1 .. Len(s.order) : \A i \in 1 .. n : s.order[i] \notin Live(s)} IN
    Keep(s, CacheKeys \ {s.order[n] : n \in old})

DropAllExpired(s) == Keep(s, Live(s))

HasRoom(s) == Cardinality(DOMAIN s.entries) < MaxEntries

\* A full store loses the expired slots, then the oldest one.
Trim(s) ==
    LET t == IF HasRoom(s) THEN s ELSE DropAllExpired(s) IN
    IF HasRoom(t) THEN t ELSE Keep(t, CacheKeys \ {Head(t.order)})

With(s, k, slot) ==
    [s EXCEPT !.entries = [j \in DOMAIN s.entries \cup {k} |->
                              IF j = k THEN slot ELSE s.entries[j]]]

\* Store::insert: an occupied slot is replaced and keeps its place.
Insert(s, k, slot) ==
    LET front == DropExpiredFromFront(s) IN
    IF k \in DOMAIN front.entries THEN With(front, k, slot)
    ELSE LET t == With(Trim(front), k, slot) IN [t EXCEPT !.order = Append(@, k)]

\* maybe_clear_for_generation, at the generation read under the lock.
Cleared == IF seen = generation THEN Store ELSE [entries |-> Empty, order |-> <<>>]

Write(s) == entries' = s.entries /\ order' = s.order /\ seen' = generation

-----------------------------------------------------------------------------
(* The engine.                                                             *)

\* mutate_runtime stores the snapshot, under the writers' lock ...
Publish ==
    /\ snapshot = generation /\ snapshot < MaxReloads
    /\ snapshot' = snapshot + 1
    /\ UNCHANGED <<generation, seen, entries, order, now, asker>>

\* ... and only then raises the generation.
Bump ==
    /\ snapshot # generation
    /\ generation' = generation + 1
    /\ UNCHANGED <<snapshot, seen, entries, order, now, asker>>

CacheTick ==
    /\ now < MaxTime
    /\ now' = now + 1
    /\ UNCHANGED <<snapshot, generation, seen, entries, order, asker>>

-----------------------------------------------------------------------------
(* evaluate_structured.                                                    *)

\* The lookup: a hit ends the evaluation; an expired slot is removed.
LookUp(a) ==
    /\ asker[a].at \in {"idle", "hit"}
    /\ \E k \in CacheKeys :
          IF k \in Live(Cleared)
          THEN /\ asker' = [asker EXCEPT ![a] =
                      [at |-> "hit", key |-> "none", gen |-> generation,
                       of |-> Cleared.entries[k].of]]
               /\ Write(Cleared)
          ELSE /\ asker' = [asker EXCEPT ![a] =
                      [IdleAsk EXCEPT !.at = "asking", !.key = k, !.gen = generation]]
               /\ Write(Keep(Cleared, CacheKeys \ {k}))
    /\ UNCHANGED <<snapshot, generation, now>>

\* The backend answers from the configuration it finds, or fails.
BackendAnswers(a) ==
    /\ asker[a].at = "asking"
    /\ \/ asker' = [asker EXCEPT ![a].at = "answered", ![a].of = snapshot]
       \/ asker' = [asker EXCEPT ![a] = IdleAsk]
    /\ UNCHANGED <<snapshot, generation, seen, entries, order, now>>

\* Mutant: whatever generation the answer was asked under, it is stored.
StillCurrentAlways(a) == TRUE

\* No reload was seen since the miss.
StillCurrent(a) == asker[a].gen = generation

\* insert_if_generation, in one lock section; the caller gets its own answer.
StoreDecision(a) ==
    /\ asker[a].at = "answered"
    /\ IF StillCurrent(a)
       THEN Write(Insert(Cleared, asker[a].key,
                         [of |-> asker[a].of, expires |-> now + Ttl]))
       ELSE Write(Cleared)
    /\ asker' = [asker EXCEPT ![a] = IdleAsk]
    /\ UNCHANGED <<snapshot, generation, now>>

CacheNext ==
    \/ Publish \/ Bump \/ CacheTick
    \/ \E a \in Askers : LookUp(a) \/ BackendAnswers(a) \/ StoreDecision(a)

CacheSpec == CacheInit /\ [][CacheNext]_cacheVars

-----------------------------------------------------------------------------
(* Properties.                                                             *)

\* A reload ends what was decided before it: a decision served from the cache
\* was made under the configuration of the generation the lookup read, or a
\* later one, though evaluations straddle reloads and a reload's snapshot and
\* generation change one after the other.
ServedCurrent ==
    \A a \in Askers : asker[a].at = "hit" => asker[a].of >= asker[a].gen

\* The deque and the map never disagree, through replacements, expiries and
\* clears, so the bound holds and the oldest key can always be found.
OrderAgrees ==
    /\ \A i, j \in 1 .. Len(order) : order[i] = order[j] => i = j
    /\ {order[i] : i \in 1 .. Len(order)} = DOMAIN entries
    /\ Cardinality(DOMAIN entries) <= MaxEntries

\* The cache serves only what is current, within its bound.
CacheSound == ServedCurrent /\ OrderAgrees
=============================================================================
