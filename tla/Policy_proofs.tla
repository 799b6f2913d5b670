--------------------------- MODULE Policy_proofs ---------------------------
(***************************************************************************)
(* Proofs about a document and what it decides: the life of the engine     *)
(* that loads it (Engine: EngineConsistent), its sections (SectionLayers:  *)
(* ContractAsDeclared), and the conditions and effects of its routes       *)
(* (Evaluator: ConditionsSound, WalkSound).                                *)
(*                                                                         *)
(* The first has four strands.  While an initialize() is in flight no      *)
(* load is published, so what it read of the document stays true.  Two     *)
(* calls in flight make neither of them the one that answers for the       *)
(* plugins.  A snapshot that resolves differently is followed by a         *)
(* clearing of the cache.  And one writer annotates only what it           *)
(* published itself.                                                       *)
(*                                                                         *)
(* The last two are inductions over trees, level by level: a recursive     *)
(* function of the nodes satisfies its equation (LevelRuns), and what      *)
(* holds of a node when it holds of those within it holds of every node    *)
(* (LevelInduction).                                                       *)
(***************************************************************************)
EXTENDS Engine, SectionLayers, Evaluator, Loops_proofs

WriterRecords == [pc : {"idle", "built", "clear", "walk"}, doc : Docs \cup {None},
                  todo : SUBSET Routes]
InitRecords == [pc : {"idle", "secrets", "reading", "key", "attach",
                      "plugins", "rollback", "leaving"},
                doc : Docs \cup {None}, all : SUBSET Plugins,
                todo : SUBSET Plugins, done : SUBSET Plugins, alone : BOOLEAN]
ReqRecords == [pc : {"idle", "looking", "resolved", "dispatched"},
               doc : Docs \cup {None}, key : Keys,
               entries : SUBSET Plugins, handler : Docs \cup {None}]

\* The engine's own state, and that of its writers.
EngineShape ==
    /\ snap \in Snapshots
    /\ initialized \in BOOLEAN
    /\ secrets \in Declared
    /\ live \subseteq Plugins /\ covered \subseteq Plugins
    /\ shut \in {"no", "stopping", "done"} /\ stopping \subseteq Plugins
WriterShape ==
    /\ writer \in [Writers -> WriterRecords]
    /\ \A w \in Writers : writer[w].pc = "built" => writer[w].doc # None

\* The gate counts the calls in flight.
Active == {i \in Initializers : init[i].pc # "idle"}
InitShape == init \in [Initializers -> InitRecords] /\ inflight = Cardinality(Active)

ReqShape == req \in [Requests -> ReqRecords]

CachePart ==
    /\ cache \in [Keys -> (SUBSET Plugins) \cup {None}] /\ late \subseteq Keys
    /\ Cardinality(Cached) <= CacheMax
    /\ ClearedOnReload

\* What a call in flight read of the document is still so: its secrets once
\* they are resolved, its content key once it is attached.
StillRead(i) ==
    /\ init[i].pc = "reading" => init[i].doc = snap.doc /\ snap.doc # None
    /\ init[i].pc = "attach" => init[i].doc = snap.doc
    /\ init[i].pc \in {"key", "attach", "plugins", "rollback", "leaving"} =>
          (snap.doc # None => DocSecrets[snap.doc] = secrets)
    /\ init[i].pc \in {"plugins", "rollback", "leaving"} =>
          (snap.doc # None => snap.key = DocSecrets[snap.doc])

DocPart ==
    /\ \A i \in Initializers : StillRead(i)
    /\ snap.doc # None => snap.key \in {None, DocSecrets[snap.doc]}
    /\ SecretsPaired /\ KeyPaired

\* A call that has not read the registry has started nothing; one that is alone
\* is the only one in flight, and what it has still to
\* start or has started and left running is all it found.
Accounts(i) ==
    /\ init[i].pc \in {"secrets", "reading", "key", "attach"} => init[i].done = {}
    /\ init[i].pc # "idle" /\ init[i].alone =>
          \A j \in Initializers \ {i} : init[j].pc = "idle"
    /\ shut = "no" /\ init[i].pc = "plugins" /\ init[i].alone =>
          init[i].all \subseteq init[i].todo \cup init[i].done /\ init[i].done \subseteq live

StartPart ==
    /\ \A i \in Initializers : Accounts(i)
    /\ shut = "no" => stopping = {}
    /\ shut = "no" /\ covered # {} =>
          initialized /\ \A i \in Initializers : init[i].pc \in {"idle", "leaving"}
    /\ NotHalfStarted

EngineInv ==
    EngineShape /\ WriterShape /\ InitShape /\ ReqShape /\ CachePart /\ DocPart /\ StartPart

\* One writer: what it published is what is current while it annotates.
OwnNotes == \A r \in Routes : snap.notes[r] \in {None, snap.doc}
OwnWriter(w) ==
    /\ writer[w].pc = "idle" => writer[w].doc = None
    /\ writer[w].pc = "clear" => writer[w].doc \in {None, snap.doc}
    /\ writer[w].pc = "walk" => writer[w].doc = snap.doc
OwnPart == OwnNotes /\ (\A w \in Writers : OwnWriter(w)) /\ OwnPolicy

-----------------------------------------------------------------------------
(* The parts that a kind of step leaves alone.                             *)

\* The parts about initialize() do not see the writers' variables.
LEMMA InitsUntouched ==
    ASSUME InitShape, StartPart,
           UNCHANGED <<initialized, inflight, live, covered, shut, stopping, init>>
    PROVE  InitShape' /\ StartPart'
BY DEF InitShape, Active, StartPart, Accounts, NotHalfStarted

LEMMA DocUntouched ==
    ASSUME DocPart, UNCHANGED <<initialized, secrets, init>>,
           snap'.doc = snap.doc, snap'.key = snap.key
    PROVE  DocPart'
BY DEF DocPart, StillRead, SecretsPaired, KeyPaired

\* Resolution reads a snapshot's document and plugins, not its annotations.
LEMMA ResolveReads ==
    ASSUME snap'.doc = snap.doc, snap'.plugins = snap.plugins, NEW hook
    PROVE  Resolve(snap, hook)' = Resolve(snap, hook)
BY DEF Resolve

LEMMA CacheUntouched ==
    ASSUME CachePart, UNCHANGED <<cache, late>>,
           \A w \in Writers : writer[w].pc = "clear" => writer'[w].pc = "clear",
           snap'.doc = snap.doc, snap'.plugins = snap.plugins
    PROVE  CachePart'
<1>1. \A k : Resolve(snap, k[2])' = Resolve(snap, k[2])
  BY ResolveReads
<1>2. Cached' = Cached
  BY DEF Cached
<1>3. ClearedOnReload'
  BY <1>1, <1>2 DEF CachePart, ClearedOnReload
<1> QED BY <1>2, <1>3 DEF CachePart

\* A writer that has still to clear the cache owes nothing yet.
LEMMA CacheOwed ==
    ASSUME CachePart, UNCHANGED <<cache, late>>, NEW w \in Writers, writer'[w].pc = "clear"
    PROVE  CachePart'
<1>1. Cached' = Cached
  BY DEF Cached
<1>2. ClearedOnReload'
  BY DEF ClearedOnReload
<1> QED BY <1>1, <1>2 DEF CachePart

LEMMA EngineConstants ==
    /\ None \notin Docs /\ None \notin Secrets /\ Loose \subseteq Plugins
    /\ \A d \in Docs : /\ DocPlugins[d] \subseteq Plugins /\ DocAuth[d] \subseteq Plugins
                       /\ DocPolicy[d] \subseteq Routes /\ DocSecrets[d] \in Declared
    /\ CacheMax \in Nat /\ IsFiniteSet(Initializers) /\ IsFiniteSet(Routes) /\ Routes # {}
BY EngineAssumption

LEMMA KeysFinite == IsFiniteSet(Keys) /\ Keys # {}
<1>1. IsFiniteSet(Hooks) /\ Hooks # {}
  <2>1. Hooks = {"identity"} \cup {"policy"}
    BY DEF Hooks
  <2> QED BY <2>1, FS_Singleton, FS_AddElement
<1>2. IsFiniteSet(Routes \X Hooks)
  BY <1>1, EngineConstants, FS_Product
<1>3. Routes \X Hooks # {}
  <2>1. PICK r \in Routes : TRUE
    BY EngineConstants
  <2>2. <<r, "policy">> \in Routes \X Hooks
    BY DEF Hooks
  <2> QED BY <2>2
<1> QED BY <1>2, <1>3 DEF Keys

\* Fields of the records that steps change.
LEMMA WriterIs == ASSUME EngineInv, NEW w \in Writers
    PROVE  writer[w] \in WriterRecords /\ writer \in [Writers -> WriterRecords]
           /\ IdleWriter \in WriterRecords
BY DEF EngineInv, WriterShape, IdleWriter, WriterRecords

-----------------------------------------------------------------------------
(* Loads, registrations and unregistrations.                               *)

\* A writer's step that leaves the snapshot's document, plugins and key alone
\* and clears nothing.
LEMMA WriterMoves ==
    ASSUME EngineInv, NEW w \in Writers, NEW rec \in WriterRecords,
           writer' = [writer EXCEPT ![w] = rec], writer[w].pc # "clear",
           rec.pc = "built" => rec.doc # None,
           snap' \in Snapshots, snap'.doc = snap.doc, snap'.key = snap.key,
           snap'.plugins = snap.plugins,
           UNCHANGED <<cache, late, initialized, inflight, secrets, live, covered, shut, stopping,
                       init, req>>
    PROVE  EngineInv'
<1>1. \A v \in Writers : writer'[v] = IF v = w THEN rec ELSE writer[v]
  BY DEF EngineInv, WriterShape
<1>2. WriterShape'
  BY <1>1 DEF EngineInv, WriterShape
<1>3. EngineShape' /\ ReqShape'
  BY DEF EngineInv, EngineShape, ReqShape
<1>4. InitShape' /\ StartPart'
  BY InitsUntouched DEF EngineInv
<1>5. DocPart'
  BY DocUntouched DEF EngineInv
<1>6. \A v \in Writers : writer[v].pc = "clear" => writer'[v].pc = "clear"
  BY <1>1
<1>7. CachePart'
  BY <1>6, CacheUntouched DEF EngineInv
<1> QED BY <1>2, <1>3, <1>4, <1>5, <1>7 DEF EngineInv

LEMMA LoadBuildKeeps == ASSUME EngineInv, NEW w \in Writers, NEW d \in Docs, LoadBuild(w, d)
    PROVE EngineInv'
<1> DEFINE rec == [pc |-> "built", doc |-> d, todo |-> {}]
<1>1. rec \in WriterRecords /\ rec.pc = "built" /\ rec.doc # None
  BY EngineConstants DEF WriterRecords
<1>2. /\ writer' = [writer EXCEPT ![w] = rec] /\ writer[w].pc = "idle" /\ snap' = snap
      /\ UNCHANGED <<cache, late, initialized, inflight, secrets, live, covered, shut, stopping,
                     init, req>>
  BY DEF LoadBuild, config
<1>3. snap \in Snapshots
  BY DEF EngineInv, EngineShape
<1> HIDE DEF rec
<1> QED BY <1>1, <1>2, <1>3, WriterMoves

LEMMA LoadLeaves == ASSUME EngineInv, NEW w \in Writers, LoadRefused(w) \/ LoadReturns(w)
    PROVE EngineInv'
<1>1. IdleWriter \in WriterRecords /\ IdleWriter.pc = "idle"
  BY DEF IdleWriter, WriterRecords
<1>2. /\ writer' = [writer EXCEPT ![w] = IdleWriter] /\ writer[w].pc \in {"built", "walk"} /\ snap' = snap
      /\ UNCHANGED <<cache, late, initialized, inflight, secrets, live, covered, shut, stopping,
                     init, req>>
  BY DEF LoadRefused, LoadReturns, config
<1>3. snap \in Snapshots
  BY DEF EngineInv, EngineShape
<1> QED BY <1>1, <1>2, <1>3, WriterMoves

LEMMA LoadAnnotateKeeps ==
    ASSUME EngineInv, NEW w \in Writers, NEW r \in Routes, LoadAnnotate(w, r)
    PROVE  EngineInv'
<1>0. writer[w] \in WriterRecords /\ writer \in [Writers -> WriterRecords] /\ snap \in Snapshots
  BY DEF EngineInv, EngineShape, WriterShape
<1> DEFINE rec == [writer[w] EXCEPT !.todo = @ \ {r}]
<1>1. rec \in WriterRecords /\ rec.pc = writer[w].pc
  BY <1>0 DEF WriterRecords
<1>2. /\ writer' = [writer EXCEPT ![w] = rec] /\ writer[w].pc = "walk"
      /\ snap' = [snap EXCEPT !.notes[r] = writer[w].doc]
      /\ UNCHANGED <<cache, late, initialized, inflight, secrets, live, covered, shut, stopping,
                     init, req>>
  BY <1>0 DEF LoadAnnotate
<1>3. /\ snap' \in Snapshots /\ snap'.doc = snap.doc /\ snap'.key = snap.key
      /\ snap'.plugins = snap.plugins
  BY <1>0, <1>2 DEF Snapshots, WriterRecords
<1> HIDE DEF rec
<1> QED BY <1>1, <1>2, <1>3, WriterMoves

\* A step that publishes a snapshot and leaves the cache to be cleared.
LEMMA WriterPublishes ==
    ASSUME EngineInv, NEW w \in Writers, NEW rec \in WriterRecords,
           writer' = [writer EXCEPT ![w] = rec], rec.pc = "clear", snap' \in Snapshots, DocPart',
           UNCHANGED <<cache, late, initialized, inflight, secrets, live, covered, shut, stopping,
                       init, req>>
    PROVE  EngineInv'
<1>1. \A v \in Writers : writer'[v] = IF v = w THEN rec ELSE writer[v]
  BY DEF EngineInv, WriterShape
<1>2. WriterShape'
  BY <1>1 DEF EngineInv, WriterShape
<1>3. EngineShape' /\ ReqShape'
  BY DEF EngineInv, EngineShape, ReqShape
<1>4. InitShape' /\ StartPart'
  BY InitsUntouched DEF EngineInv
<1>5. CachePart'
  BY <1>1, CacheOwed DEF EngineInv
<1> QED BY <1>2, <1>3, <1>4, <1>5 DEF EngineInv

\* No call is in flight when the gate counts none.
LEMMA NoneInFlight == ASSUME InitShape, inflight = 0 PROVE \A i \in Initializers : init[i].pc = "idle"
<1>1. IsFiniteSet(Active)
  <2>1. Active \in SUBSET Initializers
    BY DEF Active
  <2> QED BY <2>1, EngineConstants, FS_Subset
<1>2. Active = {}
  BY <1>1, FS_EmptySet DEF InitShape
<1> QED BY <1>2 DEF Active

LEMMA LoadPublishKeeps == ASSUME EngineInv, NEW w \in Writers, LoadPublish(w) PROVE EngineInv'
<1>0. writer[w] \in WriterRecords /\ writer \in [Writers -> WriterRecords] /\ snap \in Snapshots
  BY DEF EngineInv, EngineShape, WriterShape
<1>1. PICK d \in Docs : d = writer[w].doc
  BY <1>0 DEF LoadPublish, WriterRecords, EngineInv, WriterShape
<1> DEFINE rec == [writer[w] EXCEPT !.pc = "clear"]
<1>2. rec \in WriterRecords /\ rec.pc = "clear"
  BY <1>0 DEF WriterRecords
<1>3. /\ writer' = [writer EXCEPT ![w] = rec] /\ MayLoad(d) /\ snap' = SnapshotFrom(d)
      /\ UNCHANGED <<cache, late, initialized, inflight, secrets, live, covered, shut, stopping,
                     init, req>>
  BY <1>0, <1>1 DEF LoadPublish
<1>4. KeyAtLoad(d) \in Declared
  BY EngineConstants DEF KeyAtLoad, Declared
<1>5. snap' \in Snapshots /\ snap'.doc = d /\ snap'.key = KeyAtLoad(d)
  BY <1>0, <1>3, <1>4, EngineConstants DEF SnapshotFrom, Snapshots, NoNotes
<1>6. \A i \in Initializers : init[i].pc = "idle"
  BY <1>3, NoneInFlight DEF MayLoad, EngineInv
<1>7. DocPart'
  <2>1. \A i \in Initializers : StillRead(i)'
    BY <1>3, <1>6 DEF StillRead
  <2>2. snap'.key \in {None, DocSecrets[snap'.doc]}
    BY <1>5 DEF KeyAtLoad
  <2>3. SecretsPaired'
    BY <1>3, <1>5 DEF MayLoad, SecretsPaired
  <2>4. KeyPaired'
    BY <1>3, <1>5 DEF KeyPaired, KeyAtLoad
  <2> QED BY <2>1, <2>2, <2>3, <2>4 DEF DocPart
<1> HIDE DEF rec
<1> QED BY <1>2, <1>3, <1>5, <1>7, WriterPublishes

LEMMA RegisterKeeps ==
    ASSUME EngineInv, NEW w \in Writers, NEW p \in Loose, Register(w, p) \/ Unregister(w, p)
    PROVE  EngineInv'
<1>0. /\ writer[w] \in WriterRecords /\ writer \in [Writers -> WriterRecords] /\ snap \in Snapshots
      /\ p \in Plugins
  BY EngineConstants DEF EngineInv, EngineShape, WriterShape
<1> DEFINE rec == [writer[w] EXCEPT !.pc = "clear"]
<1>1. rec \in WriterRecords /\ rec.pc = "clear"
  BY <1>0 DEF WriterRecords
<1>2. /\ writer' = [writer EXCEPT ![w] = rec]
      /\ \/ snap' = [snap EXCEPT !.plugins = @ \cup {p}]
         \/ snap' = [snap EXCEPT !.plugins = @ \ {p}]
      /\ UNCHANGED <<cache, late, initialized, inflight, secrets, live, covered, shut, stopping,
                     init, req>>
  BY <1>0 DEF Register, Unregister
<1>3. snap' \in Snapshots /\ snap'.doc = snap.doc /\ snap'.key = snap.key
  BY <1>0, <1>2 DEF Snapshots
<1>4. DocPart'
  BY <1>2, <1>3, DocUntouched DEF EngineInv
<1> HIDE DEF rec
<1> QED BY <1>1, <1>2, <1>3, <1>4, WriterPublishes

LEMMA ClearKeeps == ASSUME EngineInv, NEW w \in Writers, ClearAfter(w) PROVE EngineInv'
<1>0. writer[w] \in WriterRecords /\ writer \in [Writers -> WriterRecords]
  BY DEF EngineInv, WriterShape
<1>1. PICK rec \in WriterRecords : writer' = [writer EXCEPT ![w] = rec] /\ rec.pc # "built"
  <2>1. CASE writer[w].doc = None
    <3>1. IdleWriter \in WriterRecords /\ IdleWriter.pc # "built"
      BY DEF IdleWriter, WriterRecords
    <3> QED BY <2>1, <3>1, <1>0 DEF ClearAfter
  <2>2. CASE writer[w].doc # None
    <3> DEFINE rec == [writer[w] EXCEPT !.pc = "walk", !.todo = DocPolicy[writer[w].doc]]
    <3>1. DocPolicy[writer[w].doc] \subseteq Routes
      BY <1>0, <2>2, EngineConstants DEF WriterRecords
    <3>2. rec \in WriterRecords /\ rec.pc # "built"
      BY <1>0, <3>1 DEF WriterRecords
    <3>3. writer' = [writer EXCEPT ![w] = rec]
      BY <1>0, <2>2 DEF ClearAfter
    <3> QED BY <3>2, <3>3
  <2> QED BY <2>1, <2>2
<1>2. /\ cache' = Empty /\ late' = {}
      /\ UNCHANGED <<snap, initialized, inflight, secrets, live, covered, shut, stopping, init, req>>
  BY DEF ClearAfter, ClearCache
<1>3. WriterShape'
  BY <1>1 DEF EngineInv, WriterShape
<1>4. EngineShape' /\ ReqShape' /\ DocPart'
  BY <1>2, DocUntouched DEF EngineInv, EngineShape, ReqShape
<1>5. InitShape' /\ StartPart'
  BY <1>2, InitsUntouched DEF EngineInv
<1>6. CachePart'
  <2>1. Cached' = {} /\ cache' \in [Keys -> (SUBSET Plugins) \cup {None}]
    BY <1>2 DEF Cached, Empty
  <2>2. Cardinality(Cached)' = 0
    BY <2>1, FS_EmptySet
  <2>3. ClearedOnReload'
    BY <2>1 DEF ClearedOnReload
  <2> QED BY <1>2, <2>1, <2>2, <2>3, EngineConstants DEF CachePart
<1> QED BY <1>3, <1>4, <1>5, <1>6 DEF EngineInv

-----------------------------------------------------------------------------
(* initialize().                                                           *)

\* A step of a call in flight: what it changes of the secrets and of the key is
\* what the current document names.
LEMMA InitMoves ==
    ASSUME EngineInv, NEW i \in Initializers, NEW rec \in InitRecords,
           init' = [init EXCEPT ![i] = rec], init[i].pc # "idle", rec.pc # "idle",
           snap' \in Snapshots, snap'.doc = snap.doc, snap'.plugins = snap.plugins,
           snap'.key = snap.key \/ (snap.doc # None /\ snap'.key = DocSecrets[snap.doc]),
           secrets' \in Declared,
           secrets' = secrets \/ (snap.doc # None /\ secrets' = DocSecrets[snap.doc]),
           initialized' = initialized \/ (initialized' = TRUE /\ init[i].pc = "plugins"),
           live' \subseteq Plugins, covered' \subseteq Plugins,
           UNCHANGED <<cache, late, inflight, shut, stopping, writer, req>>,
           StillRead(i)', StartPart'
    PROVE  EngineInv'
<1>1. \A j \in Initializers : init'[j] = IF j = i THEN rec ELSE init[j]
  BY DEF EngineInv, InitShape
<1>2. InitShape'
  <2>1. Active' = Active
    BY <1>1 DEF Active
  <2>2. init' \in [Initializers -> InitRecords]
    BY DEF EngineInv, InitShape
  <2> QED BY <2>1, <2>2 DEF EngineInv, InitShape
<1>3. EngineShape'
  BY DEF EngineInv, EngineShape
<1>4. WriterShape' /\ ReqShape'
  BY DEF EngineInv, WriterShape, ReqShape
<1>5. CachePart'
  BY CacheUntouched DEF EngineInv
<1>6. DocPart'
  <2>1. ASSUME NEW j \in Initializers, j # i PROVE StillRead(j)'
    <3>1. init'[j] = init[j] /\ StillRead(j)
      BY <1>1, <2>1 DEF EngineInv, DocPart
    <3> QED BY <3>1 DEF StillRead
  <2>2. snap'.doc # None => snap'.key \in {None, DocSecrets[snap'.doc]}
    BY DEF EngineInv, DocPart
  <2>3. SecretsPaired' /\ KeyPaired'
    BY DEF EngineInv, DocPart, SecretsPaired, KeyPaired, StillRead
  <2> QED BY <2>1, <2>2, <2>3 DEF DocPart
<1> QED BY <1>2, <1>3, <1>4, <1>5, <1>6 DEF EngineInv

\* A call that has not left is accounted for while it stops nothing.
LEMMA StartMoves ==
    ASSUME EngineInv, NEW i \in Initializers, NEW rec \in InitRecords,
           init' = [init EXCEPT ![i] = rec], init[i].pc \notin {"idle", "leaving"},
           rec.pc # "idle", rec.alone = init[i].alone,
           rec.pc \in {"secrets", "reading", "key", "attach"} => rec.done = {},
           UNCHANGED <<initialized, covered, shut, stopping>>, live \subseteq live',
           rec.pc = "plugins" /\ rec.alone /\ shut = "no" =>
              rec.all \subseteq rec.todo \cup rec.done /\ rec.done \subseteq live'
    PROVE  StartPart'
<1>1. \A j \in Initializers : init'[j] = IF j = i THEN rec ELSE init[j]
  BY DEF EngineInv, InitShape
<1>2. ASSUME NEW j \in Initializers PROVE Accounts(j)'
  <2>0. Accounts(j) /\ Accounts(i)
    BY DEF EngineInv, StartPart
  <2>1. CASE j = i
    BY <1>1, <2>0, <2>1 DEF Accounts
  <2>2. CASE j # i
    BY <1>1, <2>0, <2>2 DEF Accounts
  <2> QED BY <2>1, <2>2
<1>3. shut = "no" => covered = {} /\ stopping = {}
  BY DEF EngineInv, StartPart
<1> QED BY <1>2, <1>3 DEF StartPart, NotHalfStarted

LEMMA InitFacts ==
    ASSUME EngineInv, NEW i \in Initializers
    PROVE  /\ init \in [Initializers -> InitRecords] /\ init[i] \in InitRecords
           /\ snap \in Snapshots /\ secrets \in Declared /\ live \subseteq Plugins
           /\ covered \subseteq Plugins /\ StillRead(i) /\ Accounts(i)
BY DEF EngineInv, InitShape, EngineShape, DocPart, StartPart

LEMMA ResolveKeeps == ASSUME EngineInv, NEW i \in Initializers, InitResolve(i) PROVE EngineInv'
<1>0. /\ init \in [Initializers -> InitRecords] /\ init[i] \in InitRecords /\ snap \in Snapshots
      /\ secrets \in Declared /\ live \subseteq Plugins /\ covered \subseteq Plugins
  BY InitFacts
<1>1. /\ init[i].pc = "secrets" /\ snap' = snap
      /\ UNCHANGED <<cache, late, initialized, inflight, secrets, live, covered, shut, stopping,
                     writer, req>>
  BY DEF InitResolve, config
<1>2. PICK step \in {"key", "reading"} :
        /\ init' = [init EXCEPT ![i].doc = snap.doc, ![i].pc = step]
        /\ step = "reading" => snap.doc # None
        /\ step = "key" => (snap.doc # None => DocSecrets[snap.doc] = secrets)
  BY DEF InitResolve
<1> DEFINE rec == [init[i] EXCEPT !.doc = snap.doc, !.pc = step]
<1>3. /\ rec \in InitRecords /\ rec.pc = step /\ rec.doc = snap.doc
      /\ rec.alone = init[i].alone /\ rec.done = init[i].done
  BY <1>0 DEF InitRecords, Snapshots
<1>4. init' = [init EXCEPT ![i] = rec]
  BY <1>0, <1>2
<1> HIDE DEF rec
<1>5. init'[i] = rec
  BY <1>0, <1>4
<1>6. StillRead(i)'
  BY <1>1, <1>2, <1>3, <1>5 DEF StillRead
<1>d. init[i].done = {}
  BY <1>1 DEF EngineInv, StartPart, Accounts
<1>7. StartPart'
  BY <1>1, <1>3, <1>4, <1>d, StartMoves
<1> QED BY <1>0, <1>1, <1>3, <1>4, <1>6, <1>7, InitMoves

LEMMA ReadKeeps == ASSUME EngineInv, NEW i \in Initializers, InitRead(i) PROVE EngineInv'
<1>0. /\ init \in [Initializers -> InitRecords] /\ init[i] \in InitRecords /\ snap \in Snapshots
      /\ secrets \in Declared /\ live \subseteq Plugins /\ covered \subseteq Plugins
      /\ StillRead(i)
  BY InitFacts
<1>1. /\ init[i].pc = "reading" /\ snap' = snap /\ secrets' = DocSecrets[init[i].doc]
      /\ UNCHANGED <<cache, late, initialized, inflight, live, covered, shut, stopping, writer, req>>
  BY DEF InitRead, config
<1>2. init[i].doc = snap.doc /\ snap.doc # None /\ secrets' = DocSecrets[snap.doc]
  BY <1>0, <1>1 DEF StillRead
<1>3. secrets' \in Declared
  BY <1>0, <1>2, EngineConstants DEF Snapshots
<1> DEFINE rec == [init[i] EXCEPT !.pc = "key"]
<1>4. /\ rec \in InitRecords /\ rec.pc = "key"
      /\ rec.alone = init[i].alone /\ rec.done = init[i].done
  BY <1>0 DEF InitRecords
<1>5. init' = [init EXCEPT ![i] = rec]
  BY <1>0 DEF InitRead
<1> HIDE DEF rec
<1>6. init'[i] = rec
  BY <1>0, <1>5
<1>7. StillRead(i)'
  BY <1>1, <1>2, <1>4, <1>6 DEF StillRead
<1>d. init[i].done = {}
  BY <1>1 DEF EngineInv, StartPart, Accounts
<1>8. StartPart'
  BY <1>1, <1>4, <1>5, <1>d, StartMoves
<1> QED BY <1>0, <1>1, <1>2, <1>3, <1>4, <1>5, <1>7, <1>8, InitMoves

LEMMA KeyKeeps == ASSUME EngineInv, NEW i \in Initializers, InitKey(i) PROVE EngineInv'
<1>0. /\ init \in [Initializers -> InitRecords] /\ init[i] \in InitRecords /\ snap \in Snapshots
      /\ secrets \in Declared /\ live \subseteq Plugins /\ covered \subseteq Plugins
      /\ StillRead(i)
  BY InitFacts
<1>1. /\ init[i].pc = "key" /\ snap' = snap
      /\ UNCHANGED <<cache, late, initialized, inflight, secrets, live, covered, shut, stopping,
                     writer, req>>
  BY DEF InitKey, config
<1> DEFINE rec == [init[i] EXCEPT !.doc = snap.doc, !.pc = "attach"]
<1>2. /\ rec \in InitRecords /\ rec.pc = "attach" /\ rec.doc = snap.doc
      /\ rec.alone = init[i].alone /\ rec.done = init[i].done
  BY <1>0 DEF InitRecords, Snapshots
<1>3. init' = [init EXCEPT ![i] = rec]
  BY <1>0 DEF InitKey
<1> HIDE DEF rec
<1>4. init'[i] = rec
  BY <1>0, <1>3
<1>5. StillRead(i)'
  BY <1>0, <1>1, <1>2, <1>4 DEF StillRead
<1>d. init[i].done = {}
  BY <1>1 DEF EngineInv, StartPart, Accounts
<1>6. StartPart'
  BY <1>1, <1>2, <1>3, <1>d, StartMoves
<1> QED BY <1>0, <1>1, <1>2, <1>3, <1>5, <1>6, InitMoves

LEMMA AttachKeeps == ASSUME EngineInv, NEW i \in Initializers, InitAttach(i) PROVE EngineInv'
<1>0. /\ init \in [Initializers -> InitRecords] /\ init[i] \in InitRecords /\ snap \in Snapshots
      /\ secrets \in Declared /\ live \subseteq Plugins /\ covered \subseteq Plugins
      /\ StillRead(i)
  BY InitFacts
<1>1. /\ init[i].pc = "attach" /\ init[i].doc = snap.doc
      /\ snap.doc # None => DocSecrets[snap.doc] = secrets /\ DocSecrets[snap.doc] \in Declared
      /\ UNCHANGED <<cache, late, initialized, inflight, secrets, live, covered, shut, stopping,
                     writer, req>>
  BY <1>0 DEF InitAttach, StillRead
<1>2. /\ snap' \in Snapshots /\ snap'.doc = snap.doc /\ snap'.plugins = snap.plugins
      /\ snap'.key = snap.key \/ (snap.doc # None /\ snap'.key = DocSecrets[snap.doc])
      /\ snap.doc # None => snap'.key = DocSecrets[snap.doc]
  <2>1. snap.doc # None => snap.key \in {None, DocSecrets[snap.doc]}
    BY DEF EngineInv, DocPart
  <2>2. CASE snap.doc # None /\ DocSecrets[snap.doc] # None
    <3>1. snap' = [snap EXCEPT !.key = DocSecrets[snap.doc]]
      BY <1>1, <2>2 DEF InitAttach
    <3> QED BY <1>0, <1>1, <2>2, <3>1 DEF Snapshots
  <2>3. CASE ~(snap.doc # None /\ DocSecrets[snap.doc] # None)
    <3>1. snap' = snap
      BY <1>1, <2>3 DEF InitAttach
    <3> QED BY <1>0, <2>1, <2>3, <3>1
  <2> QED BY <2>2, <2>3
<1> DEFINE rec == [init[i] EXCEPT !.pc = "plugins", !.todo = snap.plugins, !.all = snap.plugins]
<1>3. rec \in InitRecords /\ rec.pc = "plugins" /\ rec.todo = snap.plugins /\ rec.all = snap.plugins
      /\ rec.alone = init[i].alone /\ rec.done = init[i].done
  BY <1>0 DEF InitRecords, Snapshots
<1>4. init' = [init EXCEPT ![i] = rec]
  BY <1>0 DEF InitAttach
<1> HIDE DEF rec
<1>5. init'[i] = rec
  BY <1>0, <1>4
<1>6. StillRead(i)'
  BY <1>1, <1>2, <1>3, <1>5 DEF StillRead
<1>d. init[i].done = {}
  BY <1>1 DEF EngineInv, StartPart, Accounts
<1>7. StartPart'
  BY <1>1, <1>3, <1>4, <1>d, StartMoves
<1> QED BY <1>0, <1>1, <1>2, <1>3, <1>4, <1>6, <1>7, InitMoves

LEMMA PluginKeeps ==
    ASSUME EngineInv, NEW i \in Initializers, NEW p \in Plugins, InitPlugin(i, p)
    PROVE  EngineInv'
<1>0. /\ init \in [Initializers -> InitRecords] /\ init[i] \in InitRecords /\ snap \in Snapshots
      /\ secrets \in Declared /\ live \subseteq Plugins /\ covered \subseteq Plugins
      /\ StillRead(i) /\ Accounts(i)
  BY InitFacts
<1>1. /\ init[i].pc = "plugins" /\ snap' = snap /\ live' = live \cup {p}
      /\ UNCHANGED <<cache, late, initialized, inflight, secrets, covered, shut, stopping,
                     writer, req>>
  BY DEF InitPlugin, config
<1> DEFINE rec == [init[i] EXCEPT !.todo = @ \ {p}, !.done = @ \cup {p}]
<1>2. /\ rec \in InitRecords /\ rec.pc = "plugins" /\ rec.alone = init[i].alone
      /\ rec.all = init[i].all
      /\ rec.todo = init[i].todo \ {p} /\ rec.done = init[i].done \cup {p}
  BY <1>0, <1>1 DEF InitRecords
<1>3. init' = [init EXCEPT ![i] = rec]
  BY <1>0 DEF InitPlugin
<1> HIDE DEF rec
<1>4. init'[i] = rec
  BY <1>0, <1>3
<1>5. StillRead(i)'
  BY <1>0, <1>1, <1>2, <1>4 DEF StillRead
<1>6. rec.alone /\ shut = "no" => rec.all \subseteq rec.todo \cup rec.done /\ rec.done \subseteq live'
  BY <1>0, <1>1, <1>2 DEF Accounts
<1>7. StartPart'
  BY <1>1, <1>2, <1>3, <1>6, StartMoves
<1>8. live' \subseteq Plugins
  BY <1>0, <1>1
<1> QED BY <1>0, <1>1, <1>2, <1>3, <1>5, <1>7, <1>8, InitMoves

LEMMA PluginFailsKeeps ==
    ASSUME EngineInv, NEW i \in Initializers, InitPluginFails(i)
    PROVE  EngineInv'
<1>0. /\ init \in [Initializers -> InitRecords] /\ init[i] \in InitRecords /\ snap \in Snapshots
      /\ secrets \in Declared /\ live \subseteq Plugins /\ covered \subseteq Plugins
      /\ StillRead(i)
  BY InitFacts
<1>1. /\ init[i].pc = "plugins" /\ snap' = snap
      /\ UNCHANGED <<cache, late, initialized, inflight, secrets, live, covered, shut, stopping,
                     writer, req>>
  BY DEF InitPluginFails, config
<1> DEFINE rec == [init[i] EXCEPT !.pc = "rollback"]
<1>2. rec \in InitRecords /\ rec.pc = "rollback" /\ rec.alone = init[i].alone
  BY <1>0 DEF InitRecords
<1>3. init' = [init EXCEPT ![i] = rec]
  BY <1>0 DEF InitPluginFails
<1> HIDE DEF rec
<1>4. init'[i] = rec
  BY <1>0, <1>3
<1>5. StillRead(i)'
  BY <1>0, <1>1, <1>2, <1>4 DEF StillRead
<1>6. StartPart'
  BY <1>1, <1>2, <1>3, StartMoves
<1> QED BY <1>0, <1>1, <1>2, <1>3, <1>5, <1>6, InitMoves

\* A rollback stops plugins, but only while no call has answered for any.
LEMMA RollbackKeeps ==
    ASSUME EngineInv, NEW i \in Initializers, NEW p \in Plugins, InitRollback(i, p)
    PROVE  EngineInv'
<1>0. /\ init \in [Initializers -> InitRecords] /\ init[i] \in InitRecords /\ snap \in Snapshots
      /\ secrets \in Declared /\ live \subseteq Plugins /\ covered \subseteq Plugins
      /\ StillRead(i)
  BY InitFacts
<1>1. /\ init[i].pc = "rollback" /\ snap' = snap /\ live' = live \ {p}
      /\ UNCHANGED <<cache, late, initialized, inflight, secrets, covered, shut, stopping,
                     writer, req>>
  BY DEF InitRollback, config
<1> DEFINE rec == [init[i] EXCEPT !.done = @ \ {p}]
<1>2. rec \in InitRecords /\ rec.pc = "rollback" /\ rec.alone = init[i].alone
  BY <1>0, <1>1 DEF InitRecords
<1>3. init' = [init EXCEPT ![i] = rec]
  BY <1>0 DEF InitRollback
<1> HIDE DEF rec
<1>4. \A j \in Initializers : init'[j] = IF j = i THEN rec ELSE init[j]
  BY <1>0, <1>3
<1>5. StillRead(i)'
  BY <1>0, <1>1, <1>2, <1>4 DEF StillRead
<1>6. ASSUME NEW j \in Initializers PROVE Accounts(j)'
  <2>1. Accounts(j)
    BY DEF EngineInv, StartPart
  <2>2. CASE j = i
    BY <1>1, <1>2, <1>4, <2>1, <2>2 DEF Accounts
  <2>3. CASE j # i
    BY <1>1, <1>2, <1>4, <2>1, <2>3 DEF Accounts
  <2> QED BY <2>2, <2>3
<1>7. shut = "no" => covered = {} /\ stopping = {}
  BY <1>1 DEF EngineInv, StartPart
<1>8. StartPart'
  BY <1>1, <1>6, <1>7 DEF StartPart, NotHalfStarted
<1>9. live' \subseteq Plugins
  BY <1>0, <1>1
<1> QED BY <1>0, <1>1, <1>2, <1>3, <1>5, <1>8, <1>9, InitMoves

LEMMA SucceedsKeeps == ASSUME EngineInv, NEW i \in Initializers, InitSucceeds(i) PROVE EngineInv'
<1>0. /\ init \in [Initializers -> InitRecords] /\ init[i] \in InitRecords /\ snap \in Snapshots
      /\ secrets \in Declared /\ live \subseteq Plugins /\ covered \subseteq Plugins
      /\ StillRead(i) /\ Accounts(i)
  BY InitFacts
<1>1. /\ init[i].pc = "plugins" /\ init[i].todo = {} /\ snap' = snap /\ initialized' = TRUE
      /\ covered' = IF init[i].alone THEN init[i].all ELSE {}
      /\ UNCHANGED <<cache, late, inflight, secrets, live, shut, stopping, writer, req>>
  BY DEF InitSucceeds, config
<1> DEFINE rec == [init[i] EXCEPT !.pc = "leaving"]
<1>2. rec \in InitRecords /\ rec.pc = "leaving" /\ rec.alone = init[i].alone
  BY <1>0 DEF InitRecords
<1>3. init' = [init EXCEPT ![i] = rec]
  BY <1>0 DEF InitSucceeds
<1> HIDE DEF rec
<1>4. \A j \in Initializers : init'[j] = IF j = i THEN rec ELSE init[j]
  BY <1>0, <1>3
<1>5. StillRead(i)'
  BY <1>0, <1>1, <1>2, <1>4 DEF StillRead
<1>6. ASSUME NEW j \in Initializers PROVE Accounts(j)'
  <2>1. Accounts(j)
    BY DEF EngineInv, StartPart
  <2>2. CASE j = i
    BY <1>1, <1>2, <1>4, <2>1, <2>2 DEF Accounts
  <2>3. CASE j # i
    BY <1>1, <1>2, <1>4, <2>1, <2>3 DEF Accounts
  <2> QED BY <2>2, <2>3
<1>7. shut = "no" => covered' \subseteq live
  BY <1>0, <1>1 DEF Accounts
<1>8. covered' # {} => \A j \in Initializers \ {i} : init[j].pc = "idle"
  BY <1>0, <1>1 DEF Accounts
<1>9. shut' = "no" /\ covered' # {} =>
         initialized' /\ \A j \in Initializers : init'[j].pc \in {"idle", "leaving"}
  BY <1>1, <1>2, <1>4, <1>8
<1>10. shut' = "no" => stopping' = {}
  BY <1>1 DEF EngineInv, StartPart
<1>11. StartPart'
  BY <1>1, <1>6, <1>7, <1>9, <1>10 DEF StartPart, NotHalfStarted
<1>12. covered' \subseteq Plugins
  BY <1>0, <1>1 DEF InitRecords
<1> QED BY <1>0, <1>1, <1>2, <1>3, <1>5, <1>11, <1>12, InitMoves

\* Steps of initialize() and of shutdown() that leave the configuration alone.
LEMMA EngineMoves ==
    ASSUME EngineInv, UNCHANGED <<snap, cache, late, secrets, writer, req>>,
           initialized' = initialized \/ initialized' = FALSE,
           live' \subseteq Plugins, covered' = covered,
           shut' \in {"no", "stopping", "done"}, stopping' \subseteq Plugins,
           InitShape', StartPart', \A i \in Initializers : StillRead(i)'
    PROVE  EngineInv'
<1>1. EngineShape'
  BY DEF EngineInv, EngineShape
<1>2. WriterShape' /\ ReqShape'
  BY DEF EngineInv, WriterShape, ReqShape
<1>3. CachePart'
  BY CacheUntouched DEF EngineInv
<1>4. DocPart'
  BY DEF EngineInv, DocPart, SecretsPaired, KeyPaired
<1> QED BY <1>1, <1>2, <1>3, <1>4 DEF EngineInv

LEMMA ActiveFinite == IsFiniteSet(Active) /\ Cardinality(Active) \in 0..Cardinality(Initializers)
<1>1. Active \in SUBSET Initializers
  BY DEF Active
<1>2. /\ IsFiniteSet(Active) /\ Cardinality(Active) <= Cardinality(Initializers)
      /\ Cardinality(Active) \in Nat /\ Cardinality(Initializers) \in Nat
  BY <1>1, EngineConstants, FS_Subset, FS_CardinalityType
<1> QED BY <1>2

LEMMA LeaveKeeps ==
    ASSUME EngineInv, NEW i \in Initializers, init[i].pc # "idle", Leave(i),
           UNCHANGED <<config, initialized, secrets, live, covered, shut, stopping, writer, req>>
    PROVE  EngineInv'
<1>0. init \in [Initializers -> InitRecords] /\ inflight = Cardinality(Active)
  BY DEF EngineInv, InitShape
<1>1. IdleInit \in InitRecords /\ IdleInit.pc = "idle"
  BY DEF IdleInit, InitRecords
<1>2. \A j \in Initializers : init'[j] = IF j = i THEN IdleInit ELSE init[j]
  BY <1>0 DEF Leave
<1>3. InitShape'
  <2>1. Active' = Active \ {i} /\ i \in Active
    BY <1>1, <1>2 DEF Active
  <2>2. Cardinality(Active \ {i}) = Cardinality(Active) - 1
    BY <2>1, ActiveFinite, FS_RemoveElement
  <2>3. init' \in [Initializers -> InitRecords]
    BY <1>0, <1>1 DEF Leave
  <2>4. inflight' = Cardinality(Active) - 1
    BY <1>0 DEF Leave
  <2> QED BY <2>1, <2>2, <2>3, <2>4 DEF InitShape
<1>4. UNCHANGED <<snap, cache, late, initialized, secrets, live, covered, shut, stopping, writer, req>>
  BY DEF config
<1>5. ASSUME NEW j \in Initializers PROVE StillRead(j)' /\ Accounts(j)'
  <2>0. StillRead(j) /\ Accounts(j)
    BY InitFacts
  <2>1. StillRead(j)'
    BY <1>1, <1>2, <1>4, <2>0 DEF StillRead
  <2>2. Accounts(j)'
    <3>1. CASE j = i
      BY <1>1, <1>2, <3>1 DEF Accounts
    <3>2. CASE j # i
      BY <1>1, <1>2, <1>4, <2>0, <3>2 DEF Accounts
    <3> QED BY <3>1, <3>2
  <2> QED BY <2>1, <2>2
<1>6. StartPart'
  <2>1. shut' = "no" /\ covered' # {} =>
           initialized' /\ \A j \in Initializers : init'[j].pc \in {"idle", "leaving"}
    BY <1>1, <1>2, <1>4 DEF EngineInv, StartPart
  <2>2. shut' = "no" => stopping' = {}
    BY <1>4 DEF EngineInv, StartPart
  <2>3. NotHalfStarted'
    BY <1>4 DEF EngineInv, StartPart, NotHalfStarted
  <2> QED BY <1>5, <2>1, <2>2, <2>3 DEF StartPart
<1>7. live' \subseteq Plugins /\ shut' \in {"no", "stopping", "done"} /\ stopping' \subseteq Plugins
  BY <1>4 DEF EngineInv, EngineShape
<1> QED BY <1>3, <1>4, <1>5, <1>6, <1>7, EngineMoves

\* A call that enters denies that every call in flight is alone.
LEMMA EnterKeeps == ASSUME EngineInv, NEW i \in Initializers, InitEnter(i) PROVE EngineInv'
<1>0. init \in [Initializers -> InitRecords] /\ inflight = Cardinality(Active)
  BY DEF EngineInv, InitShape
<1> DEFINE new == [IdleInit EXCEPT !.pc = "secrets", !.alone = inflight = 0]
           old(j) == [init[j] EXCEPT !.alone = init[j].pc = "idle"]
<1>1. new \in InitRecords /\ new.pc = "secrets" /\ new.done = {} /\ new.alone = (inflight = 0)
  BY DEF IdleInit, InitRecords
<1>2. \A j \in Initializers : /\ old(j) \in InitRecords /\ old(j).pc = init[j].pc
                              /\ old(j).doc = init[j].doc /\ old(j).done = init[j].done
                              /\ old(j).alone = (init[j].pc = "idle")
  BY <1>0 DEF InitRecords
<1>3. init' = [j \in Initializers |-> IF j = i THEN new ELSE old(j)]
  BY DEF InitEnter
<1> HIDE DEF new, old
<1>4. init' \in [Initializers -> InitRecords]
  BY <1>1, <1>2, <1>3
<1>5. /\ init'[i].pc = "secrets" /\ init'[i].done = {} /\ init'[i].alone = (inflight = 0)
      /\ \A j \in Initializers \ {i} :
            /\ init'[j].pc = init[j].pc /\ init'[j].doc = init[j].doc
            /\ init'[j].done = init[j].done /\ init'[j].alone = (init[j].pc = "idle")
  BY <1>1, <1>2, <1>3
<1>6. /\ init[i].pc = "idle" /\ initialized = FALSE /\ shut = "no" /\ inflight' = inflight + 1
      /\ UNCHANGED <<snap, cache, late, initialized, secrets, live, covered, shut, stopping,
                     writer, req>>
  BY DEF InitEnter, config, EngineInv, EngineShape
<1>7. InitShape'
  <2>1. Active' = Active \cup {i} /\ i \notin Active
    BY <1>5, <1>6 DEF Active
  <2>2. Cardinality(Active \cup {i}) = Cardinality(Active) + 1
    BY <2>1, ActiveFinite, FS_AddElement
  <2> QED BY <1>0, <1>4, <1>6, <2>1, <2>2 DEF InitShape
<1>8. inflight = 0 => \A j \in Initializers : init[j].pc = "idle"
  BY NoneInFlight DEF EngineInv
<1>9. ASSUME NEW j \in Initializers PROVE StillRead(j)' /\ Accounts(j)'
  <2>0. StillRead(j) /\ Accounts(j)
    BY InitFacts
  <2>1. CASE j = i
    BY <1>5, <1>8, <2>1 DEF StillRead, Accounts
  <2>2. CASE j # i
    <3>1. StillRead(j)'
      BY <1>5, <1>6, <2>0, <2>2 DEF StillRead
    <3>2. Accounts(j)'
      BY <1>5, <2>0, <2>2 DEF Accounts
    <3> QED BY <3>1, <3>2
  <2> QED BY <2>1, <2>2
<1>10. covered = {} /\ stopping = {}
  BY <1>6 DEF EngineInv, StartPart
<1>11. StartPart'
  BY <1>6, <1>9, <1>10 DEF StartPart, NotHalfStarted
<1>12. live' \subseteq Plugins /\ shut' \in {"no", "stopping", "done"} /\ stopping' \subseteq Plugins
  BY <1>6 DEF EngineInv, EngineShape
<1> QED BY <1>6, <1>7, <1>9, <1>11, <1>12, EngineMoves

-----------------------------------------------------------------------------
(* shutdown(): nothing is promised of the plugins once it has begun.       *)

LEMMA ShutKeeps ==
    ASSUME EngineInv, ShutBegin \/ ShutEnd \/ \E p \in Plugins : ShutPlugin(p)
    PROVE  EngineInv'
<1>1. /\ UNCHANGED <<snap, cache, late, inflight, secrets, covered, writer, init, req>>
      /\ initialized' = initialized \/ initialized' = FALSE
      /\ live' \subseteq live /\ shut' \in {"stopping", "done"}
      /\ stopping' \subseteq Plugins
  <2>1. snap.plugins \subseteq Plugins /\ stopping \subseteq Plugins
    BY DEF EngineInv, EngineShape, Snapshots
  <2>2. CASE ShutBegin
    BY <2>1, <2>2 DEF ShutBegin, config
  <2>3. CASE ShutEnd
    BY <2>1, <2>3 DEF ShutEnd, config
  <2>4. CASE \E p \in Plugins : ShutPlugin(p)
    <3>1. PICK p \in Plugins : ShutPlugin(p)
      BY <2>4
    <3>2. p \in stopping /\ shut \in {"stopping", "done"}
      BY <3>1 DEF ShutPlugin, EngineInv, StartPart, EngineShape
    <3> QED BY <2>1, <3>1, <3>2 DEF ShutPlugin, config
  <2> QED BY <2>2, <2>3, <2>4
<1>2. InitShape'
  BY <1>1 DEF EngineInv, InitShape, Active
<1>3. ASSUME NEW j \in Initializers PROVE StillRead(j)' /\ Accounts(j)'
  <2>1. StillRead(j) /\ Accounts(j)
    BY InitFacts
  <2> QED BY <1>1, <2>1 DEF StillRead, Accounts
<1>4. StartPart'
  BY <1>1, <1>3 DEF StartPart, NotHalfStarted
<1>5. live' \subseteq Plugins
  BY <1>1 DEF EngineInv, EngineShape
<1> QED BY <1>1, <1>2, <1>3, <1>4, <1>5, EngineMoves

-----------------------------------------------------------------------------
(* Requests.                                                               *)

LEMMA ReqMoves ==
    ASSUME EngineInv, NEW q \in Requests, NEW rec \in ReqRecords,
           req' = [req EXCEPT ![q] = rec], CachePart',
           UNCHANGED <<snap, initialized, inflight, secrets, live, covered, shut, stopping,
                       writer, init>>
    PROVE  EngineInv'
<1>1. EngineShape' /\ WriterShape'
  BY DEF EngineInv, EngineShape, WriterShape
<1>2. InitShape' /\ StartPart'
  BY InitsUntouched DEF EngineInv
<1>3. DocPart'
  BY DocUntouched DEF EngineInv
<1>4. ReqShape'
  BY DEF EngineInv, ReqShape
<1> QED BY <1>1, <1>2, <1>3, <1>4 DEF EngineInv

LEMMA ReqFacts ==
    ASSUME EngineInv, NEW q \in Requests
    PROVE  req \in [Requests -> ReqRecords] /\ req[q] \in ReqRecords /\ CachePart /\ snap \in Snapshots
BY DEF EngineInv, ReqShape, EngineShape

LEMMA ResolveTyped ==
    ASSUME snap \in Snapshots, NEW hook
    PROVE  Resolve(snap, hook) \subseteq Plugins
<1>1. CASE snap.doc = None
  BY <1>1 DEF Resolve, Snapshots
<1>2. CASE snap.doc # None
  <2>1. Resolve(snap, hook) \in {DocAuth[snap.doc] \cap snap.plugins, {}}
    BY <1>2 DEF Resolve
  <2> QED BY <1>2, <2>1 DEF Snapshots
<1> QED BY <1>1, <1>2

LEMMA ReqLoadKeeps ==
    ASSUME EngineInv, NEW q \in Requests, NEW r \in Routes, NEW hook \in Hooks, ReqLoad(q, r, hook)
    PROVE  EngineInv'
<1>0. CachePart /\ snap \in Snapshots
  BY ReqFacts
<1> DEFINE rec == [pc |-> IF HasNothingToDispatch(snap) THEN "dispatched" ELSE "looking",
                   doc |-> snap.doc, key |-> <<r, hook>>, entries |-> Resolve(snap, hook),
                   handler |-> IF hook = "policy" THEN snap.notes[r] ELSE None]
<1>1. Resolve(snap, hook) \in SUBSET Plugins
  BY <1>0, ResolveTyped
<1>2. snap.notes[r] \in Docs \cup {None} /\ snap.doc \in Docs \cup {None} /\ <<r, hook>> \in Keys
  BY <1>0 DEF Snapshots, Keys
<1>3. rec \in ReqRecords
  BY <1>1, <1>2 DEF ReqRecords
<1>4. /\ req' = [req EXCEPT ![q] = rec]
      /\ UNCHANGED <<snap, cache, late, initialized, inflight, secrets, live, covered, shut,
                     stopping, writer, init>>
  BY DEF ReqLoad, config
<1> HIDE DEF rec
<1>5. CachePart'
  BY <1>0, <1>4, CacheUntouched
<1> QED BY <1>3, <1>4, <1>5, ReqMoves

LEMMA ReqDispatches ==
    ASSUME EngineInv, NEW q \in Requests, ReqDirect(q) \/ ReqHit(q) \/ ReqMiss(q) \/ ReqEnd(q)
    PROVE  EngineInv'
<1>0. req \in [Requests -> ReqRecords] /\ req[q] \in ReqRecords /\ CachePart /\ snap \in Snapshots
  BY ReqFacts
<1>1. UNCHANGED <<snap, cache, late, initialized, inflight, secrets, live, covered, shut,
                  stopping, writer, init>>
  BY DEF ReqDirect, ReqHit, ReqMiss, ReqEnd, config
<1>2. CachePart'
  BY <1>0, <1>1, CacheUntouched
<1>3. PICK rec \in ReqRecords : req' = [req EXCEPT ![q] = rec]
  <2>1. CASE ReqDirect(q)
    <3>1. [req[q] EXCEPT !.pc = "dispatched"] \in ReqRecords
      BY <1>0 DEF ReqRecords
    <3> QED BY <1>0, <2>1, <3>1 DEF ReqDirect
  <2>2. CASE ReqMiss(q)
    <3>1. [req[q] EXCEPT !.pc = "resolved"] \in ReqRecords
      BY <1>0 DEF ReqRecords
    <3> QED BY <1>0, <2>2, <3>1 DEF ReqMiss
  <2>3. CASE ReqHit(q)
    <3>1. cache[req[q].key] \in SUBSET Plugins
      BY <1>0, <2>3 DEF ReqHit, CachePart, ReqRecords
    <3>2. [req[q] EXCEPT !.pc = "dispatched", !.entries = cache[req[q].key]] \in ReqRecords
      BY <1>0, <3>1 DEF ReqRecords
    <3> QED BY <1>0, <2>3, <3>2 DEF ReqHit
  <2>4. CASE ReqEnd(q)
    <3>1. (CHOOSE k \in Keys : TRUE) \in Keys
      BY KeysFinite
    <3>2. IdleReq \in ReqRecords
      BY <3>1 DEF IdleReq, ReqRecords
    <3> QED BY <2>4, <3>2 DEF ReqEnd
  <2> QED BY <2>1, <2>2, <2>3, <2>4
<1> QED BY <1>1, <1>2, <1>3, ReqMoves

\* A full cache refuses; a fill from a snapshot since replaced is marked late.
LEMMA ReqFillKeeps == ASSUME EngineInv, NEW q \in Requests, ReqFill(q) PROVE EngineInv'
<1>0. req \in [Requests -> ReqRecords] /\ req[q] \in ReqRecords /\ CachePart /\ snap \in Snapshots
  BY ReqFacts
<1>1. UNCHANGED <<snap, initialized, inflight, secrets, live, covered, shut, stopping, writer, init>>
  BY DEF ReqFill
<1> DEFINE rec == [req[q] EXCEPT !.pc = "dispatched"]
<1>2. rec \in ReqRecords
  BY <1>0 DEF ReqRecords
<1>3. req' = [req EXCEPT ![q] = rec]
  BY <1>0 DEF ReqFill
<1> HIDE DEF rec
<1>4. CASE ~HasRoom
  <2>1. UNCHANGED <<cache, late>>
    BY <1>4 DEF ReqFill
  <2>2. CachePart'
    BY <1>0, <1>1, <2>1, CacheUntouched
  <2> QED BY <1>1, <1>2, <1>3, <2>2, ReqMoves
<1>5. CASE HasRoom
  <2>1. PICK key \in Keys, entries \in SUBSET Plugins :
          /\ cache' = [cache EXCEPT ![key] = entries]
          /\ late' = IF entries = Resolve(snap, key[2]) THEN late \ {key} ELSE late \cup {key}
    <3>1. req[q].key \in Keys /\ req[q].entries \in SUBSET Plugins
      BY <1>0 DEF ReqRecords
    <3> QED BY <1>5, <3>1 DEF ReqFill
  <2>2. cache \in [Keys -> (SUBSET Plugins) \cup {None}] /\ late \subseteq Keys
    BY <1>0 DEF CachePart
  <2>3. \A k \in Keys : cache'[k] = IF k = key THEN entries ELSE cache[k]
    BY <2>1, <2>2
  <2>4. cache' \in [Keys -> (SUBSET Plugins) \cup {None}] /\ late' \subseteq Keys
    BY <2>1, <2>2
  <2>5. Cardinality(Cached)' <= CacheMax
    <3>1. IsFiniteSet(Cached)
      <4>1. Cached \in SUBSET Keys
        BY DEF Cached
      <4> QED BY <4>1, KeysFinite, FS_Subset
    <3>2. /\ IsFiniteSet(Cached \cup {key})
          /\ \/ Cardinality(Cached \cup {key}) = Cardinality(Cached)
             \/ Cardinality(Cached \cup {key}) = Cardinality(Cached) + 1
      BY <3>1, FS_AddElement
    <3>3. Cached' \in SUBSET (Cached \cup {key})
      BY <2>3 DEF Cached
    <3>4. IsFiniteSet(Cached') /\ Cardinality(Cached') <= Cardinality(Cached \cup {key})
      BY <3>2, <3>3, FS_Subset
    <3>5. Cardinality(Cached) \in Nat /\ Cardinality(Cached') \in Nat
      BY <3>1, <3>4, FS_CardinalityType
    <3> QED BY <1>5, <3>2, <3>4, <3>5, EngineConstants DEF HasRoom
  <2>6. ClearedOnReload'
    <3>1. \A k : Resolve(snap, k[2])' = Resolve(snap, k[2])
      BY <1>1, ResolveReads
    <3>2. SUFFICES ASSUME \A w \in Writers : writer[w].pc # "clear",
                          NEW k \in Keys, cache'[k] # None, k \notin late'
                   PROVE  cache'[k] = Resolve(snap, k[2])
      BY <1>1, <3>1 DEF ClearedOnReload, Cached
    <3>3. CASE k = key
      BY <2>1, <2>3, <3>2, <3>3
    <3>4. CASE k # key
      <4>1. cache'[k] = cache[k] /\ k \in Cached \ late
        BY <2>1, <2>3, <3>2, <3>4 DEF Cached
      <4> QED BY <1>0, <3>2, <4>1 DEF CachePart, ClearedOnReload
    <3> QED BY <3>3, <3>4
  <2>7. CachePart'
    BY <2>4, <2>5, <2>6 DEF CachePart
  <2> QED BY <1>1, <1>2, <1>3, <2>7, ReqMoves
<1> QED BY <1>4, <1>5

-----------------------------------------------------------------------------
(* The invariant, and what it gives.                                       *)

LEMMA EngineStart == ASSUME Init PROVE EngineInv
<1>1. EngineShape
  <2>1. NoNotes \in [Routes -> Docs \cup {None}]
    BY DEF NoNotes
  <2>2. snap \in Snapshots
    BY <2>1 DEF Init, Snapshots, Declared
  <2> QED BY <2>2 DEF Init, EngineShape, Declared
<1>2. WriterShape
  <2>1. IdleWriter \in WriterRecords /\ IdleWriter.pc = "idle"
    BY DEF IdleWriter, WriterRecords
  <2> QED BY <2>1 DEF Init, WriterShape
<1>3. init \in [Initializers -> InitRecords] /\ \A i \in Initializers : init[i] = IdleInit
  BY DEF Init, IdleInit, InitRecords
<1>4. IdleInit.pc = "idle" /\ IdleInit.done = {}
  BY DEF IdleInit
<1>5. InitShape
  <2>1. Active = {}
    BY <1>3, <1>4 DEF Active
  <2> QED BY <1>3, <2>1, FS_EmptySet DEF Init, InitShape
<1>6. ReqShape
  <2>1. (CHOOSE k \in Keys : TRUE) \in Keys
    BY KeysFinite
  <2>2. IdleReq \in ReqRecords
    BY <2>1 DEF IdleReq, ReqRecords
  <2> QED BY <2>2 DEF Init, ReqShape
<1>7. CachePart
  <2>1. Cached = {} /\ cache \in [Keys -> (SUBSET Plugins) \cup {None}] /\ late = {}
    BY DEF Init, Cached, Empty
  <2>2. Cardinality(Cached) = 0
    BY <2>1, FS_EmptySet
  <2>3. ClearedOnReload
    BY <2>1 DEF ClearedOnReload
  <2> QED BY <2>1, <2>2, <2>3, EngineConstants DEF CachePart
<1>8. DocPart
  BY <1>3, <1>4 DEF Init, DocPart, StillRead, SecretsPaired, KeyPaired
<1>9. StartPart
  BY <1>3, <1>4 DEF Init, StartPart, Accounts, NotHalfStarted
<1> QED BY <1>1, <1>2, <1>5, <1>6, <1>7, <1>8, <1>9 DEF EngineInv

LEMMA EngineStep == ASSUME EngineInv, [Next]_vars PROVE EngineInv'
<1>1. CASE UNCHANGED vars
  <2>1. UNCHANGED <<snap, cache, late, initialized, inflight, secrets, live, covered, shut,
                    stopping, writer, init, req>>
    BY <1>1 DEF vars, config
  <2>2. EngineShape' /\ WriterShape' /\ ReqShape'
    BY <2>1 DEF EngineInv, EngineShape, WriterShape, ReqShape
  <2>3. InitShape' /\ StartPart' /\ DocPart' /\ CachePart'
    BY <2>1, InitsUntouched, DocUntouched, CacheUntouched DEF EngineInv
  <2> QED BY <2>2, <2>3 DEF EngineInv
<1>2. ASSUME NEW w \in Writers,
             \/ \E d \in Docs : LoadBuild(w, d)
             \/ LoadPublish(w) \/ LoadRefused(w) \/ ClearAfter(w) \/ LoadReturns(w)
             \/ \E r \in Routes : LoadAnnotate(w, r)
             \/ \E p \in Loose : Register(w, p) \/ Unregister(w, p)
      PROVE  EngineInv'
  BY <1>2, LoadBuildKeeps, LoadPublishKeeps, LoadLeaves, ClearKeeps, LoadAnnotateKeeps, RegisterKeeps
<1>3. ASSUME NEW i \in Initializers,
             \/ InitEnter(i) \/ InitResolve(i) \/ InitRead(i) \/ InitKey(i)
             \/ InitAttach(i) \/ InitPluginFails(i) \/ InitFails(i)
             \/ InitSucceeds(i) \/ InitLeaves(i)
             \/ \E p \in Plugins : InitPlugin(i, p) \/ InitRollback(i, p)
      PROVE  EngineInv'
  <2>1. CASE InitFails(i) \/ InitLeaves(i)
    <3>1. /\ init[i].pc # "idle" /\ Leave(i)
          /\ UNCHANGED <<config, initialized, secrets, live, covered, shut, stopping, writer, req>>
      BY <2>1 DEF InitFails, InitLeaves
    <3> QED BY <3>1, LeaveKeeps
  <2>2. CASE ~(InitFails(i) \/ InitLeaves(i))
    BY <1>3, <2>2, EnterKeeps, ResolveKeeps, ReadKeeps, KeyKeeps, AttachKeeps, PluginFailsKeeps,
       SucceedsKeeps, PluginKeeps, RollbackKeeps
  <2> QED BY <2>1, <2>2
<1>4. CASE ShutBegin \/ ShutEnd \/ \E p \in Plugins : ShutPlugin(p)
  BY <1>4, ShutKeeps
<1>5. ASSUME NEW q \in Requests,
             \/ \E r \in Routes, hook \in Hooks : ReqLoad(q, r, hook)
             \/ ReqDirect(q) \/ ReqHit(q) \/ ReqMiss(q) \/ ReqFill(q) \/ ReqEnd(q)
      PROVE  EngineInv'
  BY <1>5, ReqLoadKeeps, ReqDispatches, ReqFillKeeps
<1> QED BY <1>1, <1>2, <1>3, <1>4, <1>5 DEF Next

LEMMA EngineTyped == ASSUME EngineInv PROVE TypeOK
<1>1. inflight \in 0..Cardinality(Initializers)
  BY ActiveFinite DEF EngineInv, InitShape
<1> QED BY <1>1 DEF EngineInv, EngineShape, WriterShape, InitShape, ReqShape, CachePart, TypeOK,
                    WriterRecords, InitRecords, ReqRecords

\* Type correctness of the engine; in particular the route cache never holds
\* more than route_cache_max_entries (insert_route_cache), and the gate that
\* refuses loads counts at most one call for each host task.
THEOREM EngineTypeCorrect == Spec => []TypeOK
<1>1. Init => EngineInv
  BY EngineStart
<1>2. EngineInv /\ [Next]_vars => EngineInv'
  BY EngineStep
<1>3. EngineInv => TypeOK
  BY EngineTyped
<1> QED BY <1>1, <1>2, <1>3, PTL DEF Spec

\* Whatever the number of tasks that load, register, initialize and invoke,
\* a running engine's secrets and content key are those of the document it
\* serves, the plugins of the call that started it run, and after a
\* clear_routing_cache only late fills differ from what the snapshot resolves.
THEOREM RunningEngineSound ==
    Spec => [](SecretsPaired /\ KeyPaired /\ NotHalfStarted /\ ClearedOnReload)
<1>1. Init => EngineInv
  BY EngineStart
<1>2. EngineInv /\ [Next]_vars => EngineInv'
  BY EngineStep
<1>3. EngineInv => SecretsPaired /\ KeyPaired /\ NotHalfStarted /\ ClearedOnReload
  BY DEF EngineInv, DocPart, StartPart, CachePart
<1> QED BY <1>1, <1>2, <1>3, PTL DEF Spec

-----------------------------------------------------------------------------
(* One writer.                                                             *)

\* Requests keep the handler of their own snapshot.
LEMMA OwnReqStep ==
    ASSUME EngineInv, OwnPart, NEW q \in Requests,
           \/ \E r \in Routes, hook \in Hooks : ReqLoad(q, r, hook)
           \/ ReqDirect(q) \/ ReqHit(q) \/ ReqMiss(q) \/ ReqFill(q) \/ ReqEnd(q)
    PROVE  OwnPart'
<1>0. req \in [Requests -> ReqRecords] /\ req[q] \in ReqRecords /\ snap \in Snapshots
  BY ReqFacts
<1>1. snap' = snap /\ writer' = writer
  BY DEF ReqLoad, ReqDirect, ReqHit, ReqMiss, ReqFill, ReqEnd, config
<1>2. OwnNotes' /\ \A w \in Writers : OwnWriter(w)'
  BY <1>1 DEF OwnPart, OwnNotes, OwnWriter
<1>3. req'[q].handler \in {None, req'[q].doc}
  <2>1. CASE \E r \in Routes, hook \in Hooks : ReqLoad(q, r, hook)
    <3>1. PICK r \in Routes, hook \in Hooks : ReqLoad(q, r, hook)
      BY <2>1
    <3>2. /\ req'[q].doc = snap.doc
          /\ req'[q].handler = IF hook = "policy" THEN snap.notes[r] ELSE None
      BY <1>0, <3>1 DEF ReqLoad
    <3> QED BY <3>2 DEF OwnPart, OwnNotes
  <2>2. CASE ReqDirect(q) \/ ReqHit(q) \/ ReqMiss(q) \/ ReqFill(q)
    <3>1. req'[q].doc = req[q].doc /\ req'[q].handler = req[q].handler
      BY <1>0, <2>2 DEF ReqDirect, ReqHit, ReqMiss, ReqFill, ReqRecords
    <3> QED BY <3>1 DEF OwnPart, OwnPolicy
  <2>3. CASE ReqEnd(q)
    BY <1>0, <2>3 DEF ReqEnd, IdleReq
  <2> QED BY <2>1, <2>2, <2>3
<1>4. \A o \in Requests \ {q} : req'[o] = req[o]
  BY <1>0 DEF ReqLoad, ReqDirect, ReqHit, ReqMiss, ReqFill, ReqEnd
<1>5. OwnPolicy'
  BY <1>3, <1>4 DEF OwnPart, OwnPolicy
<1> QED BY <1>2, <1>5 DEF OwnPart

\* The only writer annotates the document it published and nobody replaced.
LEMMA OwnWriterStep ==
    ASSUME EngineInv, OwnPart, NEW w \in Writers, \A v \in Writers : v = w,
           \/ \E d \in Docs : LoadBuild(w, d)
           \/ LoadPublish(w) \/ LoadRefused(w) \/ ClearAfter(w) \/ LoadReturns(w)
           \/ \E r \in Routes : LoadAnnotate(w, r)
           \/ \E p \in Loose : Register(w, p) \/ Unregister(w, p)
    PROVE  OwnPart'
<1>0. writer[w] \in WriterRecords /\ writer \in [Writers -> WriterRecords] /\ snap \in Snapshots
  BY DEF EngineInv, EngineShape, WriterShape
<1>1. req' = req
  BY DEF LoadBuild, LoadPublish, LoadRefused, ClearAfter, LoadReturns, LoadAnnotate, Register,
         Unregister, config
<1>2. OwnPolicy'
  BY <1>1 DEF OwnPart, OwnPolicy
<1>3. OwnNotes /\ OwnWriter(w)
  BY DEF OwnPart
<1>4. OwnNotes' /\ OwnWriter(w)'
  <2>1. CASE \E d \in Docs : LoadBuild(w, d)
    BY <1>0, <1>3, <2>1 DEF LoadBuild, config, OwnNotes, OwnWriter
  <2>2. CASE LoadPublish(w)
    <3>1. /\ snap'.doc = writer[w].doc /\ snap'.notes = NoNotes
          /\ writer'[w].pc = "clear" /\ writer'[w].doc = writer[w].doc
      BY <1>0, <2>2 DEF LoadPublish, SnapshotFrom, WriterRecords
    <3> QED BY <3>1 DEF OwnNotes, OwnWriter, NoNotes
  <2>3. CASE LoadRefused(w) \/ LoadReturns(w)
    BY <1>0, <1>3, <2>3 DEF LoadRefused, LoadReturns, config, OwnNotes, OwnWriter, IdleWriter
  <2>4. CASE ClearAfter(w)
    <3>1. snap' = snap /\ writer[w].pc = "clear"
      BY <2>4 DEF ClearAfter
    <3>2. CASE writer[w].doc = None
      <4>1. writer'[w] = IdleWriter
        BY <1>0, <2>4, <3>2 DEF ClearAfter
      <4> QED BY <1>3, <3>1, <4>1 DEF OwnNotes, OwnWriter, IdleWriter
    <3>3. CASE writer[w].doc # None
      <4>1. writer'[w].pc = "walk" /\ writer'[w].doc = writer[w].doc
        BY <1>0, <2>4, <3>3 DEF ClearAfter, WriterRecords
      <4> QED BY <1>3, <3>1, <3>3, <4>1 DEF OwnNotes, OwnWriter
    <3> QED BY <3>2, <3>3
  <2>5. CASE \E r \in Routes : LoadAnnotate(w, r)
    <3>1. PICK r \in Routes : LoadAnnotate(w, r)
      BY <2>5
    <3>2. /\ snap'.doc = snap.doc /\ writer[w].doc = snap.doc
          /\ \A o \in Routes : snap'.notes[o] = IF o = r THEN snap.doc ELSE snap.notes[o]
      BY <1>0, <1>3, <3>1 DEF LoadAnnotate, OwnWriter, Snapshots
    <3>3. writer'[w].pc = "walk" /\ writer'[w].doc = writer[w].doc
      BY <1>0, <3>1 DEF LoadAnnotate, WriterRecords
    <3> QED BY <1>3, <3>2, <3>3 DEF OwnNotes, OwnWriter
  <2>6. CASE \E p \in Loose : Register(w, p) \/ Unregister(w, p)
    <3>1. /\ snap'.doc = snap.doc /\ snap'.notes = snap.notes
          /\ writer[w].pc = "idle" /\ writer'[w].pc = "clear" /\ writer'[w].doc = writer[w].doc
      BY <1>0, <2>6 DEF Register, Unregister, WriterRecords, Snapshots
    <3> QED BY <1>3, <3>1 DEF OwnNotes, OwnWriter
  <2> QED BY <2>1, <2>2, <2>3, <2>4, <2>5, <2>6
<1>5. \A v \in Writers : OwnWriter(v)'
  <2> SUFFICES ASSUME NEW v \in Writers PROVE OwnWriter(v)'
    OBVIOUS
  <2>1. v = w
    OBVIOUS
  <2> QED BY <1>4, <2>1
<1> QED BY <1>2, <1>4, <1>5 DEF OwnPart

\* initialize() and shutdown() touch at most the snapshot's content key.
LEMMA OwnOtherStep ==
    ASSUME EngineInv, OwnPart,
           \/ \E i \in Initializers :
                \/ InitEnter(i) \/ InitResolve(i) \/ InitRead(i) \/ InitKey(i)
                \/ InitAttach(i) \/ InitPluginFails(i) \/ InitFails(i)
                \/ InitSucceeds(i) \/ InitLeaves(i)
                \/ \E p \in Plugins : InitPlugin(i, p) \/ InitRollback(i, p)
           \/ ShutBegin \/ ShutEnd
           \/ \E p \in Plugins : ShutPlugin(p)
           \/ UNCHANGED vars
    PROVE  OwnPart'
<1>0. snap \in Snapshots
  BY DEF EngineInv, EngineShape
<1>1. writer' = writer /\ req' = req
  BY DEF InitEnter, InitResolve, InitRead, InitKey, InitAttach, InitPluginFails, InitFails,
         InitSucceeds, InitLeaves, InitPlugin, InitRollback, ShutBegin, ShutEnd, ShutPlugin, vars
<1>2. snap'.doc = snap.doc /\ snap'.notes = snap.notes
  <2>1. CASE \E i \in Initializers : InitAttach(i)
    BY <1>0, <2>1 DEF InitAttach, Snapshots
  <2>2. CASE ~\E i \in Initializers : InitAttach(i)
    <3>1. snap' = snap
      BY <2>2 DEF InitEnter, InitResolve, InitRead, InitKey, InitPluginFails, InitFails,
         InitSucceeds, InitLeaves, InitPlugin, InitRollback, ShutBegin, ShutEnd, ShutPlugin,
         vars, config
    <3> QED BY <3>1
  <2> QED BY <2>1, <2>2
<1> QED BY <1>1, <1>2 DEF OwnPart, OwnNotes, OwnWriter, OwnPolicy

LEMMA OwnStep ==
    ASSUME EngineInv, OwnPart, \A v, w \in Writers : v = w, [Next]_vars
    PROVE  OwnPart'
BY OwnReqStep, OwnWriterStep, OwnOtherStep DEF Next

\* With configurations loaded and annotated from one task, the engine is of one
\* piece in every reachable state (load_config_with, initialize, shutdown,
\* resolve_route).  Of two tasks that load at once the second's annotations can
\* land on the first's snapshot: OwnPolicy alone needs the hypothesis.
THEOREM EngineConsistentHolds ==
    ASSUME \A v, w \in Writers : v = w
    PROVE  Spec => []EngineConsistent
<1>1. Init => EngineInv /\ OwnPart
  <2>1. ASSUME Init PROVE OwnPart
    BY <2>1 DEF Init, OwnPart, OwnNotes, OwnWriter, OwnPolicy, NoNotes, IdleWriter, IdleReq
  <2> QED BY <2>1, EngineStart
<1>2. EngineInv /\ OwnPart /\ [Next]_vars => EngineInv' /\ OwnPart'
  BY EngineStep, OwnStep
<1>3. EngineInv /\ OwnPart => EngineConsistent
  BY EngineTyped DEF EngineInv, DocPart, StartPart, CachePart, OwnPart, EngineConsistent
<1> QED BY <1>1, <1>2, <1>3, PTL DEF Spec

-----------------------------------------------------------------------------
(* SectionLayers: the layers of a route.                                   *)

Members(q) == {q[i] : i \in 1 .. Len(q)}

\* The order of the layers: by level, and the bundles among themselves in any.
Level(s) == IF s = "global" THEN 0 ELSE IF s = "default" THEN 1 ELSE IF s = "route" THEN 3 ELSE 2
Precedes(s, t) == Level(s) < Level(t) \/ (s # t /\ s \in Bundles /\ t \in Bundles)

Named(names) == {"global", "default", "route"} \cup Members(names)

\* A list of layers in that order, each once.
Ordered(q) ==
    /\ q \in Seq(Sections)
    /\ \A j, k \in 1 .. Len(q) : j < k => Precedes(q[j], q[k])

\* The members at some positions of an ordered list are ordered.
LEMMA PickedOrdered ==
    ASSUME NEW q, Ordered(q), NEW S \in SUBSET (1 .. Len(q))
    PROVE  /\ Ordered(Picked(q, S))
           /\ Members(Picked(q, S)) = {q[i] : i \in S}
<1> DEFINE n == Cardinality(S)
           p == Picked(q, S)
<1>1. Len(q) \in Nat /\ \A i \in 1 .. Len(q) : q[i] \in Sections
  BY DEF Ordered
<1>2. S \in SUBSET Nat /\ IsFiniteSet(S)
  <2>1. IsFiniteSet(1 .. Len(q))
    BY <1>1, FS_Interval
  <2>2. IsFiniteSet(S)
    BY <2>1, FS_Subset
  <2>3. \A i \in S : i \in Nat
    BY <1>1
  <2> QED BY <2>2, <2>3
<1>3. /\ n \in Nat
      /\ \A k \in 1 .. n : NthOf(S, k) \in S
      /\ \A j, k \in 1 .. n : j < k => NthOf(S, j) < NthOf(S, k)
      /\ \A i \in S : \E k \in 1 .. n : NthOf(S, k) = i
  BY <1>2, PickedOrder
<1>4. p = [k \in 1 .. n |-> q[NthOf(S, k)]]
  BY DEF Picked
<1> HIDE DEF n, p
<1>5. p \in [1 .. n -> Sections]
  BY <1>1, <1>3, <1>4
<1>6. p \in Seq(Sections) /\ Len(p) = n
  BY <1>3, <1>5
<1>7. ASSUME NEW j \in 1 .. n, NEW k \in 1 .. n, j < k PROVE Precedes(p[j], p[k])
  <2>1. NthOf(S, j) \in 1 .. Len(q) /\ NthOf(S, k) \in 1 .. Len(q) /\ NthOf(S, j) < NthOf(S, k)
    BY <1>3, <1>7
  <2> QED BY <1>4, <2>1 DEF Ordered
<1>8. Members(p) = {q[i] : i \in S}
  BY <1>3, <1>4, <1>6 DEF Members
<1> QED BY <1>6, <1>7, <1>8 DEF Ordered, p

LEMMA BundleNamesOf ==
    ASSUME NEW names \in Seq(Bundles)
    PROVE  /\ Ordered(RouteBundleNames(names)) /\ RouteBundleNames(names) \in Seq(Bundles)
           /\ Members(RouteBundleNames(names)) = Members(names)
<1> DEFINE S == {i \in DOMAIN names : \A j \in 1 .. i - 1 : names[j] # names[i]}
           n == Cardinality(S)
           p == Picked(names, S)
<1>1. Len(names) \in Nat /\ DOMAIN names = 1 .. Len(names) /\ \A i \in DOMAIN names : names[i] \in Bundles
  OBVIOUS
<1>2. S \in SUBSET Nat /\ IsFiniteSet(S)
  <2>1. IsFiniteSet(1 .. Len(names))
    BY <1>1, FS_Interval
  <2> QED BY <1>1, <2>1, FS_Subset
<1>3. /\ n \in Nat
      /\ \A k \in 1 .. n : NthOf(S, k) \in S
      /\ \A j, k \in 1 .. n : j < k => NthOf(S, j) < NthOf(S, k)
      /\ \A i \in S : \E k \in 1 .. n : NthOf(S, k) = i
  <2> HIDE DEF S
  <2> QED BY <1>2, PickedOrder
<1>4. p = [k \in 1 .. n |-> names[NthOf(S, k)]]
  BY DEF Picked
<1>5. \A i \in S : i \in 1 .. Len(names) /\ \A j \in 1 .. i - 1 : names[j] # names[i]
  BY <1>1
<1>6. ASSUME NEW i \in 1 .. Len(names) PROVE \E j \in S : names[j] = names[i]
  <2> DEFINE same == {j \in 1 .. Len(names) : names[j] = names[i]}
  <2>1. same \in SUBSET Nat /\ IsFiniteSet(same) /\ same # {}
    <3>1. IsFiniteSet(1 .. Len(names))
      BY <1>1, FS_Interval
    <3> QED BY <1>1, <3>1, FS_Subset
  <2>2. PICK j \in same : \A k \in same : j <= k
    <3> HIDE DEF same
    <3> QED BY <2>1, Extremes
  <2>3. j \in S
    BY <1>1, <2>2
  <2> QED BY <2>2, <2>3
<1>7. RouteBundleNames(names) = p
  BY DEF RouteBundleNames
<1> HIDE DEF S, n, p
<1>8. p \in [1 .. n -> Bundles]
  BY <1>1, <1>3, <1>4, <1>5
<1>9. p \in Seq(Bundles) /\ Len(p) = n
  BY <1>3, <1>8
<1>10. Bundles \subseteq Sections
  BY DEF Sections
<1>11. p \in Seq(Sections)
  BY <1>3, <1>8, <1>10
<1>12. ASSUME NEW j \in 1 .. n, NEW k \in 1 .. n, j < k PROVE Precedes(p[j], p[k])
  <2>1. NthOf(S, j) \in S /\ NthOf(S, k) \in S /\ NthOf(S, j) < NthOf(S, k)
    BY <1>3, <1>12
  <2>2. NthOf(S, j) \in 1 .. NthOf(S, k) - 1
    BY <1>1, <1>5, <2>1
  <2>3. names[NthOf(S, j)] # names[NthOf(S, k)]
    BY <1>5, <2>1, <2>2
  <2>4. p[j] # p[k] /\ p[j] \in Bundles /\ p[k] \in Bundles
    BY <1>4, <1>8, <2>3
  <2> QED BY <2>4 DEF Precedes
<1>13. Members(p) = Members(names)
  <2>1. ASSUME NEW k \in 1 .. n PROVE \E i \in 1 .. Len(names) : names[i] = p[k]
    BY <1>3, <1>4, <1>5
  <2>2. ASSUME NEW i \in 1 .. Len(names) PROVE \E k \in 1 .. n : p[k] = names[i]
    <3>1. PICK j \in S : names[j] = names[i]
      BY <1>6
    <3>2. PICK k \in 1 .. n : NthOf(S, k) = j
      BY <1>3
    <3> QED BY <1>4, <3>1, <3>2
  <2>3. Members(p) = {p[k] : k \in 1 .. n}
    BY <1>9 DEF Members
  <2>4. Members(names) = {names[i] : i \in 1 .. Len(names)}
    BY DEF Members
  <2>5. Members(p) \subseteq Members(names)
    BY <2>1, <2>3, <2>4
  <2>6. Members(names) \subseteq Members(p)
    BY <2>2, <2>3, <2>4
  <2> QED BY <2>5, <2>6
<1> QED BY <1>7, <1>9, <1>11, <1>12, <1>13 DEF Ordered

\* section_layers gives the declared sections of the route, in order.
LEMMA LayersOf ==
    ASSUME NEW doc, NEW names \in Seq(Bundles)
    PROVE  /\ Ordered(Layers(doc, names))
           /\ Members(Layers(doc, names)) = {s \in Named(names) : doc[s].declared}
<1> DEFINE b == RouteBundleNames(names)
           all == <<"global", "default">> \o b \o <<"route">>
           S == {i \in DOMAIN all : doc[all[i]].declared}
<1>1. Ordered(b) /\ b \in Seq(Bundles) /\ Members(b) = Members(names)
  BY BundleNamesOf
<1> HIDE DEF b
<1>2. Len(b) \in Nat /\ \A i \in 1 .. Len(b) : b[i] \in Bundles
  BY <1>1
<1>3. /\ Len(all) = Len(b) + 3 /\ DOMAIN all = 1 .. Len(b) + 3
      /\ all[1] = "global" /\ all[2] = "default" /\ all[Len(b) + 3] = "route"
      /\ \A i \in 1 .. Len(b) : all[i + 2] = b[i]
  BY <1>1, <1>2
<1>4. \A i \in 3 .. Len(b) + 2 : i - 2 \in 1 .. Len(b) /\ all[i] = b[i - 2]
  <2> SUFFICES ASSUME NEW i \in 3 .. Len(b) + 2 PROVE i - 2 \in 1 .. Len(b) /\ all[i] = b[i - 2]
    OBVIOUS
  <2>1. i - 2 \in 1 .. Len(b) /\ (i - 2) + 2 = i
    BY <1>2
  <2> QED BY <1>3, <2>1
<1>5. \A i \in 1 .. Len(b) + 3 : i = 1 \/ i = 2 \/ i = Len(b) + 3 \/ i \in 3 .. Len(b) + 2
  BY <1>2
<1>6. all \in Seq(Sections)
  <2>1. \A i \in 1 .. Len(b) + 3 : all[i] \in Sections
    BY <1>2, <1>3, <1>4, <1>5 DEF Sections
  <2>2. all = [i \in 1 .. Len(b) + 3 |-> all[i]] /\ Len(b) + 3 \in Nat
    BY <1>1, <1>2, <1>3
  <2> HIDE DEF all
  <2> QED BY <2>1, <2>2
<1> HIDE DEF all
<1>7. ASSUME NEW j \in 1 .. Len(b) + 3, NEW k \in 1 .. Len(b) + 3, j < k
      PROVE  Precedes(all[j], all[k])
  <2>1. \A s \in Bundles : s # "global" /\ s # "default" /\ s # "route"
    BY SectionAssumption
  <2>2. CASE j \in 3 .. Len(b) + 2 /\ k \in 3 .. Len(b) + 2
    <3>1. j - 2 \in 1 .. Len(b) /\ k - 2 \in 1 .. Len(b) /\ j - 2 < k - 2
      BY <1>2, <1>7, <2>2
    <3> QED BY <1>1, <1>4, <2>2, <3>1 DEF Ordered
  <2>3. CASE j = 1
    <3>1. k # 1 /\ Level(all[j]) = 0
      BY <1>3, <1>7, <2>3 DEF Level
    <3>2. k = 2 \/ k = Len(b) + 3 \/ (k \in 3 .. Len(b) + 2 /\ all[k] \in Bundles)
      BY <1>2, <1>4, <1>5, <3>1
    <3>3. Level(all[k]) \in 1 .. 3
      BY <1>3, <2>1, <3>2 DEF Level
    <3> QED BY <3>1, <3>3 DEF Precedes
  <2>4. CASE j = 2
    <3>1. k # 1 /\ k # 2 /\ Level(all[j]) = 1
      BY <1>3, <1>7, <2>4 DEF Level
    <3>2. k = Len(b) + 3 \/ (k \in 3 .. Len(b) + 2 /\ all[k] \in Bundles)
      BY <1>2, <1>4, <1>5, <3>1
    <3>3. Level(all[k]) \in 2 .. 3
      BY <1>3, <2>1, <3>2 DEF Level
    <3> QED BY <3>1, <3>3 DEF Precedes
  <2>5. CASE j \in 3 .. Len(b) + 2 /\ k = Len(b) + 3
    <3>1. Level(all[j]) = 2
      BY <1>2, <1>4, <2>1, <2>5 DEF Level
    <3>2. Level(all[k]) = 3
      BY <1>3, <2>5 DEF Level
    <3> QED BY <3>1, <3>2 DEF Precedes
  <2>6. j # Len(b) + 3
    BY <1>2, <1>7
  <2> QED BY <1>2, <1>5, <1>7, <2>2, <2>3, <2>4, <2>5, <2>6
<1>8. Ordered(all)
  BY <1>3, <1>6, <1>7 DEF Ordered
<1>9. {all[i] : i \in 1 .. Len(b) + 3} = Named(names)
  <2>1. ASSUME NEW i \in 1 .. Len(b) + 3 PROVE all[i] \in Named(names)
    BY <1>1, <1>3, <1>4, <1>5 DEF Named, Members
  <2>2. ASSUME NEW s \in Named(names) PROVE \E i \in 1 .. Len(b) + 3 : all[i] = s
    <3>1. CASE s \in {"global", "default", "route"}
      BY <1>2, <1>3, <3>1
    <3>2. CASE s \in Members(names)
      <4>1. PICK i \in 1 .. Len(b) : b[i] = s
        BY <1>1, <3>2 DEF Members
      <4>2. i + 2 \in 1 .. Len(b) + 3
        BY <1>2, <4>1
      <4> QED BY <1>3, <4>1, <4>2
    <3> QED BY <3>1, <3>2 DEF Named
  <2> QED BY <2>1, <2>2
<1>10. S \in SUBSET (1 .. Len(all))
  BY <1>3
<1>11. Layers(doc, names) = Picked(all, S)
  BY DEF Layers, all, b
<1>12. {all[i] : i \in S} = {s \in Named(names) : doc[s].declared}
  BY <1>3, <1>9
<1> HIDE DEF S
<1> QED BY <1>8, <1>10, <1>11, <1>12, PickedOrdered

-----------------------------------------------------------------------------
(* SectionLayers: the step lists.                                          *)

\* The layers of a step list: sections that declare steps.
StepLayers(doc, q) ==
    /\ q \in Seq(Sections)
    /\ \A k \in 1 .. Len(q) : doc[q[k]].steps \in Nat /\ doc[q[k]].replace \in BOOLEAN

LEMMA AddStepsIs ==
    ASSUME NEW doc, NEW q, StepLayers(doc, q), NEW k \in 1 .. Len(q), NEW x \in Seq(Sections)
    PROVE  /\ AddSteps(doc, q[k], x) \in Seq(Sections)
           /\ Len(AddSteps(doc, q[k], x)) =
                 (IF doc[q[k]].replace THEN 0 ELSE Len(x)) + doc[q[k]].steps
<1>1. q[k] \in Sections /\ doc[q[k]].steps \in Nat
  BY DEF StepLayers
<1>2. PICK own : own = [i \in 1 .. doc[q[k]].steps |-> q[k]]
  OBVIOUS
<1>3. own \in Seq(Sections) /\ Len(own) = doc[q[k]].steps
  BY <1>1, <1>2
<1>4. AddSteps(doc, q[k], x) = (IF doc[q[k]].replace THEN <<>> ELSE x) \o own
  BY <1>2 DEF AddSteps
<1>5. CASE doc[q[k]].replace
  <2>1. AddSteps(doc, q[k], x) = <<>> \o own
    BY <1>4, <1>5
  <2> QED BY <1>1, <1>3, <1>5, <2>1
<1>6. CASE ~doc[q[k]].replace
  <2>1. AddSteps(doc, q[k], x) = x \o own
    BY <1>4, <1>6
  <2>2. Len(x) \in Nat /\ x \o own \in Seq(Sections) /\ Len(x \o own) = Len(x) + Len(own)
    BY <1>3
  <2>3. (IF doc[q[k]].replace THEN 0 ELSE Len(x)) = Len(x)
    BY <1>6
  <2> QED BY <1>1, <1>3, <2>1, <2>2, <2>3
<1> QED BY <1>5, <1>6

\* The loop of fold_step_layers, round by round.
LEMMA StackedStepsIs ==
    ASSUME NEW doc, NEW q, StepLayers(doc, q)
    PROVE  /\ StackedSteps(doc, q)[0] = <<>>
           /\ \A k \in 1 .. Len(q) : StackedSteps(doc, q)[k] = AddSteps(doc, q[k], StackedSteps(doc, q)[k - 1])
           /\ \A k \in 0 .. Len(q) : StackedSteps(doc, q)[k] \in Seq(Sections)
<1> DEFINE n == Len(q)
           body == [k \in 1 .. n |-> [x \in Seq(Sections) |-> AddSteps(doc, q[k], x)]]
           After(f) == [k \in 0 .. Len(q) |-> IF k = 0 THEN <<>> ELSE AddSteps(doc, q[k], f[k - 1])]
<1>1. n \in Nat /\ <<>> \in Seq(Sections)
  BY DEF StepLayers
<1>2. body \in [1 .. n -> [Seq(Sections) -> Seq(Sections)]]
  BY AddStepsIs
<1>3. PICK f \in [0 .. n -> Seq(Sections)] : RunOf(f, n, <<>>, body)
  <2> HIDE DEF n, body
  <2> QED BY <1>1, <1>2, LoopRuns
<1>4. \A k \in 1 .. n : k - 1 \in 0 .. n /\ k # 0
  BY <1>1
<1>5. \A k \in 1 .. n : f[k] = AddSteps(doc, q[k], f[k - 1])
  BY <1>3, <1>4 DEF RunOf
<1>6. f = After(f)
  <2>1. \A k \in 0 .. n : f[k] = IF k = 0 THEN <<>> ELSE AddSteps(doc, q[k], f[k - 1])
    BY <1>1, <1>3, <1>5 DEF RunOf
  <2> QED BY <1>3, <2>1
<1>7. \E g : g = After(g)
  BY <1>6
<1>8. StackedSteps(doc, q) = After(StackedSteps(doc, q))
  BY <1>7, Zenon DEF StackedSteps
<1> DEFINE s == StackedSteps(doc, q)
<1>9. s[0] = <<>> /\ \A k \in 1 .. n : s[k] = AddSteps(doc, q[k], s[k - 1])
  <2> HIDE DEF s
  <2>1. s = After(s)
    BY <1>8 DEF s
  <2> QED BY <1>1, <1>4, <2>1
<1>10. \A k \in 0 .. n : s[k] \in Seq(Sections)
  <2> HIDE DEF s
  <2> DEFINE P == {k \in 0 .. n : s[k] \in Seq(Sections)}
  <2>1. 0 \in P
    <3>1. 0 \in 0 .. n
      BY <1>1
    <3> QED BY <1>1, <1>9, <3>1
  <2>2. ASSUME NEW k \in 1 .. n, k - 1 \in P PROVE k \in P
    <3>1. AddSteps(doc, q[k], s[k - 1]) \in Seq(Sections)
      BY <2>2, AddStepsIs
    <3> QED BY <1>1, <1>9, <3>1
  <2>3. \A k \in 0 .. n : k \in P
    <3> HIDE DEF P, n
    <3> QED BY <1>1, <2>1, <2>2, UpToInduction
  <2> QED BY <2>3
<1> QED BY <1>9, <1>10

LEMMA StepSumsIs ==
    ASSUME NEW doc, NEW q, StepLayers(doc, q)
    PROVE  /\ StepSums(doc, q)[0] = 0
           /\ \A k \in 1 .. Len(q) : StepSums(doc, q)[k] = StepSums(doc, q)[k - 1] + doc[q[k]].steps
           /\ \A k \in 0 .. Len(q) : StepSums(doc, q)[k] \in Nat
<1> DEFINE n == Len(q)
           body == [k \in 1 .. n |-> [x \in Nat |-> x + doc[q[k]].steps]]
           After(f) == [k \in 0 .. Len(q) |-> IF k = 0 THEN 0 ELSE f[k - 1] + doc[q[k]].steps]
<1>1. n \in Nat /\ 0 \in Nat /\ \A k \in 1 .. n : doc[q[k]].steps \in Nat
  BY DEF StepLayers
<1>2. body \in [1 .. n -> [Nat -> Nat]]
  BY <1>1
<1>3. PICK f \in [0 .. n -> Nat] : RunOf(f, n, 0, body)
  <2> HIDE DEF n, body
  <2> QED BY <1>1, <1>2, LoopRuns
<1>4. \A k \in 1 .. n : k - 1 \in 0 .. n /\ k # 0
  BY <1>1
<1>5. \A k \in 1 .. n : f[k] = f[k - 1] + doc[q[k]].steps
  BY <1>3, <1>4 DEF RunOf
<1>6. f = After(f)
  <2>1. \A k \in 0 .. n : f[k] = IF k = 0 THEN 0 ELSE f[k - 1] + doc[q[k]].steps
    BY <1>1, <1>3, <1>5 DEF RunOf
  <2> QED BY <1>3, <2>1
<1>7. \E g : g = After(g)
  BY <1>6
<1>8. StepSums(doc, q) = After(StepSums(doc, q))
  BY <1>7, Zenon DEF StepSums
<1> DEFINE s == StepSums(doc, q)
<1>9. s[0] = 0 /\ \A k \in 1 .. n : s[k] = s[k - 1] + doc[q[k]].steps
  <2> HIDE DEF s
  <2>1. s = After(s)
    BY <1>8 DEF s
  <2> QED BY <1>1, <1>4, <2>1
<1>10. \A k \in 0 .. n : s[k] \in Nat
  <2> HIDE DEF s
  <2> DEFINE P == {k \in 0 .. n : s[k] \in Nat}
  <2>1. 0 \in P
    <3>1. 0 \in 0 .. n
      BY <1>1
    <3> QED BY <1>1, <1>9, <3>1
  <2>2. ASSUME NEW k \in 1 .. n, k - 1 \in P PROVE k \in P
    BY <1>1, <1>9, <2>2
  <2>3. \A k \in 0 .. n : k \in P
    <3> HIDE DEF P, n
    <3> QED BY <1>1, <2>1, <2>2, UpToInduction
  <2> QED BY <2>3
<1> QED BY <1>9, <1>10

\* A list is shorter than what its layers declare just when a flag dropped
\* something already stacked.
LEMMA StepsLost ==
    ASSUME NEW doc, NEW q, StepLayers(doc, q)
    PROVE  Len(FoldStepLayers(doc, q)) < StepSums(doc, q)[Len(q)] <=> Dropping(doc, q) # {}
<1>1. PICK n : n = Len(q)
  OBVIOUS
<1>2. PICK s : s = StackedSteps(doc, q)
  OBVIOUS
<1>3. PICK d : d = StepSums(doc, q)
  OBVIOUS
<1>4. PICK own : own = [k \in 1 .. n |-> doc[q[k]].steps]
  OBVIOUS
<1>5. PICK flag : flag = [k \in 1 .. n |-> doc[q[k]].replace]
  OBVIOUS
<1>6. /\ n \in Nat /\ DOMAIN q = 1 .. n /\ own \in [1 .. n -> Nat]
      /\ flag \in [1 .. n -> BOOLEAN]
  BY <1>1, <1>4, <1>5 DEF StepLayers
<1>7. /\ s[0] = <<>> /\ d[0] = 0
      /\ \A k \in 0 .. n : s[k] \in Seq(Sections) /\ d[k] \in Nat /\ Len(s[k]) \in Nat
  BY <1>1, <1>2, <1>3, StackedStepsIs, StepSumsIs
<1>8. ASSUME NEW k \in 1 .. n
      PROVE  /\ d[k] = d[k - 1] + own[k]
             /\ Len(s[k]) = (IF flag[k] THEN 0 ELSE Len(s[k - 1])) + own[k]
  <2>1. k - 1 \in 0 .. n
    BY <1>6
  <2>2. s[k] = AddSteps(doc, q[k], s[k - 1]) /\ d[k] = d[k - 1] + doc[q[k]].steps
    BY <1>1, <1>2, <1>3, StackedStepsIs, StepSumsIs
  <2>3. Len(AddSteps(doc, q[k], s[k - 1])) =
            (IF doc[q[k]].replace THEN 0 ELSE Len(s[k - 1])) + doc[q[k]].steps
    BY <1>1, <1>7, <2>1, AddStepsIs
  <2> QED BY <1>4, <1>5, <2>2, <2>3
<1> DEFINE Drops(j) == flag[j] /\ Len(s[j - 1]) # 0
           P == {k \in 0 .. n : /\ Len(s[k]) <= d[k]
                                /\ Len(s[k]) < d[k] <=> \E j \in 1 .. k : Drops(j)}
<1>9. 0 \in P
  <2>1. 0 \in 0 .. n /\ Len(s[0]) = 0
    BY <1>6, <1>7
  <2> QED BY <1>7, <2>1
<1>10. ASSUME NEW k \in 1 .. n, k - 1 \in P PROVE k \in P
  <2>1. /\ k - 1 \in 0 .. n /\ k \in 0 .. n /\ own[k] \in Nat
        /\ Len(s[k]) \in Nat /\ d[k] \in Nat /\ Len(s[k - 1]) \in Nat /\ d[k - 1] \in Nat
    BY <1>6, <1>7
  <2>2. /\ Len(s[k - 1]) <= d[k - 1]
        /\ Len(s[k - 1]) < d[k - 1] <=> \E j \in 1 .. k - 1 : Drops(j)
    BY <1>10
  <2>3. (\E j \in 1 .. k : Drops(j)) <=> Drops(k) \/ \E j \in 1 .. k - 1 : Drops(j)
    <3> HIDE DEF Drops
    <3>1. \A j \in 1 .. k : j = k \/ j \in 1 .. k - 1
      BY <1>6
    <3>2. \A j \in 1 .. k - 1 : j \in 1 .. k
      BY <1>6
    <3>3. k \in 1 .. k
      BY <1>6
    <3> QED BY <3>1, <3>2, <3>3
  <2>4. CASE flag[k]
    <3>1. Len(s[k]) = own[k] /\ d[k] = d[k - 1] + own[k]
      BY <1>8, <2>1, <2>4
    <3>2. Len(s[k]) <= d[k] /\ (Len(s[k]) < d[k] <=> d[k - 1] > 0)
      BY <2>1, <3>1
    <3>3. d[k - 1] > 0 <=> Len(s[k - 1]) # 0 \/ Len(s[k - 1]) < d[k - 1]
      BY <2>1, <2>2
    <3> QED BY <2>1, <2>2, <2>3, <2>4, <3>2, <3>3
  <2>5. CASE ~flag[k]
    <3>1. Len(s[k]) = Len(s[k - 1]) + own[k] /\ d[k] = d[k - 1] + own[k]
      BY <1>8, <2>1, <2>5
    <3>2. Len(s[k]) <= d[k] /\ (Len(s[k]) < d[k] <=> Len(s[k - 1]) < d[k - 1])
      BY <2>1, <2>2, <3>1
    <3> QED BY <2>1, <2>2, <2>3, <2>5, <3>2
  <2> QED BY <2>4, <2>5
<1>11. n \in P
  <2>1. n \in 0 .. n
    BY <1>6
  <2> HIDE DEF P
  <2> QED BY <1>6, <1>9, <1>10, <2>1, UpToInduction
<1>12. Dropping(doc, q) = {j \in 1 .. n : Drops(j)}
  <2>1. \A j \in 1 .. n : s[j - 1] # <<>> <=> Len(s[j - 1]) # 0
    <3> SUFFICES ASSUME NEW j \in 1 .. n PROVE s[j - 1] # <<>> <=> Len(s[j - 1]) # 0
      OBVIOUS
    <3>1. j - 1 \in 0 .. n
      BY <1>6
    <3>2. s[j - 1] \in Seq(Sections)
      BY <1>7, <3>1
    <3> QED BY <3>2
  <2>2. \A j \in 1 .. n : doc[q[j]].replace <=> flag[j]
    BY <1>5
  <2> QED BY <1>2, <1>6, <2>1, <2>2 DEF Dropping
<1> QED BY <1>1, <1>2, <1>3, <1>11, <1>12 DEF FoldStepLayers

LEMMA FirstOfLayersIs ==
    ASSUME NEW q \in Seq(Sections), NEW ks \in SUBSET (1 .. Len(q))
    PROVE  /\ FirstOfLayers(q, ks) # "none" <=> ks # {}
           /\ ks # {} => \E k \in ks : FirstOfLayers(q, ks) = q[k]
<1>1. CASE ks = {}
  BY <1>1 DEF FirstOfLayers
<1>2. CASE ks # {}
  <2>1. Len(q) \in Nat /\ IsFiniteSet(1 .. Len(q)) /\ \A i \in 1 .. Len(q) : i \in Nat
    BY FS_Interval
  <2>2. ks \in SUBSET Nat /\ IsFiniteSet(ks)
    BY <2>1, FS_Subset
  <2>3. \E k \in ks : \A j \in ks : k <= j
    BY <1>2, <2>2, Extremes
  <2>4. PICK k \in ks : FirstOfLayers(q, ks) = q[k]
    BY <1>2, <2>3 DEF FirstOfLayers
  <2>5. q[k] \in Sections
    BY <2>4
  <2>6. "none" \notin Sections
    BY SectionAssumption DEF Sections
  <2> QED BY <1>2, <2>4, <2>5, <2>6
<1> QED BY <1>1, <1>2

\* The layers of the route: its declared sections in order, the first of them
\* the only one that can be global.
LEMMA RouteLayers ==
    ASSUME NEW doc, NEW names \in Memberships, NEW q, q = Layers(doc, names)
    PROVE  /\ Ordered(q) /\ q \in Seq(Sections) /\ Len(q) \in Nat /\ DOMAIN q = 1 .. Len(q)
           /\ \A k \in 1 .. Len(q) : q[k] \in Named(names) /\ q[k] \in Sections
                                     /\ doc[q[k]].declared
           /\ \A s \in Named(names) : doc[s].declared => \E k \in 1 .. Len(q) : q[k] = s
           /\ \A k \in 2 .. Len(q) : q[k] # "global"
<1>1. names \in Seq(Bundles)
  BY SectionAssumption
<1>2. Ordered(q) /\ Members(q) = {s \in Named(names) : doc[s].declared}
  BY <1>1, LayersOf
<1>3. q \in Seq(Sections) /\ Len(q) \in Nat /\ DOMAIN q = 1 .. Len(q)
      /\ \A k \in 1 .. Len(q) : q[k] \in Sections
  BY <1>2 DEF Ordered
<1>4. ASSUME NEW k \in 2 .. Len(q) PROVE q[k] # "global"
  <2>1. 1 \in 1 .. Len(q) /\ k \in 1 .. Len(q) /\ 1 < k
    BY <1>3
  <2>2. Precedes(q[1], q[k])
    BY <1>2, <2>1 DEF Ordered
  <2>3. "global" \notin Bundles
    BY SectionAssumption
  <2>4. Level("global") = 0 /\ ~(Level(q[1]) < 0)
    BY DEF Level
  <2> QED BY <2>2, <2>3, <2>4 DEF Precedes
<1> QED BY <1>2, <1>3, <1>4 DEF Members

LEMMA StepLayersOf ==
    ASSUME NEW doc \in [Sections -> StepBlocks], NEW names \in Memberships
    PROVE  StepLayers(doc, Layers(doc, names))
<1>1. PICK q : q = Layers(doc, names)
  OBVIOUS
<1>2. /\ q \in Seq(Sections)
      /\ \A k \in 1 .. Len(q) : q[k] \in Sections /\ doc[q[k]].declared
  BY <1>1, RouteLayers
<1>3. ASSUME NEW k \in 1 .. Len(q)
      PROVE  doc[q[k]].steps \in Nat /\ doc[q[k]].replace \in BOOLEAN
  <2>1. doc[q[k]] \in StepBlocks /\ doc[q[k]] # Absent
    BY <1>2 DEF Absent
  <2> QED BY <2>1, SectionAssumption
<1> QED BY <1>1, <1>2, <1>3 DEF StepLayers

\* dropped_inherited_authentication reports just when the route, without a flag
\* of its own, runs fewer steps than declared.
LEMMA AuthenticationReport ==
    ASSUME NEW doc \in [Sections -> StepBlocks], NEW names \in Memberships
    PROVE  DroppedAuthentication(doc, names) # "none"
               <=> Len(FoldStepLayers(doc, Layers(doc, names))) < DeclaredSteps(doc, names) /\ ~RouteReplaces(doc)
<1>1. PICK q : q = Layers(doc, names)
  OBVIOUS
<1>2. /\ q \in Seq(Sections) /\ Len(q) \in Nat /\ DOMAIN q = 1 .. Len(q)
      /\ \A k \in 1 .. Len(q) : q[k] \in Sections /\ doc[q[k]].declared
      /\ \A k \in 2 .. Len(q) : q[k] # "global"
  BY <1>1, RouteLayers
<1>3. StepLayers(doc, q)
  BY <1>1, StepLayersOf
<1>4. Len(FoldStepLayers(doc, q)) < DeclaredSteps(doc, names) <=> Dropping(doc, q) # {}
  BY <1>1, <1>3, StepsLost DEF DeclaredSteps
<1>5. CASE RouteReplaces(doc)
  BY <1>5 DEF DroppedAuthentication
<1>6. CASE ~RouteReplaces(doc)
  <2> DEFINE away == {k \in Dropping(doc, q) : AwayFromTheRoute(q[k])}
  <2>1. ASSUME NEW k \in Dropping(doc, q) PROVE AwayFromTheRoute(q[k])
    <3>1. k \in 1 .. Len(q) /\ doc[q[k]].replace /\ StackedSteps(doc, q)[k - 1] # <<>>
      BY <1>2 DEF Dropping
    <3>2. k # 1
      BY <1>3, <3>1, StackedStepsIs
    <3>3. q[k] # "global"
      BY <1>2, <3>1, <3>2
    <3>4. q[k] # "route"
      BY <1>2, <1>6, <3>1 DEF RouteReplaces
    <3> QED BY <1>2, <3>1, <3>3, <3>4 DEF AwayFromTheRoute, Sections
  <2>2. away = Dropping(doc, q)
    BY <2>1
  <2>3. DroppedAuthentication(doc, names) = FirstOfLayers(q, away)
    BY <1>1, <1>6 DEF DroppedAuthentication
  <2>4. Dropping(doc, q) \in SUBSET (1 .. Len(q))
    BY <1>2 DEF Dropping
  <2> HIDE DEF away
  <2>5. DroppedAuthentication(doc, names) # "none" <=> Dropping(doc, q) # {}
    BY <1>2, <2>2, <2>3, <2>4, FirstOfLayersIs
  <2> QED BY <1>1, <1>4, <1>6, <2>5
<1> QED BY <1>5, <1>6

\* dropped_inherited_rate_limits reports just when the route runs fewer limits
\* than declared, and names a section with the flag.
LEMMA LimitReport ==
    ASSUME NEW doc \in [Sections -> StepBlocks], NEW names \in Memberships
    PROVE  /\ DroppedRateLimits(doc, names) # "none"
                  <=> Len(FoldStepLayers(doc, Layers(doc, names))) < DeclaredSteps(doc, names)
           /\ DroppedRateLimits(doc, names) # "none" => doc[DroppedRateLimits(doc, names)].replace
<1>1. PICK q : q = Layers(doc, names)
  OBVIOUS
<1>2. q \in Seq(Sections) /\ DOMAIN q = 1 .. Len(q)
  BY <1>1, RouteLayers
<1>3. StepLayers(doc, q)
  BY <1>1, StepLayersOf
<1>4. Len(FoldStepLayers(doc, q)) < DeclaredSteps(doc, names) <=> Dropping(doc, q) # {}
  BY <1>1, <1>3, StepsLost DEF DeclaredSteps
<1>5. /\ Dropping(doc, q) \in SUBSET (1 .. Len(q))
      /\ \A k \in Dropping(doc, q) : doc[q[k]].replace
  BY <1>2 DEF Dropping
<1>6. /\ FirstOfLayers(q, Dropping(doc, q)) # "none" <=> Dropping(doc, q) # {}
      /\ Dropping(doc, q) # {} => \E k \in Dropping(doc, q) : FirstOfLayers(q, Dropping(doc, q)) = q[k]
  BY <1>2, <1>5, FirstOfLayersIs
<1>7. DroppedRateLimits(doc, names) = IF \E k \in Dropping(doc, q) : q[k] = "route" THEN "route"
                                                             ELSE FirstOfLayers(q, Dropping(doc, q))
  BY <1>1 DEF DroppedRateLimits
<1>8. CASE \E k \in Dropping(doc, q) : q[k] = "route"
  BY <1>1, <1>4, <1>5, <1>7, <1>8
<1>9. CASE ~\E k \in Dropping(doc, q) : q[k] = "route"
  BY <1>1, <1>4, <1>5, <1>6, <1>7, <1>9
<1> QED BY <1>8, <1>9

-----------------------------------------------------------------------------
(* SectionLayers: the assertions contract.                                 *)

NamedIn(doc, s) == {Lower(h) : h \in doc[s].headers}
HeaderEntries(doc) == [name : UNION {NamedIn(doc, s) : s \in Sections}, from : Sections]
StripPatterns(doc) == UNION {doc[s].strip : s \in Sections}
ContractSet(doc) == [known : {TRUE}, steps : {<<>>}, headers : SUBSET HeaderEntries(doc),
                strip : SUBSET StripPatterns(doc)]

LEMMA AddAssertionsIs ==
    ASSUME NEW doc, NEW s \in Sections, doc[s].replace \in BOOLEAN, NEW c \in ContractSet(doc)
    PROVE  LET d == AddAssertions(doc, s, c) IN
           /\ d \in ContractSet(doc)
           /\ d.headers = {e \in c.headers : ~doc[s].replace /\ e.name \notin NamedIn(doc, s)}
                              \cup {[name |-> h, from |-> s] : h \in NamedIn(doc, s)}
           /\ d.strip = {x \in c.strip : ~doc[s].replace} \cup doc[s].strip
<1> DEFINE held == IF doc[s].replace THEN Unresolved ELSE c
           new == {e \in held.headers : e.name \notin NamedIn(doc, s)}
                      \cup {[name |-> h, from |-> s] : h \in NamedIn(doc, s)}
           gone == held.strip \cup doc[s].strip
           d == [c EXCEPT !.headers = new, !.strip = gone]
<1>1. AddAssertions(doc, s, c) = d
  BY DEF AddAssertions, NamedIn
<1>2. held.headers = {e \in c.headers : ~doc[s].replace}
      /\ held.strip = {x \in c.strip : ~doc[s].replace}
  BY DEF Unresolved, ContractSet
<1>3. new = {e \in c.headers : ~doc[s].replace /\ e.name \notin NamedIn(doc, s)}
                \cup {[name |-> h, from |-> s] : h \in NamedIn(doc, s)}
  BY <1>2
<1>4. gone = {x \in c.strip : ~doc[s].replace} \cup doc[s].strip
  BY <1>2
<1>5. \A h \in NamedIn(doc, s) : [name |-> h, from |-> s] \in HeaderEntries(doc)
  BY DEF HeaderEntries
<1>6. c.headers \subseteq HeaderEntries(doc) /\ c.strip \subseteq StripPatterns(doc)
  BY DEF ContractSet
<1>7. new \in SUBSET HeaderEntries(doc)
  BY <1>3, <1>5, <1>6
<1>8. gone \in SUBSET StripPatterns(doc)
  BY <1>4, <1>6 DEF StripPatterns
<1> HIDE DEF new, gone
<1>9. d \in ContractSet(doc) /\ d.headers = new /\ d.strip = gone
  BY <1>7, <1>8 DEF ContractSet
<1> QED BY <1>1, <1>3, <1>4, <1>9

ContractLayers(doc, q) ==
    q \in Seq(Sections) /\ \A k \in 1 .. Len(q) : doc[q[k]].replace \in BOOLEAN

\* The loop of resolve_assertions_for_route, round by round.
LEMMA ContractsIs ==
    ASSUME NEW doc, NEW q, ContractLayers(doc, q)
    PROVE  /\ Contracts(doc, q)[0] = [Unresolved EXCEPT !.known = TRUE]
           /\ \A k \in 1 .. Len(q) : Contracts(doc, q)[k] = AddAssertions(doc, q[k], Contracts(doc, q)[k - 1])
           /\ \A k \in 0 .. Len(q) : Contracts(doc, q)[k] \in ContractSet(doc)
<1> DEFINE n == Len(q)
           none == [Unresolved EXCEPT !.known = TRUE]
           body == [k \in 1 .. n |-> [x \in ContractSet(doc) |-> AddAssertions(doc, q[k], x)]]
           After(f) == [k \in 0 .. Len(q) |->
                          IF k = 0 THEN [Unresolved EXCEPT !.known = TRUE]
                                   ELSE AddAssertions(doc, q[k], f[k - 1])]
<1>1. n \in Nat /\ none \in ContractSet(doc)
  <2>1. n \in Nat
    BY DEF ContractLayers
  <2>2. none \in ContractSet(doc)
    BY DEF ContractSet, Unresolved
  <2> QED BY <2>1, <2>2
<1>2. \A k \in 1 .. n : \A x \in ContractSet(doc) : AddAssertions(doc, q[k], x) \in ContractSet(doc)
  <2> SUFFICES ASSUME NEW k \in 1 .. n, NEW x \in ContractSet(doc)
               PROVE  AddAssertions(doc, q[k], x) \in ContractSet(doc)
    OBVIOUS
  <2>1. q[k] \in Sections /\ doc[q[k]].replace \in BOOLEAN
    BY DEF ContractLayers
  <2> QED BY <2>1, AddAssertionsIs
<1> HIDE DEF none
<1>3. body \in [1 .. n -> [ContractSet(doc) -> ContractSet(doc)]]
  BY <1>2
<1>4. PICK f \in [0 .. n -> ContractSet(doc)] : RunOf(f, n, none, body)
  <2> HIDE DEF n, body
  <2> QED BY <1>1, <1>3, LoopRuns
<1>5. \A k \in 1 .. n : k - 1 \in 0 .. n /\ k # 0
  BY <1>1
<1>6. \A k \in 1 .. n : f[k] = AddAssertions(doc, q[k], f[k - 1])
  BY <1>4, <1>5 DEF RunOf
<1>7. f = After(f)
  <2>1. \A k \in 0 .. n : f[k] = IF k = 0 THEN none ELSE AddAssertions(doc, q[k], f[k - 1])
    BY <1>1, <1>4, <1>6 DEF RunOf
  <2> QED BY <1>4, <2>1 DEF none
<1>8. \E g : g = After(g)
  BY <1>7
<1>9. Contracts(doc, q) = After(Contracts(doc, q))
  BY <1>8, Zenon DEF Contracts
<1> DEFINE s == Contracts(doc, q)
<1>10. s[0] = none /\ \A k \in 1 .. n : s[k] = AddAssertions(doc, q[k], s[k - 1])
  <2> HIDE DEF s
  <2>1. s = After(s)
    BY <1>9 DEF s
  <2>2. s = [k \in 0 .. n |-> IF k = 0 THEN none ELSE AddAssertions(doc, q[k], s[k - 1])]
    BY <2>1 DEF none
  <2>3. 0 \in 0 .. n /\ \A k \in 1 .. n : k \in 0 .. n
    BY <1>1
  <2>4. s[0] = none
    BY <2>2, <2>3
  <2>5. ASSUME NEW k \in 1 .. n PROVE s[k] = AddAssertions(doc, q[k], s[k - 1])
    BY <1>5, <2>2, <2>3
  <2> QED BY <2>4, <2>5
<1>11. \A k \in 0 .. n : s[k] \in ContractSet(doc)
  <2> HIDE DEF s
  <2> DEFINE P == {k \in 0 .. n : s[k] \in ContractSet(doc)}
  <2>1. 0 \in P
    <3>1. 0 \in 0 .. n
      BY <1>1
    <3> QED BY <1>1, <1>10, <3>1
  <2>2. ASSUME NEW k \in 1 .. n, k - 1 \in P PROVE k \in P
    <3>1. AddAssertions(doc, q[k], s[k - 1]) \in ContractSet(doc)
      BY <1>2, <2>2
    <3> QED BY <1>1, <1>10, <3>1
  <2>3. \A k \in 0 .. n : k \in P
    <3> HIDE DEF P, n
    <3> QED BY <1>1, <2>1, <2>2, UpToInduction
  <2> QED BY <2>3
<1> QED BY <1>10, <1>11 DEF none

\* One round on what the contract holds: d is left of c by section s.
Round(doc, s, c, d) ==
    /\ d.headers = {e \in c.headers : ~doc[s].replace /\ e.name \notin NamedIn(doc, s)}
                      \cup {[name |-> h, from |-> s] : h \in NamedIn(doc, s)}
    /\ d.strip = {x \in c.strip : ~doc[s].replace} \cup doc[s].strip

LEMMA ContractRound ==
    ASSUME NEW doc, NEW q, ContractLayers(doc, q), NEW k \in 1 .. Len(q)
    PROVE  Round(doc, q[k], Contracts(doc, q)[k - 1], Contracts(doc, q)[k])
<1>1. q[k] \in Sections /\ doc[q[k]].replace \in BOOLEAN /\ Len(q) \in Nat
  BY DEF ContractLayers
<1>2. k - 1 \in 0 .. Len(q)
  BY <1>1
<1>3. /\ Contracts(doc, q)[k - 1] \in ContractSet(doc)
      /\ Contracts(doc, q)[k] = AddAssertions(doc, q[k], Contracts(doc, q)[k - 1])
  BY <1>2, ContractsIs
<1> QED BY <1>1, <1>3, AddAssertionsIs DEF Round

LEMMA ContractLayersOf ==
    ASSUME NEW doc \in [Sections -> HeaderBlocks], NEW names \in Memberships
    PROVE  ContractLayers(doc, Layers(doc, names))
<1>1. PICK q : q = Layers(doc, names)
  OBVIOUS
<1>2. /\ q \in Seq(Sections)
      /\ \A k \in 1 .. Len(q) : q[k] \in Sections /\ doc[q[k]].declared
  BY <1>1, RouteLayers
<1>3. ASSUME NEW k \in 1 .. Len(q) PROVE doc[q[k]].replace \in BOOLEAN
  <2>1. doc[q[k]] \in HeaderBlocks /\ doc[q[k]] # Absent
    BY <1>2 DEF Absent
  <2> QED BY <2>1, SectionAssumption
<1> QED BY <1>1, <1>2, <1>3 DEF ContractLayers

\* Where dropped_inherited_assertions_for reports nothing, and the route has no
\* flag, every name and pattern its sections declare is in the contract.
LEMMA AssertionReport ==
    ASSUME NEW doc \in [Sections -> HeaderBlocks], NEW names \in Memberships, ~RouteReplaces(doc),
           DroppedAssertions(doc, names) = "none", NEW q, q = Layers(doc, names)
    PROVE  \A k \in 1 .. Len(q) :
              /\ \A h \in NamedIn(doc, q[k]) : \E e \in ResolveAssertions(doc, q).headers : e.name = h
              /\ doc[q[k]].strip \subseteq ResolveAssertions(doc, q).strip
<1>1. /\ q \in Seq(Sections) /\ Len(q) \in Nat /\ DOMAIN q = 1 .. Len(q)
      /\ \A k \in 1 .. Len(q) : q[k] \in Sections /\ doc[q[k]].declared
      /\ \A k \in 2 .. Len(q) : q[k] # "global"
  BY RouteLayers
<1>2. ContractLayers(doc, q)
  BY ContractLayersOf
<1>3. PICK c : c = Contracts(doc, q)
  OBVIOUS
<1>4. ASSUME NEW k \in 1 .. Len(q), doc[q[k]].replace
      PROVE  c[k - 1].headers = {} /\ c[k - 1].strip = {}
  <2>1. CASE k = 1
    <3>1. c[0] = [Unresolved EXCEPT !.known = TRUE]
      BY <1>2, <1>3, ContractsIs
    <3> QED BY <2>1, <3>1 DEF Unresolved
  <2>2. CASE k # 1
    <3> DEFINE ks == {j \in DOMAIN q : /\ AwayFromTheRoute(q[j]) /\ doc[q[j]].replace
                                       /\ HasContent(c[j - 1])}
    <3>1. q[k] # "global" /\ q[k] # "route"
      BY <1>1, <1>4, <2>2 DEF RouteReplaces
    <3>2. AwayFromTheRoute(q[k])
      BY <1>1, <3>1 DEF AwayFromTheRoute, Sections
    <3>3. FirstOfLayers(q, ks) = "none"
      BY <1>3 DEF DroppedAssertions
    <3>4. ks \in SUBSET (1 .. Len(q))
      BY <1>1
    <3>5. ks = {}
      <4> HIDE DEF ks
      <4> QED BY <1>1, <3>3, <3>4, FirstOfLayersIs
    <3>6. ~HasContent(c[k - 1])
      BY <1>1, <1>4, <3>2, <3>5
    <3> QED BY <3>6 DEF HasContent
  <2> QED BY <2>1, <2>2
<1> DEFINE Has(k, i) == /\ \A h \in NamedIn(doc, q[i]) : \E e \in c[k].headers : e.name = h
                        /\ doc[q[i]].strip \subseteq c[k].strip
           P == {k \in 0 .. Len(q) : \A i \in 1 .. k : Has(k, i)}
<1>5. 0 \in P
  BY <1>1
<1>6. ASSUME NEW k \in 1 .. Len(q), k - 1 \in P PROVE k \in P
  <2>1. /\ c[k].headers = {e \in c[k - 1].headers : ~doc[q[k]].replace /\ e.name \notin NamedIn(doc, q[k])}
                              \cup {[name |-> h, from |-> q[k]] : h \in NamedIn(doc, q[k])}
        /\ c[k].strip = {x \in c[k - 1].strip : ~doc[q[k]].replace} \cup doc[q[k]].strip
    BY <1>2, <1>3, ContractRound DEF Round
  <2>2. ASSUME NEW h \in NamedIn(doc, q[k]) PROVE \E e \in c[k].headers : e.name = h
    <3>1. [name |-> h, from |-> q[k]] \in c[k].headers
      BY <2>1, <2>2
    <3> QED BY <3>1
  <2>3. Has(k, k)
    BY <2>1, <2>2
  <2>4. ASSUME NEW i \in 1 .. k - 1 PROVE Has(k, i)
    <3>1. Has(k - 1, i)
      BY <1>6, <2>4
    <3>2. CASE doc[q[k]].replace
      <4>1. c[k - 1].headers = {} /\ c[k - 1].strip = {}
        BY <1>4, <3>2
      <4> QED BY <3>1, <4>1
    <3>3. CASE ~doc[q[k]].replace
      <4>1. ASSUME NEW h \in NamedIn(doc, q[i]), h \notin NamedIn(doc, q[k])
            PROVE  \E e \in c[k].headers : e.name = h
        BY <2>1, <3>1, <3>3, <4>1
      <4>2. \A h \in NamedIn(doc, q[i]) : \E e \in c[k].headers : e.name = h
        BY <2>2, <4>1
      <4>3. doc[q[i]].strip \subseteq c[k].strip
        BY <2>1, <3>1, <3>3
      <4> QED BY <4>2, <4>3
    <3> QED BY <3>2, <3>3
  <2>5. \A i \in 1 .. k : i = k \/ i \in 1 .. k - 1
    BY <1>1
  <2>6. k \in 0 .. Len(q)
    BY <1>1
  <2> HIDE DEF Has
  <2> QED BY <2>3, <2>4, <2>5, <2>6
<1>7. Len(q) \in P
  <2>1. Len(q) \in 0 .. Len(q)
    BY <1>1
  <2> HIDE DEF P
  <2> QED BY <1>1, <1>5, <1>6, <2>1, UpToInduction
<1> QED BY <1>3, <1>7 DEF ResolveAssertions

\* What the first k layers leave in the contract: an entry of a layer that no
\* later one drops or overrides, a pattern of one that no later one drops.
LeftEntry(doc, q, k, e) ==
    \E i \in 1 .. k : /\ e.from = q[i] /\ e.name \in NamedIn(doc, q[i])
                      /\ \A j \in i + 1 .. k :
                            ~doc[q[j]].replace /\ e.name \notin NamedIn(doc, q[j])
LeftPattern(doc, q, k, x) ==
    \E i \in 1 .. k : /\ x \in doc[q[i]].strip
                      /\ \A j \in i + 1 .. k : ~doc[q[j]].replace

LEMMA LeftRound ==
    ASSUME NEW doc, NEW q, NEW k \in Nat, k >= 1, NEW e, NEW x
    PROVE  /\ LeftEntry(doc, q, k, e) <=>
                  \/ e.from = q[k] /\ e.name \in NamedIn(doc, q[k])
                  \/ /\ LeftEntry(doc, q, k - 1, e)
                     /\ ~doc[q[k]].replace /\ e.name \notin NamedIn(doc, q[k])
           /\ LeftPattern(doc, q, k, x) <=>
                  x \in doc[q[k]].strip \/ (LeftPattern(doc, q, k - 1, x) /\ ~doc[q[k]].replace)
<1>1. \A i \in 1 .. k : i = k \/ (i \in 1 .. k - 1 /\ k \in i + 1 .. k)
  OBVIOUS
<1>2. k \in 1 .. k /\ k + 1 .. k = {} /\ \A i \in 1 .. k - 1 : i \in 1 .. k
  OBVIOUS
<1>3. \A i \in 1 .. k - 1 : \A j \in i + 1 .. k : j = k \/ j \in i + 1 .. k - 1
  OBVIOUS
<1>4. \A i \in 1 .. k - 1 : \A j \in i + 1 .. k - 1 : j \in i + 1 .. k
  OBVIOUS
<1>5. LeftEntry(doc, q, k, e) =>
          \/ e.from = q[k] /\ e.name \in NamedIn(doc, q[k])
          \/ /\ LeftEntry(doc, q, k - 1, e)
             /\ ~doc[q[k]].replace /\ e.name \notin NamedIn(doc, q[k])
  BY <1>1, <1>4 DEF LeftEntry
<1>6. e.from = q[k] /\ e.name \in NamedIn(doc, q[k]) => LeftEntry(doc, q, k, e)
  BY <1>2 DEF LeftEntry
<1>7. LeftEntry(doc, q, k - 1, e) /\ ~doc[q[k]].replace /\ e.name \notin NamedIn(doc, q[k])
          => LeftEntry(doc, q, k, e)
  BY <1>2, <1>3 DEF LeftEntry
<1>8. LeftPattern(doc, q, k, x) =>
          x \in doc[q[k]].strip \/ (LeftPattern(doc, q, k - 1, x) /\ ~doc[q[k]].replace)
  BY <1>1, <1>4 DEF LeftPattern
<1>9. x \in doc[q[k]].strip => LeftPattern(doc, q, k, x)
  BY <1>2 DEF LeftPattern
<1>10. LeftPattern(doc, q, k - 1, x) /\ ~doc[q[k]].replace => LeftPattern(doc, q, k, x)
  BY <1>2, <1>3 DEF LeftPattern
<1> QED BY <1>5, <1>6, <1>7, <1>8, <1>9, <1>10

\* The loop computes just that.
LEMMA ContractHolds ==
    ASSUME NEW doc, NEW q, ContractLayers(doc, q)
    PROVE  /\ \A e : e \in ResolveAssertions(doc, q).headers <=>
                        e \in HeaderEntries(doc) /\ LeftEntry(doc, q, Len(q), e)
           /\ \A x : x \in ResolveAssertions(doc, q).strip <=> LeftPattern(doc, q, Len(q), x)
           /\ ResolveAssertions(doc, q) \in ContractSet(doc)
<1>1. PICK n : n = Len(q)
  OBVIOUS
<1>2. n \in Nat /\ \A k \in 1 .. n : q[k] \in Sections
  BY <1>1 DEF ContractLayers
<1>3. PICK c : c = Contracts(doc, q)
  OBVIOUS
<1> DEFINE Is(k) == /\ \A e : e \in c[k].headers <=> e \in HeaderEntries(doc) /\ LeftEntry(doc, q, k, e)
                    /\ \A x : x \in c[k].strip <=> LeftPattern(doc, q, k, x)
           P == {k \in 0 .. n : Is(k)}
<1>4. 0 \in P
  <2>1. c[0] = [Unresolved EXCEPT !.known = TRUE]
    BY <1>3, ContractsIs
  <2>2. c[0].headers = {} /\ c[0].strip = {}
    BY <2>1 DEF Unresolved
  <2>3. 1 .. 0 = {} /\ 0 \in 0 .. n
    BY <1>2
  <2> QED BY <2>2, <2>3 DEF LeftEntry, LeftPattern
<1>5. ASSUME NEW k \in 1 .. n, k - 1 \in P PROVE k \in P
  <2>1. /\ c[k].headers = {e \in c[k - 1].headers : ~doc[q[k]].replace /\ e.name \notin NamedIn(doc, q[k])}
                              \cup {[name |-> h, from |-> q[k]] : h \in NamedIn(doc, q[k])}
        /\ c[k].strip = {x \in c[k - 1].strip : ~doc[q[k]].replace} \cup doc[q[k]].strip
    BY <1>1, <1>2, <1>3, ContractRound DEF Round
  <2>2. Is(k - 1)
    BY <1>5
  <2>3. k \in Nat /\ k >= 1 /\ k \in 0 .. n /\ q[k] \in Sections
    BY <1>2
  <2>4. ASSUME NEW e
        PROVE  e \in {[name |-> h, from |-> q[k]] : h \in NamedIn(doc, q[k])} <=>
                   e \in HeaderEntries(doc) /\ e.from = q[k] /\ e.name \in NamedIn(doc, q[k])
    BY <2>3 DEF HeaderEntries
  <2>5. ASSUME NEW e PROVE e \in c[k].headers <=> e \in HeaderEntries(doc) /\ LeftEntry(doc, q, k, e)
    <3>1. LeftEntry(doc, q, k, e) <=>
              \/ e.from = q[k] /\ e.name \in NamedIn(doc, q[k])
              \/ LeftEntry(doc, q, k - 1, e) /\ ~doc[q[k]].replace /\ e.name \notin NamedIn(doc, q[k])
      BY <2>3, LeftRound
    <3>2. e \in c[k - 1].headers <=> e \in HeaderEntries(doc) /\ LeftEntry(doc, q, k - 1, e)
      BY <2>2
    <3>3. e \in c[k].headers <=>
              \/ e \in c[k - 1].headers /\ ~doc[q[k]].replace /\ e.name \notin NamedIn(doc, q[k])
              \/ e \in HeaderEntries(doc) /\ e.from = q[k] /\ e.name \in NamedIn(doc, q[k])
      BY <2>1, <2>4
    <3> QED BY <3>1, <3>2, <3>3
  <2>6. ASSUME NEW x PROVE x \in c[k].strip <=> LeftPattern(doc, q, k, x)
    <3>1. LeftPattern(doc, q, k, x) <=>
              x \in doc[q[k]].strip \/ (LeftPattern(doc, q, k - 1, x) /\ ~doc[q[k]].replace)
      BY <2>3, LeftRound
    <3> QED BY <2>1, <2>2, <3>1
  <2> QED BY <2>3, <2>5, <2>6
<1>6. n \in P
  <2>1. n \in 0 .. n
    BY <1>2
  <2> HIDE DEF P
  <2> QED BY <1>2, <1>4, <1>5, <2>1, UpToInduction
<1>7. c[n] \in ContractSet(doc)
  BY <1>1, <1>2, <1>3, ContractsIs
<1> QED BY <1>1, <1>3, <1>6, <1>7 DEF ResolveAssertions

\* No two bundles of the route assert one header, and none has the flag.
Apart(doc, names) ==
    /\ \A b \in Bundles : doc[b].declared => ~doc[b].replace
    /\ \A a, b \in Members(names) :
          a # b /\ doc[a].declared /\ doc[b].declared => NamedIn(doc, a) \cap NamedIn(doc, b) = {}

\* The order of bundles takes nothing from what the layers leave.
LEMMA OrderTakesNothing ==
    ASSUME NEW doc, NEW l \in Memberships, NEW m \in Memberships, Members(l) = Members(m), Apart(doc, l),
           NEW q, q = Layers(doc, l), NEW r, r = Layers(doc, m)
    PROVE  /\ \A e : LeftEntry(doc, q, Len(q), e) => LeftEntry(doc, r, Len(r), e)
           /\ \A x : LeftPattern(doc, q, Len(q), x) => LeftPattern(doc, r, Len(r), x)
<1>1. Named(l) = Named(m)
  BY DEF Named
<1>2. /\ Ordered(q) /\ Len(q) \in Nat
      /\ \A k \in 1 .. Len(q) : q[k] \in Named(l) /\ doc[q[k]].declared
      /\ \A s \in Named(l) : doc[s].declared => \E k \in 1 .. Len(q) : q[k] = s
  BY RouteLayers
<1>3. /\ Ordered(r) /\ Len(r) \in Nat
      /\ \A k \in 1 .. Len(r) : r[k] \in Named(l) /\ doc[r[k]].declared
      /\ \A s \in Named(l) : doc[s].declared => \E k \in 1 .. Len(r) : r[k] = s
  BY <1>1, RouteLayers
<1>4. \A s \in Bundles : Level(s) = 2
  BY SectionAssumption DEF Level
<1>5. \A s : Level(s) \in Nat
  BY DEF Level
\* A later layer of one list is a later one of the other, or both are bundles.
<1>6. ASSUME NEW i \in 1 .. Len(q), NEW j \in 1 .. Len(r), NEW k \in j + 1 .. Len(r), r[j] = q[i]
      PROVE  \/ \E p \in i + 1 .. Len(q) : q[p] = r[k]
             \/ q[i] # r[k] /\ q[i] \in Bundles /\ r[k] \in Bundles
  <2>1. k \in 1 .. Len(r) /\ j < k
    BY <1>3
  <2>2. Precedes(q[i], r[k])
    BY <1>3, <1>6, <2>1 DEF Ordered
  <2>3. PICK p \in 1 .. Len(q) : q[p] = r[k]
    BY <1>2, <1>3, <2>1
  <2>4. p \in i + 1 .. Len(q) \/ p = i \/ p < i
    BY <1>2, <2>3
  <2>5. CASE p = i
    <3>1. Precedes(q[i], q[i])
      BY <2>2, <2>3, <2>5
    <3>2. ~(Level(q[i]) < Level(q[i]))
      BY <1>5
    <3> QED BY <3>1, <3>2 DEF Precedes
  <2>6. CASE p < i
    <3>1. Precedes(r[k], q[i])
      BY <1>2, <2>3, <2>6 DEF Ordered
    <3>2. ~(Level(q[i]) < Level(r[k]) /\ Level(r[k]) < Level(q[i]))
      <4>1. PICK a \in Nat, b \in Nat : a = Level(q[i]) /\ b = Level(r[k])
        BY <1>5
      <4> QED BY <4>1
    <3>3. ~(2 < 2)
      OBVIOUS
    <3> QED BY <1>4, <2>2, <3>1, <3>2, <3>3 DEF Precedes
  <2> QED BY <2>3, <2>4, <2>5, <2>6
<1>7. ASSUME NEW a \in Bundles, NEW k \in 1 .. Len(r), r[k] = a
      PROVE  a \in Members(l) /\ doc[a].declared /\ ~doc[a].replace
  <2>1. a \in Named(l) /\ doc[a].declared
    BY <1>3, <1>7
  <2>2. a \notin {"global", "default", "route"}
    BY SectionAssumption
  <2> QED BY <2>1, <2>2 DEF Named, Apart
<1>8. ASSUME NEW e, LeftEntry(doc, q, Len(q), e) PROVE LeftEntry(doc, r, Len(r), e)
  <2>1. PICK i \in 1 .. Len(q) :
            /\ e.from = q[i] /\ e.name \in NamedIn(doc, q[i])
            /\ \A p \in i + 1 .. Len(q) : ~doc[q[p]].replace /\ e.name \notin NamedIn(doc, q[p])
    BY <1>8 DEF LeftEntry
  <2>2. PICK j \in 1 .. Len(r) : r[j] = q[i]
    BY <1>2, <1>3, <2>1
  <2>3. ASSUME NEW k \in j + 1 .. Len(r)
        PROVE  ~doc[r[k]].replace /\ e.name \notin NamedIn(doc, r[k])
    <3>1. CASE \E p \in i + 1 .. Len(q) : q[p] = r[k]
      BY <2>1, <3>1
    <3>2. CASE q[i] # r[k] /\ q[i] \in Bundles /\ r[k] \in Bundles
      <4>1. k \in 1 .. Len(r)
        BY <1>3
      <4>2. /\ r[k] \in Members(l) /\ doc[r[k]].declared /\ ~doc[r[k]].replace
            /\ q[i] \in Members(l) /\ doc[q[i]].declared
        BY <1>7, <2>2, <3>2, <4>1
      <4>3. NamedIn(doc, q[i]) \cap NamedIn(doc, r[k]) = {}
        BY <3>2, <4>2 DEF Apart
      <4> QED BY <2>1, <4>2, <4>3
    <3> QED BY <1>6, <2>2, <3>1, <3>2
  <2> QED BY <2>1, <2>2, <2>3 DEF LeftEntry
<1>9. ASSUME NEW x, LeftPattern(doc, q, Len(q), x) PROVE LeftPattern(doc, r, Len(r), x)
  <2>1. PICK i \in 1 .. Len(q) :
            x \in doc[q[i]].strip /\ \A p \in i + 1 .. Len(q) : ~doc[q[p]].replace
    BY <1>9 DEF LeftPattern
  <2>2. PICK j \in 1 .. Len(r) : r[j] = q[i]
    BY <1>2, <1>3, <2>1
  <2>3. ASSUME NEW k \in j + 1 .. Len(r) PROVE ~doc[r[k]].replace
    <3>1. CASE \E p \in i + 1 .. Len(q) : q[p] = r[k]
      BY <2>1, <3>1
    <3>2. CASE r[k] \in Bundles
      <4>1. k \in 1 .. Len(r)
        BY <1>3
      <4> QED BY <1>7, <3>2, <4>1
    <3> QED BY <1>6, <2>2, <3>1, <3>2
  <2> QED BY <2>1, <2>2, <2>3 DEF LeftPattern
<1> QED BY <1>8, <1>9

\* A document the load accepts keeps its bundles apart.
LEMMA AcceptedApart ==
    ASSUME NEW doc, NEW l \in Memberships, ~BundlesConflict(doc, l),
           \A b \in Bundles : doc[b].declared => ~doc[b].replace
    PROVE  Apart(doc, l)
<1>1. l \in Seq(Bundles)
  BY SectionAssumption
<1>2. PICK b : b = RouteBundleNames(l)
  OBVIOUS
<1>3. b \in Seq(Bundles) /\ Members(b) = Members(l)
  BY <1>1, <1>2, BundleNamesOf
<1>4. ToSet(b) = Members(l)
  <2>1. DOMAIN b = 1 .. Len(b)
    BY <1>3
  <2> QED BY <1>3, <2>1 DEF ToSet, Members
<1>5. ASSUME NEW s \in Members(l), NEW t \in Members(l), s # t, doc[s].declared, doc[t].declared,
             NEW h \in NamedIn(doc, s), h \in NamedIn(doc, t)
      PROVE  FALSE
  <2>1. PICK g1 \in doc[s].headers : Lower(g1) = h
    BY DEF NamedIn
  <2>2. PICK g2 \in doc[t].headers : Lower(g2) = h
    BY <1>5 DEF NamedIn
  <2>3. SameHeader(g1, g2)
    BY <2>1, <2>2 DEF SameHeader
  <2> QED BY <1>2, <1>4, <1>5, <2>1, <2>2, <2>3 DEF BundlesConflict
<1> QED BY <1>5 DEF Apart

LEMMA OrderFree ==
    ASSUME NEW doc \in [Sections -> HeaderBlocks], NEW l \in Memberships, NEW m \in Memberships,
           ToSet(l) = ToSet(m), ~BundlesConflict(doc, l),
           \A b \in Bundles : doc[b].declared => ~doc[b].replace
    PROVE  ResolveAssertions(doc, Layers(doc, l)) = ResolveAssertions(doc, Layers(doc, m))
<1>1. l \in Seq(Bundles) /\ m \in Seq(Bundles)
  BY SectionAssumption
<1>2. Members(l) = Members(m)
  <2>1. DOMAIN l = 1 .. Len(l) /\ DOMAIN m = 1 .. Len(m)
    BY <1>1
  <2> QED BY <2>1 DEF ToSet, Members
<1>3. Apart(doc, l)
  BY AcceptedApart
<1>4. Apart(doc, m)
  BY <1>2, <1>3 DEF Apart
<1>5. PICK q : q = Layers(doc, l)
  OBVIOUS
<1>6. PICK r : r = Layers(doc, m)
  OBVIOUS
<1>7. PICK c : c = ResolveAssertions(doc, q)
  OBVIOUS
<1>8. PICK d : d = ResolveAssertions(doc, r)
  OBVIOUS
<1>9. ContractLayers(doc, q) /\ ContractLayers(doc, r)
  BY <1>5, <1>6, ContractLayersOf
<1>10. \A e : LeftEntry(doc, q, Len(q), e) <=> LeftEntry(doc, r, Len(r), e)
  BY <1>2, <1>3, <1>4, <1>5, <1>6, OrderTakesNothing
<1>11. \A x : LeftPattern(doc, q, Len(q), x) <=> LeftPattern(doc, r, Len(r), x)
  BY <1>2, <1>3, <1>4, <1>5, <1>6, OrderTakesNothing
<1>12. c.headers = d.headers
  <2>1. \A e : e \in c.headers <=> e \in d.headers
    BY <1>7, <1>8, <1>9, <1>10, ContractHolds
  <2> QED BY <2>1
<1>13. c.strip = d.strip
  <2>1. \A x : x \in c.strip <=> x \in d.strip
    BY <1>7, <1>8, <1>9, <1>11, ContractHolds
  <2> QED BY <2>1
<1>14. c \in ContractSet(doc) /\ d \in ContractSet(doc)
  BY <1>7, <1>8, <1>9, ContractHolds
<1>15. c = d
  <2>1. c = [known |-> TRUE, steps |-> <<>>, headers |-> c.headers, strip |-> c.strip]
    BY <1>14 DEF ContractSet
  <2>2. d = [known |-> TRUE, steps |-> <<>>, headers |-> d.headers, strip |-> d.strip]
    BY <1>14 DEF ContractSet
  <2> QED BY <1>12, <1>13, <2>1, <2>2
<1> QED BY <1>5, <1>6, <1>7, <1>8, <1>15

-----------------------------------------------------------------------------
(* SectionLayers: the invariant.                                           *)

\* What the load said and what a request met are those of the document.
SectionInv ==
    /\ SectionTypeOK
    /\ verdict # "unread" => warned = Dropped(chain, block, joined)
    /\ verdict = "accepted" /\ chain = "assertions" => ~BundlesConflict(block, joined)
    /\ inForce = Unresolved \/ (verdict = "accepted" /\ inForce = Resolved(chain, block, joined))

LEMMA DroppedIs ==
    ASSUME NEW which, NEW doc, NEW names \in Memberships
    PROVE  Dropped(which, doc, names) \in Sections \cup {"none"}
<1>1. PICK q : q = Layers(doc, names)
  OBVIOUS
<1>2. q \in Seq(Sections) /\ DOMAIN q = 1 .. Len(q) /\ \A k \in 1 .. Len(q) : q[k] \in Sections
  BY <1>1, RouteLayers
<1>3. ASSUME NEW ks \in SUBSET (DOMAIN q) PROVE FirstOfLayers(q, ks) \in Sections \cup {"none"}
  BY <1>2, FirstOfLayersIs
<1>4. "route" \in Sections
  BY DEF Sections
<1>5. DroppedAuthentication(doc, names) \in Sections \cup {"none"}
  <2>1. {k \in Dropping(doc, q) : AwayFromTheRoute(q[k])} \in SUBSET (DOMAIN q)
    BY DEF Dropping
  <2> QED BY <1>1, <1>3, <2>1 DEF DroppedAuthentication
<1>6. DroppedRateLimits(doc, names) \in Sections \cup {"none"}
  <2>1. Dropping(doc, q) \in SUBSET (DOMAIN q)
    BY DEF Dropping
  <2> QED BY <1>1, <1>3, <1>4, <2>1 DEF DroppedRateLimits
<1>7. DroppedAssertions(doc, names) \in Sections \cup {"none"}
  <2> DEFINE ks == {k \in DOMAIN q : /\ AwayFromTheRoute(q[k]) /\ doc[q[k]].replace
                                     /\ HasContent(Contracts(doc, q)[k - 1])}
  <2>1. ks \in SUBSET (DOMAIN q)
    OBVIOUS
  <2>2. DroppedAssertions(doc, names) = IF RouteReplaces(doc) THEN "none" ELSE FirstOfLayers(q, ks)
    BY <1>1 DEF DroppedAssertions
  <2> HIDE DEF ks
  <2> QED BY <1>3, <2>1, <2>2
<1> QED BY <1>5, <1>6, <1>7 DEF Dropped

LEMMA SectionInitially == SectionInit => SectionInv
BY DEF SectionInit, SectionInv, SectionTypeOK

LEMMA SectionStep == SectionInv /\ [SectionNext]_sectionVars => SectionInv'
<1> SUFFICES ASSUME SectionInv, [SectionNext]_sectionVars PROVE SectionInv'
  OBVIOUS
\* What the document says does not change, nor what follows from it.
<1>1. UNCHANGED <<chain, block, joined>>
  BY DEF SectionNext, LoadSections, RequestResolves, sectionVars
<1>2. UNCHANGED <<Dropped(chain, block, joined), Resolved(chain, block, joined),
                  BundlesConflict(block, joined)>>
  BY <1>1
<1>3. CASE LoadSections
  <2>1. Dropped(chain, block, joined) \in Sections \cup {"none"}
    BY DroppedIs DEF SectionInv, SectionTypeOK
  <2>2. /\ verdict = "unread" /\ warned' = Dropped(chain, block, joined) /\ inForce' = inForce
        /\ verdict' = IF chain = "assertions" /\ BundlesConflict(block, joined) THEN "refused" ELSE "accepted"
    BY <1>3 DEF LoadSections
  <2>3. inForce = Unresolved
    BY <2>2 DEF SectionInv
  <2>4. SectionTypeOK'
    BY <1>1, <2>1, <2>2 DEF SectionInv, SectionTypeOK
  <2> QED BY <1>1, <1>2, <2>2, <2>3, <2>4 DEF SectionInv
<1>4. CASE RequestResolves
  <2>1. verdict = "accepted" /\ inForce' = Resolved(chain, block, joined) /\ UNCHANGED <<verdict, warned>>
    BY <1>4 DEF RequestResolves
  <2>2. SectionTypeOK'
    BY <1>1, <2>1 DEF SectionInv, SectionTypeOK
  <2> QED BY <1>1, <1>2, <2>1, <2>2 DEF SectionInv
<1>5. CASE UNCHANGED sectionVars
  BY <1>1, <1>2, <1>5 DEF SectionInv, SectionTypeOK, sectionVars
<1> QED BY <1>3, <1>4, <1>5 DEF SectionNext

LEMMA ContractFollows == SectionInv => ContractAsDeclared
<1> SUFFICES ASSUME SectionInv PROVE ContractAsDeclared
  OBVIOUS
<1>1. joined \in Memberships /\ chain \in SectionChains
  BY DEF SectionInv, SectionTypeOK
<1>2. inForce.known => verdict = "accepted" /\ inForce = Resolved(chain, block, joined) /\ warned = Dropped(chain, block, joined)
  BY DEF SectionInv, Unresolved
<1>3. chain # "assertions" => block \in [Sections -> StepBlocks]
  BY DEF SectionInv, SectionTypeOK
<1>4. chain = "assertions" => block \in [Sections -> HeaderBlocks]
  BY DEF SectionInv, SectionTypeOK
<1>5. ASSUME chain # "assertions", inForce.known
      PROVE  inForce.steps = FoldStepLayers(block, Layers(block, joined))
  BY <1>2, <1>5 DEF Resolved, Unresolved
<1>6. AuthenticationLossReported
  <2> SUFFICES ASSUME chain = "authentication", inForce.known
               PROVE  warned # "none" <=> Len(inForce.steps) < DeclaredSteps(block, joined) /\ ~RouteReplaces(block)
    BY DEF AuthenticationLossReported
  <2>1. warned = DroppedAuthentication(block, joined)
    BY <1>2 DEF Dropped
  <2> QED BY <1>1, <1>3, <1>5, <2>1, AuthenticationReport
<1>7. LimitLossReported
  <2> SUFFICES ASSUME chain = "rate_limits", inForce.known
               PROVE  /\ warned # "none" <=> Len(inForce.steps) < DeclaredSteps(block, joined)
                      /\ warned # "none" => block[warned].replace
    BY DEF LimitLossReported
  <2>1. warned = DroppedRateLimits(block, joined)
    BY <1>2 DEF Dropped
  <2> QED BY <1>1, <1>3, <1>5, <2>1, LimitReport
<1>8. ASSUME chain = "assertions", inForce.known
      PROVE  /\ inForce = ResolveAssertions(block, Layers(block, joined)) /\ warned = DroppedAssertions(block, joined)
             /\ ~BundlesConflict(block, joined)
  BY <1>2, <1>8 DEF Resolved, Dropped, SectionInv
<1>9. AssertionLossReported
  <2> DEFINE declared == ToSet(Layers(block, joined))
             names == {Lower(h) : h \in UNION {block[s].headers : s \in declared}}
             strips == UNION {block[s].strip : s \in declared}
  <2> SUFFICES ASSUME chain = "assertions", inForce.known, ~RouteReplaces(block), warned = "none"
               PROVE  names \subseteq {e.name : e \in inForce.headers} /\ strips \subseteq inForce.strip
    BY DEF AssertionLossReported
  <2>1. PICK q : q = Layers(block, joined)
    OBVIOUS
  <2>2. \A k \in 1 .. Len(q) :
            /\ \A h \in NamedIn(block, q[k]) : \E e \in ResolveAssertions(block, q).headers : e.name = h
            /\ block[q[k]].strip \subseteq ResolveAssertions(block, q).strip
    BY <1>1, <1>4, <1>8, <2>1, AssertionReport
  <2>3. DOMAIN q = 1 .. Len(q)
    BY <1>1, <2>1, RouteLayers
  <2>4. inForce = ResolveAssertions(block, q)
    BY <1>8, <2>1
  <2>5. ASSUME NEW s \in declared
        PROVE  /\ \A h \in block[s].headers : \E e \in inForce.headers : e.name = Lower(h)
               /\ block[s].strip \subseteq inForce.strip
    <3>1. PICK k \in 1 .. Len(q) : q[k] = s
      BY <2>1, <2>3 DEF ToSet
    <3> QED BY <2>2, <2>4, <3>1 DEF NamedIn
  <2> HIDE DEF declared
  <2>6. strips \subseteq inForce.strip
    BY <2>5
  <2>7. ASSUME NEW h \in UNION {block[s].headers : s \in declared}
        PROVE  Lower(h) \in {e.name : e \in inForce.headers}
    BY <2>5
  <2> QED BY <2>6, <2>7
<1>10. BundleOrderFree
  <2> SUFFICES ASSUME chain = "assertions", inForce.known,
                      \A b \in Bundles : block[b].declared => ~block[b].replace,
                      NEW m \in Memberships, ToSet(m) = ToSet(joined)
               PROVE  ResolveAssertions(block, Layers(block, m)) = inForce
    BY DEF BundleOrderFree
  <2>1. ResolveAssertions(block, Layers(block, joined)) = ResolveAssertions(block, Layers(block, m))
    BY <1>1, <1>4, <1>8, OrderFree
  <2> QED BY <1>8, <2>1
<1> QED BY <1>6, <1>7, <1>9, <1>10 DEF ContractAsDeclared

\* For every document: a route that runs or asserts less than its sections
\* declare is reported by the load, and in what order it names its bundles is of
\* no account (fold_step_layers, resolve_assertions_for_route and the
\* dropped_inherited_* reports of config.rs).
THEOREM ContractAsDeclaredHolds == SectionSpec => []ContractAsDeclared
<1>1. SectionInit => SectionInv
  BY SectionInitially
<1>2. SectionInv /\ [SectionNext]_sectionVars => SectionInv'
  BY SectionStep
<1>3. SectionInv => ContractAsDeclared
  BY ContractFollows
<1> QED BY <1>1, <1>2, <1>3, PTL DEF SectionSpec

-----------------------------------------------------------------------------
(* Evaluator: trees, level by level.                                       *)

\* What holds of a node when it holds of the levels before, holds of every node.
LEMMA LevelInduction ==
    ASSUME NEW T, NEW levels \in Seq(SUBSET T), NEW P,
           ASSUME NEW n \in DOMAIN levels, NEW e \in levels[n], Below(levels, n) \subseteq P
           PROVE  e \in P
    PROVE  UNION Range(levels) \subseteq P
<1> DEFINE N == Len(levels)
           Q == {n \in 0 .. N : \A m \in 1 .. n : levels[m] \subseteq P}
<1>1. N \in Nat /\ DOMAIN levels = 1 .. N
  OBVIOUS
<1>2. 0 \in Q
  BY <1>1
<1>3. ASSUME NEW n \in 1 .. N, n - 1 \in Q PROVE n \in Q
  <2>1. Below(levels, n) \subseteq P
    BY <1>3 DEF Below
  <2>2. levels[n] \subseteq P
    BY <1>1, <2>1
  <2>3. ASSUME NEW m \in 1 .. n PROVE levels[m] \subseteq P
    <3>1. CASE m = n
      BY <2>2, <3>1
    <3>2. CASE m # n
      <4>1. m \in 1 .. n - 1
        BY <3>2
      <4> QED BY <1>3, <4>1
    <3> QED BY <3>1, <3>2
  <2> QED BY <1>1, <2>3
<1>4. \A n \in 0 .. N : n \in Q
  <2> HIDE DEF N, Q
  <2> QED BY <1>1, <1>2, <1>3, UpToInduction
<1>5. N \in Q
  BY <1>1, <1>4
<1> QED BY <1>1, <1>5 DEF Range

\* A recursion over the nodes S whose body looks only at the levels before.
Recursion(levels, S, V, body) ==
    /\ levels \in Seq(SUBSET S) /\ S = UNION Range(levels)
    /\ V # {} /\ body \in [[S -> V] -> [S -> V]]
    /\ \A n \in DOMAIN levels : \A e \in levels[n] : \A f, g \in [S -> V] :
         (\A d \in Below(levels, n) : f[d] = g[d]) => body[f][e] = body[g][e]

\* It has a solution.
LEMMA LevelRuns ==
    ASSUME NEW levels, NEW S, NEW V, NEW body, Recursion(levels, S, V, body)
    PROVE  \E f \in [S -> V] : f = body[f]
<1> USE DEF Recursion
<1> DEFINE N == Len(levels)
           Right(f, n) == \A m \in 1 .. n : \A e \in levels[m] : f[e] = body[f][e]
           Q == {n \in 0 .. N : \E f \in [S -> V] : Right(f, n)}
<1>1. N \in Nat /\ DOMAIN levels = 1 .. N /\ \A m \in 1 .. N : levels[m] \subseteq S
  BY DEF Range
<1>2. 0 \in Q
  <2>0. PICK v0 \in V : TRUE
    OBVIOUS
  <2>1. [e \in S |-> v0] \in [S -> V]
    OBVIOUS
  <2>2. Right([e \in S |-> v0], 0)
    OBVIOUS
  <2>3. \E f \in [S -> V] : Right(f, 0)
    <3> HIDE DEF Right
    <3> QED BY <2>1, <2>2
  <2> HIDE DEF Right
  <2> QED BY <1>1, <2>3
<1>3. ASSUME NEW n \in 1 .. N, n - 1 \in Q PROVE n \in Q
  <2>1. PICK f \in [S -> V] : Right(f, n - 1)
    BY <1>3
  <2>2. PICK g \in [S -> V] : g = body[f]
    OBVIOUS
  <2>3. ASSUME NEW m \in 1 .. n, NEW e \in levels[m] PROVE g[e] = body[g][e]
    <3>1. ASSUME NEW d \in Below(levels, m) PROVE f[d] = g[d]
      <4>1. PICK k \in 1 .. m - 1 : d \in levels[k]
        BY DEF Below
      <4>2. k \in 1 .. n - 1
        BY <1>1, <4>1
      <4> QED BY <2>1, <2>2, <4>1, <4>2
    <3>2. m \in DOMAIN levels
      BY <1>1
    <3> QED BY <2>2, <3>1, <3>2
  <2>4. Right(g, n)
    BY <2>3
  <2>5. n \in 0 .. N
    BY <1>1
  <2> HIDE DEF Right
  <2> QED BY <2>4, <2>5
<1>4. \A n \in 0 .. N : n \in Q
  <2> HIDE DEF N, Q
  <2> QED BY <1>1, <1>2, <1>3, UpToInduction
<1>5. PICK f \in [S -> V] : Right(f, N)
  <2>1. N \in Q
    <3>1. N \in 0 .. N
      BY <1>1
    <3> HIDE DEF N, Q
    <3> QED BY <1>4, <3>1
  <2> HIDE DEF Right, N
  <2> QED BY <2>1
<1>6. \A e \in S : f[e] = body[f][e]
  BY <1>1, <1>5 DEF Range
<1>7. f = body[f]
  BY <1>6
<1> QED BY <1>7

-----------------------------------------------------------------------------
(* Evaluator: conditions.                                                  *)

LEMMA ExpressionsBelow ==
    /\ ExpressionLevels \in Seq(SUBSET Expressions) /\ Expressions = UNION Range(ExpressionLevels)
    /\ \A n \in DOMAIN ExpressionLevels : \A e \in ExpressionLevels[n] :
         /\ e \in Expressions
         /\ Operands(e) \subseteq Below(ExpressionLevels, n)
BY EvaluatorAssumption DEF Expressions, Range

LEMMA ExpressionIs ==
    ASSUME NEW e \in Expressions
    PROVE  /\ e.op \in {"always", "granted", "eq", "neq", "gt", "lt", "and", "or", "not"}
           /\ e.op \in {"eq", "neq", "gt", "lt"} => e.lit \in Values
           /\ e.op \in {"and", "or"} =>
                /\ e.parts \in Seq(Expressions)
                /\ \A i \in DOMAIN e.parts : e.parts[i] \in Operands(e) /\ e.parts[i] \in Expressions
           /\ e.op = "not" => e.inner \in Expressions /\ e.inner \in Operands(e)
           /\ Operands(e) \subseteq Expressions
<1>1. e \in ExpressionShapes
  BY EvaluatorAssumption DEF Expressions, Range
<1>2. /\ e.op \in {"always", "granted", "eq", "neq", "gt", "lt", "and", "or", "not"}
      /\ e.op \in {"eq", "neq", "gt", "lt"} => e.lit \in Values
      /\ e.op \in {"and", "or"} => e.parts \in Seq(Expressions)
      /\ e.op = "not" => e.inner \in Expressions
  BY <1>1 DEF ExpressionShapes
<1>3. \A q : q \in Seq(Expressions) => \A i \in DOMAIN q : q[i] \in Expressions
  OBVIOUS
<1> QED BY <1>2, <1>3 DEF Operands

LEMMA ConditionIs ==
    ASSUME NEW c, NEW bag PROVE EvalCondition(c, bag) \in Truths
BY DEF EvalCondition, OrderCompare, Truth, Truths

\* What a loop over operands ends with, whatever their order.
Combined(settles, vals) ==
    IF \E i \in DOMAIN vals : vals[i] = settles THEN settles
    ELSE IF \E i \in DOMAIN vals : vals[i] = "unorderable" THEN "unorderable"
    ELSE Truth(settles = "false")

LEMMA CombineIs ==
    ASSUME NEW settles \in {"true", "false"}, NEW n \in Nat, NEW vals \in [1 .. n -> Truths]
    PROVE  /\ Combine(settles, vals) = Combined(settles, vals)
           /\ Combine(settles, vals) \in Truths
<1> DEFINE Turn(k, x) == IF x # settles /\ vals[k] \in {settles, "unorderable"} THEN vals[k] ELSE x
           start == Truth(settles = "false")
           body == [k \in 1 .. n |-> [x \in Truths |-> Turn(k, x)]]
           After(f) == [k \in 0 .. Len(vals) |-> IF k = 0 THEN start ELSE Turn(k, f[k - 1])]
<1>1. Len(vals) = n /\ start \in Truths /\ start # settles /\ start # "unorderable"
  BY DEF Truth, Truths
<1>2. body \in [1 .. n -> [Truths -> Truths]]
  OBVIOUS
<1>3. PICK f \in [0 .. n -> Truths] : RunOf(f, n, start, body)
  <2> HIDE DEF body, start
  <2> QED BY <1>1, <1>2, LoopRuns
<1>4. f[0] = start /\ \A k \in 1 .. n : f[k] = Turn(k, f[k - 1])
  <2>1. \A k \in 1 .. n : f[k - 1] \in Truths
    OBVIOUS
  <2> QED BY <1>3, <2>1 DEF RunOf
<1>5. f = After(f)
  <2> HIDE DEF start
  <2> QED BY <1>1, <1>4
<1>6. \E g : g = After(g)
  BY <1>5
<1> DEFINE c == CHOOSE g : g = After(g)
<1>7. c = After(c)
  BY <1>6, Zenon
<1>8. Combine(settles, vals) = c[n]
  BY <1>1 DEF Combine
<1> HIDE DEF c, start
<1>9. c[0] = start /\ \A k \in 1 .. n : c[k] = Turn(k, c[k - 1])
  BY <1>1, <1>7
<1> DEFINE Upto(k) == /\ c[k] \in Truths
                      /\ c[k] = settles <=> \E i \in 1 .. k : vals[i] = settles
                      /\ c[k] # settles => (c[k] = "unorderable" <=> \E i \in 1 .. k : vals[i] = "unorderable")
                      /\ c[k] \in {settles, "unorderable", start}
           P == {k \in 0 .. n : Upto(k)}
<1>10. 0 \in P
  BY <1>1, <1>9
<1>11. ASSUME NEW k \in 1 .. n, k - 1 \in P PROVE k \in P
  <2>1. \A i : i \in 1 .. k <=> i \in 1 .. k - 1 \/ i = k
    OBVIOUS
  <2>2. vals[k] \in Truths /\ c[k] = Turn(k, c[k - 1]) /\ Upto(k - 1)
    BY <1>9, <1>11
  <2>3. Upto(k)
    BY <1>1, <2>1, <2>2
  <2> QED BY <2>3
<1>12. n \in P
  <2>1. n \in 0 .. n
    OBVIOUS
  <2> HIDE DEF P
  <2> QED BY <1>10, <1>11, <2>1, UpToInduction
<1> QED BY <1>8, <1>12 DEF Combined, start

\* EvalExpression as a step from the values of the operands.
EvalStep(f, e, bag) ==
    CASE e.op \in {"and", "or"} -> Combine(Settling(e), ValuesOf(f, e.parts, bag))
      [] e.op = "not" -> Negate(f[e.inner][bag])
      [] e.op = "always" -> "true"
      [] OTHER -> EvalCondition(e, bag)

LEMMA OperandValues ==
    ASSUME NEW e \in Expressions, e.op \in {"and", "or"}, NEW bag \in AttributeBags,
           NEW f, \A d \in Operands(e) : f[d] \in [AttributeBags -> Truths]
    PROVE  /\ Len(e.parts) \in Nat /\ DOMAIN e.parts = 1 .. Len(e.parts)
           /\ ValuesOf(f, e.parts, bag) \in [1 .. Len(e.parts) -> Truths]
           /\ Settling(e) \in {"true", "false"}
<1>1. e.parts \in Seq(Expressions) /\ \A i \in DOMAIN e.parts : e.parts[i] \in Operands(e)
  BY ExpressionIs
<1>2. Len(e.parts) \in Nat /\ DOMAIN e.parts = 1 .. Len(e.parts)
  BY <1>1
<1>3. \A i \in DOMAIN e.parts : f[e.parts[i]][bag] \in Truths
  BY <1>1
<1> QED BY <1>2, <1>3 DEF ValuesOf, Settling, Truth

LEMMA EvalStepIs ==
    ASSUME NEW e \in Expressions, NEW bag \in AttributeBags,
           NEW f, \A d \in Operands(e) : f[d] \in [AttributeBags -> Truths]
    PROVE  EvalStep(f, e, bag) \in Truths
<1>1. CASE e.op \in {"and", "or"}
  <2>1. Combine(Settling(e), ValuesOf(f, e.parts, bag)) \in Truths
    BY <1>1, OperandValues, CombineIs
  <2> QED BY <1>1, <2>1 DEF EvalStep
<1>2. CASE e.op = "not"
  <2>1. f[e.inner][bag] \in Truths
    BY <1>2, ExpressionIs
  <2> QED BY <1>2, <2>1 DEF EvalStep, Negate, Truth, Truths
<1>3. CASE e.op \notin {"and", "or", "not"}
  BY <1>3, ConditionIs DEF EvalStep, Truths
<1> QED BY <1>1, <1>2, <1>3

LEMMA EvalIs ==
    /\ EvalExpression \in [Expressions -> [AttributeBags -> Truths]]
    /\ \A e \in Expressions, bag \in AttributeBags :
         EvalExpression[e][bag] = EvalStep(EvalExpression, e, bag)
<1> DEFINE V == [AttributeBags -> Truths]
           F == [Expressions -> V]
           Step(f) == [e \in Expressions |-> [bag \in AttributeBags |-> EvalStep(f, e, bag)]]
           body == [f \in F |-> Step(f)]
<1>1. ASSUME NEW f \in F PROVE Step(f) \in F
  <2>1. \A e \in Expressions : \A d \in Operands(e) : f[d] \in V
    BY ExpressionIs
  <2> QED BY <2>1, EvalStepIs
<1>2. [bag \in AttributeBags |-> "true"] \in V
  BY DEF Truths
<1>3. ASSUME NEW n \in DOMAIN ExpressionLevels, NEW e \in ExpressionLevels[n],
             NEW f \in F, NEW g \in F, \A d \in Below(ExpressionLevels, n) : f[d] = g[d]
      PROVE  body[f][e] = body[g][e]
  <2>1. e \in Expressions /\ \A d \in Operands(e) : f[d] = g[d]
    BY <1>3, ExpressionsBelow
  <2>2. ASSUME NEW bag \in AttributeBags PROVE EvalStep(f, e, bag) = EvalStep(g, e, bag)
    <3>1. CASE e.op \in {"and", "or"}
      <4>1. \A i \in DOMAIN e.parts : f[e.parts[i]] = g[e.parts[i]]
        BY <2>1, <3>1, ExpressionIs
      <4>2. ValuesOf(f, e.parts, bag) = ValuesOf(g, e.parts, bag)
        BY <4>1 DEF ValuesOf
      <4> QED BY <3>1, <4>2 DEF EvalStep
    <3>2. CASE e.op = "not"
      <4>1. f[e.inner] = g[e.inner]
        BY <2>1, <3>2, ExpressionIs
      <4> QED BY <3>2, <4>1 DEF EvalStep
    <3>3. CASE e.op \notin {"and", "or", "not"}
      BY <3>3 DEF EvalStep
    <3> QED BY <3>1, <3>2, <3>3
  <2>3. Step(f)[e] = Step(g)[e]
    BY <2>1, <2>2
  <2> HIDE DEF Step
  <2> QED BY <2>3
<1>4. PICK f \in F : f = Step(f)
  <2>1. body \in [F -> F]
    <3> HIDE DEF Step, F
    <3> QED BY <1>1
  <2>2. Recursion(ExpressionLevels, Expressions, V, body)
    <3> HIDE DEF body, V
    <3> QED BY <1>2, <1>3, <2>1, ExpressionsBelow DEF Recursion
  <2>3. \E f \in F : f = body[f]
    <3> HIDE DEF body, V
    <3> QED BY <2>2, LevelRuns
  <2> HIDE DEF Step, F
  <2> QED BY <2>3
<1>5. \E g : g = Step(g)
  BY <1>4
<1>6. EvalExpression = Step(EvalExpression)
  BY <1>5, Zenon DEF EvalExpression, EvalStep
<1>7. \A e \in Expressions, bag \in AttributeBags :
        EvalExpression[e][bag] = EvalStep(EvalExpression, e, bag)
  BY <1>6
<1>8. \A e \in Expressions : EvalExpression[e] \in V
  <2> DEFINE P == {e \in Expressions : EvalExpression[e] \in V}
  <2>1. ASSUME NEW n \in DOMAIN ExpressionLevels, NEW e \in ExpressionLevels[n],
               Below(ExpressionLevels, n) \subseteq P
        PROVE  e \in P
    <3>1. e \in Expressions /\ \A d \in Operands(e) : EvalExpression[d] \in V
      BY <2>1, ExpressionsBelow
    <3>2. \A bag \in AttributeBags : EvalStep(EvalExpression, e, bag) \in Truths
      BY <3>1, EvalStepIs
    <3>3. EvalExpression[e] = [bag \in AttributeBags |-> EvalStep(EvalExpression, e, bag)]
      BY <1>6, <3>1
    <3> QED BY <3>1, <3>2, <3>3
  <2>2. Expressions \subseteq P
    <3>1. Expressions = UNION Range(ExpressionLevels)
      BY DEF Expressions
    <3> HIDE DEF P
    <3> QED BY <2>1, <3>1, LevelInduction, ExpressionsBelow
  <2> QED BY <2>2
<1> QED BY <1>6, <1>7, <1>8

-----------------------------------------------------------------------------
(* Evaluator: what a condition means.                                      *)

ClassicalStep(f, e, w) ==
    CASE e.op = "and" -> \A i \in DOMAIN e.parts : f[e.parts[i]][w]
      [] e.op = "or" -> \E i \in DOMAIN e.parts : f[e.parts[i]][w]
      [] e.op = "not" -> ~f[e.inner][w]
      [] e.op = "always" -> TRUE
      [] OTHER -> LET v == EvalCondition(e, w.bag) IN
                  IF v = "unorderable" THEN e \in w.hold ELSE v = "true"

LEMMA ClassicalStepIs ==
    ASSUME NEW e \in Expressions, NEW f, NEW w
    PROVE  ClassicalStep(f, e, w) \in BOOLEAN
<1>1. e.op \in {"always", "granted", "eq", "neq", "gt", "lt", "and", "or", "not"}
  BY ExpressionIs
<1>2. CASE e.op = "and"
  BY <1>2, Zenon DEF ClassicalStep
<1>3. CASE e.op = "or"
  BY <1>3 DEF ClassicalStep
<1>4. CASE e.op = "not"
  BY <1>4 DEF ClassicalStep
<1>5. CASE e.op = "always"
  BY <1>5 DEF ClassicalStep
<1>6. CASE e.op \notin {"and", "or", "not", "always"}
  <2>1. ClassicalStep(f, e, w) = IF EvalCondition(e, w.bag) = "unorderable" THEN e \in w.hold
                                 ELSE EvalCondition(e, w.bag) = "true"
    BY <1>6 DEF ClassicalStep
  <2>2. (e \in w.hold) \in BOOLEAN /\ (EvalCondition(e, w.bag) = "true") \in BOOLEAN
    OBVIOUS
  <2>3. CASE EvalCondition(e, w.bag) = "unorderable"
    <3>1. ClassicalStep(f, e, w) = (e \in w.hold)
      BY <2>1, <2>3
    <3> QED BY <2>2, <3>1
  <2>4. CASE EvalCondition(e, w.bag) # "unorderable"
    <3>1. ClassicalStep(f, e, w) = (EvalCondition(e, w.bag) = "true")
      BY <2>1, <2>4
    <3> QED BY <2>2, <3>1
  <2> QED BY <2>3, <2>4
<1> QED BY <1>2, <1>3, <1>4, <1>5, <1>6

LEMMA ClassicalIs ==
    /\ Classical \in [Expressions -> [Worlds -> BOOLEAN]]
    /\ \A e \in Expressions, w \in Worlds : Classical[e][w] = ClassicalStep(Classical, e, w)
<1> DEFINE V == [Worlds -> BOOLEAN]
           F == [Expressions -> V]
           Step(f) == [e \in Expressions |-> [w \in Worlds |-> ClassicalStep(f, e, w)]]
           body == [f \in F |-> Step(f)]
<1>1. \A f : Step(f) \in F
  BY ClassicalStepIs
<1>2. [w \in Worlds |-> TRUE] \in V
  OBVIOUS
<1>3. ASSUME NEW n \in DOMAIN ExpressionLevels, NEW e \in ExpressionLevels[n],
             NEW f \in F, NEW g \in F, \A d \in Below(ExpressionLevels, n) : f[d] = g[d]
      PROVE  body[f][e] = body[g][e]
  <2>1. e \in Expressions /\ \A d \in Operands(e) : f[d] = g[d]
    BY <1>3, ExpressionsBelow
  <2>2. ASSUME NEW w \in Worlds PROVE ClassicalStep(f, e, w) = ClassicalStep(g, e, w)
    <3>1. CASE e.op \in {"and", "or"}
      <4>1. \A i \in DOMAIN e.parts : f[e.parts[i]] = g[e.parts[i]]
        BY <2>1, <3>1, ExpressionIs
      <4> QED BY <3>1, <4>1 DEF ClassicalStep
    <3>2. CASE e.op = "not"
      <4>1. f[e.inner] = g[e.inner]
        BY <2>1, <3>2, ExpressionIs
      <4> QED BY <3>2, <4>1 DEF ClassicalStep
    <3>3. CASE e.op \notin {"and", "or", "not"}
      BY <3>3 DEF ClassicalStep
    <3> QED BY <3>1, <3>2, <3>3
  <2>3. Step(f)[e] = Step(g)[e]
    BY <2>1, <2>2
  <2> HIDE DEF Step
  <2> QED BY <2>3
<1>4. PICK f \in F : f = Step(f)
  <2>1. body \in [F -> F]
    <3> HIDE DEF Step, F
    <3> QED BY <1>1
  <2>2. Recursion(ExpressionLevels, Expressions, V, body)
    <3> HIDE DEF body, V
    <3> QED BY <1>2, <1>3, <2>1, ExpressionsBelow DEF Recursion
  <2>3. \E f \in F : f = body[f]
    <3> HIDE DEF body, V
    <3> QED BY <2>2, LevelRuns
  <2> HIDE DEF Step, F
  <2> QED BY <2>3
<1>5. \E g : g = Step(g)
  BY <1>4
<1>6. Classical = Step(Classical)
  BY <1>5, Zenon DEF Classical, ClassicalStep
<1>7. Classical \in F
  <2> HIDE DEF Step, F
  <2> QED BY <1>1, <1>6
<1> HIDE DEF V
<1> QED BY <1>6, <1>7 DEF V

AtomsStep(f, e) ==
    IF e.op \in {"and", "or", "not"} THEN UNION {f[d] : d \in Operands(e)} ELSE {e}

LEMMA AtomsIs == Atoms \in [Expressions -> SUBSET Expressions]
<1> DEFINE V == SUBSET Expressions
           F == [Expressions -> V]
           Step(f) == [e \in Expressions |-> AtomsStep(f, e)]
           body == [f \in F |-> Step(f)]
<1>1. ASSUME NEW f \in F PROVE Step(f) \in F
  <2>1. ASSUME NEW e \in Expressions PROVE AtomsStep(f, e) \in V
    <3>1. \A d \in Operands(e) : f[d] \in SUBSET Expressions
      BY ExpressionIs
    <3> QED BY <3>1 DEF AtomsStep
  <2> QED BY <2>1
<1>3. ASSUME NEW n \in DOMAIN ExpressionLevels, NEW e \in ExpressionLevels[n],
             NEW f \in F, NEW g \in F, \A d \in Below(ExpressionLevels, n) : f[d] = g[d]
      PROVE  body[f][e] = body[g][e]
  <2>1. e \in Expressions /\ \A d \in Operands(e) : f[d] = g[d]
    BY <1>3, ExpressionsBelow
  <2>2. {f[d] : d \in Operands(e)} = {g[d] : d \in Operands(e)}
    BY <2>1
  <2>3. Step(f)[e] = Step(g)[e]
    BY <2>1, <2>2 DEF AtomsStep
  <2> HIDE DEF Step
  <2> QED BY <2>3
<1>4. PICK f \in F : f = Step(f)
  <2>1. body \in [F -> F]
    <3> HIDE DEF Step, F
    <3> QED BY <1>1
  <2>2. Recursion(ExpressionLevels, Expressions, V, body)
    <3>1. V # {}
      OBVIOUS
    <3> HIDE DEF body, V
    <3> QED BY <1>3, <2>1, <3>1, ExpressionsBelow DEF Recursion
  <2>3. \E f \in F : f = body[f]
    <3> HIDE DEF body, V
    <3> QED BY <2>2, LevelRuns
  <2> HIDE DEF Step, F
  <2> QED BY <2>3
<1>5. \E g : g = Step(g)
  BY <1>4
<1>6. Atoms = Step(Atoms)
  BY <1>5, Zenon DEF Atoms, AtomsStep
<1>7. \A e \in Expressions : Atoms[e] \in V
  <2> DEFINE P == {e \in Expressions : Atoms[e] \in V}
  <2>1. ASSUME NEW n \in DOMAIN ExpressionLevels, NEW e \in ExpressionLevels[n],
               Below(ExpressionLevels, n) \subseteq P
        PROVE  e \in P
    <3>1. e \in Expressions /\ \A d \in Operands(e) : Atoms[d] \in V
      BY <2>1, ExpressionsBelow
    <3>2. Atoms[e] = AtomsStep(Atoms, e)
      BY <1>6, <3>1
    <3> QED BY <3>1, <3>2 DEF AtomsStep
  <2>2. Expressions \subseteq P
    <3>1. Expressions = UNION Range(ExpressionLevels)
      BY DEF Expressions
    <3> HIDE DEF P
    <3> QED BY <2>1, <3>1, LevelInduction, ExpressionsBelow
  <2> QED BY <2>2
<1> QED BY <1>6, <1>7

\* A definite value is the one that each outcome of the unorderable comparisons gives.
Settled(e) ==
    \A w \in Worlds : EvalExpression[e][w.bag] # "unorderable" =>
        Classical[e][w] = (EvalExpression[e][w.bag] = "true")

LEMMA OperandsSettle ==
    ASSUME NEW e \in Expressions, e.op \in {"and", "or"}, NEW bag \in AttributeBags
    PROVE  /\ EvalExpression[e][bag] = Combined(Settling(e), ValuesOf(EvalExpression, e.parts, bag))
           /\ \A i \in DOMAIN e.parts : ValuesOf(EvalExpression, e.parts, bag)[i] \in Truths
<1>1. \A d \in Operands(e) : EvalExpression[d] \in [AttributeBags -> Truths]
  BY EvalIs, ExpressionIs
<1>2. EvalExpression[e][bag] = Combine(Settling(e), ValuesOf(EvalExpression, e.parts, bag))
  BY EvalIs DEF EvalStep
<1>3. /\ Len(e.parts) \in Nat /\ DOMAIN e.parts = 1 .. Len(e.parts)
      /\ ValuesOf(EvalExpression, e.parts, bag) \in [1 .. Len(e.parts) -> Truths]
      /\ Settling(e) \in {"true", "false"}
  BY <1>1, OperandValues
<1> QED BY <1>2, <1>3, CombineIs

LEMMA DefiniteHolds == \A e \in Expressions : Settled(e)
<1> DEFINE P == {e \in Expressions : Settled(e)}
<1>1. ASSUME NEW n \in DOMAIN ExpressionLevels, NEW e \in ExpressionLevels[n],
             Below(ExpressionLevels, n) \subseteq P
      PROVE  e \in P
  <2>1. e \in Expressions /\ \A d \in Operands(e) : Settled(d)
    BY <1>1, ExpressionsBelow
  <2>2. ASSUME NEW w \in Worlds, EvalExpression[e][w.bag] # "unorderable"
        PROVE  Classical[e][w] = (EvalExpression[e][w.bag] = "true")
    <3> DEFINE bag == w.bag
               v == EvalExpression[e][bag]
    <3>0. bag \in AttributeBags
      BY DEF Worlds
    <3>1. Classical[e][w] = ClassicalStep(Classical, e, w) /\ v = EvalStep(EvalExpression, e, bag)
      BY <2>1, <3>0, ClassicalIs, EvalIs
    <3>2. CASE e.op \in {"and", "or"}
      <4> DEFINE vals == ValuesOf(EvalExpression, e.parts, bag)
      <4>1. v = Combined(Settling(e), vals) /\ \A i \in DOMAIN e.parts : vals[i] \in Truths
        BY <2>1, <3>0, <3>2, OperandsSettle
      <4>2. DOMAIN vals = DOMAIN e.parts
        BY DEF ValuesOf
      <4>3. \A i \in DOMAIN e.parts : vals[i] # "unorderable" =>
                                         Classical[e.parts[i]][w] = (vals[i] = "true")
        <5>1. \A i \in DOMAIN e.parts : Settled(e.parts[i])
          BY <2>1, <3>2, ExpressionIs
        <5> QED BY <5>1 DEF Settled, ValuesOf
      <4>4. \A i \in DOMAIN e.parts : Classical[e.parts[i]][w] \in BOOLEAN
        <5>1. \A i \in DOMAIN e.parts : e.parts[i] \in Expressions
          BY <2>1, <3>2, ExpressionIs
        <5> QED BY <5>1, ClassicalIs
      <4>5. CASE e.op = "and"
        <5>1. Settling(e) = "false"
          BY <4>5 DEF Settling, Truth
        <5>2. Classical[e][w] = \A i \in DOMAIN e.parts : Classical[e.parts[i]][w]
          BY <3>1, <4>5 DEF ClassicalStep
        <5> HIDE DEF vals, v
        <5>3. v = IF \E i \in DOMAIN e.parts : vals[i] = "false" THEN "false"
                  ELSE IF \E i \in DOMAIN e.parts : vals[i] = "unorderable" THEN "unorderable"
                  ELSE "true"
          BY <4>1, <4>2, <5>1 DEF Combined, Truth
        <5>4. v # "unorderable"
          BY <2>2 DEF v
        <5>5. CASE \E i \in DOMAIN e.parts : vals[i] = "false"
          <6>1. ~Classical[e][w] /\ v = "false"
            BY <4>3, <5>2, <5>3, <5>5
          <6> QED BY <6>1, <5>2 DEF v
        <5>6. CASE \A i \in DOMAIN e.parts : vals[i] = "true"
          <6>1. Classical[e][w] = TRUE
            <7>1. \A i \in DOMAIN e.parts : Classical[e.parts[i]][w] = TRUE
              BY <4>3, <5>6
            <7> QED BY <5>2, <7>1
          <6>2. v = "true"
            BY <5>3, <5>6
          <6> QED BY <6>1, <6>2 DEF v
        <5> QED BY <4>1, <5>3, <5>4, <5>5, <5>6 DEF Truths
      <4>6. CASE e.op = "or"
        <5>1. Settling(e) = "true"
          BY <4>6 DEF Settling, Truth
        <5>2. Classical[e][w] = \E i \in DOMAIN e.parts : Classical[e.parts[i]][w]
          BY <3>1, <4>6 DEF ClassicalStep
        <5> HIDE DEF vals, v
        <5>3. v = IF \E i \in DOMAIN e.parts : vals[i] = "true" THEN "true"
                  ELSE IF \E i \in DOMAIN e.parts : vals[i] = "unorderable" THEN "unorderable"
                  ELSE "false"
          BY <4>1, <4>2, <5>1 DEF Combined, Truth
        <5>4. v # "unorderable"
          BY <2>2 DEF v
        <5>5. CASE \E i \in DOMAIN e.parts : vals[i] = "true"
          <6>1. PICK i \in DOMAIN e.parts : Classical[e.parts[i]][w] = TRUE
            BY <4>3, <5>5
          <6>2. Classical[e][w] = TRUE /\ v = "true"
            BY <5>2, <5>3, <5>5, <6>1
          <6> QED BY <6>2 DEF v
        <5>6. CASE \A i \in DOMAIN e.parts : vals[i] = "false"
          <6>1. \A i \in DOMAIN e.parts : Classical[e.parts[i]][w] = FALSE
            BY <4>3, <5>6
          <6>2. Classical[e][w] = FALSE /\ v = "false"
            BY <5>2, <5>3, <5>6, <6>1
          <6> QED BY <6>2 DEF v
        <5> QED BY <4>1, <5>3, <5>4, <5>5, <5>6 DEF Truths
      <4> QED BY <3>2, <4>5, <4>6
    <3>3. CASE e.op = "not"
      <4> DEFINE u == EvalExpression[e.inner][bag]
      <4>1. e.inner \in Expressions /\ Settled(e.inner)
        BY <2>1, <3>3, ExpressionIs
      <4>2. v = Negate(u) /\ Classical[e][w] = ~Classical[e.inner][w]
        BY <3>1, <3>3 DEF EvalStep, ClassicalStep
      <4>3. u \in Truths
        BY <3>0, <4>1, EvalIs
      <4>4. u # "unorderable" => Classical[e.inner][w] = (u = "true")
        BY <4>1 DEF Settled
      <4> HIDE DEF v, u
      <4>5. v # "unorderable"
        BY <2>2 DEF v
      <4>6. u # "unorderable" /\ v = Truth(u = "false")
        BY <4>2, <4>5 DEF Negate
      <4>7. Classical[e][w] = (v = "true")
        BY <4>2, <4>3, <4>4, <4>6 DEF Truth, Truths
      <4> QED BY <4>7 DEF v
    <3>4. CASE e.op \notin {"and", "or", "not"}
      <4>1. e.op = "always" => v = "true" /\ Classical[e][w] = TRUE
        BY <3>1 DEF EvalStep, ClassicalStep
      <4>2. e.op # "always" => v = EvalCondition(e, bag)
        BY <3>1, <3>4 DEF EvalStep
      <4>3. e.op # "always" =>
              Classical[e][w] = IF EvalCondition(e, bag) = "unorderable" THEN e \in w.hold
                                ELSE EvalCondition(e, bag) = "true"
        BY <3>1, <3>4 DEF ClassicalStep
      <4> QED BY <2>2, <4>1, <4>2, <4>3
    <3> QED BY <3>2, <3>3, <3>4
  <2>3. Settled(e)
    BY <2>2 DEF Settled
  <2> QED BY <2>1, <2>3
<1>2. Expressions \subseteq P
  <2>1. Expressions = UNION Range(ExpressionLevels)
    BY DEF Expressions
  <2> HIDE DEF P
  <2> QED BY <1>1, <2>1, LevelInduction, ExpressionsBelow
<1> QED BY <1>2

\* The order in which operands are written changes nothing.
LEMMA OrderIndifferent ==
    ASSUME NEW e \in Expressions, e.op \in {"and", "or"}, NEW bag \in AttributeBags,
           NEW p \in Bijection(DOMAIN e.parts, DOMAIN e.parts)
    PROVE  EvalExpression[e][bag] =
             Combine(Settling(e), ValuesOf(EvalExpression, [i \in DOMAIN p |-> e.parts[p[i]]], bag))
<1> DEFINE vals == ValuesOf(EvalExpression, e.parts, bag)
           n == Len(e.parts)
           others == ValuesOf(EvalExpression, [i \in DOMAIN p |-> e.parts[p[i]]], bag)
<1>1. /\ EvalExpression[e][bag] = Combined(Settling(e), vals)
      /\ n \in Nat /\ DOMAIN e.parts = 1 .. n
      /\ vals \in [1 .. n -> Truths] /\ Settling(e) \in {"true", "false"}
  <2>1. \A d \in Operands(e) : EvalExpression[d] \in [AttributeBags -> Truths]
    BY EvalIs, ExpressionIs
  <2> QED BY <2>1, OperandsSettle, OperandValues
<1>2. /\ p \in [1 .. n -> 1 .. n]
      /\ \A j \in 1 .. n : \E i \in 1 .. n : p[i] = j
  BY <1>1 DEF Bijection, Surjection
<1>3. others = [i \in 1 .. n |-> vals[p[i]]]
  BY <1>1, <1>2 DEF ValuesOf
<1> HIDE DEF vals, others, n
<1>4. others \in [1 .. n -> Truths]
  BY <1>1, <1>2, <1>3
<1>5. ASSUME NEW x PROVE (\E i \in DOMAIN vals : vals[i] = x) <=> \E i \in DOMAIN others : others[i] = x
  <2>1. DOMAIN vals = 1 .. n /\ DOMAIN others = 1 .. n
    BY <1>1, <1>4
  <2> QED BY <1>2, <1>3, <2>1
<1>6. Combined(Settling(e), others) = Combined(Settling(e), vals)
  BY <1>5 DEF Combined
<1>7. Combine(Settling(e), others) = Combined(Settling(e), others)
  BY <1>1, <1>4, CombineIs
<1> QED BY <1>1, <1>6, <1>7 DEF others

LEMMA CoerceIs ==
    ASSUME NEW v \in Values, v.t \in {"int", "numeral", "float"}
    PROVE  Coerce(v) \subseteq {v.n}
BY DEF Coerce, Values

LEMMA OrderIsExact ==
    ASSUME NEW v \in Values, NEW lit \in Values, NEW op \in {"gt", "lt"},
           v.t \in {"int", "numeral", "float"}, lit.t \in {"int", "numeral", "float"}
    PROVE  OrderCompare(op, v, lit) \in {"unorderable", Truth(Holds(op, v.n, lit.n))}
<1>1. CASE v.t = "int" /\ lit.t = "int"
  BY <1>1 DEF OrderCompare
<1>2. CASE ~(v.t = "int" /\ lit.t = "int") /\ (Coerce(v) = {} \/ Coerce(lit) = {})
  BY <1>2 DEF OrderCompare
<1>3. CASE ~(v.t = "int" /\ lit.t = "int") /\ ~(Coerce(v) = {} \/ Coerce(lit) = {})
  <2>1. Coerce(v) = {v.n} /\ Coerce(lit) = {lit.n}
    BY <1>3, CoerceIs
  <2>2. OrderCompare(op, v, lit) = Truth(\E a \in Coerce(v), b \in Coerce(lit) : Holds(op, a, b))
    BY <1>3 DEF OrderCompare
  <2>3. (\E a \in Coerce(v), b \in Coerce(lit) : Holds(op, a, b)) <=> Holds(op, v.n, lit.n)
    BY <2>1
  <2> QED BY <2>2, <2>3 DEF Truth
<1> QED BY <1>1, <1>2, <1>3

\* What never changes, and what the value of a condition rests on.
EvaluatorFixed == attr \in Attributes /\ cond \in Expressions

LEMMA EvaluatorFixedHolds == EvaluatorSpec => []EvaluatorFixed
<1>1. EvaluatorInit => EvaluatorFixed
  BY EvaluatorAssumption DEF EvaluatorInit, EvaluatorFixed
<1>2. EvaluatorFixed /\ [EvaluatorNext]_evaluatorVars => EvaluatorFixed'
  BY DEF EvaluatorNext, EvaluatePre, EvaluatePost, evaluatorVars, EvaluatorFixed
<1> QED BY <1>1, <1>2, PTL DEF EvaluatorSpec

LEMMA FixedSound == EvaluatorFixed => ConditionsSound
<1> SUFFICES ASSUME EvaluatorFixed PROVE ConditionsSound
  OBVIOUS
<1> DEFINE bag == StartBag(attr)
           v == EvalExpression[cond][bag]
<1>1. bag \in AttributeBags /\ attr \in Values /\ cond \in Expressions
  BY EvaluatorAssumption DEF EvaluatorFixed, StartBag, AttributeBags
<1>2. v # "unorderable" => \A hold \in SUBSET Atoms[cond] :
                              Classical[cond][[bag |-> bag, hold |-> hold]] = (v = "true")
  <2>1. Atoms[cond] \subseteq Expressions
    BY <1>1, AtomsIs
  <2>2. ASSUME NEW hold \in SUBSET Atoms[cond]
        PROVE  [bag |-> bag, hold |-> hold] \in Worlds /\ [bag |-> bag, hold |-> hold].bag = bag
    BY <1>1, <2>1 DEF Worlds
  <2>3. Settled(cond)
    BY <1>1, DefiniteHolds
  <2> HIDE DEF bag
  <2>4. ASSUME NEW hold \in SUBSET Atoms[cond], v # "unorderable"
        PROVE  Classical[cond][[bag |-> bag, hold |-> hold]] = (v = "true")
    <3>1. PICK w \in Worlds : w = [bag |-> bag, hold |-> hold] /\ w.bag = bag
      BY <2>2
    <3>2. Classical[cond][w] = (v = "true")
      BY <2>3, <2>4, <3>1 DEF Settled
    <3> QED BY <3>1, <3>2
  <2> HIDE DEF v
  <2> QED BY <2>4
<1>3. cond.op \in {"and", "or"} =>
        \A p \in Bijection(DOMAIN cond.parts, DOMAIN cond.parts) :
            v = Combine(Settling(cond), ValuesOf(EvalExpression, [i \in DOMAIN p |-> cond.parts[p[i]]], bag))
  <2> HIDE DEF bag
  <2> QED BY <1>1, OrderIndifferent
<1>4. DefiniteIsSettled
  BY <1>2, <1>3, Zenon DEF DefiniteIsSettled
<1>5. OrderExact
  <2> SUFFICES ASSUME cond.op \in {"gt", "lt"}, {attr.t, cond.lit.t} \subseteq {"int", "numeral", "float"}
               PROVE  EvalCondition(cond, bag) \in {"unorderable", Truth(Holds(cond.op, attr.n, cond.lit.n))}
    BY DEF OrderExact
  <2>1. cond.lit \in Values /\ attr.t # "absent"
    BY <1>1, ExpressionIs
  <2>2. EvalCondition(cond, bag) = OrderCompare(cond.op, attr, cond.lit)
    BY <2>1 DEF EvalCondition, StartBag
  <2> QED BY <1>1, <2>1, <2>2, OrderIsExact
<1> QED BY <1>4, <1>5 DEF ConditionsSound

\* ConditionsSound of Evaluator.tla, for every set of expressions: a definite
\* value is the one each outcome of the unorderable comparisons would give, the
\* order of operands does not matter, and an order comparison that answers
\* compares the integers themselves (evaluator.rs, eval_and, eval_or,
\* order_compare).
THEOREM ConditionsSoundHolds == EvaluatorSpec => []ConditionsSound
BY EvaluatorFixedHolds, FixedSound, PTL

-----------------------------------------------------------------------------
(* Evaluator: effects and their lists.                                     *)

Leaf(e) == e.kind \notin {"sequential", "parallel", "when", "pdp"}

LEMMA EffectsBelow ==
    /\ EffectLevels \in Seq(SUBSET Effects) /\ Effects = UNION Range(EffectLevels)
    /\ \A n \in DOMAIN EffectLevels : \A e \in EffectLevels[n] :
         e \in Effects /\ Range(Children(e)) \subseteq Below(EffectLevels, n)
BY EvaluatorAssumption DEF Effects, Range

LEMMA EffectShape == \A e \in Effects : e \in EffectShapes
BY EvaluatorAssumption DEF Effects, Range

LEMMA LeafShape ==
    ASSUME NEW e \in Effects, Leaf(e)
    PROVE  /\ e.kind \in {"allow", "deny", "taint", "plugin", "delegate", "elicit", "restrict", "field"}
           /\ e.kind = "taint" => e.label \in PolicyLabels
           /\ e.kind = "plugin" => e.label \in PolicyLabels /\ e.ans \in {"allow", "deny", "error", "panic"}
           /\ e.kind = "delegate" => e.ans \in {"allow", "deny"} /\ e.onError \in {"deny", "continue"}
           /\ e.kind = "elicit" => /\ e.ans \in {"approved", "pending", "denied", "unavailable", "failed"}
                                   /\ e.onError \in {"deny", "continue"}
           /\ e.kind = "restrict" => /\ e.label \in PolicyLabels
                                     /\ e.ans \in {"resolved", "empty", "unresolvable"}
           /\ e.kind = "field" => /\ e.stages \in Seq(Stages) /\ e.expands \in BOOLEAN
                                  /\ e.side \in {"args", "result"}
           /\ Children(e) = <<>>
<1>1. e \in EffectShapes
  BY EffectShape
<1>2. /\ e.kind \in {"allow", "deny", "taint", "plugin", "delegate", "elicit", "restrict", "field"}
      /\ e.kind = "taint" => e.label \in PolicyLabels
      /\ e.kind = "plugin" => e.label \in PolicyLabels /\ e.ans \in {"allow", "deny", "error", "panic"}
      /\ e.kind = "delegate" => e.ans \in {"allow", "deny"} /\ e.onError \in {"deny", "continue"}
      /\ e.kind = "elicit" => /\ e.ans \in {"approved", "pending", "denied", "unavailable", "failed"}
                              /\ e.onError \in {"deny", "continue"}
      /\ e.kind = "restrict" => /\ e.label \in PolicyLabels
                                /\ e.ans \in {"resolved", "empty", "unresolvable"}
      /\ e.kind = "field" => /\ e.stages \in Seq(Stages) /\ e.expands \in BOOLEAN
                             /\ e.side \in {"args", "result"}
  BY <1>1 DEF EffectShapes, FieldRules, Leaf
<1> QED BY <1>2 DEF Children

\* The lists of effects that an effect may walk.
Bodies(e) ==
    CASE e.kind \in {"sequential", "parallel", "when"} -> {e.body}
      [] e.kind = "pdp" -> {e.onAllow, e.onDeny}
      [] OTHER -> {}

LEMMA BranchShape ==
    ASSUME NEW e \in Effects
    PROVE  /\ e.kind \in {"sequential", "parallel", "when"} => e.body \in Seq(Effects)
           /\ e.kind = "when" => e.cond \in Expressions
           /\ e.kind = "pdp" => /\ e.ans \in {"allow", "deny", "error"}
                                /\ e.onAllow \in Seq(Effects) /\ e.onDeny \in Seq(Effects)
<1>1. e \in EffectShapes
  BY EffectShape
<1> QED BY <1>1 DEF EffectShapes, FieldRules

\* Two lists, one after the other, hold the members of both.
LEMMA JoinedLists ==
    ASSUME NEW T, NEW a \in Seq(T), NEW b \in Seq(T)
    PROVE  /\ a \o b \in Seq(T)
           /\ Range(a \o b) = Range(a) \cup Range(b)
<1>1. a \o b \in Seq(T) /\ Len(a \o b) = Len(a) + Len(b)
  OBVIOUS
<1>2. DOMAIN a = 1 .. Len(a) /\ DOMAIN b = 1 .. Len(b) /\ DOMAIN (a \o b) = 1 .. Len(a) + Len(b)
  BY <1>1
<1>3. Len(a) \in Nat /\ Len(b) \in Nat
  OBVIOUS
<1>4. ASSUME NEW i \in DOMAIN a PROVE a[i] \in Range(a \o b)
  <2>1. i \in 1 .. Len(a) + Len(b) /\ (a \o b)[i] = a[i]
    BY <1>2, <1>3
  <2> QED BY <1>2, <2>1 DEF Range
<1>5. ASSUME NEW i \in DOMAIN b PROVE b[i] \in Range(a \o b)
  <2>1. i + Len(a) \in 1 .. Len(a) + Len(b) /\ i + Len(a) > Len(a) /\ (i + Len(a)) - Len(a) = i
    BY <1>2, <1>3
  <2>2. (a \o b)[i + Len(a)] = b[i]
    BY <1>3, <2>1
  <2> QED BY <1>2, <2>1, <2>2 DEF Range
<1>6. ASSUME NEW i \in DOMAIN (a \o b) PROVE (a \o b)[i] \in Range(a) \cup Range(b)
  <2>1. CASE i <= Len(a)
    <3>1. i \in DOMAIN a /\ (a \o b)[i] = a[i]
      BY <1>2, <1>3, <2>1
    <3> QED BY <3>1 DEF Range
  <2>2. CASE ~(i <= Len(a))
    <3>1. i - Len(a) \in DOMAIN b /\ (a \o b)[i] = b[i - Len(a)]
      BY <1>2, <1>3, <2>2
    <3> QED BY <3>1 DEF Range
  <2> QED BY <2>1, <2>2
<1> QED BY <1>1, <1>4, <1>5, <1>6 DEF Range

LEMMA BodiesIn ==
    ASSUME NEW e \in Effects, NEW es \in Bodies(e)
    PROVE  /\ es \in Seq(Effects) /\ Len(es) \in Nat /\ DOMAIN es = 1 .. Len(es)
           /\ \A i \in DOMAIN es : es[i] \in Effects /\ es[i] \in Range(Children(e))
<1>1. es \in Seq(Effects)
  BY BranchShape DEF Bodies
<1>2. ASSUME NEW i \in DOMAIN es PROVE es[i] \in Range(Children(e))
  <2>1. CASE e.kind \in {"sequential", "parallel", "when"}
    BY <2>1 DEF Bodies, Children, Range
  <2>2. CASE e.kind = "pdp"
    <3>1. Children(e) = e.onAllow \o e.onDeny /\ es \in {e.onAllow, e.onDeny}
      BY <2>2 DEF Children, Bodies
    <3>2. e.onAllow \in Seq(Effects) /\ e.onDeny \in Seq(Effects)
      BY <2>2, BranchShape
    <3>3. es[i] \in Range(e.onAllow) \cup Range(e.onDeny)
      BY <3>1 DEF Range
    <3> QED BY <3>1, <3>2, <3>3, JoinedLists
  <2> QED BY <2>1, <2>2 DEF Bodies
<1> QED BY <1>1, <1>2

LEMMA ChildrenIn ==
    ASSUME NEW e \in Effects
    PROVE  Children(e) \in Seq(Effects) /\ Range(Children(e)) \subseteq Effects
<1>1. e.kind \in {"sequential", "parallel", "when"} => e.body \in Seq(Effects)
  BY BranchShape
<1>2. e.kind = "pdp" => e.onAllow \in Seq(Effects) /\ e.onDeny \in Seq(Effects)
  BY BranchShape
<1>3. Children(e) \in Seq(Effects)
  BY <1>1, <1>2 DEF Children
<1> QED BY <1>3 DEF Range

\* How a field pipeline stands.
Pipes == [out : {"pass", "deny", "replace", "omit"}, taints : SUBSET PolicyLabels]

LEMMA StageIs ==
    ASSUME NEW st \in Stages, NEW p \in Pipes, NEW bag \in AttributeBags
    PROVE  RunStage(st, p, bag) \in Pipes
<1>1. /\ st.stage \in {"check", "rewrite", "omit", "redact", "taint", "plugin"}
      /\ st.stage \in {"taint", "plugin"} => st.label \in PolicyLabels
  BY DEF Stages
<1>2. p.out \in {"pass", "deny", "replace", "omit"} /\ p.taints \in SUBSET PolicyLabels
  BY DEF Pipes
<1>3. ASSUME NEW x \in {"pass", "deny", "replace", "omit"} PROVE [p EXCEPT !.out = x] \in Pipes
  BY DEF Pipes
<1>4. st.stage \in {"taint", "plugin"} =>
        /\ [p EXCEPT !.taints = @ \cup {st.label}] \in Pipes
        /\ [[p EXCEPT !.taints = @ \cup {st.label}] EXCEPT !.out = "deny"] \in Pipes
  BY <1>1 DEF Pipes
<1>5. CASE st.stage = "check"
  BY <1>3, <1>5 DEF RunStage
<1>6. CASE st.stage \in {"rewrite", "omit"}
  BY <1>3, <1>6 DEF RunStage
<1>7. CASE st.stage = "redact"
  BY <1>3, <1>7 DEF RunStage
<1>8. CASE st.stage = "taint"
  BY <1>4, <1>8 DEF RunStage
<1>9. CASE st.stage = "plugin"
  BY <1>3, <1>4, <1>9 DEF RunStage
<1> QED BY <1>1, <1>5, <1>6, <1>7, <1>8, <1>9

LEMMA PipelineIs ==
    ASSUME NEW stages \in Seq(Stages), NEW bag \in AttributeBags
    PROVE  EvaluatePipeline(stages, bag) \in Pipes
<1> DEFINE n == Len(stages)
           Turn(k, p) == IF p.out \in {"deny", "omit"} THEN p ELSE RunStage(stages[k], p, bag)
           start == [out |-> "pass", taints |-> {}]
           body == [k \in 1 .. n |-> [p \in Pipes |-> Turn(k, p)]]
           After(f) == [k \in 0 .. Len(stages) |-> IF k = 0 THEN start ELSE Turn(k, f[k - 1])]
<1>1. n \in Nat /\ start \in Pipes /\ \A k \in 1 .. n : stages[k] \in Stages
  BY DEF Pipes
<1>2. body \in [1 .. n -> [Pipes -> Pipes]]
  BY <1>1, StageIs
<1>3. PICK f \in [0 .. n -> Pipes] : RunOf(f, n, start, body)
  <2> HIDE DEF body, start, n
  <2> QED BY <1>1, <1>2, LoopRuns
<1>4. f[0] = start /\ \A k \in 1 .. n : f[k] = Turn(k, f[k - 1])
  <2>1. \A k \in 1 .. n : f[k - 1] \in Pipes
    BY <1>1
  <2> QED BY <1>3, <2>1 DEF RunOf
<1>5. f = After(f)
  <2> HIDE DEF start, Turn
  <2> QED BY <1>1, <1>4
<1>6. \E g : g = After(g)
  BY <1>5
<1> DEFINE c == CHOOSE g : g = After(g)
<1>7. c = After(c)
  BY <1>6, Zenon
<1>8. EvaluatePipeline(stages, bag) = c[n]
  BY DEF EvaluatePipeline
<1> HIDE DEF c, start, n
<1>9. c[0] = start /\ \A k \in 1 .. n : c[k] = Turn(k, c[k - 1])
  <2> HIDE DEF Turn
  <2> QED BY <1>1, <1>7 DEF n
<1> DEFINE P == {k \in 0 .. n : c[k] \in Pipes}
<1>10. 0 \in P
  BY <1>1, <1>9
<1>11. ASSUME NEW k \in 1 .. n, k - 1 \in P PROVE k \in P
  <2>1. k \in 0 .. n /\ stages[k] \in Stages
    BY <1>1
  <2>2. c[k] = Turn(k, c[k - 1]) /\ c[k - 1] \in Pipes
    BY <1>9, <1>11
  <2>3. c[k] \in Pipes
    BY <2>1, <2>2, StageIs
  <2> QED BY <2>1, <2>3
<1>12. n \in P
  <2>1. n \in 0 .. n
    BY <1>1
  <2> HIDE DEF P
  <2> QED BY <1>1, <1>10, <1>11, <2>1, UpToInduction
<1> QED BY <1>8, <1>12

-----------------------------------------------------------------------------
(* The effects of a tree.                                                  *)

WithinStep(f, e) == {e} \cup UNION {f[Children(e)[i]] : i \in DOMAIN Children(e)}

LEMMA WithinIs ==
    ASSUME NEW e \in Effects
    PROVE  /\ e \in Within[e]
           /\ \A d \in Range(Children(e)) : Within[d] \subseteq Within[e]
<1> DEFINE V == SUBSET Effects
           F == [Effects -> V]
           Step(f) == [x \in Effects |-> WithinStep(f, x)]
           body == [f \in F |-> Step(f)]
<1>1. ASSUME NEW f \in F PROVE Step(f) \in F
  <2>1. ASSUME NEW x \in Effects PROVE WithinStep(f, x) \in V
    <3>1. \A i \in DOMAIN Children(x) : f[Children(x)[i]] \in SUBSET Effects
      BY ChildrenIn DEF Range
    <3> QED BY <3>1 DEF WithinStep
  <2> QED BY <2>1
<1>3. ASSUME NEW n \in DOMAIN EffectLevels, NEW x \in EffectLevels[n],
             NEW f \in F, NEW g \in F, \A d \in Below(EffectLevels, n) : f[d] = g[d]
      PROVE  body[f][x] = body[g][x]
  <2>1. x \in Effects /\ \A i \in DOMAIN Children(x) : f[Children(x)[i]] = g[Children(x)[i]]
    BY <1>3, EffectsBelow DEF Range
  <2>2. {f[Children(x)[i]] : i \in DOMAIN Children(x)} = {g[Children(x)[i]] : i \in DOMAIN Children(x)}
    BY <2>1
  <2>3. Step(f)[x] = Step(g)[x]
    BY <2>1, <2>2 DEF WithinStep
  <2> HIDE DEF Step
  <2> QED BY <2>3
<1>4. PICK f \in F : f = Step(f)
  <2>1. body \in [F -> F]
    <3> HIDE DEF Step, F
    <3> QED BY <1>1
  <2>2. Recursion(EffectLevels, Effects, V, body)
    <3>1. V # {}
      OBVIOUS
    <3> HIDE DEF body, V
    <3> QED BY <1>3, <2>1, <3>1, EffectsBelow DEF Recursion
  <2>3. \E f \in F : f = body[f]
    <3> HIDE DEF body, V
    <3> QED BY <2>2, LevelRuns
  <2> HIDE DEF Step, F
  <2> QED BY <2>3
<1>5. \E g : g = Step(g)
  BY <1>4
<1>6. Within = Step(Within)
  BY <1>5, Zenon DEF Within, WithinStep
<1>7. Within[e] = WithinStep(Within, e)
  BY <1>6
<1> QED BY <1>7 DEF WithinStep, Range

LEMMA PureWithin ==
    ASSUME NEW e \in Effects, ParallelPure(e)
    PROVE  /\ \A d \in Range(Children(e)) : ParallelPure(d)
           /\ e.kind = "parallel" => \A i \in DOMAIN e.body : ~ContainsMutation(e.body[i])
BY WithinIs DEF ParallelPure

-----------------------------------------------------------------------------
(* What a walk owes to the gates it met.                                   *)

TaintsIn(seen) == {x.node.label : x \in {y \in seen : y.node.kind \in {"taint", "plugin"}}}
RestrictsIn(seen) ==
    {x.node.label : x \in {y \in seen : y.node.kind = "restrict" /\ y.node.ans = "resolved"}}
AllPass(seen, at) == \A x \in seen : Passes(x.node, at, x.bag)

\* A walk from s that meets the gates seen may end in r: it goes on exactly when
\* each gate lets it pass, and then carries what the gates give.
Walked(s, seen, r) ==
    /\ r \in Walks /\ r.at = s.at
    /\ r.out = "continue" <=> AllPass(seen, s.at)
    /\ r.out = "continue" => /\ r.bag = BagAfter(s.bag, seen)
                             /\ s.taints \cup TaintsIn(seen) \subseteq r.taints
                             /\ r.restricts = s.restricts \cup RestrictsIn(seen)

LEMMA WalkParts ==
    ASSUME NEW s \in Walks
    PROVE  /\ s.out \in {"continue", "halt", "pending", "panicked"} /\ s.at \in {"args", "result"}
           /\ s.bag \in AttributeBags /\ s.bag.attr \in Attributes /\ s.bag.granted \in BOOLEAN
           /\ s.taints \in SUBSET PolicyLabels /\ s.restricts \in SUBSET PolicyLabels
           /\ s.modified \in BOOLEAN
BY DEF Walks, AttributeBags

LEMMA BagAfterIs ==
    ASSUME NEW bag \in AttributeBags, NEW A, NEW B
    PROVE  /\ BagAfter(bag, A) \in AttributeBags
           /\ BagAfter(BagAfter(bag, A), B) = BagAfter(bag, A \cup B)
           /\ ~Grants(A) => BagAfter(bag, A) = bag
<1>1. bag.granted \in BOOLEAN /\ Grants(A) \in BOOLEAN /\ Grants(B) \in BOOLEAN
  BY DEF AttributeBags, Grants
<1>2. Grants(A \cup B) <=> Grants(A) \/ Grants(B)
  BY DEF Grants
<1>3. BagAfter(bag, A) \in AttributeBags
  BY <1>1 DEF BagAfter, AttributeBags
<1> HIDE DEF Grants
<1>4. BagAfter(BagAfter(bag, A), B) = BagAfter(bag, A \cup B)
  BY <1>1, <1>2 DEF BagAfter, AttributeBags
<1>5. ~Grants(A) => BagAfter(bag, A) = bag
  BY <1>1 DEF BagAfter, AttributeBags
<1> QED BY <1>3, <1>4, <1>5

LEMMA WalkedNothing ==
    ASSUME NEW s \in Walks, s.out = "continue", NEW seen,
           AllPass(seen, s.at), ~Grants(seen), TaintsIn(seen) = {}, RestrictsIn(seen) = {}
    PROVE  Walked(s, seen, s)
BY WalkParts, BagAfterIs DEF Walked

LEMMA WalkedHalt ==
    ASSUME NEW s \in Walks, NEW seen, ~AllPass(seen, s.at),
           NEW r \in Walks, r.at = s.at, r.out # "continue"
    PROVE  Walked(s, seen, r)
BY DEF Walked

LEMMA WalkedOn ==
    ASSUME NEW s \in Walks, NEW A, NEW r, Walked(s, A, r), r.out = "continue",
           NEW B, NEW t, Walked(r, B, t)
    PROVE  Walked(s, A \cup B, t)
<1>1. AllPass(A \cup B, s.at) <=> AllPass(A, s.at) /\ AllPass(B, s.at)
  BY DEF AllPass
<1>2. /\ TaintsIn(A \cup B) = TaintsIn(A) \cup TaintsIn(B)
      /\ RestrictsIn(A \cup B) = RestrictsIn(A) \cup RestrictsIn(B)
  BY DEF TaintsIn, RestrictsIn
<1>3. BagAfter(BagAfter(s.bag, A), B) = BagAfter(s.bag, A \cup B)
  BY WalkParts, BagAfterIs
<1> QED BY <1>1, <1>2, <1>3 DEF Walked

LEMMA WalkedStop ==
    ASSUME NEW s \in Walks, NEW A, NEW r, Walked(s, A, r), r.out # "continue", NEW B
    PROVE  Walked(s, A \cup B, r)
BY DEF Walked, AllPass

\* A leaf: a gate of its own.
Here(e, bag) == {[node |-> e, bag |-> bag]}

LEMMA HereIs ==
    ASSUME NEW e, NEW bag, NEW at
    PROVE  /\ AllPass(Here(e, bag), at) <=> Passes(e, at, bag)
           /\ Grants(Here(e, bag)) <=> e.kind = "delegate" /\ e.ans = "allow"
           /\ TaintsIn(Here(e, bag)) = IF e.kind \in {"taint", "plugin"} THEN {e.label} ELSE {}
           /\ RestrictsIn(Here(e, bag)) =
                IF e.kind = "restrict" /\ e.ans = "resolved" THEN {e.label} ELSE {}
<1>1. PICK x : x = [node |-> e, bag |-> bag]
  OBVIOUS
<1>2. x.node = e /\ x.bag = bag /\ Here(e, bag) = {x}
  BY <1>1 DEF Here
<1>3. AllPass(Here(e, bag), at) <=> Passes(e, at, bag)
  BY <1>2 DEF AllPass
<1>4. Grants(Here(e, bag)) <=> e.kind = "delegate" /\ e.ans = "allow"
  BY <1>2 DEF Grants
<1>5. TaintsIn(Here(e, bag)) = IF e.kind \in {"taint", "plugin"} THEN {e.label} ELSE {}
  BY <1>2 DEF TaintsIn
<1>6. RestrictsIn(Here(e, bag)) = IF e.kind = "restrict" /\ e.ans = "resolved" THEN {e.label} ELSE {}
  BY <1>2 DEF RestrictsIn
<1> QED BY <1>3, <1>4, <1>5, <1>6

LEMMA EndsIs ==
    ASSUME NEW s \in Walks, NEW how \in {"halt", "pending", "panicked"}
    PROVE  Ends(s, how) \in Walks /\ Ends(s, how).at = s.at /\ Ends(s, how).out = how
BY DEF Ends, Walks

LEMMA ToldIs ==
    ASSUME NEW s \in Walks, NEW l \in PolicyLabels
    PROVE  LET t == [s EXCEPT !.taints = @ \cup {l}] IN
           /\ t \in Walks /\ t.at = s.at /\ t.out = s.out /\ t.bag = s.bag
           /\ t.taints = s.taints \cup {l} /\ t.restricts = s.restricts
BY DEF Walks

LEMMA ApplyIs ==
    ASSUME NEW e \in Effects, e.kind = "field", NEW s \in Walks
    PROVE  LET r == ApplyPipeline(e, s) IN
           /\ r \in Walks /\ r.at = s.at
           /\ r.out = "halt" \/ r.out = s.out
           /\ r.out = IF e.expands /\ EvaluatePipeline(e.stages, s.bag).out # "deny" THEN s.out ELSE "halt"
           /\ r.bag = s.bag /\ s.taints \subseteq r.taints /\ r.restricts = s.restricts
<1> DEFINE p == EvaluatePipeline(e.stages, s.bag)
           r == ApplyPipeline(e, s)
           t == [s EXCEPT !.taints = @ \cup p.taints]
<1>1. s.bag \in AttributeBags /\ e.stages \in Seq(Stages)
  BY WalkParts, LeafShape DEF Leaf
<1>2. p \in Pipes
  BY <1>1, PipelineIs
<1> HIDE DEF p
<1>3. p.out \in {"pass", "deny", "replace", "omit"} /\ p.taints \in SUBSET PolicyLabels
  BY <1>2 DEF Pipes
<1>4. /\ t \in Walks /\ t.at = s.at /\ t.out = s.out /\ t.bag = s.bag
      /\ s.taints \subseteq t.taints /\ t.restricts = s.restricts
  BY <1>3 DEF Walks
<1>5. r = IF ~e.expands THEN [s EXCEPT !.out = "halt"]
          ELSE IF p.out = "deny" THEN [t EXCEPT !.out = "halt"]
          ELSE IF p.out = "pass" THEN t
          ELSE [t EXCEPT !.modified = TRUE]
  BY <1>3 DEF ApplyPipeline, p
<1> HIDE DEF t, r
<1>6. CASE ~e.expands
  <2>1. r = [s EXCEPT !.out = "halt"]
    BY <1>5, <1>6
  <2>2. /\ r \in Walks /\ r.at = s.at /\ r.out = "halt" /\ r.bag = s.bag
        /\ r.taints = s.taints /\ r.restricts = s.restricts
    BY <2>1 DEF Walks
  <2> QED BY <1>6, <2>2 DEF r
<1>7. CASE e.expands /\ p.out = "deny"
  <2>1. r = [t EXCEPT !.out = "halt"]
    BY <1>5, <1>7
  <2>2. /\ r \in Walks /\ r.at = t.at /\ r.out = "halt" /\ r.bag = t.bag
        /\ r.taints = t.taints /\ r.restricts = t.restricts
    BY <1>4, <2>1 DEF Walks
  <2> QED BY <1>4, <1>7, <2>2 DEF p, r
<1>8. CASE e.expands /\ p.out = "pass"
  <2>1. r = t
    BY <1>5, <1>8
  <2> QED BY <1>4, <1>8, <2>1 DEF p, r
<1>9. CASE e.expands /\ p.out \notin {"deny", "pass"}
  <2>1. r = [t EXCEPT !.modified = TRUE]
    BY <1>5, <1>9
  <2>2. /\ r \in Walks /\ r.at = t.at /\ r.out = t.out /\ r.bag = t.bag
        /\ r.taints = t.taints /\ r.restricts = t.restricts
    BY <1>4, <2>1 DEF Walks
  <2> QED BY <1>4, <1>9, <2>2 DEF p, r
<1> QED BY <1>3, <1>6, <1>7, <1>8, <1>9

LEMMA LeafTyped ==
    ASSUME NEW e \in Effects, Leaf(e), NEW s \in Walks
    PROVE  DispatchLeaf(e, s) \in Walks
<1> USE LeafShape, EndsIs
<1>1. CASE e.kind \in {"allow", "deny"}
  BY <1>1 DEF DispatchLeaf
<1>2. CASE e.kind = "taint"
  BY <1>2, ToldIs DEF DispatchLeaf
<1>3. CASE e.kind = "plugin"
  <2>1. [s EXCEPT !.taints = @ \cup {e.label}] \in Walks
    BY <1>3, ToldIs
  <2> QED BY <1>3, <2>1 DEF DispatchLeaf
<1>4. CASE e.kind = "delegate"
  <2>1. [s EXCEPT !.bag.granted = TRUE] \in Walks
    BY DEF Walks, AttributeBags
  <2> QED BY <1>4, <2>1 DEF DispatchLeaf, OnError
<1>5. CASE e.kind = "elicit"
  BY <1>5 DEF DispatchLeaf, DispatchElicitation, OnError
<1>6. CASE e.kind = "restrict"
  <2>1. [s EXCEPT !.restricts = @ \cup {e.label}] \in Walks
    BY <1>6 DEF Walks
  <2> QED BY <1>6, <2>1 DEF DispatchLeaf
<1>7. CASE e.kind = "field"
  BY <1>7, ApplyIs DEF DispatchLeaf
<1> QED BY <1>1, <1>2, <1>3, <1>4, <1>5, <1>6, <1>7

LEMMA LeafWalked ==
    ASSUME NEW e \in Effects, Leaf(e), NEW s \in Walks, s.out = "continue"
    PROVE  /\ Walked(s, Here(e, s.bag), DispatchLeaf(e, s))
           /\ DispatchLeaf(e, s).out = "pending" => e.kind = "elicit"
<1> DEFINE r == DispatchLeaf(e, s)
           seen == Here(e, s.bag)
<1>0. r \in Walks /\ s.bag \in AttributeBags
  BY LeafTyped, WalkParts
<1>1. /\ AllPass(seen, s.at) <=> Passes(e, s.at, s.bag)
      /\ Grants(seen) <=> e.kind = "delegate" /\ e.ans = "allow"
      /\ TaintsIn(seen) = IF e.kind \in {"taint", "plugin"} THEN {e.label} ELSE {}
      /\ RestrictsIn(seen) = IF e.kind = "restrict" /\ e.ans = "resolved" THEN {e.label} ELSE {}
  BY HereIs
<1>2. ~Grants(seen) => BagAfter(s.bag, seen) = s.bag
  BY <1>0, BagAfterIs
<1> HIDE DEF seen
\* What is left to show of each kind.
<1> DEFINE Goal == /\ r.at = s.at
                   /\ r.out = "continue" <=> Passes(e, s.at, s.bag)
                   /\ r.out = "continue" =>
                        /\ r.bag = BagAfter(s.bag, seen)
                        /\ s.taints \cup TaintsIn(seen) \subseteq r.taints
                        /\ r.restricts = s.restricts \cup RestrictsIn(seen)
                   /\ r.out = "pending" => e.kind = "elicit"
<1>3. Goal => Walked(s, seen, r) /\ (r.out = "pending" => e.kind = "elicit")
  BY <1>0, <1>1, Zenon DEF Walked
<1>4. ASSUME e.kind \in {"allow", "deny"} PROVE Goal
  <2>1. r = IF e.kind = "allow" THEN s ELSE Ends(s, "halt")
    BY <1>4 DEF DispatchLeaf
  <2>2. Passes(e, s.at, s.bag) <=> e.kind = "allow"
    BY <1>4 DEF Passes
  <2> HIDE DEF r
  <2> QED BY <1>1, <1>2, <1>4, <2>1, <2>2, EndsIs
<1>5. ASSUME e.kind = "taint" PROVE Goal
  <2>1. r = [s EXCEPT !.taints = @ \cup {e.label}] /\ e.label \in PolicyLabels
    BY <1>5, LeafShape DEF DispatchLeaf
  <2>2. Passes(e, s.at, s.bag)
    BY <1>5 DEF Passes
  <2> HIDE DEF r
  <2> QED BY <1>1, <1>2, <1>5, <2>1, <2>2, ToldIs
<1>6. ASSUME e.kind = "plugin" PROVE Goal
  <2>1. PICK t : t = [s EXCEPT !.taints = @ \cup {e.label}]
    OBVIOUS
  <2>2. r = IF e.ans = "allow" THEN t
            ELSE IF e.ans = "deny" THEN Ends(t, "halt")
            ELSE IF e.ans = "panic" THEN Ends(s, "panicked") ELSE Ends(s, "halt")
    BY <1>6, <2>1, LeafShape DEF DispatchLeaf
  <2>3. Passes(e, s.at, s.bag) <=> e.ans = "allow"
    BY <1>6 DEF Passes
  <2>4. /\ t \in Walks /\ t.at = s.at /\ t.out = s.out /\ t.bag = s.bag
        /\ t.taints = s.taints \cup {e.label} /\ t.restricts = s.restricts
    BY <1>6, <2>1, LeafShape, ToldIs
  <2> HIDE DEF r
  <2> QED BY <1>1, <1>2, <1>6, <2>2, <2>3, <2>4, EndsIs
<1>7. ASSUME e.kind = "delegate" PROVE Goal
  <2>1. PICK t : t = [s EXCEPT !.bag.granted = TRUE]
    OBVIOUS
  <2>2. r = IF e.ans = "allow" THEN t ELSE IF e.onError = "continue" THEN s ELSE Ends(s, "halt")
    BY <1>7, <2>1 DEF DispatchLeaf, OnError
  <2>3. Passes(e, s.at, s.bag) <=> e.ans = "allow" \/ e.onError = "continue"
    BY <1>7 DEF Passes
  <2>4. e.ans = "allow" => t.bag = BagAfter(s.bag, seen)
    BY <1>0, <1>1, <1>7, <2>1 DEF Walks, AttributeBags, BagAfter
  <2>5. t.at = s.at /\ t.out = s.out /\ t.taints = s.taints /\ t.restricts = s.restricts
    BY <2>1 DEF Walks
  <2> HIDE DEF r
  <2> QED BY <1>1, <1>2, <1>7, <2>2, <2>3, <2>4, <2>5, EndsIs
<1>8. ASSUME e.kind = "elicit" PROVE Goal
  <2> DEFINE suits == EvalExpression[e.scope][s.bag] = "true"
  <2>1. r = IF e.ans = "approved" /\ suits THEN s
            ELSE IF e.ans = "pending" THEN Ends(s, "pending")
            ELSE IF e.ans \in {"denied", "unavailable"} THEN Ends(s, "halt")
            ELSE IF e.onError = "continue" THEN s ELSE Ends(s, "halt")
    BY <1>8, LeafShape DEF DispatchLeaf, DispatchElicitation, OnError
  <2>2. /\ Passes(e, s.at, s.bag) <=>
             ((e.ans = "approved" /\ suits) \/ (e.ans \in {"approved", "failed"} /\ e.onError = "continue"))
        /\ e.ans \in {"approved", "pending", "denied", "unavailable", "failed"}
    BY <1>8, LeafShape DEF Passes
  <2> HIDE DEF suits
  <2> HIDE DEF r
  <2> QED BY <1>1, <1>2, <1>8, <2>1, <2>2, EndsIs
<1>9. ASSUME e.kind = "restrict" PROVE Goal
  <2>1. PICK t : t = [s EXCEPT !.restricts = @ \cup {e.label}]
    OBVIOUS
  <2>2. r = IF e.ans = "resolved" THEN t ELSE IF e.ans = "empty" THEN s ELSE Ends(s, "halt")
    BY <1>9, <2>1, LeafShape DEF DispatchLeaf
  <2>3. /\ Passes(e, s.at, s.bag) <=> e.ans # "unresolvable"
        /\ e.ans \in {"resolved", "empty", "unresolvable"}
    BY <1>9, LeafShape DEF Passes
  <2>4. /\ t.at = s.at /\ t.out = s.out /\ t.bag = s.bag
        /\ t.taints = s.taints /\ t.restricts = s.restricts \cup {e.label}
    BY <2>1 DEF Walks
  <2> HIDE DEF r
  <2> QED BY <1>1, <1>2, <1>9, <2>2, <2>3, <2>4, EndsIs
<1>10. ASSUME e.kind = "field" PROVE Goal
  <2>1. r = IF e.side = s.at THEN ApplyPipeline(e, s) ELSE s
    BY <1>10 DEF DispatchLeaf
  <2>2. Passes(e, s.at, s.bag) <=>
          (e.side # s.at \/ (e.expands /\ EvaluatePipeline(e.stages, s.bag).out # "deny"))
    BY <1>10 DEF Passes
  <2>3. PICK a : a = ApplyPipeline(e, s)
    OBVIOUS
  <2>4. /\ a.at = s.at /\ a.bag = s.bag /\ s.taints \subseteq a.taints /\ a.restricts = s.restricts
        /\ a.out = IF e.expands /\ EvaluatePipeline(e.stages, s.bag).out # "deny" THEN s.out ELSE "halt"
    BY <1>10, <2>3, ApplyIs
  <2> HIDE DEF r
  <2> QED BY <1>1, <1>2, <1>10, <2>1, <2>2, <2>3, <2>4
<1> HIDE DEF Goal, r
<1>11. Goal
  BY <1>4, <1>5, <1>6, <1>7, <1>8, <1>9, <1>10, LeafShape
<1> QED BY <1>3, <1>11 DEF seen, r

-----------------------------------------------------------------------------
(* The loops over a list of effects.                                       *)

\* One effect of a list: d from each of the states in which the walk goes on.
WalkRound(d, x) == UNION {IF r.out = "continue" THEN d[r] ELSE {r} : r \in x}

\* The states a walk over a list may be in, after each of its effects.
WalkRun(f, es, s, a) ==
    /\ a[0] = {s}
    /\ \A k \in 1 .. Len(es) : a[k] = WalkRound(f[es[k]], a[k - 1])

LEMMA WalkLoop ==
    ASSUME NEW f, NEW es \in Seq(Effects), \A i \in DOMAIN es : f[es[i]] \in [Walks -> SUBSET Walks],
           NEW s \in Walks
    PROVE  \E a \in [0 .. Len(es) -> SUBSET Walks] :
             WalkRun(f, es, s, a) /\ WalkEffects(f, es, s) = a[Len(es)]
<1> DEFINE n == Len(es)
           Turn(k, x) == WalkRound(f[es[k]], x)
           start == {s}
           body == [k \in 1 .. n |-> [x \in SUBSET Walks |-> Turn(k, x)]]
           After(g) == [k \in 0 .. Len(es) |-> IF k = 0 THEN start ELSE Turn(k, g[k - 1])]
<1>1. n \in Nat /\ start \in SUBSET Walks /\ \A k \in 1 .. n : f[es[k]] \in [Walks -> SUBSET Walks]
  OBVIOUS
<1>2. \A k \in 1 .. n, x \in SUBSET Walks : Turn(k, x) \in SUBSET Walks
  BY <1>1 DEF WalkRound
<1>3. body \in [1 .. n -> [SUBSET Walks -> SUBSET Walks]]
  <2> HIDE DEF Turn
  <2> QED BY <1>2
<1>4. PICK h \in [0 .. n -> SUBSET Walks] : RunOf(h, n, start, body)
  <2> HIDE DEF body, start, n
  <2> QED BY <1>1, <1>3, LoopRuns
<1>5. h[0] = start /\ \A k \in 1 .. n : h[k] = Turn(k, h[k - 1])
  <2>1. \A k \in 1 .. n : h[k - 1] \in SUBSET Walks
    BY <1>1
  <2> HIDE DEF Turn, start
  <2> QED BY <1>4, <2>1 DEF RunOf
<1>6. h = After(h)
  <2> HIDE DEF start, Turn
  <2> QED BY <1>1, <1>5
<1>7. \E g : g = After(g)
  BY <1>6
<1> DEFINE c == CHOOSE g : g = After(g)
<1>8. c = After(c)
  BY <1>7, Zenon
<1>9. WalkEffects(f, es, s) = c[n]
  BY Zenon DEF WalkEffects, WalkRound
<1> HIDE DEF c, start, n
<1>10. c[0] = start /\ \A k \in 1 .. n : c[k] = Turn(k, c[k - 1])
  <2> HIDE DEF Turn
  <2> QED BY <1>1, <1>8 DEF n
<1> DEFINE P == {k \in 0 .. n : c[k] \in SUBSET Walks}
<1>11. 0 \in P
  BY <1>1, <1>10
<1>12. ASSUME NEW k \in 1 .. n, k - 1 \in P PROVE k \in P
  <2>1. k \in 0 .. n
    BY <1>1
  <2> HIDE DEF Turn
  <2>2. c[k] = Turn(k, c[k - 1]) /\ Turn(k, c[k - 1]) \in SUBSET Walks
    BY <1>2, <1>10, <1>12
  <2> QED BY <2>1, <2>2
<1>13. \A k \in 0 .. n : k \in P
  <2> HIDE DEF P
  <2> QED BY <1>1, <1>11, <1>12, UpToInduction
<1>14. DOMAIN c = 0 .. n
  BY <1>8 DEF n
<1>15. c \in [0 .. n -> SUBSET Walks]
  <2>1. c = [k \in 0 .. n |-> c[k]]
    BY <1>8 DEF n
  <2> QED BY <1>13, <2>1
<1>16. WalkRun(f, es, s, c)
  BY <1>10 DEF WalkRun, start, n
<1> QED BY <1>9, <1>15, <1>16 DEF n

LEMMA WalkLocal ==
    ASSUME NEW f, NEW g, NEW es \in Seq(Effects), NEW s \in Walks,
           \A i \in DOMAIN es : f[es[i]] \in [Walks -> SUBSET Walks] /\ f[es[i]] = g[es[i]]
    PROVE  WalkEffects(f, es, s) = WalkEffects(g, es, s)
<1> DEFINE n == Len(es)
<1>1. PICK a \in [0 .. n -> SUBSET Walks] : WalkRun(f, es, s, a) /\ WalkEffects(f, es, s) = a[n]
  BY WalkLoop
<1>2. PICK b \in [0 .. n -> SUBSET Walks] : WalkRun(g, es, s, b) /\ WalkEffects(g, es, s) = b[n]
  <2>1. \A i \in DOMAIN es : g[es[i]] \in [Walks -> SUBSET Walks]
    OBVIOUS
  <2> QED BY <2>1, WalkLoop
<1> DEFINE P == {k \in 0 .. n : a[k] = b[k]}
<1>3. n \in Nat /\ \A k \in 1 .. n : f[es[k]] = g[es[k]]
  OBVIOUS
<1>4. 0 \in P
  <2>1. a[0] = b[0]
    BY <1>1, <1>2 DEF WalkRun
  <2>2. 0 \in 0 .. n
    BY <1>3
  <2> QED BY <2>1, <2>2
<1>5. ASSUME NEW k \in 1 .. n, k - 1 \in P PROVE k \in P
  <2>0. k \in 0 .. n
    BY <1>3
  <2>1. a[k - 1] = b[k - 1] /\ f[es[k]] = g[es[k]]
    BY <1>3, <1>5
  <2>2. a[k] = WalkRound(f[es[k]], a[k - 1])
    BY <1>1 DEF WalkRun
  <2>3. b[k] = WalkRound(g[es[k]], b[k - 1])
    BY <1>2 DEF WalkRun
  <2>4. a[k] = b[k]
    BY <2>1, <2>2, <2>3
  <2> QED BY <2>0, <2>4
<1>6. n \in P
  <2>1. n \in 0 .. n
    BY <1>3
  <2> HIDE DEF P, n
  <2> QED BY <1>3, <1>4, <1>5, <2>1, UpToInduction
<1> QED BY <1>1, <1>2, <1>6

\* The gates a list meets, after each of its effects.
VisitRun(f, es, bag, a) ==
    /\ a[0] = {}
    /\ \A k \in 1 .. Len(es) : a[k] = a[k - 1] \cup f[es[k]][BagAfter(bag, a[k - 1])]

LEMMA VisitLoop ==
    ASSUME NEW f, NEW es \in Seq(Effects), \A i \in DOMAIN es : f[es[i]] \in [AttributeBags -> SUBSET Gates],
           NEW bag \in AttributeBags
    PROVE  \E a \in [0 .. Len(es) -> SUBSET Gates] :
             VisitRun(f, es, bag, a) /\ VisitsOf(f, es, bag) = a[Len(es)]
<1> DEFINE n == Len(es)
           Turn(k, x) == x \cup f[es[k]][BagAfter(bag, x)]
           start == {}
           body == [k \in 1 .. n |-> [x \in SUBSET Gates |-> Turn(k, x)]]
           After(g) == [k \in 0 .. Len(es) |-> IF k = 0 THEN start ELSE Turn(k, g[k - 1])]
<1>1. n \in Nat /\ start \in SUBSET Gates /\ \A k \in 1 .. n : f[es[k]] \in [AttributeBags -> SUBSET Gates]
  OBVIOUS
<1>2. \A k \in 1 .. n, x \in SUBSET Gates : Turn(k, x) \in SUBSET Gates
  BY <1>1, BagAfterIs
<1>3. body \in [1 .. n -> [SUBSET Gates -> SUBSET Gates]]
  <2> HIDE DEF Turn
  <2> QED BY <1>2
<1>4. PICK h \in [0 .. n -> SUBSET Gates] : RunOf(h, n, start, body)
  <2> HIDE DEF body, start, n
  <2> QED BY <1>1, <1>3, LoopRuns
<1>5. h[0] = start /\ \A k \in 1 .. n : h[k] = Turn(k, h[k - 1])
  <2>1. \A k \in 1 .. n : h[k - 1] \in SUBSET Gates
    BY <1>1
  <2> HIDE DEF Turn, start
  <2> QED BY <1>4, <2>1 DEF RunOf
<1>6. h = After(h)
  <2> HIDE DEF start, Turn
  <2> QED BY <1>1, <1>5
<1>7. \E g : g = After(g)
  BY <1>6
<1> DEFINE c == CHOOSE g : g = After(g)
<1>8. c = After(c)
  BY <1>7, Zenon
<1>9. VisitsOf(f, es, bag) = c[n]
  BY Zenon DEF VisitsOf
<1> HIDE DEF c, start, n
<1>10. c[0] = start /\ \A k \in 1 .. n : c[k] = Turn(k, c[k - 1])
  <2> HIDE DEF Turn
  <2> QED BY <1>1, <1>8 DEF n
<1> DEFINE P == {k \in 0 .. n : c[k] \in SUBSET Gates}
<1>11. 0 \in P
  BY <1>1, <1>10
<1>12. ASSUME NEW k \in 1 .. n, k - 1 \in P PROVE k \in P
  <2>1. k \in 0 .. n
    BY <1>1
  <2> HIDE DEF Turn
  <2>2. c[k] = Turn(k, c[k - 1]) /\ Turn(k, c[k - 1]) \in SUBSET Gates
    BY <1>2, <1>10, <1>12
  <2> QED BY <2>1, <2>2
<1>13. \A k \in 0 .. n : k \in P
  <2> HIDE DEF P
  <2> QED BY <1>1, <1>11, <1>12, UpToInduction
<1>14. DOMAIN c = 0 .. n
  BY <1>8 DEF n
<1>15. c \in [0 .. n -> SUBSET Gates]
  <2>1. c = [k \in 0 .. n |-> c[k]]
    BY <1>8 DEF n
  <2> QED BY <1>13, <2>1
<1>16. VisitRun(f, es, bag, c)
  BY <1>10 DEF VisitRun, start, n
<1> QED BY <1>9, <1>15, <1>16 DEF n

LEMMA VisitLocal ==
    ASSUME NEW f, NEW g, NEW es \in Seq(Effects), NEW bag \in AttributeBags,
           \A i \in DOMAIN es : f[es[i]] \in [AttributeBags -> SUBSET Gates] /\ f[es[i]] = g[es[i]]
    PROVE  VisitsOf(f, es, bag) = VisitsOf(g, es, bag)
<1> DEFINE n == Len(es)
<1>1. PICK a \in [0 .. n -> SUBSET Gates] : VisitRun(f, es, bag, a) /\ VisitsOf(f, es, bag) = a[n]
  BY VisitLoop
<1>2. PICK b \in [0 .. n -> SUBSET Gates] : VisitRun(g, es, bag, b) /\ VisitsOf(g, es, bag) = b[n]
  <2>1. \A i \in DOMAIN es : g[es[i]] \in [AttributeBags -> SUBSET Gates]
    OBVIOUS
  <2> QED BY <2>1, VisitLoop
<1> DEFINE P == {k \in 0 .. n : a[k] = b[k]}
<1>3. n \in Nat /\ \A k \in 1 .. n : f[es[k]] = g[es[k]]
  OBVIOUS
<1>4. 0 \in P
  <2>1. a[0] = b[0]
    BY <1>1, <1>2 DEF VisitRun
  <2>2. 0 \in 0 .. n
    BY <1>3
  <2> QED BY <2>1, <2>2
<1>5. ASSUME NEW k \in 1 .. n, k - 1 \in P PROVE k \in P
  <2>0. k \in 0 .. n
    BY <1>3
  <2>1. a[k - 1] = b[k - 1] /\ f[es[k]] = g[es[k]]
    BY <1>3, <1>5
  <2>2. a[k] = a[k - 1] \cup f[es[k]][BagAfter(bag, a[k - 1])]
    BY <1>1 DEF VisitRun
  <2>3. b[k] = b[k - 1] \cup g[es[k]][BagAfter(bag, b[k - 1])]
    BY <1>2 DEF VisitRun
  <2> QED BY <2>0, <2>1, <2>2, <2>3
<1>6. n \in P
  <2>1. n \in 0 .. n
    BY <1>3
  <2> HIDE DEF P, n
  <2> QED BY <1>3, <1>4, <1>5, <2>1, UpToInduction
<1> QED BY <1>1, <1>2, <1>6

-----------------------------------------------------------------------------
(* Branches that run as tasks.                                             *)

Fresh(s) == [s EXCEPT !.taints = {}, !.restricts = {}]
ResultsOf(f, e, s) == [i \in DOMAIN e.body |-> f[e.body[i]][Fresh(s)]]

LEMMA FreshIs ==
    ASSUME NEW s \in Walks
    PROVE  /\ Fresh(s) \in Walks /\ Fresh(s).out = s.out /\ Fresh(s).at = s.at /\ Fresh(s).bag = s.bag
           /\ Fresh(s).taints = {} /\ Fresh(s).restricts = {}
BY DEF Fresh, Walks

LEMMA OutcomesAre ==
    ASSUME NEW n, NEW results \in [n -> SUBSET Walks], NEW f \in BranchOutcomes(results)
    PROVE  /\ DOMAIN f = n
           /\ \A i \in n : f[i].out # "aborted" => f[i] \in results[i]
           /\ (\E i \in n : f[i].out = "aborted") => \E i \in n : f[i].out = "halt"
<1>1. PICK c : c = [out |-> "aborted"]
  OBVIOUS
<1>2. c.out = "aborted"
  BY <1>1
<1>3. /\ DOMAIN f = n
      /\ \A i \in n : f[i] \in results[i] \cup {c}
      /\ (\E i \in n : f[i] = c) => \E i \in n : f[i].out = "halt"
  BY <1>1 DEF BranchOutcomes
<1>4. \A i \in n : f[i] \in results[i] => f[i].out # "aborted"
  <2>1. \A r \in Walks : r.out # "aborted"
    BY WalkParts
  <2> QED BY <2>1
<1> QED BY <1>2, <1>3, <1>4

\* The results that are joined.
Done(f) == {f[i] : i \in {j \in DOMAIN f : f[j].out \notin {"aborted", "panicked"}}}

LEMMA JoinIs ==
    ASSUME NEW n, NEW results \in [n -> SUBSET Walks], NEW f \in BranchOutcomes(results),
           NEW s \in Walks
    PROVE  /\ Join(f, s) \in Walks /\ Join(f, s).at = s.at /\ Join(f, s).bag = s.bag
           /\ Join(f, s).out = IF \E i \in n : f[i].out \in {"halt", "panicked"} THEN "halt" ELSE s.out
           /\ Join(f, s).taints = s.taints \cup UNION {r.taints : r \in Done(f)}
           /\ Join(f, s).restricts = s.restricts \cup UNION {r.restricts : r \in Done(f)}
<1> DEFINE ts == UNION {r.taints : r \in Done(f)}
           rs == UNION {r.restricts : r \in Done(f)}
           o == IF \E i \in n : f[i].out \in {"halt", "panicked"} THEN "halt" ELSE s.out
<1>1. DOMAIN f = n /\ \A i \in n : f[i].out # "aborted" => f[i] \in results[i]
  BY OutcomesAre
<1>2. \A r \in Done(f) : r \in Walks
  BY <1>1 DEF Done
<1>3. ts \in SUBSET PolicyLabels /\ rs \in SUBSET PolicyLabels
  BY <1>2, WalkParts
<1>4. Join(f, s) = [s EXCEPT !.taints = @ \cup ts, !.restricts = @ \cup rs, !.out = o]
  BY <1>1, Zenon DEF Join, Done
<1>5. o \in {"continue", "halt", "pending", "panicked"}
  BY WalkParts
<1> HIDE DEF ts, rs, o
<1>6. /\ Join(f, s) \in Walks /\ Join(f, s).at = s.at /\ Join(f, s).bag = s.bag
      /\ Join(f, s).out = o
      /\ Join(f, s).taints = s.taints \cup ts
      /\ Join(f, s).restricts = s.restricts \cup rs
  BY <1>3, <1>4, <1>5 DEF Walks
<1> QED BY <1>6 DEF ts, rs, o

-----------------------------------------------------------------------------
(* Dispatch, as a step from what it does to the effects within.            *)

DispatchStep(f, e, s) ==
    CASE e.kind = "sequential" -> WalkEffects(f, e.body, s)
      [] e.kind = "parallel" -> {Join(h, s) : h \in BranchOutcomes(ResultsOf(f, e, s))}
      [] e.kind = "when" ->
           CASE EvalExpression[e.cond][s.bag] = "true" -> WalkEffects(f, e.body, s)
             [] EvalExpression[e.cond][s.bag] = "false" -> {s}
             [] OTHER -> {Ends(s, "halt")}
      [] e.kind = "pdp" ->
           CASE e.ans = "allow" -> WalkEffects(f, e.onAllow, s)
             [] e.ans = "deny" -> {PdpDenied(r) : r \in WalkEffects(f, e.onDeny, s)}
             [] OTHER -> {Ends(s, "halt")}
      [] OTHER -> {DispatchLeaf(e, s)}

Moves == [Walks -> SUBSET Walks]

LEMMA WalkEffectsIs ==
    ASSUME NEW e \in Effects, NEW es \in Bodies(e), NEW s \in Walks,
           NEW f, \A d \in Range(Children(e)) : f[d] \in Moves
    PROVE  WalkEffects(f, es, s) \in SUBSET Walks
<1>1. es \in Seq(Effects) /\ Len(es) \in Nat /\ \A i \in DOMAIN es : f[es[i]] \in Moves
  BY BodiesIn
<1>2. PICK a \in [0 .. Len(es) -> SUBSET Walks] : WalkEffects(f, es, s) = a[Len(es)]
  BY <1>1, WalkLoop DEF Moves
<1>3. Len(es) \in 0 .. Len(es)
  BY <1>1
<1> QED BY <1>2, <1>3

LEMMA DispatchStepIs ==
    ASSUME NEW e \in Effects, NEW s \in Walks,
           NEW f, \A d \in Range(Children(e)) : f[d] \in Moves
    PROVE  DispatchStep(f, e, s) \in SUBSET Walks
<1>1. CASE e.kind = "sequential"
  <2>1. e.body \in Bodies(e)
    BY <1>1 DEF Bodies
  <2> QED BY <1>1, <2>1, WalkEffectsIs DEF DispatchStep
<1>2. CASE e.kind = "parallel"
  <2>1. e.body \in Bodies(e)
    BY <1>2 DEF Bodies
  <2>2. ResultsOf(f, e, s) \in [DOMAIN e.body -> SUBSET Walks]
    BY <2>1, BodiesIn, FreshIs DEF ResultsOf, Moves
  <2>3. \A h \in BranchOutcomes(ResultsOf(f, e, s)) : Join(h, s) \in Walks
    BY <2>2, JoinIs
  <2> QED BY <1>2, <2>3 DEF DispatchStep
<1>3. CASE e.kind = "when"
  <2>1. e.body \in Bodies(e)
    BY <1>3 DEF Bodies
  <2>2. WalkEffects(f, e.body, s) \in SUBSET Walks /\ Ends(s, "halt") \in Walks
    BY <2>1, WalkEffectsIs, EndsIs
  <2> QED BY <1>3, <2>2 DEF DispatchStep
<1>4. CASE e.kind = "pdp"
  <2>1. e.onAllow \in Bodies(e) /\ e.onDeny \in Bodies(e)
    BY <1>4 DEF Bodies
  <2>2. /\ WalkEffects(f, e.onAllow, s) \in SUBSET Walks /\ Ends(s, "halt") \in Walks
        /\ WalkEffects(f, e.onDeny, s) \in SUBSET Walks
    BY <2>1, WalkEffectsIs, EndsIs
  <2>3. \A r \in Walks : PdpDenied(r) \in Walks
    BY EndsIs DEF PdpDenied
  <2>4. {PdpDenied(r) : r \in WalkEffects(f, e.onDeny, s)} \in SUBSET Walks
    BY <2>2, <2>3
  <2> QED BY <1>4, <2>2, <2>4 DEF DispatchStep
<1>5. CASE Leaf(e)
  BY <1>5, LeafTyped DEF DispatchStep, Leaf
<1> QED BY <1>1, <1>2, <1>3, <1>4, <1>5 DEF Leaf

LEMMA DispatchLocal ==
    ASSUME NEW e \in Effects, NEW s \in Walks, NEW f, NEW g,
           \A d \in Range(Children(e)) : f[d] \in Moves /\ f[d] = g[d]
    PROVE  DispatchStep(f, e, s) = DispatchStep(g, e, s)
<1>0. ASSUME NEW es \in Bodies(e) PROVE WalkEffects(f, es, s) = WalkEffects(g, es, s)
  <2>1. es \in Seq(Effects) /\ \A i \in DOMAIN es : f[es[i]] \in Moves /\ f[es[i]] = g[es[i]]
    BY BodiesIn
  <2> QED BY <2>1, WalkLocal DEF Moves
<1>1. CASE e.kind = "sequential"
  BY <1>0, <1>1 DEF DispatchStep, Bodies
<1>2. CASE e.kind = "parallel"
  <2>1. e.body \in Bodies(e)
    BY <1>2 DEF Bodies
  <2>2. ResultsOf(f, e, s) = ResultsOf(g, e, s)
    BY <2>1, BodiesIn DEF ResultsOf
  <2> QED BY <1>2, <2>2 DEF DispatchStep
<1>3. CASE e.kind = "when"
  <2>1. WalkEffects(f, e.body, s) = WalkEffects(g, e.body, s)
    BY <1>0, <1>3 DEF Bodies
  <2> QED BY <1>3, <2>1 DEF DispatchStep
<1>4. CASE e.kind = "pdp"
  <2>1. /\ WalkEffects(f, e.onAllow, s) = WalkEffects(g, e.onAllow, s)
        /\ WalkEffects(f, e.onDeny, s) = WalkEffects(g, e.onDeny, s)
    BY <1>0, <1>4 DEF Bodies
  <2> QED BY <1>4, <2>1 DEF DispatchStep
<1>5. CASE Leaf(e)
  BY <1>5 DEF DispatchStep, Leaf
<1> QED BY <1>1, <1>2, <1>3, <1>4, <1>5 DEF Leaf

LEMMA DispatchIs ==
    /\ Dispatch \in [Effects -> Moves]
    /\ \A e \in Effects, s \in Walks : Dispatch[e][s] = DispatchStep(Dispatch, e, s)
<1> DEFINE F == [Effects -> Moves]
           Step(f) == [e \in Effects |-> [s \in Walks |-> DispatchStep(f, e, s)]]
           body == [f \in F |-> Step(f)]
<1>1. ASSUME NEW f \in F PROVE Step(f) \in F
  <2>1. \A e \in Effects : \A d \in Range(Children(e)) : f[d] \in Moves
    BY ChildrenIn
  <2>2. \A e \in Effects, s \in Walks : DispatchStep(f, e, s) \in SUBSET Walks
    BY <2>1, DispatchStepIs
  <2> QED BY <2>2 DEF Moves
<1>2. [s \in Walks |-> {}] \in Moves
  BY DEF Moves
<1>3. ASSUME NEW n \in DOMAIN EffectLevels, NEW e \in EffectLevels[n],
             NEW f \in F, NEW g \in F, \A d \in Below(EffectLevels, n) : f[d] = g[d]
      PROVE  body[f][e] = body[g][e]
  <2>1. e \in Effects /\ \A d \in Range(Children(e)) : f[d] \in Moves /\ f[d] = g[d]
    BY <1>3, EffectsBelow, ChildrenIn
  <2>2. \A s \in Walks : DispatchStep(f, e, s) = DispatchStep(g, e, s)
    BY <2>1, DispatchLocal
  <2>3. Step(f)[e] = Step(g)[e]
    BY <2>1, <2>2
  <2> HIDE DEF Step
  <2> QED BY <2>3
<1>4. PICK f \in F : f = Step(f)
  <2>1. body \in [F -> F]
    <3> HIDE DEF Step, F
    <3> QED BY <1>1
  <2>2. Recursion(EffectLevels, Effects, Moves, body)
    <3> HIDE DEF body
    <3> QED BY <1>2, <1>3, <2>1, EffectsBelow DEF Recursion
  <2>3. \E f \in F : f = body[f]
    <3> HIDE DEF body
    <3> QED BY <2>2, LevelRuns
  <2> HIDE DEF Step, F
  <2> QED BY <2>3
<1>5. \E g : g = Step(g)
  BY <1>4
<1>6. Dispatch = Step(Dispatch)
  BY <1>5, Zenon DEF Dispatch, DispatchStep, ResultsOf, Fresh
<1>7. \A e \in Effects, s \in Walks : Dispatch[e][s] = DispatchStep(Dispatch, e, s)
  BY <1>6
<1>8. \A e \in Effects : Dispatch[e] \in Moves
  <2> DEFINE P == {e \in Effects : Dispatch[e] \in Moves}
  <2>1. ASSUME NEW n \in DOMAIN EffectLevels, NEW e \in EffectLevels[n],
               Below(EffectLevels, n) \subseteq P
        PROVE  e \in P
    <3>1. e \in Effects /\ \A d \in Range(Children(e)) : Dispatch[d] \in Moves
      BY <2>1, EffectsBelow
    <3>2. \A s \in Walks : DispatchStep(Dispatch, e, s) \in SUBSET Walks
      BY <3>1, DispatchStepIs
    <3>3. Dispatch[e] = [s \in Walks |-> DispatchStep(Dispatch, e, s)]
      BY <1>6, <3>1
    <3> QED BY <3>1, <3>2, <3>3 DEF Moves
  <2>2. Effects \subseteq P
    <3>1. Effects = UNION Range(EffectLevels)
      BY DEF Effects
    <3> HIDE DEF P
    <3> QED BY <2>1, <3>1, LevelInduction, EffectsBelow
  <2> QED BY <2>2
<1> QED BY <1>6, <1>7, <1>8

-----------------------------------------------------------------------------
(* Visits, likewise.                                                       *)

VisitStep(f, e, bag) ==
    CASE e.kind = "sequential" -> VisitsOf(f, e.body, bag)
      [] e.kind = "parallel" -> UNION {f[e.body[i]][bag] : i \in DOMAIN e.body}
      [] e.kind = "when" ->
           CASE EvalExpression[e.cond][bag] = "true" -> VisitsOf(f, e.body, bag)
             [] EvalExpression[e.cond][bag] = "false" -> {}
             [] OTHER -> Here(e, bag)
      [] e.kind = "pdp" -> Here(e, bag) \cup (IF e.ans = "allow" THEN VisitsOf(f, e.onAllow, bag) ELSE {})
      [] OTHER -> Here(e, bag)

Sights == [AttributeBags -> SUBSET Gates]

LEMMA VisitsOfIs ==
    ASSUME NEW e \in Effects, NEW es \in Bodies(e), NEW bag \in AttributeBags,
           NEW f, \A d \in Range(Children(e)) : f[d] \in Sights
    PROVE  VisitsOf(f, es, bag) \in SUBSET Gates
<1>1. es \in Seq(Effects) /\ Len(es) \in Nat /\ \A i \in DOMAIN es : f[es[i]] \in Sights
  BY BodiesIn
<1>2. PICK a \in [0 .. Len(es) -> SUBSET Gates] : VisitsOf(f, es, bag) = a[Len(es)]
  BY <1>1, VisitLoop DEF Sights
<1>3. Len(es) \in 0 .. Len(es)
  BY <1>1
<1> QED BY <1>2, <1>3

LEMMA VisitStepIs ==
    ASSUME NEW e \in Effects, NEW bag \in AttributeBags,
           NEW f, \A d \in Range(Children(e)) : f[d] \in Sights
    PROVE  VisitStep(f, e, bag) \in SUBSET Gates
<1>0. Here(e, bag) \in SUBSET Gates
  BY DEF Here, Gates
<1>1. CASE e.kind = "sequential"
  BY <1>1, VisitsOfIs DEF VisitStep, Bodies
<1>2. CASE e.kind = "parallel"
  <2>1. e.body \in Bodies(e)
    BY <1>2 DEF Bodies
  <2>2. \A i \in DOMAIN e.body : f[e.body[i]][bag] \in SUBSET Gates
    BY <2>1, BodiesIn DEF Sights
  <2> QED BY <1>2, <2>2 DEF VisitStep
<1>3. CASE e.kind = "when"
  <2>1. VisitsOf(f, e.body, bag) \in SUBSET Gates
    BY <1>3, VisitsOfIs DEF Bodies
  <2> QED BY <1>0, <1>3, <2>1 DEF VisitStep
<1>4. CASE e.kind = "pdp"
  <2>1. VisitsOf(f, e.onAllow, bag) \in SUBSET Gates
    BY <1>4, VisitsOfIs DEF Bodies
  <2> QED BY <1>0, <1>4, <2>1 DEF VisitStep
<1>5. CASE Leaf(e)
  BY <1>0, <1>5 DEF VisitStep, Leaf
<1> QED BY <1>1, <1>2, <1>3, <1>4, <1>5 DEF Leaf

LEMMA VisitStepLocal ==
    ASSUME NEW e \in Effects, NEW bag \in AttributeBags, NEW f, NEW g,
           \A d \in Range(Children(e)) : f[d] \in Sights /\ f[d] = g[d]
    PROVE  VisitStep(f, e, bag) = VisitStep(g, e, bag)
<1>0. ASSUME NEW es \in Bodies(e) PROVE VisitsOf(f, es, bag) = VisitsOf(g, es, bag)
  <2>1. es \in Seq(Effects) /\ \A i \in DOMAIN es : f[es[i]] \in Sights /\ f[es[i]] = g[es[i]]
    BY BodiesIn
  <2> QED BY <2>1, VisitLocal DEF Sights
<1>1. CASE e.kind = "sequential"
  BY <1>0, <1>1 DEF VisitStep, Bodies
<1>2. CASE e.kind = "parallel"
  <2>1. e.body \in Bodies(e)
    BY <1>2 DEF Bodies
  <2>2. \A i \in DOMAIN e.body : f[e.body[i]] = g[e.body[i]]
    BY <2>1, BodiesIn
  <2>3. {f[e.body[i]][bag] : i \in DOMAIN e.body} = {g[e.body[i]][bag] : i \in DOMAIN e.body}
    BY <2>2
  <2> QED BY <1>2, <2>3 DEF VisitStep
<1>3. CASE e.kind = "when"
  <2>1. VisitsOf(f, e.body, bag) = VisitsOf(g, e.body, bag)
    BY <1>0, <1>3 DEF Bodies
  <2> QED BY <1>3, <2>1 DEF VisitStep
<1>4. CASE e.kind = "pdp"
  <2>1. VisitsOf(f, e.onAllow, bag) = VisitsOf(g, e.onAllow, bag)
    BY <1>0, <1>4 DEF Bodies
  <2> QED BY <1>4, <2>1 DEF VisitStep
<1>5. CASE Leaf(e)
  BY <1>5 DEF VisitStep, Leaf
<1> QED BY <1>1, <1>2, <1>3, <1>4, <1>5 DEF Leaf

LEMMA VisitsIs ==
    /\ Visits \in [Effects -> Sights]
    /\ \A e \in Effects, bag \in AttributeBags : Visits[e][bag] = VisitStep(Visits, e, bag)
<1> DEFINE F == [Effects -> Sights]
           Step(f) == [e \in Effects |-> [bag \in AttributeBags |-> VisitStep(f, e, bag)]]
           body == [f \in F |-> Step(f)]
<1>1. ASSUME NEW f \in F PROVE Step(f) \in F
  <2>1. \A e \in Effects : \A d \in Range(Children(e)) : f[d] \in Sights
    BY ChildrenIn
  <2>2. \A e \in Effects, bag \in AttributeBags : VisitStep(f, e, bag) \in SUBSET Gates
    BY <2>1, VisitStepIs
  <2> QED BY <2>2 DEF Sights
<1>2. [bag \in AttributeBags |-> {}] \in Sights
  BY DEF Sights
<1>3. ASSUME NEW n \in DOMAIN EffectLevels, NEW e \in EffectLevels[n],
             NEW f \in F, NEW g \in F, \A d \in Below(EffectLevels, n) : f[d] = g[d]
      PROVE  body[f][e] = body[g][e]
  <2>1. e \in Effects /\ \A d \in Range(Children(e)) : f[d] \in Sights /\ f[d] = g[d]
    BY <1>3, EffectsBelow, ChildrenIn
  <2>2. \A bag \in AttributeBags : VisitStep(f, e, bag) = VisitStep(g, e, bag)
    BY <2>1, VisitStepLocal
  <2>3. Step(f)[e] = Step(g)[e]
    BY <2>1, <2>2
  <2> HIDE DEF Step
  <2> QED BY <2>3
<1>4. PICK f \in F : f = Step(f)
  <2>1. body \in [F -> F]
    <3> HIDE DEF Step, F
    <3> QED BY <1>1
  <2>2. Recursion(EffectLevels, Effects, Sights, body)
    <3> HIDE DEF body
    <3> QED BY <1>2, <1>3, <2>1, EffectsBelow DEF Recursion
  <2>3. \E f \in F : f = body[f]
    <3> HIDE DEF body
    <3> QED BY <2>2, LevelRuns
  <2> HIDE DEF Step, F
  <2> QED BY <2>3
<1>5. \E g : g = Step(g)
  BY <1>4
<1>6. Visits = Step(Visits)
  BY <1>5, Zenon DEF Visits, VisitStep, Here
<1>7. \A e \in Effects, bag \in AttributeBags : Visits[e][bag] = VisitStep(Visits, e, bag)
  BY <1>6
<1>8. \A e \in Effects : Visits[e] \in Sights
  <2> DEFINE P == {e \in Effects : Visits[e] \in Sights}
  <2>1. ASSUME NEW n \in DOMAIN EffectLevels, NEW e \in EffectLevels[n],
               Below(EffectLevels, n) \subseteq P
        PROVE  e \in P
    <3>1. e \in Effects /\ \A d \in Range(Children(e)) : Visits[d] \in Sights
      BY <2>1, EffectsBelow
    <3>2. \A bag \in AttributeBags : VisitStep(Visits, e, bag) \in SUBSET Gates
      BY <3>1, VisitStepIs
    <3>3. Visits[e] = [bag \in AttributeBags |-> VisitStep(Visits, e, bag)]
      BY <1>6, <3>1
    <3> QED BY <3>1, <3>2, <3>3 DEF Sights
  <2>2. Effects \subseteq P
    <3>1. Effects = UNION Range(EffectLevels)
      BY DEF Effects
    <3> HIDE DEF P
    <3> QED BY <2>1, <3>1, LevelInduction, EffectsBelow
  <2> QED BY <2>2
<1> QED BY <1>6, <1>7, <1>8

-----------------------------------------------------------------------------
(* A tree that changes nothing never waits and grants nothing.             *)

Quiet(e) ==
    /\ \A s \in Walks : s.out = "continue" => \A r \in Dispatch[e][s] : r.out # "pending"
    /\ \A bag \in AttributeBags : ~Grants(Visits[e][bag])

LEMMA ListQuiet ==
    ASSUME NEW es \in Seq(Effects), \A i \in DOMAIN es : Quiet(es[i])
    PROVE  /\ \A s \in Walks : s.out = "continue" =>
                \A r \in WalkEffects(Dispatch, es, s) : r.out # "pending"
           /\ \A bag \in AttributeBags : ~Grants(VisitsOf(Visits, es, bag))
<1> DEFINE n == Len(es)
<1>1. n \in Nat /\ DOMAIN es = 1 .. n /\ \A i \in 1 .. n : es[i] \in Effects /\ Quiet(es[i])
  OBVIOUS
<1>2. ASSUME NEW s \in Walks, s.out = "continue"
      PROVE  \A r \in WalkEffects(Dispatch, es, s) : r.out # "pending"
  <2>1. PICK a \in [0 .. n -> SUBSET Walks] : WalkRun(Dispatch, es, s, a) /\ WalkEffects(Dispatch, es, s) = a[n]
    BY <1>1, WalkLoop, DispatchIs DEF Moves
  <2> DEFINE P == {k \in 0 .. n : \A r \in a[k] : r.out # "pending"}
  <2>2. 0 \in P
    <3>1. a[0] = {s} /\ 0 \in 0 .. n
      BY <1>1, <2>1 DEF WalkRun
    <3> QED BY <1>2, <3>1
  <2>3. ASSUME NEW k \in 1 .. n, k - 1 \in P PROVE k \in P
    <3>0. k \in 0 .. n
      BY <1>1
    <3>1. a[k] = WalkRound(Dispatch[es[k]], a[k - 1])
      BY <2>1 DEF WalkRun
    <3>2. Quiet(es[k]) /\ a[k - 1] \in SUBSET Walks /\ \A r \in a[k - 1] : r.out # "pending"
      BY <1>1, <2>1, <2>3
    <3>3. \A r \in a[k] : r.out # "pending"
      BY <3>1, <3>2 DEF WalkRound, Quiet
    <3> QED BY <3>0, <3>3
  <2>4. n \in P
    <3>1. n \in 0 .. n
      BY <1>1
    <3> HIDE DEF P, n
    <3> QED BY <1>1, <2>2, <2>3, <3>1, UpToInduction
  <2> QED BY <2>1, <2>4
<1>3. ASSUME NEW bag \in AttributeBags PROVE ~Grants(VisitsOf(Visits, es, bag))
  <2>1. PICK a \in [0 .. n -> SUBSET Gates] : VisitRun(Visits, es, bag, a) /\ VisitsOf(Visits, es, bag) = a[n]
    BY <1>1, VisitLoop, VisitsIs DEF Sights
  <2> DEFINE P == {k \in 0 .. n : ~Grants(a[k])}
  <2>2. 0 \in P
    <3>1. a[0] = {} /\ 0 \in 0 .. n
      BY <1>1, <2>1 DEF VisitRun
    <3> QED BY <3>1 DEF Grants
  <2>3. ASSUME NEW k \in 1 .. n, k - 1 \in P PROVE k \in P
    <3>0. k \in 0 .. n
      BY <1>1
    <3>1. a[k] = a[k - 1] \cup Visits[es[k]][BagAfter(bag, a[k - 1])]
      BY <2>1 DEF VisitRun
    <3>2. ~Grants(a[k - 1]) /\ ~Grants(Visits[es[k]][BagAfter(bag, a[k - 1])])
      BY <1>1, <2>3, BagAfterIs DEF Quiet
    <3>3. ~Grants(a[k])
      BY <3>1, <3>2 DEF Grants
    <3> QED BY <3>0, <3>3
  <2>4. n \in P
    <3>1. n \in 0 .. n
      BY <1>1
    <3> HIDE DEF P, n
    <3> QED BY <1>1, <2>2, <2>3, <3>1, UpToInduction
  <2> QED BY <2>1, <2>4
<1> QED BY <1>2, <1>3

LEMMA MutationWithin ==
    ASSUME NEW e \in Effects, ~ContainsMutation(e)
    PROVE  /\ e.kind \notin {"field", "delegate", "elicit"}
           /\ \A d \in Range(Children(e)) : ~ContainsMutation(d)
BY WithinIs DEF ContainsMutation

LEMMA PureIsQuiet == \A e \in Effects : ~ContainsMutation(e) => Quiet(e)
<1> DEFINE P == {e \in Effects : ~ContainsMutation(e) => Quiet(e)}
<1>1. ASSUME NEW n \in DOMAIN EffectLevels, NEW e \in EffectLevels[n],
             Below(EffectLevels, n) \subseteq P
      PROVE  e \in P
  <2>1. e \in Effects /\ \A d \in Range(Children(e)) : ~ContainsMutation(d) => Quiet(d)
    BY <1>1, EffectsBelow
  <2>2. ASSUME ~ContainsMutation(e) PROVE Quiet(e)
    <3>1. \A d \in Range(Children(e)) : Quiet(d)
      BY <2>1, <2>2, MutationWithin
    <3>2. ASSUME NEW es \in Bodies(e)
          PROVE  /\ \A s \in Walks : s.out = "continue" =>
                      \A r \in WalkEffects(Dispatch, es, s) : r.out # "pending"
                 /\ \A bag \in AttributeBags : ~Grants(VisitsOf(Visits, es, bag))
      BY <2>1, <3>1, BodiesIn, ListQuiet
    <3>3. ASSUME NEW s \in Walks, s.out = "continue", NEW r \in Dispatch[e][s]
          PROVE  r.out # "pending"
      <4>0. r \in DispatchStep(Dispatch, e, s) /\ Ends(s, "halt").out = "halt"
        BY <2>1, <3>3, DispatchIs, EndsIs
      <4>1. CASE e.kind = "sequential"
        BY <3>2, <3>3, <4>0, <4>1 DEF DispatchStep, Bodies
      <4>2. CASE e.kind = "parallel"
        <5>1. e.body \in Bodies(e)
          BY <4>2 DEF Bodies
        <5>2. ResultsOf(Dispatch, e, s) \in [DOMAIN e.body -> SUBSET Walks]
          BY <2>1, <5>1, BodiesIn, FreshIs, DispatchIs DEF ResultsOf, Moves
        <5>3. PICK h \in BranchOutcomes(ResultsOf(Dispatch, e, s)) : r = Join(h, s)
          BY <4>0, <4>2 DEF DispatchStep
        <5> QED BY <3>3, <5>2, <5>3, JoinIs
      <4>3. CASE e.kind = "when"
        <5>1. \A t \in WalkEffects(Dispatch, e.body, s) : t.out # "pending"
          BY <3>2, <3>3, <4>3 DEF Bodies
        <5> QED BY <3>3, <4>0, <4>3, <5>1 DEF DispatchStep
      <4>4. CASE e.kind = "pdp"
        <5>1. /\ \A t \in WalkEffects(Dispatch, e.onAllow, s) : t.out # "pending"
              /\ \A t \in WalkEffects(Dispatch, e.onDeny, s) : t.out # "pending"
          BY <3>2, <3>3, <4>4 DEF Bodies
        <5>2. \A t \in WalkEffects(Dispatch, e.onDeny, s) : t \in Walks
          BY <2>1, <4>4, WalkEffectsIs, DispatchIs, ChildrenIn DEF Bodies
        <5>3. \A t \in WalkEffects(Dispatch, e.onDeny, s) : PdpDenied(t).out # "pending"
          BY <5>1, <5>2, EndsIs DEF PdpDenied
        <5> QED BY <3>3, <4>0, <4>4, <5>1, <5>3 DEF DispatchStep
      <4>5. CASE Leaf(e)
        <5>1. r = DispatchLeaf(e, s)
          BY <4>0, <4>5 DEF DispatchStep, Leaf
        <5> QED BY <2>1, <2>2, <3>3, <4>5, <5>1, LeafWalked, MutationWithin
      <4> QED BY <4>1, <4>2, <4>3, <4>4, <4>5 DEF Leaf
    <3>4. ASSUME NEW bag \in AttributeBags PROVE ~Grants(Visits[e][bag])
      <4>0. Visits[e][bag] = VisitStep(Visits, e, bag)
        BY <2>1, VisitsIs
      <4>1. ~Grants(Here(e, bag)) /\ ~Grants({})
        <5>1. e.kind # "delegate"
          BY <2>1, <2>2, MutationWithin
        <5> QED BY <5>1, HereIs DEF Grants
      <4>2. CASE e.kind = "sequential"
        BY <3>2, <4>0, <4>2 DEF VisitStep, Bodies
      <4>3. CASE e.kind = "parallel"
        <5>1. e.body \in Bodies(e)
          BY <4>3 DEF Bodies
        <5>2. \A i \in DOMAIN e.body : ~Grants(Visits[e.body[i]][bag])
          BY <2>1, <3>1, <5>1, BodiesIn DEF Quiet
        <5>3. Visits[e][bag] = UNION {Visits[e.body[i]][bag] : i \in DOMAIN e.body}
          BY <4>0, <4>3 DEF VisitStep
        <5> QED BY <5>2, <5>3 DEF Grants
      <4>4. CASE e.kind = "when"
        <5>1. ~Grants(VisitsOf(Visits, e.body, bag))
          BY <3>2, <4>4 DEF Bodies
        <5> QED BY <4>0, <4>1, <4>4, <5>1 DEF VisitStep
      <4>5. CASE e.kind = "pdp"
        <5>1. ~Grants(VisitsOf(Visits, e.onAllow, bag))
          BY <3>2, <4>5 DEF Bodies
        <5>2. Visits[e][bag] = Here(e, bag) \cup (IF e.ans = "allow" THEN VisitsOf(Visits, e.onAllow, bag) ELSE {})
          BY <4>0, <4>5 DEF VisitStep
        <5> QED BY <4>1, <5>1, <5>2 DEF Grants
      <4>6. CASE Leaf(e)
        BY <4>0, <4>1, <4>6 DEF VisitStep, Leaf
      <4> QED BY <4>2, <4>3, <4>4, <4>5, <4>6 DEF Leaf
    <3> QED BY <3>3, <3>4 DEF Quiet
  <2> QED BY <2>1, <2>2
<1>2. Effects \subseteq P
  <2>1. Effects = UNION Range(EffectLevels)
    BY DEF Effects
  <2> HIDE DEF P
  <2> QED BY <1>1, <2>1, LevelInduction, EffectsBelow
<1> QED BY <1>2

-----------------------------------------------------------------------------
(* A walk and the gates it met.                                            *)

Faithful(e) ==
    \A s \in Walks : s.out = "continue" => \A r \in Dispatch[e][s] : Walked(s, Visits[e][s.bag], r)

LEMMA ListFaithful ==
    ASSUME NEW es \in Seq(Effects), \A i \in DOMAIN es : Faithful(es[i]),
           NEW s \in Walks, s.out = "continue"
    PROVE  \A r \in WalkEffects(Dispatch, es, s) : Walked(s, VisitsOf(Visits, es, s.bag), r)
<1> DEFINE n == Len(es)
<1>1. /\ n \in Nat /\ DOMAIN es = 1 .. n /\ \A i \in 1 .. n : es[i] \in Effects /\ Faithful(es[i])
      /\ s.bag \in AttributeBags
  BY WalkParts
<1>2. PICK a \in [0 .. n -> SUBSET Walks] : WalkRun(Dispatch, es, s, a) /\ WalkEffects(Dispatch, es, s) = a[n]
  BY <1>1, WalkLoop, DispatchIs DEF Moves
<1>3. PICK v \in [0 .. n -> SUBSET Gates] : VisitRun(Visits, es, s.bag, v) /\ VisitsOf(Visits, es, s.bag) = v[n]
  BY <1>1, VisitLoop, VisitsIs DEF Sights
<1> DEFINE P == {k \in 0 .. n : \A r \in a[k] : Walked(s, v[k], r)}
<1>4. 0 \in P
  <2>1. a[0] = {s} /\ v[0] = {} /\ 0 \in 0 .. n
    BY <1>1, <1>2, <1>3 DEF WalkRun, VisitRun
  <2>2. Walked(s, {}, s)
    BY WalkedNothing DEF AllPass, Grants, TaintsIn, RestrictsIn
  <2> QED BY <2>1, <2>2
<1>5. ASSUME NEW k \in 1 .. n, k - 1 \in P PROVE k \in P
  <2>0. k \in 0 .. n
    BY <1>1
  <2>1. a[k] = WalkRound(Dispatch[es[k]], a[k - 1])
    BY <1>2 DEF WalkRun
  <2>2. v[k] = v[k - 1] \cup Visits[es[k]][BagAfter(s.bag, v[k - 1])]
    BY <1>3 DEF VisitRun
  <2>3. Faithful(es[k]) /\ a[k - 1] \in SUBSET Walks /\ \A r \in a[k - 1] : Walked(s, v[k - 1], r)
    BY <1>1, <1>2, <1>5
  <2>4. ASSUME NEW t \in a[k] PROVE Walked(s, v[k], t)
    <3>1. PICK r \in a[k - 1] : t \in (IF r.out = "continue" THEN Dispatch[es[k]][r] ELSE {r})
      BY <2>1 DEF WalkRound
    <3>2. r \in Walks /\ Walked(s, v[k - 1], r)
      BY <2>3
    <3>3. CASE r.out = "continue"
      <4>1. r.bag = BagAfter(s.bag, v[k - 1])
        BY <3>2, <3>3 DEF Walked
      <4>2. Walked(r, Visits[es[k]][r.bag], t)
        BY <2>3, <3>1, <3>2, <3>3 DEF Faithful
      <4>3. Walked(s, v[k - 1] \cup Visits[es[k]][r.bag], t)
        BY <3>2, <3>3, <4>2, WalkedOn
      <4> QED BY <2>2, <4>1, <4>3
    <3>4. CASE r.out # "continue"
      <4>1. t = r
        BY <3>1, <3>4
      <4>2. ASSUME NEW B PROVE Walked(s, v[k - 1] \cup B, r)
        BY <3>2, <3>4, WalkedStop
      <4> QED BY <2>2, <4>1, <4>2
    <3> QED BY <3>3, <3>4
  <2> QED BY <2>0, <2>4
<1>6. n \in P
  <2>1. n \in 0 .. n
    BY <1>1
  <2> HIDE DEF P, n
  <2> QED BY <1>1, <1>4, <1>5, <2>1, UpToInduction
<1> QED BY <1>2, <1>3, <1>6

\* Branches that change nothing: their join meets the gates of all of them.
LEMMA JoinFaithful ==
    ASSUME NEW e \in Effects, e.kind = "parallel",
           \A i \in DOMAIN e.body : Faithful(e.body[i]) /\ Quiet(e.body[i]),
           NEW s \in Walks, s.out = "continue",
           NEW h \in BranchOutcomes(ResultsOf(Dispatch, e, s))
    PROVE  Walked(s, UNION {Visits[e.body[i]][s.bag] : i \in DOMAIN e.body}, Join(h, s))
<1> DEFINE n == DOMAIN e.body
           results == ResultsOf(Dispatch, e, s)
           gates == [i \in n |-> Visits[e.body[i]][s.bag]]
           seen == UNION {Visits[e.body[i]][s.bag] : i \in n}
           t == Fresh(s)
           r == Join(h, s)
<1>1. e.body \in Bodies(e)
  BY DEF Bodies
<1>2. /\ t \in Walks /\ t.out = "continue" /\ t.at = s.at /\ t.bag = s.bag
      /\ t.taints = {} /\ t.restricts = {} /\ s.bag \in AttributeBags
  BY FreshIs, WalkParts
<1>3. results \in [n -> SUBSET Walks] /\ \A i \in n : results[i] = Dispatch[e.body[i]][t]
  BY <1>1, <1>2, BodiesIn, DispatchIs DEF ResultsOf, Moves
<1>4. ASSUME NEW i \in n, NEW x \in results[i]
      PROVE  Walked(t, gates[i], x) /\ x.out # "pending" /\ x \in Walks
  BY <1>2, <1>3 DEF Faithful, Quiet
<1>5. seen = UNION {gates[i] : i \in n} /\ \A i \in n : ~Grants(gates[i])
  BY <1>2 DEF Quiet
<1> HIDE DEF results, gates, seen, t
<1>6. /\ DOMAIN h = n
      /\ \A i \in n : h[i].out # "aborted" => h[i] \in results[i]
      /\ (\E i \in n : h[i].out = "aborted") => \E i \in n : h[i].out = "halt"
  BY <1>3, OutcomesAre DEF results
<1>7. /\ r \in Walks /\ r.at = s.at /\ r.bag = s.bag
      /\ r.out = IF \E i \in n : h[i].out \in {"halt", "panicked"} THEN "halt" ELSE s.out
      /\ r.taints = s.taints \cup UNION {x.taints : x \in Done(h)}
      /\ r.restricts = s.restricts \cup UNION {x.restricts : x \in Done(h)}
  BY <1>3, JoinIs DEF results
<1> HIDE DEF r
<1>8. AllPass(seen, s.at) <=> \A i \in n : AllPass(gates[i], s.at)
  BY <1>5 DEF AllPass
<1>9. ASSUME r.out = "continue", NEW i \in n
      PROVE  h[i] \in results[i] /\ h[i].out = "continue"
  <2>1. \A j \in n : h[j].out \notin {"halt", "panicked"}
    BY <1>7, <1>9
  <2>2. h[i].out # "aborted"
    BY <1>6, <2>1
  <2>3. h[i] \in results[i]
    BY <1>6, <2>2
  <2>4. h[i].out # "pending" /\ h[i].out \in {"continue", "halt", "pending", "panicked"}
    BY <1>4, <2>3, WalkParts
  <2> QED BY <2>1, <2>3, <2>4
<1>10. r.out = "continue" <=> AllPass(seen, s.at)
  <2>1. ASSUME r.out = "continue" PROVE AllPass(seen, s.at)
    <3>1. ASSUME NEW i \in n PROVE AllPass(gates[i], s.at)
      <4>1. Walked(t, gates[i], h[i]) /\ h[i].out = "continue"
        BY <1>4, <1>9, <2>1
      <4> QED BY <1>2, <4>1 DEF Walked
    <3> QED BY <1>8, <3>1
  <2>2. ASSUME AllPass(seen, s.at) PROVE r.out = "continue"
    <3>1. ASSUME NEW i \in n PROVE h[i].out \in {"aborted", "continue"}
      <4>1. CASE h[i].out # "aborted"
        <5>1. h[i] \in results[i]
          BY <1>6, <4>1
        <5>2. Walked(t, gates[i], h[i])
          BY <1>4, <5>1
        <5>3. AllPass(gates[i], t.at)
          BY <1>2, <1>8, <2>2
        <5> QED BY <5>2, <5>3 DEF Walked
      <4> QED BY <4>1
    <3>2. \A i \in n : h[i].out \notin {"halt", "panicked"}
      BY <3>1
    <3> QED BY <1>7, <3>2
  <2> QED BY <2>1, <2>2
<1>11. ASSUME r.out = "continue"
       PROVE  /\ r.bag = BagAfter(s.bag, seen)
              /\ s.taints \cup TaintsIn(seen) \subseteq r.taints
              /\ r.restricts = s.restricts \cup RestrictsIn(seen)
  <2>1. Done(h) = {h[i] : i \in n}
    <3>1. \A i \in n : h[i].out \notin {"aborted", "panicked"}
      BY <1>9, <1>11
    <3> QED BY <1>6, <3>1 DEF Done
  <2>2. \A i \in n : TaintsIn(gates[i]) \subseteq h[i].taints /\ h[i].restricts = RestrictsIn(gates[i])
    <3>1. ASSUME NEW i \in n
          PROVE  TaintsIn(gates[i]) \subseteq h[i].taints /\ h[i].restricts = RestrictsIn(gates[i])
      <4>1. Walked(t, gates[i], h[i]) /\ h[i].out = "continue"
        BY <1>4, <1>9, <1>11
      <4> QED BY <1>2, <4>1 DEF Walked
    <3> QED BY <3>1
  <2>3. TaintsIn(seen) = UNION {TaintsIn(gates[i]) : i \in n}
    BY <1>5 DEF TaintsIn
  <2>4. RestrictsIn(seen) = UNION {RestrictsIn(gates[i]) : i \in n}
    BY <1>5 DEF RestrictsIn
  <2>5. TaintsIn(seen) \subseteq UNION {x.taints : x \in Done(h)}
    BY <2>1, <2>2, <2>3
  <2>6. RestrictsIn(seen) = UNION {x.restricts : x \in Done(h)}
    BY <2>1, <2>2, <2>4
  <2>7. ~Grants(seen)
    BY <1>5 DEF Grants
  <2>8. BagAfter(s.bag, seen) = s.bag
    BY <1>2, <2>7, BagAfterIs
  <2> QED BY <1>7, <2>5, <2>6, <2>8
<1>12. Walked(s, seen, r)
  BY <1>7, <1>10, <1>11 DEF Walked
<1> QED BY <1>12 DEF seen, r

LEMMA LoadableIsFaithful == \A e \in Effects : ParallelPure(e) => Faithful(e)
<1> DEFINE P == {e \in Effects : ParallelPure(e) => Faithful(e)}
<1>1. ASSUME NEW n \in DOMAIN EffectLevels, NEW e \in EffectLevels[n],
             Below(EffectLevels, n) \subseteq P
      PROVE  e \in P
  <2>1. e \in Effects /\ \A d \in Range(Children(e)) : ParallelPure(d) => Faithful(d)
    BY <1>1, EffectsBelow
  <2>2. ASSUME ParallelPure(e) PROVE Faithful(e)
    <3>1. \A d \in Range(Children(e)) : Faithful(d)
      BY <2>1, <2>2, PureWithin
    <3>2. ASSUME NEW es \in Bodies(e), NEW s \in Walks, s.out = "continue"
          PROVE  \A r \in WalkEffects(Dispatch, es, s) : Walked(s, VisitsOf(Visits, es, s.bag), r)
      <4>1. es \in Seq(Effects) /\ \A i \in DOMAIN es : Faithful(es[i])
        BY <2>1, <3>1, BodiesIn
      <4> QED BY <3>2, <4>1, ListFaithful
    <3>3. ASSUME NEW s \in Walks, s.out = "continue", NEW r \in Dispatch[e][s]
          PROVE  Walked(s, Visits[e][s.bag], r)
      <4> DEFINE seen == Visits[e][s.bag]
                 here == Here(e, s.bag)
      <4>0. /\ r \in DispatchStep(Dispatch, e, s) /\ s.bag \in AttributeBags
            /\ seen = VisitStep(Visits, e, s.bag)
        BY <2>1, <3>3, DispatchIs, VisitsIs, WalkParts
      <4>1. /\ Ends(s, "halt") \in Walks /\ Ends(s, "halt").at = s.at /\ Ends(s, "halt").out = "halt"
            /\ AllPass(here, s.at) <=> Passes(e, s.at, s.bag)
        BY EndsIs, HereIs
      <4> HIDE DEF seen, here
      <4>2. CASE e.kind = "sequential"
        <5>1. r \in WalkEffects(Dispatch, e.body, s) /\ seen = VisitsOf(Visits, e.body, s.bag)
          BY <4>0, <4>2 DEF DispatchStep, VisitStep
        <5>2. e.body \in Bodies(e)
          BY <4>2 DEF Bodies
        <5>3. Walked(s, seen, r)
          BY <3>2, <3>3, <5>1, <5>2
        <5> QED BY <5>3 DEF seen
      <4>3. CASE e.kind = "parallel"
        <5>1. PICK h \in BranchOutcomes(ResultsOf(Dispatch, e, s)) : r = Join(h, s)
          BY <4>0, <4>3 DEF DispatchStep
        <5>2. seen = UNION {Visits[e.body[i]][s.bag] : i \in DOMAIN e.body}
          BY <4>0, <4>3 DEF VisitStep
        <5>3. e.body \in Bodies(e)
          BY <4>3 DEF Bodies
        <5>4. \A i \in DOMAIN e.body : Faithful(e.body[i])
          BY <2>1, <3>1, <5>3, BodiesIn
        <5>5. \A i \in DOMAIN e.body : Quiet(e.body[i])
          BY <2>1, <2>2, <4>3, <5>3, BodiesIn, PureWithin, PureIsQuiet
        <5>6. Walked(s, seen, r)
          BY <2>1, <3>3, <4>3, <5>1, <5>2, <5>4, <5>5, JoinFaithful
        <5> QED BY <5>6 DEF seen
      <4>4. CASE e.kind = "when"
        <5> DEFINE v == EvalExpression[e.cond][s.bag]
        <5>1. r \in (IF v = "true" THEN WalkEffects(Dispatch, e.body, s)
                     ELSE IF v = "false" THEN {s} ELSE {Ends(s, "halt")})
          BY <4>0, <4>4 DEF DispatchStep
        <5>2. seen = IF v = "true" THEN VisitsOf(Visits, e.body, s.bag)
                     ELSE IF v = "false" THEN {} ELSE here
          BY <4>0, <4>4 DEF VisitStep, here
        <5>3. e.body \in Bodies(e)
          BY <4>4 DEF Bodies
        <5> HIDE DEF v
        <5>4. CASE v = "true"
          BY <3>2, <3>3, <5>1, <5>2, <5>3, <5>4 DEF seen
        <5>5. CASE v = "false"
          <6>1. r = s /\ seen = {}
            BY <5>1, <5>2, <5>5
          <6>2. Walked(s, {}, s)
            BY <3>3, WalkedNothing DEF AllPass, Grants, TaintsIn, RestrictsIn
          <6> QED BY <6>1, <6>2 DEF seen
        <5>6. CASE v \notin {"true", "false"}
          <6>1. r = Ends(s, "halt") /\ seen = here
            BY <5>1, <5>2, <5>6
          <6>2. ~Passes(e, s.at, s.bag)
            BY <4>4 DEF Passes
          <6>3. Walked(s, seen, r)
            BY <4>1, <6>1, <6>2, WalkedHalt
          <6> QED BY <6>3 DEF seen
        <5> QED BY <5>4, <5>5, <5>6
      <4>5. CASE e.kind = "pdp"
        <5>1. r \in (IF e.ans = "allow" THEN WalkEffects(Dispatch, e.onAllow, s)
                     ELSE IF e.ans = "deny" THEN {PdpDenied(t) : t \in WalkEffects(Dispatch, e.onDeny, s)}
                     ELSE {Ends(s, "halt")})
          BY <4>0, <4>5 DEF DispatchStep
        <5>2. seen = here \cup (IF e.ans = "allow" THEN VisitsOf(Visits, e.onAllow, s.bag) ELSE {})
          BY <4>0, <4>5 DEF VisitStep, here
        <5>3. e.onAllow \in Bodies(e) /\ e.onDeny \in Bodies(e)
          BY <4>5 DEF Bodies
        <5>4. Passes(e, s.at, s.bag) <=> e.ans = "allow"
          BY <4>5 DEF Passes
        <5>5. CASE e.ans = "allow"
          <6>1. Walked(s, here, s)
            <7>1. ~Grants(here) /\ TaintsIn(here) = {} /\ RestrictsIn(here) = {} /\ AllPass(here, s.at)
              BY <4>1, <4>5, <5>4, <5>5, HereIs DEF here
            <7> QED BY <3>3, <7>1, WalkedNothing
          <6>2. Walked(s, VisitsOf(Visits, e.onAllow, s.bag), r)
            BY <3>2, <3>3, <5>1, <5>3, <5>5
          <6>3. Walked(s, here \cup VisitsOf(Visits, e.onAllow, s.bag), r)
            BY <3>3, <6>1, <6>2, WalkedOn
          <6> QED BY <5>2, <5>5, <6>3 DEF seen
        <5>6. CASE e.ans # "allow"
          <6>1. ~AllPass(seen, s.at)
            BY <4>1, <5>2, <5>4, <5>6 DEF AllPass
          <6>2. r \in Walks /\ r.at = s.at /\ r.out # "continue"
            <7>1. CASE e.ans = "deny"
              <8>1. PICK t \in WalkEffects(Dispatch, e.onDeny, s) : r = PdpDenied(t)
                BY <5>1, <7>1
              <8>2. t \in Walks /\ t.at = s.at
                BY <3>2, <3>3, <5>3, <8>1 DEF Walked
              <8> QED BY <8>1, <8>2, EndsIs DEF PdpDenied
            <7>2. CASE e.ans # "deny"
              BY <4>1, <5>1, <5>6, <7>2
            <7> QED BY <7>1, <7>2
          <6>3. Walked(s, seen, r)
            BY <6>1, <6>2, WalkedHalt
          <6> QED BY <6>3 DEF seen
        <5> QED BY <5>5, <5>6
      <4>6. CASE Leaf(e)
        <5>1. r = DispatchLeaf(e, s) /\ seen = here
          BY <4>0, <4>6 DEF DispatchStep, VisitStep, Leaf, here
        <5>2. Walked(s, here, r)
          BY <2>1, <3>3, <4>6, <5>1, LeafWalked DEF here
        <5> QED BY <5>1, <5>2 DEF seen
      <4> QED BY <4>2, <4>3, <4>4, <4>5, <4>6 DEF Leaf
    <3> QED BY <3>3 DEF Faithful
  <2> QED BY <2>1, <2>2
<1>2. Effects \subseteq P
  <2>1. Effects = UNION Range(EffectLevels)
    BY DEF Effects
  <2> HIDE DEF P
  <2> QED BY <1>1, <2>1, LevelInduction, EffectsBelow
<1> QED BY <1>2

-----------------------------------------------------------------------------
(* The phases of a route.                                                  *)

PhaseRoute(r) ==
    /\ \A i \in DOMAIN (r.args \o r.pre) : Faithful((r.args \o r.pre)[i])
    /\ \A i \in DOMAIN (r.result \o r.post) : Faithful((r.result \o r.post)[i])
    /\ r.args \o r.pre \in Seq(Effects) /\ r.result \o r.post \in Seq(Effects)

LEMMA ListsFaithful ==
    ASSUME NEW rules \in Seq(Effects \cap FieldRules), NEW es \in Seq(Effects),
           \A i \in DOMAIN es : ParallelPure(es[i])
    PROVE  /\ rules \o es \in Seq(Effects)
           /\ \A i \in DOMAIN (rules \o es) : Faithful((rules \o es)[i])
<1>1. ASSUME NEW f \in Effects \cap FieldRules PROVE Faithful(f)
  <2>1. f.kind = "field"
    BY DEF FieldRules
  <2>2. ASSUME NEW s \in Walks, s.out = "continue", NEW r \in Dispatch[f][s]
        PROVE  Walked(s, Visits[f][s.bag], r)
    <3>1. Leaf(f) /\ s.bag \in AttributeBags
      BY <2>1, WalkParts DEF Leaf
    <3>2. r = DispatchLeaf(f, s)
      BY <2>1, <2>2, DispatchIs DEF DispatchStep
    <3>3. Visits[f][s.bag] = Here(f, s.bag)
      BY <2>1, <3>1, VisitsIs DEF VisitStep
    <3> QED BY <2>2, <3>1, <3>2, <3>3, LeafWalked
  <2> QED BY <2>2 DEF Faithful
<1>2. rules \in Seq(Effects)
  OBVIOUS
<1>3. rules \o es \in Seq(Effects) /\ Range(rules \o es) = Range(rules) \cup Range(es)
  BY <1>2, JoinedLists
<1>4. \A x \in Range(rules) : Faithful(x)
  BY <1>1 DEF Range
<1>5. \A x \in Range(es) : Faithful(x)
  BY LoadableIsFaithful DEF Range
<1>6. \A x \in Range(rules \o es) : Faithful(x)
  BY <1>3, <1>4, <1>5
<1> QED BY <1>3, <1>6 DEF Range

LEMMA RouteFaithful ==
    ASSUME NEW r, (r \in PolicyRoutes /\ Loadable(r)) \/ r = NoRoute
    PROVE  PhaseRoute(r)
<1>1. /\ r.args \in Seq(Effects \cap FieldRules) /\ r.pre \in Seq(Effects)
      /\ r.result \in Seq(Effects \cap FieldRules) /\ r.post \in Seq(Effects)
  <2>1. CASE r \in PolicyRoutes
    BY <2>1, EvaluatorAssumption
  <2>2. CASE r = NoRoute
    BY <2>2 DEF NoRoute
  <2> QED BY <2>1, <2>2
<1>2. /\ \A i \in DOMAIN r.pre : ParallelPure(r.pre[i])
      /\ \A i \in DOMAIN r.post : ParallelPure(r.post[i])
  <2>1. CASE Loadable(r)
    BY <2>1 DEF Loadable
  <2>2. CASE r = NoRoute
    <3>1. r.pre = <<>> /\ r.post = <<>>
      BY <2>2 DEF NoRoute
    <3> QED BY <3>1
  <2> QED BY <2>1, <2>2
<1> QED BY <1>1, <1>2, ListsFaithful DEF PhaseRoute

\* The invariant: a phase that was evaluated met its gates, from the walk that
\* the phase before it left.
AsResult(s) == [s EXCEPT !.at = "result"]
WalkInv ==
    /\ PhaseRoute(route) /\ attr \in Attributes /\ phase \in {"none", "pre", "post"}
    /\ phase = "none" => walk = NoWalk(attr)
    /\ phase = "pre" => Walked(NoWalk(attr), PreVisits, walk)
    /\ phase = "post" => \E mid \in Walks : /\ Walked(NoWalk(attr), PreVisits, mid)
                                            /\ mid.out = "continue"
                                            /\ Walked(AsResult(mid), PostVisits, walk)

LEMMA StartIs ==
    ASSUME NEW a \in Attributes
    PROVE  /\ NoWalk(a) \in Walks /\ NoWalk(a).out = "continue" /\ NoWalk(a).at = "args"
           /\ NoWalk(a).bag = StartBag(a) /\ NoWalk(a).taints = {} /\ NoWalk(a).restricts = {}
BY DEF NoWalk, StartBag, Walks, AttributeBags

LEMMA AsResultIs ==
    ASSUME NEW s \in Walks
    PROVE  LET t == AsResult(s) IN
           /\ t \in Walks /\ t.out = s.out /\ t.at = "result" /\ t.bag = s.bag
           /\ t.taints = s.taints /\ t.restricts = s.restricts
BY DEF AsResult, Walks

LEMMA WalkInvHolds == EvaluatorSpec => []WalkInv
<1>1. EvaluatorInit => WalkInv
  <2> SUFFICES ASSUME EvaluatorInit PROVE WalkInv
    OBVIOUS
  <2>1. PhaseRoute(route)
    BY RouteFaithful DEF EvaluatorInit
  <2> QED BY <2>1 DEF EvaluatorInit, WalkInv
<1>2. WalkInv /\ [EvaluatorNext]_evaluatorVars => WalkInv'
  <2> SUFFICES ASSUME WalkInv, [EvaluatorNext]_evaluatorVars PROVE WalkInv'
    OBVIOUS
  <2>0. PhaseRoute(route) /\ attr \in Attributes
    BY DEF WalkInv
  <2>1. CASE EvaluatePre
    <3>1. /\ route' = route /\ attr' = attr /\ phase' = "pre" /\ walk = NoWalk(attr)
          /\ walk' \in WalkEffects(Dispatch, route.args \o route.pre, walk)
      BY <2>1 DEF EvaluatePre, WalkInv
    <3>2. PreVisits' = PreVisits
      BY <3>1 DEF PreVisits
    <3>3. Walked(NoWalk(attr), PreVisits, walk')
      BY <2>0, <3>1, StartIs, ListFaithful DEF PhaseRoute, PreVisits
    <3>4. PhaseRoute(route)' /\ NoWalk(attr)' = NoWalk(attr)
      BY <2>0, <3>1
    <3>5. Walked(NoWalk(attr), PreVisits, walk)'
      BY <3>2, <3>3, <3>4 DEF Walked
    <3> QED BY <2>0, <3>1, <3>4, <3>5 DEF WalkInv
  <2>2. CASE EvaluatePost
    <3>1. /\ route' = route /\ attr' = attr /\ phase' = "post" /\ walk.out = "continue"
          /\ walk' \in WalkEffects(Dispatch, route.result \o route.post, AsResult(walk))
          /\ Walked(NoWalk(attr), PreVisits, walk)
      BY <2>2 DEF EvaluatePost, WalkInv, AsResult
    <3>2. PreVisits' = PreVisits /\ PostVisits' = PostVisits
      BY <3>1 DEF PreVisits, PostVisits
    <3>3. walk \in Walks /\ walk.bag = BagAfter(StartBag(attr), PreVisits)
      BY <2>0, <3>1, StartIs DEF Walked
    <3>4. Walked(AsResult(walk), PostVisits, walk')
      <4>1. AsResult(walk) \in Walks /\ AsResult(walk).out = "continue" /\ AsResult(walk).bag = walk.bag
        BY <3>1, <3>3, AsResultIs
      <4>2. PostVisits = VisitsOf(Visits, route.result \o route.post, AsResult(walk).bag)
        BY <3>3, <4>1 DEF PostVisits
      <4> QED BY <2>0, <3>1, <4>1, <4>2, ListFaithful DEF PhaseRoute
    <3>5. \E mid \in Walks : /\ Walked(NoWalk(attr'), PreVisits', mid)
                             /\ mid.out = "continue"
                             /\ Walked(AsResult(mid), PostVisits', walk')
      BY <3>1, <3>2, <3>3, <3>4
    <3>6. PhaseRoute(route)'
      BY <2>0, <3>1
    <3> QED BY <2>0, <3>1, <3>5, <3>6 DEF WalkInv
  <2>3. CASE UNCHANGED evaluatorVars
    BY <2>3 DEF evaluatorVars, WalkInv, PreVisits, PostVisits
  <2> QED BY <2>1, <2>2, <2>3 DEF EvaluatorNext
<1> QED BY <1>1, <1>2, PTL DEF EvaluatorSpec

LEMMA WalkInvSound == WalkInv => WalkSound
<1> SUFFICES ASSUME WalkInv PROVE WalkSound
  OBVIOUS
<1> DEFINE s == NoWalk(attr)
<1>1. /\ s \in Walks /\ s.out = "continue" /\ s.at = "args" /\ s.taints = {} /\ s.restricts = {}
  BY StartIs DEF WalkInv
<1> HIDE DEF s
<1>2. CASE phase = "none"
  BY <1>2 DEF WalkSound, ForwardedMeansPermitted, ReachedIsKept
<1>3. CASE phase = "pre"
  <2>1. Walked(s, PreVisits, walk)
    BY <1>3 DEF WalkInv, s
  <2>2. walk.out = "continue" <=> \A x \in PreVisits : Passes(x.node, "args", x.bag)
    BY <1>1, <2>1 DEF Walked, AllPass
  <2>3. walk.out = "continue" => TaintsIn(PreVisits) \subseteq walk.taints /\ RestrictsIn(PreVisits) = walk.restricts
    BY <1>1, <2>1 DEF Walked
  <2>4. ForwardedMeansPermitted
    BY <1>3, <2>2 DEF ForwardedMeansPermitted
  <2>5. ReachedIsKept
    BY <1>3, <2>3 DEF ReachedIsKept, TaintsIn, RestrictsIn
  <2> QED BY <2>4, <2>5 DEF WalkSound
<1>4. CASE phase = "post"
  <2>1. PICK mid \in Walks : Walked(s, PreVisits, mid) /\ mid.out = "continue" /\ Walked(AsResult(mid), PostVisits, walk)
    BY <1>4 DEF WalkInv, s
  <2>2. /\ \A x \in PreVisits : Passes(x.node, "args", x.bag)
        /\ TaintsIn(PreVisits) \subseteq mid.taints /\ RestrictsIn(PreVisits) = mid.restricts
    BY <1>1, <2>1 DEF Walked, AllPass
  <2>3. PICK t : t = AsResult(mid)
    OBVIOUS
  <2>4. t.at = "result" /\ t.taints = mid.taints /\ t.restricts = mid.restricts
    BY <2>3, AsResultIs
  <2>5. walk.out = "continue" <=> \A x \in PostVisits : Passes(x.node, "result", x.bag)
    BY <2>1, <2>3, <2>4 DEF Walked, AllPass
  <2>6. walk.out = "continue" =>
          /\ TaintsIn(PreVisits \cup PostVisits) \subseteq walk.taints
          /\ RestrictsIn(PreVisits \cup PostVisits) = walk.restricts
    <3>1. /\ TaintsIn(PreVisits \cup PostVisits) = TaintsIn(PreVisits) \cup TaintsIn(PostVisits)
          /\ RestrictsIn(PreVisits \cup PostVisits) = RestrictsIn(PreVisits) \cup RestrictsIn(PostVisits)
      BY DEF TaintsIn, RestrictsIn
    <3> QED BY <2>1, <2>2, <2>3, <2>4, <3>1 DEF Walked
  <2>7. ForwardedMeansPermitted
    BY <1>4, <2>2, <2>5 DEF ForwardedMeansPermitted
  <2>8. ReachedIsKept
    BY <1>4, <2>6 DEF ReachedIsKept, TaintsIn, RestrictsIn
  <2> QED BY <2>7, <2>8 DEF WalkSound
<1> QED BY <1>2, <1>3, <1>4 DEF WalkInv

\* WalkSound of Evaluator.tla, for every set of effect trees a configuration may
\* hold: a request goes on exactly when every gate it reached let it pass, and
\* then carries each taint and restriction that was reached (evaluator.rs,
\* evaluate_effects, dispatch_parallel; route.rs, evaluate_route).
THEOREM WalkSoundHolds == EvaluatorSpec => []WalkSound
BY WalkInvHolds, WalkInvSound, PTL
=============================================================================
