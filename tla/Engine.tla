------------------------------- MODULE Engine -------------------------------
(* The life of a PolicyEngine (crates/ppe-core/src/engine.rs): hosts load  *)
(* and replace the configuration, register and unregister plugins,         *)
(* initialize and shut down, while requests resolve their route against    *)
(* the snapshot they loaded and a cache they share.                        *)
(*                                                                         *)
(* A snapshot is swapped in one step under the writer lock.  Around that   *)
(* step every operation has others that the lock does not cover: the       *)
(* clearing of the route cache, the visitors' annotations, the resolution  *)
(* of secrets, the initialization of each plugin, and on the request's     *)
(* side the resolution of a route and the filling of the cache.            *)
EXTENDS Integers, FiniteSets

CONSTANTS Docs,          \* policy documents
          Plugins,       \* plugin names
          Routes,        \* resolved route names
          Secrets,       \* non-empty `secrets:` blocks
          Loose,         \* plugins a host registers and unregisters itself
          Writers,       \* host tasks that load, register and unregister
          Initializers,  \* host tasks that call initialize()
          Requests,      \* request tasks
          None,          \* absent document, block, key or handler
          DocPlugins,    \* the plugins a document declares
          DocAuth,       \* the `authentication:` list it resolves to
          DocPolicy,     \* the routes that carry a policy body
          DocSecrets,    \* its `secrets:` block, with the content key it names
          CacheMax       \* route_cache_max_entries

Declared == Secrets \cup {None}

ASSUME EngineAssumption ==
    /\ None \notin Docs \cup Secrets
    /\ Loose \subseteq Plugins
    /\ DocPlugins \in [Docs -> SUBSET Plugins]
    /\ DocAuth \in [Docs -> SUBSET Plugins]
    /\ \A d \in Docs : DocAuth[d] \subseteq DocPlugins[d]
    /\ DocPolicy \in [Docs -> SUBSET Routes]
    /\ DocSecrets \in [Docs -> Declared]
    /\ CacheMax \in Nat
    /\ IsFiniteSet(Initializers)
    /\ IsFiniteSet(Routes) /\ Routes # {}

VARIABLES
    snap,         \* the published RuntimeSnapshot
    cache,        \* route_cache: cache[k] is None where nothing is cached
    late,         \* history: keys filled from a snapshot since replaced
    initialized,  \* the flag of the same name
    inflight,     \* initializations_in_flight
    secrets,      \* the block whose values the OnceLock holds
    live,         \* plugins initialized and not shut down since
    covered,      \* history: what the initialization that succeeded started
    shut,         \* shutdown(): "no", "stopping" or "done"
    stopping,     \* the plugins shutdown() has still to stop
    writer,       \* writer[w]: a load, registration or unregistration
    init,         \* init[i]: an initialize() call
    req           \* req[q]: a request

config == <<snap, cache, late>>
vars == <<config, initialized, inflight, secrets, live, covered, shut, stopping,
          writer, init, req>>

----------------------------------------------------------------------------
Hooks == {"identity", "policy"}
Keys == Routes \X Hooks

\* `notes[r]`: the document whose policy handler is annotated on r.  `key`:
\* the secrets block the executor's content key came from.
Snapshots == [doc : Docs \cup {None}, plugins : SUBSET Plugins,
              notes : [Routes -> Docs \cup {None}], key : Declared]

NoNotes == [r \in Routes |-> None]

Empty == [k \in Keys |-> None]

Cached == {k \in Keys : cache[k] # None}

\* "built": past the early checks, the factories have run; "clear": published,
\* the cache not yet cleared; "walk": the visitors are annotating `todo`.
IdleWriter == [pc |-> "idle", doc |-> None, todo |-> {}]

\* `doc`: the document read; `all`, `todo`, `done`: plugins; `alone`: no other
\* initialize() has been past the gate since this one entered.
IdleInit == [pc |-> "idle", doc |-> None, all |-> {}, todo |-> {}, done |-> {},
             alone |-> TRUE]

\* A request holds its snapshot to the end; what it will find there is read
\* when it is loaded: `entries` by resolution, `handler` by annotation.
IdleReq == [pc |-> "idle", doc |-> None, key |-> CHOOSE k \in Keys : TRUE,
            entries |-> {}, handler |-> None]

TypeOK ==
    /\ snap \in Snapshots
    /\ cache \in [Keys -> (SUBSET Plugins) \cup {None}]
    /\ Cardinality(Cached) <= CacheMax
    /\ late \subseteq Keys
    /\ initialized \in BOOLEAN
    /\ inflight \in 0..Cardinality(Initializers)
    /\ secrets \in Declared
    /\ live \subseteq Plugins /\ covered \subseteq Plugins
    /\ shut \in {"no", "stopping", "done"}
    /\ stopping \subseteq Plugins
    /\ writer \in [Writers -> [pc : {"idle", "built", "clear", "walk"},
                               doc : Docs \cup {None}, todo : SUBSET Routes]]
    /\ init \in [Initializers -> [pc : {"idle", "secrets", "reading", "key", "attach",
                                        "plugins", "rollback", "leaving"},
                                  doc : Docs \cup {None}, all : SUBSET Plugins,
                                  todo : SUBSET Plugins, done : SUBSET Plugins, alone : BOOLEAN]]
    /\ req \in [Requests -> [pc : {"idle", "looking", "resolved", "dispatched"},
                             doc : Docs \cup {None}, key : Keys,
                             entries : SUBSET Plugins, handler : Docs \cup {None}]]

Init ==
    /\ snap = [doc |-> None, plugins |-> {}, notes |-> NoNotes, key |-> None]
    /\ cache = Empty /\ late = {}
    /\ initialized = FALSE /\ inflight = 0
    /\ secrets = None
    /\ live = {} /\ covered = {}
    /\ shut = "no" /\ stopping = {}
    /\ writer = [w \in Writers |-> IdleWriter]
    /\ init = [i \in Initializers |-> IdleInit]
    /\ req = [q \in Requests |-> IdleReq]

----------------------------------------------------------------------------
(* Loading a document.                                                     *)

\* Mutant: a load does not wait for an initialize() in progress.
MayLoadDuringInit(d) ==
    initialized \/ secrets # None => DocSecrets[d] = secrets

\* The lifecycle checks of load_config_with: none while an initialize() runs,
\* and no other secrets once some have been, or could have been, resolved.
\* No store resolved compares as an empty block.
MayLoad(d) ==
    /\ inflight = 0
    /\ initialized \/ secrets # None => DocSecrets[d] = secrets

\* The early checks pass, and the factories run, holding nothing.
LoadBuild(w, d) ==
    /\ shut = "no"
    /\ writer[w].pc = "idle"
    /\ MayLoad(d)
    /\ writer' = [writer EXCEPT ![w] = [pc |-> "built", doc |-> d, todo |-> {}]]
    /\ UNCHANGED <<config, initialized, inflight, secrets, live, covered, shut,
                   stopping, init, req>>

\* The content key load_config gives the new executor: a key named in the
\* document waits for initialize() until the engine is initialized.
KeyAtLoad(d) == IF initialized THEN DocSecrets[d] ELSE None

\* snapshot_from_config: the plugins join those registered, and the
\* annotations of the configuration before are gone.
SnapshotFrom(d) ==
    [doc |-> d, plugins |-> snap.plugins \cup DocPlugins[d],
     notes |-> NoNotes, key |-> KeyAtLoad(d)]

\* Under the writer lock: the checks again, then the swap.
LoadPublish(w) ==
    /\ writer[w].pc = "built"
    /\ MayLoad(writer[w].doc)
    /\ DocPlugins[writer[w].doc] \cap snap.plugins = {}
    /\ snap' = SnapshotFrom(writer[w].doc)
    /\ writer' = [writer EXCEPT ![w].pc = "clear"]
    /\ UNCHANGED <<cache, late, initialized, inflight, secrets, live, covered,
                   shut, stopping, init, req>>

\* ... or a refusal: an initialize() came in between, a name is taken, or no
\* content key can be made of the secret the document names.
LoadRefused(w) ==
    /\ writer[w].pc = "built"
    /\ \/ ~MayLoad(writer[w].doc)
       \/ DocPlugins[writer[w].doc] \cap snap.plugins # {}
       \/ initialized /\ DocSecrets[writer[w].doc] # None
    /\ writer' = [writer EXCEPT ![w] = IdleWriter]
    /\ UNCHANGED <<config, initialized, inflight, secrets, live, covered, shut,
                   stopping, init, req>>

\* clear_routing_cache.
ClearCache == cache' = Empty /\ late' = {}

\* After the lock is released.  A load goes on to the visitors' walk; a
\* registration or an unregistration is done.
ClearAfter(w) ==
    /\ writer[w].pc = "clear"
    /\ ClearCache
    /\ writer' = [writer EXCEPT ![w] =
         IF @.doc = None THEN IdleWriter
         ELSE [@ EXCEPT !.pc = "walk", !.todo = DocPolicy[writer[w].doc]]]
    /\ UNCHANGED <<snap, initialized, inflight, secrets, live, covered, shut,
                   stopping, init, req>>

\* A visitor compiles one route's policy and annotates it on whatever
\* snapshot is current.
LoadAnnotate(w, r) ==
    /\ writer[w].pc = "walk"
    /\ r \in writer[w].todo
    /\ snap' = [snap EXCEPT !.notes[r] = writer[w].doc]
    /\ writer' = [writer EXCEPT ![w].todo = @ \ {r}]
    /\ UNCHANGED <<cache, late, initialized, inflight, secrets, live, covered,
                   shut, stopping, init, req>>

\* The walk is over, or a visitor's error aborts it: nothing is rolled back.
LoadReturns(w) ==
    /\ writer[w].pc = "walk"
    /\ writer' = [writer EXCEPT ![w] = IdleWriter]
    /\ UNCHANGED <<config, initialized, inflight, secrets, live, covered, shut,
                   stopping, init, req>>

----------------------------------------------------------------------------
(* Registering and unregistering one plugin.                               *)

Register(w, p) ==
    /\ shut = "no"
    /\ writer[w].pc = "idle"
    /\ p \notin snap.plugins
    /\ snap' = [snap EXCEPT !.plugins = @ \cup {p}]
    /\ writer' = [writer EXCEPT ![w].pc = "clear"]
    /\ UNCHANGED <<cache, late, initialized, inflight, secrets, live, covered,
                   shut, stopping, init, req>>

Unregister(w, p) ==
    /\ writer[w].pc = "idle"
    /\ p \in snap.plugins
    /\ snap' = [snap EXCEPT !.plugins = @ \ {p}]
    /\ writer' = [writer EXCEPT ![w].pc = "clear"]
    /\ UNCHANGED <<cache, late, initialized, inflight, secrets, live, covered,
                   shut, stopping, init, req>>

----------------------------------------------------------------------------
(* initialize().                                                           *)

\* The gate, under the writer lock: from here on loads are refused.
InitEnter(i) ==
    /\ shut = "no"
    /\ init[i].pc = "idle"
    /\ ~initialized
    /\ inflight' = inflight + 1
    /\ init' = [j \in Initializers |->
         IF j = i THEN [IdleInit EXCEPT !.pc = "secrets", !.alone = inflight = 0]
         ELSE [init[j] EXCEPT !.alone = init[j].pc = "idle"]]
    /\ UNCHANGED <<config, initialized, secrets, live, covered, shut, stopping,
                   writer, req>>

\* The guard that holds the gate is dropped: initialize() has returned.
Leave(i) ==
    /\ inflight' = inflight - 1
    /\ init' = [init EXCEPT ![i] = IdleInit]

\* resolve_secrets: nothing to read when the document declares none or an
\* earlier attempt read this block.
InitResolve(i) ==
    /\ init[i].pc = "secrets"
    /\ LET block == IF snap.doc = None THEN None ELSE DocSecrets[snap.doc] IN
       /\ secrets = None \/ secrets = block \/ snap.doc = None
       /\ init' = [init EXCEPT ![i].doc = snap.doc,
                               ![i].pc = IF secrets # None \/ block = None
                                         THEN "key" ELSE "reading"]
    /\ UNCHANGED <<config, initialized, inflight, secrets, live, covered, shut,
                   stopping, writer, req>>

\* The providers answered: the values are set once, by the first to get here.
InitRead(i) ==
    /\ init[i].pc = "reading"
    /\ secrets \in {None, DocSecrets[init[i].doc]}
    /\ secrets' = DocSecrets[init[i].doc]
    /\ init' = [init EXCEPT ![i].pc = "key"]
    /\ UNCHANGED <<config, initialized, inflight, live, covered, shut, stopping,
                   writer, req>>

\* attach_content_key reads the document, then swaps in the key.
InitKey(i) ==
    /\ init[i].pc = "key"
    /\ init' = [init EXCEPT ![i].doc = snap.doc, ![i].pc = "attach"]
    /\ UNCHANGED <<config, initialized, inflight, secrets, live, covered, shut,
                   stopping, writer, req>>

\* Then the registry is read once: later registrations are not this call's.
InitAttach(i) ==
    /\ init[i].pc = "attach"
    /\ snap' = IF init[i].doc # None /\ DocSecrets[init[i].doc] # None
               THEN [snap EXCEPT !.key = DocSecrets[init[i].doc]] ELSE snap
    /\ init' = [init EXCEPT ![i].pc = "plugins", ![i].todo = snap.plugins,
                            ![i].all = snap.plugins]
    /\ UNCHANGED <<cache, late, initialized, inflight, secrets, live, covered,
                   shut, stopping, writer, req>>

InitPlugin(i, p) ==
    /\ init[i].pc = "plugins"
    /\ p \in init[i].todo
    /\ live' = live \cup {p}
    /\ init' = [init EXCEPT ![i].todo = @ \ {p}, ![i].done = @ \cup {p}]
    /\ UNCHANGED <<config, initialized, inflight, secrets, covered, shut, stopping,
                   writer, req>>

\* One plugin fails: those this call started are shut down, then it returns.
InitPluginFails(i) ==
    /\ init[i].pc = "plugins"
    /\ init[i].todo # {}
    /\ init' = [init EXCEPT ![i].pc = "rollback"]
    /\ UNCHANGED <<config, initialized, inflight, secrets, live, covered, shut,
                   stopping, writer, req>>

InitRollback(i, p) ==
    /\ init[i].pc = "rollback"
    /\ p \in init[i].done
    /\ live' = live \ {p}
    /\ init' = [init EXCEPT ![i].done = @ \ {p}]
    /\ UNCHANGED <<config, initialized, inflight, secrets, covered, shut, stopping,
                   writer, req>>

\* It returns an error: no crypto backend, secrets that cannot be read or are
\* no longer the ones resolved, no content key in them, or a plugin that
\* failed, the others rolled back.  A host that drops the call leaves it at any
\* of these awaits.
InitFails(i) ==
    /\ init[i].pc \in {"secrets", "reading", "key", "plugins", "rollback"}
    /\ Leave(i)
    /\ UNCHANGED <<config, initialized, secrets, live, covered, shut, stopping,
                   writer, req>>

\* Every plugin started: the flag is set, then the gate opens.
InitSucceeds(i) ==
    /\ init[i].pc = "plugins"
    /\ init[i].todo = {}
    /\ initialized' = TRUE
    /\ covered' = IF init[i].alone THEN init[i].all ELSE {}
    /\ init' = [init EXCEPT ![i].pc = "leaving"]
    /\ UNCHANGED <<config, inflight, secrets, live, shut, stopping, writer, req>>

InitLeaves(i) ==
    /\ init[i].pc = "leaving"
    /\ Leave(i)
    /\ UNCHANGED <<config, initialized, secrets, live, covered, shut, stopping,
                   writer, req>>

----------------------------------------------------------------------------
(* shutdown(), which is terminal for the host: it loads, registers,        *)
(* initializes and invokes nothing after it has called it.                 *)

ShutBegin ==
    /\ shut = "no"
    /\ initialized
    /\ shut' = "stopping"
    /\ stopping' = snap.plugins
    /\ UNCHANGED <<config, initialized, inflight, secrets, live, covered, writer,
                   init, req>>

ShutPlugin(p) ==
    /\ p \in stopping
    /\ live' = live \ {p}
    /\ stopping' = stopping \ {p}
    /\ UNCHANGED <<config, initialized, inflight, secrets, covered, shut, writer,
                   init, req>>

ShutEnd ==
    /\ shut = "stopping" /\ stopping = {}
    /\ shut' = "done"
    /\ initialized' = FALSE
    /\ UNCHANGED <<config, inflight, secrets, live, covered, stopping, writer, init, req>>

----------------------------------------------------------------------------
(* A request: one hook of one route, resolved against the snapshot it      *)
(* loaded.                                                                 *)

\* What resolution finds in a snapshot: at the identity hook the plugins of
\* the `authentication:` list that are registered; at any other hook nothing,
\* because only an annotated handler dispatches there.  With no document
\* every registered plugin fires.
Resolve(s, hook) ==
    IF s.doc = None THEN s.plugins
    ELSE IF hook = "identity" THEN DocAuth[s.doc] \cap s.plugins ELSE {}

\* No plugin and no annotation: the request passes without resolution.
HasNothingToDispatch(s) == s.plugins = {} /\ s.notes = NoNotes

\* Hosts invoke hooks once initialize() has returned.
ReqLoad(q, r, hook) ==
    /\ shut = "no" /\ initialized
    /\ req[q].pc = "idle"
    /\ req' = [req EXCEPT ![q] =
         [pc |-> IF HasNothingToDispatch(snap) THEN "dispatched" ELSE "looking",
          doc |-> snap.doc, key |-> <<r, hook>>,
          entries |-> Resolve(snap, hook),
          handler |-> IF hook = "policy" THEN snap.notes[r] ELSE None]]
    /\ UNCHANGED <<config, initialized, inflight, secrets, live, covered, shut,
                   stopping, writer, init>>

\* The annotation short-circuit; and hook dispatch, which no route governs.
ReqDirect(q) ==
    /\ req[q].pc = "looking"
    /\ req[q].handler # None \/ req[q].doc = None
    /\ req' = [req EXCEPT ![q].pc = "dispatched"]
    /\ UNCHANGED <<config, initialized, inflight, secrets, live, covered, shut,
                   stopping, writer, init>>

\* The cache is shared, and its key does not name a configuration.
ReqHit(q) ==
    /\ req[q].pc = "looking"
    /\ req[q].handler = None /\ req[q].doc # None
    /\ cache[req[q].key] # None
    /\ req' = [req EXCEPT ![q].pc = "dispatched", ![q].entries = cache[req[q].key]]
    /\ UNCHANGED <<config, initialized, inflight, secrets, live, covered, shut,
                   stopping, writer, init>>

\* The slow path; building an override instance is an await.
ReqMiss(q) ==
    /\ req[q].pc = "looking"
    /\ req[q].handler = None /\ req[q].doc # None
    /\ cache[req[q].key] = None
    /\ req' = [req EXCEPT ![q].pc = "resolved"]
    /\ UNCHANGED <<config, initialized, inflight, secrets, live, covered, shut,
                   stopping, writer, init>>

HasRoom == Cardinality(Cached) < CacheMax

\* Reject-on-full.
ReqFill(q) ==
    /\ req[q].pc = "resolved"
    /\ IF HasRoom
       THEN /\ cache' = [cache EXCEPT ![req[q].key] = req[q].entries]
            /\ late' = IF req[q].entries = Resolve(snap, req[q].key[2])
                       THEN late \ {req[q].key} ELSE late \cup {req[q].key}
       ELSE UNCHANGED <<cache, late>>
    /\ req' = [req EXCEPT ![q].pc = "dispatched"]
    /\ UNCHANGED <<snap, initialized, inflight, secrets, live, covered, shut,
                   stopping, writer, init>>

\* The executor runs what was resolved, and the request ends.
ReqEnd(q) ==
    /\ req[q].pc = "dispatched"
    /\ req' = [req EXCEPT ![q] = IdleReq]
    /\ UNCHANGED <<config, initialized, inflight, secrets, live, covered, shut,
                   stopping, writer, init>>

----------------------------------------------------------------------------
Next ==
    \/ \E w \in Writers :
         \/ \E d \in Docs : LoadBuild(w, d)
         \/ LoadPublish(w) \/ LoadRefused(w) \/ ClearAfter(w) \/ LoadReturns(w)
         \/ \E r \in Routes : LoadAnnotate(w, r)
         \/ \E p \in Loose : Register(w, p) \/ Unregister(w, p)
    \/ \E i \in Initializers :
         \/ InitEnter(i) \/ InitResolve(i) \/ InitRead(i) \/ InitKey(i)
         \/ InitAttach(i) \/ InitPluginFails(i) \/ InitFails(i)
         \/ InitSucceeds(i) \/ InitLeaves(i)
         \/ \E p \in Plugins : InitPlugin(i, p) \/ InitRollback(i, p)
    \/ ShutBegin \/ ShutEnd
    \/ \E p \in Plugins : ShutPlugin(p)
    \/ \E q \in Requests :
         \/ \E r \in Routes, hook \in Hooks : ReqLoad(q, r, hook)
         \/ ReqDirect(q) \/ ReqHit(q) \/ ReqMiss(q) \/ ReqFill(q) \/ ReqEnd(q)

Spec == Init /\ [][Next]_vars

----------------------------------------------------------------------------
(* Properties.                                                             *)

\* The policy a running engine serves is the policy whose `secrets:` block it
\* resolved (configuration.md, "Secrets and reload"), whatever the order of
\* loads, failed initializations and shutdowns.
SecretsPaired == initialized /\ snap.doc # None => DocSecrets[snap.doc] = secrets

\* A running engine digests content under the key its own document names: a
\* reload's new executor does not lose it, nor keep that of another document
\* (content_key_for, attach_content_key).
KeyPaired == initialized /\ snap.doc # None => snap.key = DocSecrets[snap.doc]

\* initialize() "does not come up half-started": every plugin it found is
\* running once the engine is initialized, unless another call overlapped it.
NotHalfStarted == initialized /\ shut = "no" => covered \subseteq live

\* With loads from one task, a request is never decided by the policy handler
\* of a document other than the one its snapshot carries (annotate_route
\* writes to whatever snapshot is current).
OwnPolicy == \A q \in Requests : req[q].handler \in {None, req[q].doc}

\* A load, registration or unregistration leaves in the route cache only what
\* the new snapshot resolves to, apart from what requests still on an older
\* snapshot put there after it.
ClearedOnReload ==
    (\A w \in Writers : writer[w].pc # "clear") =>
       \A k \in Cached \ late : cache[k] = Resolve(snap, k[2])

\* The field's comment, "invalidated on config reload": once reloads and
\* requests are over, what is cached is what the configuration says.
InvalidatedOnReload ==
    (\A w \in Writers : writer[w].pc = "idle") /\ (\A q \in Requests : req[q].pc = "idle") =>
       \A k \in Cached : cache[k] = Resolve(snap, k[2])

\* A running engine is of one piece through loads, failed initializations,
\* registrations and shutdowns: its secrets, content key, plugins, handlers and
\* cached routes belong to the document it serves, and the cache keeps its limit.
EngineConsistent ==
    /\ TypeOK
    /\ SecretsPaired /\ KeyPaired /\ NotHalfStarted /\ OwnPolicy /\ ClearedOnReload
=============================================================================
