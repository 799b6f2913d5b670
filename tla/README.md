# Formal models of the policy engine

TLA+ models of the parts of this repository whose correctness depends on the
order in which things happen, or on combinations no test enumerates: the
write-ahead record of irreversible effects and the file under it, the plugin
pipeline, the engine and the policy installed in it across reloads, the choice of
route and sections, the evaluator, and the plugins that keep tokens, keys,
approvals, counters, labels and an audit chain.  TLC checks each on small
instances; TLAPS proves every safety property the passing runs check for every size, among
them the two refinements.  Source paths below are relative to `crates/` of the
repository; `PROJECT.json` maps every definition to its lines.

Run a configuration with `tlc -config X.cfg Module` (the pairs are in `PROJECT.json`), the
proofs of a module with `tlapm X_proofs.tla`; the longest takes about six minutes.

## 1. Inventory

| Component (source) | State | Operations | What is hard | What makes it correct |
|---|---|---|---|---|
| Effect protocol (`ppe-core/src/effect.rs`, `engine.rs` recovery, `executor.rs` emission) | durable log, in-flight keys, keys touched during a sweep, audit stream | `perform_effect`, `begin_effect`, `complete_effect`, `emit_effect`, `recover_effects_with` | crash between intent, act and outcome; a sweep reading the log while a plugin acts; overlapping sweeps; refused appends that stay on disk; dropped futures | no act without a durable intent; no false answer; one answer; orphans get answered; sinks hear only durable states |
| File effect log (`effect.rs`, `FileEffectLog`) | the file, its torn tail, temp file, write lock, append counter | `append`, roll-back, `recover`, compaction | torn writes, failing roll-backs, rename against a concurrent append, directory fsync, path moved by a reload | acknowledged records survive; damage is never silent; implements `DurableEffectLog` |
| Pipeline executor (`executor.rs`, `plugin.rs`, `context.rs`) | phase, payload, contexts, errors, decision log | five phases, `invoke_contained`, `on_error`, circuit breaker | time-outs, panics, wrong types, cancelled tasks, branches ending in any order, dropped requests | fail-closed; the first objector is blamed; the log is true; swallowed failures show |
| Branch orchestration (`ppe-orchestration/src/lib.rs`) | JoinSet, result slots | spawn, join, abort | abort racing completion | ordered results, every branch joined |
| Registry (`registry.rs`) | hook index, plugin refs, disabled flag | register, unregister, group by mode | breaker tripped under a running request | consistent index |
| Engine (`engine.rs`) | snapshot, route cache, secrets, flags | `load_config*`, `register_*`, `annotate_route`, `initialize`, `shutdown`, `invoke_*` | load against initialize, publish before annotate, late cache fill, roll-back of a failed start | secrets and policy belong together, cache matches the configuration, no half-start |
| Extensions, filter and merge (`ppe-core/src/extensions/`) | the slots of a request; a view per plugin | filter by capability, copy, validate, merge back | a view that hides a slot comes back blank; a chain that is extended by several plugins | identity is untouched, labels and delegation only grow, a slot changes only under its capability |
| Audit export and the OCSF chain (`audit/export.rs`, `reference/plugins/ocsf-audit`) | chain position, writer slots, the open file | emit, write off thread, follow rotation, drain | callbacks timing out under a stalled disk; rotation between two writes; shutdown | no fork or gap, bounded writers, acknowledged means durable |
| APL evaluator (`ppe-apl-core/src/evaluator.rs`, `route.rs`, `rules.rs`) | taints, restrictions, grants and verdict of one walk | conditions, pipelines, sequential and parallel effects, PDP reactions | unorderable comparisons under not; a panic in a parallel block; a reaction that allows | a request goes on exactly when every gate reached lets it |
| APL runtime (`ppe-apl-runtime/src/`) | layers, PDPs, handlers, plan cells; session labels; decision cache | visit, plan, evaluate, hydrate, persist; look up, insert, clear | reload against requests that hold the old handler; overlapping requests of one session; a decision that straddles a reload | layers and PDPs of one document; a taint told is stored; a hit is current |
| CIBA elicitation (`builtins/src/plugins/elicitation_ciba/`) | correlations, poll claims, leases | dispatch, check, validate over a memory or a Valkey store | two pollers, a lease lapsing in a poll, an OP that answers once, a crash | an approval is the named person's and is spent once |
| Tokens and keys (`delegator_oauth`, `delegator_vault`, `secrets/vault`, `identity_api_key`, `identity_jwt`) | cached tokens, Vault session, key records, JWKS, DPoP ids | mint, log in, revoke, reload, refresh, prune | single flight, cancellation at every await, two clocks, lost answers | nothing served past its window, no token left behind, no replay, no stampede |
| Rate limit and quota (`ratelimit`, `quota`) | counters, pending debits | check and update; admit, report, flush | a report whose answer is lost; a call dropped while it holds a claim | the limit holds; every cost is charged once |
| Secrets (`ppe-core/src/secrets/`) | value and generation per secret, health per provider | resolve, refresh, snapshot | overlapping and dropped refreshes, partial failure | no value goes back, health does not flatter |
| HTTP support (`http.rs`, `http_retry.rs`) | attempt counter | retry | retry of a call that was delivered | a delivered login is not repeated |
| Configuration (`ppe-core/src/config.rs`) | routes, sections | resolve a route, name it, stack its sections, report what a flag drops | two lookups that must agree; summed weights; reports computed apart from the fold | the most specific route wins, its policy is reached, losses are reported |
| Parser, CMF, identity mapping, scanners, facade, benches | none | pure functions, I/O | – | left out, see section 7 |

How they interact.  The host loads a document into the engine, which publishes a
snapshot (registry, executor, route annotations, effect log) behind one atomic
pointer.  A request loads the snapshot, resolves its route to plugin entries
through the route cache, and hands them to the executor, which runs them as
tasks, the concurrent ones through `run_branches`.  After publishing, the engine
lets the APL visitor walk the document, stack its sections and annotate each
route with a handler; a request that meets one takes the handler's plan, loads
its session's labels, walks the compiled effects (plugins, PDPs through the
decision cache, delegators with their token caches, elicitation) and stores the
labels it set before it answers.  A plugin that does something
irreversible brackets it with effect records, appended to the durable log and
told to the audit sinks.  `initialize()`, and the host whenever it likes, sweeps
the log and reconciles what nobody answered.

## 2. Modules

| Module | Models | Lines of code it stands for |
|---|---|---|
| `EffectRecords` | records, and what a recovery keeps of them | `effect.rs` `EffectState`, `EffectRecord`, `recover` |
| `DurableLog` | the abstract contract of the trait `DurableEffectLog` | `effect.rs` |
| `EffectProtocol` | plugins, sweeps, in-flight keys, crash and restart, told states | `effect.rs`, `engine.rs`, `executor.rs` |
| `FileEffectLog` | the file, errors, roll-backs, compaction, crash, reload of the path | `effect.rs`, `engine.rs` |
| `Executor` | requests, the five phases, branches, verdict and log | `executor.rs`, `plugin.rs`, `registry.rs`, `ppe-orchestration` |
| `Engine` | load, register, annotate, initialize, shutdown, route cache | `engine.rs` |
| `RouteChoice` | which route serves a request, and under which name its policy is found | `config.rs`, `engine.rs` |
| `SectionLayers` | global, default, bundle and route sections, folded and reported | `config.rs`, `engine.rs` |
| `PolicyInstall` | the visitor's walk, layers, PDPs, handlers and plan cells across reloads | `visitor.rs`, `pdp_router.rs`, `dispatch_plan.rs`, `engine.rs` |
| `RouteRequest` | one request's labels, groups and answer, over a shared session store | `route_handler.rs`, `cmf_invoker.rs`, `session_store.rs`, `valkey/store.rs` |
| `Evaluator` | conditions, pipelines and the effect tree, as recursive functions of their nodes | `evaluator.rs`, `route.rs`, `rules.rs` |
| `ExtensionTiers` | view, validation and merge under capabilities | `extensions/`, `executor.rs` |
| `DecisionCache` | the cache, and the generation it is checked against | `decision_cache/`, `engine.rs` |
| `Approval`, `Elicitation` | the promise of an approval channel, and CIBA under it | `elicitation_ciba/`, `elicitation_invoker.rs`, `evaluator.rs` |
| `TokenCache` | delegated tokens by two clocks, coalesced exchanges | `delegator_oauth/cache/` |
| `VaultDelegation` | login, read, revoke with cancellation | `delegator_vault/` |
| `VaultSession`, `HttpRetry` | the provider's session; which attempts are repeated | `secrets/vault/provider.rs`, `http_retry.rs`, `http.rs` |
| `JwksRefresh`, `DpopReplay` | key refresh on demand; the replay guard | `identity_jwt/` |
| `ApiKeys` | record file, reload, positive and negative cache | `identity_api_key/` |
| `Quota`, `RateLimit` | debits and admission; check and update | `quota/`, `ratelimit/` |
| `SecretStore` | resolve, refresh, generations, health | `secrets/store.rs` |
| `AuditChain` | hash chain, writer slots, file exporter | `ocsf-audit/src/emitter.rs`, `audit/export.rs` |
| `Positions` | the members of a sequence at some positions, in order | `effect.rs` `recover` |
| `Loops_proofs` | lemmas on lists, picked positions and loops, for the modules below | |
| `EffectProtocol_proofs` | theorems over `EffectProtocol`, `Elicitation`, and both side by side | |
| `Executor_proofs` | theorems over `Executor` | |
| `Stores_proofs` | theorems over `FileEffectLog` | |
| `Policy_proofs` | theorems over `Engine`, `SectionLayers`, `Evaluator` | |
| `Requests_proofs` | theorems over `RouteRequest`, `PolicyInstall`, `DpopReplay`, `ExtensionTiers`, `RouteChoice`, and the parts of `MCServices` side by side | |
| `Components_proofs` | theorems over `RateLimit`, `ApiKeys`, `AuditChain`, `SecretStore`, `Quota`, `DecisionCache`, and all six side by side | |
| `Credentials_proofs` | theorems over `VaultDelegation`, `TokenCache`, `VaultSession`, `JwksRefresh` | |
| `MC*` | instances for TLC (`Executor` needs none) | |

`FileEffectLog` implements `DurableLog` (property `ImplementsLog`, mapping the
complete lines of the file to the log); `EffectProtocol` works on a log of that
contract, weakened by the two ways an append can fail and still leave its record.
That is the composition: what the protocol needs of the log, the file provides.
`Elicitation` implements `Approval` (property `ApprovalImplemented`): an approval
is asked of one person for one subject, answered once, and lets at most one request
through, one of that subject and on that person's yes.
`VaultSession` retries its login by `HttpRetry`, and `PolicyInstall` composes the
engine's publication with the visitor's walk and the requests that hold handlers
of the document before.

### EffectProtocol

A key is one attempt of one act.  `pc[k]` follows `perform_effect`: key opened,
intent appended, sinks told, act, outcome appended, key closed.  The log is the
set of records a recovery would read.  An append returns Ok or is refused
(`IntentRefused`, `OutcomeRefused`), and a refused one may have left its record
(`MayLand`); an invocation may be dropped at any await (`DropInvocation`, which
is `Drop for OpenedKeys`).  A sweep registers itself, reads the log (compacting
it), then per key either skips it as busy or asks the reconciler, appends the
answer, compacts, tells the sinks and leaves.  A crash clears memory and keeps
the log.  The reconciler is external; its answers are true, because a
participant asked by idempotency key knows whether it acted: `AnswersTrue` is
then a statement about *when* the engine asks.  An act lands while its invocation
waits for it (`ActLands`), so one whose call errored, timed out or was dropped has
landed by then or never will; `effect.rs:1034` has such an act recorded `Unknown`,
as the model does.  A call still on the wire after its caller has gone could
land after a participant denied it, and no order in the engine prevents that.

### FileEffectLog

The file is its complete lines plus a flag for an unterminated last line.  A
handle is one `FileEffectLog` value with one write lock; a blocking task holds
the lock over open, write, fsync and directory fsync (append), or over read,
write of the temporary file and rename (recovery).  A crash may come
between any two steps (`MaxCrashes`) and may tear the line being written.  `stale`
holds what an un-fsynced directory may bring back.  `env` is the environment: the
I/O errors it has left, and what they may hit besides a write (the roll-back of
another, the recovery at startup), whether reloads may leave the path and return.
A path that is left and returned to gets a second handle, while requests on the first
snapshot still use the old one; `overlapped` records that a call of one began
while a call of the other was under way.
`ImplementsLog` is stated for the environments in which roll-backs and recoveries
work (`Sound`), `NeverSilent` for all three of the run, until calls overlap.  No run
lets a synced directory entry revert (`dirMayRevert`, section 4).

### Executor

Plugins are numbered by priority.  `Start` groups them by mode, as
`group_by_mode` does, reading the shared circuit breakers once.  In the serial
phases one plugin at a time is dispatched and one action per kind of result
follows, with its effects on payload, context table, errors, breaker and log.
The concurrent phase spawns all branches, which end in any order; a joined deny
aborts the rest; outcomes are read in input order when all are joined.  `Settle`
is the identity check and the final verdict.  `Drop` is the caller giving up.
A payload is abstracted to what the identity check reads of it.

### Engine

`snap` is the published `RuntimeSnapshot`.  What happens under the writer lock is
one step; what the code does before it (building plugins through factories) and
after it (clearing the route cache, the visitors' annotations) are steps of their
own, because other tasks run in between.  `initialize()` is a gate counted by
`inflight`, then the resolution of secrets, the content key, one step per plugin
and a roll-back.  A request reads its snapshot once, then takes the annotation
short-circuit, the cache, or the slow path with its await, and fills the cache.
A document is its plugins, its authentication list, the routes its policy
covers, and its secrets block, among which it names its content key.
`shutdown()` is documented as terminal, so the host starts no new operation
after it; those in progress go on.

### The configuration: RouteChoice, SectionLayers, PolicyInstall

A route is a selector, a scope and whether it declares a policy.  `ResolveRoute`
sums the weights of `config.rs`; `Annotated` is the table the visitor fills under
`RouteNames`, and `Serve` makes both lookups the engine makes for a request.
Names, patterns and paths are members of small sets with their own relation
(`IsGlob`, `PathPrefixMatches`); a path is a sequence of segments.
`SectionLayers` folds the sections a route joins, for authentication, rate limits
and assertions, and computes what a load reports as dropped.  `PolicyInstall`
makes each visitor call one step (`VisitPlugins`, `VisitGlobal`, `VisitSection`,
`VisitRoute`); a layer, a PDP and a handler are known by the load that made them,
and a request moves through handler, generation, cell and plan.

### Evaluator

`WalkEffects` and `Dispatch` are `evaluate_effects` and `dispatch_effect`; a plugin,
PDP, delegation or elicitation carries the answer it will give, and a parallel
node takes each outcome `run_branches` may give its branches.  Three values of a
condition, true, false and unorderable, go through and, or, not as in the code.
Integers beyond `ExactBound` are those an f64 does not tell apart.  A route has field
rules for arguments and result besides its effects, and both sides of a call are
walked with the bag the walk has by then: a delegation that was granted is seen by the
conditions after it.  `DispatchElicitation` checks an approval's scope, an expression,
against that bag; a store that is not there denies, whatever `on_error` says.

The trees are given by levels (`ExpressionLevels`, `EffectLevels`): a node holds nodes of
levels before its own, as a tree that was parsed does.  Evaluation is a recursive
function of the nodes, and each list a recursive function of its positions.  The
specification has no RECURSIVE operator, so what it computes can be proved.

### Requests, caches and credentials

Every module makes one action of what happens between two awaits or under one
lock.  `RouteRequest`: hydrate, run the members of a group, join, apply, persist,
answer; the store may fail at each call and the caller may drop the request.
`Elicitation`: each store call, each OP call and its loss, lapses and a crash;
`SharedStore` picks the Valkey store, which survives it.  `Quota`: `owed` is what
responses cost and `spent` what Limitador counted; `ambiguous` what it counted
unknown to the plugin.  `DpopReplay` has a clock per gateway and one of the client;
`TokenCache` a monotonic and a wall clock, which a suspend moves apart.
`VaultDelegation` has the revocation task beside the request; `AuditChain` the
writer beside the callback that timed out, and a file with what of it is synced.
External parties (OP, IdP, Vault, Limitador, Valkey, moka, operator) answer, fail
or lose the answer as they may, and are marked external in the map.

## 3. Runs

| Run | Instance | Checks | Shows |
|---|---|---|---|
| `effects` | 2 keys, 2 overlapping sweepers, 1 crash | `WriteAhead`, `AnswersTrue`, `OneAnswer`, `ToldAfterDurable` | plugins, sweeps and a crash in every order leave no act unaccounted for and no wrong or premature answer; plugin and sweep never both answer, and no two answers differ (two overlapping sweeps may both give the same) |
| `eventually` | effects: 1 key, 1 sweeper, 1 crash; approvals: 2 requests, memory store, crash | `PartsTypeOK`, `OrphanAnswered`, `EveryRequestEnds` | under fairness an orphaned intent is answered; every request that asks for an approval ends |
| `file_log` | 2 handles, 2 crashes; three disks: 2 keys and 1 error with working roll-backs and recoveries; 1 key and 3 errors with failing ones; 1 key, 1 error and reloads that leave the path and return | `ImplementsLog`, `NeverSilent` | the file implements the abstract log as long as roll-backs and recoveries work; when they fail, or a second log value stands over the file, acknowledged records may be lost, but never silently, unless calls of both values overlap |
| `pipeline` | every pair of plugins, every mode and `on_error`, every failure and payload | `FailClosed`, `FirstObjectorBlamed`, `RecordTruthful`, `UnrecognisedRefused`, `Concludes` | verdict, log, errors, contexts and payload agree; every request ends |
| `approvals` | 3 requests, 1 id, 2 subjects, 2 approvers, shared store | `ApprovalGenuine`, `NeverRepolled`, `ApprovalImplemented` | an approval is genuine and lets one request of its subject through, through lapses, lost replies and a crash |
| `policy` | five parts: engine (3 documents, 2 plugins, 2 initializers, 1 writer, 1 request, 1 cache slot), evaluator, tiers, routes, sections | the properties of the parts, below | each part keeps its promise |
| `components` | six parts: keys, quota, rate, cache, audit, secrets | `ComponentsTypeOK` and the properties of the parts | each part keeps its promise |
| `services` | seven parts: route, dpop, tokens, vault, session, jwks, install | `ServicesTypeOK` and the properties of the parts | each part keeps its promise |
| `engine_stale` | the engine of `policy`, 1 initializer | `InvalidatedOnReload` (violated) | finding 1 |
| `taint_lost` | 1 session, a request that carries a label | `TaintDurable` (violated) | finding 2 |
| `stale_layers` | 2 loads of documents with all, some or no sections | `LayersOfOneLoad` (violated) | finding 3 |
| `route_split` | two routes that name one tool | `HandlerOfItsRoute` (violated) | finding 4 |

`policy` has about 1.5 million states.  `policy`, `components` and `services` run several
components in one go: the initial state picks the part that moves and the others stay as they start, so the state space is the
sum of the parts', not their product.

| Part | Property, and what it is made of |
|---|---|
| evaluator | `WalkSound`: `ForwardedMeansPermitted`, `ReachedIsKept`; `ConditionsSound`: `DefiniteIsSettled`, `OrderExact` |
| tiers | `IdentityKept`; `ChangesGranted`: `LineageGrows`, `WritesNeedAGrant` |
| keys | `RevocationWindow`: `WithinWindow`, `FreshStampFreshRecords` (with the exception `raced`, section 4) |
| quota, rate | `QuotaSound`: `Accounted`, `GateHeldByACall`; `SettledAtAdmission`; `RateHeld` |
| cache | `CacheSound`: `ServedCurrent`, `OrderAgrees` |
| audit | `AuditWhole`: `ChainWhole`, `AckedDurable`, `WritersBounded`, `ShutdownLast` |
| secrets | `RefreshTruthful`: `SameGenerationSameBytes`, `LastSuccessTruthful` |
| routes | `RouteChosen`: `MostSpecificWins`, `HandlerMatches`, `PolicyReached` |
| sections | `ContractAsDeclared`: `AuthenticationLossReported`, `LimitLossReported`, `AssertionLossReported`, `BundleOrderFree` |
| engine | `EngineConsistent`: `TypeOK`, `SecretsPaired`, `KeyPaired`, `NotHalfStarted`, `OwnPolicy`, `ClearedOnReload` |
| route | `AllowJustified`: `TaintDurable`, `NoWriteDown`, `EveryMemberAgreed` |
| dpop | `ReplayGuarded`: `ProofAcceptedOnce`, `CountsAgree` |
| tokens | `TokensShared`: `HandedOutInWindow`, `WaitersHaveALeader` |
| vault | `RevokedOrOwned`: `NoTokenAbandoned`, `ServedMeansRevoked`, `ReadsWithItsToken` |
| session | `LoginsJustified`: `NoLoginStorm`, `OneTokenPerLogin`, `ForbiddenAfterRenewal` (a renewal by another reader counts, section 4) |
| jwks | `RefreshSound`: `WinnerHelps`, `AttemptsSpaced`, `ValidatorOfTheKeys` |
| install | `InstalledWhole`: `PdpsOfOneLoad`, `HostOwnsItsDialects`, `OneBuilder`, `NewerCellKept`; not the load of the plan in a cell (section 4) |

A property of a component is a conjunction of named parts; to see which one a
change breaks, name the part in the configuration instead.  The
type invariants of the modules without one in a configuration can be checked the
same way.

`TaintDurable` holds in `services`, where requests come without labels of their
own (`OwnLabels`), through failures, drops and overlaps; `taint_lost` is the case it
does not.

### Bounds

Two keys and two sweepers are the least at which an answer to one key can be
mixed with another's and at which sweeps overlap; each key is one attempt, so
more keys repeat the same independent story (the theorems cover any number).
One crash per run of the protocol is enough to end every invocation at every
point; the file needs two, because a crash after a failed recovery is where torn
tails meet; a second handle is what a path left and returned to brings.  `Threshold = 2` makes the automatic compaction fire between appends.
Two plugins meet in every pair of phases; a deny that aborts one branch while
another has failed is reached with two branches and the verdict of the first.  The engine's
documents are two with the same secrets and different plugins, so that reloads
succeed, and one without secrets, so that they are refused; one cache slot for
two hooks makes the full cache happen.

In the suites two actors race wherever a lock, a claim or a coalesced call is at
stake, and a third where one leads, one waits and one comes late (`Quota`,
`RateLimit`, `AuditChain`, `VaultDelegation`).  Clocks run just past the longest
window plus skew; caches hold one entry less than there are keys; retries,
reloads and rotations are bounded by one or two, enough for the old to meet the
new.  Documents, selectors, capability sets and effect trees are enumerated by
the `MC` modules, which pick the shapes in which parts meet: each kind of effect
alone, in sequence, in parallel, and under a condition or a PDP.  Patterns with
`?` are left out of `RouteChoice` (see the remarks below).

`CHECK_DEADLOCK FALSE` is set for the file, the approvals and the suites, whose
bounded faults, clocks and requests let them stop, and for `eventually`, whose
liveness properties say more; `effects` and `pipeline` are checked for deadlock.

Symmetry is used over keys and sweepers, handles, requests and actors in runs
without liveness properties; an action property or a refinement is symmetric in
them too.

### Fairness

`eventually`, effects: an invocation runs under the executor's timeout, so it moves or
is dropped (weak fairness on its steps); the host sweeps again and again (weak);
an answer, an append or a compaction tried for ever succeeds once (strong
fairness), which is what a reconciler that can answer and a disk that mostly
works mean.  Without the last two nothing can be promised, and the code promises
nothing.  Plugins are never forced to begin an effect.  Approvals: weak fairness
on each request's own next step, because store and OP calls are bounded by their
timeouts; nothing is assumed of the person, the OP's expiry, lapses or other
requests.  Each part's fairness is conditioned on the part that moves (`Of`).
`pipeline`: weak fairness on the executor's own steps, since every call
is bounded by `timeout_seconds` and an aborted task ends at its next await.

## 4. Findings

1. **Late cache fill** (`engine.rs:3890`).  A request that resolved against the old
   snapshot inserts into the cache after the reload cleared it; the key does not
   name a configuration, so later requests are served the old `authentication:`
   list.  The comment at `engine.rs:3757` describes this for the rate-limit lists,
   which skip the cache for that reason.  Run `engine_stale`.
2. **A taint that is not stored** (`cmf_invoker.rs:330`).  `persist_session` appends
   the labels that were not in `initial_labels`, which holds what the request came
   with besides what the session had; a session taint with such a label is answered
   allow and forgotten.  `docs/content/apl/tainting.md:34` promises it for the rest of
   the session.  Run `taint_lost`.
3. **Layers of an earlier document** (`visitor.rs:887`).  A reload clears the registry
   and the tallies, and overwrites the stored global, default and bundle layers only
   where the new document has such a section; one it dropped is still stacked on
   its routes, while authentication, computed from the document, no longer has it.
   The module comment (`visitor.rs:35`) says the two chains cannot disagree.  Run
   `stale_layers`.
4. **Two routes for one request** (`engine.rs:3645`).  The handler lookup takes the
   scoped name first and calls this the tiebreaker of `resolve_route`; but there an
   unscoped exact name (1000) beats a scoped list (600), so authentication and
   assertions come from one route and policy from the other.  Run `route_split`.

Observed with the same modules, without a run of their own:

- A failing sweep swallows what it settled: `recover_effects_with` leaves by `?`
  (`engine.rs:1599`) with earlier settlements durable and not emitted, while the
  comment at 1576 promises emission before return.
- A torn tail meets an append: if recovery at startup fails, which is only logged
  (`engine.rs:2640`), the next append glues to the tail into a line no recovery
  reads (drop `recoverMayFail` from `Sound`, and `ImplementsLog` fails;
  `NeverSilent` shows that the loss is never silent).
- Two locks over one file: the comment at `engine.rs:1391` says why a reload keeps
  the running log, but only the path of the configuration just before is compared.
  Reloading from path A to B and back builds a second `FileEffectLog` for A, and a new
  set of in-flight keys, while requests on the first snapshot still append through the
  old one.  Without `overlapped`, `NeverSilent` fails with no I/O error at all: the
  old log opens the file, the new one's recovery reads it, the old one writes, syncs and
  acknowledges, and the rename drops the record.  A test of one log value asserts that
  "an acknowledged append survives the sweep it raced" (`effect.rs:1632`).
- A window without policy: `load_config_yaml` publishes a snapshot with empty
  annotations (`engine.rs:1886`) and annotates it afterwards; a request in between
  passes at a hook whose document declares a policy.
- A request that holds the handler of the document before fills the new
  generation's plan cell from its old route (`dispatch_plan.rs:762`); the comment at
  753 speaks of the plan "for this route and configuration generation".
- A scoped route without a policy for a hook falls back to the unscoped route's
  handler; a `?` pattern is scored as an exact name (`config.rs:2973` looks for `*`)
  though `engine.rs:207` takes it for a glob.
- `merge_owned` replaces `raw_credentials` whole: a plugin that may read only the
  inbound ones and returns any extension change wipes the delegated tokens;
  likewise `write_headers` with `read_query` and without `read_headers` wipes plain
  headers.
- A JWKS refresh that ends between a request's validation and its look at the
  generation (`resolver.rs:699`) goes unnoticed by it (excepted in `WinnerHelps`).
- The Vault delegator's retry budget equals one attempt's timeout, so it never
  retries.  The scope of an approval is checked after it is taken, as documented.
- Two overlapping API-key reloads may publish the older read last, under a fresh
  time: `next_attempt_ms` keeps a second reload away for one interval, not until the
  first has ended, and `reload` stores what it read whatever was published meanwhile
  (`file_directory.rs:348`).  The order of the two stores, which the comment at
  342 explains, does not help; a key revoked in between is let in until the next
  reload.  `FreshStampFreshRecords` excepts an index published by such a
  reload (`raced`), and fails without the exception.
- "403 after reauthentication; this is a permission error" may be said where nobody
  reauthenticated: a reader refused with a revoked token finds a later generation,
  made by another reader's renewal of that token just before the revocation, keeps it
  and is refused again (`provider.rs:160`, 204).
  `docs/content/configuration.md:433` has a `403` trigger "one reauthentication and
  one retry".  `ForbiddenAfterRenewal` names the two cases; requiring a login fails.
- Coalesced waiters of a token exchange are handed a mint the cache will not
  serve; after a suspend two exchanges may run one after the other.
- `OrphanAnswered` fails with two sweepers: while sweeps always overlap,
  `touched_during_sweep` is never cleared (`effect.rs:689`) and a key touched
  during them stays busy (set `Sweepers = {s1, s2}` in `MCLive.cfg`).
- `ImplementsLog` fails with `dirMayRevert` in a disk that counts as `Sound`: after a failed directory fsync
  (`effect.rs:573`) appends go on into a file that a crash may replace.
- `FailClosed` fails with `MayLose = TRUE`: a branch cancelled by the runtime
  instead of a short-circuit leaves no outcome (`ppe-orchestration/src/lib.rs:205`)
  and is read as one that does not object.  A Tokio runtime does this only when
  it shuts down.
- A breaker tripped by another request is seen at grouping only
  (`registry.rs:599`), so a request in progress still dispatches the plugin.
- A branch that fails under `on_error: fail` does not end the others
  (`executor.rs:1766`; the comment at 1641 says it does).  The verdict is the same.
- Two overlapping `initialize()` calls: one fails and shuts down plugins the
  other counts as started, and the flag is set all the same.  `NotHalfStarted`
  is about calls that did not overlap.
- Plugins a reload brings in after `initialize()` are never initialized
  (`engine.rs:2508` returns at once).
- Two concurrent `load_config_yaml` calls annotate each other's snapshot
  (`annotate_route` writes to the current one); `OwnPolicy` is checked with one
  loading task, with which no annotation of a replaced document survives.

## 5. Proofs

TLC checks the instances of section 3; the theorems below hold for every value of
the constants: any number of keys, plugins, requests, readers, clocks, capacities
and faults.  Each has the same shape: an inductive invariant that says where every
actor stands, a lemma per action (or per kind of step that several actions share),
and a last step that combines them.  All safety properties the passing runs check
are proved: every invariant, every action property and both refinements.

| Module | Component | Proved | From |
|---|---|---|---|
| `EffectProtocol_proofs` | effect protocol | `TypeOK`, `WriteAhead`, `AnswersTrue`, `OneAnswer`, `ToldAfterDurable` | `MaxCrashes \in Nat`, `NoKey \notin Keys` |
| | approvals | `ElicitTypeOK`, `ApprovalGenuine`, `NeverRepolled`, `ApprovalImplemented` | |
| | both, as in `eventually` | `PartsTypeOK`, `PartsKeepTheirSpecs` | |
| `Stores_proofs` | file log | `TypeOK` | |
| | | `NeverSilent` | `DirectoriesKept` |
| | | `ImplementsLog` | `DirectoriesKept`, `PathKept` |
| `Executor_proofs` | pipeline | `TypeOK`, `FailClosed`, `FirstObjectorBlamed`, `RecordTruthful`, `UnrecognisedRefused` | `MayLose = FALSE` |
| `Policy_proofs` | engine | `TypeOK`; `SecretsPaired`, `KeyPaired`, `NotHalfStarted`, `ClearedOnReload` | |
| | | `EngineConsistent` | one writer |
| | sections | `ContractAsDeclared` | |
| | evaluator | `ConditionsSound`, `WalkSound` | |
| `Requests_proofs` | route | `RouteTypeOK`, `EveryMemberAgreed` | |
| | | `AllowJustified` | `OwnLabels \subseteq {{}}` |
| | install | `InstallTypeOK`, `InstalledWhole` | |
| | dpop | `DpopTypeOK`, `ReplayGuarded` | `MaxSkew + MaxDelay <= Window` |
| | tiers | `TierTypeOK`, `IdentityKept`, `ChangesGranted` | |
| | routes | `RouteChosen` | `SelectorsAsMeant` |
| | the parts of `services` | `ServicesTypeOK`, `ServicesKeepTheirSpecs` | |
| `Components_proofs` | rate, keys, audit, secrets, quota | their type invariants, `RateHeld`, `RevocationWindow`, `AuditWhole`, `RefreshTruthful`, `QuotaSound`, `SettledAtAdmission` | |
| | decision cache | `CacheSound`, `CacheTypeOK` | |
| | the parts of `components` | `ComponentsTypeOK`, `ComponentsKeepTheirSpecs` | |
| `Credentials_proofs` | vault, tokens, session, jwks | their type invariants, `RevokedOrOwned`, `TokensShared`, `LoginsJustified`, `RefreshSound` | |

### What the hypotheses mean

Where a theorem has a hypothesis, the property does not hold without it, and the
reason is in the code:

- `MayLose = FALSE`: a branch the runtime drops leaves no outcome (section 4).
- `DirectoriesKept`: a directory entry that was fsync'd stays.  `PathKept`: on a
  disk whose roll-backs and recoveries work no reload leaves the path and comes back; a
  process that restarts without the path and is reloaded to it would append to a torn
  line, since only `initialize()` recovers, and two `FileEffectLog` values over one path
  have two locks, so that the rename of one loses what the other acknowledges.
  The disks of the run `file_log` satisfy both.  `NeverSilent` does not need
  `PathKept`: it is about any number of log values, until calls of two of them overlap.
- One writer: of two tasks that load at once the second may annotate the first's
  snapshot, so `OwnPolicy` needs it; the rest of the engine does not, and
  `RunningEngineSound` proves that for any number of writers.
- `OwnLabels \subseteq {{}}`: finding 2.  `EveryMemberAgreed` does not need it.
- `SelectorsAsMeant`: what the scores take for granted.  The names of a list are exact
  names, though one may be spelled like a pattern; a pattern has a star, since one with
  `?` alone is scored as an exact name (section 4); and no prefix is so long that
  its score reaches that of an exact path.  `MCRouteChoice` assumes it too, so
  that TLC checks that the tables of the run are such tables.
- `MaxSkew + MaxDelay <= Window`: the clocks of a gateway and a client differ, with the
  delay between the check of a proof's age and its guard, by no more than the window the
  operator configures.  Beyond it the retention of the guard, twice the window, is not
  what decides.

The assumptions on constants are otherwise types, that a name for "nobody"
(`NoKey`, `Unlocked`, `Free`, `Nobody`, `"none"`) is not an actor, that the emissions of a
run are finitely many, and for `SecretStore` that the order in which the store reads
secrets names each and groups them by provider, as the nested loops of the code do.
`EvaluatorAssumption` says of the trees that they are trees: finitely many levels, each of
nodes over the levels before it, of the kinds `rules.rs` and `pipeline.rs` declare.

### The arguments

**Effect protocol.**  None of the properties is inductive alone.  `WriteAhead` needs to
know that an invocation past its intent is accounted for (`PluginInv`).  `AnswersTrue`
needs that whoever is asked about nobody acts on any more, and that takes the heart of
the design (`SweepInv`): a key in a sweep's list whose plugin answered meanwhile is
*busy*, open or touched since, so the sweep will skip it.  `OneAnswer` needs that an
answered key is never unresolved in the log again (`AnswerInv`), through compactions and
appends that were refused and landed.  `ToldAfterDurable` has an invariant of its own,
`ToldInv`: whoever is about to tell the sinks has appended what it will tell.

**File log.**  `CompactionKeepsUnresolved` first: what `Survivors` writes back is a
compaction in the sense of `DurableLog`, because `NthOf` counts a finite set of positions
up and leaves none out.  `FileInv` then says of an append under way that the prefix it
found holds all that is owed and that at most its own line follows, spoiled if it met
half a line; of a compaction, that what it read is still what the file holds.  Both need
that nobody else writes, so `FileInv` has one log value at work at a time and stands until
`overlapped`; `UseInv` adds that a configuration that stays on its path never overlaps.  For the
refinement `Intact` adds that half a line is there only after a crash or while the
append that wrote it is about to roll back; every step is then one of `DurableLog` or
leaves the log alone (`LogStep`).

**Pipeline.**  `IInv` says where a request stands: a serial plugin that runs has its
turn; a request still to be allowed has only passing steps behind it; a branch is
cancelled only after a deny was joined; `declined` remembers every accepted payload.
`RecordTruthful` relates what each step wrote to log, errors, breakers and contexts with
how the task it belongs to ended.

**Approvals.**  One request at a time is between claiming an id's poll and settling it,
and what it learnt decides whether the id can be polled again (`PollInv`); a
correlation that is live has the question the OP was asked, and its resolution is the OP's
word (`IdInv`).  The refinement maps the OP's answers to what `Approval` calls said, and
the requests that went through, each with its id and subject, to what was spent; a request
is let through only when none was before on that id, because redeeming removes the
correlation and nothing brings an id back.

**Engine.**  While an `initialize()` is in flight no load is published, so what it read
stays true (`StillRead`); of two calls in flight neither answers for the plugins
(`Accounts`); a snapshot that resolves differently is followed by a clearing of the cache;
one writer annotates only what it published (`OwnWriter`).

**Sections.**  `SectionInv` says that what a load reports and what a request meets are those
of the document, which is one step; the work is in what the loops over a route's layers
compute, by induction over their rounds.  A list of steps is shorter than what its layers
declare just when a flag dropped something already stacked (`StepsLost`), which is what
the report looks for.  A header is in the contract, from a section, when no later layer
replaces it or declares its name (`ContractHolds`).  The order of bundles without the flag
is of no account because a document in which two of them assert one header is refused
(`AcceptedApart`, `OrderTakesNothing`).

**Evaluator, conditions.**  By induction over levels, a definite value is the classical
one for every way to take the unorderable comparisons: `Combine` has a closed form (the
settling value if an operand has it, else unorderable if one is, else the other) that
names no position, which also gives that the order of operands changes nothing.

**Evaluator, effects.**  The properties speak of what was reached, so the proof carries it
along.  `Walked(s, seen, r)`: from `s`, having met the gates `seen`, a walk may end in
`r` when it goes on exactly if each of them lets it, and then has what they give.
`Faithful(e)` says it of every end `Dispatch` allows a node, and is proved by levels: leaf
by leaf, for lists round by round, for a PDP with its reactions, and for a parallel
group.  There it needs what the loader checks (`Loadable`): branches that change nothing
never wait and grant nothing (`Quiet`), so that the bag each branch starts from is the one
the group leaves, and a branch that was cut short was cut short by one that denied.
`WalkInv` states `Walked` of both phases of a route.

**Requests.**  Labels: those of the session at the time of loading are in the store and
seen by the gate (`Loaded`, `Guarded`).  Install: generations stay within three per
load, and once the resolvers are swapped they are of this load (`SwappedInv`).  Replay:
a proof is dated at most now, so at the guard the time is at most its date plus twice
the window, which is what the guard retains (`Spent`).  Tiers: each slot of the canonical
extensions against what the pipeline began with, whatever a plugin returns
(`AnyReturn`).  Routes: the best score is taken by a route that matches, and both lookups
meet in it.

**Quota.**  `Accounted` is a sum over calls.  `InFlight` counts tokens, so that the sum is
the cardinality of a set and a call that moves takes its tokens along (`UnitsMove`); per
principal, counter and pending debit equal what responses cost with what is in flight on
either side (`BooksOf`).  A flush is alone and takes no more than is pending (`CallInv`).
`SettledAtAdmission` follows: past the gate nothing is in flight.

**Side by side.**  `components`, `services` and `eventually` run their parts in one
specification.  That each of its behaviours is one of every part's own specification
(`ComponentsKeepTheirSpecs`, `ServicesKeepTheirSpecs`, `PartsKeepTheirSpecs`) is a
theorem: its initial states are theirs, and a step moves one part by that part's next-state
relation and leaves the others alone.  The theorems of the parts therefore hold of
the suites TLC runs; their joint type invariants are stated.

**The other components.**  Rate limit: only the holder of the lock is between check and
update, so what it was told still holds.  API keys: a cached answer expires within its
TTL of when the directory gave it; a reload beside which no other runs publishes a version
of the file no older than any stamp or any lookup's judgement (`ReloadInv`).  Audit: a position belongs to one record and one
writer, and the slots out and free are no more than there are.  Secrets: a refresh holds the lock and every
secret of its provider it has passed was read since it began.  Vault delegation: where a
call stands says who owns its token.  Token cache: a call that found nothing to serve is
handed what is minted after it began.  Vault session: the cause of a login is counted
before it (`CreditInv`), and readers try tokens in the order Vault issued them (`AgeInv`).  Keys: a request whose key is missing from the generation it
validated against still misses it while the generation stands.  Decision cache: a backend
answers from a configuration no older than the generation its asker read, since the
snapshot is published before the generation is raised, and the slots of a store are of the
generation it was cleared for or later.

### Loops and trees

The library's induction theorems take the predicate as an operator parameter, which the
provers cannot instantiate.  `Loops_proofs` and `Policy_proofs` have their own, in which the
predicate is a set and the body of a recursion a function: `UpToInduction` (a set that
holds 0 and is closed under successor up to n holds all up to n), `LoopRuns` (a loop whose
body stays in a set has a value after each round), `LevelInduction` (what holds of a node
when it holds of the levels below holds of every node) and `LevelRuns` (a recursion that
looks only at levels below has a solution, which is what lets the definition of
`EvalExpression`, `Dispatch`, `Visits` and the others be unfolded).

### What the proofs changed

Proving made some definitions precise without changing what they model: `PollClaim`,
`Resolve`, `ScoreEntityMatch`, `Specificity`, `EvalCondition` and `ApplyPipeline` are
ordered choices, as the code's early returns are, where a CASE with overlapping guards
left the choice open; `HandedOutInWindow` speaks of the floor before the ceiling for any
floor, zero included; the order-keeping filters of `FileEffectLog` and `DecisionCache` are
`Picked` (module `Positions`) and the sum of `Quota` a cardinality, since the prover does
not see into the library's folds.  For the same reason the loops of `SectionLayers` are
recursive functions of the layers, and `Evaluator` takes its trees by levels.
Stating `WalkSound` for every tree showed what its small instance left out: a gate's answer
may depend on the bag it meets, so a gate is now a node with its bag, field rules of both
sides are walked, and an approval's scope is evaluated.

### Only model-checked

No invariant or action property of a passing run is left to TLC alone.  What is:

- Liveness (`OrphanAnswered`, `EveryRequestEnds`, `Concludes`): out of this prover's reach.
- The four violated properties, of course: the findings are facts about an instance.

## 6. Plan

Modelling is done for the parts listed in section 2, and the safety properties are
proved.  What is left:

1. Composition: the theorems of `EffectProtocol` over `DurableLog` instead of a set of
   records, so that `ImplementsLogHolds` carries them to the file.
2. Rate-limit overrides, assertion contexts and registration by hand in `Engine`.

## 7. Not modelled, and why

The map covers the code that decides, waits or keeps state.  Most of the
repository's lines are something else: about half of the large files (`engine.rs`,
`config.rs`, `evaluator.rs`, `executor.rs`, `visitor.rs`, `parser.rs`, `resolver.rs`)
is their own test modules; much of the rest is documentation comments, the shapes
of configuration with their parsing and error texts, and constructors.  A model
of those would repeat them without a property to check.

- Parsing and validation of documents, the APL parser, CMF views, the attribute
  bridge and identity mapping are pure functions of text or messages: there is no
  order to get wrong, and their data is out of a model checker's reach.
- PDPs (CEL, OPA, Cedar), signature checks, moka, Limitador, Valkey and Vault are
  third-party; they appear as nondeterministic answers and failures.
- The HTTP transport, facade, benches, scanners and the differential PDP harness
  are I/O, text matching or tooling.
- In the modelled parts: contents of records, payloads, tokens and headers beyond
  what the properties tell apart; log messages; backoff delays; fire-and-forget
  tasks after their spawn (their result is read by nobody); rate-limit override
  instances and assertion contexts of the engine; jitter of lease renewal, which
  only brings it forward; rendering and signing of assertions.

Where a module simplifies what a reader might look for:

- `RouteRequest`: the Valkey session store may be given `ttl_seconds`, after which a
  session's labels expire (`builtins/src/session/valkey/store.rs:84`, 123).  The model
  is of a store without it, the default; with it `TaintDurable` holds for that long.
- `Evaluator`: `EvaluatePost` goes on with the bag of the phase before, as
  `evaluate_route` does; the gateway's handler builds a fresh one for each phase
  (`route_handler.rs:413`, 575), which is a route of the model whose first phase does
  nothing.
- `ExtensionTiers`: a plugin changes one slot per return, and one map of headers
  stands for those of request and response, which are merged alike.
- `Quota`: a debit whose call ended unconfirmed has been counted by then or never
  is, and a report without an identity, which debits nothing (`quota/handlers.rs:445`), is
  left out.
- `AuditChain`: a record that does not serialize after its position was taken
  (`emitter.rs:440`) would leave a gap; it is a JSON value already, whose
  serialization has no error to give.
- `SecretStore`: secrets are read in a fixed order grouped by provider; the code's
  order within a provider is by name (`secrets/store.rs:318`), one of these.
- `DpopReplay`: a record is dated by the guard's clock when the proof is consumed, as
  Valkey's `EX` does; the memory guard takes the clock read at the check
  (`dpop.rs:242`).  A guard of size zero, which consumes on every resolution
  (`dpop.rs:633`), is left out.
- `VaultDelegation`: arming the revocation is part of the login; its own failure
  (`delegator_vault/vault.rs:46`, `?` at `delegator.rs:281`), after which the token lives
  until its TTL, is not a step.
- `JwksRefresh`: keys, ETag and generation are one step; in the code they are three
  writes under the refresh lock (`resolver.rs:764`).
- `Elicitation`: the shared store keeps what it acknowledged.  A Valkey that fails
  over to a replica without the delete, or restarts from an older snapshot, brings a
  redeemed approval back; `docs/content/apl/elicitation.md:332` says so and which
  settings prevent it.
