--------------------------- MODULE PolicyInstall ---------------------------
(***************************************************************************)
(* How a loaded document becomes the policy that requests meet: the walk   *)
(* of AplConfigVisitor over its sections (ppe-apl-runtime visitor.rs,      *)
(* driven by load_config_yaml), the PDP router it fills (pdp_router.rs),   *)
(* the handlers it annotates routes with, and the dispatch plans those     *)
(* build on their first request (dispatch_plan.rs).                        *)
(*                                                                         *)
(* One visitor serves every load.  A section of the n-th load is known by  *)
(* n, so a handler made of several loads can be told.  The documents have  *)
(* one route, in one bundle.                                               *)
(***************************************************************************)
EXTENDS Naturals, FiniteSets

CONSTANTS PolicyDocs,   \* PolicyDocs[d]: the sections with a policy, and pdps
          Dialects,
          InstallReqs,  \* bound: requests
          MaxLoads      \* bound

Sections == {"global", "default", "bundle", "route"}

ASSUME InstallAssumption ==
    /\ \A d \in DOMAIN PolicyDocs :
          /\ PolicyDocs[d].sections \subseteq Sections
          /\ PolicyDocs[d].pdps \subseteq Dialects
          /\ PolicyDocs[d].pdps # {} => "global" \in PolicyDocs[d].sections
    /\ MaxLoads \in Nat

VARIABLES
    load,      \* the walk: number of the load, its document, step
    layers,    \* VisitorState: the load each stored layer is from, 0 if none
    codePdps,  \* dialects the host registered a resolver for
    configPdps, \* configPdps[x]: the load its config-owned resolver is from, or 0
    building,  \* dialects whose resolvers this walk built, before the swap
    handlers,  \* the annotations of the current snapshot, by entity
    configGen, \* config_generation
    cellGen,   \* DispatchCache: generation of the route's cell
    plans,     \* plans[g]: who builds the plan of that cell, or the load it is of
    ireq       \* ireq[r]: step, handler, generation it read, its cell, plan

installVars == <<load, layers, codePdps, configPdps, building, handlers, configGen, cellGen,
                 plans, ireq>>
loadVars == <<load, layers, codePdps, configPdps, building, handlers>>

NoHandler == [load |-> 0]
Handler == [load : Nat, stack : [Sections -> Nat], pdps : [Dialects -> Nat], code : SUBSET Dialects]
Entities == {"catchall", "tool"}
Unbuilt == [at |-> "empty", load |-> 0]
Generations == 0 .. 4 * MaxLoads
IdleInstall == [at |-> "idle", handler |-> NoHandler, gen |-> 0, cell |-> 0, plan |-> 0]
Steps == {"idle", "plugins", "global", "swap", "default", "bundle", "route", "complete"}

InstallTypeOK ==
    /\ load.n \in 0 .. MaxLoads /\ load.at \in Steps
    /\ layers \in [Sections \ {"route"} -> 0 .. MaxLoads]
    /\ configPdps \in [Dialects -> 0 .. MaxLoads]
    /\ codePdps \subseteq Dialects /\ building \subseteq Dialects
    /\ \A e \in Entities : handlers[e] = NoHandler \/ handlers[e] \in Handler
    /\ configGen \in Generations /\ cellGen \in 0 .. configGen

InstallInit ==
    /\ load = [n |-> 0, at |-> "idle", doc |-> "none"]
    /\ layers = [s \in Sections \ {"route"} |-> 0]
    /\ codePdps = {} /\ configPdps = [x \in Dialects |-> 0] /\ building = {}
    /\ handlers = [e \in Entities |-> NoHandler]
    /\ configGen = 0 /\ cellGen = 0
    /\ plans = [g \in Generations |-> Unbuilt]
    /\ ireq = [r \in InstallReqs |-> IdleInstall]

Doc == PolicyDocs[load.doc]
WalkGoes(step) == load' = [load EXCEPT !.at = step]

\* load_config_with publishes the document with no annotations, then the walk
\* begins; visit_plugins starts the registry and the tally over.
LoadPublishes(d) ==
    /\ load.at = "idle" /\ load.n < MaxLoads
    /\ load' = [n |-> load.n + 1, at |-> "plugins", doc |-> d]
    /\ handlers' = [e \in Entities |-> NoHandler]
    /\ configGen' = configGen + 1
    /\ UNCHANGED <<layers, codePdps, configPdps, building, cellGen, plans, ireq>>

VisitPlugins ==
    /\ load.at = "plugins" /\ WalkGoes("global")
    /\ UNCHANGED <<layers, codePdps, configPdps, building, handlers, configGen, cellGen, plans,
                   ireq>>

\* install_config_pdps builds every entry of global.pdp first, leaving out the
\* dialects the host owns by then.
BuildPdps ==
    /\ load.at = "global" /\ WalkGoes("swap")
    /\ building' = Doc.pdps \ codePdps
    /\ UNCHANGED <<layers, codePdps, configPdps, handlers, configGen, cellGen, plans, ireq>>

\* set_config_resolvers: the whole config-owned set, without what the host owns
\* now; a dialect the document omits is dropped.
SetConfigResolvers ==
    configPdps' = [x \in Dialects |-> IF x \in building \ codePdps THEN load.n ELSE 0]

\* What a document without a policy term leaves of the resolvers of the last.
\* Mutant: visit_global returns before it drops them.
NoTermsKeepsPdps == UNCHANGED configPdps
NoTerms == configPdps' = [x \in Dialects |-> 0]

\* apply_layer, from the least specific: the stored layers and the route's own.
Stack(own) == [s \in Sections |-> IF s = "route" THEN own ELSE layers[s]]
Installed(stack, pdps) ==
    [load |-> load.n, stack |-> stack, pdps |-> pdps, code |-> codePdps]

\* The rest of visit_global: the entity-less handler, and the layer stored for
\* the routes.  Without a policy term it returns early.
VisitGlobal ==
    /\ load.at = "swap" /\ WalkGoes("default")
    /\ building' = {}
    /\ \/ /\ "global" \in Doc.sections
          /\ SetConfigResolvers
          /\ handlers' = [handlers EXCEPT !["catchall"] =
                Installed([s \in Sections |-> IF s = "global" THEN load.n ELSE 0], configPdps')]
          /\ configGen' = configGen + 1
          /\ layers' = [layers EXCEPT !["global"] = load.n]
       \/ /\ "global" \notin Doc.sections
          /\ NoTerms
          /\ UNCHANGED <<handlers, configGen, layers>>
    /\ UNCHANGED <<codePdps, cellGen, plans, ireq>>

\* visit_default and visit_policy_bundle.
VisitSection(s, then) ==
    /\ load.at = s /\ WalkGoes(then)
    /\ layers' = [layers EXCEPT ![s] = IF s \in Doc.sections THEN load.n ELSE @]
    /\ UNCHANGED <<codePdps, configPdps, building, handlers, configGen, cellGen, plans, ireq>>

\* visit_route: a handler when some layer declares a phase.
VisitRoute ==
    /\ load.at = "route" /\ WalkGoes("complete")
    /\ LET stack == Stack(IF "route" \in Doc.sections THEN load.n ELSE 0) IN
       \/ /\ \E s \in Sections : stack[s] # 0
          /\ handlers' = [handlers EXCEPT !["tool"] = Installed(stack, configPdps)]
          /\ configGen' = configGen + 1
       \/ /\ \A s \in Sections : stack[s] = 0
          /\ UNCHANGED <<handlers, configGen>>
    /\ UNCHANGED <<layers, codePdps, configPdps, building, cellGen, plans, ireq>>

\* visit_complete, or a visitor that rejects a section: what the walk did by
\* then stays.
WalkReturns ==
    /\ load.at = "complete" /\ WalkGoes("idle")
    /\ UNCHANGED <<layers, codePdps, configPdps, building, handlers, configGen, cellGen, plans,
                   ireq>>
VisitorRejects ==
    /\ load.at \notin {"idle", "plugins"} /\ WalkGoes("idle")
    /\ building' = {}
    /\ \/ load.at = "swap" /\ SetConfigResolvers
       \/ UNCHANGED configPdps
    /\ UNCHANGED <<layers, codePdps, handlers, configGen, cellGen, plans, ireq>>

\* The host's register_pdp, at any time.
RegisterPdp(x) ==
    /\ x \notin codePdps
    /\ codePdps' = codePdps \cup {x}
    /\ configPdps' = [configPdps EXCEPT ![x] = 0]
    /\ UNCHANGED <<load, layers, building, handlers, configGen, cellGen, plans, ireq>>

-----------------------------------------------------------------------------
(* A request for the tool.                                                 *)

RouteResolves(r) ==
    /\ ireq[r].at = "idle" /\ handlers["tool"] # NoHandler
    /\ ireq' = [ireq EXCEPT ![r].at = "resolved", ![r].handler = handlers["tool"]]
    /\ UNCHANGED <<loadVars, configGen, cellGen, plans>>

\* get_or_build reads the generation.
ReadGeneration(r) ==
    /\ ireq[r].at = "resolved"
    /\ ireq' = [ireq EXCEPT ![r].at = "lookup", ![r].gen = configGen]
    /\ UNCHANGED <<loadVars, configGen, cellGen, plans>>

\* plan_cell: the cell of the generation read, or else of the current one.
PlanCell(r) == IF cellGen = ireq[r].gen THEN cellGen ELSE configGen

FindCell(r) ==
    /\ ireq[r].at = "lookup"
    /\ cellGen' = PlanCell(r)
    /\ ireq' = [ireq EXCEPT ![r].at = "cell", ![r].cell = cellGen']
    /\ UNCHANGED <<loadVars, configGen, plans>>

\* OnceCell::get_or_init: one builder, the others wait.
MayBuild(g) == plans[g].at = "empty"

BeginBuild(r) ==
    /\ ireq[r].at = "cell" /\ MayBuild(ireq[r].cell)
    /\ plans' = [plans EXCEPT ![ireq[r].cell].at = "building"]
    /\ ireq' = [ireq EXCEPT ![r].at = "building"]
    /\ UNCHANGED <<loadVars, configGen, cellGen>>

\* RouteDispatchPlan::build, from the builder's own route and registry.
EndBuild(r) ==
    /\ ireq[r].at = "building"
    /\ plans' = [plans EXCEPT ![ireq[r].cell] = [at |-> "built", load |-> ireq[r].handler.load]]
    /\ ireq' = [ireq EXCEPT ![r].at = "cell"]
    /\ UNCHANGED <<loadVars, configGen, cellGen>>

\* The builder's request is dropped: a waiter may build.
BuilderDropped(r) ==
    /\ ireq[r].at = "building"
    /\ plans' = [plans EXCEPT ![ireq[r].cell] = Unbuilt]
    /\ ireq' = [ireq EXCEPT ![r] = IdleInstall]
    /\ UNCHANGED <<loadVars, configGen, cellGen>>

Dispatches(r) ==
    /\ ireq[r].at = "cell" /\ plans[ireq[r].cell].at = "built"
    /\ ireq' = [ireq EXCEPT ![r].at = "done", ![r].plan = plans[ireq[r].cell].load]
    /\ UNCHANGED <<loadVars, configGen, cellGen, plans>>

InstallNext ==
    \/ \E d \in DOMAIN PolicyDocs : LoadPublishes(d)
    \/ VisitPlugins \/ BuildPdps \/ VisitGlobal
    \/ VisitSection("default", "bundle") \/ VisitSection("bundle", "route")
    \/ VisitRoute \/ WalkReturns \/ VisitorRejects
    \/ \E x \in Dialects : RegisterPdp(x)
    \/ \E r \in InstallReqs :
          \/ RouteResolves(r) \/ ReadGeneration(r) \/ FindCell(r)
          \/ BeginBuild(r) \/ EndBuild(r) \/ BuilderDropped(r) \/ Dispatches(r)

InstallSpec == InstallInit /\ [][InstallNext]_installVars

-----------------------------------------------------------------------------
(* Properties.                                                             *)

\* visitor.rs: a resolver of the previous load must not go on "answering
\* requests under the new config".  A handler asks the host's resolver, or one
\* its own document declares, however registrations fall between the steps.
PdpsOfOneLoad ==
    \A e \in Entities : handlers[e] # NoHandler =>
        \A x \in Dialects :
            /\ handlers[e].pdps[x] \in {0, handlers[e].load}
            /\ x \in handlers[e].code => handlers[e].pdps[x] = 0

\* pdp_router.rs: the config-owned set "never contains a dialect that `code`
\* already owns", also when the host registers while a walk has built its own.
HostOwnsItsDialects == \A x \in codePdps : configPdps[x] = 0

\* Concurrent first requests share one plan, and the stateful instances in it:
\* while one request builds it nobody else does.
OneBuilder ==
    \A r, s \in InstallReqs :
        ireq[r].at = "building" /\ ireq[s].at = "building" /\ ireq[r].cell = ireq[s].cell => r = s

\* dispatch_plan.rs: a request that observed an older generation must "never
\* evict that newer state": the cell installed is as new as any in use.
NewerCellKept ==
    \A r \in InstallReqs : ireq[r].at \in {"cell", "building"} => ireq[r].cell <= cellGen

\* A handler asks only PDPs of its own load or the host's, the host keeps the
\* dialects it registered, and a cell of plans is filled by one request at a time
\* and never put in place of a newer one, though loads, registrations and first
\* requests overlap.  Of which load the plan in a cell is, it does not say: a
\* request with the handler of the document before may fill it.
InstalledWhole == PdpsOfOneLoad /\ HostOwnsItsDialects /\ OneBuilder /\ NewerCellKept

\* visitor.rs: a route's policy is stacked from global, default, bundle and
\* route, and "the policy chain and the authentication chain cannot disagree
\* about the membership": every layer of a handler is of its own document.
LayersOfOneLoad ==
    \A e \in Entities : handlers[e] # NoHandler =>
        \A s \in Sections : handlers[e].stack[s] \in {0, handlers[e].load}
=============================================================================
