--------------------------- MODULE SectionLayers ---------------------------
(***************************************************************************)
(* How the sections of a document stack onto one route (ppe-core           *)
(* config.rs): the step lists authentication and rate_limits, the          *)
(* assertions contract, what replace_inherited drops of them, and what the *)
(* load says about it.                                                     *)
(*                                                                         *)
(* A document is looked at for one chain at a time.  A step or a header    *)
(* entry is known by its section; header names differ in case only.        *)
(***************************************************************************)
EXTENDS Naturals, Sequences, SequencesExt, Positions

CONSTANTS Bundles,      \* the tag bundles
          Memberships,  \* what a route lists in meta.tags and then groups
          StepBlocks,   \* what a section may say of a step list
          HeaderBlocks  \* what a section may say of assertions

Sections == {"global", "default", "route"} \cup Bundles
Absent == [declared |-> FALSE]
SectionChains == {"authentication", "rate_limits", "assertions"}

ASSUME SectionAssumption ==
    /\ Bundles \cap {"global", "default", "route", "none"} = {}
    /\ Memberships \subseteq Seq(Bundles)
    /\ \A b \in StepBlocks :
          b = Absent \/ (b.declared = TRUE /\ b.steps \in Nat /\ b.replace \in BOOLEAN)
    /\ \A b \in HeaderBlocks : b = Absent \/ (b.declared = TRUE /\ b.replace \in BOOLEAN)

VARIABLES
    chain,    \* the chain the document is looked at for
    block,    \* block[s]: what section s says of it
    joined,   \* the bundles the route names, as written
    verdict,  \* of validate_config
    warned,   \* the section a load-time report names, or "none"
    inForce   \* what a request of the route resolves to

sectionVars == <<chain, block, joined, verdict, warned, inForce>>

Unresolved == [known |-> FALSE, steps |-> <<>>, headers |-> {}, strip |-> {}]

SectionTypeOK ==
    /\ chain \in SectionChains /\ joined \in Memberships
    /\ block \in [Sections -> IF chain = "assertions" THEN HeaderBlocks ELSE StepBlocks]
    /\ verdict \in {"unread", "accepted", "refused"}
    /\ warned \in Sections \cup {"none"}

SectionInit ==
    /\ chain \in SectionChains /\ joined \in Memberships
    /\ block \in [Sections -> IF chain = "assertions" THEN HeaderBlocks ELSE StepBlocks]
    /\ verdict = "unread" /\ warned = "none" /\ inForce = Unresolved

-----------------------------------------------------------------------------
(* Stacking.                                                               *)

\* route_bundle_names: a name in both spellings is one membership, the first.
RouteBundleNames(names) ==
    Picked(names, {i \in DOMAIN names : \A j \in 1 .. i - 1 : names[j] # names[i]})

\* section_layers: global, the entity default, the bundles, the route.
Layers(doc, names) ==
    LET all == <<"global", "default">> \o RouteBundleNames(names) \o <<"route">>
    IN  Picked(all, {i \in DOMAIN all : doc[all[i]].declared})

\* One round of fold_step_layers and of rate_limit_step_refs, and the lists
\* after none, one and every layer.
AddSteps(doc, s, steps) ==
    (IF doc[s].replace THEN <<>> ELSE steps) \o [i \in 1 .. doc[s].steps |-> s]
StackedSteps(doc, layers) ==
    LET stacked[k \in 0 .. Len(layers)] ==
            IF k = 0 THEN <<>> ELSE AddSteps(doc, layers[k], stacked[k - 1])
    IN  stacked
FoldStepLayers(doc, layers) == StackedSteps(doc, layers)[Len(layers)]

Lower(h) == IF h = "X" THEN "x" ELSE h

\* One round of resolve_assertions_for_route: a header name is the last level's
\* that has it, strip patterns unite.
AddAssertions(doc, s, contract) ==
    LET held == IF doc[s].replace THEN Unresolved ELSE contract
        named == {Lower(h) : h \in doc[s].headers}
    IN  [contract EXCEPT !.headers = {e \in held.headers : e.name \notin named}
                                         \cup {[name |-> h, from |-> s] : h \in named},
                         !.strip = held.strip \cup doc[s].strip]
Contracts(doc, layers) ==
    LET contract[k \in 0 .. Len(layers)] ==
            IF k = 0 THEN [Unresolved EXCEPT !.known = TRUE]
                     ELSE AddAssertions(doc, layers[k], contract[k - 1])
    IN  contract
ResolveAssertions(doc, layers) == Contracts(doc, layers)[Len(layers)]

-----------------------------------------------------------------------------
(* The load.                                                               *)

SameHeader(g, h) == Lower(g) = Lower(h)

\* reject_bundle_assertion_conflicts.
BundlesConflict(doc, names) ==
    \E a, b \in ToSet(RouteBundleNames(names)) :
        /\ a # b /\ doc[a].declared /\ doc[b].declared
        /\ \E g \in doc[a].headers, h \in doc[b].headers : SameHeader(g, h)

\* The layers whose flag drops something already stacked.
Dropping(doc, layers) ==
    {k \in DOMAIN layers : /\ doc[layers[k]].replace
                           /\ StackedSteps(doc, layers)[k - 1] # <<>>}
FirstOfLayers(layers, ks) ==
    IF ks = {} THEN "none" ELSE layers[CHOOSE k \in ks : \A j \in ks : k <= j]

RouteReplaces(doc) == doc["route"].declared /\ doc["route"].replace

\* declared_away_from_the_route.
AwayFromTheRoute(s) == s \in Bundles \cup {"default"}

\* dropped_inherited_authentication: silent when the route itself replaces.
DroppedAuthentication(doc, names) ==
    LET layers == Layers(doc, names) IN
    IF RouteReplaces(doc) THEN "none"
    ELSE FirstOfLayers(layers, {k \in Dropping(doc, layers) : AwayFromTheRoute(layers[k])})

\* dropped_inherited_rate_limits: the route's own flag is reported, first.
DroppedRateLimits(doc, names) ==
    LET layers == Layers(doc, names)
        drops == Dropping(doc, layers)
    IN  IF \E k \in drops : layers[k] = "route" THEN "route" ELSE FirstOfLayers(layers, drops)

\* Mutant: only headers count as content.
HasContentHeaders(c) == c.headers # {}
HasContent(c) == c.headers # {} \/ c.strip # {}

\* dropped_inherited_assertions_for.
DroppedAssertions(doc, names) ==
    LET layers == Layers(doc, names) IN
    IF RouteReplaces(doc) THEN "none"
    ELSE FirstOfLayers(layers,
            {k \in DOMAIN layers : /\ AwayFromTheRoute(layers[k]) /\ doc[layers[k]].replace
                                   /\ HasContent(Contracts(doc, layers)[k - 1])})

Dropped(which, doc, names) ==
    CASE which = "authentication" -> DroppedAuthentication(doc, names)
      [] which = "rate_limits"    -> DroppedRateLimits(doc, names)
      [] OTHER                    -> DroppedAssertions(doc, names)

Resolved(which, doc, names) ==
    IF which = "assertions" THEN ResolveAssertions(doc, Layers(doc, names))
    ELSE [Unresolved EXCEPT !.known = TRUE, !.steps = FoldStepLayers(doc, Layers(doc, names))]

LoadSections ==
    /\ verdict = "unread"
    /\ verdict' = IF chain = "assertions" /\ BundlesConflict(block, joined) THEN "refused"
                                                                      ELSE "accepted"
    /\ warned' = Dropped(chain, block, joined)
    /\ UNCHANGED <<chain, block, joined, inForce>>

RequestResolves ==
    /\ verdict = "accepted" /\ ~inForce.known
    /\ inForce' = Resolved(chain, block, joined)
    /\ UNCHANGED <<chain, block, joined, verdict, warned>>

SectionNext == LoadSections \/ RequestResolves
SectionSpec == SectionInit /\ [][SectionNext]_sectionVars

-----------------------------------------------------------------------------
(* Properties.                                                             *)

\* The number of steps the sections declare for the route.
StepSums(doc, layers) ==
    LET sum[k \in 0 .. Len(layers)] ==
            IF k = 0 THEN 0 ELSE sum[k - 1] + doc[layers[k]].steps
    IN  sum
DeclaredSteps(doc, names) == StepSums(doc, Layers(doc, names))[Len(Layers(doc, names))]

\* config.rs names "every route that loses steps that way": a route that runs
\* fewer authentication steps than its sections declare, by another section's
\* flag, is reported, and no other is.
AuthenticationLossReported ==
    chain = "authentication" /\ inForce.known =>
        (warned # "none" <=> Len(inForce.steps) < DeclaredSteps(block, joined) /\ ~RouteReplaces(block))

\* A route that loses rate limits is reported whoever drops them, and the
\* report names a section whose flag is set.
LimitLossReported ==
    chain = "rate_limits" /\ inForce.known =>
        /\ warned # "none" <=> Len(inForce.steps) < DeclaredSteps(block, joined)
        /\ warned # "none" => block[warned].replace

\* A route that asserts or strips less than its sections declare, by another
\* section's flag, is reported.
AssertionLossReported ==
    LET declared == ToSet(Layers(block, joined))
        names == {Lower(h) : h \in UNION {block[s].headers : s \in declared}}
        strips == UNION {block[s].strip : s \in declared}
    IN  /\ chain = "assertions" /\ inForce.known /\ ~RouteReplaces(block)
        /\ \/ ~(names \subseteq {e.name : e \in inForce.headers})
           \/ ~(strips \subseteq inForce.strip)
        => warned # "none"

\* "Bundles have no order among themselves": in a document the load accepts,
\* with no flag on a bundle, the contract of a route does not depend on the
\* order in which it names them.
BundleOrderFree ==
    /\ chain = "assertions" /\ inForce.known
    /\ \A b \in Bundles : block[b].declared => ~block[b].replace
    => \A m \in Memberships : ToSet(m) = ToSet(joined) => ResolveAssertions(block, Layers(block, m)) = inForce

\* What a route runs is what its sections declare, or the load says which
\* section took something away; and the order of bundles is of no account.
ContractAsDeclared ==
    /\ AuthenticationLossReported /\ LimitLossReported /\ AssertionLossReported
    /\ BundleOrderFree
=============================================================================
