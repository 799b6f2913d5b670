---------------------------- MODULE RouteChoice ----------------------------
(***************************************************************************)
(* Which route governs a request (ppe-core config.rs, resolve_route), and  *)
(* which policy handler it is dispatched to (engine.rs, the annotation     *)
(* lookup of filter_entries_by_route), two searches over one route table.  *)
(*                                                                         *)
(* "tool" stands for the four selectors by name, which share their code.   *)
(* A path is a sequence of characters; a pattern, the names it matches.    *)
(***************************************************************************)
EXTENDS Naturals, FiniteSets, Sequences, SequencesExt

CONSTANTS Selectors,     \* Selectors[type]: the selectors routes are given
          Queries,       \* the requests
          Patterns,      \* Patterns[p]: the names pattern p matches, and whether it
                         \* has a star or question marks only
          ScopeNames,    \* of routes; "none" is no scope
          ExactPathScore \* bound: stands for usize::MAX / 2

Types == {"tool", "http"}
NoScope == "none"

ASSUME RouteChoiceAssumption ==
    /\ \A t \in Types : \A s \in Selectors[t] :
          t = "http" => s.kind \in {"exact", "prefix"}
    /\ ExactPathScore \in Nat /\ ExactPathScore > 100000
    /\ NoScope \in ScopeNames

VARIABLES
    table,   \* the routes, in declaration order
    loaded,  \* what validate_config made of them
    served   \* the last request: the route it resolved to and the handler it met

choiceVars == <<table, loaded, served>>

Unserved == [query |-> [type |-> "none"], route |-> 0, handler |-> 0]
RoutesOf(t) == [type : {t}, sel : Selectors[t], scope : ScopeNames, policy : BOOLEAN]
Tables == UNION {[1 .. 2 -> RoutesOf(t)] : t \in Types}

ChoiceTypeOK ==
    /\ table \in Tables /\ loaded \in {"unread", "accepted", "refused"}
    /\ served.route \in 0 .. 2 /\ served.handler \in 0 .. 2

ChoiceInit == table \in Tables /\ loaded = "unread" /\ served = Unserved

-----------------------------------------------------------------------------
(* Matching and scoring.                                                   *)

SPECIFICITY_EXACT_NAME == 1000
SPECIFICITY_NAME_LIST == 500
SPECIFICITY_GLOB == 300
SPECIFICITY_WILDCARD == 0
SPECIFICITY_PATH_PREFIX_STEP == 1000
SPECIFICITY_METHOD_NARROWED == 50
SPECIFICITY_SCOPE_MATCH == 100

IsGlob(pattern) == pattern \in DOMAIN Patterns
HasStar(pattern) == IsGlob(pattern) /\ Patterns[pattern].star

NameMatches(sel, name) ==
    IF sel.kind = "list" THEN name \in sel.names
    ELSE name = sel.pattern \/ (IsGlob(sel.pattern) /\ name \in Patterns[sel.pattern].names)

ScoreEntityMatch(sel) ==
    IF sel.kind = "list" THEN SPECIFICITY_NAME_LIST
    ELSE IF sel.pattern = "*" THEN SPECIFICITY_WILDCARD
    ELSE IF HasStar(sel.pattern) THEN SPECIFICITY_GLOB
    ELSE SPECIFICITY_EXACT_NAME

IsAbsolute(path) == path # <<>> /\ Head(path) = "/"
WithoutTrailingSlash(path) ==
    IF path # <<>> /\ Last(path) = "/" THEN Front(path) ELSE path

PathPrefixMatches(path, prefix) ==
    LET trimmed == WithoutTrailingSlash(prefix) IN
    \/ trimmed = <<>> \/ path = trimmed
    \/ IsPrefix(trimmed \o <<"/">>, path)

PathPrefixSpecificity(prefix) ==
    LET trimmed == WithoutTrailingSlash(prefix) IN IF trimmed = <<>> THEN 1 ELSE Len(trimmed)

\* to_ascii_uppercase, on the methods the instances use.
Upper(m) == IF m = "get" THEN "GET" ELSE m
NormalizedMethods(sel) == {Upper(m) : m \in sel.methods}

HttpMethodMatches(sel, method) == sel.methods = {} \/ method \in NormalizedMethods(sel)

MethodNarrowingBonus(sel) ==
    LET n == Cardinality(NormalizedMethods(sel)) IN
    CASE n = 0 -> 0
      [] n >= SPECIFICITY_METHOD_NARROWED -> 1
      [] OTHER -> SPECIFICITY_METHOD_NARROWED - (n - 1)

HttpMatches(sel, q) ==
    /\ IsAbsolute(q.path) /\ HttpMethodMatches(sel, q.method)
    /\ IF sel.kind = "prefix" THEN PathPrefixMatches(q.path, sel.prefix) ELSE q.path \in sel.paths

ScoreHttpMatch(sel) ==
    MethodNarrowingBonus(sel)
        + (IF sel.kind = "prefix"
           THEN PathPrefixSpecificity(sel.prefix) * SPECIFICITY_PATH_PREFIX_STEP
           ELSE ExactPathScore)

InScope(route, q) == route.scope \in {NoScope, q.scope}
RouteMatches(route, q) ==
    /\ route.type = q.type /\ InScope(route, q)
    /\ IF q.type = "http" THEN HttpMatches(route.sel, q) ELSE NameMatches(route.sel, q.name)

Total(route) ==
    (IF route.type = "http" THEN ScoreHttpMatch(route.sel) ELSE ScoreEntityMatch(route.sel))
        + (IF route.scope = NoScope THEN 0 ELSE SPECIFICITY_SCOPE_MATCH)

\* resolve_route: the highest score, the first declared among equals; 0 if none.
ResolveRoute(q) ==
    LET matching == {i \in DOMAIN table : RouteMatches(table[i], q)} IN
    IF matching = {} THEN 0
    ELSE CHOOSE i \in matching : \A j \in matching :
            \/ Total(table[i]) > Total(table[j])
            \/ Total(table[i]) = Total(table[j]) /\ i <= j

-----------------------------------------------------------------------------
(* Names.  A rendered name is its parts: methods are tokens and a path     *)
(* starts with a slash, so the text determines them.                       *)

\* Mutant: the name of an exact path leaves out the methods.
RenderedExactNameBare(path, methods) == <<"exact", path, {}>>
RenderedExactName(path, methods) == <<"exact", path, methods>>
RenderedPrefixName(prefix, methods) == <<"prefix", prefix, methods>>

\* route_entity_identity.
RouteNames(route) ==
    LET sel == route.sel IN
    CASE sel.kind = "list"   -> sel.names
      [] sel.kind = "single" -> {sel.pattern}
      [] sel.kind = "prefix" -> {RenderedPrefixName(sel.prefix, NormalizedMethods(sel))}
      [] OTHER -> {RenderedExactName(p, NormalizedMethods(sel)) : p \in sel.paths}

\* matched_selector_name and matched_http_name.
MatchedName(route, q) ==
    LET sel == route.sel IN
    CASE sel.kind = "list"   -> q.name
      [] sel.kind = "single" -> sel.pattern
      [] sel.kind = "prefix" -> RenderedPrefixName(sel.prefix, NormalizedMethods(sel))
      [] OTHER -> RenderedExactName(q.path, NormalizedMethods(sel))

\* validate_config: one name per entity type and scope is one route's.
ClaimedTwice ==
    \E i, j \in DOMAIN table :
        /\ i # j /\ table[i].type = table[j].type /\ table[i].scope = table[j].scope
        /\ RouteNames(table[i]) \cap RouteNames(table[j]) # {}

LoadRoutes ==
    /\ loaded = "unread"
    /\ loaded' = IF ClaimedTwice THEN "refused" ELSE "accepted"
    /\ UNCHANGED <<table, served>>

-----------------------------------------------------------------------------
(* The handler.  Every route with a policy is annotated under its names    *)
(* and its scope.                                                          *)

\* The route annotated under a name and a scope, or 0.
Annotated(name, scope) ==
    LET at == {i \in DOMAIN table : /\ table[i].policy /\ table[i].scope = scope
                                    /\ name \in RouteNames(table[i])}
    IN  IF at = {} THEN 0 ELSE CHOOSE i \in at : TRUE

\* The scoped lookup first, then the unscoped one.
Lookup(name, scope) ==
    IF scope # NoScope /\ Annotated(name, scope) # 0 THEN Annotated(name, scope)
                                                     ELSE Annotated(name, NoScope)

IsGlobSelector(sel) == sel.kind = "single" /\ IsGlob(sel.pattern)

\* A request by name looks under its own name, and when nothing is there and
\* the table has a glob, under the name it resolves to.
HandlerByName(q) ==
    LET direct == Lookup(q.name, q.scope)
        route == ResolveRoute(q)
    IN  IF direct # 0 \/ route = 0 \/ ~\E i \in DOMAIN table : IsGlobSelector(table[i].sel)
        THEN direct
        ELSE Lookup(MatchedName(table[route], q), q.scope)

\* A generic HTTP request looks under the name it resolves to.  (One that
\* resolves to nothing meets the catch-all, which is no route's.)
HandlerByPath(q) ==
    LET route == ResolveRoute(q) IN
    IF route = 0 THEN 0 ELSE Lookup(MatchedName(table[route], q), q.scope)

Serve(q) ==
    /\ loaded = "accepted" /\ served = Unserved
    /\ \A i \in DOMAIN table : table[i].type = q.type
    /\ served' = [query |-> q, route |-> ResolveRoute(q),
                  handler |-> IF q.type = "http" THEN HandlerByPath(q) ELSE HandlerByName(q)]
    /\ UNCHANGED <<table, loaded>>

ChoiceNext == LoadRoutes \/ \E q \in Queries : Serve(q)
ChoiceSpec == ChoiceInit /\ [][ChoiceNext]_choiceVars

-----------------------------------------------------------------------------
(* What the scores take for granted of the selectors: the names of a list  *)
(* are exact names (StringOrList::List), a pattern has a star, and no      *)
(* prefix is so long that its score reaches that of an exact path.         *)
SelectorsAsMeant ==
    /\ \A s \in Selectors["tool"] :
          s.kind = "single" \/ (s.kind = "list" /\ s.names \cap DOMAIN Patterns = {})
    /\ \A p \in DOMAIN Patterns : Patterns[p].star = TRUE
    /\ \A s \in Selectors["http"] :
          /\ IsFiniteSet(NormalizedMethods(s))
          /\ s.kind = "prefix" =>
                /\ PathPrefixSpecificity(s.prefix) \in Nat
                /\ PathPrefixSpecificity(s.prefix) * SPECIFICITY_PATH_PREFIX_STEP
                      + SPECIFICITY_SCOPE_MATCH + SPECIFICITY_METHOD_NARROWED < ExactPathScore

-----------------------------------------------------------------------------
(* Properties.                                                             *)

\* What the weights are meant to encode: exact before prefix (before list and
\* glob), then the longer prefix, then the scope, then fewer methods.
Specificity(route) ==
    LET sel == route.sel
        scoped == IF route.scope = NoScope THEN 0 ELSE 1
    IN  CASE sel.kind = "exact"  -> <<4, 0, scoped, MethodNarrowingBonus(sel)>>
          [] sel.kind = "prefix" ->
                <<3, PathPrefixSpecificity(sel.prefix), scoped, MethodNarrowingBonus(sel)>>
          [] sel.kind = "list"   -> <<3, 0, scoped, 0>>
          [] OTHER ->
                <<IF sel.pattern = "*" THEN 1 ELSE IF IsGlob(sel.pattern) THEN 2 ELSE 4,
                  0, scoped, 0>>
MoreSpecific(a, b) ==
    \E k \in 1 .. 4 : a[k] > b[k] /\ \A l \in 1 .. (k - 1) : a[l] = b[l]

\* The summed score orders matching routes as their parts do: no bonus of a
\* lower rank outweighs a difference in a higher one, and the first declared
\* wins a tie.
MostSpecificWins ==
    served.route # 0 =>
        \A j \in DOMAIN table : RouteMatches(table[j], served.query) =>
            LET w == Specificity(table[served.route])  c == Specificity(table[j]) IN
            MoreSpecific(w, c) \/ (w = c /\ served.route <= j)

\* A request is never dispatched to the policy of a route that does not match
\* it: not its path, not its method, not its scope.
HandlerMatches ==
    served.handler # 0 => RouteMatches(table[served.handler], served.query)

\* A request whose route has a policy meets a policy, however the route names
\* it: under a glob, in a list, by a narrowed path.
PolicyReached ==
    served.route # 0 /\ table[served.route].policy => served.handler # 0

\* engine.rs: the scoped lookup with its fallback "matches the specificity
\* tiebreaker `resolve_route` uses": a request meets the policy of the route
\* whose authentication and assertions apply to it, when that route has one.
HandlerOfItsRoute ==
    served.route # 0 /\ table[served.route].policy => served.handler = served.route

\* A request is given to the most specific route, and to a policy whose route
\* covers it, wherever its route has one.
RouteChosen == MostSpecificWins /\ HandlerMatches /\ PolicyReached
=============================================================================
