----------------------------- MODULE Evaluator -----------------------------
(***************************************************************************)
(* The APL evaluator (ppe-apl-core: evaluator.rs, route.rs, rules.rs):     *)
(* three-valued conditions, field pipelines, and the walk of a phase's     *)
(* effect tree, whose parallel groups run their branches as tasks.         *)
(*                                                                         *)
(* A node carries what its plugin, PDP, delegator or approver answers.     *)
(* Integers are scaled: ExactBound stands for 2^53, above it an f64 holds  *)
(* every second integer.  A dispatch yields the set of states it may end   *)
(* in, as a branch that a sibling's deny cancels may or may not be done.   *)
(* Recursion over a tree is a function of its nodes, which are given level *)
(* by level: a node holds nodes of the levels before its own.              *)
(***************************************************************************)
EXTENDS Integers, Sequences, Functions

CONSTANTS PolicyRoutes,     \* routes: field rules and effects before and after the call
          Attributes,       \* values the attribute compared may have
          Conditions,       \* expressions evaluated on their own
          ExpressionLevels, \* the expressions that occur, by levels
          EffectLevels,     \* the effects that occur, by levels
          PolicyLabels,     \* labels that taints, plugins and restrictions give
          ExactBound        \* F64_EXACT_INT_BOUND, scaled

VARIABLES
    route,  \* the route
    attr,   \* the attribute compared
    cond,   \* an expression
    phase,  \* the phases evaluated: none, pre, post
    walk    \* how the evaluation stands, and what it has gathered

evaluatorVars == <<route, attr, cond, phase, walk>>

-----------------------------------------------------------------------------
(* Expressions, stages and effects (rules.rs, pipeline.rs).                *)

Expressions == UNION Range(ExpressionLevels)
Effects == UNION Range(EffectLevels)

Values == [t : {"int", "numeral", "float", "decimal", "text", "absent"}, n : Int]

Always == [op |-> "always"]

ExpressionShapes ==
    [op : {"always", "granted"}]
    \cup [op : {"eq", "neq", "gt", "lt"}, lit : Values]
    \cup [op : {"and", "or"}, parts : Seq(Expressions)]
    \cup [op : {"not"}, inner : Expressions]

Operands(e) ==
    CASE e.op \in {"and", "or"} -> {e.parts[i] : i \in DOMAIN e.parts}
      [] e.op = "not" -> {e.inner}
      [] OTHER -> {}

\* A stage: a check that holds or not, a rewrite (mask, hash, scan with
\* redaction), a conditional redact, omit, taint or a plugin.
Stages ==
    [stage : {"check"}, ok : BOOLEAN]
    \cup [stage : {"rewrite", "omit"}]
    \cup [stage : {"redact"}, cond : Expressions]
    \cup [stage : {"taint"}, label : PolicyLabels]
    \cup [stage : {"plugin"}, ans : {"allow", "deny", "error"}, label : PolicyLabels]

FieldRules == [kind : {"field"}, side : {"args", "result"}, stages : Seq(Stages), expands : BOOLEAN]

EffectShapes ==
    [kind : {"allow", "deny"}]
    \cup [kind : {"taint"}, label : PolicyLabels]
    \cup [kind : {"plugin"}, ans : {"allow", "deny", "error", "panic"}, label : PolicyLabels]
    \cup [kind : {"delegate"}, ans : {"allow", "deny"}, onError : {"deny", "continue"}]
    \cup [kind : {"elicit"}, ans : {"approved", "pending", "denied", "unavailable", "failed"},
          scope : Expressions, onError : {"deny", "continue"}]
    \cup [kind : {"restrict"}, ans : {"resolved", "empty", "unresolvable"}, label : PolicyLabels]
    \cup FieldRules
    \cup [kind : {"sequential", "parallel"}, body : Seq(Effects)]
    \cup [kind : {"when"}, cond : Expressions, body : Seq(Effects)]
    \cup [kind : {"pdp"}, ans : {"allow", "deny", "error"}, onAllow : Seq(Effects),
          onDeny : Seq(Effects)]

Children(e) ==
    CASE e.kind \in {"sequential", "parallel", "when"} -> e.body
      [] e.kind = "pdp" -> e.onAllow \o e.onDeny
      [] OTHER -> <<>>

\* What the levels before level n hold.
Below(levels, n) == UNION {levels[m] : m \in 1 .. n - 1}

ASSUME EvaluatorAssumption ==
    /\ ExactBound \in Nat /\ ExactBound % 4 = 0
    /\ Attributes \subseteq Values
    /\ ExpressionLevels \in Seq(SUBSET ExpressionShapes)
    /\ \A n \in DOMAIN ExpressionLevels : \A e \in ExpressionLevels[n] :
         Operands(e) \subseteq Below(ExpressionLevels, n)
    /\ Conditions \cup {Always} \subseteq Expressions
    /\ EffectLevels \in Seq(SUBSET EffectShapes)
    /\ \A n \in DOMAIN EffectLevels : \A e \in EffectLevels[n] :
         Range(Children(e)) \subseteq Below(EffectLevels, n)
    /\ PolicyRoutes \subseteq [args : Seq(Effects \cap FieldRules), pre : Seq(Effects),
                               result : Seq(Effects \cap FieldRules), post : Seq(Effects)]

-----------------------------------------------------------------------------
(* Conditions.                                                             *)

\* The attribute compared, and whether a delegation was granted.
AttributeBags == [attr : Attributes, granted : BOOLEAN]
Truths == {"true", "false", "unorderable"}

AsF64(n) ==
    LET away == n % 4 IN
    IF n \in -ExactBound .. ExactBound \/ away \in {0, 2} THEN n
    ELSE IF away = 1 THEN n - 1 ELSE n + 1

\* coerce_f64_attr and coerce_f64_lit, as the set of what they return: a
\* numeral is a string that parses as i64, a decimal one that parses as f64.
Coerce(v) ==
    CASE v.t \in {"int", "numeral"} -> {v.n} \cap -ExactBound .. ExactBound
      [] v.t = "float" -> {v.n}
      [] v.t = "decimal" -> {AsF64(v.n)}
      [] OTHER -> {}

Holds(op, a, b) == IF op = "gt" THEN a > b ELSE a < b
Truth(b) == IF b THEN "true" ELSE "false"

OrderCompare(op, v, lit) ==
    IF v.t = "int" /\ lit.t = "int" THEN Truth(Holds(op, v.n, lit.n))
    ELSE IF Coerce(v) = {} \/ Coerce(lit) = {} THEN "unorderable"
    ELSE Truth(\E a \in Coerce(v), b \in Coerce(lit) : Holds(op, a, b))

ValuesEq(v, lit) ==
    CASE v.t = lit.t -> v = lit
      [] {v.t, lit.t} = {"int", "float"} -> AsF64(v.n) = AsF64(lit.n)
      [] OTHER -> FALSE

EvalCondition(c, bag) ==
    LET v == bag.attr IN
    CASE c.op = "granted" -> Truth(bag.granted)
      [] c.op = "eq" -> Truth(v.t # "absent" /\ ValuesEq(v, c.lit))
      [] c.op = "neq" -> Truth(v.t = "absent" \/ ~ValuesEq(v, c.lit))
      [] OTHER -> IF v.t = "absent" THEN "false" ELSE OrderCompare(c.op, v, c.lit)

\* Mutant: an unorderable operand ends the loop.
CombineAborts(settles, vals) ==
    LET after[i \in 0 .. Len(vals)] ==
            IF i = 0 THEN Truth(settles = "false")
            ELSE LET sofar == after[i - 1] IN
                 IF sofar \in {settles, "unorderable"} THEN sofar ELSE vals[i]
    IN  after[Len(vals)]

\* eval_and and eval_or: an operand that settles ends the loop, an unorderable
\* one is kept for its end.
Combine(settles, vals) ==
    LET after[i \in 0 .. Len(vals)] ==
            IF i = 0 THEN Truth(settles = "false")
            ELSE LET sofar == after[i - 1] IN
                 IF sofar # settles /\ vals[i] \in {settles, "unorderable"} THEN vals[i] ELSE sofar
    IN  after[Len(vals)]

Negate(v) == IF v = "unorderable" THEN v ELSE Truth(v = "false")

\* The value that settles a conjunction or a disjunction, and those of its operands.
Settling(e) == Truth(e.op = "or")
ValuesOf(eval, parts, bag) == [i \in DOMAIN parts |-> eval[parts[i]][bag]]

EvalExpression[e \in Expressions] == [bag \in AttributeBags |->
    CASE e.op \in {"and", "or"} -> Combine(Settling(e), ValuesOf(EvalExpression, e.parts, bag))
      [] e.op = "not" -> Negate(EvalExpression[e.inner][bag])
      [] e.op = "always" -> "true"
      [] OTHER -> EvalCondition(e, bag)]

-----------------------------------------------------------------------------
(* Field pipelines.                                                        *)

RunStage(st, p, bag) ==
    LET denied == [p EXCEPT !.out = "deny"]
        told == [p EXCEPT !.taints = @ \cup {st.label}]
    IN CASE st.stage = "check" -> IF st.ok THEN p ELSE denied
         [] st.stage = "rewrite" -> [p EXCEPT !.out = "replace"]
         [] st.stage = "redact" ->
              LET v == EvalExpression[st.cond][bag] IN
              IF v = "unorderable" THEN denied
              ELSE IF v = "true" THEN [p EXCEPT !.out = "replace"] ELSE p
         [] st.stage = "omit" -> [p EXCEPT !.out = "omit"]
         [] st.stage = "taint" -> told
         [] st.stage = "plugin" -> CASE st.ans = "allow" -> told
                                     [] st.ans = "deny" -> [told EXCEPT !.out = "deny"]
                                     [] OTHER -> denied

EvaluatePipeline(stages, bag) ==
    LET after[i \in 0 .. Len(stages)] ==
            IF i = 0 THEN [out |-> "pass", taints |-> {}]
            ELSE LET p == after[i - 1] IN
                 IF p.out \in {"deny", "omit"} THEN p ELSE RunStage(stages[i], p, bag)
    IN  after[Len(stages)]

\* The loop over a field rule's paths; one that expands to too many denies.
ApplyPipeline(field, s) ==
    LET p == EvaluatePipeline(field.stages, s.bag)
        t == [s EXCEPT !.taints = @ \cup p.taints]
    IN IF ~field.expands THEN [s EXCEPT !.out = "halt"]
       ELSE CASE p.out = "deny" -> [t EXCEPT !.out = "halt"]
              [] p.out = "pass" -> t
              [] OTHER -> [t EXCEPT !.modified = TRUE]

-----------------------------------------------------------------------------
(* What the configuration loader admits (rules.rs, visitor.rs).            *)

\* The effects of a tree.
Within[e \in Effects] ==
    {e} \cup UNION {Within[Children(e)[i]] : i \in DOMAIN Children(e)}

ContainsMutation(e) == \E x \in Within[e] : x.kind \in {"field", "delegate", "elicit"}

ParallelPure(e) ==
    \A x \in Within[e] :
        x.kind = "parallel" => \A i \in DOMAIN x.body : ~ContainsMutation(x.body[i])

SumOf(count, es) ==
    LET upTo[i \in 0 .. Len(es)] == IF i = 0 THEN 0 ELSE upTo[i - 1] + count[es[i]]
    IN  upTo[Len(es)]
CountElicits[e \in Effects] ==
    IF e.kind = "elicit" THEN 1 ELSE SumOf(CountElicits, Children(e))

Loadable(r) ==
    \A es \in {r.pre, r.post} :
        SumOf(CountElicits, es) <= 1 /\ \A i \in DOMAIN es : ParallelPure(es[i])

-----------------------------------------------------------------------------
(* Effects.                                                                *)

\* How a walk stands, the payload its field operations may change, its bag, and
\* what it gathered.
Walks == [out : {"continue", "halt", "pending", "panicked"}, at : {"args", "result"},
          bag : AttributeBags, taints : SUBSET PolicyLabels, restricts : SUBSET PolicyLabels,
          modified : BOOLEAN]

Ends(s, how) == [s EXCEPT !.out = how]
OnError(e, s) == IF e.onError = "continue" THEN s ELSE Ends(s, "halt")

\* dispatch_elicitation: on_error is for failures (a channel error, an expiry, an
\* invalid answer, a scope that is not satisfied), never for a denial or for a
\* store that cannot be reached.
DispatchElicitation(e, s) ==
    CASE e.ans = "approved" -> IF EvalExpression[e.scope][s.bag] = "true" THEN s ELSE OnError(e, s)
      [] e.ans = "pending" -> Ends(s, "pending")
      [] e.ans \in {"denied", "unavailable"} -> Ends(s, "halt")
      [] OTHER -> OnError(e, s)

DispatchLeaf(e, s) ==
    LET told == [s EXCEPT !.taints = @ \cup {e.label}] IN
    CASE e.kind = "allow" -> s
      [] e.kind = "deny" -> Ends(s, "halt")
      [] e.kind = "taint" -> told
      [] e.kind = "plugin" -> CASE e.ans = "allow" -> told
                                [] e.ans = "deny" -> Ends(told, "halt")
                                [] e.ans = "panic" -> Ends(s, "panicked")
                                [] OTHER -> Ends(s, "halt")
      [] e.kind = "delegate" -> IF e.ans = "allow" THEN [s EXCEPT !.bag.granted = TRUE]
                                ELSE OnError(e, s)
      [] e.kind = "elicit" -> DispatchElicitation(e, s)
      [] e.kind = "restrict" -> CASE e.ans = "resolved" -> [s EXCEPT !.restricts = @ \cup {e.label}]
                                  [] e.ans = "empty" -> s
                                  [] OTHER -> Ends(s, "halt")
      [] e.kind = "field" -> IF e.side = s.at THEN ApplyPipeline(e, s) ELSE s

\* run_branches: once a branch has halted, others may be cancelled.
BranchOutcomes(results) ==
    LET n == DOMAIN results
        all == UNION {results[i] : i \in n}
        cancelled == [out |-> "aborted"]
    IN {f \in [n -> all \cup {cancelled}] :
          /\ \A i \in n : f[i] \in results[i] \cup {cancelled}
          /\ (\E i \in n : f[i] = cancelled) => \E i \in n : f[i].out = "halt"}

\* dispatch_parallel's aggregation: a branch's bag and payload are dropped.
Join(f, s) ==
    LET done == {f[i] : i \in {j \in DOMAIN f : f[j].out \notin {"aborted", "panicked"}}} IN
    [s EXCEPT !.taints = @ \cup UNION {r.taints : r \in done},
              !.restricts = @ \cup UNION {r.restricts : r \in done},
              !.out = IF \E i \in DOMAIN f : f[i].out \in {"halt", "panicked"} THEN "halt" ELSE @]

\* The loop over a list of effects: it goes on while each one continues.
WalkEffects(dispatch, es, s) ==
    LET after[i \in 0 .. Len(es)] ==
            IF i = 0 THEN {s}
            ELSE UNION {IF r.out = "continue" THEN dispatch[es[i]][r] ELSE {r} : r \in after[i - 1]}
    IN  after[Len(es)]

\* Mutant: reactions that walk clean undo the PDP's deny.
PdpDeniedUndone(r) == r

\* The PDP's deny stands once its reactions walked clean.
PdpDenied(r) == IF r.out = "continue" THEN Ends(r, "halt") ELSE r

Dispatch[e \in Effects] == [s \in Walks |->
    CASE e.kind = "sequential" -> WalkEffects(Dispatch, e.body, s)
      [] e.kind = "parallel" ->
           LET fresh == [s EXCEPT !.taints = {}, !.restricts = {}]
               results == [i \in DOMAIN e.body |-> Dispatch[e.body[i]][fresh]]
           IN {Join(f, s) : f \in BranchOutcomes(results)}
      [] e.kind = "when" ->
           LET v == EvalExpression[e.cond][s.bag] IN
           CASE v = "true" -> WalkEffects(Dispatch, e.body, s)
             [] v = "false" -> {s}
             [] OTHER -> {Ends(s, "halt")}
      [] e.kind = "pdp" ->
           CASE e.ans = "allow" -> WalkEffects(Dispatch, e.onAllow, s)
             [] e.ans = "deny" -> {PdpDenied(r) : r \in WalkEffects(Dispatch, e.onDeny, s)}
             [] OTHER -> {Ends(s, "halt")}
      [] OTHER -> {DispatchLeaf(e, s)}]

-----------------------------------------------------------------------------
(* The route's phases.                                                     *)

NoRoute == [args |-> <<>>, pre |-> <<>>, result |-> <<>>, post |-> <<>>]
StartBag(a) == [attr |-> a, granted |-> FALSE]
NoWalk(a) == [out |-> "continue", at |-> "args", bag |-> StartBag(a), taints |-> {},
              restricts |-> {}, modified |-> FALSE]

EvaluatorInit ==
    /\ \/ route \in {r \in PolicyRoutes : Loadable(r)} /\ cond = Always
       \/ route = NoRoute /\ cond \in Conditions
    /\ attr \in Attributes
    /\ phase = "none" /\ walk = NoWalk(attr)

\* evaluate_pre: the args field rules, then the pre_invocation effects.
EvaluatePre ==
    /\ phase = "none"
    /\ walk' \in WalkEffects(Dispatch, route.args \o route.pre, walk)
    /\ phase' = "pre"
    /\ UNCHANGED <<route, attr, cond>>

\* evaluate_post, after the tool's call: the result field rules, then the
\* post_invocation effects; evaluate_route skips it on a deny and on a pending
\* elicitation.
EvaluatePost ==
    /\ phase = "pre" /\ walk.out = "continue"
    /\ walk' \in WalkEffects(Dispatch, route.result \o route.post, [walk EXCEPT !.at = "result"])
    /\ phase' = "post"
    /\ UNCHANGED <<route, attr, cond>>

EvaluatorNext == EvaluatePre \/ EvaluatePost

EvaluatorSpec == EvaluatorInit /\ [][EvaluatorNext]_evaluatorVars

-----------------------------------------------------------------------------
(* Properties.                                                             *)

\* A node that is reached, with the bag it meets.
Gates == [node : Effects, bag : AttributeBags]

Grants(seen) == \E x \in seen : x.node.kind = "delegate" /\ x.node.ans = "allow"
BagAfter(bag, seen) == [bag EXCEPT !.granted = @ \/ Grants(seen)]

\* What a list of effects reaches when nothing in it stops it.
VisitsOf(visits, es, bag) ==
    LET seen[i \in 0 .. Len(es)] ==
            IF i = 0 THEN {}
            ELSE LET before == seen[i - 1] IN before \cup visits[es[i]][BagAfter(bag, before)]
    IN  seen[Len(es)]

Visits[e \in Effects] == [bag \in AttributeBags |->
    LET here == {[node |-> e, bag |-> bag]} IN
    CASE e.kind = "sequential" -> VisitsOf(Visits, e.body, bag)
      [] e.kind = "parallel" -> UNION {Visits[e.body[i]][bag] : i \in DOMAIN e.body}
      [] e.kind = "when" ->
           LET v == EvalExpression[e.cond][bag] IN
           CASE v = "true" -> VisitsOf(Visits, e.body, bag)
             [] v = "false" -> {}
             [] OTHER -> here
      [] e.kind = "pdp" -> here \cup (IF e.ans = "allow" THEN VisitsOf(Visits, e.onAllow, bag) ELSE {})
      [] OTHER -> here]

\* A node that lets the request pass.
Passes(e, at, bag) ==
    CASE e.kind \in {"allow", "taint"} -> TRUE
      [] e.kind = "plugin" -> e.ans = "allow"
      [] e.kind = "pdp" -> e.ans = "allow"
      [] e.kind = "delegate" -> e.ans = "allow" \/ e.onError = "continue"
      [] e.kind = "elicit" ->
           \/ e.ans = "approved" /\ EvalExpression[e.scope][bag] = "true"
           \/ e.ans \in {"approved", "failed"} /\ e.onError = "continue"
      [] e.kind = "restrict" -> e.ans # "unresolvable"
      [] e.kind = "field" -> \/ e.side # at
                             \/ e.expands /\ EvaluatePipeline(e.stages, bag).out # "deny"
      [] OTHER -> FALSE

\* What each phase reaches, a delegation in pre being seen in post.
PreVisits == VisitsOf(Visits, route.args \o route.pre, StartBag(attr))
PostVisits ==
    VisitsOf(Visits, route.result \o route.post, BagAfter(StartBag(attr), PreVisits))

\* The request goes on exactly when every gate reached lets it pass: a deny, an
\* unresolved reference, an unanswered elicitation, an unorderable comparison,
\* an error or a panicked branch is never outweighed, wherever in the tree.
ForwardedMeansPermitted ==
    /\ phase = "pre" =>
         (walk.out = "continue" <=> \A x \in PreVisits : Passes(x.node, "args", x.bag))
    /\ phase = "post" =>
         (walk.out = "continue" <=> /\ \A x \in PreVisits : Passes(x.node, "args", x.bag)
                                    /\ \A x \in PostVisits : Passes(x.node, "result", x.bag))

\* A request that goes on carries everything that was reached: each taint and
\* each restriction, those of parallel branches too, and no restriction else.
ReachedIsKept ==
    LET seen == {x.node : x \in PreVisits \cup (IF phase = "post" THEN PostVisits ELSE {})} IN
    phase # "none" /\ walk.out = "continue" =>
        /\ {e.label : e \in {x \in seen : x.kind \in {"taint", "plugin"}}} \subseteq walk.taints
        /\ {e.label : e \in {x \in seen : x.kind = "restrict" /\ x.ans = "resolved"}}
             = walk.restricts

\* An expression's value when, of the unorderable comparisons, some are taken to
\* hold and the others are not.
Worlds == [bag : AttributeBags, hold : SUBSET Expressions]

Classical[e \in Expressions] == [w \in Worlds |->
    CASE e.op = "and" -> \A i \in DOMAIN e.parts : Classical[e.parts[i]][w]
      [] e.op = "or" -> \E i \in DOMAIN e.parts : Classical[e.parts[i]][w]
      [] e.op = "not" -> ~Classical[e.inner][w]
      [] e.op = "always" -> TRUE
      [] OTHER -> LET v == EvalCondition(e, w.bag) IN
                  IF v = "unorderable" THEN e \in w.hold ELSE v = "true"]

Atoms[e \in Expressions] ==
    IF e.op \in {"and", "or", "not"} THEN UNION {Atoms[d] : d \in Operands(e)} ELSE {e}

\* evaluator.rs: "a definite operand settles the combinator".  A definite value
\* is the one every outcome of the unorderable comparisons would give, and the
\* order in which operands are written changes nothing.
DefiniteIsSettled ==
    LET bag == StartBag(attr)
        v == EvalExpression[cond][bag]
    IN  /\ v # "unorderable" =>
             \A hold \in SUBSET Atoms[cond] :
                 Classical[cond][[bag |-> bag, hold |-> hold]] = (v = "true")
        /\ cond.op \in {"and", "or"} =>
             \A p \in Bijection(DOMAIN cond.parts, DOMAIN cond.parts) :
                 LET written == [i \in DOMAIN p |-> cond.parts[p[i]]]
                 IN  v = Combine(Settling(cond), ValuesOf(EvalExpression, written, bag))

\* An order comparison that answers compares the integers themselves, also
\* above the range in which an f64 tells them apart.
OrderExact ==
    cond.op \in {"gt", "lt"} /\ {attr.t, cond.lit.t} \subseteq {"int", "numeral", "float"} =>
        EvalCondition(cond, StartBag(attr)) \in {"unorderable", Truth(Holds(cond.op, attr.n, cond.lit.n))}

\* What the APL evaluator promises a route: it goes on only where every gate it
\* reached let it, and then carries everything it reached.
WalkSound == ForwardedMeansPermitted /\ ReachedIsKept

\* What a condition answers is what its operands say, in logic and in order.
ConditionsSound == DefiniteIsSettled /\ OrderExact
=============================================================================
