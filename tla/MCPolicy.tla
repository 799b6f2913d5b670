------------------------------ MODULE MCPolicy ------------------------------
(***************************************************************************)
(* What a document says and what a request then meets: the engine that     *)
(* loads it, the route of the request, the sections that apply, the walk   *)
(* over its effects, and what plugins may do to its extensions.  The       *)
(* initial state picks the part that moves; the others stay as they start. *)
(***************************************************************************)
EXTENDS MCEngine, Evaluator, ExtensionTiers, MCRouteChoice, SectionLayers

(* Routes, attribute values and expressions for the evaluator: effect trees  *)
(* of depth three, in which every kind of node meets every other.            *)

Compare(op, t, n) == [op |-> op, lit |-> [t |-> t, n |-> n]]
Above == Compare("gt", "int", 2)
Granted == [op |-> "granted"]
GrantedAbove == [op |-> "and", parts |-> <<Granted, Above>>]

Plugin(ans) == [kind |-> "plugin", ans |-> ans, label |-> "plugin"]
Elicit(ans, onError) == [kind |-> "elicit", ans |-> ans, scope |-> Always, onError |-> onError]
Delegate(ans, onError) == [kind |-> "delegate", ans |-> ans, onError |-> onError]
RestrictTo(ans) == [kind |-> "restrict", ans |-> ans, label |-> "backend"]
Field(side, stages) == [kind |-> "field", side |-> side, stages |-> stages, expands |-> TRUE]

Check(ok) == [stage |-> "check", ok |-> ok]
Tag == [stage |-> "taint", label |-> "field"]
Redact == [stage |-> "redact", cond |-> Above]
RedactWhenGranted == [stage |-> "redact", cond |-> GrantedAbove]
Asked(ans) == [stage |-> "plugin", ans |-> ans, label |-> "scan"]

\* Nodes that occur deep in a tree, and those that occur next to one.
Deep ==
    {[kind |-> "deny"], [kind |-> "taint", label |-> "t"], Plugin("allow"), Plugin("panic"),
     RestrictTo("resolved"), Elicit("pending", "deny"), Delegate("allow", "deny")}
Near ==
    {[kind |-> "allow"], Plugin("allow"), RestrictTo("resolved"), Plugin("deny"),
     Delegate("allow", "deny")}
Alone ==
    Deep \cup Near
    \cup {Plugin("error"), RestrictTo("empty"), RestrictTo("unresolvable")}
    \cup {Elicit(a, o) : a \in {"approved", "denied", "unavailable", "failed"}, o \in {"deny", "continue"}}
    \cup {[Elicit("approved", o) EXCEPT !.scope = Above] : o \in {"deny", "continue"}}
    \cup {Delegate(a, o) : a \in {"allow", "deny"}, o \in {"deny", "continue"}}
    \cup {Field(s, p) : s \in {"args", "result"},
            p \in {<<Redact, Check(TRUE)>>, <<Tag, Check(FALSE)>>, <<[stage |-> "rewrite"], Redact>>,
                   <<[stage |-> "omit"], Check(FALSE)>>}
                  \cup {<<Asked(a)>> : a \in {"allow", "deny", "error"}}}
    \cup {[kind |-> "field", side |-> "args", stages |-> <<>>, expands |-> FALSE]}

Group(kind, a, b) == [kind |-> kind, body |-> <<a, b>>]
When(c, a) == [kind |-> "when", cond |-> c, body |-> <<a>>]
Pdp(ans, a, d) == [kind |-> "pdp", ans |-> ans, onAllow |-> <<a>>, onDeny |-> <<d>>]

Inner ==
    {Group(k, a, b) : k \in {"sequential", "parallel"}, a \in Deep, b \in Deep}
    \cup {When(c, a) : c \in {Above, Granted}, a \in Deep}
    \cup {Pdp(ans, a, d) : ans \in {"allow", "deny", "error"}, a \in Deep, d \in Deep}
Outer ==
    {Group("parallel", i, n) : i \in Inner, n \in Near}
    \cup {Group("sequential", n, i) : i \in Inner, n \in Near}
    \cup {Pdp("deny", [kind |-> "allow"], i) : i \in Inner}

Rules == {Field("args", <<Tag, Redact>>), Field("result", <<RedactWhenGranted, Check(TRUE)>>)}
Rule(side) == {<<>>} \cup {<<f>> : f \in {r \in Rules : r.side = side}}

MCRoutes ==
    {[NoRoute EXCEPT !.pre = <<o>>] : o \in Outer}
    \cup {[args |-> a, pre |-> <<e>>, result |-> <<>>, post |-> <<p>>] :
            a \in Rule("args"), e \in Alone, p \in Alone}
    \cup {[args |-> <<>>, pre |-> <<e>>, result |-> r, post |-> <<When(Granted, [kind |-> "deny"])>>] :
            e \in Alone, r \in Rule("result")}

MCEffectLevels == <<Alone \cup Rules, Inner, Outer>>

Numbers == {[t |-> t, n |-> n] : t \in {"int", "numeral"}, n \in {1, 4, 5, 6, 7}}
           \cup {[t |-> "float", n |-> n] : n \in {1, 4, 6, 8}}
MCAttributes == Numbers \cup {[t |-> "decimal", n |-> 5], [t |-> "text", n |-> 0], [t |-> "absent", n |-> 0]}

Simple == {Compare(op, "int", 4) : op \in {"eq", "neq", "gt"}} \cup {Compare("gt", "float", 1)}
Pairs == {GrantedAbove} \cup {[op |-> o, parts |-> <<a, b>>] : o \in {"and", "or"}, a \in Simple, b \in Simple}
Nots == {[op |-> "not", inner |-> p] : p \in Pairs}
Mixed == {[op |-> o, parts |-> <<a, n>>] : o \in {"and", "or"}, a \in Simple, n \in Nots}
Threes == {[op |-> o, parts |-> <<a, b, c>>] : o \in {"and", "or"}, a \in Simple, b \in Simple, c \in Simple}
Comparisons == {Compare(op, l.t, l.n) : op \in {"eq", "neq", "gt", "lt"}, l \in Numbers}
MCConditions == Comparisons \cup Pairs \cup Nots \cup Mixed \cup Threes

MCExpressionLevels ==
    <<Comparisons \cup {Always, Granted, Above}, Pairs \cup Threes, Nots, Mixed>>

-----------------------------------------------------------------------------
(* Capability sets for the plugins: each capability alone, and the pairs of  *)
(* a read and a write that meet in one slot.                                 *)

MCCapabilitySets ==
    {{}, {"read_agent", "append_labels"}, {"read_subject", "read_labels", "append_labels"},
     {"append_labels"}, {"read_headers", "write_headers"}, {"write_headers"},
     {"read_query", "write_headers"}, {"read_delegation", "append_delegation"},
     {"append_delegation"}, {"read_inbound_credentials"}, {"read_delegated_tokens"},
     {"read_inbound_credentials", "read_delegated_tokens"},
     {"read_labels", "write_candidate_constraint"}}

-----------------------------------------------------------------------------
(* Two bundles, joined in every order and twice.                             *)

MCMemberships == {<<>>, <<"b1">>, <<"b1", "b2">>, <<"b2", "b1">>, <<"b1", "b2", "b1">>}
MCStepBlocks == {Absent} \cup [declared : {TRUE}, steps : 0 .. 1, replace : BOOLEAN]
MCHeaderBlocks ==
    {Absent} \cup [declared : {TRUE}, headers : {{}, {"X"}, {"x"}}, strip : {{"s"}},
                   replace : {FALSE}]
           \cup [declared : {TRUE}, headers : {{"x"}}, strip : {{}}, replace : {TRUE}]

-----------------------------------------------------------------------------
(* The parts.                                                                *)

VARIABLE part

\* A part that does not move has one initial state.
EvaluatorAtRest ==
    /\ route = NoRoute /\ attr = [t |-> "absent", n |-> 0] /\ cond = Always
    /\ phase = "none" /\ walk = NoWalk(attr)
TiersAtRest == ext = AtStart({}, {}) /\ born = ext /\ last = {}

ChoiceAtRest == table = <<>> /\ loaded = "unread" /\ served = Unserved
SectionsAtRest ==
    /\ chain = "assertions" /\ block = [s \in Sections |-> Absent] /\ joined = <<>>
    /\ verdict = "unread" /\ warned = "none" /\ inForce = Unresolved

PolicyInit ==
    /\ part \in {"engine", "evaluator", "tiers", "routes", "sections"}
    /\ Init
    /\ IF part = "evaluator" THEN EvaluatorInit ELSE EvaluatorAtRest
    /\ IF part = "tiers" THEN TierInit ELSE TiersAtRest
    /\ IF part = "routes" THEN ChoiceInit ELSE ChoiceAtRest
    /\ IF part = "sections" THEN SectionInit ELSE SectionsAtRest

PolicyNext ==
    /\ UNCHANGED part
    /\ \/ part = "engine" /\ Next
       \/ part # "engine" /\ UNCHANGED vars
    /\ \/ part = "evaluator" /\ EvaluatorNext
       \/ part # "evaluator" /\ UNCHANGED evaluatorVars
    /\ \/ part = "tiers" /\ TierNext
       \/ part # "tiers" /\ UNCHANGED tierVars
    /\ \/ part = "routes" /\ ChoiceNext
       \/ part # "routes" /\ UNCHANGED choiceVars
    /\ \/ part = "sections" /\ SectionNext
       \/ part # "sections" /\ UNCHANGED sectionVars

policyVars == <<part, vars, evaluatorVars, tierVars, choiceVars, sectionVars>>

PolicySpec == PolicyInit /\ [][PolicyNext]_policyVars
=============================================================================
