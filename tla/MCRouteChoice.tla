---------------------------- MODULE MCRouteChoice ----------------------------
(* Selectors of every kind that can meet on one request.                   *)
EXTENDS RouteChoice, TLC

MCPatterns ==
    ("*" :> [names |-> {"a", "b"}, star |-> TRUE]) @@ ("a*" :> [names |-> {"a"}, star |-> TRUE])

Root == <<"/">>
A == <<"/", "a">>
AB == <<"/", "a", "/", "b">>

Exact(paths, methods) == [kind |-> "exact", paths |-> paths, methods |-> methods]
Prefix(path, methods) == [kind |-> "prefix", prefix |-> path, methods |-> methods]
Single(p) == [kind |-> "single", pattern |-> p]
List(names) == [kind |-> "list", names |-> names]

MCSelectors ==
    ("tool" :> {Single("a"), Single("*"), Single("a*"), List({"a"}), List({"a", "b"})})
    @@ ("http" :> {Exact({A}, {}), Exact({A, AB}, {}), Exact({A}, {"GET"}),
                   Prefix(Root, {}), Prefix(Root, {"get"}), Prefix(A, {}),
                   Prefix(A, {"GET", "get"}), Prefix(A, {"GET", "POST"}), Prefix(AB, {})})

MCQueries ==
    [type : {"tool"}, name : {"a", "b"}, scope : {"none", "s"}]
    \cup [type : {"http"}, method : {"GET", "POST", "none"}, scope : {"none", "s"},
          path : {Root, A, <<"/", "a", "/">>, AB, <<"/", "a", "b">>, <<"*">>}]

\* The hypothesis under which RouteChosen is proved.
ASSUME SelectorsMeant == SelectorsAsMeant
=============================================================================
