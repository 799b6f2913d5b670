------------------------------ MODULE MCInstall ------------------------------
(* Documents with every combination of sections that matters to a reload:  *)
(* all of them, none but the route's own, a global one with no PDP, and a  *)
(* document without policy.                                                *)
EXTENDS PolicyInstall, TLC

MCPolicyDocs ==
    ("full" :> [sections |-> Sections, pdps |-> Dialects])
    @@ ("plain" :> [sections |-> {"route"}, pdps |-> {}])
    @@ ("global" :> [sections |-> {"global", "bundle"}, pdps |-> {}])
    @@ ("bare" :> [sections |-> {}, pdps |-> {}])
=============================================================================
