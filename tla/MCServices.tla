----------------------------- MODULE MCServices -----------------------------
(***************************************************************************)
(* Policy installation and the components that talk to stores and services *)
(* outside the process, each explored by itself in one run: the initial    *)
(* state picks the part that moves, and the others stay as they start.     *)
(***************************************************************************)
EXTENDS RouteRequest, DpopReplay, TokenCache, VaultDelegation, VaultSession, JwksRefresh, MCInstall, TLC

CONSTANT Actors

MCSym == Permutations(Actors)
MCNoOwn == {{}}
MCJwksDocs == ("old" :> {"k1"}) @@ ("new" :> {"k2"})

VARIABLE part

Parts == {"route", "dpop", "tokens", "vault", "session", "jwks", "install"}

\* A part that does not move has one initial state.
DpopAtRest == skew = [g \in Gateways |-> 0] /\ DpopInit

JwksAtRest ==
    /\ published = (CHOOSE d \in DOMAIN JwksDocs : TRUE) /\ held = NoDoc /\ etag = NoDoc
    /\ jwt = [r \in JwtReqs |-> IdleJwt(CHOOSE kid \in TokenKids : TRUE)]
    /\ JwksInit

ServicesInit ==
    /\ part \in Parts
    /\ RouteInit /\ TokenInit /\ VaultInit /\ SessionInit /\ InstallInit
    /\ part # "vault" => caching
    /\ part # "session" => ~denies
    /\ IF part = "dpop" THEN DpopInit ELSE DpopAtRest
    /\ IF part = "jwks" THEN JwksInit ELSE JwksAtRest

ServicesNext ==
    /\ UNCHANGED part
    /\ \/ part = "route" /\ RouteNext
       \/ part # "route" /\ UNCHANGED routeVars
    /\ \/ part = "dpop" /\ DpopNext
       \/ part # "dpop" /\ UNCHANGED dpopVars
    /\ \/ part = "tokens" /\ TokenNext
       \/ part # "tokens" /\ UNCHANGED tokenVars
    /\ \/ part = "vault" /\ VaultNext
       \/ part # "vault" /\ UNCHANGED vaultVars
    /\ \/ part = "session" /\ SessionNext
       \/ part # "session" /\ UNCHANGED sessionVars
    /\ \/ part = "jwks" /\ JwksNext
       \/ part # "jwks" /\ UNCHANGED jwksVars
    /\ \/ part = "install" /\ InstallNext
       \/ part # "install" /\ UNCHANGED installVars

servicesVars == <<part, routeVars, dpopVars, tokenVars, vaultVars, sessionVars, jwksVars,
                  installVars>>

ServicesSpec == ServicesInit /\ [][ServicesNext]_servicesVars

\* The type invariants of the parts.
ServicesTypeOK ==
    /\ RouteTypeOK /\ DpopTypeOK /\ TokenTypeOK /\ VaultTypeOK
    /\ SessionTypeOK /\ JwksTypeOK /\ InstallTypeOK
=============================================================================
