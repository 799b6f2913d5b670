------------------------------- MODULE MCLive -------------------------------
(***************************************************************************)
(* What must eventually happen: reconciliation of effects, and the end of  *)
(* a request that waits for approval.  The initial state picks the part    *)
(* that moves, and only its fairness is assumed.                           *)
(***************************************************************************)
EXTENDS EffectProtocol, Elicitation

VARIABLE part

liveVars == <<part, vars, elicitVars>>

LiveInit == part \in {"effects", "approvals"} /\ Init /\ ElicitInit

LiveNext ==
    /\ UNCHANGED part
    /\ \/ part = "effects" /\ Next /\ UNCHANGED elicitVars
       \/ part = "approvals" /\ ElicitNext /\ UNCHANGED vars

\* EffectProtocol's Fairness and Elicitation's, of the part that moves.
Of(p, step) == part = p /\ step

PartsFairness ==
    /\ WF_vars(Of("effects", Restart))
    /\ \A k \in Keys : WF_vars(Of("effects", PluginStep(k) /\ pc[k] # "idle"))
    /\ \A s \in Sweepers :
          /\ WF_vars(Of("effects", SweepStep(s)))
          /\ SF_vars(Of("effects", SweepRecover(s)))
          /\ \A k \in Keys : SF_vars(Of("effects", SweepAsk(s, k)))
          /\ SF_vars(Of("effects", Answering(s)))
          /\ SF_vars(Of("effects", SweepSettle(s)))
    /\ \A r \in Requests : WF_elicitVars(Of("approvals", RequestStep(r)))

PartsSpec == LiveInit /\ [][LiveNext]_liveVars /\ PartsFairness

\* The type invariants of the parts.
PartsTypeOK == TypeOK /\ ElicitTypeOK
=============================================================================
