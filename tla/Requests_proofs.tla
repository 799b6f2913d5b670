-------------------------- MODULE Requests_proofs --------------------------
(***************************************************************************)
(* Proofs about what a request meets: the session labels and the parallel  *)
(* group of a route (RouteRequest), the plan and the PDPs of its handler   *)
(* (PolicyInstall), the replay guard of its proof of possession            *)
(* (DpopReplay), what a plugin may change of its extensions                *)
(* (ExtensionTiers) and the route it resolves to (RouteChoice); and about  *)
(* the services a request uses, side by side, as their run has them.       *)
(***************************************************************************)
EXTENDS MCServices, ExtensionTiers, RouteChoice, Credentials_proofs, FiniteSetTheorems, TLAPS

-----------------------------------------------------------------------------
(* RouteRequest: AllowJustified.                                           *)

\* A request has no answer before its last step; on its way to persist_session
\* it has none or a denial.
Answered(r) ==
    /\ rpc[r] \in {"idle", "gate", "plugins", "group"} => answer[r] = "none"
    /\ rpc[r] = "persist" => answer[r] \in {"none", "deny"}

\* No member is aborted before the group ends; what is about to be allowed, or
\* was, had every member's agreement.
Agreed(r) ==
    /\ rpc[r] \in {"idle", "gate", "plugins", "group"} =>
          \A m \in Members : verdict[r][m] # "aborted"
    /\ (rpc[r] = "persist" /\ answer[r] = "none") \/ answer[r] = "allow" =>
          \A m \in Members : verdict[r][m] = "allow"

RouteInv == RouteTypeOK /\ \A r \in RouteReqs : Answered(r) /\ Agreed(r)

\* A request's labels after hydration are its session's, and stay there.
Loaded(r) ==
    rpc[r] \in {"gate", "plugins", "group", "persist"} /\ sess[r] # NoSession =>
        initial[r] \subseteq store[sess[r]]

\* The labels answered for by the time a guarded request loaded are among those
\* its gate sees; past the gate there were none.
Guarded(r) ==
    /\ rpc[r] = "gate" => heard[r] \subseteq exts[r]
    /\ /\ gate[r]
       /\ \/ rpc[r] \in {"plugins", "group"}
          \/ rpc[r] = "persist" /\ answer[r] = "none"
          \/ answer[r] = "allow"
       => heard[r] = {}

LabelInv == TaintDurable /\ \A r \in RouteReqs : Loaded(r) /\ Guarded(r)

LEMMA HydrateKeeps ==
    ASSUME RouteInv, NEW r \in RouteReqs, Hydrate(r) PROVE RouteInv'
<1>0. PICK s \in Sessions \cup {NoSession}, own \in OwnLabels, g \in BOOLEAN :
          /\ sess' = [sess EXCEPT ![r] = s]
          /\ gate' = [gate EXCEPT ![r] = g]
          /\ heard' = [heard EXCEPT ![r] = IF s = NoSession THEN {} ELSE told[s]]
          /\ \/ LET labels == own \cup (IF s = NoSession THEN {} ELSE store[s]) IN
                /\ exts' = [exts EXCEPT ![r] = labels]
                /\ initial' = [initial EXCEPT ![r] = labels]
                /\ rpc' = [rpc EXCEPT ![r] = "gate"]
                /\ UNCHANGED answer
             \/ s # NoSession /\ LoadFails(r)
  BY DEF Hydrate
<1>1. rpc[r] = "idle" /\ UNCHANGED <<store, told, taints, memberVars>>
  BY DEF Hydrate
<1>2. RouteTypeOK'
  <2>1. store' \in [Sessions -> SUBSET Labels] /\ told' \in [Sessions -> SUBSET Labels]
    BY <1>0, <1>1, RouteAssumption DEF RouteInv, RouteTypeOK, memberVars, LoadFails, Finish
  <2>2. rpc' \in [RouteReqs -> HandlerSteps]
    BY <1>0, <1>1, RouteAssumption DEF RouteInv, RouteTypeOK, HandlerSteps, memberVars, LoadFails, Finish
  <2>3. sess' \in [RouteReqs -> Sessions \cup {NoSession}] /\ gate' \in [RouteReqs -> BOOLEAN]
    BY <1>0, <1>1, RouteAssumption DEF RouteInv, RouteTypeOK, memberVars, LoadFails, Finish
  <2>4. exts' \in [RouteReqs -> SUBSET Labels] /\ initial' \in [RouteReqs -> SUBSET Labels]
    <3>1. own \cup (IF s = NoSession THEN {} ELSE store[s]) \in SUBSET Labels
      BY RouteAssumption DEF RouteInv, RouteTypeOK
    <3>2. PICK l \in SUBSET Labels : l = own \cup (IF s = NoSession THEN {} ELSE store[s])
      BY <3>1
    <3>3. \/ exts' = [exts EXCEPT ![r] = l] /\ initial' = [initial EXCEPT ![r] = l]
          \/ UNCHANGED <<exts, initial>>
      BY <1>0, <3>2 DEF LoadFails
    <3> QED BY <3>3 DEF RouteInv, RouteTypeOK
  <2>5. heard' \in [RouteReqs -> SUBSET Labels]
    BY <1>0, <1>1, RouteAssumption DEF RouteInv, RouteTypeOK, memberVars, LoadFails, Finish
  <2>6. taints' \in [RouteReqs -> SUBSET Labels]
    BY <1>0, <1>1, RouteAssumption DEF RouteInv, RouteTypeOK, memberVars, LoadFails, Finish
  <2>7. answer' \in [RouteReqs -> {"none", "allow", "deny", "dropped"}]
    BY <1>0, <1>1, RouteAssumption DEF RouteInv, RouteTypeOK, memberVars, LoadFails, Finish
  <2>8. \A q \in RouteReqs : rpc'[q] = "ended" => answer'[q] # "none"
    BY <1>0, <1>1, RouteAssumption DEF RouteInv, RouteTypeOK, memberVars, LoadFails, Finish
  <2>9. verdict' \in [RouteReqs -> [Members -> MemberEnds]]
    BY <1>0, <1>1, RouteAssumption DEF RouteInv, RouteTypeOK, MemberEnds, memberVars, LoadFails, Finish
  <2>10. adds' \in [RouteReqs -> [Members -> SUBSET Labels]]
    BY <1>0, <1>1, RouteAssumption DEF RouteInv, RouteTypeOK, memberVars, LoadFails, Finish
  <2> QED BY <2>1, <2>2, <2>3, <2>4, <2>5, <2>6, <2>7, <2>8, <2>9, <2>10 DEF RouteTypeOK
<1>3. \A q \in RouteReqs : Answered(q)'
  BY <1>0, <1>1 DEF RouteInv, RouteTypeOK, HandlerSteps, memberVars, LoadFails, Finish, Answered
<1>4. \A q \in RouteReqs : Agreed(q)'
  <2> SUFFICES ASSUME NEW q \in RouteReqs PROVE Agreed(q)'
    OBVIOUS
  <2>1. CASE q # r
    BY <1>0, <1>1, <2>1 DEF RouteInv, RouteTypeOK, Agreed, memberVars, LoadFails, Finish
  <2>2. CASE q = r
    <3>1. \/ answer'[r] = "none" /\ rpc'[r] \in {"gate", "plugins", "group"}
          \/ answer'[r] = "deny"
      BY <1>0, <1>1 DEF RouteInv, RouteTypeOK, Answered, memberVars, LoadFails, Finish
    <3>2. verdict'[r] = verdict[r] /\ \A m \in Members : verdict[r][m] # "aborted"
      BY <1>0, <1>1 DEF RouteInv, Agreed, memberVars, LoadFails, Finish
    <3> QED BY <2>2, <3>1, <3>2 DEF Agreed
  <2> QED BY <2>1, <2>2
<1> QED BY <1>2, <1>3, <1>4 DEF RouteInv

LEMMA GateKeeps ==
    ASSUME RouteInv, NEW r \in RouteReqs, Gate(r) PROVE RouteInv'
<1>2. RouteTypeOK'
  <2>1. store' \in [Sessions -> SUBSET Labels] /\ told' \in [Sessions -> SUBSET Labels]
    BY DEF RouteInv, RouteTypeOK, memberVars, Gate
  <2>2. rpc' \in [RouteReqs -> HandlerSteps]
    BY DEF RouteInv, RouteTypeOK, HandlerSteps, memberVars, Gate
  <2>3. sess' \in [RouteReqs -> Sessions \cup {NoSession}] /\ gate' \in [RouteReqs -> BOOLEAN]
    BY DEF RouteInv, RouteTypeOK, memberVars, Gate
  <2>4. exts' \in [RouteReqs -> SUBSET Labels] /\ initial' \in [RouteReqs -> SUBSET Labels]
    BY DEF RouteInv, RouteTypeOK, memberVars, Gate
  <2>5. heard' \in [RouteReqs -> SUBSET Labels]
    BY DEF RouteInv, RouteTypeOK, memberVars, Gate
  <2>6. taints' \in [RouteReqs -> SUBSET Labels]
    BY DEF RouteInv, RouteTypeOK, memberVars, Gate
  <2>7. answer' \in [RouteReqs -> {"none", "allow", "deny", "dropped"}]
    BY DEF RouteInv, RouteTypeOK, memberVars, Gate
  <2>8. \A q \in RouteReqs : rpc'[q] = "ended" => answer'[q] # "none"
    BY DEF RouteInv, RouteTypeOK, memberVars, Gate
  <2>9. verdict' \in [RouteReqs -> [Members -> MemberEnds]]
    BY DEF RouteInv, RouteTypeOK, MemberEnds, memberVars, Gate
  <2>10. adds' \in [RouteReqs -> [Members -> SUBSET Labels]]
    BY DEF RouteInv, RouteTypeOK, memberVars, Gate
  <2> QED BY <2>1, <2>2, <2>3, <2>4, <2>5, <2>6, <2>7, <2>8, <2>9, <2>10 DEF RouteTypeOK
<1>3. \A q \in RouteReqs : Answered(q)'
  BY DEF RouteInv, RouteTypeOK, HandlerSteps, memberVars, Gate, Answered
<1>4. \A q \in RouteReqs : Agreed(q)'
  <2> SUFFICES ASSUME NEW q \in RouteReqs PROVE Agreed(q)'
    OBVIOUS
  <2>1. CASE q # r
    BY <2>1 DEF RouteInv, RouteTypeOK, Agreed, memberVars, Gate
  <2>2. CASE q = r
    <3>1. \/ answer'[r] = "none" /\ rpc'[r] \in {"gate", "plugins", "group"}
          \/ answer'[r] = "deny"
      BY DEF RouteInv, RouteTypeOK, Answered, memberVars, Gate
    <3>2. verdict'[r] = verdict[r] /\ \A m \in Members : verdict[r][m] # "aborted"
      BY DEF RouteInv, Agreed, memberVars, Gate
    <3> QED BY <2>2, <3>1, <3>2 DEF Agreed
  <2> QED BY <2>1, <2>2
<1> QED BY <1>2, <1>3, <1>4 DEF RouteInv

LEMMA PluginKeeps ==
    ASSUME RouteInv, NEW r \in RouteReqs, PluginStep(r) PROVE RouteInv'
<1>2. RouteTypeOK'
  <2>1. store' \in [Sessions -> SUBSET Labels] /\ told' \in [Sessions -> SUBSET Labels]
    BY DEF RouteInv, RouteTypeOK, memberVars, PluginStep
  <2>2. rpc' \in [RouteReqs -> HandlerSteps]
    BY DEF RouteInv, RouteTypeOK, HandlerSteps, memberVars, PluginStep
  <2>3. sess' \in [RouteReqs -> Sessions \cup {NoSession}] /\ gate' \in [RouteReqs -> BOOLEAN]
    BY DEF RouteInv, RouteTypeOK, memberVars, PluginStep
  <2>4. exts' \in [RouteReqs -> SUBSET Labels] /\ initial' \in [RouteReqs -> SUBSET Labels]
    BY DEF RouteInv, RouteTypeOK, memberVars, PluginStep
  <2>5. heard' \in [RouteReqs -> SUBSET Labels]
    BY DEF RouteInv, RouteTypeOK, memberVars, PluginStep
  <2>6. taints' \in [RouteReqs -> SUBSET Labels]
    BY DEF RouteInv, RouteTypeOK, memberVars, PluginStep
  <2>7. answer' \in [RouteReqs -> {"none", "allow", "deny", "dropped"}]
    BY DEF RouteInv, RouteTypeOK, memberVars, PluginStep
  <2>8. \A q \in RouteReqs : rpc'[q] = "ended" => answer'[q] # "none"
    BY DEF RouteInv, RouteTypeOK, memberVars, PluginStep
  <2>9. verdict' \in [RouteReqs -> [Members -> MemberEnds]]
    BY DEF RouteInv, RouteTypeOK, MemberEnds, memberVars, PluginStep
  <2>10. adds' \in [RouteReqs -> [Members -> SUBSET Labels]]
    BY DEF RouteInv, RouteTypeOK, memberVars, PluginStep
  <2> QED BY <2>1, <2>2, <2>3, <2>4, <2>5, <2>6, <2>7, <2>8, <2>9, <2>10 DEF RouteTypeOK
<1>3. \A q \in RouteReqs : Answered(q)'
  BY DEF RouteInv, RouteTypeOK, HandlerSteps, memberVars, PluginStep, Answered
<1>4. \A q \in RouteReqs : Agreed(q)'
  <2> SUFFICES ASSUME NEW q \in RouteReqs PROVE Agreed(q)'
    OBVIOUS
  <2>1. CASE q # r
    BY <2>1 DEF RouteInv, RouteTypeOK, Agreed, memberVars, PluginStep
  <2>2. CASE q = r
    <3>1. \/ answer'[r] = "none" /\ rpc'[r] \in {"gate", "plugins", "group"}
          \/ answer'[r] = "deny"
      BY DEF RouteInv, RouteTypeOK, Answered, memberVars, PluginStep
    <3>2. verdict'[r] = verdict[r] /\ \A m \in Members : verdict[r][m] # "aborted"
      BY DEF RouteInv, Agreed, memberVars, PluginStep
    <3> QED BY <2>2, <3>1, <3>2 DEF Agreed
  <2> QED BY <2>1, <2>2
<1> QED BY <1>2, <1>3, <1>4 DEF RouteInv

LEMMA MemberKeeps ==
    ASSUME RouteInv, NEW r \in RouteReqs, NEW m \in Members, MemberReturns(r, m) PROVE RouteInv'
<1>2. RouteTypeOK'
  BY DEF RouteInv, RouteTypeOK, MemberEnds, requestVars, MemberReturns
<1>3. \A q \in RouteReqs : Answered(q)'
  BY DEF RouteInv, requestVars, MemberReturns, Answered
<1>4. \A q \in RouteReqs : Agreed(q)'
  BY DEF RouteInv, RouteTypeOK, requestVars, MemberReturns, Answered, Agreed
<1> QED BY <1>2, <1>3, <1>4 DEF RouteInv

LEMMA GroupKeeps ==
    ASSUME RouteInv, NEW r \in RouteReqs, GroupEnds(r) PROVE RouteInv'
<1>1. UNION {adds[r][m] : m \in Joined(r)} \subseteq Labels
  BY DEF RouteInv, RouteTypeOK, Joined
<1>2. RouteTypeOK'
  BY <1>1 DEF RouteInv, RouteTypeOK, HandlerSteps, MemberEnds, GroupEnds
<1>3. \A q \in RouteReqs : Answered(q)'
  BY DEF RouteInv, RouteTypeOK, GroupEnds, Answered
<1>4. \A q \in RouteReqs : Agreed(q)'
  <2> SUFFICES ASSUME NEW q \in RouteReqs PROVE Agreed(q)'
    OBVIOUS
  <2>1. CASE q # r
    BY <2>1 DEF RouteInv, RouteTypeOK, GroupEnds, Agreed
  <2>2. CASE q = r
    <3>1. rpc'[r] = "persist" /\ answer[r] = "none" /\ answer'[r] \in {"none", "deny"}
      BY DEF RouteInv, RouteTypeOK, GroupEnds, Answered
    <3>2. ASSUME answer'[r] = "none", NEW m \in Members PROVE verdict'[r][m] = "allow"
      <4>1. Halted(r) = {}
        BY <3>2 DEF RouteInv, RouteTypeOK, GroupEnds
      <4>2. Joined(r) = Members
        BY <4>1 DEF GroupEnds, Halted
      <4>3. verdict[r][m] = "allow"
        BY <3>2, <4>1, <4>2 DEF RouteInv, RouteTypeOK, MemberEnds, Agreed, Joined, Halted, GroupEnds
      <4>4. verdict'[r] = [n \in Members |-> IF n \in Joined(r) THEN verdict[r][n] ELSE "aborted"]
        BY DEF RouteInv, RouteTypeOK, GroupEnds
      <4> QED BY <4>2, <4>3, <4>4
    <3> QED BY <2>2, <3>1, <3>2 DEF Agreed
  <2> QED BY <2>1, <2>2
<1> QED BY <1>2, <1>3, <1>4 DEF RouteInv

\* What answering a request and dropping its evaluation keep.
LEMMA FinishKeeps ==
    ASSUME RouteInv, NEW r \in RouteReqs, NEW a \in {"allow", "deny", "dropped"},
           Finish(r, a), Dropped(r), UNCHANGED <<sess, gate>>,
           a = "allow" => \A m \in Members : verdict[r][m] = "allow",
           store' \in [Sessions -> SUBSET Labels], told' \in [Sessions -> SUBSET Labels]
    PROVE  RouteInv'
<1>0. /\ rpc' = [rpc EXCEPT ![r] = "ended"] /\ answer' = [answer EXCEPT ![r] = a]
      /\ answer'[r] = a /\ rpc'[r] = "ended"
  BY DEF Finish, RouteInv, RouteTypeOK
<1>1. \/ UNCHANGED <<heard, verdict>>
      \/ /\ a # "allow"
         /\ heard' = [heard EXCEPT ![r] = {}] /\ verdict' = [verdict EXCEPT ![r] = NoVerdicts]
  BY <1>0 DEF Dropped
<1>2. RouteTypeOK'
  <2>1. rpc' \in [RouteReqs -> HandlerSteps]
    BY <1>0 DEF RouteInv, RouteTypeOK, HandlerSteps
  <2>2. sess' \in [RouteReqs -> Sessions \cup {NoSession}] /\ gate' \in [RouteReqs -> BOOLEAN]
    BY DEF RouteInv, RouteTypeOK
  <2>3. /\ exts' \in [RouteReqs -> SUBSET Labels] /\ initial' \in [RouteReqs -> SUBSET Labels]
        /\ taints' \in [RouteReqs -> SUBSET Labels]
    BY DEF RouteInv, RouteTypeOK, Dropped
  <2>4. heard' \in [RouteReqs -> SUBSET Labels]
    BY <1>1 DEF RouteInv, RouteTypeOK
  <2>5. /\ answer' \in [RouteReqs -> {"none", "allow", "deny", "dropped"}]
        /\ \A q \in RouteReqs : rpc'[q] = "ended" => answer'[q] # "none"
    BY <1>0 DEF RouteInv, RouteTypeOK
  <2>6. verdict' \in [RouteReqs -> [Members -> MemberEnds]]
    <3>1. NoVerdicts \in [Members -> MemberEnds]
      BY DEF NoVerdicts, MemberEnds
    <3> QED BY <1>1, <3>1 DEF RouteInv, RouteTypeOK
  <2>7. adds' \in [RouteReqs -> [Members -> SUBSET Labels]]
    BY DEF RouteInv, RouteTypeOK, Dropped, NoAdds
  <2> QED BY <2>1, <2>2, <2>3, <2>4, <2>5, <2>6, <2>7 DEF RouteTypeOK
<1>3. \A q \in RouteReqs : Answered(q)'
  BY <1>0 DEF RouteInv, RouteTypeOK, Answered
<1>4. \A q \in RouteReqs : Agreed(q)'
  <2> SUFFICES ASSUME NEW q \in RouteReqs PROVE Agreed(q)'
    OBVIOUS
  <2>1. CASE q # r
    BY <1>0, <1>1, <2>1 DEF RouteInv, RouteTypeOK, Agreed
  <2>2. CASE q = r /\ a # "allow"
    BY <1>0, <2>2 DEF Agreed
  <2>3. CASE q = r /\ a = "allow"
    BY <1>0, <1>1, <2>3 DEF Agreed
  <2> QED BY <2>1, <2>2, <2>3
<1> QED BY <1>2, <1>3, <1>4 DEF RouteInv

\* How persist_session ends: with a denial, the labels appended or not, or with
\* an allow once they are.
PersistEnds(r) ==
    /\ \/ UNCHANGED store
       \/ sess[r] \in Sessions /\ AppendLabels(sess[r], NewLabels(r))
    /\ \/ Finish(r, "deny") /\ UNCHANGED told
       \/ /\ answer[r] = "none" /\ Finish(r, "allow")
          /\ IF sess[r] = NoSession THEN UNCHANGED store
                                    ELSE AppendLabels(sess[r], NewLabels(r))
          /\ told' = [s \in Sessions |-> IF s = sess[r] THEN told[s] \cup taints[r]
                                                       ELSE told[s]]
    /\ Dropped(r) /\ UNCHANGED <<sess, gate>> /\ rpc[r] = "persist"

LEMMA PersistIs ==
    ASSUME RouteInv, NEW r \in RouteReqs, Persist(r) PROVE PersistEnds(r)
<1>1. sess[r] \in Sessions \cup {NoSession}
  BY DEF RouteInv, RouteTypeOK
<1>2. /\ Dropped(r) /\ UNCHANGED <<sess, gate>> /\ rpc[r] = "persist"
      /\ \/ Finish(r, "deny") /\ UNCHANGED told
         \/ /\ answer[r] = "none" /\ Finish(r, "allow")
            /\ IF sess[r] = NoSession THEN UNCHANGED store
                                      ELSE AppendLabels(sess[r], NewLabels(r))
            /\ told' = [s \in Sessions |-> IF s = sess[r] THEN told[s] \cup taints[r]
                                                         ELSE told[s]]
  BY Zenon DEF Persist, PersistFails
<1>3. \/ UNCHANGED store
      \/ sess[r] \in Sessions /\ AppendLabels(sess[r], NewLabels(r))
  BY <1>1, Zenon DEF Persist
<1> QED BY <1>2, <1>3, Zenon DEF PersistEnds

LEMMA PersistKeeps ==
    ASSUME RouteInv, NEW r \in RouteReqs, Persist(r) PROVE RouteInv'
<1>0. PersistEnds(r)
  BY PersistIs
<1>1. NewLabels(r) \in SUBSET Labels
  BY DEF RouteInv, RouteTypeOK, NewLabels, Applied
<1>2. store' \in [Sessions -> SUBSET Labels]
  <2>1. \/ UNCHANGED store
        \/ sess[r] \in Sessions /\ AppendLabels(sess[r], NewLabels(r))
    BY <1>0 DEF PersistEnds
  <2> QED BY <1>1, <2>1 DEF RouteInv, RouteTypeOK, AppendLabels
<1>3. told' \in [Sessions -> SUBSET Labels]
  <2>1. UNCHANGED told \/ told' = [s \in Sessions |-> IF s = sess[r] THEN told[s] \cup taints[r]
                                                                     ELSE told[s]]
    BY <1>0 DEF PersistEnds
  <2> QED BY <2>1 DEF RouteInv, RouteTypeOK
<1>4. answer[r] = "none" => \A m \in Members : verdict[r][m] = "allow"
  BY <1>0 DEF PersistEnds, RouteInv, Agreed
<1>5. /\ Dropped(r) /\ UNCHANGED <<sess, gate>>
      /\ \/ Finish(r, "deny")
         \/ answer[r] = "none" /\ Finish(r, "allow")
  BY <1>0 DEF PersistEnds
<1> QED BY <1>2, <1>3, <1>4, <1>5, FinishKeeps

LEMMA DroppedKeeps ==
    ASSUME RouteInv, NEW r \in RouteReqs, RouteDropped(r) PROVE RouteInv'
BY FinishKeeps DEF RouteDropped, RouteInv, RouteTypeOK

LEMMA RouteStep ==
    ASSUME RouteInv, [RouteNext]_routeVars PROVE RouteInv'
<1>1. CASE UNCHANGED routeVars
  BY <1>1 DEF routeVars, requestVars, memberVars, RouteInv, RouteTypeOK, Answered, Agreed
<1>2. CASE RouteNext
  BY <1>2, HydrateKeeps, GateKeeps, PluginKeeps, GroupKeeps, PersistKeeps, DroppedKeeps, MemberKeeps
     DEF RouteNext
<1> QED BY <1>1, <1>2

LEMMA RouteStart == RouteInit => RouteInv
BY DEF RouteInit, RouteInv, RouteTypeOK, Answered, Agreed, HandlerSteps, MemberEnds, NoVerdicts,
       NoAdds

\* The variables of a route evaluation keep their types, whatever requests carry.
THEOREM RouteTypeCorrect == RouteSpec => []RouteTypeOK
<1>1. RouteInv => RouteTypeOK
  BY DEF RouteInv
<1> QED BY <1>1, RouteStart, RouteStep, PTL DEF RouteSpec

\* Every member of a parallel group had its say in a request answered allow:
\* none denied, panicked or was aborted, whatever labels requests arrive with.
THEOREM EveryMemberAgreedHolds == RouteSpec => []EveryMemberAgreed
<1>1. RouteInv => EveryMemberAgreed
  BY DEF RouteInv, Agreed, EveryMemberAgreed
<1> QED BY <1>1, RouteStart, RouteStep, PTL DEF RouteSpec

\* Hydration of a request that carries no labels of its own.
LEMMA HydrateLabels ==
    ASSUME RouteInv, LabelInv, OwnLabels \subseteq {{}}, NEW r \in RouteReqs, Hydrate(r)
    PROVE  LabelInv'
<1>1. PICK s \in Sessions \cup {NoSession}, own \in OwnLabels, g \in BOOLEAN :
          /\ sess' = [sess EXCEPT ![r] = s]
          /\ gate' = [gate EXCEPT ![r] = g]
          /\ heard' = [heard EXCEPT ![r] = IF s = NoSession THEN {} ELSE told[s]]
          /\ \/ LET labels == own \cup (IF s = NoSession THEN {} ELSE store[s]) IN
                /\ exts' = [exts EXCEPT ![r] = labels]
                /\ initial' = [initial EXCEPT ![r] = labels]
                /\ rpc' = [rpc EXCEPT ![r] = "gate"]
                /\ UNCHANGED answer
             \/ s # NoSession /\ LoadFails(r)
  BY DEF Hydrate
<1>2. rpc[r] = "idle" /\ UNCHANGED <<store, told>>
  BY DEF Hydrate
<1>3. own = {}
  OBVIOUS
<1>4. PICK l : l = IF s = NoSession THEN {} ELSE store[s]
  OBVIOUS
<1>5. \/ /\ exts' = [exts EXCEPT ![r] = l] /\ initial' = [initial EXCEPT ![r] = l]
         /\ rpc' = [rpc EXCEPT ![r] = "gate"] /\ UNCHANGED answer
      \/ /\ rpc' = [rpc EXCEPT ![r] = "ended"] /\ answer' = [answer EXCEPT ![r] = "deny"]
         /\ UNCHANGED <<exts, initial>>
  BY <1>1, <1>3, <1>4 DEF LoadFails, Finish
<1>6. heard'[r] \subseteq l /\ sess'[r] = s
  BY <1>1, <1>4 DEF LabelInv, TaintDurable, RouteInv, RouteTypeOK
<1>7. TaintDurable'
  BY <1>2 DEF LabelInv, TaintDurable
<1>8. answer[r] = "none"
  BY <1>2 DEF RouteInv, Answered
<1>9. \A q \in RouteReqs \ {r} : Loaded(q)' /\ Guarded(q)'
  BY <1>1, <1>2, <1>5 DEF LabelInv, Loaded, Guarded, RouteInv, RouteTypeOK
<1>10. Loaded(r)'
  <2>1. rpc'[r] = "ended" \/ initial'[r] = l
    BY <1>5 DEF RouteInv, RouteTypeOK
  <2> QED BY <1>2, <1>4, <1>6, <2>1 DEF Loaded
<1>11. Guarded(r)'
  <2>1. \/ rpc'[r] = "ended" /\ answer'[r] = "deny"
        \/ rpc'[r] = "gate" /\ answer'[r] = "none" /\ exts'[r] = l
    BY <1>5, <1>8 DEF RouteInv, RouteTypeOK
  <2> QED BY <1>6, <2>1 DEF Guarded
<1> QED BY <1>7, <1>9, <1>10, <1>11 DEF LabelInv

LEMMA GateLabels ==
    ASSUME RouteInv, LabelInv, NEW r \in RouteReqs, Gate(r) PROVE LabelInv'
<1>1. /\ rpc[r] = "gate" /\ UNCHANGED <<store, told, sess, gate, exts, initial, heard>>
      /\ IF gate[r] /\ exts[r] # {}
         THEN /\ answer' = [answer EXCEPT ![r] = "deny"]
              /\ rpc' = [rpc EXCEPT ![r] = "persist"]
         ELSE /\ rpc' = [rpc EXCEPT ![r] = "plugins"]
              /\ UNCHANGED answer
  BY DEF Gate
<1>2. TaintDurable'
  BY <1>1 DEF LabelInv, TaintDurable
<1>3. \A q \in RouteReqs : Loaded(q)'
  BY <1>1 DEF LabelInv, Loaded, RouteInv, RouteTypeOK
<1>4. \A q \in RouteReqs : Guarded(q)'
  BY <1>1 DEF LabelInv, Guarded, RouteInv, RouteTypeOK, Answered
<1> QED BY <1>2, <1>3, <1>4 DEF LabelInv

LEMMA PluginLabels ==
    ASSUME RouteInv, LabelInv, NEW r \in RouteReqs, PluginStep(r) PROVE LabelInv'
<1>1. /\ rpc[r] = "plugins" /\ UNCHANGED <<store, told, sess, gate, initial, heard>>
      /\ \A q \in RouteReqs \ {r} : exts'[q] = exts[q]
      /\ \/ rpc' = [rpc EXCEPT ![r] = "group"] /\ UNCHANGED answer
         \/ /\ rpc' = [rpc EXCEPT ![r] = "persist"]
            /\ answer' = [answer EXCEPT ![r] = "deny"]
  BY DEF PluginStep, RouteInv, RouteTypeOK
<1>2. TaintDurable'
  BY <1>1 DEF LabelInv, TaintDurable
<1>3. \A q \in RouteReqs : Loaded(q)'
  BY <1>1 DEF LabelInv, Loaded, RouteInv, RouteTypeOK
<1>4. \A q \in RouteReqs : Guarded(q)'
  BY <1>1 DEF LabelInv, Guarded, RouteInv, RouteTypeOK, Answered
<1> QED BY <1>2, <1>3, <1>4 DEF LabelInv

LEMMA GroupLabels ==
    ASSUME RouteInv, LabelInv, NEW r \in RouteReqs, GroupEnds(r) PROVE LabelInv'
<1>1. /\ rpc[r] = "group" /\ UNCHANGED <<store, told, sess, gate, exts, initial, heard>>
      /\ rpc' = [rpc EXCEPT ![r] = "persist"]
      /\ \A q \in RouteReqs \ {r} : answer'[q] = answer[q]
  BY DEF GroupEnds, RouteInv, RouteTypeOK
<1>2. TaintDurable'
  BY <1>1 DEF LabelInv, TaintDurable
<1>3. \A q \in RouteReqs : Loaded(q)'
  BY <1>1 DEF LabelInv, Loaded, RouteInv, RouteTypeOK
<1>4. \A q \in RouteReqs : Guarded(q)'
  BY <1>1 DEF LabelInv, Guarded, RouteInv, RouteTypeOK
<1> QED BY <1>2, <1>3, <1>4 DEF LabelInv

\* The labels of the store only grow, and an allow is answered for taints that
\* were loaded from it or are appended first.
LEMMA PersistLabels ==
    ASSUME RouteInv, LabelInv, NEW r \in RouteReqs, Persist(r) PROVE LabelInv'
<1>0. PersistEnds(r)
  BY PersistIs
<1>1. \A s \in Sessions : store[s] \subseteq store'[s]
  <2>1. \/ UNCHANGED store
        \/ sess[r] \in Sessions /\ AppendLabels(sess[r], NewLabels(r))
    BY <1>0 DEF PersistEnds
  <2> QED BY <2>1 DEF AppendLabels, RouteInv, RouteTypeOK
<1>2. \A q \in RouteReqs \ {r} :
        /\ rpc'[q] = rpc[q] /\ answer'[q] = answer[q] /\ exts'[q] = exts[q]
        /\ initial'[q] = initial[q] /\ heard'[q] = heard[q]
  <2>1. Dropped(r) /\ (Finish(r, "deny") \/ Finish(r, "allow"))
    BY <1>0 DEF PersistEnds
  <2> QED BY <2>1 DEF Dropped, Finish, RouteInv, RouteTypeOK
<1>3. UNCHANGED <<sess, gate>> /\ rpc'[r] = "ended"
  BY <1>0 DEF PersistEnds, Finish, RouteInv, RouteTypeOK
<1>4. TaintDurable'
  <2>1. CASE UNCHANGED told
    BY <1>1, <2>1 DEF LabelInv, TaintDurable
  <2>2. CASE sess[r] = NoSession
    BY <1>0, <1>1, <2>2, RouteAssumption DEF PersistEnds, LabelInv, TaintDurable
  <2>3. CASE sess[r] # NoSession /\ ~UNCHANGED told
    <3>1. /\ AppendLabels(sess[r], NewLabels(r)) /\ sess[r] \in Sessions
          /\ told' = [s \in Sessions |-> IF s = sess[r] THEN told[s] \cup taints[r] ELSE told[s]]
      BY <1>0, <2>3 DEF PersistEnds, RouteInv, RouteTypeOK
    <3>2. initial[r] \subseteq store[sess[r]]
      BY <1>0, <2>3 DEF PersistEnds, LabelInv, Loaded
    <3>3. taints[r] \subseteq store'[sess[r]]
      BY <3>1, <3>2 DEF AppendLabels, NewLabels, Applied, RouteInv, RouteTypeOK
    <3> QED BY <1>1, <3>1, <3>3 DEF LabelInv, TaintDurable
  <2> QED BY <2>1, <2>2, <2>3
<1>5. \A q \in RouteReqs : Loaded(q)'
  BY <1>1, <1>2, <1>3 DEF LabelInv, Loaded, RouteInv, RouteTypeOK
<1>6. \A q \in RouteReqs \ {r} : Guarded(q)'
  BY <1>2, <1>3 DEF LabelInv, Guarded
<1>7. Guarded(r)'
  <2>1. CASE Finish(r, "deny")
    BY <1>3, <2>1 DEF Finish, Guarded, RouteInv, RouteTypeOK
  <2>2. CASE answer[r] = "none" /\ Finish(r, "allow")
    <3>1. gate[r] => heard[r] = {}
      BY <1>0, <2>2 DEF LabelInv, Guarded, PersistEnds
    <3>2. heard' = heard
      BY <1>0, <2>2 DEF PersistEnds, Dropped, Finish, RouteInv, RouteTypeOK
    <3> QED BY <1>3, <3>1, <3>2 DEF Guarded
  <2> QED BY <1>0, <2>1, <2>2 DEF PersistEnds
<1> QED BY <1>4, <1>5, <1>6, <1>7 DEF LabelInv

LEMMA DroppedLabels ==
    ASSUME RouteInv, LabelInv, NEW r \in RouteReqs, RouteDropped(r) PROVE LabelInv'
<1>1. \A q \in RouteReqs \ {r} :
        /\ rpc'[q] = rpc[q] /\ answer'[q] = answer[q] /\ exts'[q] = exts[q]
        /\ initial'[q] = initial[q] /\ heard'[q] = heard[q]
  BY DEF RouteDropped, Dropped, Finish, RouteInv, RouteTypeOK
<1>2. UNCHANGED <<store, told, sess, gate>> /\ rpc'[r] = "ended" /\ answer'[r] = "dropped"
  BY DEF RouteDropped, Finish, RouteInv, RouteTypeOK
<1> QED BY <1>1, <1>2 DEF LabelInv, TaintDurable, Loaded, Guarded

LEMMA LabelStep ==
    ASSUME RouteInv, LabelInv, OwnLabels \subseteq {{}}, [RouteNext]_routeVars PROVE LabelInv'
<1>1. CASE UNCHANGED routeVars
  BY <1>1 DEF routeVars, requestVars, memberVars, LabelInv, TaintDurable, Loaded, Guarded
<1>2. ASSUME NEW r \in RouteReqs, NEW m \in Members, MemberReturns(r, m) PROVE LabelInv'
  BY <1>2 DEF MemberReturns, requestVars, LabelInv, TaintDurable, Loaded, Guarded
<1>3. CASE RouteNext
  BY <1>2, <1>3, HydrateLabels, GateLabels, PluginLabels, GroupLabels, PersistLabels, DroppedLabels
     DEF RouteNext
<1> QED BY <1>1, <1>3

\* An allow is justified: its taints are in the session store, no taint of its
\* session answered for before it loaded was overlooked by its gate, and every
\* member of its group agreed.  It needs what the run assumes, that requests
\* arrive without labels of their own: a taint a request already carries is not
\* appended (persist_session), which is what the run taint_lost shows.
THEOREM AllowJustifiedHolds ==
    ASSUME OwnLabels \subseteq {{}} PROVE RouteSpec => []AllowJustified
<1>1. RouteInit => LabelInv
  BY DEF RouteInit, LabelInv, TaintDurable, Loaded, Guarded
<1>2. RouteInv /\ LabelInv => AllowJustified
  BY DEF RouteInv, LabelInv, Guarded, Agreed, AllowJustified, NoWriteDown, EveryMemberAgreed
<1>3. RouteInv /\ LabelInv /\ [RouteNext]_routeVars => RouteInv' /\ LabelInv'
  BY RouteStep, LabelStep
<1> QED BY <1>1, <1>2, <1>3, RouteStart, PTL DEF RouteSpec

-----------------------------------------------------------------------------
(* PolicyInstall: InstalledWhole.                                          *)

\* A load publishes at most three snapshots, and has two to come before
\* visit_global, one before visit_route: generations stay within their bound.
GenerationsInv ==
    /\ configGen \in Nat /\ configGen <= 3 * load.n
    /\ load.at \in {"plugins", "global", "swap"} => configGen + 2 <= 3 * load.n
    /\ load.at \in {"default", "bundle", "route"} => configGen + 1 <= 3 * load.n

LoadShape ==
    /\ load \in [n : 0 .. MaxLoads, at : Steps, doc : DOMAIN PolicyDocs \cup {"none"}]
    /\ load.at # "idle" => load.doc \in DOMAIN PolicyDocs
    /\ layers \in [Sections \ {"route"} -> 0 .. MaxLoads]
    /\ configPdps \in [Dialects -> 0 .. MaxLoads]
    /\ codePdps \subseteq Dialects /\ building \subseteq Dialects
    /\ handlers \in [Entities -> Handler \cup {NoHandler}]

\* Once visit_global has swapped the resolvers they are of this load.
SwappedInv ==
    load.at \in {"default", "bundle", "route"} =>
        \A x \in Dialects : configPdps[x] \in {0, load.n}

LoadInv ==
    LoadShape /\ GenerationsInv /\ SwappedInv /\ PdpsOfOneLoad /\ HostOwnsItsDialects

PlanStates == [at : {"empty", "building", "built"}, load : Nat]
InstallRecords ==
    [at : {"idle", "resolved", "lookup", "cell", "building", "done"},
     handler : Handler \cup {NoHandler}, gen : Nat, cell : Generations, plan : Nat]

RequestShape ==
    /\ cellGen \in Nat /\ cellGen <= configGen
    /\ plans \in [Generations -> PlanStates]
    /\ ireq \in [InstallReqs -> InstallRecords]

\* A cell in which a request builds is marked so.
BuildersMark ==
    \A r \in InstallReqs : ireq[r].at = "building" => plans[ireq[r].cell].at = "building"

RequestInv == RequestShape /\ BuildersMark /\ OneBuilder /\ NewerCellKept

LEMMA StepsAre ==
    /\ {"idle", "plugins", "global", "swap", "default", "bundle", "route", "complete"} = Steps
    /\ Entities = {"catchall", "tool"}
    /\ \A s \in {"global", "default", "bundle"} : s \in Sections \ {"route"}
BY DEF Steps, Entities, Sections

\* A step of the walk from one step to another, the document unchanged.
LEMMA WalkStep ==
    ASSUME LoadShape, NEW step \in Steps, WalkGoes(step), load.at # "idle"
    PROVE  /\ load' \in [n : 0 .. MaxLoads, at : Steps, doc : DOMAIN PolicyDocs \cup {"none"}]
           /\ load'.n = load.n /\ load'.doc = load.doc /\ load'.at = step
           /\ load'.doc \in DOMAIN PolicyDocs
BY DEF LoadShape, WalkGoes

\* A handler installed from resolvers of this load.
LEMMA InstalledIs ==
    ASSUME LoadShape, NEW stack \in [Sections -> 0 .. MaxLoads],
           NEW pdps \in [Dialects -> 0 .. MaxLoads],
           \A x \in Dialects : pdps[x] \in {0, load.n} /\ (x \in codePdps => pdps[x] = 0)
    PROVE  LET h == Installed(stack, pdps) IN
           /\ h \in Handler
           /\ \A x \in Dialects : h.pdps[x] \in {0, h.load} /\ (x \in h.code => h.pdps[x] = 0)
<1>1. stack \in [Sections -> Nat] /\ pdps \in [Dialects -> Nat] /\ load.n \in Nat
  BY InstallAssumption DEF LoadShape
<1> QED BY <1>1 DEF Installed, Handler, LoadShape

\* Handlers change only by one entity, to one of this load.
LEMMA PdpsKept ==
    ASSUME LoadShape, PdpsOfOneLoad, NEW e \in Entities, NEW h \in Handler,
           \A x \in Dialects : h.pdps[x] \in {0, h.load} /\ (x \in h.code => h.pdps[x] = 0),
           handlers' = [handlers EXCEPT ![e] = h]
    PROVE  PdpsOfOneLoad' /\ handlers' \in [Entities -> Handler \cup {NoHandler}]
<1>1. \A f \in Entities : handlers'[f] = IF f = e THEN h ELSE handlers[f]
  BY DEF LoadShape
<1> QED BY <1>1 DEF LoadShape, PdpsOfOneLoad

LEMMA PublishKeeps ==
    ASSUME LoadInv, NEW d \in DOMAIN PolicyDocs, LoadPublishes(d) PROVE LoadInv'
<1>1. load'.n = load.n + 1 /\ load'.at = "plugins" /\ load'.doc = d /\ load.n < MaxLoads
  BY DEF LoadPublishes
<1>2. load' \in [n : 0 .. MaxLoads, at : Steps, doc : DOMAIN PolicyDocs \cup {"none"}]
  BY StepsAre, InstallAssumption DEF LoadPublishes, LoadInv, LoadShape
<1>3. LoadShape'
  BY <1>1, <1>2 DEF LoadPublishes, LoadInv, LoadShape
<1>4. GenerationsInv'
  BY <1>1 DEF LoadPublishes, LoadInv, LoadShape, GenerationsInv
<1>5. SwappedInv' /\ HostOwnsItsDialects'
  BY <1>1 DEF LoadPublishes, LoadInv, SwappedInv, HostOwnsItsDialects
<1>6. PdpsOfOneLoad'
  BY DEF LoadPublishes, PdpsOfOneLoad
<1> QED BY <1>3, <1>4, <1>5, <1>6 DEF LoadInv

LEMMA PluginsKeeps == ASSUME LoadInv, VisitPlugins PROVE LoadInv'
<1>1. /\ WalkGoes("global") /\ load.at = "plugins"
      /\ UNCHANGED <<layers, codePdps, configPdps, building, handlers, configGen>>
  BY DEF VisitPlugins
<1>2. load' \in [n : 0 .. MaxLoads, at : Steps, doc : DOMAIN PolicyDocs \cup {"none"}]
      /\ load'.n = load.n /\ load'.at = "global" /\ load'.doc \in DOMAIN PolicyDocs
  BY <1>1, WalkStep, StepsAre DEF LoadInv
<1>3. LoadShape'
  BY <1>1, <1>2 DEF LoadInv, LoadShape
<1> QED BY <1>1, <1>2, <1>3
        DEF LoadInv, GenerationsInv, SwappedInv, PdpsOfOneLoad, HostOwnsItsDialects

LEMMA BuildKeeps == ASSUME LoadInv, BuildPdps PROVE LoadInv'
<1>1. /\ WalkGoes("swap") /\ load.at = "global"
      /\ UNCHANGED <<layers, codePdps, configPdps, handlers, configGen>>
  BY DEF BuildPdps
<1>2. load' \in [n : 0 .. MaxLoads, at : Steps, doc : DOMAIN PolicyDocs \cup {"none"}]
      /\ load'.n = load.n /\ load'.at = "swap" /\ load'.doc \in DOMAIN PolicyDocs
  BY <1>1, WalkStep, StepsAre DEF LoadInv
<1>3. building' \subseteq Dialects
  BY <1>1, InstallAssumption DEF BuildPdps, Doc, LoadInv, LoadShape
<1>4. LoadShape'
  BY <1>1, <1>2, <1>3 DEF LoadInv, LoadShape
<1> QED BY <1>1, <1>2, <1>4
        DEF LoadInv, GenerationsInv, SwappedInv, PdpsOfOneLoad, HostOwnsItsDialects

\* What the swap leaves, with the document's resolvers or with none.
LEMMA SwapLeaves ==
    ASSUME LoadInv, SetConfigResolvers \/ NoTerms, UNCHANGED codePdps
    PROVE  /\ configPdps' \in [Dialects -> 0 .. MaxLoads]
           /\ \A x \in Dialects : configPdps'[x] \in {0, load.n} /\ (x \in codePdps => configPdps'[x] = 0)
           /\ HostOwnsItsDialects'
<1>1. load.n \in 0 .. MaxLoads /\ codePdps \subseteq Dialects /\ 0 \in 0 .. MaxLoads
  BY InstallAssumption DEF LoadInv, LoadShape
<1> QED BY <1>1 DEF SetConfigResolvers, NoTerms, HostOwnsItsDialects

LEMMA GlobalKeeps == ASSUME LoadInv, VisitGlobal PROVE LoadInv'
<1>1. /\ WalkGoes("default") /\ load.at = "swap" /\ building' = {} /\ UNCHANGED codePdps
      /\ \/ /\ SetConfigResolvers
            /\ handlers' = [handlers EXCEPT !["catchall"] =
                  Installed([s \in Sections |-> IF s = "global" THEN load.n ELSE 0], configPdps')]
            /\ configGen' = configGen + 1
            /\ layers' = [layers EXCEPT !["global"] = load.n]
         \/ NoTerms /\ UNCHANGED <<handlers, configGen, layers>>
  BY DEF VisitGlobal
<1>2. load' \in [n : 0 .. MaxLoads, at : Steps, doc : DOMAIN PolicyDocs \cup {"none"}]
      /\ load'.n = load.n /\ load'.at = "default" /\ load'.doc \in DOMAIN PolicyDocs
  BY <1>1, WalkStep, StepsAre DEF LoadInv
<1>3. /\ configPdps' \in [Dialects -> 0 .. MaxLoads]
      /\ \A x \in Dialects : configPdps'[x] \in {0, load.n} /\ (x \in codePdps => configPdps'[x] = 0)
      /\ HostOwnsItsDialects'
  BY <1>1, SwapLeaves
<1>4. PdpsOfOneLoad' /\ handlers' \in [Entities -> Handler \cup {NoHandler}]
  <2>1. CASE UNCHANGED handlers
    BY <2>1 DEF LoadInv, LoadShape, PdpsOfOneLoad
  <2>2. CASE handlers' = [handlers EXCEPT !["catchall"] =
                  Installed([s \in Sections |-> IF s = "global" THEN load.n ELSE 0], configPdps')]
    <3>1. [s \in Sections |-> IF s = "global" THEN load.n ELSE 0] \in [Sections -> 0 .. MaxLoads]
      BY InstallAssumption DEF LoadInv, LoadShape
    <3>2. PICK stack \in [Sections -> 0 .. MaxLoads], pdps \in [Dialects -> 0 .. MaxLoads] :
              /\ handlers' = [handlers EXCEPT !["catchall"] = Installed(stack, pdps)]
              /\ pdps = configPdps'
      BY <1>3, <2>2, <3>1
    <3>3. /\ Installed(stack, pdps) \in Handler
          /\ \A x \in Dialects :
                /\ Installed(stack, pdps).pdps[x] \in {0, Installed(stack, pdps).load}
                /\ x \in Installed(stack, pdps).code => Installed(stack, pdps).pdps[x] = 0
      BY <1>3, <3>2, InstalledIs DEF LoadInv
    <3> QED BY <3>2, <3>3, PdpsKept, StepsAre DEF LoadInv
  <2> QED BY <1>1, <2>1, <2>2
<1>5. layers' \in [Sections \ {"route"} -> 0 .. MaxLoads]
  BY <1>1, StepsAre DEF LoadInv, LoadShape
<1>6. LoadShape'
  BY <1>1, <1>2, <1>3, <1>4, <1>5 DEF LoadInv, LoadShape
<1>7. SwappedInv'
  BY <1>2, <1>3 DEF SwappedInv
<1>8. GenerationsInv'
  BY <1>1, <1>2 DEF LoadInv, LoadShape, GenerationsInv
<1> QED BY <1>3, <1>4, <1>6, <1>7, <1>8 DEF LoadInv

LEMMA SectionKeeps ==
    ASSUME LoadInv, NEW s \in {"default", "bundle"}, NEW then \in {"bundle", "route"},
           VisitSection(s, then)
    PROVE  LoadInv'
<1>1. /\ WalkGoes(then) /\ load.at = s
      /\ UNCHANGED <<codePdps, configPdps, building, handlers, configGen>>
      /\ layers' = [layers EXCEPT ![s] = IF s \in Doc.sections THEN load.n ELSE @]
  BY DEF VisitSection
<1>2. load' \in [n : 0 .. MaxLoads, at : Steps, doc : DOMAIN PolicyDocs \cup {"none"}]
      /\ load'.n = load.n /\ load'.at = then /\ load'.doc \in DOMAIN PolicyDocs
  BY <1>1, WalkStep, StepsAre DEF LoadInv
<1>3. layers' \in [Sections \ {"route"} -> 0 .. MaxLoads]
  BY <1>1, StepsAre DEF LoadInv, LoadShape
<1>4. LoadShape'
  BY <1>1, <1>2, <1>3 DEF LoadInv, LoadShape
<1>5. load.at \in {"default", "bundle", "route"} /\ load'.at \in {"default", "bundle", "route"}
      /\ load'.at \notin {"plugins", "global", "swap"}
  BY <1>1, <1>2
<1> QED BY <1>1, <1>2, <1>4, <1>5
        DEF LoadInv, GenerationsInv, SwappedInv, PdpsOfOneLoad, HostOwnsItsDialects

LEMMA RouteKeeps == ASSUME LoadInv, VisitRoute PROVE LoadInv'
<1>1. PICK own \in {load.n, 0} :
      /\ WalkGoes("complete") /\ load.at = "route"
      /\ UNCHANGED <<layers, codePdps, configPdps, building>>
      /\ \/ /\ handlers' = [handlers EXCEPT !["tool"] = Installed(Stack(own), configPdps)]
            /\ configGen' = configGen + 1
         \/ UNCHANGED <<handlers, configGen>>
  <2> DEFINE o == IF "route" \in Doc.sections THEN load.n ELSE 0
  <2>1. o \in {load.n, 0}
    OBVIOUS
  <2>2. /\ WalkGoes("complete") /\ load.at = "route"
      /\ UNCHANGED <<layers, codePdps, configPdps, building>>
      /\ \/ /\ handlers' = [handlers EXCEPT !["tool"] = Installed(Stack(o), configPdps)]
            /\ configGen' = configGen + 1
         \/ UNCHANGED <<handlers, configGen>>
    BY DEF VisitRoute
  <2> HIDE DEF o
  <2> QED BY <2>1, <2>2
<1>2. load' \in [n : 0 .. MaxLoads, at : Steps, doc : DOMAIN PolicyDocs \cup {"none"}]
      /\ load'.n = load.n /\ load'.at = "complete" /\ load'.doc \in DOMAIN PolicyDocs
  BY <1>1, WalkStep, StepsAre DEF LoadInv
<1>3. /\ configPdps \in [Dialects -> 0 .. MaxLoads]
      /\ \A x \in Dialects : configPdps[x] \in {0, load.n} /\ (x \in codePdps => configPdps[x] = 0)
  BY <1>1 DEF LoadInv, LoadShape, SwappedInv, HostOwnsItsDialects
<1>4. PdpsOfOneLoad' /\ handlers' \in [Entities -> Handler \cup {NoHandler}]
  <2>1. CASE UNCHANGED handlers
    BY <2>1 DEF LoadInv, LoadShape, PdpsOfOneLoad
  <2>2. CASE handlers' = [handlers EXCEPT !["tool"] = Installed(Stack(own), configPdps)]
    <3>1. Stack(own) \in [Sections -> 0 .. MaxLoads]
      <4>1. own \in 0 .. MaxLoads
        BY <1>1, InstallAssumption DEF LoadInv, LoadShape
      <4> QED BY <4>1 DEF Stack, LoadInv, LoadShape
    <3>2. PICK stack \in [Sections -> 0 .. MaxLoads] : stack = Stack(own)
      BY <3>1
    <3>3. /\ Installed(stack, configPdps) \in Handler
          /\ \A x \in Dialects :
                /\ Installed(stack, configPdps).pdps[x] \in {0, Installed(stack, configPdps).load}
                /\ x \in Installed(stack, configPdps).code
                      => Installed(stack, configPdps).pdps[x] = 0
      BY <1>3, InstalledIs DEF LoadInv
    <3> QED BY <2>2, <3>2, <3>3, PdpsKept, StepsAre DEF LoadInv
  <2> QED BY <1>1, <2>1, <2>2
<1>5. LoadShape'
  BY <1>1, <1>2, <1>4 DEF LoadInv, LoadShape
<1>6. GenerationsInv'
  BY <1>1, <1>2 DEF LoadInv, LoadShape, GenerationsInv
<1>7. SwappedInv' /\ HostOwnsItsDialects'
  BY <1>1, <1>2 DEF LoadInv, SwappedInv, HostOwnsItsDialects
<1> QED BY <1>4, <1>5, <1>6, <1>7 DEF LoadInv

LEMMA WalkEnds == ASSUME LoadInv, WalkReturns \/ VisitorRejects PROVE LoadInv'
<1>1. /\ WalkGoes("idle") /\ load.at # "idle" /\ building' \subseteq Dialects
      /\ UNCHANGED <<layers, codePdps, handlers, configGen>>
      /\ SetConfigResolvers \/ UNCHANGED configPdps
  BY DEF WalkReturns, VisitorRejects, LoadInv, LoadShape
<1>2. load' \in [n : 0 .. MaxLoads, at : Steps, doc : DOMAIN PolicyDocs \cup {"none"}]
      /\ load'.n = load.n /\ load'.at = "idle" /\ load'.doc \in DOMAIN PolicyDocs
  BY <1>1, WalkStep, StepsAre DEF LoadInv
<1>3. configPdps' \in [Dialects -> 0 .. MaxLoads] /\ HostOwnsItsDialects'
  <2>1. CASE SetConfigResolvers
    BY <1>1, <2>1, SwapLeaves
  <2>2. CASE UNCHANGED configPdps
    BY <1>1, <2>2 DEF LoadInv, LoadShape, HostOwnsItsDialects
  <2> QED BY <1>1, <2>1, <2>2
<1>4. LoadShape'
  BY <1>1, <1>2, <1>3 DEF LoadInv, LoadShape
<1> QED BY <1>1, <1>2, <1>3, <1>4 DEF LoadInv, GenerationsInv, SwappedInv, PdpsOfOneLoad

LEMMA RegisterKeeps ==
    ASSUME LoadInv, NEW x \in Dialects, RegisterPdp(x) PROVE LoadInv'
<1>1. \A y \in Dialects : configPdps'[y] = IF y = x THEN 0 ELSE configPdps[y]
  BY DEF RegisterPdp, LoadInv, LoadShape
<1>2. configPdps' \in [Dialects -> 0 .. MaxLoads] /\ codePdps' = codePdps \cup {x}
      /\ UNCHANGED <<load, layers, building, handlers, configGen>>
  BY InstallAssumption DEF RegisterPdp, LoadInv, LoadShape
<1>3. LoadShape'
  BY <1>2 DEF LoadInv, LoadShape
<1>4. HostOwnsItsDialects'
  BY <1>1, <1>2 DEF LoadInv, LoadShape, HostOwnsItsDialects
<1>5. SwappedInv'
  BY <1>1, <1>2 DEF LoadInv, SwappedInv
<1> QED BY <1>2, <1>3, <1>4, <1>5 DEF LoadInv, GenerationsInv, PdpsOfOneLoad

\* The loader's steps: the requests' own state is left alone and the
\* generation does not go back.
LoadSteps ==
    \/ \E d \in DOMAIN PolicyDocs : LoadPublishes(d)
    \/ VisitPlugins \/ BuildPdps \/ VisitGlobal
    \/ VisitSection("default", "bundle") \/ VisitSection("bundle", "route")
    \/ VisitRoute \/ WalkReturns \/ VisitorRejects
    \/ \E x \in Dialects : RegisterPdp(x)

LEMMA LoadKeeps == ASSUME LoadInv, RequestInv, LoadSteps PROVE LoadInv' /\ RequestInv'
<1>1. LoadInv'
  <2>1. CASE VisitSection("default", "bundle") \/ VisitSection("bundle", "route")
    BY <2>1, SectionKeeps
  <2> QED BY <2>1, PublishKeeps, PluginsKeeps, BuildKeeps, GlobalKeeps, RouteKeeps, WalkEnds,
             RegisterKeeps DEF LoadSteps
<1>2. UNCHANGED <<cellGen, plans, ireq>>
  BY DEF LoadSteps, LoadPublishes, VisitPlugins, BuildPdps, VisitGlobal, VisitSection, VisitRoute,
         WalkReturns, VisitorRejects, RegisterPdp
<1>3. configGen' \in {configGen, configGen + 1}
  BY DEF LoadSteps, LoadPublishes, VisitPlugins, BuildPdps, VisitGlobal, VisitSection, VisitRoute,
         WalkReturns, VisitorRejects, RegisterPdp
<1>4. cellGen <= configGen'
  BY <1>3 DEF LoadInv, GenerationsInv, RequestInv, RequestShape
<1> QED BY <1>1, <1>2, <1>4
        DEF RequestInv, RequestShape, BuildersMark, OneBuilder, NewerCellKept

\* Every generation is one of the bounded set the plans are kept for.
LEMMA GenerationsBounded == ASSUME LoadInv PROVE configGen \in Generations /\ 0 \in Generations
<1>1. load.n \in 0 .. MaxLoads /\ MaxLoads \in Nat /\ configGen \in Nat /\ configGen <= 3 * load.n
  BY InstallAssumption DEF LoadInv, LoadShape, GenerationsInv
<1> QED BY <1>1 DEF Generations

\* A request's step that builds nothing.
LEMMA RequestMoves ==
    ASSUME RequestInv, NEW r \in InstallReqs, NEW rec \in InstallRecords,
           ireq' = [ireq EXCEPT ![r] = rec], UNCHANGED <<configGen, plans>>,
           cellGen' \in Nat, cellGen <= cellGen', cellGen' <= configGen,
           rec.at # "building", rec.at = "cell" => rec.cell <= cellGen'
    PROVE  RequestInv'
<1>1. \A q \in InstallReqs : ireq'[q] = IF q = r THEN rec ELSE ireq[q]
  BY DEF RequestInv, RequestShape
<1>2. RequestShape'
  BY DEF RequestInv, RequestShape
<1>3. BuildersMark' /\ OneBuilder'
  BY <1>1 DEF RequestInv, BuildersMark, OneBuilder
<1>4. NewerCellKept'
  <2>1. \A q \in InstallReqs : ireq[q].cell \in Nat
    BY DEF RequestInv, RequestShape, InstallRecords, Generations
  <2>2. cellGen \in Nat
    BY DEF RequestInv, RequestShape
  <2> QED BY <1>1, <2>1, <2>2 DEF RequestInv, NewerCellKept
<1> QED BY <1>2, <1>3, <1>4 DEF RequestInv

\* A request's step inside a cell it has found, which rewrites that cell's plan.
LEMMA CellMoves ==
    ASSUME RequestInv, NEW r \in InstallReqs, NEW rec \in InstallRecords, NEW plan \in PlanStates,
           ireq' = [ireq EXCEPT ![r] = rec], plans' = [plans EXCEPT ![ireq[r].cell] = plan],
           UNCHANGED <<configGen, cellGen>>,
           ireq[r].at \in {"cell", "building"}, rec.at # "idle" => rec.cell = ireq[r].cell,
           rec.at \in {"building", "cell", "idle"},
           rec.at = "building" <=> plan.at = "building",
           \A q \in InstallReqs \ {r} : ireq[q].at = "building" => ireq[q].cell # ireq[r].cell
    PROVE  RequestInv'
<1>1. \A q \in InstallReqs : ireq'[q] = IF q = r THEN rec ELSE ireq[q]
  BY DEF RequestInv, RequestShape
<1>2. \A g \in Generations : plans'[g] = IF g = ireq[r].cell THEN plan ELSE plans[g]
  BY DEF RequestInv, RequestShape
<1>3. \A q \in InstallReqs : ireq[q].cell \in Generations
  BY DEF RequestInv, RequestShape, InstallRecords
<1>4. RequestShape'
  BY DEF RequestInv, RequestShape
<1>5. BuildersMark'
  BY <1>1, <1>2, <1>3 DEF RequestInv, BuildersMark
<1>6. OneBuilder'
  BY <1>1 DEF RequestInv, OneBuilder
<1>7. NewerCellKept'
  BY <1>1 DEF RequestInv, NewerCellKept
<1> QED BY <1>4, <1>5, <1>6, <1>7 DEF RequestInv

LEMMA LooksUp ==
    ASSUME LoadInv, RequestInv, NEW r \in InstallReqs,
           RouteResolves(r) \/ ReadGeneration(r) \/ FindCell(r) \/ Dispatches(r)
    PROVE  RequestInv'
<1>1. ireq[r] \in InstallRecords /\ ireq \in [InstallReqs -> InstallRecords]
  BY DEF RequestInv, RequestShape
<1>2. configGen \in Nat /\ cellGen \in Nat /\ cellGen <= configGen
  BY DEF LoadInv, GenerationsInv, RequestInv, RequestShape
<1>3. CASE RouteResolves(r)
  <2> DEFINE rec == [ireq[r] EXCEPT !.at = "resolved", !.handler = handlers["tool"]]
  <2>1. handlers["tool"] \in Handler \cup {NoHandler}
    BY StepsAre DEF LoadInv, LoadShape
  <2>2. rec \in InstallRecords /\ rec.at = "resolved"
    BY <1>1, <2>1 DEF InstallRecords
  <2>3. ireq' = [ireq EXCEPT ![r] = rec] /\ UNCHANGED <<configGen, plans, cellGen>>
    BY <1>1, <1>3 DEF RouteResolves
  <2> HIDE DEF rec
  <2>4. rec.at # "building" /\ rec.at # "cell" /\ cellGen' \in Nat /\ cellGen <= cellGen'
        /\ cellGen' <= configGen
    BY <1>2, <2>2, <2>3
  <2> QED BY <2>2, <2>3, <2>4, RequestMoves
<1>4. CASE ReadGeneration(r)
  <2> DEFINE rec == [ireq[r] EXCEPT !.at = "lookup", !.gen = configGen]
  <2>2. rec \in InstallRecords /\ rec.at = "lookup"
    BY <1>1, <1>2 DEF InstallRecords
  <2>3. ireq' = [ireq EXCEPT ![r] = rec] /\ UNCHANGED <<configGen, plans, cellGen>>
    BY <1>1, <1>4 DEF ReadGeneration
  <2> HIDE DEF rec
  <2>4. rec.at # "building" /\ rec.at # "cell" /\ cellGen' \in Nat /\ cellGen <= cellGen'
        /\ cellGen' <= configGen
    BY <1>2, <2>2, <2>3
  <2> QED BY <2>2, <2>3, <2>4, RequestMoves
<1>5. CASE FindCell(r)
  <2>1. cellGen' \in {cellGen, configGen} /\ UNCHANGED <<configGen, plans>>
    BY <1>5 DEF FindCell, PlanCell
  <2>2. cellGen' \in Generations
    BY <1>2, <2>1, GenerationsBounded, InstallAssumption DEF Generations
  <2> DEFINE rec == [ireq[r] EXCEPT !.at = "cell", !.cell = cellGen']
  <2>3. rec \in InstallRecords /\ rec.at = "cell" /\ rec.cell = cellGen'
    BY <1>1, <2>2 DEF InstallRecords
  <2>4. ireq' = [ireq EXCEPT ![r] = rec]
    BY <1>1, <1>5 DEF FindCell
  <2>5. cellGen' \in Nat /\ cellGen <= cellGen' /\ cellGen' <= configGen
    BY <1>2, <2>1
  <2> HIDE DEF rec
  <2>6. rec.at # "building" /\ (rec.at = "cell" => rec.cell <= cellGen')
    BY <2>3, <2>5
  <2> QED BY <2>1, <2>3, <2>4, <2>5, <2>6, RequestMoves
<1>6. CASE Dispatches(r)
  <2>1. plans[ireq[r].cell].load \in Nat
    BY <1>1 DEF InstallRecords, RequestInv, RequestShape, PlanStates
  <2> DEFINE rec == [ireq[r] EXCEPT !.at = "done", !.plan = plans[ireq[r].cell].load]
  <2>2. rec \in InstallRecords /\ rec.at = "done"
    BY <1>1, <2>1 DEF InstallRecords
  <2>3. ireq' = [ireq EXCEPT ![r] = rec] /\ UNCHANGED <<configGen, plans, cellGen>>
    BY <1>1, <1>6 DEF Dispatches
  <2> HIDE DEF rec
  <2>4. rec.at # "building" /\ rec.at # "cell" /\ cellGen' \in Nat /\ cellGen <= cellGen'
        /\ cellGen' <= configGen
    BY <1>2, <2>2, <2>3
  <2> QED BY <2>2, <2>3, <2>4, RequestMoves
<1> QED BY <1>3, <1>4, <1>5, <1>6

LEMMA Builds ==
    ASSUME LoadInv, RequestInv, NEW r \in InstallReqs,
           BeginBuild(r) \/ EndBuild(r) \/ BuilderDropped(r)
    PROVE  RequestInv'
<1>1. ireq[r] \in InstallRecords /\ ireq \in [InstallReqs -> InstallRecords]
  BY DEF RequestInv, RequestShape
<1>2. /\ ireq[r].cell \in Generations /\ plans \in [Generations -> PlanStates]
      /\ plans[ireq[r].cell] \in PlanStates
  BY <1>1 DEF InstallRecords, RequestInv, RequestShape
<1>3. CASE BeginBuild(r)
  <2> DEFINE rec == [ireq[r] EXCEPT !.at = "building"]
             plan == [plans[ireq[r].cell] EXCEPT !.at = "building"]
  <2>1. rec \in InstallRecords /\ rec.at = "building" /\ rec.cell = ireq[r].cell
    BY <1>1 DEF InstallRecords
  <2>2. plan \in PlanStates /\ plan.at = "building"
    BY <1>2 DEF PlanStates
  <2>3. ireq' = [ireq EXCEPT ![r] = rec] /\ plans' = [plans EXCEPT ![ireq[r].cell] = plan]
        /\ UNCHANGED <<configGen, cellGen>> /\ ireq[r].at = "cell"
    BY <1>1, <1>2, <1>3 DEF BeginBuild
  <2>4. \A q \in InstallReqs \ {r} : ireq[q].at = "building" => ireq[q].cell # ireq[r].cell
    BY <1>3 DEF BeginBuild, MayBuild, RequestInv, BuildersMark
  <2> QED BY <2>1, <2>2, <2>3, <2>4, CellMoves
<1>4. \A q \in InstallReqs \ {r} :
        ireq[r].at = "building" /\ ireq[q].at = "building" => ireq[q].cell # ireq[r].cell
  BY DEF RequestInv, OneBuilder
<1>5. CASE EndBuild(r)
  <2> DEFINE rec == [ireq[r] EXCEPT !.at = "cell"]
             plan == [at |-> "built", load |-> ireq[r].handler.load]
  <2>1. rec \in InstallRecords /\ rec.at = "cell" /\ rec.cell = ireq[r].cell
    BY <1>1 DEF InstallRecords
  <2>2. plan \in PlanStates /\ plan.at = "built"
    BY <1>1 DEF PlanStates, InstallRecords, Handler, NoHandler
  <2>3. ireq' = [ireq EXCEPT ![r] = rec] /\ plans' = [plans EXCEPT ![ireq[r].cell] = plan]
        /\ UNCHANGED <<configGen, cellGen>> /\ ireq[r].at = "building"
    BY <1>1, <1>2, <1>5 DEF EndBuild
  <2> QED BY <1>4, <2>1, <2>2, <2>3, CellMoves
<1>6. CASE BuilderDropped(r)
  <2>1. IdleInstall \in InstallRecords /\ IdleInstall.at = "idle"
    BY GenerationsBounded DEF IdleInstall, InstallRecords
  <2>2. Unbuilt \in PlanStates /\ Unbuilt.at = "empty"
    BY DEF Unbuilt, PlanStates
  <2>3. ireq' = [ireq EXCEPT ![r] = IdleInstall] /\ plans' = [plans EXCEPT ![ireq[r].cell] = Unbuilt]
        /\ UNCHANGED <<configGen, cellGen>> /\ ireq[r].at = "building"
    BY <1>6 DEF BuilderDropped
  <2> QED BY <1>4, <2>1, <2>2, <2>3, CellMoves
<1> QED BY <1>3, <1>5, <1>6

LEMMA RequestKeeps ==
    ASSUME LoadInv, RequestInv, NEW r \in InstallReqs,
           \/ RouteResolves(r) \/ ReadGeneration(r) \/ FindCell(r)
           \/ BeginBuild(r) \/ EndBuild(r) \/ BuilderDropped(r) \/ Dispatches(r)
    PROVE  LoadInv' /\ RequestInv'
<1>1. UNCHANGED <<loadVars, configGen>>
  BY DEF RouteResolves, ReadGeneration, FindCell, BeginBuild, EndBuild, BuilderDropped, Dispatches
<1>2. LoadInv'
  BY <1>1 DEF loadVars, LoadInv, LoadShape, GenerationsInv, SwappedInv, PdpsOfOneLoad,
              HostOwnsItsDialects
<1>3. RequestInv'
  BY LooksUp, Builds
<1> QED BY <1>2, <1>3

LEMMA InstallStep ==
    ASSUME LoadInv, RequestInv, [InstallNext]_installVars PROVE LoadInv' /\ RequestInv'
<1>1. CASE UNCHANGED installVars
  BY <1>1 DEF installVars, LoadInv, LoadShape, GenerationsInv, SwappedInv, PdpsOfOneLoad,
              HostOwnsItsDialects, RequestInv, RequestShape, BuildersMark, OneBuilder, NewerCellKept
<1>2. CASE LoadSteps
  BY <1>2, LoadKeeps
<1>3. CASE \E r \in InstallReqs :
          \/ RouteResolves(r) \/ ReadGeneration(r) \/ FindCell(r)
          \/ BeginBuild(r) \/ EndBuild(r) \/ BuilderDropped(r) \/ Dispatches(r)
  BY <1>3, RequestKeeps
<1> QED BY <1>1, <1>2, <1>3 DEF InstallNext, LoadSteps

LEMMA InstallStart == InstallInit => LoadInv /\ RequestInv
<1> SUFFICES ASSUME InstallInit PROVE LoadInv /\ RequestInv
  OBVIOUS
<1>1. 0 \in 0 .. MaxLoads /\ 0 \in Generations
  BY InstallAssumption DEF Generations
<1>2. LoadShape
  BY <1>1 DEF InstallInit, LoadShape, Steps
<1>3. GenerationsInv /\ SwappedInv /\ PdpsOfOneLoad /\ HostOwnsItsDialects
  BY DEF InstallInit, GenerationsInv, SwappedInv, PdpsOfOneLoad, HostOwnsItsDialects
<1>4. RequestShape
  <2>1. IdleInstall \in InstallRecords /\ Unbuilt \in PlanStates
    BY <1>1 DEF IdleInstall, InstallRecords, Unbuilt, PlanStates
  <2> QED BY <2>1 DEF InstallInit, RequestShape
<1>5. BuildersMark /\ OneBuilder /\ NewerCellKept
  BY DEF InstallInit, IdleInstall, BuildersMark, OneBuilder, NewerCellKept
<1> QED BY <1>2, <1>3, <1>4, <1>5 DEF LoadInv, RequestInv

\* The variables of an installation keep their types, the generations their bound.
THEOREM InstallTypeCorrect == InstallSpec => []InstallTypeOK
<1>1. LoadInv /\ RequestInv => InstallTypeOK
  <2> SUFFICES ASSUME LoadInv, RequestInv PROVE InstallTypeOK
    OBVIOUS
  <2>1. load.n \in 0 .. MaxLoads /\ load.at \in Steps
    BY DEF LoadInv, LoadShape
  <2>2. configGen \in Generations /\ cellGen \in 0 .. configGen
    BY GenerationsBounded DEF LoadInv, GenerationsInv, RequestInv, RequestShape
  <2> QED BY <2>1, <2>2 DEF InstallTypeOK, LoadInv, LoadShape
<1> QED BY <1>1, InstallStart, InstallStep, PTL DEF InstallSpec

\* visitor.rs, pdp_router.rs and dispatch_plan.rs across reloads: a handler's PDPs
\* are the host's or its own document's, config-owned resolvers never shadow the
\* host's, a cell's plan has one builder and an older cell never replaces a newer
\* one, for any documents, dialects and requests.  The load a plan was built from
\* is no part of it.
THEOREM InstalledWholeHolds == InstallSpec => []InstalledWhole
<1>1. LoadInv /\ RequestInv => InstalledWhole
  BY DEF LoadInv, RequestInv, InstalledWhole
<1> QED BY <1>1, InstallStart, InstallStep, PTL DEF InstallSpec

-----------------------------------------------------------------------------
(* DpopReplay: ReplayGuarded.                                              *)

\* The ids of one key among some.
OfScope(s, ids) == {p \in ids : p[1] = s}

\* The guard alone: its counts are of the ids it holds.
GuardInv ==
    /\ DOMAIN remembered \subseteq Proofs
    /\ \A p \in DOMAIN remembered : remembered[p] \in Int
    /\ IsFiniteSet(DOMAIN remembered) /\ Cardinality(DOMAIN remembered) <= GuardCapacity
    /\ perScope \in [Scopes -> 0 .. CapacityPerKey]
    /\ CountsAgree

DpopRecords == [proof : Proofs \cup {NoProof}, at : {"idle", "ready", "consume"},
                gw : Gateways \cup {"none"}, checked : 0 .. MaxDpopTime,
                record : Int, accepted : BOOLEAN]

DpopShape ==
    /\ time \in 0 .. MaxDpopTime
    /\ skew \in [Gateways -> -MaxSkew .. MaxSkew]
    /\ iat \in [Proofs -> -1 .. MaxDpopTime]
    /\ dreq \in [DpopReqs -> DpopRecords]

\* A proof is dated by the client's clock.
IssuedInv == \A p \in Proofs : iat[p] <= time

\* The guard still holds the proof for as long as any clock accepts it, or no
\* clock does any more.
Spent(p) ==
    \/ time > iat[p] + 2 * Window
    \/ p \in DOMAIN remembered /\ remembered[p] > iat[p] + 2 * Window

\* A request past presentation has an issued proof and a gateway; what it
\* accepted is spent, and only then has its context a record of it; on its way to
\* the guard it is within the span in which its proof is acceptable.
ProofInv(r) ==
    /\ dreq[r].at # "idle" =>
          dreq[r].proof \in Proofs /\ dreq[r].gw \in Gateways /\ iat[dreq[r].proof] # -1
    /\ dreq[r].accepted => dreq[r].at # "idle" /\ Spent(dreq[r].proof)
    /\ dreq[r].record # NoRecord => dreq[r].accepted
    /\ dreq[r].at = "consume" =>
          /\ time <= dreq[r].checked + MaxDelay
          /\ dreq[r].checked + skew[dreq[r].gw] <= iat[dreq[r].proof] + Window

DpopInv ==
    /\ DpopShape /\ GuardInv /\ IssuedInv /\ ProofAcceptedOnce
    /\ \A r \in DpopReqs : ProofInv(r)

LEMMA DpopNumbers ==
    /\ Window \in Nat /\ MaxSkew \in Nat /\ MaxDelay \in Nat /\ MaxSkew + MaxDelay <= Window
    /\ CapacityPerKey \in Nat /\ GuardCapacity \in Nat /\ MaxDpopTime \in Nat
BY DpopAssumption

\* prune takes from each count the ids it drops.
LEMMA PruneCounts ==
    ASSUME GuardInv, NEW s \in Scopes
    PROVE  /\ IsFiniteSet(Kept) /\ Cardinality(Kept) \in Nat
           /\ Cardinality(Kept) <= Cardinality(DOMAIN remembered)
           /\ IsFiniteSet(OfScope(s, Kept)) /\ Cardinality(OfScope(s, Kept)) \in Nat
           /\ CountAfterPrune(s) = Cardinality(OfScope(s, Kept))
           /\ CountAfterPrune(s) <= perScope[s]
<1> DEFINE all == OfScope(s, DOMAIN remembered)
           kept == OfScope(s, Kept)
           gone == OfScope(s, DOMAIN remembered \ Kept)
<1>1. IsFiniteSet(DOMAIN remembered)
  BY DEF GuardInv
<1>2. IsFiniteSet(Kept) /\ Cardinality(Kept) <= Cardinality(DOMAIN remembered)
  <2>1. Kept \in SUBSET DOMAIN remembered
    BY DEF Kept
  <2> QED BY <1>1, <2>1, FS_Subset
<1>3. IsFiniteSet(all) /\ IsFiniteSet(kept) /\ IsFiniteSet(gone)
  <2>1. all \in SUBSET DOMAIN remembered /\ kept \in SUBSET DOMAIN remembered
        /\ gone \in SUBSET DOMAIN remembered
    BY DEF OfScope, Kept
  <2> QED BY <1>1, <2>1, FS_Subset
<1>4. Cardinality(all) \in Nat /\ Cardinality(kept) \in Nat /\ Cardinality(gone) \in Nat
      /\ Cardinality(Kept) \in Nat
  BY <1>2, <1>3, FS_CardinalityType
<1>5. all = kept \cup gone /\ kept \cap gone = {}
  BY DEF OfScope, Kept
<1>6. Cardinality(all) = Cardinality(kept) + Cardinality(gone)
  <2> HIDE DEF all, kept, gone
  <2>1. Cardinality(kept \cup gone) = Cardinality(kept) + Cardinality(gone) - Cardinality({})
    BY <1>3, <1>5, FS_Union
  <2> QED BY <1>4, <1>5, <2>1, FS_EmptySet
<1>7. perScope[s] = Cardinality(all) /\ CountAfterPrune(s) = perScope[s] - Cardinality(gone)
  BY DEF GuardInv, CountsAgree, CountAfterPrune, OfScope
<1> HIDE DEF all, gone
<1> QED BY <1>2, <1>3, <1>4, <1>6, <1>7

LEMMA PruneKeeps == ASSUME GuardInv, Prune PROVE GuardInv'
<1>1. DOMAIN remembered' = Kept /\ \A p \in Kept : remembered'[p] = remembered[p]
  BY DEF Prune
<1>2. Kept \subseteq DOMAIN remembered
  BY DEF Kept
<1>3. IsFiniteSet(Kept) /\ Cardinality(Kept) <= GuardCapacity
  <2>1. Kept \in SUBSET DOMAIN remembered
    BY <1>2
  <2>2. /\ IsFiniteSet(Kept) /\ Cardinality(Kept) <= Cardinality(DOMAIN remembered)
        /\ Cardinality(Kept) \in Nat /\ Cardinality(DOMAIN remembered) \in Nat
    BY <2>1, FS_Subset, FS_CardinalityType DEF GuardInv
  <2> QED BY <2>2, DpopNumbers DEF GuardInv
<1>4. ASSUME NEW s \in Scopes
      PROVE  perScope'[s] = Cardinality(OfScope(s, Kept)) /\ perScope'[s] \in 0 .. CapacityPerKey
  <2>1. perScope'[s] = CountAfterPrune(s)
    BY DEF Prune
  <2>2. perScope[s] \in 0 .. CapacityPerKey
    BY DEF GuardInv
  <2> QED BY <2>1, <2>2, PruneCounts, DpopNumbers
<1>5. perScope' \in [Scopes -> 0 .. CapacityPerKey]
  BY <1>4 DEF Prune
<1>6. CountsAgree'
  BY <1>1, <1>4 DEF CountsAgree, OfScope
<1> QED BY <1>1, <1>2, <1>3, <1>5, <1>6 DEF GuardInv

LEMMA RecordKeeps ==
    ASSUME GuardInv, NEW p \in Proofs, p \notin Kept, ~Full(p[1]), RecordUse(p), time \in Int
    PROVE  GuardInv'
<1>0. p[1] \in Scopes
  BY DEF Proofs
<1>1. DOMAIN remembered' = Kept \cup {p}
      /\ \A q \in Kept \cup {p} : remembered'[q] = IF q = p THEN time + Retention ELSE remembered[q]
  BY DEF RecordUse
<1>2. Kept \subseteq DOMAIN remembered
  BY DEF Kept
<1>3. IsFiniteSet(Kept \cup {p}) /\ Cardinality(Kept \cup {p}) <= GuardCapacity
  <2>1. /\ IsFiniteSet(Kept) /\ Cardinality(Kept) \in Nat
    BY <1>0, PruneCounts
  <2>2. Cardinality(Kept \cup {p}) = Cardinality(Kept) + 1 /\ IsFiniteSet(Kept \cup {p})
    BY <2>1, FS_AddElement
  <2>3. ~(Cardinality(Kept) >= GuardCapacity)
    BY DEF Full
  <2> QED BY <2>1, <2>2, <2>3, DpopNumbers
<1>4. ASSUME NEW s \in Scopes
      PROVE  /\ perScope'[s] = Cardinality(OfScope(s, Kept \cup {p}))
             /\ perScope'[s] \in 0 .. CapacityPerKey
  <2>1. perScope'[s] = CountAfterPrune(s) + (IF s = p[1] THEN 1 ELSE 0)
    BY DEF RecordUse
  <2>2. perScope[s] \in 0 .. CapacityPerKey
    BY DEF GuardInv
  <2>3. /\ IsFiniteSet(OfScope(s, Kept)) /\ Cardinality(OfScope(s, Kept)) \in Nat
        /\ CountAfterPrune(s) = Cardinality(OfScope(s, Kept)) /\ CountAfterPrune(s) <= perScope[s]
    BY PruneCounts
  <2>4. CASE s # p[1]
    <3>1. OfScope(s, Kept \cup {p}) = OfScope(s, Kept)
      BY <2>4 DEF OfScope
    <3> QED BY <2>1, <2>2, <2>3, <2>4, <3>1, DpopNumbers
  <2>5. CASE s = p[1]
    <3>1. OfScope(s, Kept \cup {p}) = OfScope(s, Kept) \cup {p} /\ p \notin OfScope(s, Kept)
      BY <2>5 DEF OfScope
    <3>2. Cardinality(OfScope(s, Kept) \cup {p}) = Cardinality(OfScope(s, Kept)) + 1
      BY <2>3, <3>1, FS_AddElement
    <3>3. ~(CountAfterPrune(s) >= CapacityPerKey)
      BY <2>5 DEF Full
    <3>4. perScope'[s] = Cardinality(OfScope(s, Kept)) + 1
      BY <2>1, <2>3, <2>5
    <3>5. perScope'[s] = Cardinality(OfScope(s, Kept \cup {p}))
      BY <3>1, <3>2, <3>4
    <3>6. perScope'[s] \in 0 .. CapacityPerKey
      BY <2>3, <3>3, <3>4, DpopNumbers
    <3> QED BY <3>5, <3>6
  <2> QED BY <2>4, <2>5
<1>5. perScope' \in [Scopes -> 0 .. CapacityPerKey]
  BY <1>4 DEF RecordUse
<1>6. CountsAgree'
  BY <1>1, <1>4 DEF CountsAgree, OfScope
<1>7. \A q \in DOMAIN remembered' : remembered'[q] \in Int
  BY <1>1, <1>2, DpopNumbers DEF GuardInv, Retention
<1> QED BY <1>1, <1>2, <1>3, <1>5, <1>6, <1>7 DEF GuardInv

\* What the guard may do between two states: nothing, prune, or prune and
\* record an id it did not hold.
GuardStep ==
    \/ UNCHANGED <<remembered, perScope>>
    \/ Prune
    \/ \E p \in Proofs : p \notin Kept /\ ~Full(p[1]) /\ RecordUse(p)

\* A spent proof stays so: what prune drops was held to the end of its span.
LEMMA GuardStepKeeps ==
    ASSUME DpopShape, GuardInv, GuardStep, UNCHANGED <<time, iat>>
    PROVE  GuardInv' /\ \A p \in Proofs : Spent(p) => Spent(p)'
<1>0. time \in Int
  BY DpopNumbers DEF DpopShape
<1>1. GuardInv'
  <2>1. CASE UNCHANGED <<remembered, perScope>>
    BY <2>1 DEF GuardInv, CountsAgree
  <2> QED BY <1>0, <2>1, PruneKeeps, RecordKeeps DEF GuardStep
<1>2. ASSUME NEW p \in Proofs, Spent(p) PROVE Spent(p)'
  <2>0. iat[p] \in Int /\ 2 * Window \in Int /\ iat'[p] = iat[p] /\ time' = time
    BY DpopNumbers DEF DpopShape
  <2>1. CASE time > iat[p] + 2 * Window
    BY <2>0, <2>1 DEF Spent
  <2>2. CASE p \in DOMAIN remembered /\ remembered[p] > iat[p] + 2 * Window
    <3>1. remembered[p] \in Int
      BY <2>2 DEF GuardInv
    <3>2. CASE remembered[p] <= time
      BY <1>0, <2>0, <2>2, <3>1, <3>2 DEF Spent
    <3>3. CASE remembered[p] > time
      <4>1. p \in Kept
        BY <2>2, <3>3 DEF Kept
      <4>2. p \in DOMAIN remembered' /\ remembered'[p] = remembered[p]
        BY <2>2, <4>1 DEF GuardStep, Prune, RecordUse
      <4> QED BY <2>0, <2>2, <4>2 DEF Spent
    <3> QED BY <1>0, <3>1, <3>2, <3>3
  <2> QED BY <1>2, <2>1, <2>2 DEF Spent
<1> QED BY <1>1, <1>2

\* A request's step, with what the guard does in it.
LEMMA DpopMoves ==
    ASSUME DpopInv, NEW r \in DpopReqs, NEW rec \in DpopRecords,
           dreq' = [dreq EXCEPT ![r] = rec], UNCHANGED <<time, skew, iat>>, GuardStep,
           ProofInv(r)',
           rec.accepted =>
              /\ rec.proof = dreq[r].proof
              /\ \/ dreq[r].accepted
                 \/ \A q \in DpopReqs \ {r} : dreq[q].accepted => dreq[q].proof # rec.proof
    PROVE  DpopInv'
<1>1. \A q \in DpopReqs : dreq'[q] = IF q = r THEN rec ELSE dreq[q]
  BY DEF DpopInv, DpopShape
<1>2. GuardInv' /\ \A p \in Proofs : Spent(p) => Spent(p)'
  BY GuardStepKeeps DEF DpopInv
<1>3. DpopShape' /\ IssuedInv'
  BY DEF DpopInv, DpopShape, IssuedInv
<1>4. ProofAcceptedOnce'
  BY <1>1 DEF DpopInv, ProofAcceptedOnce
<1>5. ASSUME NEW q \in DpopReqs, q # r PROVE ProofInv(q)'
  <2>1. dreq'[q] = dreq[q]
    BY <1>1, <1>5
  <2>2. dreq[q].accepted => \E p \in Proofs : p = dreq[q].proof /\ Spent(p)'
    <3>1. dreq[q].accepted => dreq[q].proof \in Proofs /\ Spent(dreq[q].proof)
      BY DEF DpopInv, ProofInv
    <3> QED BY <1>2, <3>1
  <2>3. dreq[q].accepted => Spent(dreq[q].proof)'
    BY <2>1, <2>2 DEF Spent
  <2>4. NoRecord' = NoRecord
    BY DEF NoRecord
  <2> QED BY <2>1, <2>2, <2>3, <2>4 DEF DpopInv, ProofInv
<1> QED BY <1>2, <1>3, <1>4, <1>5 DEF DpopInv

LEMMA DpopIssues == ASSUME DpopInv, NEW p \in Proofs, Issue(p) PROVE DpopInv'
<1>1. /\ iat[p] = -1 /\ UNCHANGED <<time, skew, remembered, perScope, dreq>>
      /\ \A q \in Proofs : iat'[q] = IF q = p THEN time ELSE iat[q]
  BY DEF Issue, DpopInv, DpopShape
<1>2. DpopShape'
  BY DpopNumbers DEF Issue, DpopInv, DpopShape
<1>3. GuardInv' /\ ProofAcceptedOnce'
  BY <1>1 DEF DpopInv, GuardInv, CountsAgree, ProofAcceptedOnce
<1>4. IssuedInv'
  BY <1>1, DpopNumbers DEF DpopInv, DpopShape, IssuedInv
<1>5. ASSUME NEW r \in DpopReqs PROVE ProofInv(r)'
  <2>1. ProofInv(r) /\ dreq'[r] = dreq[r] /\ NoRecord' = NoRecord /\ skew' = skew /\ time' = time
    BY <1>1 DEF DpopInv, NoRecord
  <2>2. dreq[r].at # "idle" => dreq[r].proof \in Proofs /\ iat'[dreq[r].proof] = iat[dreq[r].proof]
    BY <1>1, <2>1 DEF ProofInv
  <2>3. dreq[r].accepted => Spent(dreq[r].proof)'
    BY <1>1, <2>1, <2>2 DEF ProofInv, Spent
  <2> QED BY <2>1, <2>2, <2>3 DEF ProofInv
<1> QED BY <1>2, <1>3, <1>4, <1>5 DEF DpopInv

LEMMA DpopTicks == ASSUME DpopInv, DpopTick PROVE DpopInv'
<1>1. /\ time < MaxDpopTime /\ time' = time + 1 /\ UNCHANGED <<skew, iat, remembered, perScope, dreq>>
      /\ \A r \in DpopReqs : dreq[r].at = "consume" => time < dreq[r].checked + MaxDelay
  BY DEF DpopTick
<1>2. time \in Int /\ \A p \in Proofs : iat[p] \in Int
  BY DpopNumbers DEF DpopInv, DpopShape
<1>3. DpopShape'
  BY <1>1, DpopNumbers DEF DpopInv, DpopShape
<1>4. GuardInv' /\ ProofAcceptedOnce'
  BY <1>1 DEF DpopInv, GuardInv, CountsAgree, ProofAcceptedOnce
<1>5. IssuedInv'
  BY <1>1, <1>2 DEF DpopInv, IssuedInv
<1>6. ASSUME NEW r \in DpopReqs PROVE ProofInv(r)'
  <2>1. ProofInv(r) /\ dreq'[r] = dreq[r] /\ NoRecord' = NoRecord
    BY <1>1 DEF DpopInv, NoRecord
  <2>2. dreq[r].accepted => Spent(dreq[r].proof)'
    <3>1. dreq[r].accepted => dreq[r].proof \in Proofs /\ Spent(dreq[r].proof)
      BY <2>1 DEF ProofInv
    <3> QED BY <1>1, <1>2, <3>1, DpopNumbers DEF Spent
  <2>4. dreq[r].at = "consume" => time' <= dreq[r].checked + MaxDelay
    <3>1. dreq[r].checked \in Int
      BY DpopNumbers DEF DpopInv, DpopShape, DpopRecords
    <3> QED BY <1>1, <1>2, <3>1, DpopNumbers
  <2> QED BY <1>1, <2>1, <2>2, <2>4 DEF ProofInv
<1> QED BY <1>3, <1>4, <1>5, <1>6 DEF DpopInv

LEMMA IdleDpopIs ==
    /\ IdleDpop \in DpopRecords /\ IdleDpop.at = "idle" /\ IdleDpop.accepted = FALSE
    /\ IdleDpop.record = NoRecord /\ 0 \in 0 .. MaxDpopTime
<1>1. 0 \in 0 .. MaxDpopTime /\ NoRecord \in Int
  BY DpopNumbers DEF NoRecord
<1> QED BY <1>1 DEF IdleDpop, DpopRecords

LEMMA DpopPresents == ASSUME DpopInv, NEW r \in DpopReqs, PresentProof(r) PROVE DpopInv'
<1>1. PICK p \in Proofs, g \in Gateways :
          /\ iat[p] # -1
          /\ dreq' = [dreq EXCEPT ![r] = [IdleDpop EXCEPT !.proof = p, !.gw = g, !.at = "ready"]]
  BY DEF PresentProof
<1> DEFINE rec == [IdleDpop EXCEPT !.proof = p, !.gw = g, !.at = "ready"]
<1>2. rec \in DpopRecords /\ rec.proof = p /\ rec.gw = g /\ rec.at = "ready"
      /\ rec.accepted = FALSE
      /\ rec.record = NoRecord
  BY IdleDpopIs DEF DpopRecords
<1>3. dreq' = [dreq EXCEPT ![r] = rec] /\ UNCHANGED <<time, skew, iat, remembered, perScope>>
  BY <1>1 DEF PresentProof
<1> HIDE DEF rec
<1>4. dreq'[r] = rec /\ NoRecord' = NoRecord
  BY <1>3 DEF DpopInv, DpopShape, NoRecord
<1>5. ProofInv(r)'
  BY <1>1, <1>2, <1>3, <1>4 DEF ProofInv
<1> QED BY <1>2, <1>3, <1>5, DpopMoves DEF GuardStep

\* A request whose context has a live record was accepted before: reuse accepts
\* no new one.
LEMMA DpopChecks == ASSUME DpopInv, NEW r \in DpopReqs, CheckProof(r) PROVE DpopInv'
<1>0. /\ dreq[r].at = "ready" /\ Recent(r) /\ UNCHANGED <<time, skew, iat, remembered, perScope>>
  BY DEF CheckProof
<1>1. /\ dreq \in [DpopReqs -> DpopRecords] /\ dreq[r] \in DpopRecords /\ ProofInv(r)
      /\ NoRecord' = NoRecord
  BY DEF DpopInv, DpopShape, NoRecord
<1>2. dreq[r].proof \in Proofs /\ dreq[r].gw \in Gateways /\ iat[dreq[r].proof] # -1
  BY <1>0, <1>1 DEF ProofInv
<1>3. /\ time \in 0 .. MaxDpopTime /\ skew[dreq[r].gw] \in -MaxSkew .. MaxSkew
      /\ iat[dreq[r].proof] \in -1 .. MaxDpopTime
  BY <1>2 DEF DpopInv, DpopShape
<1>4. CASE /\ Reusable(r)
           /\ dreq' = [dreq EXCEPT ![r].accepted = TRUE]
  <2>1. dreq[r].accepted
    <3>1. ~(Clock(r) < NoRecord)
      BY <1>3, DpopNumbers DEF Clock, NoRecord
    <3>2. Clock(r) < dreq[r].record
      BY <1>4 DEF Reusable
    <3> QED BY <1>1, <3>1, <3>2 DEF ProofInv
  <2>2. dreq' = [dreq EXCEPT ![r] = dreq[r]]
    <3>1. [dreq[r] EXCEPT !.accepted = TRUE] = dreq[r]
      BY <1>1, <2>1 DEF DpopRecords
    <3> QED BY <1>1, <1>4, <3>1
  <2>3. dreq' = dreq
    BY <1>1, <2>2
  <2>4. ProofInv(r)'
    BY <1>0, <1>1, <2>3 DEF ProofInv, Spent
  <2> QED BY <1>0, <1>1, <2>1, <2>2, <2>4, DpopMoves DEF GuardStep
<1>5. CASE /\ ~Reusable(r)
           /\ dreq' = [dreq EXCEPT ![r].at = "consume", ![r].checked = time]
  <2> DEFINE rec == [dreq[r] EXCEPT !.at = "consume", !.checked = time]
  <2>1. rec \in DpopRecords /\ rec.at = "consume" /\ rec.checked = time /\ rec.gw = dreq[r].gw
        /\ rec.proof = dreq[r].proof /\ rec.accepted = dreq[r].accepted
        /\ rec.record = dreq[r].record
    BY <1>1, <1>3 DEF DpopRecords
  <2>2. dreq' = [dreq EXCEPT ![r] = rec]
    BY <1>1, <1>5
  <2> HIDE DEF rec
  <2>3. dreq'[r] = rec
    BY <1>1, <2>2
  <2>4. time <= time + MaxDelay /\ time + skew[dreq[r].gw] <= iat[dreq[r].proof] + Window
    BY <1>0, <1>3, DpopNumbers DEF Recent, Clock
  <2>5. rec.accepted => Spent(dreq[r].proof)
    BY <1>1, <2>1 DEF ProofInv
  <2>6. rec.accepted => Spent(dreq[r].proof)'
    BY <1>0, <2>1, <2>3, <2>5 DEF Spent
  <2>7. ProofInv(r)'
    BY <1>0, <1>1, <1>2, <2>1, <2>3, <2>4, <2>5, <2>6 DEF ProofInv
  <2>8. rec.accepted => dreq[r].accepted
    BY <2>1
  <2> QED BY <1>0, <2>1, <2>2, <2>7, <2>8, DpopMoves DEF GuardStep
<1> QED BY <1>4, <1>5 DEF CheckProof

\* A request that is denied at the guard is ready for another resolution.
LEMMA DpopDenied ==
    ASSUME DpopInv, NEW r \in DpopReqs, dreq[r].at = "consume", Denied(r),
           UNCHANGED <<time, skew, iat>>, GuardStep
    PROVE  DpopInv'
<1>1. /\ dreq \in [DpopReqs -> DpopRecords] /\ dreq[r] \in DpopRecords /\ ProofInv(r)
      /\ NoRecord' = NoRecord
  BY DEF DpopInv, DpopShape, NoRecord
<1> DEFINE rec == [dreq[r] EXCEPT !.at = "ready", !.checked = 0]
<1>2. rec \in DpopRecords /\ rec.at = "ready" /\ rec.gw = dreq[r].gw
      /\ rec.proof = dreq[r].proof /\ rec.accepted = dreq[r].accepted
      /\ rec.record = dreq[r].record
  BY <1>1, IdleDpopIs DEF DpopRecords
<1>3. dreq' = [dreq EXCEPT ![r] = rec]
  BY <1>1 DEF Denied
<1> HIDE DEF rec
<1>4. dreq'[r] = rec
  BY <1>1, <1>3
<1>5. rec.accepted => \E p \in Proofs : p = dreq[r].proof /\ Spent(p)'
  <2>1. rec.accepted => dreq[r].proof \in Proofs /\ Spent(dreq[r].proof)
    BY <1>1, <1>2 DEF ProofInv
  <2> QED BY <2>1, GuardStepKeeps DEF DpopInv
<1>6. rec.accepted => Spent(dreq[r].proof)'
  BY <1>2, <1>4, <1>5 DEF Spent
<1>7. ProofInv(r)'
  BY <1>1, <1>2, <1>4, <1>5, <1>6 DEF ProofInv
<1>8. rec.accepted => dreq[r].accepted
  BY <1>2
<1> QED BY <1>2, <1>3, <1>7, <1>8, DpopMoves

\* The guard admits a proof only if no request was accepted with it: a spent
\* proof is held to the end of the span in which one may get this far.
LEMMA DpopConsumes == ASSUME DpopInv, NEW r \in DpopReqs, Consume(r) PROVE DpopInv'
<1>0. dreq[r].at = "consume" /\ UNCHANGED <<time, skew, iat>>
  BY DEF Consume
<1>1. /\ dreq \in [DpopReqs -> DpopRecords] /\ dreq[r] \in DpopRecords /\ ProofInv(r)
      /\ NoRecord' = NoRecord
  BY DEF DpopInv, DpopShape, NoRecord
<1>2. dreq[r].proof \in Proofs /\ dreq[r].gw \in Gateways /\ iat[dreq[r].proof] # -1
  BY <1>0, <1>1 DEF ProofInv
<1>3. /\ time \in 0 .. MaxDpopTime /\ skew[dreq[r].gw] \in -MaxSkew .. MaxSkew
      /\ iat[dreq[r].proof] \in -1 .. MaxDpopTime /\ iat[dreq[r].proof] <= time
      /\ dreq[r].checked \in 0 .. MaxDpopTime
  BY <1>1, <1>2 DEF DpopInv, DpopShape, DpopRecords, IssuedInv
<1>4. CASE Denied(r) /\ Prune
  BY <1>0, <1>4, DpopDenied DEF GuardStep
<1>5. CASE /\ dreq[r].proof \notin Kept /\ ~Full(dreq[r].proof[1])
           /\ RecordUse(dreq[r].proof)
           /\ dreq' = [dreq EXCEPT ![r].at = "ready", ![r].checked = 0, ![r].accepted = TRUE,
                         ![r].record = dreq[r].checked + skew[dreq[r].gw] + Retention]
  <2>1. time <= iat[dreq[r].proof] + 2 * Window
    <3>1. /\ time <= dreq[r].checked + MaxDelay
          /\ dreq[r].checked + skew[dreq[r].gw] <= iat[dreq[r].proof] + Window
      BY <1>0, <1>1 DEF ProofInv
    <3> QED BY <1>3, <3>1, DpopNumbers
  <2>2. ~Spent(dreq[r].proof)
    <3>1. dreq[r].proof \in DOMAIN remembered =>
             remembered[dreq[r].proof] \in Int /\ ~(remembered[dreq[r].proof] > time)
      BY <1>5 DEF Kept, DpopInv, GuardInv
    <3> QED BY <1>3, <2>1, <3>1, DpopNumbers DEF Spent
  <2>3. \A q \in DpopReqs : dreq[q].accepted => dreq[q].proof # dreq[r].proof
    BY <2>2 DEF DpopInv, ProofInv
  <2>4. dreq[r].checked + skew[dreq[r].gw] + Retention \in Int
    BY <1>3, DpopNumbers DEF Retention
  <2>c. PICK until \in Int : until = dreq[r].checked + skew[dreq[r].gw] + Retention
    BY <2>4
  <2> DEFINE rec == [dreq[r] EXCEPT !.at = "ready", !.checked = 0, !.accepted = TRUE,
                                    !.record = until]
  <2>5. rec \in DpopRecords /\ rec.at = "ready" /\ rec.gw = dreq[r].gw
        /\ rec.proof = dreq[r].proof /\ rec.accepted = TRUE
    BY <1>1, IdleDpopIs DEF DpopRecords
  <2>6. dreq' = [dreq EXCEPT ![r] = rec]
    BY <1>1, <1>5, <2>c
  <2> HIDE DEF rec
  <2>7. dreq'[r] = rec
    BY <1>1, <2>6
  <2>8. Spent(dreq[r].proof)'
    <3>1. dreq[r].proof \in DOMAIN remembered' /\ remembered'[dreq[r].proof] = time + Retention
      BY <1>5 DEF RecordUse
    <3>2. time + Retention > iat[dreq[r].proof] + 2 * Window
      BY <1>3, DpopNumbers DEF Retention
    <3>3. iat' = iat
      BY <1>0
    <3>4. Spent(dreq[r].proof)' <=> \/ time' > iat'[dreq'[r].proof] + 2 * Window
                                    \/ /\ dreq'[r].proof \in DOMAIN remembered'
                                       /\ remembered'[dreq'[r].proof] > iat'[dreq'[r].proof] + 2 * Window
      BY DEF Spent
    <3> QED BY <2>5, <2>7, <3>1, <3>2, <3>3, <3>4
  <2>9. ProofInv(r)'
    BY <1>0, <1>1, <1>2, <2>5, <2>7, <2>8 DEF ProofInv
  <2>10. GuardStep
    BY <1>2, <1>5 DEF GuardStep
  <2> QED BY <1>0, <2>3, <2>5, <2>6, <2>9, <2>10, DpopMoves
<1> QED BY <1>4, <1>5 DEF Consume

LEMMA DpopUnavailable == ASSUME DpopInv, NEW r \in DpopReqs, GuardUnavailable(r) PROVE DpopInv'
<1>1. dreq[r].at = "consume" /\ Denied(r) /\ UNCHANGED <<time, skew, iat>>
  BY DEF GuardUnavailable
<1>2. dreq[r].proof \in Proofs
  BY <1>1 DEF DpopInv, ProofInv
<1>3. GuardStep
  BY <1>2 DEF GuardUnavailable, GuardStep
<1> QED BY <1>1, <1>3, DpopDenied

LEMMA DpopStep == ASSUME DpopInv, [DpopNext]_dpopVars PROVE DpopInv'
<1>1. CASE UNCHANGED dpopVars
  <2>1. UNCHANGED <<time, skew, iat, remembered, perScope, dreq>>
    BY <1>1 DEF dpopVars
  <2>2. DpopShape' /\ GuardInv' /\ IssuedInv' /\ ProofAcceptedOnce'
    BY <2>1 DEF DpopInv, DpopShape, GuardInv, CountsAgree, IssuedInv, ProofAcceptedOnce
  <2>3. \A r \in DpopReqs : ProofInv(r)'
    BY <2>1 DEF DpopInv, ProofInv, Spent, NoRecord
  <2> QED BY <2>2, <2>3 DEF DpopInv
<1>2. CASE DpopNext
  BY <1>2, DpopTicks, DpopIssues, DpopPresents, DpopChecks, DpopConsumes, DpopUnavailable
     DEF DpopNext
<1> QED BY <1>1, <1>2

LEMMA DpopStart == DpopInit => DpopInv
<1> SUFFICES ASSUME DpopInit PROVE DpopInv
  OBVIOUS
<1>2. dreq = [r \in DpopReqs |-> IdleDpop]
  BY DEF DpopInit
<1>3. DpopShape /\ IssuedInv
  BY <1>2, IdleDpopIs, DpopNumbers DEF DpopInit, DpopShape, IssuedInv
<1>4. GuardInv
  <2>1. DOMAIN remembered = {} /\ perScope = [s \in Scopes |-> 0]
    BY DEF DpopInit, Forgotten
  <2>2. \A s \in Scopes : OfScope(s, DOMAIN remembered) = {}
    BY <2>1 DEF OfScope
  <2>3. CountsAgree
    BY <2>1, <2>2, FS_EmptySet DEF CountsAgree, OfScope
  <2> QED BY <2>1, <2>3, FS_EmptySet, DpopNumbers DEF GuardInv
<1>5. ProofAcceptedOnce
  BY <1>2, IdleDpopIs DEF ProofAcceptedOnce
<1>6. \A r \in DpopReqs : ProofInv(r)
  BY <1>2, IdleDpopIs DEF ProofInv
<1> QED BY <1>3, <1>4, <1>5, <1>6 DEF DpopInv

\* The variables of the replay guard keep their types, and the guard its two
\* capacities.
THEOREM DpopTypeCorrect == DpopSpec => []DpopTypeOK
<1>1. DpopInv => DpopTypeOK
  BY DEF DpopInv, DpopShape, DpopRecords, GuardInv, DpopTypeOK
<1> QED BY <1>1, DpopStart, DpopStep, PTL DEF DpopSpec

\* A proof of possession gets one request accepted, for any window, skew and
\* delay with MaxSkew + MaxDelay <= Window, any number of gateways and requests,
\* lost answers and pruning included; and the count per key is exact.
THEOREM ReplayGuardedHolds == DpopSpec => []ReplayGuarded
<1>1. DpopInv => ReplayGuarded
  BY DEF DpopInv, GuardInv, ReplayGuarded
<1> QED BY <1>1, DpopStart, DpopStep, PTL DEF DpopSpec


-----------------------------------------------------------------------------
(* ExtensionTiers: IdentityKept and ChangesGranted.                        *)

\* The headers of the credentials the engine asserted.
SameAsserted(h, b) ==
    /\ h.line = b.line /\ h.markers = b.markers
    /\ \A n \in b.markers : h.headers[n] = b.headers[n]

\* Every slot of the canonical extensions is there once, or not at all; its
\* identity is that of the beginning and its chain as deep as it is long.
SecuritySlot ==
    \E s, b \in Security : ext.security = {s} /\ born.security = {b} /\ s.subject = b.subject
HttpSlot == \E h, b \in Http : ext.http = {h} /\ born.http = {b} /\ SameAsserted(h, b)
DelegationSlot ==
    /\ ext.delegation = {} \/ \E d \in Delegation : ext.delegation = {d} /\ d.depth = Len(d.chain)
    /\ born.delegation \subseteq Delegation
RawSlot == ext.raw \subseteq Raw /\ born.raw \subseteq Raw
PlainSlots ==
    /\ ext.agent = "host" /\ born.agent = "host"
    /\ ext.constraint \in Constraints /\ born.constraint \in Constraints
TierInv ==
    /\ SecuritySlot /\ HttpSlot /\ DelegationSlot /\ RawSlot /\ PlainSlots
    /\ last \subseteq WriteCapabilities

\* A chain is a sequence of hops, and its length is within the bound.
LEMMA ChainIs ==
    ASSUME NEW c \in Chains
    PROVE  c \in Seq(Hops) /\ Len(c) \in 0 .. MaxHops
<1>1. PICK n \in 0 .. MaxHops : c \in [1 .. n -> Hops]
  BY DEF Chains
<1>2. c \in Seq(Hops) /\ Len(c) = n
  BY <1>1
<1> QED BY <1>2

LEMMA SomeIs == ASSUME NEW x, NEW d PROVE SomeOr({x}, d) = x
BY DEF SomeOr

\* What a plugin can return in each slot, whatever it was shown.
AnyReturn(owned) ==
    /\ owned.security = {} \/ \E t \in Security : owned.security = {t}
    /\ owned.http = {} \/ \E g : owned.http = {g} /\ g.headers \in [HeaderNames -> HeaderValues]
    /\ \/ owned.delegation = {}
       \/ \E e : owned.delegation = {e} /\ e.chain \in Chains /\ e.origin \in {"none", "root", "forged"}
    /\ owned.constraint \in Constraints
    /\ owned.raw \subseteq Raw

\* ... and what it is shown.
LEMMA ViewIs ==
    ASSUME TierInv, NEW caps
    PROVE  AnyReturn(View(caps)) /\ View(caps) = [agent |-> View(caps).agent,
              constraint |-> View(caps).constraint, custom |-> View(caps).custom,
              security |-> View(caps).security, http |-> View(caps).http,
              delegation |-> View(caps).delegation, raw |-> View(caps).raw]
<1> DEFINE v == View(caps)
<1>1. /\ v.constraint = ext.constraint /\ v.security = FilteredSecurity(caps)
      /\ v.http = FilteredHttp(caps) /\ v.delegation \in {ext.delegation, {}}
      /\ v.raw = FilteredRaw(caps)
      /\ v = [agent |-> v.agent, constraint |-> v.constraint, custom |-> v.custom,
              security |-> v.security, http |-> v.http, delegation |-> v.delegation,
              raw |-> v.raw]
  BY DEF View
<1> HIDE DEF v
<1>2. \E t \in Security : v.security = {t}
  <2>1. PICK s \in Security : ext.security = {s}
    BY DEF TierInv, SecuritySlot
  <2> DEFINE t == [labels |-> IF "read_labels" \in caps THEN s.labels ELSE {},
                   subject |-> IF caps \cap SubjectCaps # {} THEN s.subject ELSE "none"]
  <2>2. t \in Security
    BY DEF Security
  <2>3. v.security = {t}
    BY <1>1, <2>1 DEF FilteredSecurity
  <2> QED BY <2>2, <2>3
<1>3. v.http = {} \/ \E g : v.http = {g} /\ g.headers \in [HeaderNames -> HeaderValues]
  <2>1. PICK h \in Http : ext.http = {h}
    BY DEF TierInv, HttpSlot
  <2>2. CASE "read_headers" \in caps
    <3> DEFINE g == [h EXCEPT !.headers = Redacted(h)]
    <3>1. v.http = {g}
      BY <1>1, <2>1, <2>2 DEF FilteredHttp
    <3>2. g.headers = Redacted(h)
      BY DEF Http
    <3>3. Redacted(h) \in [HeaderNames -> HeaderValues]
      BY DEF Redacted, Http, HeaderValues
    <3> QED BY <3>1, <3>2, <3>3
  <2>3. CASE "read_headers" \notin caps
    <3>1. v.http \in {{BlankHttp}, {}}
      BY <1>1, <2>1, <2>3 DEF FilteredHttp
    <3>2. BlankHttp.headers \in [HeaderNames -> HeaderValues]
      BY DEF BlankHttp, NoHeaders, HeaderValues
    <3> QED BY <3>1, <3>2
  <2> QED BY <2>2, <2>3
<1>4. \/ v.delegation = {}
      \/ \E e : v.delegation = {e} /\ e.chain \in Chains /\ e.origin \in {"none", "root", "forged"}
  BY <1>1 DEF TierInv, DelegationSlot, Delegation
<1>5. v.raw \subseteq Raw
  BY <1>1 DEF FilteredRaw, TierInv, RawSlot, Raw
<1>6. v.constraint \in Constraints
  BY <1>1 DEF TierInv, PlainSlots
<1> QED BY <1>1, <1>2, <1>3, <1>4, <1>5, <1>6 DEF AnyReturn, v

LEMMA ReturnedIs ==
    ASSUME TierInv, NEW caps, NEW owned \in Returned(View(caps))
    PROVE  AnyReturn(owned)
<1>0. PICK v : v = View(caps)
  OBVIOUS
<1>1. AnyReturn(v) /\ v = [agent |-> v.agent, constraint |-> v.constraint, custom |-> v.custom,
                           security |-> v.security, http |-> v.http,
                           delegation |-> v.delegation, raw |-> v.raw]
  BY <1>0, ViewIs
<1>2. owned \in Returned(v)
  BY <1>0
<1>3. CASE owned \in {v, [v EXCEPT !.custom = "edited"], [v EXCEPT !.agent = "forged"]}
  BY <1>1, <1>3 DEF AnyReturn
<1>4. CASE \E s \in {{}} \cup {{x} : x \in Security} : owned = [v EXCEPT !.security = s]
  BY <1>1, <1>4 DEF AnyReturn
<1>5. CASE \E f \in [HeaderNames -> HeaderValues] :
              owned = [v EXCEPT !.http = {[headers |-> f, markers |-> {}, line |-> "forged"]}]
  BY <1>1, <1>5 DEF AnyReturn
<1>6. CASE \E c \in Chains :
              owned = [v EXCEPT !.delegation = {[chain |-> c, origin |-> "forged", depth |-> 0]}]
  BY <1>1, <1>6 DEF AnyReturn
<1>7. CASE \E c \in Constraints : owned = [v EXCEPT !.constraint = c]
  BY <1>1, <1>7 DEF AnyReturn
<1>8. CASE \E t \in TokenIds :
              owned = [v EXCEPT !.raw = {[r EXCEPT !.delegated = @ \cup {t}] : r \in v.raw}]
  <2>1. PICK t \in TokenIds :
              owned = [v EXCEPT !.raw = {[r EXCEPT !.delegated = @ \cup {t}] : r \in v.raw}]
    BY <1>8
  <2>2. \A r \in Raw : [r EXCEPT !.delegated = @ \cup {t}] \in Raw
    BY DEF Raw
  <2>3. {[r EXCEPT !.delegated = @ \cup {t}] : r \in v.raw} \subseteq Raw
    BY <1>1, <2>2 DEF AnyReturn
  <2> QED BY <1>1, <2>1, <2>3 DEF AnyReturn
<1> QED BY <1>2, <1>3, <1>4, <1>5, <1>6, <1>7, <1>8 DEF Returned

-----------------------------------------------------------------------------
(* The merge, slot by slot.                                                *)

LEMMA SecurityMerged ==
    ASSUME TierInv, NEW caps, NEW owned, AnyReturn(owned)
    PROVE  \E s, t, b \in Security :
              /\ ext.security = {s} /\ MergeSecurity(caps, owned) = {t} /\ born.security = {b}
              /\ t.subject = b.subject /\ s.labels \subseteq t.labels
              /\ t # s => "append_labels" \in caps
<1>1. PICK s, b \in Security : ext.security = {s} /\ born.security = {b} /\ s.subject = b.subject
  BY DEF TierInv, SecuritySlot
<1>2. CASE owned.security = {} \/ "append_labels" \notin caps
  BY <1>1, <1>2 DEF MergeSecurity
<1>3. CASE ~(owned.security = {} \/ "append_labels" \notin caps)
  <2>1. PICK o \in Security : owned.security = {o}
    BY <1>3 DEF AnyReturn
  <2> DEFINE t == [s EXCEPT !.labels = @ \cup o.labels]
  <2>2. t \in Security /\ t.subject = s.subject /\ s.labels \subseteq t.labels
    BY DEF Security
  <2>3. MergeSecurity(caps, owned) = {t}
    <3>1. SomeOr(ext.security, BlankSecurity) = s /\ SomeOr(owned.security, BlankSecurity) = o
      BY <1>1, <2>1, SomeIs
    <3> QED BY <1>3, <3>1 DEF MergeSecurity
  <2> HIDE DEF t
  <2> QED BY <1>1, <1>3, <2>2, <2>3
<1> QED BY <1>2, <1>3

LEMMA HttpMerged ==
    ASSUME TierInv, NEW caps, NEW owned, AnyReturn(owned)
    PROVE  \E h, g, b \in Http :
              /\ ext.http = {h} /\ MergeHttp(caps, owned) = {g} /\ born.http = {b}
              /\ SameAsserted(g, b)
              /\ g # h => "write_headers" \in caps
<1>1. PICK h, b \in Http : ext.http = {h} /\ born.http = {b} /\ SameAsserted(h, b)
  BY DEF TierInv, HttpSlot
<1>2. CASE owned.http = {} \/ "write_headers" \notin caps
  BY <1>1, <1>2 DEF MergeHttp
<1>3. CASE ~(owned.http = {} \/ "write_headers" \notin caps)
  <2>1. PICK o : owned.http = {o} /\ o.headers \in [HeaderNames -> HeaderValues]
    BY <1>3 DEF AnyReturn
  <2> DEFINE f == [n \in HeaderNames |-> IF n \in h.markers THEN h.headers[n] ELSE o.headers[n]]
             g == [h EXCEPT !.headers = f]
  <2>2. f \in [HeaderNames -> HeaderValues] /\ \A n \in h.markers : f[n] = h.headers[n]
    BY <2>1 DEF Http
  <2>3. MergeHttp(caps, owned) = {g}
    <3>1. SomeOr(ext.http, BlankHttp) = h /\ SomeOr(owned.http, BlankHttp) = o
      BY <1>1, <2>1, SomeIs
    <3> QED BY <1>3, <3>1 DEF MergeHttp
  <2> HIDE DEF f
  <2>4. g \in Http /\ g.line = h.line /\ g.markers = h.markers /\ g.headers = f
    BY <2>2 DEF Http
  <2> HIDE DEF g
  <2>5. SameAsserted(g, b)
    BY <1>1, <2>2, <2>4 DEF SameAsserted
  <2> QED BY <1>1, <1>3, <2>3, <2>4, <2>5
<1> QED BY <1>2, <1>3

\* What the canonical chain may become.
Lengthens(d, e) ==
    /\ e \in Delegation /\ e.depth = Len(e.chain)
    /\ SubSeq(e.chain, 1, Len(d.chain)) = d.chain
    /\ d.origin # "none" => e.origin = d.origin

LEMMA Prefixed ==
    ASSUME NEW c \in Chains, NEW e \in Chains, ChainExtends(c, e)
    PROVE  SubSeq(e, 1, Len(c)) = c
<1>1. c \in Seq(Hops) /\ e \in Seq(Hops)
  BY ChainIs
<1>2. Len(e) >= Len(c) /\ \A i \in 1 .. Len(c) : e[i] = c[i]
  BY DEF ChainExtends
<1> QED BY <1>1, <1>2

LEMMA DelegationKept ==
    ASSUME TierInv
    PROVE  /\ ext.delegation = {} \/ \E e : ext.delegation = {e} /\ e \in Delegation /\ e.depth = Len(e.chain)
           /\ \A d \in ext.delegation : \E e : ext.delegation = {e} /\ Lengthens(d, e)
<1>1. ASSUME NEW d \in Delegation, ext.delegation = {d}, d.depth = Len(d.chain)
      PROVE  Lengthens(d, d)
  <2>1. d.chain \in Chains
    BY DEF Delegation
  <2>2. ChainExtends(d.chain, d.chain)
    <3>1. Len(d.chain) \in Nat
      BY <2>1, ChainIs
    <3> QED BY <3>1 DEF ChainExtends
  <2> QED BY <1>1, <2>1, <2>2, Prefixed DEF Lengthens
<1> QED BY <1>1 DEF TierInv, DelegationSlot

LEMMA DelegationMerged ==
    ASSUME TierInv, NEW caps, NEW owned, AnyReturn(owned)
    PROVE  LET merged == MergeDelegation(caps, owned) IN
           /\ merged = {} \/ \E e : merged = {e} /\ e \in Delegation /\ e.depth = Len(e.chain)
           /\ \A d \in ext.delegation : \E e : merged = {e} /\ Lengthens(d, e)
           /\ merged # ext.delegation => "append_delegation" \in caps
<1> DEFINE merged == MergeDelegation(caps, owned)
<1>0. /\ ext.delegation = {} \/ \E e : ext.delegation = {e} /\ e \in Delegation /\ e.depth = Len(e.chain)
      /\ \A d \in ext.delegation : \E e : ext.delegation = {e} /\ Lengthens(d, e)
  BY DelegationKept
<1>1. CASE merged = ext.delegation
  BY <1>0, <1>1
<1>2. CASE merged # ext.delegation
  <2>0. ~(owned.delegation = {} \/ "append_delegation" \notin caps)
    BY <1>2 DEF MergeDelegation
  <2>1. PICK o : /\ owned.delegation = {o} /\ o.chain \in Chains
                 /\ o.origin \in {"none", "root", "forged"}
    BY <2>0 DEF AnyReturn
  <2>2. PICK d : d = SomeOr(ext.delegation, BlankDelegation)
    OBVIOUS
  <2>3. SomeOr(owned.delegation, BlankDelegation) = o
    BY <2>1, SomeIs
  <2> DEFINE e == [chain |-> o.chain, depth |-> Len(o.chain),
                   origin |-> IF d.origin = "none" THEN o.origin ELSE d.origin]
  <2>4. ChainExtends(d.chain, o.chain) /\ merged = {e}
    BY <1>2, <2>0, <2>2, <2>3 DEF MergeDelegation
  <2>5. d.origin \in {"none", "root", "forged"}
    <3>1. CASE ext.delegation = {}
      BY <2>2, <3>1 DEF SomeOr, BlankDelegation
    <3>2. CASE ext.delegation # {}
      <4>1. PICK x \in Delegation : ext.delegation = {x}
        BY <3>2 DEF TierInv, DelegationSlot
      <4> QED BY <2>2, <4>1, SomeIs DEF Delegation
    <3> QED BY <3>1, <3>2
  <2>6. e \in Delegation /\ e.depth = Len(e.chain) /\ e.chain = o.chain
        /\ e.origin = IF d.origin = "none" THEN o.origin ELSE d.origin
    BY <2>1, <2>5, ChainIs DEF Delegation
  <2> HIDE DEF e
  <2>7. ASSUME NEW x \in ext.delegation PROVE Lengthens(x, e)
    <3>1. x \in Delegation /\ ext.delegation = {x}
      BY DEF TierInv, DelegationSlot
    <3>2. d = x /\ x.chain \in Chains
      BY <2>2, <3>1, SomeIs DEF Delegation
    <3> QED BY <2>1, <2>4, <2>6, <3>2, Prefixed DEF Lengthens
  <2> QED BY <2>0, <2>4, <2>6, <2>7
<1> QED BY <1>1, <1>2

-----------------------------------------------------------------------------
(* One plugin.                                                             *)

TierStep == TierInv' /\ LineageGrows /\ WritesNeedAGrant

\* Nothing merged.
LEMMA TierKept ==
    ASSUME TierInv, ext' = ext, born' = born, last' \subseteq WriteCapabilities
    PROVE  TierStep
<1>1. TierInv'
  BY DEF TierInv, SecuritySlot, HttpSlot, DelegationSlot, RawSlot, PlainSlots
<1>2. LineageGrows
  <2>1. \A s, t \in ext.security : s.labels \subseteq t.labels
    BY DEF TierInv, SecuritySlot
  <2> QED BY <2>1, DelegationKept DEF LineageGrows, Lengthens
<1>3. WritesNeedAGrant
  BY DEF WritesNeedAGrant
<1> QED BY <1>1, <1>2, <1>3 DEF TierStep

LEMMA TierMerges ==
    ASSUME TierInv, NEW caps, NEW owned, AnyReturn(owned), ConstraintWriteOk(caps, owned),
           ext' = MergeOwned(caps, owned), born' = born, last' = caps \cap WriteCapabilities
    PROVE  TierStep
<1>1. /\ ext'.agent = ext.agent /\ ext'.constraint = owned.constraint
      /\ ext'.security = MergeSecurity(caps, owned) /\ ext'.http = MergeHttp(caps, owned)
      /\ ext'.delegation = MergeDelegation(caps, owned)
      /\ ext'.raw \in {owned.raw, ext.raw}
  BY DEF MergeOwned
<1>2. PICK s, t, b \in Security :
              /\ ext.security = {s} /\ ext'.security = {t} /\ born.security = {b}
              /\ t.subject = b.subject /\ s.labels \subseteq t.labels
              /\ t # s => "append_labels" \in caps
  BY <1>1, SecurityMerged
<1>3. PICK h, g, c \in Http :
              /\ ext.http = {h} /\ ext'.http = {g} /\ born.http = {c}
              /\ SameAsserted(g, c)
              /\ g # h => "write_headers" \in caps
  BY <1>1, HttpMerged
<1>4. /\ \/ ext'.delegation = {}
         \/ \E e : ext'.delegation = {e} /\ e \in Delegation /\ e.depth = Len(e.chain)
      /\ \A d \in ext.delegation : \E e : ext'.delegation = {e} /\ Lengthens(d, e)
      /\ ext'.delegation # ext.delegation => "append_delegation" \in caps
  BY <1>1, DelegationMerged
<1>5. TierInv'
  <2>1. SecuritySlot' /\ HttpSlot'
    BY <1>2, <1>3 DEF SecuritySlot, HttpSlot
  <2>2. DelegationSlot'
    BY <1>4 DEF DelegationSlot, TierInv
  <2>3. RawSlot' /\ PlainSlots'
    BY <1>1 DEF RawSlot, PlainSlots, TierInv, AnyReturn
  <2> QED BY <2>1, <2>2, <2>3 DEF TierInv
<1>6. LineageGrows
  BY <1>2, <1>4 DEF LineageGrows, Lengthens
<1>7. WritesNeedAGrant
  <2>1. ext'.constraint # ext.constraint => "write_candidate_constraint" \in caps
    BY <1>1 DEF ConstraintWriteOk
  <2>2. /\ ext'.security # ext.security => "append_labels" \in caps
        /\ ext'.http # ext.http => "write_headers" \in caps
    BY <1>2, <1>3
  <2> QED BY <1>4, <2>1, <2>2 DEF WritesNeedAGrant, WriteCapabilities
<1> QED BY <1>5, <1>6, <1>7 DEF TierStep

LEMMA TierStarts == TierInit => TierInv
<1> SUFFICES ASSUME TierInit PROVE TierInv
  OBVIOUS
<1>1. PICK m \in SUBSET HeaderNames, d \in {{}, {BlankDelegation}} : ext = AtStart(m, d)
  BY DEF TierInit
<1>2. born = ext /\ last = {}
  BY DEF TierInit
<1> DEFINE s == [labels |-> {}, subject |-> "caller"]
           h == [headers |-> [n \in HeaderNames |-> "set"], markers |-> m, line |-> "real"]
           r == [inbound |-> TokenIds, delegated |-> {}]
<1>3. s \in Security /\ h \in Http /\ r \in Raw
  BY DEF Security, Http, Raw, HeaderValues
<1>4. /\ ext.security = {s} /\ ext.http = {h} /\ ext.delegation = d /\ ext.raw = {r}
      /\ ext.agent = "host" /\ ext.constraint = "none"
  BY <1>1 DEF AtStart
<1> HIDE DEF s, h, r
<1>5. SecuritySlot
  BY <1>2, <1>3, <1>4 DEF SecuritySlot
<1>6. HttpSlot
  BY <1>2, <1>3, <1>4 DEF HttpSlot, SameAsserted
<1>7. BlankDelegation \in Delegation /\ BlankDelegation.depth = Len(BlankDelegation.chain)
  <2>1. <<>> \in Chains
    <3>1. 0 \in 0 .. MaxHops
      BY TierAssumption
    <3>2. <<>> \in [1 .. 0 -> Hops]
      OBVIOUS
    <3> QED BY <3>1, <3>2 DEF Chains
  <2>2. 0 \in 0 .. MaxHops
    BY TierAssumption
  <2> QED BY <2>1, <2>2 DEF BlankDelegation, Delegation
<1>8. DelegationSlot
  BY <1>1, <1>2, <1>4, <1>7 DEF DelegationSlot
<1>9. RawSlot /\ PlainSlots
  BY <1>2, <1>3, <1>4 DEF RawSlot, PlainSlots, Constraints
<1> QED BY <1>2, <1>5, <1>6, <1>8, <1>9 DEF TierInv

LEMMA TierSteps == ASSUME TierInv, TierNext PROVE TierStep
<1>1. PICK caps \in CapabilitySets : RunsPlugin(caps)
  BY DEF TierNext
<1>2. PICK owned \in Returned(View(caps)) :
        /\ ext' = IF /\ ValidateImmutable(owned) /\ LabelsOk(caps, owned)
                     /\ ConstraintWriteOk(caps, owned)
                  THEN MergeOwned(caps, owned) ELSE ext
        /\ last' = caps \cap WriteCapabilities
        /\ UNCHANGED born
  BY <1>1 DEF RunsPlugin
<1>3. AnyReturn(owned)
  BY ReturnedIs
<1>4. CASE ext' = ext
  BY <1>2, <1>4, TierKept
<1>5. CASE ext' = MergeOwned(caps, owned) /\ ConstraintWriteOk(caps, owned)
  BY <1>2, <1>3, <1>5, TierMerges
<1> QED BY <1>2, <1>4, <1>5

LEMMA TierPreserved == ASSUME TierInv, [TierNext]_tierVars PROVE TierInv'
<1>1. CASE TierNext
  BY <1>1, TierSteps DEF TierStep
<1>2. CASE UNCHANGED tierVars
  BY <1>2 DEF tierVars, TierInv, SecuritySlot, HttpSlot, DelegationSlot, RawSlot, PlainSlots
<1> QED BY <1>1, <1>2

\* Type correctness: whatever plugins return, the slots of the canonical
\* extensions stay well formed (merge_owned).
THEOREM TierTypeCorrect == TierSpec => []TierTypeOK
<1>1. TierInv => TierTypeOK
  BY DEF TierInv, SecuritySlot, HttpSlot, DelegationSlot, RawSlot, PlainSlots, TierTypeOK
<1>2. TierInv /\ [TierNext]_tierVars => TierInv'
  BY TierPreserved
<1> QED BY <1>1, <1>2, TierStarts, PTL DEF TierSpec

\* However many plugins run and whatever they were granted and return, the
\* authenticated subject, the request line, the agent and the credentials the
\* engine asserted are those the pipeline began with (filter_extensions,
\* merge_owned).
THEOREM IdentityKeptHolds == TierSpec => []IdentityKept
<1>1. TierInv => IdentityKept
  <2> SUFFICES ASSUME TierInv PROVE IdentityKept
    OBVIOUS
  <2>1. PICK s, b \in Security : ext.security = {s} /\ born.security = {b} /\ s.subject = b.subject
    BY DEF TierInv, SecuritySlot
  <2>2. PICK h, c \in Http : ext.http = {h} /\ born.http = {c} /\ SameAsserted(h, c)
    BY DEF TierInv, HttpSlot
  <2>3. {x.subject : x \in ext.security} = {x.subject : x \in born.security}
    BY <2>1
  <2>4. {<<x.line, x.markers>> : x \in ext.http} = {<<x.line, x.markers>> : x \in born.http}
    BY <2>2 DEF SameAsserted
  <2>5. \A x \in ext.http, y \in born.http : \A n \in y.markers : x.headers[n] = y.headers[n]
    BY <2>2 DEF SameAsserted
  <2>6. ext.agent = born.agent
    BY DEF TierInv, PlainSlots
  <2> QED BY <2>3, <2>4, <2>5, <2>6 DEF IdentityKept
<1>2. TierInv /\ [TierNext]_tierVars => TierInv'
  BY TierPreserved
<1> QED BY <1>1, <1>2, TierStarts, PTL DEF TierSpec

\* Every step of every plugin only lengthens the lineage (labels, delegation
\* chain, root) and changes a guarded slot only under its write capability
\* (merge_owned, candidate_constraint_write_ok).
THEOREM ChangesGrantedHolds == TierSpec => ChangesGranted
<1>1. TierInv /\ [TierNext]_tierVars => [LineageGrows /\ WritesNeedAGrant]_tierVars
  BY TierSteps DEF TierStep
<1>2. TierInv /\ [TierNext]_tierVars => TierInv'
  BY TierPreserved
<1> QED BY <1>1, <1>2, TierStarts, PTL DEF TierSpec, ChangesGranted

-----------------------------------------------------------------------------
(* RouteChoice: RouteChosen.                                               *)

LEMMA TableIs ==
    ASSUME table \in Tables
    PROVE  /\ DOMAIN table = {1, 2}
           /\ \E t \in Types : \A i \in DOMAIN table : table[i] \in RoutesOf(t)
BY DEF Tables

-----------------------------------------------------------------------------
(* The score and its parts.                                                *)

LEMMA BonusIs ==
    ASSUME NEW sel, IsFiniteSet(NormalizedMethods(sel))
    PROVE  MethodNarrowingBonus(sel) \in 0 .. 50
<1>1. PICK n \in Nat : n = Cardinality(NormalizedMethods(sel))
  BY FS_CardinalityType
<1>2. MethodNarrowingBonus(sel) = IF n = 0 THEN 0 ELSE IF n >= 50 THEN 1 ELSE 50 - (n - 1)
  BY <1>1 DEF MethodNarrowingBonus, SPECIFICITY_METHOD_NARROWED
<1> QED BY <1>2

\* A rank of four parts, and the score it stands for above a base.
ScoreParts(route, base, rank, len) ==
    \E scoped \in {0, 1}, bonus \in 0 .. 50 :
        /\ Specificity(route) = <<rank, len, scoped, bonus>>
        /\ Total(route) = base + 100 * scoped + bonus

HttpBase(base, rank, len) ==
    \/ rank = 4 /\ len = 0 /\ base = ExactPathScore
    \/ rank = 3 /\ base = len * 1000 /\ base + 150 < ExactPathScore
ToolBase(base, rank, len) == len = 0 /\ <<rank, base>> \in {<<4, 1000>>, <<3, 500>>, <<2, 300>>, <<1, 0>>}

LEMMA HttpParts ==
    ASSUME SelectorsAsMeant, NEW route \in RoutesOf("http")
    PROVE  \E base, rank, len \in Nat : HttpBase(base, rank, len) /\ ScoreParts(route, base, rank, len)
<1>1. /\ route.type = "http" /\ route.sel \in Selectors["http"]
      /\ route.sel.kind \in {"exact", "prefix"}
  BY RouteChoiceAssumption DEF RoutesOf, Types
<1>2. PICK bonus \in 0 .. 50 : bonus = MethodNarrowingBonus(route.sel)
  BY <1>1, BonusIs DEF SelectorsAsMeant
<1>3. PICK scoped \in {0, 1} : scoped = IF route.scope = NoScope THEN 0 ELSE 1
  OBVIOUS
<1>4. (IF route.scope = NoScope THEN 0 ELSE SPECIFICITY_SCOPE_MATCH) = 100 * scoped
  BY <1>3 DEF SPECIFICITY_SCOPE_MATCH
<1>5. CASE route.sel.kind = "exact"
  <2>1. Specificity(route) = <<4, 0, scoped, bonus>>
    BY <1>2, <1>3, <1>5 DEF Specificity
  <2>2. Total(route) = ExactPathScore + 100 * scoped + bonus
    <3>1. ScoreHttpMatch(route.sel) = bonus + ExactPathScore
      BY <1>2, <1>5 DEF ScoreHttpMatch
    <3>2. Total(route) = bonus + ExactPathScore + 100 * scoped
      BY <1>1, <1>4, <3>1 DEF Total
    <3> QED BY <3>2, RouteChoiceAssumption
  <2>3. ScoreParts(route, ExactPathScore, 4, 0)
    BY <2>1, <2>2 DEF ScoreParts
  <2>4. HttpBase(ExactPathScore, 4, 0)
    BY DEF HttpBase
  <2> QED BY <2>3, <2>4, RouteChoiceAssumption
<1>6. CASE route.sel.kind = "prefix"
  <2>1. PICK len \in Nat : len = PathPrefixSpecificity(route.sel.prefix) /\ len * 1000 + 150 < ExactPathScore
    <3>1. PICK len \in Nat : /\ len = PathPrefixSpecificity(route.sel.prefix)
                             /\ len * 1000 + 100 + 50 < ExactPathScore
      BY <1>1, <1>6 DEF SelectorsAsMeant, SPECIFICITY_PATH_PREFIX_STEP, SPECIFICITY_SCOPE_MATCH,
                        SPECIFICITY_METHOD_NARROWED
    <3>2. PICK n \in Nat : n = len * 1000
      OBVIOUS
    <3> QED BY <3>1, <3>2, RouteChoiceAssumption
  <2>2. Specificity(route) = <<3, len, scoped, bonus>>
    BY <1>2, <1>3, <1>6, <2>1 DEF Specificity
  <2>3. PICK base \in Nat : base = len * 1000
    OBVIOUS
  <2>4. Total(route) = base + 100 * scoped + bonus
    <3>1. ScoreHttpMatch(route.sel) = bonus + base
      BY <1>2, <1>6, <2>1, <2>3 DEF ScoreHttpMatch, SPECIFICITY_PATH_PREFIX_STEP
    <3>2. Total(route) = bonus + base + 100 * scoped
      BY <1>1, <1>4, <3>1 DEF Total
    <3> QED BY <3>2
  <2>5. ScoreParts(route, base, 3, len)
    BY <2>2, <2>4 DEF ScoreParts
  <2>6. HttpBase(base, 3, len)
    BY <2>1, <2>3 DEF HttpBase
  <2> QED BY <2>5, <2>6
<1> QED BY <1>1, <1>5, <1>6

LEMMA ToolParts ==
    ASSUME SelectorsAsMeant, NEW route \in RoutesOf("tool")
    PROVE  \E base, rank, len \in Nat : ToolBase(base, rank, len) /\ ScoreParts(route, base, rank, len)
<1>1. /\ route.type = "tool" /\ route.sel \in Selectors["tool"]
      /\ route.sel.kind \in {"single", "list"}
  BY DEF RoutesOf, SelectorsAsMeant
<1>2. PICK scoped \in {0, 1} : scoped = IF route.scope = NoScope THEN 0 ELSE 1
  OBVIOUS
<1>3. PICK sel : sel = route.sel
  OBVIOUS
<1>4. HasStar(sel.pattern) <=> IsGlob(sel.pattern)
  BY DEF HasStar, IsGlob, SelectorsAsMeant
<1>5. PICK rank, base \in Nat :
        /\ ToolBase(base, rank, 0)
        /\ Specificity(route) = <<rank, 0, scoped, 0>> /\ ScoreEntityMatch(sel) = base
  <2>1. CASE sel.kind = "list"
    <3>1. Specificity(route) = <<3, 0, scoped, 0>> /\ ScoreEntityMatch(sel) = 500
      BY <1>2, <1>3, <2>1 DEF Specificity, ScoreEntityMatch, SPECIFICITY_NAME_LIST
    <3> QED BY <3>1 DEF ToolBase
  <2>2. CASE sel.kind = "single" /\ sel.pattern = "*"
    <3>1. Specificity(route) = <<1, 0, scoped, 0>> /\ ScoreEntityMatch(sel) = 0
      BY <1>2, <1>3, <2>2 DEF Specificity, ScoreEntityMatch, SPECIFICITY_WILDCARD
    <3> QED BY <3>1 DEF ToolBase
  <2>3. CASE sel.kind = "single" /\ sel.pattern # "*" /\ IsGlob(sel.pattern)
    <3>1. Specificity(route) = <<2, 0, scoped, 0>> /\ ScoreEntityMatch(sel) = 300
      BY <1>2, <1>3, <1>4, <2>3 DEF Specificity, ScoreEntityMatch, SPECIFICITY_GLOB
    <3> QED BY <3>1 DEF ToolBase
  <2>4. CASE sel.kind = "single" /\ sel.pattern # "*" /\ ~IsGlob(sel.pattern)
    <3>1. Specificity(route) = <<4, 0, scoped, 0>> /\ ScoreEntityMatch(sel) = 1000
      BY <1>2, <1>3, <1>4, <2>4 DEF Specificity, ScoreEntityMatch, SPECIFICITY_EXACT_NAME
    <3> QED BY <3>1 DEF ToolBase
  <2> QED BY <1>1, <1>3, <2>1, <2>2, <2>3, <2>4
<1>6. Total(route) = base + 100 * scoped
  BY <1>1, <1>2, <1>3, <1>5 DEF Total, SPECIFICITY_SCOPE_MATCH
<1>7. ScoreParts(route, base, rank, 0)
  BY <1>5, <1>6 DEF ScoreParts
<1> QED BY <1>5, <1>7

LEMMA Lexicographic ==
    ASSUME NEW a1 \in Nat, NEW a2 \in Nat, NEW a3 \in Nat, NEW a4 \in Nat,
           NEW b1 \in Nat, NEW b2 \in Nat, NEW b3 \in Nat, NEW b4 \in Nat,
           \/ a1 > b1
           \/ a1 = b1 /\ a2 > b2
           \/ a1 = b1 /\ a2 = b2 /\ a3 > b3
           \/ a1 = b1 /\ a2 = b2 /\ a3 = b3 /\ a4 > b4
    PROVE  MoreSpecific(<<a1, a2, a3, a4>>, <<b1, b2, b3, b4>>)
<1> DEFINE a == <<a1, a2, a3, a4>>
           b == <<b1, b2, b3, b4>>
<1>1. /\ a[1] = a1 /\ a[2] = a2 /\ a[3] = a3 /\ a[4] = a4
      /\ b[1] = b1 /\ b[2] = b2 /\ b[3] = b3 /\ b[4] = b4
  OBVIOUS
<1> HIDE DEF a, b
<1>2. CASE a1 > b1
  BY <1>1, <1>2 DEF MoreSpecific, a, b
<1>3. CASE a1 = b1 /\ a2 > b2
  <2>1. \A l \in 1 .. (2 - 1) : a[l] = b[l]
    BY <1>1, <1>3
  <2> QED BY <1>1, <1>3, <2>1 DEF MoreSpecific, a, b
<1>4. CASE a1 = b1 /\ a2 = b2 /\ a3 > b3
  <2>1. \A l \in 1 .. (3 - 1) : a[l] = b[l]
    BY <1>1, <1>4
  <2> QED BY <1>1, <1>4, <2>1 DEF MoreSpecific, a, b
<1>5. CASE a1 = b1 /\ a2 = b2 /\ a3 = b3 /\ a4 > b4
  <2>1. \A l \in 1 .. (4 - 1) : a[l] = b[l]
    BY <1>1, <1>5
  <2> QED BY <1>1, <1>5, <2>1 DEF MoreSpecific, a, b
<1> QED BY <1>2, <1>3, <1>4, <1>5

\* Bases that differ, differ by more than every bonus together.
Spread(base, rank, len, base2, rank2, len2) ==
    \/ base = base2 /\ rank = rank2 /\ len = len2
    \/ base > base2 + 150 /\ (rank > rank2 \/ (rank = rank2 /\ len > len2))
    \/ base2 > base + 150

LEMMA PartsOrdered ==
    ASSUME NEW x, NEW y,
           NEW base \in Nat, NEW rank \in Nat, NEW len \in Nat, ScoreParts(x, base, rank, len),
           NEW base2 \in Nat, NEW rank2 \in Nat, NEW len2 \in Nat, ScoreParts(y, base2, rank2, len2),
           Spread(base, rank, len, base2, rank2, len2)
    PROVE  /\ Total(x) \in Nat /\ Total(y) \in Nat
           /\ Total(x) > Total(y) => MoreSpecific(Specificity(x), Specificity(y))
           /\ Total(x) = Total(y) => Specificity(x) = Specificity(y)
<1>1. PICK s \in {0, 1}, b \in 0 .. 50 :
        Specificity(x) = <<rank, len, s, b>> /\ Total(x) = base + 100 * s + b
  BY DEF ScoreParts
<1>2. PICK t \in {0, 1}, c \in 0 .. 50 :
        Specificity(y) = <<rank2, len2, t, c>> /\ Total(y) = base2 + 100 * t + c
  BY DEF ScoreParts
<1>3. Total(x) \in Nat /\ Total(y) \in Nat
  BY <1>1, <1>2
<1>4. ASSUME Total(x) = Total(y) PROVE Specificity(x) = Specificity(y)
  <2>1. base = base2 /\ rank = rank2 /\ len = len2 /\ s = t /\ b = c
    BY <1>1, <1>2, <1>4 DEF Spread
  <2> QED BY <1>1, <1>2, <2>1
<1>5. ASSUME Total(x) > Total(y) PROVE MoreSpecific(Specificity(x), Specificity(y))
  <2>1. \/ rank > rank2
        \/ rank = rank2 /\ len > len2
        \/ rank = rank2 /\ len = len2 /\ s > t
        \/ rank = rank2 /\ len = len2 /\ s = t /\ b > c
    BY <1>1, <1>2, <1>5 DEF Spread
  <2>2. s \in Nat /\ t \in Nat /\ b \in Nat /\ c \in Nat
    OBVIOUS
  <2>3. MoreSpecific(<<rank, len, s, b>>, <<rank2, len2, t, c>>)
    BY <2>1, <2>2, Lexicographic
  <2> QED BY <1>1, <1>2, <2>3
<1> QED BY <1>3, <1>4, <1>5

\* The score orders two routes of one table as their parts do.
LEMMA ScoreOrders ==
    ASSUME SelectorsAsMeant, NEW t \in Types, NEW x \in RoutesOf(t), NEW y \in RoutesOf(t)
    PROVE  /\ Total(x) \in Nat /\ Total(y) \in Nat
           /\ Total(x) > Total(y) => MoreSpecific(Specificity(x), Specificity(y))
           /\ Total(x) = Total(y) => Specificity(x) = Specificity(y)
<1>1. CASE t = "http"
  <2>1. PICK base, rank, len \in Nat : HttpBase(base, rank, len) /\ ScoreParts(x, base, rank, len)
    BY <1>1, HttpParts
  <2>2. PICK base2, rank2, len2 \in Nat : HttpBase(base2, rank2, len2) /\ ScoreParts(y, base2, rank2, len2)
    BY <1>1, HttpParts
  <2>3. Spread(base, rank, len, base2, rank2, len2)
    BY <2>1, <2>2, RouteChoiceAssumption DEF HttpBase, Spread
  <2> QED BY <2>1, <2>2, <2>3, PartsOrdered
<1>2. CASE t = "tool"
  <2>1. PICK base, rank, len \in Nat : ToolBase(base, rank, len) /\ ScoreParts(x, base, rank, len)
    BY <1>2, ToolParts
  <2>2. PICK base2, rank2, len2 \in Nat : ToolBase(base2, rank2, len2) /\ ScoreParts(y, base2, rank2, len2)
    BY <1>2, ToolParts
  <2>3. Spread(base, rank, len, base2, rank2, len2)
    BY <2>1, <2>2 DEF ToolBase, Spread
  <2> QED BY <2>1, <2>2, <2>3, PartsOrdered
<1> QED BY <1>1, <1>2 DEF Types

-----------------------------------------------------------------------------
(* The route.                                                              *)

Matching(q) == {i \in DOMAIN table : RouteMatches(table[i], q)}
Beats(i, j) == Total(table[i]) > Total(table[j]) \/ (Total(table[i]) = Total(table[j]) /\ i <= j)

LEMMA ResolvedIs ==
    ASSUME SelectorsAsMeant, table \in Tables, NEW q, Matching(q) # {}
    PROVE  ResolveRoute(q) \in Matching(q) /\ \A j \in Matching(q) : Beats(ResolveRoute(q), j)
<1>1. PICK t \in Types : \A i \in DOMAIN table : table[i] \in RoutesOf(t)
  BY TableIs
<1>2. \A i \in {1, 2} : Total(table[i]) \in Nat
  BY <1>1, TableIs, ScoreOrders
<1>3. \A i, j \in {1, 2} : Beats(i, i) /\ (Beats(i, j) \/ Beats(j, i))
  BY <1>2 DEF Beats
<1>4. Matching(q) \in SUBSET {1, 2}
  BY TableIs DEF Matching
<1>5. \E i \in Matching(q) : \A j \in Matching(q) : Beats(i, j)
  <2>1. CASE 1 \in Matching(q) /\ 2 \in Matching(q)
    BY <1>3, <1>4, <2>1
  <2>2. CASE 1 \notin Matching(q)
    BY <1>3, <1>4, <2>2
  <2>3. CASE 2 \notin Matching(q)
    BY <1>3, <1>4, <2>3
  <2> QED BY <2>1, <2>2, <2>3
<1>6. ResolveRoute(q) = CHOOSE i \in Matching(q) : \A j \in Matching(q) : Beats(i, j)
  BY DEF ResolveRoute, Matching, Beats
<1> QED BY <1>5, <1>6

LEMMA UnmatchedIs == ASSUME NEW q, Matching(q) = {} PROVE ResolveRoute(q) = 0
BY DEF ResolveRoute, Matching

LEMMA Resolves ==
    ASSUME SelectorsAsMeant, table \in Tables, NEW q, ResolveRoute(q) # 0
    PROVE  /\ ResolveRoute(q) \in DOMAIN table /\ RouteMatches(table[ResolveRoute(q)], q)
           /\ \A j \in DOMAIN table : RouteMatches(table[j], q) => Beats(ResolveRoute(q), j)
BY ResolvedIs, UnmatchedIs DEF Matching

-----------------------------------------------------------------------------
(* The handler.                                                            *)

\* A policy annotated under a name, at a scope.
Claims(i, name, scope) ==
    /\ i \in DOMAIN table /\ table[i].policy = TRUE /\ table[i].scope = scope
    /\ name \in RouteNames(table[i])

LEMMA AnnotatedIs ==
    ASSUME table \in Tables, NEW name, NEW scope
    PROVE  /\ Annotated(name, scope) # 0 => Claims(Annotated(name, scope), name, scope)
           /\ \A i : Claims(i, name, scope) => Annotated(name, scope) # 0
<1> DEFINE at == {i \in DOMAIN table : /\ table[i].policy /\ table[i].scope = scope
                                       /\ name \in RouteNames(table[i])}
<1>1. at = {} => Annotated(name, scope) = 0
  BY DEF Annotated
<1>2. at # {} => Annotated(name, scope) \in at
  BY DEF Annotated
<1>3. \A i \in DOMAIN table : i # 0 /\ table[i].policy \in BOOLEAN
  BY TableIs DEF RoutesOf
<1>4. \A i : i \in at <=> Claims(i, name, scope)
  BY <1>3 DEF Claims
<1>5. 0 \notin at
  BY <1>3
<1> HIDE DEF at
<1> QED BY <1>1, <1>2, <1>4, <1>5

LEMMA LookupIs ==
    ASSUME table \in Tables, NEW name, NEW scope
    PROVE  /\ Lookup(name, scope) # 0 =>
                 \E s \in {scope, NoScope} : Claims(Lookup(name, scope), name, s)
           /\ \A i, s : s \in {scope, NoScope} /\ Claims(i, name, s) => Lookup(name, scope) # 0
BY AnnotatedIs DEF Lookup

\* A route that matches claims the name it is matched by.
LEMMA MatchedIs ==
    ASSUME SelectorsAsMeant, NEW t \in Types, NEW route \in RoutesOf(t), NEW q, q.type = t,
           RouteMatches(route, q)
    PROVE  MatchedName(route, q) \in RouteNames(route)
<1>1. CASE t = "http"
  <2>1. route.sel.kind \in {"exact", "prefix"}
    BY <1>1, RouteChoiceAssumption DEF RoutesOf, Types
  <2>2. HttpMatches(route.sel, q)
    BY <1>1 DEF RouteMatches
  <2> QED BY <2>1, <2>2 DEF MatchedName, RouteNames, HttpMatches
<1>2. CASE t = "tool"
  <2>1. route.sel.kind \in {"single", "list"}
    BY <1>2 DEF RoutesOf, SelectorsAsMeant
  <2>2. NameMatches(route.sel, q.name)
    BY <1>2 DEF RouteMatches
  <2> QED BY <2>1, <2>2 DEF MatchedName, RouteNames, NameMatches
<1> QED BY <1>1, <1>2 DEF Types

\* Another route that claims that name matches the request too.
LEMMA HttpClaimMatches ==
    ASSUME SelectorsAsMeant, NEW route \in RoutesOf("http"), NEW other \in RoutesOf("http"), NEW q,
           HttpMatches(route.sel, q), MatchedName(route, q) \in RouteNames(other)
    PROVE  HttpMatches(other.sel, q)
<1>1. route.sel.kind \in {"exact", "prefix"} /\ other.sel.kind \in {"exact", "prefix"}
  BY RouteChoiceAssumption DEF RoutesOf, Types
<1>2. /\ NormalizedMethods(other.sel) = NormalizedMethods(route.sel)
      /\ other.sel.kind = route.sel.kind
      /\ route.sel.kind = "prefix" => other.sel.prefix = route.sel.prefix
      /\ route.sel.kind = "exact" => q.path \in other.sel.paths
  <2>1. CASE other.sel.kind = "prefix"
    <3>1. MatchedName(route, q) = RenderedPrefixName(other.sel.prefix, NormalizedMethods(other.sel))
      BY <2>1 DEF RouteNames
    <3> QED BY <1>1, <2>1, <3>1 DEF MatchedName, RenderedPrefixName, RenderedExactName
  <2>2. CASE other.sel.kind = "exact"
    <3>1. PICK p \in other.sel.paths :
            MatchedName(route, q) = RenderedExactName(p, NormalizedMethods(other.sel))
      BY <2>2 DEF RouteNames
    <3> QED BY <1>1, <2>2, <3>1 DEF MatchedName, RenderedPrefixName, RenderedExactName
  <2> QED BY <1>1, <2>1, <2>2
<1>3. HttpMethodMatches(other.sel, q.method)
  <2>1. HttpMethodMatches(route.sel, q.method)
    BY DEF HttpMatches
  <2> QED BY <1>2, <2>1 DEF HttpMethodMatches, NormalizedMethods
<1> QED BY <1>1, <1>2, <1>3 DEF HttpMatches

LEMMA ToolClaimMatches ==
    ASSUME SelectorsAsMeant, NEW other \in RoutesOf("tool"), NEW q
    PROVE  /\ q.name \in RouteNames(other) => NameMatches(other.sel, q.name)
           /\ \A route \in RoutesOf("tool") :
                 NameMatches(route.sel, q.name) /\ MatchedName(route, q) \in RouteNames(other) =>
                    NameMatches(other.sel, q.name)
<1>1. other.sel.kind \in {"single", "list"}
  BY DEF RoutesOf, SelectorsAsMeant
<1>2. q.name \in RouteNames(other) => NameMatches(other.sel, q.name)
  BY <1>1 DEF RouteNames, NameMatches
<1>3. ASSUME NEW route \in RoutesOf("tool"), NameMatches(route.sel, q.name),
             MatchedName(route, q) \in RouteNames(other)
      PROVE  NameMatches(other.sel, q.name)
  <2>1. route.sel.kind \in {"single", "list"}
    BY DEF RoutesOf, SelectorsAsMeant
  <2>2. CASE route.sel.kind = "list"
    BY <1>2, <1>3, <2>2 DEF MatchedName
  <2>3. CASE route.sel.kind = "single"
    <3>1. /\ MatchedName(route, q) = route.sel.pattern
          /\ q.name = route.sel.pattern
             \/ (IsGlob(route.sel.pattern) /\ q.name \in Patterns[route.sel.pattern].names)
      BY <1>3, <2>3 DEF MatchedName, NameMatches
    <3>2. CASE q.name = route.sel.pattern
      BY <1>2, <1>3, <3>1, <3>2
    <3>3. CASE other.sel.kind = "single"
      BY <1>3, <3>1, <3>3 DEF RouteNames, NameMatches
    <3>4. CASE IsGlob(route.sel.pattern) /\ other.sel.kind = "list"
      BY <1>3, <3>1, <3>4 DEF RouteNames, IsGlob, SelectorsAsMeant, RoutesOf
    <3> QED BY <1>1, <3>1, <3>2, <3>3, <3>4
  <2> QED BY <2>1, <2>2, <2>3
<1> QED BY <1>2, <1>3

HandlerFor(q) == IF q.type = "http" THEN HandlerByPath(q) ELSE HandlerByName(q)
OfItsType(q) == \A i \in DOMAIN table : table[i].type = q.type

LEMMA TypedTable ==
    ASSUME table \in Tables, NEW q, OfItsType(q)
    PROVE  q.type \in Types /\ \A i \in DOMAIN table : table[i] \in RoutesOf(q.type)
BY TableIs DEF OfItsType, RoutesOf

\* The handler a request meets was looked up under its own name, or under the
\* name of the route it resolved to.
LEMMA HandlerIs ==
    ASSUME NEW q
    PROVE  \/ HandlerFor(q) = 0
           \/ q.type # "http" /\ HandlerFor(q) = Lookup(q.name, q.scope)
           \/ /\ ResolveRoute(q) # 0
              /\ HandlerFor(q) = Lookup(MatchedName(table[ResolveRoute(q)], q), q.scope)
BY DEF HandlerFor, HandlerByPath, HandlerByName

LEMMA MeetsAMatch ==
    ASSUME SelectorsAsMeant, table \in Tables, NEW q, OfItsType(q), HandlerFor(q) # 0
    PROVE  RouteMatches(table[HandlerFor(q)], q)
<1>0. q.type \in Types /\ \A i \in DOMAIN table : table[i] \in RoutesOf(q.type)
  BY TypedTable
<1>1. CASE q.type # "http" /\ HandlerFor(q) = Lookup(q.name, q.scope)
  <2>1. PICK s \in {q.scope, NoScope} : Claims(HandlerFor(q), q.name, s)
    BY <1>1, LookupIs
  <2>2. NameMatches(table[HandlerFor(q)].sel, q.name)
    BY <1>0, <1>1, <2>1, ToolClaimMatches DEF Claims, Types
  <2> QED BY <1>1, <2>1, <2>2 DEF RouteMatches, InScope, Claims, OfItsType
<1>2. CASE /\ ResolveRoute(q) # 0
           /\ HandlerFor(q) = Lookup(MatchedName(table[ResolveRoute(q)], q), q.scope)
  <2>1. ResolveRoute(q) \in DOMAIN table /\ RouteMatches(table[ResolveRoute(q)], q)
    BY <1>2, Resolves
  <2>2. PICK s \in {q.scope, NoScope} :
          Claims(HandlerFor(q), MatchedName(table[ResolveRoute(q)], q), s)
    BY <1>2, LookupIs
  <2>3. CASE q.type = "http"
    <3>1. HttpMatches(table[ResolveRoute(q)].sel, q)
      BY <2>1, <2>3 DEF RouteMatches
    <3>2. HttpMatches(table[HandlerFor(q)].sel, q)
      BY <1>0, <2>1, <2>2, <2>3, <3>1, HttpClaimMatches DEF Claims
    <3> QED BY <2>2, <2>3, <3>2 DEF RouteMatches, InScope, Claims, OfItsType
  <2>4. CASE q.type = "tool"
    <3>1. NameMatches(table[ResolveRoute(q)].sel, q.name)
      BY <2>1, <2>4 DEF RouteMatches
    <3>2. NameMatches(table[HandlerFor(q)].sel, q.name)
      BY <1>0, <2>1, <2>2, <2>4, <3>1, ToolClaimMatches DEF Claims
    <3> QED BY <2>2, <2>4, <3>2 DEF RouteMatches, InScope, Claims, OfItsType
  <2> QED BY <1>0, <2>3, <2>4 DEF Types
<1> QED BY <1>1, <1>2, HandlerIs

LEMMA MeetsAPolicy ==
    ASSUME SelectorsAsMeant, table \in Tables, NEW q, OfItsType(q),
           ResolveRoute(q) # 0, table[ResolveRoute(q)].policy
    PROVE  HandlerFor(q) # 0
<1>0. q.type \in Types /\ \A i \in DOMAIN table : table[i] \in RoutesOf(q.type)
  BY TypedTable
<1>1. PICK r \in DOMAIN table : r = ResolveRoute(q) /\ RouteMatches(table[r], q)
  BY Resolves
<1>2. MatchedName(table[r], q) \in RouteNames(table[r])
  BY <1>0, <1>1, MatchedIs
<1>3. table[r].scope \in {q.scope, NoScope} /\ table[r].policy = TRUE
  BY <1>0, <1>1 DEF RouteMatches, InScope, RoutesOf
<1>4. Lookup(MatchedName(table[r], q), q.scope) # 0
  <2>1. Claims(r, MatchedName(table[r], q), table[r].scope)
    BY <1>2, <1>3 DEF Claims
  <2> QED BY <1>3, <2>1, LookupIs
<1>5. CASE q.type = "http"
  BY <1>1, <1>4, <1>5 DEF HandlerFor, HandlerByPath
<1>6. CASE q.type = "tool"
  <2>1. CASE \E i \in DOMAIN table : IsGlobSelector(table[i].sel)
    BY <1>1, <1>4, <1>6, <2>1 DEF HandlerFor, HandlerByName
  <2>2. CASE ~\E i \in DOMAIN table : IsGlobSelector(table[i].sel)
    <3>1. MatchedName(table[r], q) = q.name
      <4>1. table[r].sel.kind \in {"single", "list"}
        BY <1>0, <1>6 DEF RoutesOf, SelectorsAsMeant
      <4>2. NameMatches(table[r].sel, q.name) /\ ~IsGlobSelector(table[r].sel)
        BY <1>1, <1>6, <2>2 DEF RouteMatches
      <4> QED BY <4>1, <4>2 DEF MatchedName, NameMatches, IsGlobSelector
    <3> QED BY <1>4, <1>6, <2>2, <3>1 DEF HandlerFor, HandlerByName
  <2> QED BY <2>1, <2>2
<1> QED BY <1>0, <1>5, <1>6 DEF Types

-----------------------------------------------------------------------------
\* What has been served was resolved in this table.
Served ==
    \/ served = Unserved
    \/ /\ OfItsType(served.query)
       /\ served.route = ResolveRoute(served.query) /\ served.handler = HandlerFor(served.query)

ChoiceInv == table \in Tables /\ loaded \in {"unread", "accepted", "refused"} /\ Served

LEMMA ChoiceStep == ASSUME ChoiceInv, [ChoiceNext]_choiceVars PROVE ChoiceInv'
<1>1. table' = table
  BY DEF ChoiceNext, LoadRoutes, Serve, choiceVars
<1>2. \A q : /\ OfItsType(q)' <=> OfItsType(q)
             /\ ResolveRoute(q)' = ResolveRoute(q) /\ HandlerFor(q)' = HandlerFor(q)
  BY <1>1 DEF OfItsType, ResolveRoute, HandlerFor, HandlerByPath, HandlerByName, Lookup, Annotated
<1>3. CASE served' = served
  <2>1. \/ served' = Unserved
        \/ /\ OfItsType(served.query)
           /\ served.route = ResolveRoute(served.query) /\ served.handler = HandlerFor(served.query)
    BY <1>3 DEF ChoiceInv, Served
  <2>2. Served'
    BY <1>2, <1>3, <2>1 DEF Served
  <2>3. loaded' \in {"unread", "accepted", "refused"}
    BY DEF ChoiceInv, ChoiceNext, LoadRoutes, Serve, choiceVars
  <2> QED BY <1>1, <2>2, <2>3 DEF ChoiceInv
<1>4. ASSUME NEW q \in Queries, Serve(q) PROVE ChoiceInv'
  <2>1. /\ OfItsType(q) /\ loaded' = loaded
        /\ served' = [query |-> q, route |-> ResolveRoute(q), handler |-> HandlerFor(q)]
    BY <1>4 DEF Serve, OfItsType, HandlerFor
  <2>2. served'.query = q /\ served'.route = ResolveRoute(q) /\ served'.handler = HandlerFor(q)
    BY <2>1
  <2>3. Served'
    BY <1>2, <2>1, <2>2 DEF Served
  <2> QED BY <1>1, <2>1, <2>3 DEF ChoiceInv
<1> QED BY <1>3, <1>4 DEF ChoiceNext, LoadRoutes, choiceVars

LEMMA ChoiceSound == ASSUME SelectorsAsMeant, ChoiceInv PROVE RouteChosen
<1>1. CASE served = Unserved
  BY <1>1 DEF Unserved, RouteChosen, MostSpecificWins, HandlerMatches, PolicyReached
<1>2. CASE served # Unserved
  <2>0. PICK q : q = served.query
    OBVIOUS
  <2>1. /\ table \in Tables /\ OfItsType(q)
        /\ served.route = ResolveRoute(q) /\ served.handler = HandlerFor(q)
    BY <1>2, <2>0 DEF ChoiceInv, Served
  <2>2. HandlerMatches
    BY <2>0, <2>1, MeetsAMatch DEF HandlerMatches
  <2>3. PolicyReached
    BY <2>0, <2>1, MeetsAPolicy DEF PolicyReached
  <2>4. MostSpecificWins
    <3>1. SUFFICES ASSUME ResolveRoute(q) # 0, NEW j \in DOMAIN table, RouteMatches(table[j], q)
                   PROVE  LET w == Specificity(table[ResolveRoute(q)])
                              c == Specificity(table[j])
                          IN  MoreSpecific(w, c) \/ (w = c /\ ResolveRoute(q) <= j)
      BY <2>0, <2>1 DEF MostSpecificWins
    <3>2. ResolveRoute(q) \in DOMAIN table /\ Beats(ResolveRoute(q), j)
      BY <2>1, <3>1, Resolves
    <3>3. q.type \in Types /\ \A i \in DOMAIN table : table[i] \in RoutesOf(q.type)
      BY <2>1, TypedTable
    <3> QED BY <3>2, <3>3, ScoreOrders DEF Beats
  <2> QED BY <2>2, <2>3, <2>4 DEF RouteChosen
<1> QED BY <1>1, <1>2

\* For every route table of selectors as they are meant, a request is given to
\* the most specific route that matches it, is never dispatched to the policy of
\* a route that does not match it, and meets a policy wherever its route has one
\* (resolve_route, route_entity_identity, matched_selector_name,
\* filter_entries_by_route).
THEOREM RouteChosenHolds ==
    ASSUME SelectorsAsMeant
    PROVE  ChoiceSpec => []RouteChosen
<1>1. ChoiceInit => ChoiceInv
  BY DEF ChoiceInit, ChoiceInv, Served
<1>2. ChoiceInv /\ [ChoiceNext]_choiceVars => ChoiceInv'
  BY ChoiceStep
<1>3. ChoiceInv => RouteChosen
  BY ChoiceSound
<1> QED BY <1>1, <1>2, <1>3, PTL DEF ChoiceSpec


-----------------------------------------------------------------------------
(* Installation and the services together (MCServices): in every behaviour *)
(* of the run's specification each takes its own steps or none.            *)

LEMMA RouteSpecInServicesSpec == ServicesSpec => RouteSpec
<1>1. ServicesInit => RouteInit
  BY DEF ServicesInit
<1>2. [ServicesNext]_servicesVars => [RouteNext]_routeVars
  BY DEF ServicesNext, servicesVars
<1> QED BY <1>1, <1>2, PTL DEF ServicesSpec, RouteSpec

LEMMA DpopSpecInServicesSpec == ServicesSpec => DpopSpec
<1>1. ServicesInit => DpopInit
  BY DEF ServicesInit, DpopAtRest
<1>2. [ServicesNext]_servicesVars => [DpopNext]_dpopVars
  BY DEF ServicesNext, servicesVars
<1> QED BY <1>1, <1>2, PTL DEF ServicesSpec, DpopSpec

LEMMA TokenSpecInServicesSpec == ServicesSpec => TokenSpec
<1>1. ServicesInit => TokenInit
  BY DEF ServicesInit
<1>2. [ServicesNext]_servicesVars => [TokenNext]_tokenVars
  BY DEF ServicesNext, servicesVars
<1> QED BY <1>1, <1>2, PTL DEF ServicesSpec, TokenSpec

LEMMA VaultSpecInServicesSpec == ServicesSpec => VaultSpec
<1>1. ServicesInit => VaultInit
  BY DEF ServicesInit
<1>2. [ServicesNext]_servicesVars => [VaultNext]_vaultVars
  BY DEF ServicesNext, servicesVars
<1> QED BY <1>1, <1>2, PTL DEF ServicesSpec, VaultSpec

LEMMA SessionSpecInServicesSpec == ServicesSpec => SessionSpec
<1>1. ServicesInit => SessionInit
  BY DEF ServicesInit
<1>2. [ServicesNext]_servicesVars => [SessionNext]_sessionVars
  BY DEF ServicesNext, servicesVars
<1> QED BY <1>1, <1>2, PTL DEF ServicesSpec, SessionSpec

LEMMA JwksSpecInServicesSpec == ServicesSpec => JwksSpec
<1>1. ServicesInit => JwksInit
  BY DEF ServicesInit, JwksAtRest
<1>2. [ServicesNext]_servicesVars => [JwksNext]_jwksVars
  BY DEF ServicesNext, servicesVars
<1> QED BY <1>1, <1>2, PTL DEF ServicesSpec, JwksSpec

LEMMA InstallSpecInServicesSpec == ServicesSpec => InstallSpec
<1>1. ServicesInit => InstallInit
  BY DEF ServicesInit
<1>2. [ServicesNext]_servicesVars => [InstallNext]_installVars
  BY DEF ServicesNext, servicesVars
<1> QED BY <1>1, <1>2, PTL DEF ServicesSpec, InstallSpec

\* Every behaviour of the route, the credentials' stores and the installation side
\* by side is one of each of them, whatever the others do.
THEOREM ServicesKeepTheirSpecs ==
    ServicesSpec => /\ RouteSpec /\ DpopSpec /\ TokenSpec /\ VaultSpec
                    /\ SessionSpec /\ JwksSpec /\ InstallSpec
BY RouteSpecInServicesSpec, DpopSpecInServicesSpec, TokenSpecInServicesSpec,
   VaultSpecInServicesSpec, SessionSpecInServicesSpec, JwksSpecInServicesSpec,
   InstallSpecInServicesSpec

\* The variables of the seven parts keep their types side by side.
THEOREM ServicesTypeCorrect == ServicesSpec => []ServicesTypeOK
BY ServicesKeepTheirSpecs, RouteTypeCorrect, DpopTypeCorrect, TokenTypeCorrect,
   VaultTypeCorrect, SessionTypeCorrect, JwksTypeCorrect, InstallTypeCorrect, PTL
   DEF ServicesTypeOK
=============================================================================
