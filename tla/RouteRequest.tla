---------------------------- MODULE RouteRequest ----------------------------
(***************************************************************************)
(* One route evaluation per request (ppe-apl-runtime): the handler loads   *)
(* the session's labels (route_handler.rs, cmf_invoker.rs for_request),    *)
(* decides a gate on them, runs plugins, one after the other or in a       *)
(* `parallel:` group (evaluator.rs dispatch_parallel), then folds the      *)
(* taints back, persists the new labels and answers.  Requests of a        *)
(* session overlap, on one replica or several; they share the session      *)
(* store.  A plugin of a group has a mode that cannot change the request   *)
(* (parallel_safety.rs), so its branch has only a verdict and taints.      *)
(***************************************************************************)
CONSTANTS RouteReqs,   \* bound: requests
          Sessions,    \* session ids resolve_session can return
          Labels,      \* security labels; the gate denies on any of them
          Members,     \* the members of the parallel group
          OwnLabels    \* the label sets a request may carry when it arrives,
                       \* from plugins that ran before the route handler

NoSession == "none"

ASSUME RouteAssumption ==
    /\ OwnLabels \subseteq SUBSET Labels
    /\ NoSession \notin Sessions

VARIABLES
    store,   \* store[s]: the labels of session s in the session store
    told,    \* told[s]: labels of taints whose request was answered allow
    rpc,     \* rpc[r]: where the handler is
    sess,    \* sess[r]: the session id resolved
    gate,    \* gate[r]: the route denies a tainted session
    exts,    \* exts[r]: security.labels of the request's shared extensions
    initial, \* initial_labels: the labels right after hydration
    heard,   \* heard[r]: told for its session when r loaded its labels
    taints,  \* taints[r]: labels of the session taints collected
    answer,  \* answer[r]: none, allow, deny
    verdict, \* verdict[r][m]: the outcome of member m's branch
    adds     \* adds[r][m]: the labels it tainted

requestVars == <<rpc, sess, gate, exts, initial, heard, taints, answer>>
memberVars  == <<verdict, adds>>
routeVars   == <<store, told, requestVars, memberVars>>

HandlerSteps == {"idle", "gate", "plugins", "group", "persist", "ended"}
MemberEnds   == {"running", "allow", "deny", "panic", "aborted"}
NoVerdicts   == [m \in Members |-> "running"]
NoAdds       == [m \in Members |-> {}]

RouteTypeOK ==
    /\ store \in [Sessions -> SUBSET Labels] /\ told \in [Sessions -> SUBSET Labels]
    /\ rpc \in [RouteReqs -> HandlerSteps]
    /\ sess \in [RouteReqs -> Sessions \cup {NoSession}]
    /\ gate \in [RouteReqs -> BOOLEAN]
    /\ exts \in [RouteReqs -> SUBSET Labels] /\ initial \in [RouteReqs -> SUBSET Labels]
    /\ heard \in [RouteReqs -> SUBSET Labels]
    /\ taints \in [RouteReqs -> SUBSET Labels]
    /\ answer \in [RouteReqs -> {"none", "allow", "deny", "dropped"}]
    /\ \A r \in RouteReqs : rpc[r] = "ended" => answer[r] # "none"
    /\ verdict \in [RouteReqs -> [Members -> MemberEnds]]
    /\ adds \in [RouteReqs -> [Members -> SUBSET Labels]]

RouteInit ==
    /\ store = [s \in Sessions |-> {}] /\ told = [s \in Sessions |-> {}]
    /\ rpc = [r \in RouteReqs |-> "idle"]
    /\ sess = [r \in RouteReqs |-> NoSession]
    /\ gate = [r \in RouteReqs |-> FALSE]
    /\ exts = [r \in RouteReqs |-> {}] /\ initial = [r \in RouteReqs |-> {}]
    /\ heard = [r \in RouteReqs |-> {}]
    /\ taints = [r \in RouteReqs |-> {}]
    /\ answer = [r \in RouteReqs |-> "none"]
    /\ verdict = [r \in RouteReqs |-> NoVerdicts]
    /\ adds = [r \in RouteReqs |-> NoAdds]

-----------------------------------------------------------------------------
(* The handler, up to the group.                                           *)

\* The request is answered.
Finish(r, a) ==
    /\ rpc' = [rpc EXCEPT ![r] = "ended"]
    /\ answer' = [answer EXCEPT ![r] = a]

\* The evaluation's own state goes with it; the verdicts of a request that was
\* let through stay, for the properties.
Dropped(r) ==
    /\ exts' = [exts EXCEPT ![r] = {}] /\ initial' = [initial EXCEPT ![r] = {}]
    /\ taints' = [taints EXCEPT ![r] = {}]
    /\ adds' = [adds EXCEPT ![r] = NoAdds]
    /\ IF answer'[r] = "allow" THEN UNCHANGED <<heard, verdict>>
       ELSE /\ heard' = [heard EXCEPT ![r] = {}]
            /\ verdict' = [verdict EXCEPT ![r] = NoVerdicts]

\* Mutant: a store that cannot be read counts as an untainted session.
LoadFailsOpen(r) ==
    /\ rpc' = [rpc EXCEPT ![r] = "gate"]
    /\ UNCHANGED <<answer, exts, initial>>

\* A load that fails denies the request before any decision.
LoadFails(r) ==
    /\ Finish(r, "deny")
    /\ UNCHANGED <<exts, initial>>

\* for_request: resolve the session, load its labels, union them into the
\* request's own.  Without a session the store is not asked.
Hydrate(r) ==
    /\ rpc[r] = "idle"
    /\ \E s \in Sessions \cup {NoSession}, own \in OwnLabels, g \in BOOLEAN :
          /\ sess' = [sess EXCEPT ![r] = s]
          /\ gate' = [gate EXCEPT ![r] = g]
          /\ heard' = [heard EXCEPT ![r] = IF s = NoSession THEN {} ELSE told[s]]
          /\ \/ LET labels == own \cup (IF s = NoSession THEN {} ELSE store[s]) IN
                /\ exts' = [exts EXCEPT ![r] = labels]
                /\ initial' = [initial EXCEPT ![r] = labels]
                /\ rpc' = [rpc EXCEPT ![r] = "gate"]
                /\ UNCHANGED answer
             \/ s # NoSession /\ LoadFails(r)
    /\ UNCHANGED <<store, told, taints, memberVars>>

\* The route's own rules, on the bag built from the hydrated extensions: a
\* route that guards against tainted sessions denies one; a taint step records
\* its label.  A denied phase still persists.
Gate(r) ==
    /\ rpc[r] = "gate"
    /\ \E t \in SUBSET Labels :
          /\ taints' = [taints EXCEPT ![r] = t]
          /\ IF gate[r] /\ exts[r] # {}
             THEN /\ answer' = [answer EXCEPT ![r] = "deny"]
                  /\ rpc' = [rpc EXCEPT ![r] = "persist"]
             ELSE /\ rpc' = [rpc EXCEPT ![r] = "plugins"]
                  /\ UNCHANGED answer
    /\ UNCHANGED <<store, told, sess, gate, exts, initial, heard, memberVars>>

\* A plugin step outside a group: the extensions it returns replace the
\* request's, its new labels are session taints.  A deny or an error halts.
PluginStep(r) ==
    /\ rpc[r] = "plugins"
    /\ \E l \in SUBSET Labels :
          /\ exts' = [exts EXCEPT ![r] = @ \cup l]
          /\ taints' = [taints EXCEPT ![r] = @ \cup (l \ exts[r])]
    /\ \/ rpc' = [rpc EXCEPT ![r] = "group"] /\ UNCHANGED answer
       \/ /\ rpc' = [rpc EXCEPT ![r] = "persist"]
          /\ answer' = [answer EXCEPT ![r] = "deny"]
    /\ UNCHANGED <<store, told, sess, gate, initial, heard, memberVars>>

-----------------------------------------------------------------------------
(* The parallel group.                                                     *)

\* A branch ends: its plugins and PDPs allowed, one denied, or it panicked and
\* its taints are lost.
MemberReturns(r, m) ==
    /\ rpc[r] = "group" /\ verdict[r][m] = "running"
    /\ \E v \in {"allow", "deny", "panic"}, l \in SUBSET Labels :
          /\ v = "panic" => l = {}
          /\ verdict' = [verdict EXCEPT ![r][m] = v]
          /\ adds' = [adds EXCEPT ![r][m] = l]
    /\ UNCHANGED <<store, told, requestVars>>

Joined(r) == {m \in Members : verdict[r][m] # "running"}

\* A panic halts as a deny does: its gate never finished.
Halted(r) == {m \in Joined(r) : verdict[r][m] \in {"deny", "panic"}}

\* run_branches stops at the first joined deny and aborts the members still
\* running; a panic does not stop it.  The taints of the branches that ended
\* become the group's, an aborted one's do not.
GroupEnds(r) ==
    /\ rpc[r] = "group"
    /\ \/ Joined(r) = Members
       \/ \E m \in Joined(r) : verdict[r][m] = "deny"
    /\ taints' = [taints EXCEPT ![r] = @ \cup UNION {adds[r][m] : m \in Joined(r)}]
    /\ answer' = [answer EXCEPT ![r] = IF Halted(r) # {} THEN "deny" ELSE @]
    /\ rpc' = [rpc EXCEPT ![r] = "persist"]
    /\ verdict' = [verdict EXCEPT ![r] = [m \in Members |->
                      IF m \in Joined(r) THEN verdict[r][m] ELSE "aborted"]]
    /\ UNCHANGED <<store, told, sess, gate, exts, initial, heard, adds>>

-----------------------------------------------------------------------------
(* The answer.                                                             *)

\* apply_session_taints: the collected labels go back into the extensions.
Applied(r) == exts[r] \cup taints[r]
\* persist_session appends what was not there after hydration.
NewLabels(r) == Applied(r) \ initial[r]

AppendLabels(s, l) == store' = [store EXCEPT ![s] = @ \cup l]

\* An append that fails, applied or not, denies; a deny stays as it was.
PersistFails(r) == Finish(r, "deny") /\ UNCHANGED told

\* The labels are in the store before an allow is answered.  Restrict steps
\* that contradict each other turn an allow into a deny.
Persist(r) ==
    /\ rpc[r] = "persist"
    /\ \/ /\ IF sess[r] = NoSession THEN UNCHANGED store
                                    ELSE AppendLabels(sess[r], NewLabels(r))
          /\ \/ Finish(r, "deny") /\ UNCHANGED told
             \/ /\ answer[r] = "none"
                /\ Finish(r, "allow")
                /\ told' = [s \in Sessions |-> IF s = sess[r] THEN told[s] \cup taints[r]
                                                             ELSE told[s]]
       \/ /\ sess[r] # NoSession /\ NewLabels(r) # {}
          /\ UNCHANGED store \/ AppendLabels(sess[r], NewLabels(r))
          /\ PersistFails(r)
    /\ Dropped(r)
    /\ UNCHANGED <<sess, gate>>

\* The caller hangs up, or the replica dies: nothing is persisted or answered.
RouteDropped(r) ==
    /\ rpc[r] \notin {"idle", "ended"}
    /\ Finish(r, "dropped")
    /\ Dropped(r)
    /\ UNCHANGED <<store, told, sess, gate>>

RouteNext ==
    \E r \in RouteReqs :
        \/ Hydrate(r) \/ Gate(r) \/ PluginStep(r) \/ GroupEnds(r) \/ Persist(r)
        \/ RouteDropped(r)
        \/ \E m \in Members : MemberReturns(r, m)

RouteSpec == RouteInit /\ [][RouteNext]_routeVars

-----------------------------------------------------------------------------
(* Properties.                                                             *)

\* docs/content/apl/tainting.md: a label persists once set.  A taint whose
\* request was answered allow is in the session store, whatever overlapping
\* requests appended and whichever appends failed, so later requests load it.
TaintDurable == \A s \in Sessions : told[s] \subseteq store[s]

\* The write-down control: a request guarded against tainted sessions is not
\* let through when, as it loaded the labels, a taint of its session had been
\* answered for, by this replica or another.
NoWriteDown ==
    \A r \in RouteReqs : gate[r] /\ answer[r] = "allow" => heard[r] = {}

\* Every member of a group has a say: none that denied or panicked is in a
\* request answered allow, and no member of one was aborted.
EveryMemberAgreed ==
    \A r \in RouteReqs : answer[r] = "allow" =>
        \A m \in Members : verdict[r][m] = "allow"

\* An allow is justified by what happened to the request and to its session:
\* its taints are kept, no earlier one was overlooked, every member agreed.
AllowJustified == TaintDurable /\ NoWriteDown /\ EveryMemberAgreed
=============================================================================
