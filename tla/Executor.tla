------------------------------- MODULE Executor -------------------------------
(***************************************************************************)
(* The hook pipeline (ppe-core, executor.rs): every request runs its       *)
(* plugins in the phases Sequential, Transform, Audit, Concurrent and      *)
(* FireAndForget, each phase with its own right to block and to modify.    *)
(* Plugins are their positions in the priority order.  Requests overlap    *)
(* and share only the plugins' circuit breakers (registry.rs, disabled).   *)
(* The branches of the Concurrent phase run on a JoinSet (ppe-orchestration*)
(* run_branches): they end in any order, a joined deny aborts the rest,    *)
(* and the results are read in input order once every branch is joined.    *)
(*                                                                         *)
(* A payload is what the identity check reads of it: whether a resolver    *)
(* declined a credential, and whether somebody is identified.  A payload   *)
(* of another type answers as one that declines nothing.                   *)
(***************************************************************************)
EXTENDS Naturals

CONSTANTS Requests,      \* slots for overlapping requests
          N,             \* plugins registered for the hook, by priority
          Configs,       \* the trusted configurations to explore
          Payloads,      \* the payloads a caller sends and plugins return
          Failures,      \* bound: the kinds of failure that happen
          ShortCircuit,  \* ExecutorConfig.short_circuit_on_deny
          MayLose        \* the runtime may drop a branch, as it can drop a
                         \* serial task ("lost"): it is shutting down

Plugins == 1..N

Modes    == {"Sequential", "Transform", "Audit", "Concurrent", "FireAndForget"}
OnErrors == {"Fail", "Ignore", "Disable"}
Serial   == {"Sequential", "Transform", "Audit"}

\* PluginMode::can_block and can_modify.
CanBlock(m)  == m \in {"Sequential", "Concurrent"}
CanModify(m) == m \in {"Sequential", "Transform"}

\* ContainedOutcome, and a result of the wrong type (extract_erased).
AllFailures == {"error", "timeout", "panic", "wrongtype", "lost"}

AllPayloads == [declined : BOOLEAN, known : BOOLEAN]

AllConfigs == [Plugins -> [mode : Modes, onError : OnErrors]]

ASSUME NAssumption == N \in Nat
ASSUME ConfigsAssumption == Configs \subseteq AllConfigs
ASSUME PayloadsAssumption == Payloads \subseteq AllPayloads
ASSUME FailuresAssumption == Failures \subseteq AllFailures
ASSUME SwitchesAssumption == ShortCircuit \in BOOLEAN /\ MayLose \in BOOLEAN

VARIABLES
    config,    \* trusted_config of every plugin; never changes
    disabled,  \* plugins whose circuit breaker has tripped
    stage,     \* stage[r]: the phase request r is in
    group,     \* group[r][p]: the mode p was grouped under (group_by_mode)
    out,       \* out[r][p]: how the task of p ended
    act,       \* act[r][p]: the PluginAction in the decision log
    given,     \* given[r][p]: the payload p returned; given[r][0], the caller's
    payload,   \* payload[r]: whose payload is the current one
    declined,  \* credential_declined
    globals,   \* globals[r]: plugins whose context was stored in the table
    errors,    \* errors[r]: plugins with an entry in PipelineResult.errors
    joined,    \* joined[r]: branches taken off the JoinSet
    aborted,   \* run_branches called abort_all
    verdict,   \* verdict[r]
    blame      \* the plugin named by the violation, 0 when there is none

perRequest == <<stage, group, out, act, given, payload, declined, globals,
                errors, joined, aborted, verdict, blame>>
vars == <<config, disabled, perRequest>>

Stages   == {"Idle", "Sequential", "Transform", "Audit", "Concurrent",
             "Joining", "Settle", "Ended"}
Outs     == {"none", "running", "continue", "deny", "cancelled"} \cup AllFailures
Actions  == {"none", "Allowed", "ModifiedPayload", "ModifiedExtensions",
             "Denied", "DenyIgnored", "Error", "Aborted"}
Verdicts == {"none", "Allow", "Deny", "dropped"}

NoPayload == [declined |-> FALSE, known |-> FALSE]

TypeOK ==
    /\ config \in Configs
    /\ disabled \subseteq Plugins
    /\ stage \in [Requests -> Stages]
    /\ group \in [Requests -> [Plugins -> Modes \cup {"Disabled"}]]
    /\ out \in [Requests -> [Plugins -> Outs]]
    /\ act \in [Requests -> [Plugins -> Actions]]
    /\ given \in [Requests -> [0..N -> AllPayloads]]
    /\ payload \in [Requests -> 0..N]
    /\ declined \in [Requests -> BOOLEAN]
    /\ globals \in [Requests -> SUBSET Plugins]
    /\ errors \in [Requests -> SUBSET Plugins]
    /\ joined \in [Requests -> SUBSET Plugins]
    /\ aborted \in [Requests -> BOOLEAN]
    /\ verdict \in [Requests -> Verdicts]
    /\ blame \in [Requests -> 0..N]

Init ==
    /\ config \in Configs
    /\ disabled = {}
    /\ stage = [r \in Requests |-> "Idle"]
    /\ group = [r \in Requests |-> [p \in Plugins |-> "Disabled"]]
    /\ out = [r \in Requests |-> [p \in Plugins |-> "none"]]
    /\ act = [r \in Requests |-> [p \in Plugins |-> "none"]]
    /\ given = [r \in Requests |-> [p \in 0..N |-> NoPayload]]
    /\ payload = [r \in Requests |-> 0]
    /\ declined = [r \in Requests |-> FALSE]
    /\ globals = [r \in Requests |-> {}]
    /\ errors = [r \in Requests |-> {}]
    /\ joined = [r \in Requests |-> {}]
    /\ aborted = [r \in Requests |-> FALSE]
    /\ verdict = [r \in Requests |-> "none"]
    /\ blame = [r \in Requests |-> 0]

----------------------------------------------------------------------------
(* Starting a request.                                                     *)

\* PluginRef::mode: a tripped breaker overrides the configured mode.
Mode(p) == IF p \in disabled THEN "Disabled" ELSE config[p].mode

\* execute_audited: the entries are grouped once, on entry.
Start(r) ==
    /\ stage[r] \in {"Idle", "Ended"}
    /\ stage' = [stage EXCEPT ![r] = "Sequential"]
    /\ group' = [group EXCEPT ![r] = [p \in Plugins |-> Mode(p)]]
    /\ out' = [out EXCEPT ![r] = [p \in Plugins |-> "none"]]
    /\ act' = [act EXCEPT ![r] = [p \in Plugins |-> "none"]]
    /\ payload' = [payload EXCEPT ![r] = 0]
    /\ \E v \in Payloads :
          /\ given' = [given EXCEPT ![r] = [[p \in 0..N |-> NoPayload] EXCEPT ![0] = v]]
          /\ declined' = [declined EXCEPT ![r] = v.declined]
    /\ globals' = [globals EXCEPT ![r] = {}]
    /\ errors' = [errors EXCEPT ![r] = {}]
    /\ joined' = [joined EXCEPT ![r] = {}]
    /\ aborted' = [aborted EXCEPT ![r] = FALSE]
    /\ verdict' = [verdict EXCEPT ![r] = "none"]
    /\ blame' = [blame EXCEPT ![r] = 0]
    /\ UNCHANGED <<config, disabled>>

----------------------------------------------------------------------------
(* The serial phases: run_serial_phase (Sequential, Transform) and         *)
(* run_ref_phase (Audit).                                                  *)

\* p is the plugin the phase of r has come to.
Turn(r, p) ==
    /\ stage[r] \in Serial
    /\ group[r][p] = stage[r]
    /\ \A q \in Plugins : q < p /\ group[r][q] = stage[r] => act[r][q] # "none"

\* invoke_contained spawns the call of p.
Dispatch(r, p) ==
    /\ Turn(r, p)
    /\ out[r][p] = "none"
    /\ out' = [out EXCEPT ![r][p] = "running"]
    /\ UNCHANGED <<config, disabled, stage, group, act, given, payload, declined,
                   globals, errors, joined, aborted, verdict, blame>>

\* The task of p, which r awaits, ends as o; the step is recorded as a.
Returns(r, p, o, a) ==
    /\ stage[r] \in Serial
    /\ group[r][p] = stage[r]
    /\ out[r][p] = "running"
    /\ out' = [out EXCEPT ![r][p] = o]
    /\ act' = [act EXCEPT ![r][p] = a]

\* The table takes back the context of p; Audit works on a copy.
StoreContext(r, p) ==
    globals' = IF CanModify(stage[r])
               THEN [globals EXCEPT ![r] = @ \cup {p}]
               ELSE globals

\* The pipeline returns a denial that names p.
Deny(r, p) ==
    /\ stage' = [stage EXCEPT ![r] = "Ended"]
    /\ verdict' = [verdict EXCEPT ![r] = "Deny"]
    /\ blame' = [blame EXCEPT ![r] = p]

KeepVerdict == UNCHANGED <<stage, verdict, blame>>

\* p continues and changes no payload: it changes nothing, or its extension
\* changes fail the tier checks, or it runs in Audit, where all is discarded.
Continues(r, p) ==
    /\ Returns(r, p, "continue", "Allowed")
    /\ StoreContext(r, p)
    /\ KeepVerdict
    /\ UNCHANGED <<config, disabled, group, given, payload, declined, errors,
                   joined, aborted>>

\* p continues and its extension changes pass the tier checks.
Extends(r, p) ==
    /\ CanModify(stage[r])
    /\ Returns(r, p, "continue", "ModifiedExtensions")
    /\ StoreContext(r, p)
    /\ KeepVerdict
    /\ UNCHANGED <<config, disabled, group, given, payload, declined, errors,
                   joined, aborted>>

\* Mutant: only the latest payload's decline counts.
NoteDeclineFresh(r, v) == declined' = [declined EXCEPT ![r] = v.declined]

\* A decline stays, whatever payload comes later.
NoteDecline(r, v) == declined' = [declined EXCEPT ![r] = @ \/ v.declined]

\* p continues with a payload of its own.
Modifies(r, p) ==
    /\ CanModify(stage[r])
    /\ Returns(r, p, "continue", "ModifiedPayload")
    /\ \E v \in Payloads :
          /\ given' = [given EXCEPT ![r][p] = v]
          /\ NoteDecline(r, v)
    /\ payload' = [payload EXCEPT ![r] = p]
    /\ StoreContext(r, p)
    /\ KeepVerdict
    /\ UNCHANGED <<config, disabled, group, errors, joined, aborted>>

\* p asks to stop, and may: this is the verdict.  Its context is not stored.
Denies(r, p) ==
    /\ CanBlock(stage[r])
    /\ Returns(r, p, "deny", "Denied")
    /\ Deny(r, p)
    /\ UNCHANGED <<config, disabled, group, given, payload, declined, globals,
                   errors, joined, aborted>>

\* Mutant: the deny reads as an allow.
DenyIgnoredUnnoted(r, p) ==
    /\ ~CanBlock(stage[r])
    /\ Returns(r, p, "deny", "Allowed")
    /\ StoreContext(r, p)
    /\ KeepVerdict
    /\ UNCHANGED <<config, disabled, group, given, payload, declined, errors,
                   joined, aborted>>

\* p asks to stop where it may not: the deny is noted and whatever p modified
\* is skipped.
DenyIgnored(r, p) ==
    /\ ~CanBlock(stage[r])
    /\ Returns(r, p, "deny", "DenyIgnored")
    /\ StoreContext(r, p)
    /\ KeepVerdict
    /\ UNCHANGED <<config, disabled, group, given, payload, declined, errors,
                   joined, aborted>>

\* A failure of a blocking plugin halts under on_error: fail, and a task that
\* was lost halts whatever on_error says.
Halts(p, o) == o \in AllFailures /\ (config[p].onError = "Fail" \/ o = "lost")

\* The failed plugins whose breaker trips.
Tripped(S) == {p \in S : config[p].onError = "Disable"}

\* The failure of p is the verdict.
FailsHalting(r, p) ==
    \E o \in Failures :
       /\ CanBlock(stage[r]) /\ Halts(p, o)
       /\ Returns(r, p, o, "Error")
       /\ Deny(r, p)
       /\ UNCHANGED <<config, disabled, group, given, payload, declined, globals,
                      errors, joined, aborted>>

\* Audit never reads a result of the wrong type.
Unread(r, o) == stage[r] = "Audit" /\ o = "wrongtype"

\* The failure of p is recorded and the phase goes on.  A panicked or lost task
\* brings no context back.
FailsSwallowed(r, p) ==
    \E o \in Failures :
       /\ ~(CanBlock(stage[r]) /\ Halts(p, o)) /\ ~Unread(r, o)
       /\ Returns(r, p, o, "Error")
       /\ IF o \in {"panic", "lost"} THEN UNCHANGED globals ELSE StoreContext(r, p)
       /\ errors' = [errors EXCEPT ![r] = @ \cup {p}]
       /\ disabled' = disabled \cup Tripped({p})
       /\ KeepVerdict
       /\ UNCHANGED <<config, group, given, payload, declined, joined, aborted>>

\* audit_success_action takes what it cannot read for an allow.
FailsUnread(r, p) ==
    \E o \in Failures :
       /\ Unread(r, o)
       /\ Returns(r, p, o, "Allowed")
       /\ KeepVerdict
       /\ UNCHANGED <<config, disabled, group, given, payload, declined, globals,
                      errors, joined, aborted>>

\* Every plugin of the phase has had its turn.
NextPhase(r) ==
    /\ stage[r] \in Serial
    /\ \A p \in Plugins : group[r][p] = stage[r] => act[r][p] # "none"
    /\ stage' = [stage EXCEPT ![r] =
                    CASE @ = "Sequential" -> "Transform"
                      [] @ = "Transform"  -> "Audit"
                      [] @ = "Audit"      -> "Concurrent"]
    /\ UNCHANGED <<config, disabled, group, out, act, given, payload, declined,
                   globals, errors, joined, aborted, verdict, blame>>

----------------------------------------------------------------------------
(* The concurrent phase: run_concurrent_phase and run_branches.            *)

Branches(r) == {p \in Plugins : group[r][p] = "Concurrent"}

\* Every branch is spawned before any is awaited.
SpawnBranches(r) ==
    /\ stage[r] = "Concurrent"
    /\ stage' = [stage EXCEPT ![r] = IF Branches(r) = {} THEN "Settle" ELSE "Joining"]
    /\ out' = [out EXCEPT ![r] = [p \in Plugins |->
                  IF p \in Branches(r) THEN "running" ELSE @[p]]]
    /\ UNCHANGED <<config, disabled, group, act, given, payload, declined,
                   globals, errors, joined, aborted, verdict, blame>>

\* The task of a branch ends by itself.  An abort takes hold at its next await,
\* so this also happens after abort_all.
BranchEnds(r, p) ==
    /\ stage[r] = "Joining"
    /\ out[r][p] = "running"
    /\ \E o \in {"continue", "deny"} \cup (Failures \ {"lost"}) :
          out' = [out EXCEPT ![r][p] = o]
    /\ UNCHANGED <<config, disabled, stage, group, act, given, payload, declined,
                   globals, errors, joined, aborted, verdict, blame>>

\* The task of a branch is cancelled: by abort_all, or by the runtime.
BranchCancelled(r, p) ==
    /\ stage[r] = "Joining"
    /\ out[r][p] = "running"
    /\ aborted[r] \/ MayLose
    /\ out' = [out EXCEPT ![r][p] = "cancelled"]
    /\ UNCHANGED <<config, disabled, stage, group, act, given, payload, declined,
                   globals, errors, joined, aborted, verdict, blame>>

\* is_deny: an explicit deny, and nothing else, stops the other branches.
IsDeny(o) == o = "deny"

\* Mutant: a cancelled branch is never taken off the set.
JoinBranchSkipsCancelled(r, p) ==
    /\ stage[r] = "Joining"
    /\ p \in Branches(r) \ joined[r]
    /\ out[r][p] \notin {"running", "cancelled"}
    /\ joined' = [joined EXCEPT ![r] = @ \cup {p}]
    /\ aborted' = [aborted EXCEPT ![r] = @ \/ (IsDeny(out[r][p]) /\ ShortCircuit)]
    /\ UNCHANGED <<config, disabled, stage, group, out, act, given, payload,
                   declined, globals, errors, verdict, blame>>

\* join_next_with_id yields a finished branch.
JoinBranch(r, p) ==
    /\ stage[r] = "Joining"
    /\ p \in Branches(r) \ joined[r]
    /\ out[r][p] # "running"
    /\ joined' = [joined EXCEPT ![r] = @ \cup {p}]
    /\ aborted' = [aborted EXCEPT ![r] = @ \/ (IsDeny(out[r][p]) /\ ShortCircuit)]
    /\ UNCHANGED <<config, disabled, stage, group, out, act, given, payload,
                   declined, globals, errors, verdict, blame>>

Failed(r) == {p \in Branches(r) : out[r][p] \in AllFailures}

\* Mutant: only an explicit deny halts.
HaltingDenyOnly(r) == {p \in Branches(r) : out[r][p] = "deny"}

\* The branches whose outcome is a violation.
Halting(r) ==
    {p \in Branches(r) : \/ out[r][p] = "deny"
                         \/ p \in Failed(r) /\ config[p].onError = "Fail"}

\* Mutant: a later violation overwrites an earlier one.
FirstOfLast(S) == CHOOSE p \in S : \A q \in S : q <= p

FirstOf(S) == CHOOSE p \in S : \A q \in S : p <= q

\* The step recorded for a branch.
BranchAction(o) ==
    CASE o = "continue"  -> "Allowed"
      [] o = "deny"      -> "Denied"
      [] o = "cancelled" -> "Aborted"
      [] OTHER           -> "Error"

\* The JoinSet is empty: the outcomes are read in input order, and the failures
\* that do not halt go to errors.
ReadOutcomes(r) ==
    /\ stage[r] = "Joining"
    /\ joined[r] = Branches(r)
    /\ act' = [act EXCEPT ![r] = [p \in Plugins |->
                  IF p \in Branches(r) THEN BranchAction(out[r][p]) ELSE @[p]]]
    /\ errors' = [errors EXCEPT ![r] = @ \cup (Failed(r) \ Halting(r))]
    /\ disabled' = disabled \cup Tripped(Failed(r))
    /\ UNCHANGED <<config, group, out, given, payload, declined, globals,
                   joined, aborted>>

\* The first outcome that halts is the violation.
CollectDenies(r) ==
    /\ ReadOutcomes(r)
    /\ Halting(r) # {}
    /\ Deny(r, FirstOf(Halting(r)))

CollectPasses(r) ==
    /\ ReadOutcomes(r)
    /\ Halting(r) = {}
    /\ stage' = [stage EXCEPT ![r] = "Settle"]
    /\ UNCHANGED <<verdict, blame>>

----------------------------------------------------------------------------
(* The end of a request.                                                   *)

\* A credential was declined and nobody is identified.
Unrecognised(r) == declined[r] /\ ~given[r][payload[r]].known

\* No resolver recognised the credential: the request is refused.
Refuse(r) ==
    /\ stage[r] = "Settle"
    /\ Unrecognised(r)
    /\ Deny(r, 0)
    /\ UNCHANGED <<config, disabled, group, out, act, given, payload, declined,
                   globals, errors, joined, aborted>>

\* The fire-and-forget plugins are spawned and the verdict is Allow.
Allow(r) ==
    /\ stage[r] = "Settle"
    /\ ~Unrecognised(r)
    /\ stage' = [stage EXCEPT ![r] = "Ended"]
    /\ verdict' = [verdict EXCEPT ![r] = "Allow"]
    /\ out' = [out EXCEPT ![r] = [p \in Plugins |->
                  IF group[r][p] = "FireAndForget" THEN "running" ELSE @[p]]]
    /\ UNCHANGED <<config, disabled, group, act, given, payload, declined,
                   globals, errors, joined, aborted, blame>>

\* The caller drops the request: its tasks are aborted with it.
Drop(r) ==
    /\ stage[r] \notin {"Idle", "Ended"}
    /\ stage' = [stage EXCEPT ![r] = "Ended"]
    /\ verdict' = [verdict EXCEPT ![r] = "dropped"]
    /\ UNCHANGED <<config, disabled, group, out, act, given, payload, declined,
                   globals, errors, joined, aborted, blame>>

Step(r) ==
    \/ NextPhase(r)
    \/ SpawnBranches(r)
    \/ CollectDenies(r)
    \/ CollectPasses(r)
    \/ Refuse(r)
    \/ Allow(r)
    \/ \E p \in Plugins :
          \/ Dispatch(r, p)
          \/ Continues(r, p)
          \/ Extends(r, p)
          \/ Modifies(r, p)
          \/ Denies(r, p)
          \/ DenyIgnored(r, p)
          \/ FailsHalting(r, p)
          \/ FailsSwallowed(r, p)
          \/ FailsUnread(r, p)
          \/ BranchEnds(r, p)
          \/ BranchCancelled(r, p)
          \/ JoinBranch(r, p)

Next == \E r \in Requests : Start(r) \/ Drop(r) \/ Step(r)

Spec == Init /\ [][Next]_vars

----------------------------------------------------------------------------
(* What the pipeline promises.                                             *)

\* p was invoked and either continued or failed under ignore or disable.
Passed(r, p) ==
    \/ out[r][p] = "continue"
    \/ out[r][p] \in AllFailures /\ ~Halts(p, out[r][p])

\* p's result is a reason to refuse the request.
Objects(r, p) ==
    /\ CanBlock(group[r][p])
    /\ out[r][p] = "deny" \/ Halts(p, out[r][p])

\* q's result is read before p's: phase by phase, by priority within one.
Phase(m) == CASE m = "Sequential"    -> 1
              [] m = "Transform"     -> 2
              [] m = "Audit"         -> 3
              [] m = "Concurrent"    -> 4
              [] m = "FireAndForget" -> 5
              [] m = "Disabled"      -> 6
Before(r, q, p) ==
    \/ Phase(group[r][q]) < Phase(group[r][p])
    \/ group[r][q] = group[r][p] /\ q < p

Decided(r) == verdict[r] \in {"Allow", "Deny"}

\* A request is allowed only if every sequential and concurrent plugin it was
\* grouped with ran to an end and continued, or failed under an on_error that
\* swallows it: no deny, no fail-mode failure, no lost or aborted branch is
\* overtaken by the branches that ended before it (execute_audited).
FailClosed ==
    \A r \in Requests : verdict[r] = "Allow" =>
       \A p \in Plugins : CanBlock(group[r][p]) => Passed(r, p)

\* The violation names the first objector in input order, whichever order the
\* branches ended in (run_concurrent_phase: "First halting outcome wins"), and
\* it is never a plugin of a phase that cannot block.
FirstObjectorBlamed ==
    \A r \in Requests : verdict[r] = "Deny" /\ blame[r] # 0 =>
       /\ Objects(r, blame[r])
       /\ \A q \in Plugins : Before(r, q, blame[r]) => ~Objects(r, q)

\* The decision log tells what happened: a step for exactly the plugins whose
\* task ended, an objection for every deny, an allow only for one that returned,
\* and an abort only beside a deny (DecisionLog, audit_success_action).
LogTruthful ==
    \A r \in Requests : Decided(r) =>
       \A p \in Plugins :
          /\ act[r][p] = "none" <=> out[r][p] \in {"none", "running"}
          /\ act[r][p] \in {"Denied", "DenyIgnored"} <=> out[r][p] = "deny"
          /\ act[r][p] \in {"Allowed", "ModifiedPayload", "ModifiedExtensions"} =>
                \/ out[r][p] = "continue"
                \/ group[r][p] = "Audit" /\ out[r][p] = "wrongtype"
          /\ act[r][p] = "Aborted" => \E q \in Plugins : act[r][q] = "Denied"

\* A swallowed failure is in PipelineResult.errors, and one under on_error:
\* disable has tripped the plugin's breaker by the time of the verdict.
SwallowedVisible ==
    \A r \in Requests : Decided(r) =>
       \A p \in Plugins :
          LET swallowed == act[r][p] = "Error" /\ ~Objects(r, p)
          IN /\ p \in errors[r] <=> swallowed
             /\ swallowed /\ config[p].onError = "Disable" => p \in disabled

\* What leaves the pipeline comes from results that were honoured: the payload
\* is that of the last plugin recorded as modifying it, and the context table
\* holds the writes of the modifying phases' plugins whose task came back and
\* did not halt (run_serial_phase).
OnlyHonouredKept ==
    \A r \in Requests :
       LET modifiers == {p \in Plugins : act[r][p] = "ModifiedPayload"}
       IN /\ payload[r] \in modifiers \cup {0}
          /\ payload[r] = 0 => modifiers = {}
          /\ \A p \in modifiers : ~Before(r, payload[r], p)
          /\ globals[r] = {p \in Plugins :
                              /\ CanModify(group[r][p])
                              /\ act[r][p] # "none"
                              /\ out[r][p] \notin {"panic", "lost"}
                              /\ ~Objects(r, p)}

\* What the pipeline tells its caller beside the verdict is true: the error
\* records name those who failed, nothing that was overruled goes unseen, and
\* only what was honoured is kept.
RecordTruthful == LogTruthful /\ SwallowedVisible /\ OnlyHonouredKept

\* A request in which some resolver declined a credential is never allowed
\* without an identity, even when a later resolver replaced the payload with
\* one that does not mention the decline (credential_declined).
UnrecognisedRefused ==
    \A r \in Requests :
       verdict[r] = "Allow" /\ ~given[r][payload[r]].known =>
          \A p \in {0} \cup {q \in Plugins : act[r][q] = "ModifiedPayload"} :
             ~given[r][p].declined

\* The executor's own steps are not starved: every call is bounded by
\* timeout_seconds, and an aborted task ends at its next await.
LiveSpec == Spec /\ \A r \in Requests : WF_vars(Step(r))

\* Every request comes to an end, however its branches end or are aborted.
Concludes ==
    \A r \in Requests : stage[r] \notin {"Idle", "Ended"} ~> stage[r] = "Ended"

----------------------------------------------------------------------------
(* The inductive invariant behind FailClosed, FirstObjectorBlamed and      *)
(* UnrecognisedRefused, when the runtime drops no branch.                  *)

\* No verdict before the end, and no branch before its phase.
StageInv(r) ==
    /\ stage[r] # "Ended" => verdict[r] = "none"
    /\ stage[r] \in Serial \cup {"Concurrent"} => joined[r] = {} /\ ~aborted[r]

\* A serial plugin that runs has come to its turn, and has no step yet.
TurnInv(r) ==
    stage[r] \in Serial =>
       \A p \in Plugins :
          /\ out[r][p] = "running" => Turn(r, p)
          /\ out[r][p] \in {"none", "running"} => act[r][p] = "none"

\* A request still to be allowed has only passing sequential steps, and past
\* the phase it has all of them.
SerialInv(r) ==
    verdict[r] \in {"none", "Allow"} =>
       \A p \in Plugins : group[r][p] = "Sequential" =>
          /\ act[r][p] # "none" => Passed(r, p)
          /\ stage[r] # "Sequential" => act[r][p] # "none"

\* A joined branch has ended, and one is aborted only when a deny was joined.
BranchInv(r) ==
    stage[r] = "Joining" =>
       /\ joined[r] \subseteq Branches(r)
       /\ \A p \in Branches(r) : out[r][p] \notin {"none", "lost"}
       /\ \A p \in joined[r] : out[r][p] # "running"
       /\ aborted[r] => \E p \in joined[r] : out[r][p] = "deny"
       /\ \A p \in Branches(r) : out[r][p] = "cancelled" => aborted[r]

\* Past the concurrent phase every branch has passed.
CollectedInv(r) ==
    stage[r] = "Settle" \/ verdict[r] = "Allow" =>
       \A p \in Branches(r) : Passed(r, p)

\* credential_declined remembers every accepted payload, and an allowed
\* request that remembers one has an identity.
DeclineInv(r) ==
    /\ \A p \in 0..N : given[r][p].declined /\ (p # 0 => act[r][p] = "ModifiedPayload")
          => declined[r]
    /\ verdict[r] = "Allow" /\ declined[r] => given[r][payload[r]].known

\* What FirstObjectorBlamed says of one request.
BlameInv(r) ==
    verdict[r] = "Deny" /\ blame[r] # 0 =>
       /\ Objects(r, blame[r])
       /\ \A q \in Plugins : Before(r, q, blame[r]) => ~Objects(r, q)

RequestInv(r) ==
    /\ StageInv(r)
    /\ TurnInv(r)
    /\ SerialInv(r)
    /\ BranchInv(r)
    /\ CollectedInv(r)
    /\ DeclineInv(r)
    /\ BlameInv(r)

IInv ==
    /\ TypeOK
    /\ \A r \in Requests : RequestInv(r)
============================================================================
