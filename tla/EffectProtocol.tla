---------------------------- MODULE EffectProtocol ----------------------------
(***************************************************************************)
(* Irreversible effects under write-ahead recording (ppe-core, effect.rs): *)
(* plugins that bracket an act between an intent and an outcome record     *)
(* (perform_effect, emit_effect), recovery sweeps that reconcile the       *)
(* intents nobody answered (recover_effects_with, recover_and_reconcile),  *)
(* and the in-flight set that keeps the two apart (InFlightEffects).       *)
(*                                                                         *)
(* A key is one attempt of one act.  The log is the set of records a       *)
(* recovery would read (module DurableLog is its contract, FileEffectLog   *)
(* the file that implements it).  An append returns Ok or is refused; a    *)
(* refused one can leave its record behind, when the roll-back or the      *)
(* directory fsync failed.  An append dropped half-way may still land,     *)
(* because the blocking task that owns the write lock outlives its caller; *)
(* every reader waits for that lock, so it lands, or not, at once.         *)
(***************************************************************************)
EXTENDS EffectRecords, Sequences

CONSTANTS Sweepers,     \* concurrent callers of recover_effects_with
          MaxCrashes,   \* bound: process crashes
          NoKey         \* the key of no record

ASSUME MaxCrashesAssumption == MaxCrashes \in Nat
ASSUME NoKeyAssumption == NoKey \notin Keys

VARIABLES
    wal,       \* the log: records a recovery would read back
    landed,    \* external: the keys whose act took place at the participant
    pc,        \* pc[k]: where the invocation performing k stands
    outcome,   \* outcome[k]: the state complete_effect records
    open,      \* InFlightState.open
    touched,   \* InFlightState.touched_during_sweep
    swpc,      \* swpc[s]: where sweep s stands; its guard lives unless "idle"
    todo,      \* todo[s]: the unresolved keys the sweep has yet to look at
    cur,       \* cur[s]: the record it is reconciling, with the answer
    settled,   \* settled[s]: RecoveryOutcome.resolved, not yet emitted
    told,      \* told[k]: the states the audit sinks were handed, in order
    answers,   \* history: answers[k], the terminal records ever durable
    up,        \* the process is running
    crashes    \* crashes so far

plugin == <<landed, pc, outcome>>
flight == <<open, touched>>
sweep  == <<swpc, todo, cur, settled>>
life   == <<up, crashes>>
vars   == <<wal, plugin, flight, sweep, told, answers, life>>

----------------------------------------------------------------------------
(* The stages of an invocation and of a sweep.                             *)

PluginPCs == {"idle", "intent", "begun", "acting", "outcome", "recorded",
              "closed", "done", "refused", "dropped"}

\* The invocation holds its key open.
Holding == {"intent", "begun", "acting", "outcome", "recorded"}

SweepPCs == {"idle", "recover", "next", "asking", "settling", "telling"}

\* No record is being reconciled.
NoRec == [key |-> NoKey, state |-> "Unknown"]

Answers == [state : Terminal, by : {"plugin", "sweep"}]

TypeOK ==
    /\ wal \subseteq Records
    /\ landed \subseteq Keys
    /\ pc \in [Keys -> PluginPCs]
    /\ outcome \in [Keys -> {"Confirmed", "Unknown"}]
    /\ open \subseteq Keys
    /\ touched \subseteq Keys
    /\ swpc \in [Sweepers -> SweepPCs]
    /\ todo \in [Sweepers -> SUBSET Keys]
    /\ cur \in [Sweepers -> Records \cup {NoRec}]
    /\ settled \in [Sweepers -> SUBSET Records]
    /\ told \in [Keys -> Seq(States)]
    /\ answers \in [Keys -> SUBSET Answers]
    /\ up \in BOOLEAN
    /\ crashes \in 0..MaxCrashes

Init ==
    /\ wal = {}
    /\ landed = {}
    /\ pc = [k \in Keys |-> "idle"]
    /\ outcome = [k \in Keys |-> "Unknown"]
    /\ open = {}
    /\ touched = {}
    /\ swpc = [s \in Sweepers |-> "idle"]
    /\ todo = [s \in Sweepers |-> {}]
    /\ cur = [s \in Sweepers |-> NoRec]
    /\ settled = [s \in Sweepers |-> {}]
    /\ told = [k \in Keys |-> <<>>]
    /\ answers = [k \in Keys |-> {}]
    /\ up = TRUE
    /\ crashes = 0

----------------------------------------------------------------------------
(* The log, seen through append and recover.                               *)

\* The latest record per unresolved key.  Only an Unknown outcome can follow
\* the intent of a key that stays unresolved, so Unknown is the latest.
Compact(log) ==
    {r \in log : /\ r.key \in Unresolved(log)
                 /\ r.state = "Unknown" \/ Rec(r.key, "Unknown") \notin log}

\* The record is in the file.  Every so many appends the same call goes on
\* to compact the log, and a failure to is only logged.
Lands(r) == wal' \in {wal \cup {r}, Compact(wal \cup {r})}

\* What the history remembers of a record that reached the log.
Answered(ans, r, who) ==
    IF r.state \in Terminal
    THEN [ans EXCEPT ![r.key] = @ \cup {[state |-> r.state, by |-> who]}]
    ELSE ans

\* The append of r is refused or dropped: r is in the log or it is not.
MayLand(r, who) ==
    \/ UNCHANGED <<wal, answers>>
    \/ /\ wal' = wal \cup {r}
       /\ answers' = Answered(answers, r, who)

----------------------------------------------------------------------------
(* InFlightEffects.  `sweeps` is the number of live guards.                *)

Sweeping == \E s \in Sweepers : swpc[s] # "idle"

\* Mutant: a key that opens or closes during a sweep is not remembered.
TouchForgets(k) == UNCHANGED touched

Touch(k) == touched' = IF Sweeping THEN touched \cup {k} ELSE touched

OpenKey(k) == open' = open \cup {k} /\ Touch(k)

CloseKey(k) == open' = open \ {k} /\ Touch(k)

IsBusy(k) == k \in open \/ k \in touched

\* Drop for SweepGuard: the last sweep to end forgets the touched keys.
DropGuard(s) ==
    /\ swpc' = [swpc EXCEPT ![s] = "idle"]
    /\ touched' = IF \A t \in Sweepers \ {s} : swpc[t] = "idle"
                  THEN {} ELSE touched
    /\ UNCHANGED open

----------------------------------------------------------------------------
(* An invocation performing an effect: perform_effect(k).                  *)

Goto(k, from, to) == /\ pc[k] = from
                     /\ pc' = [pc EXCEPT ![k] = to]

Tell(k, st) == told' = [told EXCEPT ![k] = Append(@, st)]

\* begin_effect opens the key before the intent can be read by a sweep.
BeginEffect(k) ==
    /\ up
    /\ Goto(k, "idle", "intent")
    /\ OpenKey(k)
    /\ UNCHANGED <<wal, landed, outcome, sweep, told, answers, life>>

\* The intent is on stable storage.
IntentDurable(k) ==
    /\ Goto(k, "intent", "begun")
    /\ Lands(Rec(k, "Prepared"))
    /\ UNCHANGED <<landed, outcome, flight, sweep, told, answers, life>>

\* Mutant: fail-open, the act runs although its intent was refused.
IntentRefusedFailsOpen(k) ==
    /\ Goto(k, "intent", "begun")
    /\ MayLand(Rec(k, "Prepared"), "plugin")
    /\ UNCHANGED <<landed, outcome, flight, sweep, told, life>>

\* Fail-closed: a refused intent closes the key and the act never runs.
IntentRefused(k) ==
    /\ Goto(k, "intent", "refused")
    /\ CloseKey(k)
    /\ MayLand(Rec(k, "Prepared"), "plugin")
    /\ UNCHANGED <<landed, outcome, sweep, told, life>>

\* Stamp and dispatch the intent, then start the act.
TellIntent(k) ==
    /\ Goto(k, "begun", "acting")
    /\ Tell(k, "Prepared")
    /\ UNCHANGED <<wal, landed, outcome, flight, sweep, answers, life>>

\* External: the act takes place at the participant, while the invocation waits
\* for it or never.  (A call on its way when the invocation errored, was dropped or
\* crashed has landed by then: what a participant does after a caller has gone, the
\* engine cannot wait for.)
ActLands(k) ==
    /\ pc[k] = "acting"
    /\ k \notin landed
    /\ landed' = landed \cup {k}
    /\ UNCHANGED <<wal, pc, outcome, flight, sweep, told, answers, life>>

\* act() resolves.  Ok means it landed; an error leaves that open.
ActReturns(k) ==
    /\ Goto(k, "acting", "outcome")
    /\ \/ k \in landed /\ outcome' = [outcome EXCEPT ![k] = "Confirmed"]
       \/ outcome' = [outcome EXCEPT ![k] = "Unknown"]
    /\ UNCHANGED <<wal, landed, flight, sweep, told, answers, life>>

\* complete_effect: the outcome is on stable storage ...
OutcomeDurable(k) ==
    /\ Goto(k, "outcome", "recorded")
    /\ Lands(Rec(k, outcome[k]))
    /\ answers' = Answered(answers, Rec(k, outcome[k]), "plugin")
    /\ UNCHANGED <<landed, outcome, flight, sweep, told, life>>

\* Mutant: the sinks hear of an outcome the log refused.
OutcomeRefusedTold(k) ==
    /\ Goto(k, "outcome", "closed")
    /\ CloseKey(k)
    /\ MayLand(Rec(k, outcome[k]), "plugin")
    /\ UNCHANGED <<landed, outcome, sweep, told, life>>

\* ... or it is not, which is logged; either way the key closes afterwards.
OutcomeRefused(k) ==
    /\ Goto(k, "outcome", "done")
    /\ CloseKey(k)
    /\ MayLand(Rec(k, outcome[k]), "plugin")
    /\ UNCHANGED <<landed, outcome, sweep, told, life>>

OutcomeCloses(k) ==
    /\ Goto(k, "recorded", "closed")
    /\ CloseKey(k)
    /\ UNCHANGED <<wal, landed, outcome, sweep, told, answers, life>>

TellOutcome(k) ==
    /\ Goto(k, "closed", "done")
    /\ Tell(k, outcome[k])
    /\ UNCHANGED <<wal, landed, outcome, flight, sweep, answers, life>>

\* Mutant: an invocation that ends half-way leaves its key open.
DropInvocationLeaks(k) ==
    /\ pc[k] \in Holding
    /\ pc' = [pc EXCEPT ![k] = "dropped"]
    /\ CASE pc[k] = "intent"  -> MayLand(Rec(k, "Prepared"), "plugin")
         [] pc[k] = "outcome" -> MayLand(Rec(k, outcome[k]), "plugin")
         [] OTHER             -> UNCHANGED <<wal, answers>>
    /\ UNCHANGED <<landed, outcome, flight, sweep, told, life>>

\* The invocation times out, panics or is cancelled at an await: its
\* extensions drop and Drop for OpenedKeys closes the key.
DropInvocation(k) ==
    /\ pc[k] \in Holding
    /\ pc' = [pc EXCEPT ![k] = "dropped"]
    /\ CloseKey(k)
    /\ CASE pc[k] = "intent"  -> MayLand(Rec(k, "Prepared"), "plugin")
         [] pc[k] = "outcome" -> MayLand(Rec(k, outcome[k]), "plugin")
         [] OTHER             -> UNCHANGED <<wal, answers>>
    /\ UNCHANGED <<landed, outcome, sweep, told, life>>

----------------------------------------------------------------------------
(* A sweep: recover_effects_with, recover_and_reconcile.                   *)

\* Take the guard, before the log is read.
SweepStart(s) ==
    /\ up
    /\ swpc[s] = "idle"
    /\ swpc' = [swpc EXCEPT ![s] = "recover"]
    /\ UNCHANGED <<wal, plugin, flight, todo, cur, settled, told, answers, life>>

\* The first recover(): read the unresolved keys and rewrite the log.
SweepRecover(s) ==
    /\ swpc[s] = "recover"
    /\ swpc' = [swpc EXCEPT ![s] = "next"]
    /\ todo' = [todo EXCEPT ![s] = Unresolved(wal)]
    /\ wal' = Compact(wal)
    /\ UNCHANGED <<plugin, flight, cur, settled, told, answers, life>>

\* SkipInFlight answers Unknown for a busy key without asking.
SweepSkip(s, k) ==
    /\ swpc[s] = "next"
    /\ k \in todo[s]
    /\ IsBusy(k)
    /\ todo' = [todo EXCEPT ![s] = @ \ {k}]
    /\ UNCHANGED <<wal, plugin, flight, swpc, cur, settled, told, answers, life>>

\* Mutant: the reconciler is asked about keys that are still open.
SweepAskBusy(s, k) ==
    /\ swpc[s] = "next"
    /\ k \in todo[s]
    /\ swpc' = [swpc EXCEPT ![s] = "asking"]
    /\ todo' = [todo EXCEPT ![s] = @ \ {k}]
    /\ cur' = [cur EXCEPT ![s] = Rec(k, "Unknown")]
    /\ UNCHANGED <<wal, plugin, flight, settled, told, answers, life>>

SweepAsk(s, k) ==
    /\ swpc[s] = "next"
    /\ k \in todo[s]
    /\ ~IsBusy(k)
    /\ swpc' = [swpc EXCEPT ![s] = "asking"]
    /\ todo' = [todo EXCEPT ![s] = @ \ {k}]
    /\ cur' = [cur EXCEPT ![s] = Rec(k, "Unknown")]
    /\ UNCHANGED <<wal, plugin, flight, settled, told, answers, life>>

\* External: the host's reconciler answers from the participant's ledger.
\* It may not know; when it claims to know it is right.
SweepAnswer(s) ==
    /\ swpc[s] = "asking"
    /\ LET k == cur[s].key IN
       \/ /\ cur' = [cur EXCEPT ![s] =
                       Rec(k, IF k \in landed THEN "Confirmed" ELSE "Rejected")]
          /\ swpc' = [swpc EXCEPT ![s] = "settling"]
       \/ /\ cur' = [cur EXCEPT ![s] = NoRec]
          /\ swpc' = [swpc EXCEPT ![s] = "next"]
    /\ UNCHANGED <<wal, plugin, flight, todo, settled, told, answers, life>>

\* The settled record is durable, and returned for the caller to emit.
SweepSettle(s) ==
    /\ swpc[s] = "settling"
    /\ swpc' = [swpc EXCEPT ![s] = "next"]
    /\ cur' = [cur EXCEPT ![s] = NoRec]
    /\ Lands(cur[s])
    /\ answers' = Answered(answers, cur[s], "sweep")
    /\ settled' = [settled EXCEPT ![s] = @ \cup {cur[s]}]
    /\ UNCHANGED <<plugin, flight, todo, told, life>>

\* The second recover(), which drops the pairs just completed.
SweepCompact(s) ==
    /\ swpc[s] = "next"
    /\ todo[s] = {}
    /\ settled[s] # {}
    /\ swpc' = [swpc EXCEPT ![s] = "telling"]
    /\ wal' = Compact(wal)
    /\ UNCHANGED <<plugin, flight, todo, cur, settled, told, answers, life>>

\* emit_reconciled, one record at a time.
SweepTell(s) ==
    /\ swpc[s] = "telling"
    /\ \E r \in settled[s] :
          /\ Tell(r.key, r.state)
          /\ settled' = [settled EXCEPT ![s] = @ \ {r}]
    /\ UNCHANGED <<wal, plugin, flight, swpc, todo, cur, answers, life>>

\* What every return does: the guard drops, the locals are gone.
EndSweep(s) ==
    /\ DropGuard(s)
    /\ todo' = [todo EXCEPT ![s] = {}]
    /\ cur' = [cur EXCEPT ![s] = NoRec]
    /\ settled' = [settled EXCEPT ![s] = {}]
    /\ UNCHANGED <<plugin, told, life>>

SweepReturns(s) ==
    /\ swpc[s] \in {"next", "telling"}
    /\ todo[s] = {}
    /\ settled[s] = {}
    /\ EndSweep(s)
    /\ UNCHANGED <<wal, answers>>

\* A `?`: the first recover, an append or the second recover is refused.
SweepFails(s) ==
    /\ \/ swpc[s] = "recover" /\ UNCHANGED <<wal, answers>>
       \/ swpc[s] = "settling" /\ MayLand(cur[s], "sweep")
       \/ /\ swpc[s] = "next" /\ todo[s] = {} /\ settled[s] # {}
          /\ UNCHANGED <<wal, answers>>
    /\ EndSweep(s)

\* The future returned by recover_effects_with is dropped at an await.
SweepDropped(s) ==
    /\ swpc[s] # "idle"
    /\ IF swpc[s] = "settling" THEN MayLand(cur[s], "sweep")
                               ELSE UNCHANGED <<wal, answers>>
    /\ EndSweep(s)

----------------------------------------------------------------------------
(* The process stops between any two steps, and comes back.                *)

\* Appends under way when the process stops: each may have reached the log.
Pending(k) == IF pc[k] = "intent"  THEN {Rec(k, "Prepared")}
              ELSE IF pc[k] = "outcome" THEN {Rec(k, outcome[k])} ELSE {}

Crash ==
    /\ up
    /\ crashes < MaxCrashes
    /\ up' = FALSE
    /\ crashes' = crashes + 1
    /\ \E lost \in SUBSET Keys, idle \in SUBSET Sweepers :
         LET mine   == UNION {Pending(k) : k \in Keys \ lost}
             swept  == {cur[s] : s \in {t \in Sweepers \ idle : swpc[t] = "settling"}}
             New(k) == {[state |-> r.state, by |-> "plugin"] :
                           r \in {x \in mine : x.key = k /\ x.state \in Terminal}}
                       \cup {[state |-> r.state, by |-> "sweep"] :
                           r \in {x \in swept : x.key = k}}
         IN /\ wal' = wal \cup mine \cup swept
            /\ answers' = [k \in Keys |-> answers[k] \cup New(k)]
    /\ pc' = [k \in Keys |-> IF pc[k] \in Holding \cup {"closed"}
                             THEN "dropped" ELSE pc[k]]
    /\ open' = {}
    /\ touched' = {}
    /\ swpc' = [s \in Sweepers |-> "idle"]
    /\ todo' = [s \in Sweepers |-> {}]
    /\ cur' = [s \in Sweepers |-> NoRec]
    /\ settled' = [s \in Sweepers |-> {}]
    /\ UNCHANGED <<landed, outcome, told>>

\* initialize() sweeps once, before any traffic, with the default reconciler,
\* which answers Unknown: a compaction, and a failure to is only logged.
Restart ==
    /\ ~up
    /\ up' = TRUE
    /\ wal' \in {wal, Compact(wal)}
    /\ UNCHANGED <<plugin, flight, sweep, told, answers, crashes>>

----------------------------------------------------------------------------
PluginStep(k) ==
    \/ BeginEffect(k) \/ IntentDurable(k) \/ IntentRefused(k) \/ TellIntent(k)
    \/ ActLands(k) \/ ActReturns(k)
    \/ OutcomeDurable(k) \/ OutcomeRefused(k) \/ OutcomeCloses(k)
    \/ TellOutcome(k) \/ DropInvocation(k)

SweepStep(s) ==
    \/ SweepStart(s) \/ SweepRecover(s)
    \/ \E k \in Keys : SweepSkip(s, k) \/ SweepAsk(s, k)
    \/ SweepAnswer(s) \/ SweepSettle(s) \/ SweepCompact(s) \/ SweepTell(s)
    \/ SweepReturns(s) \/ SweepFails(s) \/ SweepDropped(s)

Next ==
    \/ \E k \in Keys : PluginStep(k)
    \/ \E s \in Sweepers : SweepStep(s)
    \/ Crash
    \/ Restart

Spec == Init /\ [][Next]_vars

----------------------------------------------------------------------------
(* Properties.                                                             *)

Ended == {"done", "refused", "dropped", "closed"}

\* An act that took place is accounted for: the log still holds a record of
\* its key for recovery to find, or a terminal record answered for it.
\* (begin_effect is fail-closed; recover() drops resolved keys only.)
WriteAhead ==
    \A k \in landed : k \in KeysOf(wal) \/ answers[k] # {}

\* No terminal record is wrong: Confirmed only for an act that took place,
\* Rejected only for one that did not and will not.  (A sweep that asked
\* about a running act could reject it just before it lands.)  It is about when
\* the engine asks: an act lands before its invocation ends, or not at all.
AnswersTrue ==
    \A k \in Keys : \A a \in answers[k] : a.state = "Confirmed" <=> k \in landed

\* Plugin and sweeps never both answer for one act, and no two answers differ.
\* Two overlapping sweeps may give the same one, both from the log they read.
\* (InFlightEffects: a key is left alone while it is open, and, if it opened
\* or closed while a sweep ran, until the sweeps have ended.)
OneAnswer ==
    \A k \in Keys : \A a, b \in answers[k] : a = b

\* A sink never sees what the log rejected: every state it was told was
\* durable first.  (emit_effect appends, then stamps and dispatches.)
ToldAfterDurable ==
    \A k \in Keys : \A i \in DOMAIN told[k] :
        IF told[k][i] \in Terminal
        THEN \E a \in answers[k] : a.state = told[k][i]
        ELSE k \in KeysOf(wal) \/ answers[k] # {}

----------------------------------------------------------------------------
(* The inductive invariant behind WriteAhead, AnswersTrue and OneAnswer.   *)

\* The log, or a terminal record it once held, accounts for the key.
Accounted(k) == k \in KeysOf(wal) \/ answers[k] # {}

AnsweredBy(who, k) == \E a \in answers[k] : a.by = who

\* An invocation holds its key open exactly while it is between its intent
\* and its outcome, and what it has done so far is on record.
PluginInv(k) ==
    /\ k \in open <=> pc[k] \in Holding
    /\ k \in landed => pc[k] \notin {"idle", "intent", "begun", "refused"}
    /\ pc[k] \in {"begun", "acting", "outcome", "recorded", "closed", "done"}
          => Accounted(k)
    /\ k \in landed => Accounted(k)
    /\ pc[k] = "idle" => ~Accounted(k)
    /\ pc[k] \in {"intent", "begun", "acting", "outcome"} => answers[k] = {}
    /\ pc[k] = "outcome" /\ outcome[k] = "Confirmed" => k \in landed

\* A key with an answer is never unresolved in the log again, and a sweep
\* answers only for invocations that have ended.
AnswerInv(k) ==
    /\ k \in Resolved(wal) => answers[k] # {}
    /\ answers[k] # {} => k \notin Unresolved(wal)
    /\ AnsweredBy("sweep", k) => pc[k] \in Ended /\ ~AnsweredBy("plugin", k)

\* A key a sweep has read and not looked at is busy if its plugin answered
\* meanwhile; a key it asks about, or has an answer for, nobody acts on.
SweepInv(s) ==
    /\ swpc[s] = "idle" => todo[s] = {}
    /\ \A k \in todo[s] :
          /\ pc[k] # "idle"
          /\ AnsweredBy("plugin", k) => IsBusy(k)
    /\ swpc[s] \in {"asking", "settling"} =>
          /\ cur[s] \in Records
          /\ pc[cur[s].key] \in Ended
          /\ ~AnsweredBy("plugin", cur[s].key)
    /\ swpc[s] = "settling" =>
          cur[s].state = IF cur[s].key \in landed THEN "Confirmed" ELSE "Rejected"

IInv ==
    /\ TypeOK
    /\ \A k \in Keys : PluginInv(k) /\ AnswerInv(k)
    /\ \A s \in Sweepers : SweepInv(s)
    /\ AnswersTrue

----------------------------------------------------------------------------
(* Fairness.  An invocation runs under a timeout, so it moves or drops; a  *)
(* sweep moves or ends; the host sweeps again and again.  Strong fairness  *)
(* is what "a reconciler that can answer" and "a disk that mostly works"   *)
(* mean: an answer, an append or a compaction tried for ever works once.   *)

Answering(s) == SweepAnswer(s) /\ swpc'[s] = "settling"

Fairness ==
    /\ WF_vars(Restart)
    /\ \A k \in Keys : WF_vars(PluginStep(k) /\ pc[k] # "idle")
    /\ \A s \in Sweepers :
          /\ WF_vars(SweepStep(s))
          /\ SF_vars(SweepRecover(s))
          /\ \A k \in Keys : SF_vars(SweepAsk(s, k))
          /\ SF_vars(Answering(s))
          /\ SF_vars(SweepSettle(s))

LiveSpec == Spec /\ Fairness

\* Once the invocation that wrote an intent has ended, the intent does not
\* stay unanswered.  (Drop for OpenedKeys closes the key, so the next sweep
\* can reconcile it.)
OrphanAnswered ==
    \A k \in Keys :
        (k \in Unresolved(wal) /\ pc[k] \in Ended) ~> (answers[k] # {})
=============================================================================
