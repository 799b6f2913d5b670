-------------------------------- MODULE Quota --------------------------------
(***************************************************************************)
(* The token quota plugin (quota/handlers.rs, client.rs): a call to a      *)
(* model is admitted by QuotaCheck, which first flushes what its principal *)
(* still owes, and charged by QuotaReport once the model has answered.     *)
(* The counter is Limitador's: a report increments it and may be lost, or  *)
(* land with its answer lost.  Calls of a principal overlap; each await is *)
(* a step, at which the host's timeout may drop the call.                  *)
(***************************************************************************)
EXTENDS Naturals, FiniteSets

CONSTANTS Calls,       \* bound: model calls
          Principals,  \* values of the identity claim that keys the budget
          Charges,     \* bound: what a response costs
          Limit,       \* the budget configured in Limitador
          ServeOnError \* on_error is allow

ASSUME QuotaAssumption ==
    /\ Charges \subseteq Nat \ {0}
    /\ Limit \in Nat /\ ServeOnError \in BOOLEAN

VARIABLES
    spent,     \* spent[p]: Limitador's counter
    delta,     \* PendingDebit.delta; a principal without an entry has 0
    flushing,  \* the principals with a flush in flight
    reports,   \* reports[p]: PendingDebit.active_reports
    call,      \* call[c]: principal, step, the amount of its report, and
               \* whether that report has landed
    owed,      \* owed[p]: what p's responses cost
    ambiguous  \* ambiguous[p]: amounts that landed without p's replica knowing

quotaVars == <<spent, delta, flushing, reports, call, owed, ambiguous>>

CallSteps == {"idle", "gate", "flush", "check", "serving", "report", "denied", "done"}
NoPrincipal == "none"
IdleCall == [by |-> NoPrincipal, at |-> "idle", amount |-> 0, landed |-> FALSE]

QuotaTypeOK ==
    /\ spent \in [Principals -> Nat] /\ delta \in [Principals -> Nat]
    /\ flushing \subseteq Principals
    /\ reports \in [Principals -> Nat]
    /\ call \in [Calls -> [by : Principals \cup {NoPrincipal}, at : CallSteps,
                           amount : Nat, landed : BOOLEAN]]
    /\ owed \in [Principals -> Nat] /\ ambiguous \in [Principals -> Nat]

QuotaInit ==
    /\ spent = [p \in Principals |-> 0] /\ delta = [p \in Principals |-> 0]
    /\ flushing = {} /\ reports = [p \in Principals |-> 0]
    /\ call = [c \in Calls |-> IdleCall]
    /\ owed = [p \in Principals |-> 0] /\ ambiguous = [p \in Principals |-> 0]

CallAt(c, step) == call[c].at = step
Payer(c) == call[c].by
\* What becomes of c: its next step, and no report any more.
CallTo(c, step) == call' = [call EXCEPT ![c] = [by |-> @.by, at |-> step,
                                            amount |-> 0, landed |-> FALSE]]
Sends(c, step, n) == call' = [call EXCEPT ![c] = [by |-> @.by, at |-> step,
                                                  amount |-> n, landed |-> FALSE]]

-----------------------------------------------------------------------------
(* Limitador: external.                                                    *)

\* A report in flight arrives and increments the counter.
ReportLands(c) ==
    /\ (CallAt(c, "flush") \/ CallAt(c, "report")) /\ ~call[c].landed
    /\ call' = [call EXCEPT ![c].landed = TRUE]
    /\ spent' = [spent EXCEPT ![Payer(c)] = @ + call[c].amount]
    /\ UNCHANGED <<delta, flushing, reports, owed, ambiguous>>

\* The caller learns that its report landed, or does not learn it.
Unconfirmed(c) ==
    ambiguous' = [ambiguous EXCEPT ![Payer(c)] =
                      @ + (IF call[c].landed THEN call[c].amount ELSE 0)]

-----------------------------------------------------------------------------
(* QuotaCheck.                                                             *)

\* A call arrives.  Without an identity to meter it is denied, unless
\* allow_unauthenticated, which is not modelled, serves it unmetered.
CallArrives(c) ==
    /\ CallAt(c, "idle")
    /\ \/ \E p \in Principals : call' = [call EXCEPT ![c].by = p, ![c].at = "gate"]
       \/ CallTo(c, "denied")
    /\ UNCHANGED <<spent, delta, flushing, reports, owed, ambiguous>>

\* Mutant: only another flush closes the gate, a report in flight does not.
UnsettledNoReports(p) == p \in flushing

\* Somebody else is settling with Limitador for p.
Unsettled(p) == p \in flushing \/ reports[p] # 0

\* flush_pending up to its await: deny, pass, or report all that is pending.
FlushGate(c) ==
    /\ CallAt(c, "gate")
    /\ \/ /\ Unsettled(Payer(c)) /\ CallTo(c, "denied")
          /\ UNCHANGED flushing
       \/ /\ ~Unsettled(Payer(c)) /\ delta[Payer(c)] = 0 /\ CallTo(c, "check")
          /\ UNCHANGED flushing
       \/ /\ ~Unsettled(Payer(c)) /\ delta[Payer(c)] # 0
          /\ Sends(c, "flush", delta[Payer(c)])
          /\ flushing' = flushing \cup {Payer(c)}
    /\ UNCHANGED <<spent, delta, reports, owed, ambiguous>>

\* What is left pending once c's flush is confirmed: debits that failed
\* while it was in flight.
Settled(c) == delta[Payer(c)] - call[c].amount

\* The rest of flush_pending: the gate opens when all was settled.
FlushSettles(c) ==
    /\ CallAt(c, "flush")
    /\ flushing' = flushing \ {Payer(c)}
    /\ \/ /\ call[c].landed
          /\ delta' = [delta EXCEPT ![Payer(c)] = Settled(c)]
          /\ CallTo(c, IF Settled(c) = 0 /\ reports[Payer(c)] = 0 THEN "check" ELSE "denied")
          /\ UNCHANGED ambiguous
       \/ CallTo(c, "denied") /\ Unconfirmed(c) /\ UNCHANGED delta
    /\ UNCHANGED <<spent, reports, owed>>

\* FlushClaim::drop.
Release(c) == flushing' = flushing \ {Payer(c)}

\* The probe charges nothing.  A failure that may pass (a timeout, a 5xx)
\* follows on_error; any other denies.
CheckReturns(c) ==
    /\ CallAt(c, "check")
    /\ \/ spent[Payer(c)] < Limit /\ CallTo(c, "serving")
       \/ spent[Payer(c)] >= Limit /\ CallTo(c, "denied")
       \/ CallTo(c, IF ServeOnError THEN "serving" ELSE "denied")
       \/ CallTo(c, "denied")
    /\ UNCHANGED <<spent, delta, flushing, reports, owed, ambiguous>>

-----------------------------------------------------------------------------
(* QuotaReport.                                                            *)

\* The model answered: the typed usage when it is positive, else the
\* configured missing_usage_charge, is reported.
DebitStarts(c) ==
    /\ CallAt(c, "serving")
    /\ \E n \in Charges :
          /\ Sends(c, "report", n)
          /\ owed' = [owed EXCEPT ![Payer(c)] = @ + n]
    /\ reports' = [reports EXCEPT ![Payer(c)] = @ + 1]
    /\ UNCHANGED <<spent, delta, flushing, ambiguous>>

\* DebitClaim::finish: an unconfirmed amount is kept for the next admission.
FinishDebit(c, confirmed) ==
    /\ reports' = [reports EXCEPT ![Payer(c)] = @ - 1]
    /\ IF confirmed THEN UNCHANGED <<delta, ambiguous>>
       ELSE /\ delta' = [delta EXCEPT ![Payer(c)] = @ + call[c].amount]
            /\ Unconfirmed(c)

\* Mutant: a debit dropped at its await only stops counting as in flight.
FinishDroppedForgets(c) ==
    /\ reports' = [reports EXCEPT ![Payer(c)] = @ - 1]
    /\ Unconfirmed(c) /\ UNCHANGED delta

\* DebitClaim::drop.
FinishDropped(c) == FinishDebit(c, FALSE)

DebitEnds(c) ==
    /\ CallAt(c, "report")
    /\ CallTo(c, "done")
    /\ \/ call[c].landed /\ FinishDebit(c, TRUE)
       \/ FinishDebit(c, FALSE)
    /\ UNCHANGED <<spent, flushing, owed>>

\* The plugin timeout, or the caller hanging up, drops a call at its await.
CallDropped(c) ==
    /\ call[c].at \in {"flush", "check", "serving", "report"}
    /\ CallTo(c, IF CallAt(c, "report") THEN "done" ELSE "denied")
    /\ \/ /\ CallAt(c, "flush") /\ Release(c) /\ Unconfirmed(c)
          /\ UNCHANGED <<delta, reports>>
       \/ CallAt(c, "report") /\ FinishDropped(c) /\ UNCHANGED flushing
       \/ /\ CallAt(c, "check") \/ CallAt(c, "serving")
          /\ UNCHANGED <<delta, flushing, reports, ambiguous>>
    /\ UNCHANGED <<spent, owed>>

QuotaStep(c) ==
    \/ FlushGate(c) \/ FlushSettles(c) \/ CheckReturns(c) \/ DebitStarts(c) \/ DebitEnds(c)

QuotaNext ==
    \E c \in Calls : CallArrives(c) \/ QuotaStep(c) \/ ReportLands(c) \/ CallDropped(c)

QuotaSpec == QuotaInit /\ [][QuotaNext]_quotaVars

-----------------------------------------------------------------------------
(* Properties.                                                             *)

\* The tokens these calls report, one by one, and how many they are.
Tokens(calls) == UNION {{c} \X (1 .. call[c].amount) : c \in calls}
InFlight(calls) == Cardinality(Tokens(calls))

LandedFlushes(p) == {c \in Calls : Payer(c) = p /\ CallAt(c, "flush") /\ call[c].landed}
LateReports(p) == {c \in Calls : Payer(c) = p /\ CallAt(c, "report") /\ ~call[c].landed}

\* handlers.rs calls both directions bugs: clearing a debit without a confirmed
\* report is "a silent under-charge", reporting one twice while its first
\* report is in flight "a deterministic double-charge".  Whatever overlaps,
\* fails or is dropped, the counter and the pending debit together are exactly
\* what the responses cost, plus what landed unknown to the plugin.
Accounted ==
    \A p \in Principals :
        spent[p] + delta[p] + InFlight(LateReports(p))
            = owed[p] + ambiguous[p] + InFlight(LandedFlushes(p))

\* Admission never overtakes a debit: a call gets past the gate only when all
\* its principal's responses have cost so far has reached the counter, which
\* its budget check is about to read.
SettledAtAdmission ==
    [][\A c \in Calls : ~CallAt(c, "check") /\ call'[c].at = "check" =>
           owed[Payer(c)] <= spent[Payer(c)]]_quotaVars

\* A principal is never wedged in quota.unsettled_debit: whoever closed its
\* gate is still there to open it, one call per flush, one per report.
GateHeldByACall ==
    \A p \in Principals :
        /\ p \in flushing <=> \E c \in Calls : Payer(c) = p /\ CallAt(c, "flush")
        /\ reports[p] = Cardinality({c \in Calls : Payer(c) = p /\ CallAt(c, "report")})

\* The books balance, and the gate that keeps them is never left shut: neither
\* a lost reply, nor a dropped call, nor a flush under way loses a charge or
\* locks its payer out.
QuotaSound == Accounted /\ GateHeldByACall
=============================================================================
