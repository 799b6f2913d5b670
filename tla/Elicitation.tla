----------------------------- MODULE Elicitation -----------------------------
(***************************************************************************)
(* Human approval over CIBA: one elicit step of a policy (evaluator.rs,    *)
(* dispatch_elicitation) driving the approver plugin (approver.rs) through *)
(* its three operations dispatch, check and validate, the correlation      *)
(* store the replicas share (store.rs, valkey_store.rs), and the OpenID    *)
(* provider (OP), whose auth_req_id is the id of the elicitation and is    *)
(* spent by the first poll it answers with tokens.                         *)
(*                                                                         *)
(* A request is one arrival at the step; the agent's retries are further   *)
(* requests carrying the id.  A subject stands for the triple the approval *)
(* is bound to (policy route, tool, requester).  The clock shows as two    *)
(* events: a poll's lease lapses, a correlation expires.                   *)
(***************************************************************************)
EXTENDS Naturals

CONSTANTS Requests,   \* bound: arrivals at the step
          Ids,        \* the auth_req_ids the OP issues
          Subjects,   \* the bindings: route, tool and requester
          Approvers,  \* the people who may be named or may answer
          OnErrorContinue, \* the step's on_error is continue, not deny
          SharedStore \* TRUE: Valkey, one store for all replicas; its commands
                      \* can fail, applied or not.  FALSE: this process's memory

NoId == "noid"
NoOne == "noone"

ASSUME ElicitationAssumption ==
    /\ SharedStore \in BOOLEAN /\ OnErrorContinue \in BOOLEAN
    /\ NoId \notin Ids
    /\ NoOne \notin Approvers
    /\ "none" \notin Subjects
    /\ {"free", "uncertain"} \cap Requests = {}

VARIABLES
    op,        \* op[i]: the OP's state of the backchannel request
    by,        \* by[i]: the approver claim of the token the OP would issue
    asked,     \* asked[i]: for whom, and of whom, approval was asked
    live,      \* the ids with a correlation in the store
    bind,      \* bind[i]: route_key, tool and requester of the correlation
    expected,  \* bind[i]'s expected_approver
    resolved,  \* resolved_approver
    poll,      \* poll[i]: "free", "uncertain", or the request that claimed it
    lapsed,    \* the ids whose poll claim is past its deadline
    el,        \* el[r]: what request r carries and what the step says
    stage,     \* stage[r]: the call request r makes next
    ans,       \* ans[r]: the OP's answer to r's poll, as r sees it
    verdict    \* verdict[r]: how the step ended for r

opVars    == <<op, by, asked>>
storeVars == <<live, bind, expected, resolved, poll, lapsed>>
reqVars   == <<el, stage, ans, verdict>>
elicitVars == <<opVars, storeVars, reqVars>>

OpStates == {"idle", "waiting", "approved", "refused", "expired", "spent", "closed"}
PollAnswers  == {"none", "approved", "garbled", "pending", "refused", "expired",
             "invalid_grant", "lost", "undelivered"}
Steps    == {"idle", "dispatch", "put", "get", "claim", "poll", "settle",
             "validate", "ended"}
\* "approved": the step continues on an approval.  "passed": it continues
\* though it failed, its on_error being continue.
Outcomes == {"none", "approved", "passed", "halted", "pending", "dropped"}

\* A retry carries the id.  `from` is resolved on every pass, and what it
\* resolved to is used by a dispatch only.
NoElicit == [id |-> NoId, subject |-> "none", from |-> NoOne, peek |-> FALSE]
First    == [id : {NoId}, subject : Subjects, from : Approvers, peek : BOOLEAN]
Retry    == [id : Ids, subject : Subjects, from : {NoOne}, peek : BOOLEAN]
Elicit   == [id : Ids \cup {NoId}, subject : Subjects,
             from : Approvers \cup {NoOne}, peek : BOOLEAN] \cup {NoElicit}

ElicitTypeOK ==
    /\ op \in [Ids -> OpStates] /\ by \in [Ids -> Approvers \cup {NoOne}]
    /\ asked \in [Ids -> [subject : Subjects \cup {"none"},
                          from : Approvers \cup {"none"}]]
    /\ live \subseteq Ids
    /\ bind \in [Ids -> Subjects \cup {"none"}]
    /\ expected \in [Ids -> Approvers \cup {NoOne}]
    /\ resolved \in [Ids -> Approvers \cup {NoOne}]
    /\ poll \in [Ids -> {"free", "uncertain"} \cup Requests]
    /\ lapsed \subseteq Ids
    /\ el \in [Requests -> Elicit]
    /\ stage \in [Requests -> Steps]
    /\ ans \in [Requests -> PollAnswers]
    /\ verdict \in [Requests -> Outcomes]

ElicitInit ==
    /\ op = [i \in Ids |-> "idle"] /\ by = [i \in Ids |-> NoOne]
    /\ asked = [i \in Ids |-> [subject |-> "none", from |-> "none"]]
    /\ live = {} /\ bind = [i \in Ids |-> "none"]
    /\ expected = [i \in Ids |-> NoOne] /\ resolved = [i \in Ids |-> NoOne]
    /\ poll = [i \in Ids |-> "free"] /\ lapsed = {}
    /\ el = [r \in Requests |-> NoElicit]
    /\ stage = [r \in Requests |-> "idle"]
    /\ ans = [r \in Requests |-> "none"]
    /\ verdict = [r \in Requests |-> "none"]

-----------------------------------------------------------------------------
(* How a request goes on, or ends.                                         *)

StageTo(r, step) ==
    /\ stage' = [stage EXCEPT ![r] = step]
    /\ UNCHANGED verdict

End(r, o) ==
    /\ stage' = [stage EXCEPT ![r] = "ended"]
    /\ verdict' = [verdict EXCEPT ![r] = o]

\* The step's on_error decides what a failure of the channel does.
Fail(r) == End(r, IF OnErrorContinue THEN "passed" ELSE "halted")
\* ElicitationError::StoreUnavailable, and a person's no, halt whatever on_error says.
Halt(r) == End(r, "halted")

\* The id, and whether its correlation was opened for this very subject.
Id(r) == el[r].id

Bound(r) == bind[Id(r)] = el[r].subject

-----------------------------------------------------------------------------
(* The correlation store.  Each operation is atomic: one lock, one script. *)

Present(i) == i \in live
Put(i, s, a) ==
    /\ live' = live \cup {i}
    /\ bind' = [bind EXCEPT ![i] = s]
    /\ expected' = [expected EXCEPT ![i] = a]
    /\ resolved' = [resolved EXCEPT ![i] = NoOne]
    /\ poll' = [poll EXCEPT ![i] = "free"]
    /\ lapsed' = lapsed \ {i}

\* Mutant: a claim past its deadline is given to the next caller.
PollClaimTakesOver(r) ==
    LET i == Id(r) IN
    IF ~Present(i)                THEN "Missing"
    ELSE IF ~Bound(r)             THEN "BindingMismatch"
    ELSE IF resolved[i] # NoOne   THEN "Resolved"
    ELSE IF poll[i] = "uncertain" THEN "Uncertain"
    ELSE IF poll[i] = "free" \/ i \in lapsed THEN "Acquired"
    ELSE "Busy"

\* What claim_poll answers request r.
PollClaim(r) ==
    LET i == Id(r) IN
    IF ~Present(i)                THEN "Missing"
    ELSE IF ~Bound(r)             THEN "BindingMismatch"
    ELSE IF resolved[i] # NoOne   THEN "Resolved"
    ELSE IF poll[i] = "uncertain" THEN "Uncertain"
    ELSE IF poll[i] = "free"      THEN "Acquired"
    ELSE IF i \in lapsed          THEN "Uncertain"
    ELSE "Busy"

\* What it leaves in the store: an expired claim becomes uncertain.
ClaimPoll(r) ==
    LET i == Id(r) IN
    /\ poll' = [poll EXCEPT ![i] =
                    CASE PollClaim(r) = "Acquired"  -> r
                      [] PollClaim(r) = "Uncertain" -> "uncertain"
                      [] OTHER                      -> @]
    /\ lapsed' = IF PollClaim(r) \in {"Acquired", "Uncertain"} THEN lapsed \ {i} ELSE lapsed
    /\ UNCHANGED <<live, bind, expected, resolved>>

\* require_owner.  The Valkey scripts compare the owner only; the memory
\* store also refuses an owner past its deadline.
Owns(r) ==
    LET i == Id(r) IN
    /\ Present(i) /\ poll[i] = r
    /\ SharedStore \/ i \notin lapsed

\* The claim ends, free or uncertain.
LeavePoll(r, state) ==
    /\ poll' = [poll EXCEPT ![Id(r)] = state]
    /\ lapsed' = lapsed \ {Id(r)}
    /\ UNCHANGED <<live, bind, expected>>

ReleasePoll(r) == LeavePoll(r, "free") /\ UNCHANGED resolved
AbandonPoll(r) == LeavePoll(r, "uncertain") /\ UNCHANGED resolved

\* Mutant: a token without the claim counts as one with an empty claim.
CompletePollEmpty(r) ==
    /\ LeavePoll(r, "free")
    /\ resolved' = [resolved EXCEPT ![Id(r)] = ""]

CompletePoll(r) ==
    /\ LeavePoll(r, "free")
    /\ resolved' = [resolved EXCEPT ![Id(r)] = by[Id(r)]]

\* Removing a correlation, by a redemption or by its expiry.
Remove(gone) ==
    /\ live' = live \ gone
    /\ lapsed' = lapsed \ gone
    /\ poll' = [i \in Ids |-> IF i \in gone THEN "free" ELSE poll[i]]
    /\ resolved' = [i \in Ids |-> IF i \in gone THEN NoOne ELSE resolved[i]]
    /\ UNCHANGED <<bind, expected>>

-----------------------------------------------------------------------------
(* The OP and the person asked: external.                                  *)

PersonAnswers(i) ==
    /\ op[i] = "waiting"
    /\ \/ /\ op' = [op EXCEPT ![i] = "approved"]
          /\ \E a \in Approvers : by' = [by EXCEPT ![i] = a]
       \/ /\ op' = [op EXCEPT ![i] = "refused"]
          /\ UNCHANGED by
    /\ UNCHANGED <<asked, storeVars, reqVars>>

OpExpires(i) ==
    /\ op[i] = "waiting"
    /\ op' = [op EXCEPT ![i] = "expired"]
    /\ UNCHANGED <<by, asked, storeVars, reqVars>>

\* What the OP answers a poll that reaches it, and what the poll does to it:
\* tokens are handed out once; a refusal already told may be forgotten.
OpAnswers(i) ==
    CASE op[i] = "waiting"  -> "pending"
      [] op[i] = "approved" -> "approved"
      [] op[i] = "refused"  -> "refused"
      [] op[i] = "expired"  -> "expired"
      [] OTHER              -> "invalid_grant"

OpPolled(i) ==
    \/ /\ op[i] = "approved"
       /\ op' = [op EXCEPT ![i] = "spent"]
    \/ /\ op[i] = "refused"
       /\ op' = [op EXCEPT ![i] = "closed"]
    \/ /\ op[i] # "approved"
       /\ UNCHANGED op

-----------------------------------------------------------------------------
(* A request at the elicit step.                                           *)

\* The bag holds elicitation.id when the agent echoes one the OP issued.  A
\* pass whose `from` does not resolve fails, before the id is looked up.
Arrive(r) ==
    /\ stage[r] = "idle"
    /\ \E e \in First \cup Retry :
          /\ e.id # NoId => op[e.id] # "idle"
          /\ el' = [el EXCEPT ![r] = e]
          /\ \/ StageTo(r, IF e.id = NoId THEN "dispatch" ELSE "get")
             \/ Fail(r)
    /\ UNCHANGED <<opVars, storeVars, ans>>

\* do_dispatch up to the OP's response.  The POST is not idempotent and is
\* repeated only when it provably never arrived, so it prompts at most once;
\* without a usable response (lost, refused, no id or no positive expiry) the
\* step fails, prompted or not.
Dispatch(r) ==
    /\ stage[r] = "dispatch"
    /\ \/ /\ Fail(r)
          /\ UNCHANGED <<op, asked, el>>
       \/ \E i \in Ids :
            /\ op[i] = "idle"
            /\ op' = [op EXCEPT ![i] = "waiting"]
            /\ asked' = [asked EXCEPT ![i] =
                            [subject |-> el[r].subject, from |-> el[r].from]]
            /\ \/ /\ el' = [el EXCEPT ![r].id = i]
                  /\ StageTo(r, "put")
               \/ /\ UNCHANGED el
                  /\ Fail(r)
    /\ UNCHANGED <<by, storeVars, ans>>

\* The correlation is stored before the id leaves the plugin; when the store
\* fails the person has been prompted and the step halts.
StoreCorrelation(r) ==
    /\ stage[r] = "put"
    /\ \/ Put(Id(r), el[r].subject, el[r].from) /\ StageTo(r, "get")
       \/ /\ SharedStore /\ Halt(r)
          /\ \/ Put(Id(r), el[r].subject, el[r].from)
             \/ UNCHANGED storeVars
    /\ UNCHANGED <<opVars, el, ans>>

\* do_check reads the correlation: an approval already resolved is not polled.
CheckReads(r) ==
    /\ stage[r] = "get"
    /\ \/ ~Present(Id(r)) /\ Fail(r)
       \/ Present(Id(r)) /\ ~Bound(r) /\ Fail(r)
       \/ Present(Id(r)) /\ Bound(r) /\
             StageTo(r, IF resolved[Id(r)] # NoOne THEN "validate" ELSE "claim")
       \/ SharedStore /\ Halt(r)
    /\ UNCHANGED <<opVars, storeVars, el, ans>>

\* Mutant: a caller that finds another one polling starts over.
ActOnClaimRetries(r) ==
    CASE PollClaim(r) = "Acquired"  -> StageTo(r, "poll")
      [] PollClaim(r) = "Busy"      -> StageTo(r, "get")
      [] PollClaim(r) = "Resolved"  -> StageTo(r, "validate")
      [] PollClaim(r) = "Uncertain" -> Halt(r)
      [] OTHER                      -> Fail(r)

\* What do_check makes of the claim.
ActOnClaim(r) ==
    CASE PollClaim(r) = "Acquired"  -> StageTo(r, "poll")
      [] PollClaim(r) = "Busy"      -> End(r, "pending")
      [] PollClaim(r) = "Resolved"  -> StageTo(r, "validate")
      [] PollClaim(r) = "Uncertain" -> Halt(r)
      [] OTHER                      -> Fail(r)

\* It claims the poll; op_request can fail before it does.
CheckClaims(r) ==
    /\ stage[r] = "claim"
    /\ \/ ClaimPoll(r) /\ ActOnClaim(r)
       \/ SharedStore /\ (ClaimPoll(r) \/ UNCHANGED storeVars) /\ Halt(r)
       \/ Fail(r) /\ UNCHANGED storeVars
    /\ UNCHANGED <<opVars, el, ans>>

\* It polls the token endpoint: the poll may never arrive, and the answer to
\* one that did may be lost, or carry no approver or no known error.
CheckPolls(r) ==
    /\ stage[r] = "poll"
    /\ \/ /\ ans' = [ans EXCEPT ![r] = "undelivered"]
          /\ UNCHANGED op
       \/ /\ OpPolled(Id(r))
          /\ \E a \in {OpAnswers(Id(r)), "lost", "garbled"} :
                ans' = [ans EXCEPT ![r] = a]
    /\ StageTo(r, "settle")
    /\ UNCHANGED <<by, asked, storeVars, el>>

\* What the answer says of the claim: completed, released when nothing was
\* spent, abandoned when something may have been.
Settlement(r) ==
    CASE ans[r] = "approved" -> "complete"
      [] ans[r] \in {"pending", "refused", "expired", "undelivered"} -> "release"
      [] ans[r] = "invalid_grant" /\ Present(Id(r)) /\ resolved[Id(r)] # NoOne -> "release"
      [] OTHER -> "abandon"

Settle(r) ==
    CASE Settlement(r) = "complete" -> CompletePoll(r)
      [] Settlement(r) = "release"  -> ReleasePoll(r)
      [] OTHER                      -> AbandonPoll(r)

\* The rest of do_check: the store learns the answer, and the step acts on it.
CheckSettles(r) ==
    /\ stage[r] = "settle"
    /\ \/ /\ Owns(r)
          /\ Settle(r)
          /\ CASE ans[r] = "pending" -> End(r, "pending")
               [] ans[r] = "refused" -> Halt(r)
               [] ans[r] = "approved" -> StageTo(r, "validate")
               [] ans[r] = "invalid_grant" /\ Settlement(r) = "release" ->
                      StageTo(r, "validate")
               [] OTHER -> Fail(r)
       \/ /\ SharedStore /\ Owns(r)
          /\ Settle(r)
          /\ Halt(r)
       \/ /\ SharedStore \/ ~Owns(r)
          /\ UNCHANGED storeVars
          /\ Halt(r)
    /\ ans' = [ans EXCEPT ![r] = "none"]
    /\ UNCHANGED <<opVars, el>>

\* What take_if_ready, or the read of a peek, finds.
Redeemable(r) == Present(Id(r)) /\ Bound(r) /\ resolved[Id(r)] # NoOne

\* Mutant: a redemption reads the correlation and leaves it.
RedeemReads(r) == UNCHANGED storeVars

\* Only a redemption that is no peek removes it.
Redeem(r) == IF el[r].peek \/ ~Redeemable(r) THEN UNCHANGED storeVars
                                             ELSE Remove({Id(r)})

\* Mutant: any resolved approver will do.
GenuineAnyone(r) == TRUE

\* Who approved is who was asked.
Genuine(r) == resolved[Id(r)] = expected[Id(r)]

\* do_validate, then the step's own scope over the live arguments: the
\* approval is taken before the scope is looked at.
Validate(r) ==
    /\ stage[r] = "validate"
    /\ \/ /\ Redeem(r)
          /\ \/ /\ Redeemable(r) /\ Genuine(r)
                /\ End(r, "approved")
             \/ Fail(r)
       \/ /\ SharedStore
          /\ Redeem(r) \/ UNCHANGED storeVars
          /\ Halt(r)
    /\ UNCHANGED <<opVars, el, ans>>

\* The caller hangs up, or the plugin's timeout cancels the call, at any await.
Cancel(r) ==
    /\ stage[r] \notin {"idle", "ended"}
    /\ End(r, "dropped") \/ Fail(r)
    /\ UNCHANGED <<opVars, storeVars, el, ans>>

-----------------------------------------------------------------------------
(* Time, and the process.                                                  *)

LeaseLapses(i) ==
    /\ poll[i] \in Requests
    /\ lapsed' = lapsed \cup {i}
    /\ i \notin lapsed
    /\ UNCHANGED <<live, bind, expected, resolved, poll, opVars, reqVars>>

CorrelationExpires(i) ==
    /\ Present(i)
    /\ Remove({i})
    /\ UNCHANGED <<opVars, reqVars>>

\* The process dies with every request in it. The memory store goes with it; the
\* shared one keeps its correlations, and the claims taken on them.  It keeps
\* every write it acknowledged: the failover that brings a redeemed correlation
\* back (docs/content/apl/elicitation.md, "Durability") is outside this model.
ProcessCrash ==
    /\ live # {}
    /\ IF SharedStore THEN UNCHANGED storeVars ELSE Remove(live)
    /\ stage' = [r \in Requests |-> IF stage[r] = "idle" THEN "idle" ELSE "ended"]
    /\ verdict' = [r \in Requests |-> IF stage[r] \in {"idle", "ended"} THEN verdict[r]
                                                                    ELSE "dropped"]
    /\ UNCHANGED <<opVars, el, ans>>

RequestStep(r) ==
    \/ Dispatch(r) \/ StoreCorrelation(r) \/ CheckReads(r) \/ CheckClaims(r)
    \/ CheckPolls(r) \/ CheckSettles(r) \/ Validate(r)

ElicitNext ==
    \/ \E r \in Requests : Arrive(r) \/ RequestStep(r) \/ Cancel(r)
    \/ \E i \in Ids : PersonAnswers(i) \/ OpExpires(i)
                       \/ LeaseLapses(i) \/ CorrelationExpires(i)
    \/ ProcessCrash

\* A request's calls return: HTTP and store commands have timeouts.
ElicitFairness == \A r \in Requests : WF_elicitVars(RequestStep(r))

ElicitSpec == ElicitInit /\ [][ElicitNext]_elicitVars
ElicitLiveSpec == ElicitSpec /\ ElicitFairness

-----------------------------------------------------------------------------
(* Properties.                                                             *)

\* What the channel promises the policy (Approval), read off the OP and the
\* requests that went through.
Said(i) == IF op[i] \in {"refused", "closed"} THEN "no"
           ELSE IF by[i] # NoOne THEN by[i] ELSE "nothing"
\* The requests that spent an approval, and what each of them was about.
Spent == {r \in Requests : verdict[r] = "approved" /\ ~el[r].peek}
Spenders(i) == {r \in Spent : Id(r) = i}

A == INSTANCE Approval WITH
        Calls <- Requests,
        asked <- asked,
        said  <- [i \in Ids |-> Said(i)],
        spent <- {[id |-> Id(r), call |-> r, subject |-> el[r].subject] : r \in Spent}

\* docs/content/apl/elicitation.md: claiming an OP poll and redeeming are
\* atomic, so two replicas cannot both apply one approval.  Every step of the
\* plugin, the stores and the OP is a step of the abstract channel: a request
\* let through spends an approval that no request spent before, that was asked
\* for the subject this request has, and to which the named person said yes.
ApprovalImplemented == A!ApprovalSpec

\* A non-peek redemption removes the correlation, so one id lets at most one
\* request through, however retries, replicas, lapses and lost replies fall.
AtMostOneSpender == \A i \in Ids : \A r, s \in Spenders(i) : r = s

\* Peeks included: a request that continued on an approval was of the subject
\* it was asked for, and the named person said yes.
NoForgedApproval ==
    \A r \in Requests : verdict[r] = "approved" =>
        /\ asked[Id(r)] = [subject |-> el[r].subject, from |-> by[Id(r)]]
        /\ op[Id(r)] = "spent"

\* approver.rs: a spent auth_req_id must not be polled again, since the OP's
\* invalid_grant would turn the approval already given into a denial.  Nobody
\* about to poll holds a spent id, even when a claim lapsed, its owner died or
\* the store lost the answer.
NeverRepolled ==
    \A r \in Requests : stage[r] = "poll" => op[Id(r)] # "spent"

\* A request never waits for another one's poll: every request that arrived
\* ends, suspended if need be.
EveryRequestEnds ==
    \A r \in Requests : stage[r] # "idle" ~> stage[r] = "ended"

\* An approval that lets a request through is its own: given by the person
\* asked, to this subject, and spent by no other request.
ApprovalGenuine == NoForgedApproval /\ AtMostOneSpender
=============================================================================
