----------------------------- MODULE HttpRetry ------------------------------
(***************************************************************************)
(* The retry policy of outbound HTTP (http_retry.rs): which failures of an *)
(* attempt are tried again.  An error says whether the peer may have acted *)
(* on the request, which is what decides for a call that must not be       *)
(* repeated.  Backoff and the time budget only end the loop sooner; the    *)
(* Vault delegator's budget is one attempt's own timeout, so there the     *)
(* first failure always ends it.                                           *)
(***************************************************************************)
EXTENDS Naturals

TransportErrors == {"timeout", "connect", "io", "invalid", "too_large", "rejected"}

UndeliveredOnly == [maxAttempts |-> 3, retryDelivered |-> FALSE]

MayHaveReachedPeer(err) == err \in {"timeout", "io", "too_large"}

\* should_retry
ShouldRetry(policy, err) ==
    /\ err \notin {"rejected", "invalid", "too_large"}
    /\ policy.retryDelivered \/ ~MayHaveReachedPeer(err)

\* The loop of execute_with_retry, for a call without a budget.
TriesAgain(policy, attempt, err) == attempt < policy.maxAttempts /\ ShouldRetry(policy, err)
=============================================================================
