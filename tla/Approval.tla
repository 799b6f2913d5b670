------------------------------ MODULE Approval ------------------------------
(***************************************************************************)
(* What an approval channel promises the policy, whatever the network, the *)
(* store and the replicas do: an approval that was asked for is answered   *)
(* once by a person, and an answer that is yes is spent by at most one     *)
(* call, one the question was about, on the word of the person it named.   *)
(***************************************************************************)
CONSTANTS Ids, Subjects, Approvers,
          Calls    \* the requests that may be let through

VARIABLES
    asked,    \* asked[i]: the subject and the approver of the question, or none
    said,     \* said[i]: nothing yet, "no", or who said yes
    spent     \* which approval let which call through, and of which subject

approvalVars == <<asked, said, spent>>

Unasked  == [subject |-> "none", from |-> "none"]
Question == [subject : Subjects, from : Approvers]

ApprovalInit ==
    /\ asked = [i \in Ids |-> Unasked]
    /\ said = [i \in Ids |-> "nothing"]
    /\ spent = {}

Ask(i, q) ==
    /\ asked[i] = Unasked
    /\ asked' = [asked EXCEPT ![i] = q]
    /\ UNCHANGED <<said, spent>>

Answer(i, a) ==
    /\ asked[i] # Unasked
    /\ said[i] = "nothing"
    /\ said' = [said EXCEPT ![i] = a]
    /\ UNCHANGED <<asked, spent>>

Spending(i, c, s) == [id |-> i, call |-> c, subject |-> s]

\* Letting call c of subject s through on approval i, which let none through.
Spend(i, c, s) ==
    /\ asked[i].subject = s
    /\ said[i] = asked[i].from
    /\ \A u \in spent : u.id # i
    /\ spent' = spent \cup {Spending(i, c, s)}
    /\ UNCHANGED <<asked, said>>

ApprovalNext ==
    \E i \in Ids :
        \/ \E q \in Question : Ask(i, q)
        \/ \E a \in Approvers \cup {"no"} : Answer(i, a)
        \/ \E c \in Calls, s \in Subjects : Spend(i, c, s)

ApprovalSpec == ApprovalInit /\ [][ApprovalNext]_approvalVars
=============================================================================
