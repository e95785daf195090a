-------------------------- MODULE ApprovalWorkflow --------------------------
(***************************************************************************)
(* What the approval workflow promises of a governed request: it is        *)
(* decided once, by somebody other than its author, a rejection is final,  *)
(* and an approval is spent once, on the operation it was asked for.  This *)
(* is the status-transition table of the Admin API contract as a state     *)
(* machine; GovernedRequests is the code that is meant to implement it.    *)
(***************************************************************************)
CONSTANTS Requests, Actors, None

VARIABLES
    kind,       \* the operation a request asks for
    status,     \* where it is
    author,     \* who asked
    decider     \* who approved or rejected it

wfVars == <<kind, status, author, decider>>

Init ==
    /\ kind = [r \in Requests |-> None]
    /\ status = [r \in Requests |-> "absent"]
    /\ author = [r \in Requests |-> None]
    /\ decider = [r \in Requests |-> None]

Ask(r, a, k) ==
    /\ status[r] = "absent"
    /\ kind' = [kind EXCEPT ![r] = k]
    /\ status' = [status EXCEPT ![r] = "pending"]
    /\ author' = [author EXCEPT ![r] = a]
    /\ UNCHANGED decider

Decide(r, a, verdict) ==
    /\ status[r] = "pending"
    /\ a # author[r]
    /\ status' = [status EXCEPT ![r] = verdict]
    /\ decider' = [decider EXCEPT ![r] = a]
    /\ UNCHANGED <<kind, author>>

(* The steps after an approval.                                            *)
Spend(r, k, from, to) ==
    /\ kind[r] = k
    /\ status[r] = from
    /\ status' = [status EXCEPT ![r] = to]
    /\ UNCHANGED <<kind, author, decider>>

Next ==
    \E r \in Requests :
        \/ \E a \in Actors, k \in {"publish", "raw_query"} : Ask(r, a, k)
        \/ \E a \in Actors, v \in {"approved", "rejected"} : Decide(r, a, v)
        \/ Spend(r, "publish", "approved", "activated")
        \/ Spend(r, "raw_query", "approved", "token_issued")
        \/ Spend(r, "raw_query", "token_issued", "viewed")
        \/ Spend(r, "raw_query", "token_issued", "expired")

Spec == Init /\ [][Next]_wfVars
=============================================================================
