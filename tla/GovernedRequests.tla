-------------------------- MODULE GovernedRequests --------------------------
(***************************************************************************)
(* Governed requests: a person asks to activate a release or to view the   *)
(* raw text of a runtime query, another person decides, and the approval   *)
(* is then spent: on one activation, or on a token that unlocks one view.  *)
(*                                                                         *)
(* Every endpoint is one READ COMMITTED transaction.  All of them but the  *)
(* view read the request without a lock, check it in memory and write the  *)
(* changed columns back with UPDATE ... WHERE request_id, so they are two  *)
(* steps here: the read with its checks, and the write with its audit row  *)
(* and commit.  A check that fails ends the request without a step.  The   *)
(* view locks the token and its request with SELECT ... FOR UPDATE.        *)
(***************************************************************************)
EXTENDS Naturals

CONSTANTS
    Clients,    \* API workers, each with one open database session
    Requests,   \* governed_action_requests.request_id
    Tokens,     \* raw_query_view_tokens.token_id
    Actors,     \* people with the role each endpoint asks for
    Admins,     \* the ones of them who are system_admin
    None        \* SQL NULL, no owner, no argument

ASSUME ActorsAssumption ==
    /\ Admins \subseteq Actors
    /\ None \notin Clients \cup Requests \cup Tokens \cup Actors

VARIABLES
    kind,       \* (resource_type, action): publish or raw_query
    status,     \* governed_action_requests.status
    author,     \* requested_by
    decider,    \* decided_by
    reason,     \* decision_reason, as the actor who gave it
    tokReq,     \* raw_query_view_tokens.request_id
    tokState,   \* viewed_at and expired_at of each token
    tokLate,    \* expires_at lies in the past
    text,       \* is the raw text of the request's runtime log still there
    audit,      \* the decision and activation rows of audit_logs
    views,      \* how many raw_query.viewed rows each token has
    rowLock,    \* holder of the row lock of a request (and of its token)
    pc,         \* where each client's handler is
    loc         \* its arguments, and what it read

reqVars == <<kind, status, author, decider, reason>>
tokVars == <<tokReq, tokState, tokLate>>
logVars == <<text, audit, views>>
vars == <<kind, status, author, decider, reason, tokReq, tokState, tokLate,
          text, audit, views, rowLock, pc, loc>>

-----------------------------------------------------------------------------
Kinds == {"publish", "raw_query"}
Statuses == {"absent", "pending", "approved", "rejected", "activated",
             "token_issued", "viewed", "expired"}
Labels == {"idle", "approve", "reject", "activate", "issue", "consume",
           "decrypt"}
Events == [event : {"approved", "rejected", "activated"}, req : Requests,
           actor : Actors]

Locals == [req : Requests \cup {None}, actor : Actors \cup {None},
           tok : Tokens \cup {None}, late : BOOLEAN]
NoLocals == [req |-> None, actor |-> None, tok |-> None, late |-> FALSE]

TypeOK ==
    /\ kind \in [Requests -> Kinds \cup {None}]
    /\ status \in [Requests -> Statuses]
    /\ author \in [Requests -> Actors \cup {None}]
    /\ decider \in [Requests -> Actors \cup {None}]
    /\ reason \in [Requests -> Actors \cup {None}]
    /\ tokReq \in [Tokens -> Requests \cup {None}]
    /\ tokState \in [Tokens -> {"absent", "unused", "viewed", "expired"}]
    /\ tokLate \in [Tokens -> BOOLEAN]
    /\ text \in [Requests -> {"present", "redacted"}]
    /\ audit \subseteq Events
    /\ views \in [Tokens -> Nat]
    /\ rowLock \in [Requests -> Clients \cup {None}]
    /\ pc \in [Clients -> Labels]
    /\ loc \in [Clients -> Locals]

Init ==
    /\ kind = [r \in Requests |-> None]
    /\ status = [r \in Requests |-> "absent"]
    /\ author = [r \in Requests |-> None]
    /\ decider = [r \in Requests |-> None]
    /\ reason = [r \in Requests |-> None]
    /\ tokReq = [t \in Tokens |-> None]
    /\ tokState = [t \in Tokens |-> "absent"]
    /\ tokLate = [t \in Tokens |-> FALSE]
    /\ text = [r \in Requests |-> "present"]
    /\ audit = {}
    /\ views = [t \in Tokens |-> 0]
    /\ rowLock = [r \in Requests |-> None]
    /\ pc = [c \in Clients |-> "idle"]
    /\ loc = [c \in Clients |-> NoLocals]

-----------------------------------------------------------------------------
(* Steps of a transaction.                                                 *)

Begin(c, label, r, a, t, late) ==
    /\ pc[c] = "idle"
    /\ pc' = [pc EXCEPT ![c] = label]
    /\ loc' = [loc EXCEPT ![c] =
                 [req |-> r, actor |-> a, tok |-> t, late |-> late]]
    /\ UNCHANGED <<reqVars, tokVars, logVars, rowLock>>

(* Commit and rollback release the row locks.                              *)
EndTransaction(c) ==
    /\ pc' = [pc EXCEPT ![c] = "idle"]
    /\ loc' = [loc EXCEPT ![c] = NoLocals]
    /\ rowLock' = [r \in Requests |->
                     IF rowLock[r] = c THEN None ELSE rowLock[r]]

(* An UPDATE of the request waits for the transaction that locked its row, *)
(* and then overwrites whatever that one committed.                        *)
Writable(c) == rowLock[loc[c].req] = None

Record(c, event) ==
    audit' = audit \cup
      {[event |-> event, req |-> loc[c].req, actor |-> loc[c].actor]}

-----------------------------------------------------------------------------
(* Mutant: a status outside ck_governed_action_requests_status.            *)
create_request_unchecked(r, a, k) ==
    /\ status[r] = "absent"
    /\ kind' = [kind EXCEPT ![r] = k]
    /\ status' = [status EXCEPT ![r] = "requested"]
    /\ author' = [author EXCEPT ![r] = a]
    /\ UNCHANGED <<decider, reason, tokVars, logVars, rowLock, pc, loc>>

(* create_publish_request, create_raw_query_view_request.                  *)
create_governed_action_request(r, a, k) ==
    /\ status[r] = "absent"
    /\ kind' = [kind EXCEPT ![r] = k]
    /\ status' = [status EXCEPT ![r] = "pending"]
    /\ author' = [author EXCEPT ![r] = a]
    /\ UNCHANGED <<decider, reason, tokVars, logVars, rowLock, pc, loc>>

(* Mutant: the author is not compared with the decider.                    *)
MayDecideOwn(r, a) == status[r] = "pending"

(* The checks of approve_ and reject_governed_action_request.              *)
MayDecide(r, a) ==
    /\ status[r] = "pending"
    /\ a # author[r]

begin_decide(c, label) ==
    \E r \in Requests, a \in Actors :
        MayDecide(r, a) /\ Begin(c, label, r, a, None, FALSE)

(* The reason of an approval is optional; a NULL that was read as NULL is  *)
(* not among the changed columns, so the UPDATE leaves it alone.           *)
approve_governed_action_request(c) ==
    /\ pc[c] = "approve"
    /\ Writable(c)
    /\ status' = [status EXCEPT ![loc[c].req] = "approved"]
    /\ decider' = [decider EXCEPT ![loc[c].req] = loc[c].actor]
    /\ \/ reason' = [reason EXCEPT ![loc[c].req] = loc[c].actor]
       \/ reason' = reason
    /\ Record(c, "approved")
    /\ EndTransaction(c)
    /\ UNCHANGED <<kind, author, tokVars, text, views>>

(* Mutant: a reason that the row already has is kept.                      *)
reject_keeping_reason(c) ==
    /\ pc[c] = "reject"
    /\ Writable(c)
    /\ status' = [status EXCEPT ![loc[c].req] = "rejected"]
    /\ decider' = [decider EXCEPT ![loc[c].req] = loc[c].actor]
    /\ reason' = [reason EXCEPT ![loc[c].req] =
                     IF @ = None THEN loc[c].actor ELSE @]
    /\ Record(c, "rejected")
    /\ EndTransaction(c)
    /\ UNCHANGED <<kind, author, tokVars, text, views>>

reject_governed_action_request(c) ==
    /\ pc[c] = "reject"
    /\ Writable(c)
    /\ status' = [status EXCEPT ![loc[c].req] = "rejected"]
    /\ decider' = [decider EXCEPT ![loc[c].req] = loc[c].actor]
    /\ reason' = [reason EXCEPT ![loc[c].req] = loc[c].actor]
    /\ Record(c, "rejected")
    /\ EndTransaction(c)
    /\ UNCHANGED <<kind, author, tokVars, text, views>>

-----------------------------------------------------------------------------
(* Publishing.                                                             *)

begin_activate_publish_request(c) ==
    \E r \in Requests, a \in Actors :
        /\ kind[r] = "publish"
        /\ status[r] = "approved"
        /\ Begin(c, "activate", r, a, None, FALSE)

(* release_service.activate_release (module ReleaseLifecycle) and the new  *)
(* status commit together.                                                 *)
activate_publish_request(c) ==
    /\ pc[c] = "activate"
    /\ Writable(c)
    /\ status' = [status EXCEPT ![loc[c].req] = "activated"]
    /\ Record(c, "activated")
    /\ EndTransaction(c)
    /\ UNCHANGED <<kind, author, decider, reason, tokVars, text, views>>

-----------------------------------------------------------------------------
(* Raw query tokens.                                                       *)

require_raw_query_token_requester(a, r) == a \in Admins \/ a = author[r]

(* Mutant: a request that has a token is given another one.                *)
begin_reissue_token(c) ==
    \E r \in Requests, a \in Actors :
        /\ kind[r] = "raw_query"
        /\ require_raw_query_token_requester(a, r)
        /\ status[r] \in {"approved", "token_issued", "viewed"}
        /\ Begin(c, "issue", r, a, None, FALSE)

begin_issue_raw_query_view_token(c) ==
    \E r \in Requests, a \in Actors :
        /\ kind[r] = "raw_query"
        /\ require_raw_query_token_requester(a, r)
        /\ status[r] = "approved"
        /\ Begin(c, "issue", r, a, None, FALSE)

issue_raw_query_view_token(c) ==
    /\ pc[c] = "issue"
    /\ Writable(c)
    /\ status' = [status EXCEPT ![loc[c].req] = "token_issued"]
    /\ \E t \in Tokens :
         /\ tokState[t] = "absent"
         /\ tokReq' = [tokReq EXCEPT ![t] = loc[c].req]
         /\ tokState' = [tokState EXCEPT ![t] = "unused"]
    /\ EndTransaction(c)
    /\ UNCHANGED <<kind, author, decider, reason, tokLate, logVars>>

(* decrypt_raw_runtime_query takes the time once, at its start, and        *)
(* compares expires_at with it in every statement.                         *)
begin_decrypt_raw_runtime_query(c) ==
    \E t \in Tokens, a \in Actors :
        /\ tokState[t] # "absent"
        /\ Begin(c, "consume", tokReq[t], a, t, tokLate[t])

(* The WHERE clause both SELECT ... FOR UPDATE statements share.           *)
TokenOpen(c) ==
    /\ tokState[loc[c].tok] = "unused"
    /\ status[loc[c].req] = "token_issued"

(* Mutant: the SELECT is not FOR UPDATE.                                   *)
consume_without_lock(c) ==
    /\ pc[c] = "consume"
    /\ TokenOpen(c) /\ ~ loc[c].late
    /\ require_raw_query_token_requester(loc[c].actor, loc[c].req)
    /\ pc' = [pc EXCEPT ![c] = "decrypt"]
    /\ UNCHANGED <<reqVars, tokVars, logVars, rowLock, loc>>

(* The rows are locked; what the rest of the handler does is invisible     *)
(* until its commit.  403 for anybody but the requester and system_admin.  *)
consume_raw_query_view_token(c) ==
    /\ pc[c] = "consume"
    /\ Writable(c)
    /\ TokenOpen(c) /\ ~ loc[c].late
    /\ require_raw_query_token_requester(loc[c].actor, loc[c].req)
    /\ rowLock' = [rowLock EXCEPT ![loc[c].req] = c]
    /\ pc' = [pc EXCEPT ![c] = "decrypt"]
    /\ UNCHANGED <<reqVars, tokVars, logVars, loc>>

(* Mutant: the request's status is not moved with its token.               *)
expire_token_only(c) ==
    /\ pc[c] = "consume"
    /\ Writable(c)
    /\ TokenOpen(c) /\ loc[c].late
    /\ tokState' = [tokState EXCEPT ![loc[c].tok] = "expired"]
    /\ EndTransaction(c)
    /\ UNCHANGED <<reqVars, tokReq, tokLate, logVars>>

expire_raw_query_view_token(c) ==
    /\ pc[c] = "consume"
    /\ Writable(c)
    /\ TokenOpen(c) /\ loc[c].late
    /\ tokState' = [tokState EXCEPT ![loc[c].tok] = "expired"]
    /\ status' = [status EXCEPT ![loc[c].req] = "expired"]
    /\ EndTransaction(c)
    /\ UNCHANGED <<kind, author, decider, reason, tokReq, tokLate, logVars>>

deny_raw_query_view_token(c) ==
    /\ pc[c] = "consume"
    /\ Writable(c)
    /\ \/ ~ TokenOpen(c)
       \/ /\ ~ loc[c].late
          /\ ~ require_raw_query_token_requester(loc[c].actor, loc[c].req)
    /\ EndTransaction(c)
    /\ UNCHANGED <<reqVars, tokVars, logVars>>

(* The text is decrypted and the view audited, or the text is gone or can  *)
(* not be decrypted and the consumption is rolled back.                    *)
decrypt_raw_runtime_query(c) ==
    /\ pc[c] = "decrypt"
    /\ text[loc[c].req] = "present"
    /\ tokState' = [tokState EXCEPT ![loc[c].tok] = "viewed"]
    /\ status' = [status EXCEPT ![loc[c].req] = "viewed"]
    /\ views' = [views EXCEPT ![loc[c].tok] = @ + 1]
    /\ EndTransaction(c)
    /\ UNCHANGED <<kind, author, decider, reason, tokReq, tokLate, text,
                   audit>>

fail_decrypt(c) ==
    /\ pc[c] = "decrypt"
    /\ EndTransaction(c)
    /\ UNCHANGED <<reqVars, tokVars, logVars>>

-----------------------------------------------------------------------------
(* The environment.                                                        *)

(* The retention job deletes the raw text of the runtime log.              *)
redact_runtime_raw_query(r) ==
    /\ text' = [text EXCEPT ![r] = "redacted"]
    /\ UNCHANGED <<reqVars, tokVars, audit, views, rowLock, pc, loc>>

token_lifetime_ends(t) ==
    /\ tokState[t] # "absent"
    /\ tokLate' = [tokLate EXCEPT ![t] = TRUE]
    /\ UNCHANGED <<reqVars, tokReq, tokState, logVars, rowLock, pc, loc>>

(* A worker dies, or loses its connection: its transaction is rolled back. *)
crash(c) ==
    /\ pc[c] # "idle"
    /\ EndTransaction(c)
    /\ UNCHANGED <<reqVars, tokVars, logVars>>

-----------------------------------------------------------------------------
DecisionStep(c) ==
    \/ begin_decide(c, "approve") \/ approve_governed_action_request(c)
    \/ begin_decide(c, "reject") \/ reject_governed_action_request(c)

PublishStep(c) ==
    \/ begin_activate_publish_request(c)
    \/ activate_publish_request(c)

TokenStep(c) ==
    \/ begin_issue_raw_query_view_token(c)
    \/ issue_raw_query_view_token(c)
    \/ begin_decrypt_raw_runtime_query(c)
    \/ consume_raw_query_view_token(c)
    \/ expire_raw_query_view_token(c)
    \/ deny_raw_query_view_token(c)
    \/ decrypt_raw_runtime_query(c)
    \/ fail_decrypt(c)

Next ==
    \/ \E r \in Requests, a \in Actors, k \in Kinds :
         create_governed_action_request(r, a, k)
    \/ \E c \in Clients :
         DecisionStep(c) \/ PublishStep(c) \/ TokenStep(c) \/ crash(c)
    \/ \E r \in Requests : redact_runtime_raw_query(r)
    \/ \E t \in Tokens : token_lifetime_ends(t)

Spec == Init /\ [][Next]_vars

(* The same system when no two calls about one request overlap: what the   *)
(* integration tests exercise, and what a lock on the row would enforce.   *)
SerialNext ==
    /\ Next
    /\ \A c, d \in Clients :
         c # d /\ pc'[c] # "idle" /\ pc'[d] # "idle"
           => loc'[c].req # loc'[d].req

SerialSpec == Init /\ [][SerialNext]_vars

-----------------------------------------------------------------------------
(* Properties.                                                             *)

ApprovedByAnother(r) ==
    \E e \in audit : /\ e.event = "approved" /\ e.req = r
                     /\ e.actor # author[r]

(* Two persons: nothing is activated, no token exists and no text is shown *)
(* unless somebody other than the author approved the request, even when   *)
(* decisions, activations and token calls overlap and overwrite each other.*)
TwoPersonRule ==
    /\ \A e \in audit : e.event = "activated" => ApprovedByAnother(e.req)
    /\ \A t \in Tokens : tokReq[t] # None => ApprovedByAnother(tokReq[t])

(* A token unlocks one view, however many decrypt calls present it at the  *)
(* same time and wherever they die; a view that fails leaves it usable.    *)
TokenViewedOnce ==
    \A t \in Tokens :
        /\ views[t] <= 1
        /\ views[t] = 1 <=> tokState[t] = "viewed"

(* A request in token_issued has a token that was neither viewed nor       *)
(* expired: the lock of the decrypt call and the blind write of a second   *)
(* issue call never leave a status that promises a view nobody can have.   *)
IssuedHasOpenToken ==
    \A r \in Requests : status[r] = "token_issued" =>
        \E t \in Tokens : tokReq[t] = r /\ tokState[t] = "unused"

(* What a request's row says of its decision is on record, although each   *)
(* of two overlapping decisions writes its own columns and an activation   *)
(* or a token may move the status after both.  An approved request was     *)
(* approved by its decider, a rejected one was rejected by its decider and *)
(* for the decider's reason.  An approval may leave the reason of a        *)
(* rejection it overwrote, but never one that no decision gave.            *)
Decided(event, r, a) == [event |-> event, req |-> r, actor |-> a] \in audit

DecisionIsAudited ==
    \A r \in Requests :
        /\ status[r] \in {"approved", "rejected"} =>
             Decided(status[r], r, decider[r])
        /\ status[r] = "rejected" => reason[r] = decider[r]
        /\ \A a \in {decider[r], reason[r]} \ {None} :
             Decided("approved", r, a) \/ Decided("rejected", r, a)

(* With calls that do not overlap the code implements the workflow of the  *)
(* API contract: one decision by another person, rejections final,         *)
(* approvals spent once.                                                   *)
Workflow == INSTANCE ApprovalWorkflow
                WITH kind <- kind, status <- status,
                     author <- author, decider <- decider
ImplementsWorkflow == Workflow!Spec

(* "Rejected requests are terminal."                                       *)
RejectedIsTerminal ==
    \A e \in audit : e.event = "rejected" => status[e.req] = "rejected"
=============================================================================
