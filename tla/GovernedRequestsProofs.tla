----------------------- MODULE GovernedRequestsProofs -----------------------
(***************************************************************************)
(* Proofs about GovernedRequests, for any number of workers, requests,     *)
(* tokens and people.                                                      *)
(***************************************************************************)
EXTENDS GovernedRequests, TLAPS

-----------------------------------------------------------------------------
(* The inductive invariant.                                                *)

(* The arguments a handler will use were given values.                     *)
LocalsOK ==
    \A c \in Clients : pc[c] # "idle" =>
        /\ loc[c].req \in Requests
        /\ loc[c].actor \in Actors
        /\ pc[c] \in {"consume", "decrypt"} =>
             loc[c].tok \in Tokens /\ tokReq[loc[c].tok] = loc[c].req

TokensOK ==
    /\ \A t \in Tokens : tokReq[t] = None <=> tokState[t] = "absent"
    /\ \A r \in Requests : status[r] # "absent" => author[r] \in Actors

TypeInv == TypeOK /\ LocalsOK /\ TokensOK

(* An approval by another person is on record for every request that got   *)
(* past it, and for every handler that read it as approved.                *)
Past == {"approved", "activated", "token_issued", "viewed", "expired"}

ApprovalRecorded ==
    /\ \A r \in Requests : status[r] \in Past => ApprovedByAnother(r)
    /\ \A c \in Clients : pc[c] \in {"activate", "issue"} =>
         ApprovedByAnother(loc[c].req)
    /\ \A e \in audit : status[e.req] # "absent"

(* Whoever decides is not the author, and the request exists.              *)
DecidersDiffer ==
    \A c \in Clients :
        /\ pc[c] # "idle" => status[loc[c].req] # "absent"
        /\ pc[c] \in {"approve", "reject"} =>
             loc[c].actor # author[loc[c].req]

(* A handler that is past SELECT ... FOR UPDATE holds the request's row,   *)
(* and what the statement found is still so.                               *)
DecryptLocked ==
    \A c \in Clients : pc[c] = "decrypt" =>
        /\ rowLock[loc[c].req] = c
        /\ TokenOpen(c)

IInv ==
    /\ TypeInv
    /\ ApprovalRecorded
    /\ DecidersDiffer
    /\ DecryptLocked
    /\ TwoPersonRule
    /\ TokenViewedOnce
    /\ IssuedHasOpenToken

USE DEF reqVars, tokVars, logVars

-----------------------------------------------------------------------------
(* Steps that only read, or undo.                                          *)

LEMMA InitInv == Init => IInv
  <1> SUFFICES ASSUME Init PROVE IInv
    OBVIOUS
  <1>1. NoLocals \in Locals
    BY DEF NoLocals, Locals
  <1>2. TypeInv
    BY <1>1 DEF Init, TypeInv, TypeOK, LocalsOK, TokensOK, Labels, Statuses
  <1>3. QED
    BY <1>2, ActorsAssumption DEF Init, IInv, ApprovalRecorded, Past,
       DecidersDiffer, DecryptLocked, TwoPersonRule, TokenViewedOnce,
       IssuedHasOpenToken

LEMMA BeginKeeps ==
    ASSUME IInv, NEW c \in Clients, NEW label \in Labels \ {"idle", "decrypt"},
           NEW r \in Requests, NEW a \in Actors, NEW t \in Tokens \cup {None},
           NEW late \in BOOLEAN, Begin(c, label, r, a, t, late),
           status[r] # "absent",
           label \in {"approve", "reject"} => a # author[r],
           label \in {"activate", "issue"} => ApprovedByAnother(r),
           label = "consume" => t \in Tokens /\ tokReq[t] = r
    PROVE  IInv'
  <1> DEFINE q == [req |-> r, actor |-> a, tok |-> t, late |-> late]
  <1>1. /\ q \in Locals
        /\ q.req = r /\ q.actor = a /\ q.tok = t /\ q.late = late
    BY DEF Locals
  <1>2. /\ pc' = [pc EXCEPT ![c] = label] /\ loc' = [loc EXCEPT ![c] = q]
        /\ UNCHANGED <<reqVars, tokVars, logVars, rowLock>>
    BY DEF Begin
  <1> HIDE DEF q
  <1>3. TypeOK'
    BY <1>1, <1>2 DEF IInv, TypeInv, TypeOK
  <1>4. LocalsOK' /\ TokensOK'
    BY <1>1, <1>2 DEF IInv, TypeInv, TypeOK, LocalsOK, TokensOK
  <1>5. ApprovalRecorded'
    BY <1>1, <1>2 DEF IInv, TypeInv, TypeOK, ApprovalRecorded,
       ApprovedByAnother
  <1>6. DecidersDiffer'
    BY <1>1, <1>2 DEF IInv, TypeInv, TypeOK, DecidersDiffer
  <1>7. DecryptLocked'
    BY <1>1, <1>2 DEF IInv, TypeInv, TypeOK, DecryptLocked, TokenOpen
  <1>8. TwoPersonRule' /\ TokenViewedOnce' /\ IssuedHasOpenToken'
    BY <1>2 DEF IInv, TwoPersonRule, ApprovedByAnother, TokenViewedOnce,
       IssuedHasOpenToken
  <1>9. QED
    BY <1>3, <1>4, <1>5, <1>6, <1>7, <1>8 DEF IInv, TypeInv

(* The end of a transaction is felt by its own worker only.                *)
LEMMA EndFrame ==
    ASSUME IInv, NEW c \in Clients, EndTransaction(c)
    PROVE  /\ pc' \in [Clients -> Labels] /\ loc' \in [Clients -> Locals]
           /\ rowLock' \in [Requests -> Clients \cup {None}]
           /\ pc'[c] = "idle"
           /\ \A d \in Clients : d # c =>
                pc'[d] = pc[d] /\ loc'[d] = loc[d]
           /\ \A r \in Requests, d \in Clients :
                d # c /\ rowLock[r] = d => rowLock'[r] = d
  <1>1. NoLocals \in Locals
    BY DEF NoLocals, Locals
  <1>2. QED
    BY <1>1, ActorsAssumption
       DEF EndTransaction, IInv, TypeInv, TypeOK, Labels

LEMMA RollbackKeeps ==
    ASSUME IInv, NEW c \in Clients, EndTransaction(c),
           UNCHANGED <<reqVars, tokVars, logVars>>
    PROVE  IInv'
  <1>1. TypeOK'
    BY EndFrame DEF IInv, TypeInv, TypeOK
  <1>2. LocalsOK' /\ TokensOK'
    BY EndFrame DEF IInv, TypeInv, LocalsOK, TokensOK
  <1>3. ApprovalRecorded'
    BY EndFrame DEF IInv, ApprovalRecorded, ApprovedByAnother
  <1>4. DecidersDiffer'
    BY EndFrame DEF IInv, DecidersDiffer
  <1>5. DecryptLocked'
    BY EndFrame DEF IInv, TypeInv, LocalsOK, DecryptLocked, TokenOpen
  <1>6. TwoPersonRule' /\ TokenViewedOnce' /\ IssuedHasOpenToken'
    BY DEF IInv, TwoPersonRule, ApprovedByAnother, TokenViewedOnce,
       IssuedHasOpenToken
  <1>7. QED
    BY <1>1, <1>2, <1>3, <1>4, <1>5, <1>6 DEF IInv, TypeInv

-----------------------------------------------------------------------------
(* Steps that write.                                                       *)

(* What every committing write of worker c has in common: it moves the     *)
(* status of the request it was about, whose row nobody else has locked,   *)
(* and adds to the audit log.                                              *)
Writes(c, s) ==
    /\ pc[c] # "idle"
    /\ rowLock[loc[c].req] \in {None, c}
    /\ status' = [status EXCEPT ![loc[c].req] = s]
    /\ audit \subseteq audit'
    /\ UNCHANGED <<kind, author, text>>
    /\ EndTransaction(c)

LEMMA WriteKeeps ==
    ASSUME IInv, NEW c \in Clients, NEW s \in Statuses \ {"absent"},
           NEW r0 \in Requests, r0 = loc[c].req, Writes(c, s),
           TypeOK', TokensOK',
           \A e \in audit' : e \in audit \/ e.req = r0,
           \A t \in Tokens : tokReq[t] # None => tokReq'[t] = tokReq[t],
           s \in Past => ApprovedByAnother(r0)',
           \A t \in Tokens : /\ tokReq[t] # None
                             /\ tokReq[t] # r0
                             => tokState'[t] = tokState[t]
    PROVE  /\ TypeInv' /\ ApprovalRecorded' /\ DecidersDiffer'
           /\ DecryptLocked'
  <1>t. /\ TypeOK /\ LocalsOK /\ TokensOK
        /\ status \in [Requests -> Statuses]
    BY DEF IInv, TypeInv, LocalsOK, TypeOK, Writes
  <1>1. /\ status'[r0] = s
        /\ \A r \in Requests : r # r0 => status'[r] = status[r]
    BY <1>t DEF Writes
  <1>2. \A r : ApprovedByAnother(r) => ApprovedByAnother(r)'
    BY DEF Writes, ApprovedByAnother
  <1>f. /\ pc'[c] = "idle"
        /\ \A d \in Clients : d # c => pc'[d] = pc[d] /\ loc'[d] = loc[d]
        /\ \A r \in Requests, d \in Clients :
             d # c /\ rowLock[r] = d => rowLock'[r] = d
    BY EndFrame DEF Writes
  <1>3. LocalsOK'
    BY <1>f, <1>t, ActorsAssumption DEF LocalsOK
  <1>4. \A e \in audit' : e.req \in Requests
    BY DEF TypeOK, Events
  <1>5. ApprovalRecorded'
    <2>1. \A r \in Requests : status'[r] \in Past => ApprovedByAnother(r)'
      BY <1>1, <1>2 DEF IInv, ApprovalRecorded
    <2>2. ASSUME NEW d \in Clients, pc'[d] \in {"activate", "issue"}
          PROVE  ApprovedByAnother(loc[d].req)'
      <3>1. ApprovedByAnother(loc[d].req) /\ loc'[d] = loc[d]
        BY <1>f, <2>2 DEF IInv, ApprovalRecorded
      <3>2. QED
        BY <3>1 DEF ApprovedByAnother, Writes
    <2>3. \A e \in audit' : status'[e.req] # "absent"
      BY <1>1, <1>4 DEF IInv, ApprovalRecorded
    <2>4. QED
      BY <2>1, <2>2, <2>3 DEF ApprovalRecorded
  <1>6. DecidersDiffer'
    BY <1>1, <1>f, <1>t DEF IInv, DecidersDiffer, LocalsOK, Writes
  <1>7. DecryptLocked'
    <2> SUFFICES ASSUME NEW d \in Clients, pc'[d] = "decrypt"
                 PROVE  rowLock'[loc'[d].req] = d /\ TokenOpen(d)'
      BY DEF DecryptLocked
    <2>1. d # c /\ pc[d] = "decrypt" /\ loc'[d] = loc[d]
      BY <1>f
    <2>2. /\ rowLock[loc[d].req] = d /\ TokenOpen(d)
          /\ loc[d].req \in Requests /\ loc[d].tok \in Tokens
          /\ tokReq[loc[d].tok] = loc[d].req
      BY <1>t, <2>1 DEF IInv, DecryptLocked, LocalsOK
    <2>3. loc[d].req # r0
      BY <2>1, <2>2, ActorsAssumption DEF Writes
    <2>4. tokReq[loc[d].tok] # None
      BY <2>2, ActorsAssumption
    <2>5. QED
      BY <1>1, <1>f, <2>1, <2>2, <2>3, <2>4 DEF TokenOpen
  <1>8. QED
    BY <1>3, <1>5, <1>6, <1>7 DEF TypeInv

(* A write that leaves the tokens alone and does not promise one.          *)
LEMMA PlainWrite ==
    ASSUME IInv, NEW c \in Clients, NEW r0 \in Requests, r0 = loc[c].req,
           NEW s \in {"approved", "rejected", "activated"}, Writes(c, s),
           audit' = audit \cup
             {[event |-> s, req |-> loc[c].req, actor |-> loc[c].actor]},
           decider' \in [Requests -> Actors \cup {None}],
           reason' \in [Requests -> Actors \cup {None}],
           UNCHANGED <<tokVars, views>>,
           s = "approved" => loc[c].actor # author[loc[c].req],
           s = "activated" => ApprovedByAnother(r0)
    PROVE  IInv'
  <1> DEFINE ev == [event |-> s, req |-> loc[c].req, actor |-> loc[c].actor]
  <1>1. /\ loc[c].req \in Requests /\ loc[c].actor \in Actors
        /\ s \in Statuses \ {"absent"}
    BY DEF IInv, TypeInv, LocalsOK, Writes, Statuses
  <1>2. /\ ev \in Events /\ ev.event = s /\ ev.req = loc[c].req
        /\ ev.actor = loc[c].actor
    BY <1>1 DEF Events
  <1> HIDE DEF ev
  <1>3. audit' = audit \cup {ev}
    BY DEF ev
  <1>4. TypeOK'
    <2>1. status' \in [Requests -> Statuses]
      BY <1>1 DEF IInv, TypeInv, TypeOK, Writes
    <2>2. audit' \subseteq Events
      BY <1>2, <1>3 DEF IInv, TypeInv, TypeOK
    <2>3. QED
      BY <2>1, <2>2, EndFrame DEF IInv, TypeInv, TypeOK, Writes
  <1>5. TokensOK'
    BY <1>1 DEF IInv, TypeInv, TypeOK, TokensOK, LocalsOK, Writes,
       DecidersDiffer
  <1>6. s \in Past => ApprovedByAnother(r0)'
    BY <1>2, <1>3 DEF ApprovedByAnother, Past, Writes
  <1>7. /\ TypeInv' /\ ApprovalRecorded' /\ DecidersDiffer'
        /\ DecryptLocked'
    BY <1>1, <1>2, <1>3, <1>4, <1>5, <1>6, WriteKeeps
  <1>8. TwoPersonRule'
    BY <1>2, <1>3 DEF IInv, TwoPersonRule, ApprovedByAnother, Writes
  <1>9. TokenViewedOnce'
    BY DEF IInv, TokenViewedOnce
  <1>10. IssuedHasOpenToken'
    BY <1>1 DEF IInv, TypeInv, TypeOK, IssuedHasOpenToken, Writes
  <1>11. QED
    BY <1>7, <1>8, <1>9, <1>10 DEF IInv

(* The end of a token: a view or its expiry.                               *)
LEMMA CloseKeeps ==
    ASSUME IInv, NEW c \in Clients, NEW r0 \in Requests, r0 = loc[c].req,
           NEW t0 \in Tokens, t0 = loc[c].tok,
           NEW s \in {"viewed", "expired"}, Writes(c, s),
           tokReq[t0] = r0, TokenOpen(c),
           tokState' = [tokState EXCEPT ![t0] = s],
           views' = IF s = "viewed" THEN [views EXCEPT ![t0] = @ + 1]
                                    ELSE views,
           UNCHANGED <<decider, reason, tokReq, tokLate, audit>>
    PROVE  IInv'
  <1>1. s \in Statuses \ {"absent"} /\ tokState[t0] = "unused"
    BY DEF Statuses, TokenOpen
  <1>2. /\ status' \in [Requests -> Statuses] /\ views' \in [Tokens -> Nat]
        /\ tokState' \in [Tokens -> {"absent", "unused", "viewed", "expired"}]
    <2>1. status' \in [Requests -> Statuses]
      BY <1>1 DEF IInv, TypeInv, TypeOK, Writes
    <2>2. views' \in [Tokens -> Nat]
      BY DEF IInv, TypeInv, TypeOK
    <2>3. QED
      BY <2>1, <2>2 DEF IInv, TypeInv, TypeOK
  <1>3. TypeOK'
    BY <1>2, EndFrame DEF IInv, TypeInv, TypeOK, Writes
  <1>4. TokensOK'
    BY <1>1, ActorsAssumption DEF IInv, TypeInv, TypeOK, TokensOK, Writes,
       DecidersDiffer
  <1>5. status[r0] = "token_issued"
    BY DEF TokenOpen
  <1>6. ApprovedByAnother(r0)'
    BY <1>5 DEF IInv, ApprovalRecorded, Past, ApprovedByAnother, Writes
  <1>7. \A t \in Tokens : tokReq[t] # r0 => tokState'[t] = tokState[t]
    BY DEF IInv, TypeInv, TypeOK
  <1>8. /\ TypeInv' /\ ApprovalRecorded' /\ DecidersDiffer'
        /\ DecryptLocked'
    BY <1>1, <1>3, <1>4, <1>6, <1>7, WriteKeeps
  <1>9. TwoPersonRule'
    BY DEF IInv, TwoPersonRule, ApprovedByAnother, Writes
  <1>10. TokenViewedOnce'
    <2> SUFFICES ASSUME NEW t \in Tokens
                 PROVE  /\ views'[t] <= 1
                        /\ views'[t] = 1 <=> tokState'[t] = "viewed"
      BY DEF TokenViewedOnce
    <2>1. views[t] \in Nat /\ views[t] <= 1
          /\ (views[t] = 1 <=> tokState[t] = "viewed")
      BY DEF IInv, TypeInv, TypeOK, TokenViewedOnce
    <2>2. CASE t # t0
      BY <2>1, <2>2 DEF IInv, TypeInv, TypeOK
    <2>3. CASE t = t0
      <3>1. views[t] = 0 /\ tokState'[t] = s
        BY <1>1, <2>1, <2>3 DEF IInv, TypeInv, TypeOK
      <3>2. views'[t] = IF s = "viewed" THEN 1 ELSE 0
        BY <2>3, <3>1 DEF IInv, TypeInv, TypeOK
      <3>3. QED
        BY <3>1, <3>2
    <2>4. QED
      BY <2>2, <2>3
  <1>11. IssuedHasOpenToken'
    BY <1>1, <1>7 DEF IInv, TypeInv, TypeOK, IssuedHasOpenToken, Writes
  <1>12. QED
    BY <1>8, <1>9, <1>10, <1>11 DEF IInv

LEMMA IssueKeeps ==
    ASSUME IInv, NEW c \in Clients, issue_raw_query_view_token(c)
    PROVE  IInv'
  <1> DEFINE r0 == loc[c].req
  <1>1. r0 \in Requests
    BY DEF issue_raw_query_view_token, IInv, TypeInv, LocalsOK
  <1>2. PICK t \in Tokens :
          /\ tokState[t] = "absent"
          /\ tokReq' = [tokReq EXCEPT ![t] = r0]
          /\ tokState' = [tokState EXCEPT ![t] = "unused"]
    BY DEF issue_raw_query_view_token
  <1>3. Writes(c, "token_issued") /\ audit' = audit
    BY DEF issue_raw_query_view_token, Writable, Writes
  <1>4. ApprovedByAnother(r0) /\ tokReq[t] = None
    BY <1>2 DEF issue_raw_query_view_token, IInv, ApprovalRecorded, TypeInv,
       TokensOK
  <1>5. PICK r \in Requests : r = r0
    BY <1>1
  <1> HIDE DEF r0
  <1>6. ApprovedByAnother(r)'
    BY <1>3, <1>4, <1>5 DEF ApprovedByAnother, Writes
  <1>7. "token_issued" \in Statuses \ {"absent"}
    BY DEF Statuses
  <1>8. TypeOK'
    <2>1. status' \in [Requests -> Statuses]
      BY <1>3, <1>7 DEF IInv, TypeInv, TypeOK, Writes
    <2>2. /\ tokReq' \in [Tokens -> Requests \cup {None}]
          /\ tokState' \in
               [Tokens -> {"absent", "unused", "viewed", "expired"}]
      BY <1>1, <1>2 DEF IInv, TypeInv, TypeOK
    <2>3. UNCHANGED <<kind, author, decider, reason, tokLate, logVars>>
      BY DEF issue_raw_query_view_token
    <2>4. QED
      BY <1>3, <2>1, <2>2, <2>3, EndFrame DEF IInv, TypeInv, TypeOK, Writes
  <1>9. TokensOK'
    BY <1>1, <1>2, <1>3, ActorsAssumption DEF r0, IInv, TypeInv, TypeOK,
       TokensOK, Writes, DecidersDiffer
  <1>10. \A u \in Tokens : tokReq[u] # None =>
           tokReq'[u] = tokReq[u] /\ tokState'[u] = tokState[u]
    BY <1>2, <1>4 DEF IInv, TypeInv, TypeOK
  <1>11. /\ TypeInv' /\ ApprovalRecorded' /\ DecidersDiffer'
         /\ DecryptLocked'
    BY <1>3, <1>5, <1>6, <1>7, <1>8, <1>9, <1>10, WriteKeeps DEF r0
  <1>12. TwoPersonRule'
    <2>1. \A u \in Tokens : u # t => tokReq'[u] = tokReq[u]
      BY <1>2 DEF IInv, TypeInv, TypeOK
    <2>2. tokReq'[t] = r
      BY <1>2, <1>5 DEF IInv, TypeInv, TypeOK
    <2>3. QED
      BY <1>3, <1>6, <2>1, <2>2
         DEF IInv, TwoPersonRule, ApprovedByAnother, Writes
  <1>13. TokenViewedOnce'
    BY <1>2 DEF issue_raw_query_view_token, IInv, TypeInv, TypeOK,
       TokenViewedOnce
  <1>14. IssuedHasOpenToken'
    <2>1. tokReq'[t] = r0 /\ tokState'[t] = "unused"
      BY <1>2 DEF IInv, TypeInv, TypeOK
    <2>2. \A q \in Requests : q # r0 => status'[q] = status[q]
      BY <1>3 DEF r0, Writes, IInv, TypeInv, TypeOK
    <2>3. QED
      BY <1>2, <1>10, <2>1, <2>2, ActorsAssumption
         DEF IInv, IssuedHasOpenToken
  <1>15. QED
    BY <1>11, <1>12, <1>13, <1>14 DEF IInv

(* Once the rows are locked nobody else writes them.                       *)
LEMMA ConsumeKeeps ==
    ASSUME IInv, NEW c \in Clients, consume_raw_query_view_token(c)
    PROVE  IInv'
  <1>1. /\ pc[c] = "consume" /\ loc[c].req \in Requests /\ TokenOpen(c)
        /\ rowLock[loc[c].req] = None
        /\ rowLock' = [rowLock EXCEPT ![loc[c].req] = c]
        /\ pc' = [pc EXCEPT ![c] = "decrypt"]
        /\ UNCHANGED <<reqVars, tokVars, logVars, loc>>
    BY DEF consume_raw_query_view_token, Writable, IInv, TypeInv, LocalsOK
  <1>2. TypeInv'
    BY <1>1 DEF IInv, TypeInv, TypeOK, LocalsOK, TokensOK, Labels
  <1>3. ApprovalRecorded'
    BY <1>1 DEF IInv, TypeInv, TypeOK, ApprovalRecorded, ApprovedByAnother
  <1>4. DecidersDiffer'
    BY <1>1 DEF IInv, TypeInv, TypeOK, DecidersDiffer
  <1>5. DecryptLocked'
    BY <1>1, ActorsAssumption DEF IInv, TypeInv, TypeOK, DecryptLocked,
       TokenOpen, LocalsOK
  <1>6. TwoPersonRule' /\ TokenViewedOnce' /\ IssuedHasOpenToken'
    BY <1>1 DEF IInv, TwoPersonRule, ApprovedByAnother, TokenViewedOnce,
       IssuedHasOpenToken
  <1>7. QED
    BY <1>2, <1>3, <1>4, <1>5, <1>6 DEF IInv

LEMMA CreateKeeps ==
    ASSUME IInv, NEW r \in Requests, NEW a \in Actors, NEW k \in Kinds,
           create_governed_action_request(r, a, k)
    PROVE  IInv'
  <1>1. /\ status[r] = "absent"
        /\ kind' = [kind EXCEPT ![r] = k]
        /\ status' = [status EXCEPT ![r] = "pending"]
        /\ author' = [author EXCEPT ![r] = a]
        /\ UNCHANGED <<decider, reason, tokVars, logVars, rowLock, pc, loc>>
    BY DEF create_governed_action_request
  <1>2. TypeInv'
    BY <1>1 DEF IInv, TypeInv, TypeOK, LocalsOK, TokensOK, Statuses
  <1>3. /\ \A e \in audit : e.req # r /\ e.req \in Requests
        /\ \A q \in Requests : q # r =>
             author'[q] = author[q] /\ status'[q] = status[q]
    BY <1>1 DEF IInv, ApprovalRecorded, TypeInv, TypeOK, Events
  <1>4. \A q : ApprovedByAnother(q) => q # r /\ ApprovedByAnother(q)'
    BY <1>1, <1>3 DEF ApprovedByAnother
  <1>5. ApprovalRecorded'
    <2>1. \A q \in Requests : status'[q] \in Past => ApprovedByAnother(q)'
      BY <1>1, <1>3, <1>4 DEF IInv, TypeInv, TypeOK, ApprovalRecorded, Past
    <2>2. ASSUME NEW d \in Clients, pc'[d] \in {"activate", "issue"}
          PROVE  ApprovedByAnother(loc[d].req)'
      <3>1. ApprovedByAnother(loc[d].req) /\ loc' = loc
        BY <1>1, <2>2 DEF IInv, ApprovalRecorded
      <3>2. QED
        BY <1>1, <1>3, <3>1 DEF ApprovedByAnother
    <2>3. \A e \in audit' : status'[e.req] # "absent"
      BY <1>1, <1>3 DEF IInv, ApprovalRecorded
    <2>4. QED
      BY <2>1, <2>2, <2>3 DEF ApprovalRecorded
  <1>6. DecidersDiffer'
    BY <1>1, <1>3 DEF IInv, DecidersDiffer, TypeInv, LocalsOK
  <1>7. DecryptLocked'
    BY <1>1, <1>3 DEF IInv, DecryptLocked, TokenOpen, TypeInv, LocalsOK
  <1>8. TwoPersonRule'
    BY <1>1, <1>3 DEF IInv, TwoPersonRule, ApprovedByAnother
  <1>9. TokenViewedOnce' /\ IssuedHasOpenToken'
    BY <1>1, <1>3 DEF IInv, TypeInv, TypeOK, TokenViewedOnce,
       IssuedHasOpenToken
  <1>10. QED
    BY <1>2, <1>5, <1>6, <1>7, <1>8, <1>9 DEF IInv

(* The retention job and the clock.                                        *)
LEMMA EnvironmentKeeps ==
    ASSUME IInv,
           \/ \E r \in Requests : redact_runtime_raw_query(r)
           \/ \E t \in Tokens : token_lifetime_ends(t)
    PROVE  IInv'
  <1>1. /\ UNCHANGED <<reqVars, tokReq, tokState, audit, views, rowLock, pc,
                       loc>>
        /\ tokLate' \in [Tokens -> BOOLEAN]
        /\ text' \in [Requests -> {"present", "redacted"}]
    BY DEF redact_runtime_raw_query, token_lifetime_ends, IInv, TypeInv,
       TypeOK
  <1>2. TypeInv'
    BY <1>1 DEF IInv, TypeInv, TypeOK, LocalsOK, TokensOK
  <1>3. ApprovalRecorded' /\ DecidersDiffer' /\ DecryptLocked'
    BY <1>1 DEF IInv, ApprovalRecorded, ApprovedByAnother, DecidersDiffer,
       DecryptLocked, TokenOpen
  <1>4. TwoPersonRule' /\ TokenViewedOnce' /\ IssuedHasOpenToken'
    BY <1>1 DEF IInv, TwoPersonRule, ApprovedByAnother, TokenViewedOnce,
       IssuedHasOpenToken
  <1>5. QED
    BY <1>2, <1>3, <1>4 DEF IInv

-----------------------------------------------------------------------------
LEMMA DecisionKeeps ==
    ASSUME IInv, NEW c \in Clients, DecisionStep(c) \/ PublishStep(c)
    PROVE  IInv'
  <1>1. ASSUME NEW label \in {"approve", "reject"}, begin_decide(c, label)
        PROVE  IInv'
    <2>1. PICK r \in Requests, a \in Actors :
            MayDecide(r, a) /\ Begin(c, label, r, a, None, FALSE)
      BY <1>1 DEF begin_decide
    <2>2. label \in Labels \ {"idle", "decrypt"}
      BY DEF Labels
    <2>3. QED
      BY <2>1, <2>2, BeginKeeps DEF MayDecide
  <1>2. CASE approve_governed_action_request(c)
    <2>1. /\ loc[c].req \in Requests /\ loc[c].actor \in Actors
          /\ loc[c].actor # author[loc[c].req]
      BY <1>2 DEF approve_governed_action_request, IInv, TypeInv, LocalsOK,
         DecidersDiffer
    <2>2. /\ decider' \in [Requests -> Actors \cup {None}]
          /\ reason' \in [Requests -> Actors \cup {None}]
      BY <1>2, <2>1 DEF approve_governed_action_request, IInv, TypeInv,
         TypeOK
    <2>3. Writes(c, "approved")
      BY <1>2 DEF approve_governed_action_request, Writes, Writable, Record
    <2>4. QED
      BY <1>2, <2>1, <2>2, <2>3, PlainWrite
         DEF approve_governed_action_request, Record
  <1>3. CASE reject_governed_action_request(c)
    <2>1. loc[c].req \in Requests /\ loc[c].actor \in Actors
      BY <1>3 DEF reject_governed_action_request, IInv, TypeInv, LocalsOK
    <2>2. /\ decider' \in [Requests -> Actors \cup {None}]
          /\ reason' \in [Requests -> Actors \cup {None}]
      BY <1>3, <2>1 DEF reject_governed_action_request, IInv, TypeInv,
         TypeOK
    <2>3. Writes(c, "rejected")
      BY <1>3 DEF reject_governed_action_request, Writes, Writable, Record
    <2>4. QED
      BY <1>3, <2>1, <2>2, <2>3, PlainWrite
         DEF reject_governed_action_request, Record
  <1>4. CASE begin_activate_publish_request(c)
    <2>1. PICK r \in Requests, a \in Actors :
            status[r] = "approved" /\ Begin(c, "activate", r, a, None, FALSE)
      BY <1>4 DEF begin_activate_publish_request
    <2>2. ApprovedByAnother(r)
      BY <2>1 DEF IInv, ApprovalRecorded, Past
    <2>3. "activate" \in Labels \ {"idle", "decrypt"}
      BY DEF Labels
    <2>4. QED
      BY <2>1, <2>2, <2>3, BeginKeeps
  <1>5. CASE activate_publish_request(c)
    <2>1. loc[c].req \in Requests /\ ApprovedByAnother(loc[c].req)
      BY <1>5 DEF activate_publish_request, IInv, TypeInv, LocalsOK,
         ApprovalRecorded
    <2>2. Writes(c, "activated")
      BY <1>5 DEF activate_publish_request, Writes, Writable, Record
    <2>3. QED
      BY <1>5, <2>1, <2>2, PlainWrite DEF activate_publish_request, Record,
         IInv, TypeInv, TypeOK
  <1>6. QED
    BY <1>1, <1>2, <1>3, <1>4, <1>5 DEF DecisionStep, PublishStep

LEMMA TokenStepKeeps ==
    ASSUME IInv, NEW c \in Clients, TokenStep(c)
    PROVE  IInv'
  <1>1. CASE begin_issue_raw_query_view_token(c)
    <2>1. PICK r \in Requests, a \in Actors :
            status[r] = "approved" /\ Begin(c, "issue", r, a, None, FALSE)
      BY <1>1 DEF begin_issue_raw_query_view_token
    <2>2. ApprovedByAnother(r)
      BY <2>1 DEF IInv, ApprovalRecorded, Past
    <2>3. "issue" \in Labels \ {"idle", "decrypt"}
      BY DEF Labels
    <2>4. QED
      BY <2>1, <2>2, <2>3, BeginKeeps
  <1>2. CASE begin_decrypt_raw_runtime_query(c)
    <2>1. PICK t \in Tokens, a \in Actors :
            /\ tokState[t] # "absent"
            /\ Begin(c, "consume", tokReq[t], a, t, tokLate[t])
      BY <1>2 DEF begin_decrypt_raw_runtime_query
    <2>2. tokReq[t] \in Requests /\ tokLate[t] \in BOOLEAN
      BY <2>1 DEF IInv, TypeInv, TypeOK, TokensOK
    <2>3. PICK e \in audit : e.event = "approved" /\ e.req = tokReq[t]
      BY <2>2, ActorsAssumption DEF IInv, TwoPersonRule, ApprovedByAnother
    <2>4. status[tokReq[t]] # "absent"
      BY <2>3 DEF IInv, ApprovalRecorded
    <2>5. "consume" \in Labels \ {"idle", "decrypt"}
      BY DEF Labels
    <2>6. QED
      BY <2>1, <2>2, <2>4, <2>5, BeginKeeps
  <1>3. CASE expire_raw_query_view_token(c)
    <2>1. /\ loc[c].req \in Requests /\ loc[c].tok \in Tokens
          /\ tokReq[loc[c].tok] = loc[c].req
      BY <1>3 DEF expire_raw_query_view_token, IInv, TypeInv, LocalsOK
    <2>2. Writes(c, "expired")
      BY <1>3 DEF expire_raw_query_view_token, Writes, Writable
    <2>3. QED
      BY <1>3, <2>1, <2>2, CloseKeeps DEF expire_raw_query_view_token
  <1>4. CASE decrypt_raw_runtime_query(c)
    <2>1. /\ loc[c].req \in Requests /\ loc[c].tok \in Tokens
          /\ tokReq[loc[c].tok] = loc[c].req /\ TokenOpen(c)
          /\ rowLock[loc[c].req] = c
      BY <1>4 DEF decrypt_raw_runtime_query, IInv, TypeInv, LocalsOK,
         DecryptLocked
    <2>2. Writes(c, "viewed")
      BY <1>4, <2>1 DEF decrypt_raw_runtime_query, Writes
    <2>3. QED
      BY <1>4, <2>1, <2>2, CloseKeeps DEF decrypt_raw_runtime_query
  <1>5. CASE deny_raw_query_view_token(c) \/ fail_decrypt(c)
    BY <1>5, RollbackKeeps DEF deny_raw_query_view_token, fail_decrypt
  <1>6. QED
    BY <1>1, <1>2, <1>3, <1>4, <1>5, IssueKeeps, ConsumeKeeps DEF TokenStep

LEMMA InvStep == IInv /\ [Next]_vars => IInv'
  <1> SUFFICES ASSUME IInv, [Next]_vars PROVE IInv'
    OBVIOUS
  <1>1. CASE UNCHANGED vars
    BY <1>1 DEF vars, IInv, TypeInv, TypeOK, LocalsOK, TokensOK,
       ApprovalRecorded, ApprovedByAnother, DecidersDiffer, DecryptLocked,
       TokenOpen, TwoPersonRule, TokenViewedOnce, IssuedHasOpenToken
  <1>2. ASSUME NEW c \in Clients, crash(c) PROVE IInv'
    BY <1>2, RollbackKeeps DEF crash
  <1>3. CASE Next
    BY <1>2, <1>3, CreateKeeps, EnvironmentKeeps, DecisionKeeps,
       TokenStepKeeps DEF Next
  <1>4. QED
    BY <1>1, <1>3

LEMMA InvAlways == Spec => []IInv
  BY InitInv, InvStep, PTL DEF Spec

(* Every state of the approval tables and of the handlers is well typed.   *)
THEOREM TypeCorrect == Spec => []TypeOK
  <1>1. IInv => TypeOK
    BY DEF IInv, TypeInv
  <1>2. QED
    BY <1>1, InvAlways, PTL

(* No activation and no token without the approval of a second person,     *)
(* although approvals, rejections and their uses overwrite each other.     *)
THEOREM TwoPersons == Spec => []TwoPersonRule
  <1>1. IInv => TwoPersonRule
    BY DEF IInv
  <1>2. QED
    BY <1>1, InvAlways, PTL

(* SELECT ... FOR UPDATE serialises the decrypt calls: a token shows the   *)
(* text at most once.                                                      *)
THEOREM TokensAreSingleUse == Spec => []TokenViewedOnce
  <1>1. IInv => TokenViewedOnce
    BY DEF IInv
  <1>2. QED
    BY <1>1, InvAlways, PTL

(* A request whose status is token_issued can still be viewed.             *)
THEOREM IssuedTokensAreOpen == Spec => []IssuedHasOpenToken
  <1>1. IInv => IssuedHasOpenToken
    BY DEF IInv
  <1>2. QED
    BY <1>1, InvAlways, PTL

-----------------------------------------------------------------------------
(* What the rows say of a decision.                                        *)

(* Steps that decide nothing may move the status past the decision.        *)
LEMMA AuditedFrame ==
    ASSUME DecisionIsAudited, UNCHANGED <<decider, reason>>,
           audit \subseteq audit',
           \A r \in Requests : status'[r] \in {"approved", "rejected"} =>
               status'[r] = status[r]
    PROVE  DecisionIsAudited'
  BY DEF DecisionIsAudited, Decided

(* A decision writes its decider, and a rejection its reason, whoever      *)
(* decided before.                                                         *)
LEMMA AuditedDecision ==
    ASSUME IInv, DecisionIsAudited, NEW c \in Clients,
           NEW s \in {"approved", "rejected"}, loc[c].req \in Requests,
           status' = [status EXCEPT ![loc[c].req] = s], Record(c, s),
           decider' = [decider EXCEPT ![loc[c].req] = loc[c].actor],
           \/ reason' = [reason EXCEPT ![loc[c].req] = loc[c].actor]
           \/ s = "approved" /\ reason' = reason
    PROVE  DecisionIsAudited'
  <1>t. /\ status \in [Requests -> Statuses]
        /\ decider \in [Requests -> Actors \cup {None}]
        /\ reason \in [Requests -> Actors \cup {None}]
    BY DEF IInv, TypeInv, TypeOK
  <1>1. /\ audit \subseteq audit'
        /\ [event |-> s, req |-> loc[c].req, actor |-> loc[c].actor] \in audit'
    BY DEF Record
  <1> SUFFICES ASSUME NEW r \in Requests
               PROVE  /\ status'[r] \in {"approved", "rejected"} =>
                           Decided(status[r], r, decider[r])'
                      /\ status'[r] = "rejected" => reason'[r] = decider'[r]
                      /\ \A a \in {decider'[r], reason'[r]} \ {None} :
                           \/ Decided("approved", r, a)'
                           \/ Decided("rejected", r, a)'
    BY DEF DecisionIsAudited
  <1>2. CASE r # loc[c].req
    <2>1. /\ status'[r] = status[r] /\ decider'[r] = decider[r]
          /\ reason'[r] = reason[r]
      BY <1>t, <1>2
    <2>2. QED
      BY <1>1, <2>1 DEF DecisionIsAudited, Decided
  <1>3. CASE r = loc[c].req
    <2>1. /\ status'[r] = s /\ decider'[r] = loc[c].actor
          /\ \/ reason'[r] = loc[c].actor
             \/ s = "approved" /\ reason'[r] = reason[r]
      BY <1>t, <1>3
    <2>2. [event |-> s, req |-> r, actor |-> decider'[r]] \in audit'
      BY <1>1, <1>3, <2>1
    <2>3. \A a \in {reason[r]} \ {None} :
            Decided("approved", r, a)' \/ Decided("rejected", r, a)'
      BY <1>1 DEF DecisionIsAudited, Decided
    <2>4. \A a \in {decider'[r], reason'[r]} \ {None} :
            Decided("approved", r, a)' \/ Decided("rejected", r, a)'
      BY <2>1, <2>2, <2>3 DEF Decided
    <2>5. QED
      BY <2>1, <2>2, <2>4 DEF Decided
  <1>4. QED
    BY <1>2, <1>3

LEMMA AuditedStep ==
    IInv /\ DecisionIsAudited /\ [Next]_vars => DecisionIsAudited'
  <1> SUFFICES ASSUME IInv, DecisionIsAudited, [Next]_vars
               PROVE  DecisionIsAudited'
    OBVIOUS
  <1>t. /\ TypeOK /\ LocalsOK /\ status \in [Requests -> Statuses]
    BY DEF IInv, TypeInv, TypeOK
  <1>1. ASSUME UNCHANGED <<status, decider, reason>>, audit \subseteq audit'
        PROVE  DecisionIsAudited'
    BY <1>1, AuditedFrame
  <1>2. ASSUME NEW r, NEW s \in Statuses \ {"approved", "rejected"},
               status' = [status EXCEPT ![r] = s],
               UNCHANGED <<decider, reason>>, audit \subseteq audit'
        PROVE  DecisionIsAudited'
    <2>1. \A q \in Requests : status'[q] \in {"approved", "rejected"} =>
            status'[q] = status[q]
      BY <1>2, <1>t
    <2>2. QED
      BY <1>2, <2>1, AuditedFrame
  <1>3. ASSUME NEW r \in Requests, NEW a \in Actors, NEW k \in Kinds,
               create_governed_action_request(r, a, k)
        PROVE  DecisionIsAudited'
    BY <1>2, <1>3 DEF create_governed_action_request, Statuses
  <1>4. ASSUME NEW c \in Clients, DecisionStep(c)
        PROVE  DecisionIsAudited'
    <2>1. CASE begin_decide(c, "approve") \/ begin_decide(c, "reject")
      BY <1>1, <2>1 DEF begin_decide, Begin
    <2>2. CASE approve_governed_action_request(c)
      <3>1. /\ loc[c].req \in Requests /\ Record(c, "approved")
            /\ status' = [status EXCEPT ![loc[c].req] = "approved"]
            /\ decider' = [decider EXCEPT ![loc[c].req] = loc[c].actor]
            /\ \/ reason' = [reason EXCEPT ![loc[c].req] = loc[c].actor]
               \/ reason' = reason
        BY <1>t, <2>2 DEF approve_governed_action_request, LocalsOK
      <3>2. QED
        BY <3>1, AuditedDecision
    <2>3. CASE reject_governed_action_request(c)
      <3>1. /\ loc[c].req \in Requests /\ Record(c, "rejected")
            /\ status' = [status EXCEPT ![loc[c].req] = "rejected"]
            /\ decider' = [decider EXCEPT ![loc[c].req] = loc[c].actor]
            /\ reason' = [reason EXCEPT ![loc[c].req] = loc[c].actor]
        BY <1>t, <2>3 DEF reject_governed_action_request, LocalsOK
      <3>2. QED
        BY <3>1, AuditedDecision
    <2>4. QED
      BY <1>4, <2>1, <2>2, <2>3 DEF DecisionStep
  <1>5. ASSUME NEW c \in Clients, PublishStep(c)
        PROVE  DecisionIsAudited'
    <2>1. CASE begin_activate_publish_request(c)
      BY <1>1, <2>1 DEF begin_activate_publish_request, Begin
    <2>2. CASE activate_publish_request(c)
      BY <1>2, <2>2 DEF activate_publish_request, Record, Statuses
    <2>3. QED
      BY <1>5, <2>1, <2>2 DEF PublishStep
  <1>6. ASSUME NEW c \in Clients, TokenStep(c) \/ crash(c)
        PROVE  DecisionIsAudited'
    <2>1. CASE begin_issue_raw_query_view_token(c)
      BY <1>1, <2>1 DEF begin_issue_raw_query_view_token, Begin
    <2>2. CASE begin_decrypt_raw_runtime_query(c)
      BY <1>1, <2>2 DEF begin_decrypt_raw_runtime_query, Begin
    <2>3. CASE issue_raw_query_view_token(c)
      BY <1>2, <2>3 DEF issue_raw_query_view_token, Statuses
    <2>4. CASE expire_raw_query_view_token(c)
      BY <1>2, <2>4 DEF expire_raw_query_view_token, Statuses
    <2>5. CASE decrypt_raw_runtime_query(c)
      BY <1>2, <2>5 DEF decrypt_raw_runtime_query, Statuses
    <2>6. CASE \/ consume_raw_query_view_token(c)
               \/ deny_raw_query_view_token(c)
               \/ fail_decrypt(c) \/ crash(c)
      BY <1>1, <2>6 DEF consume_raw_query_view_token, crash, fail_decrypt,
         deny_raw_query_view_token
    <2>7. QED
      BY <1>6, <2>1, <2>2, <2>3, <2>4, <2>5, <2>6 DEF TokenStep
  <1>7. CASE \/ \E r \in Requests : redact_runtime_raw_query(r)
             \/ \E t \in Tokens : token_lifetime_ends(t)
    BY <1>1, <1>7 DEF redact_runtime_raw_query, token_lifetime_ends
  <1>8. CASE UNCHANGED vars
    BY <1>1, <1>8 DEF vars
  <1>9. QED
    BY <1>3, <1>4, <1>5, <1>6, <1>7, <1>8 DEF Next

(* The row of a request tells a decision that somebody took, and a         *)
(* rejection is told whole, although overlapping decisions overwrite each  *)
(* other and later calls overwrite both.                                   *)
THEOREM DecisionsAreAudited == Spec => []DecisionIsAudited
  <1>1. Init => DecisionIsAudited
    BY DEF Init, DecisionIsAudited
  <1>2. QED
    BY <1>1, InvAlways, AuditedStep, PTL DEF Spec

-----------------------------------------------------------------------------
(* Calls that do not overlap implement the workflow of the contract.       *)

(* One call at a time works on a request.                                  *)
Exclusive ==
    \A c, d \in Clients :
        c # d /\ pc[c] # "idle" /\ pc[d] # "idle" => loc[c].req # loc[d].req

(* What a handler read is still so when it writes.                         *)
ReadStillTrue ==
    \A c \in Clients :
        /\ pc[c] \in {"approve", "reject"} => status[loc[c].req] = "pending"
        /\ pc[c] = "activate" => /\ status[loc[c].req] = "approved"
                                /\ kind[loc[c].req] = "publish"
        /\ pc[c] = "issue" => /\ status[loc[c].req] = "approved"
                             /\ kind[loc[c].req] = "raw_query"

RequestsOK ==
    \A r \in Requests :
        /\ status[r] = "token_issued" => kind[r] = "raw_query"
        /\ status[r] \in {"absent", "pending"} => reason[r] = None

SInv == IInv /\ Exclusive /\ ReadStillTrue /\ RequestsOK

(* A write of c moves one request, and no other handler works on it.       *)
LEMMA SerialWrite ==
    ASSUME SInv, IInv', NEW c \in Clients, NEW s, Writes(c, s),
           s \notin {"absent", "pending"},
           s = "token_issued" => kind[loc[c].req] = "raw_query",
           \A r \in Requests : r # loc[c].req => reason'[r] = reason[r]
    PROVE  ReadStillTrue' /\ RequestsOK'
  <1> DEFINE r0 == loc[c].req
  <1>1. /\ r0 \in Requests /\ status'[r0] = s /\ kind' = kind
        /\ \A r \in Requests : r # r0 => status'[r] = status[r]
    BY DEF SInv, IInv, TypeInv, TypeOK, LocalsOK, Writes
  <1>2. ASSUME NEW d \in Clients, pc'[d] # "idle"
        PROVE  /\ pc'[d] = pc[d] /\ loc'[d] = loc[d]
               /\ loc[d].req \in Requests /\ loc[d].req # r0
    BY <1>2, EndFrame DEF SInv, IInv, TypeInv, LocalsOK, Exclusive, Writes
  <1>3. ReadStillTrue'
    BY <1>1, <1>2 DEF SInv, ReadStillTrue
  <1>4. RequestsOK'
    BY <1>1 DEF SInv, RequestsOK
  <1>5. QED
    BY <1>3, <1>4

(* Reading, rolling back, redaction and the clock move no request.         *)
LEMMA SerialQuiet ==
    ASSUME SInv, UNCHANGED reqVars,
           \A d \in Clients :
               \/ pc'[d] \in {"idle", "consume", "decrypt"}
               \/ pc'[d] = pc[d] /\ loc'[d] = loc[d]
               \/ /\ pc'[d] \in {"approve", "reject"}
                  /\ status[loc'[d].req] = "pending"
               \/ /\ pc'[d] = "activate" /\ status[loc'[d].req] = "approved"
                  /\ kind[loc'[d].req] = "publish"
               \/ /\ pc'[d] = "issue" /\ status[loc'[d].req] = "approved"
                  /\ kind[loc'[d].req] = "raw_query"
    PROVE  ReadStillTrue' /\ RequestsOK'
  BY DEF SInv, ReadStillTrue, RequestsOK

Keeps == ReadStillTrue' /\ RequestsOK'
Moves == Workflow!Next \/ UNCHANGED Workflow!wfVars

LEMMA SerialDecision ==
    ASSUME SInv, IInv', NEW c \in Clients, DecisionStep(c) \/ PublishStep(c)
    PROVE  Keeps /\ Moves
  <1>t. TypeOK /\ LocalsOK /\ pc \in [Clients -> Labels]
        /\ loc \in [Clients -> Locals]
    BY DEF SInv, IInv, TypeInv, TypeOK
  <1>1. ASSUME NEW label, NEW r \in Requests, NEW a \in Actors,
               Begin(c, label, r, a, None, FALSE),
               \/ label \in {"approve", "reject"} /\ status[r] = "pending"
               \/ /\ label = "activate" /\ status[r] = "approved"
                  /\ kind[r] = "publish"
        PROVE  Keeps /\ Moves
    <2>1. /\ pc'[c] = label /\ loc'[c].req = r /\ UNCHANGED reqVars
          /\ \A d \in Clients : d # c => pc'[d] = pc[d] /\ loc'[d] = loc[d]
      BY <1>1, <1>t DEF Begin
    <2>2. Keeps
      BY <1>1, <2>1, SerialQuiet DEF Keeps
    <2>3. QED
      BY <2>1, <2>2 DEF Moves, Workflow!wfVars
  <1>2. CASE begin_decide(c, "approve") \/ begin_decide(c, "reject")
    BY <1>1, <1>2 DEF begin_decide, MayDecide
  <1>3. CASE begin_activate_publish_request(c)
    BY <1>1, <1>3 DEF begin_activate_publish_request
  <1>4. ASSUME NEW s \in {"approved", "rejected"},
               pc[c] \in {"approve", "reject"}, Writes(c, s),
               decider' = [decider EXCEPT ![loc[c].req] = loc[c].actor],
               \/ reason' = [reason EXCEPT ![loc[c].req] = loc[c].actor]
               \/ reason' = reason
        PROVE  Keeps /\ Moves
    <2>1. /\ loc[c].req \in Requests /\ loc[c].actor \in Actors
          /\ status[loc[c].req] = "pending"
          /\ loc[c].actor # author[loc[c].req]
      BY <1>4, <1>t DEF LocalsOK, SInv, IInv, DecidersDiffer, ReadStillTrue
    <2>2. \A r \in Requests : r # loc[c].req => reason'[r] = reason[r]
      BY <1>4, <1>t, <2>1 DEF TypeOK
    <2>3. Keeps
      BY <1>4, <2>2, SerialWrite DEF Keeps
    <2>4. Workflow!Decide(loc[c].req, loc[c].actor, s)
      BY <1>4, <2>1 DEF Workflow!Decide, Writes
    <2>5. QED
      BY <2>1, <2>3, <2>4 DEF Moves, Workflow!Next
  <1>5. CASE approve_governed_action_request(c)
    <2>1. Writes(c, "approved") /\ pc[c] = "approve"
      BY <1>5 DEF approve_governed_action_request, Writes, Writable, Record
    <2>2. QED
      BY <1>4, <1>5, <2>1 DEF approve_governed_action_request
  <1>6. CASE reject_governed_action_request(c)
    <2>1. Writes(c, "rejected") /\ pc[c] = "reject"
      BY <1>6 DEF reject_governed_action_request, Writes, Writable, Record
    <2>2. QED
      BY <1>4, <1>6, <2>1 DEF reject_governed_action_request
  <1>7. CASE activate_publish_request(c)
    <2>1. /\ Writes(c, "activated") /\ loc[c].req \in Requests
          /\ status[loc[c].req] = "approved"
          /\ kind[loc[c].req] = "publish"
          /\ UNCHANGED <<decider, reason>>
      BY <1>7, <1>t DEF activate_publish_request, Writes, Writable, Record,
         SInv, ReadStillTrue, LocalsOK
    <2>2. Keeps
      BY <2>1, SerialWrite DEF Keeps
    <2>3. Workflow!Spend(loc[c].req, "publish", "approved", "activated")
      BY <2>1 DEF Workflow!Spend, Writes
    <2>4. QED
      BY <2>1, <2>2, <2>3 DEF Moves, Workflow!Next
  <1>8. QED
    BY <1>2, <1>3, <1>5, <1>6, <1>7 DEF DecisionStep, PublishStep

LEMMA SerialToken ==
    ASSUME SInv, IInv', NEW c \in Clients, TokenStep(c) \/ crash(c)
    PROVE  Keeps /\ Moves
  <1>t. TypeOK /\ LocalsOK /\ IInv /\ pc \in [Clients -> Labels]
        /\ loc \in [Clients -> Locals]
    BY DEF SInv, IInv, TypeInv, TypeOK
  <1>1. CASE begin_issue_raw_query_view_token(c)
    <2>1. PICK r \in Requests, a \in Actors :
            /\ kind[r] = "raw_query" /\ status[r] = "approved"
            /\ Begin(c, "issue", r, a, None, FALSE)
      BY <1>1 DEF begin_issue_raw_query_view_token
    <2>2. /\ pc'[c] = "issue" /\ loc'[c].req = r /\ UNCHANGED reqVars
          /\ \A d \in Clients : d # c => pc'[d] = pc[d] /\ loc'[d] = loc[d]
      BY <2>1, <1>t DEF Begin
    <2>3. Keeps
      BY <2>1, <2>2, SerialQuiet DEF Keeps
    <2>4. QED
      BY <2>2, <2>3 DEF Moves, Workflow!wfVars
  <1>2. CASE begin_decrypt_raw_runtime_query(c)
    <2>1. /\ pc'[c] = "consume" /\ UNCHANGED reqVars
          /\ \A d \in Clients : d # c => pc'[d] = pc[d] /\ loc'[d] = loc[d]
      BY <1>2, <1>t DEF begin_decrypt_raw_runtime_query, Begin
    <2>2. Keeps
      BY <2>1, SerialQuiet DEF Keeps
    <2>3. QED
      BY <2>1, <2>2 DEF Moves, Workflow!wfVars
  <1>3. CASE consume_raw_query_view_token(c)
    <2>1. /\ pc'[c] = "decrypt" /\ UNCHANGED reqVars
          /\ \A d \in Clients : d # c => pc'[d] = pc[d] /\ loc'[d] = loc[d]
      BY <1>3, <1>t DEF consume_raw_query_view_token
    <2>2. Keeps
      BY <2>1, SerialQuiet DEF Keeps
    <2>3. QED
      BY <2>1, <2>2 DEF Moves, Workflow!wfVars
  <1>4. CASE deny_raw_query_view_token(c) \/ fail_decrypt(c) \/ crash(c)
    <2>1. EndTransaction(c) /\ UNCHANGED reqVars
      BY <1>4 DEF deny_raw_query_view_token, fail_decrypt, crash
    <2>2. /\ pc'[c] = "idle"
          /\ \A d \in Clients : d # c => pc'[d] = pc[d] /\ loc'[d] = loc[d]
      BY <1>t, <2>1, EndFrame
    <2>3. Keeps
      BY <2>1, <2>2, SerialQuiet DEF Keeps
    <2>4. QED
      BY <2>1, <2>3 DEF Moves, Workflow!wfVars
  <1>5. ASSUME NEW from, NEW s \in {"token_issued", "viewed", "expired"},
               Writes(c, s), loc[c].req \in Requests,
               status[loc[c].req] = from, kind[loc[c].req] = "raw_query",
               UNCHANGED <<decider, reason>>,
               IF s = "token_issued" THEN from = "approved"
                                     ELSE from = "token_issued"
        PROVE  Keeps /\ Moves
    <2>1. Keeps
      BY <1>5, SerialWrite DEF Keeps
    <2>2. Workflow!Spend(loc[c].req, "raw_query", from, s)
      BY <1>5 DEF Workflow!Spend, Writes
    <2>3. QED
      BY <1>5, <2>1, <2>2 DEF Moves, Workflow!Next
  <1>6. CASE issue_raw_query_view_token(c)
    <2>1. Writes(c, "token_issued")
      BY <1>6 DEF issue_raw_query_view_token, Writes, Writable
    <2>2. /\ loc[c].req \in Requests /\ status[loc[c].req] = "approved"
          /\ kind[loc[c].req] = "raw_query"
      BY <1>6, <1>t DEF issue_raw_query_view_token, LocalsOK, SInv,
         ReadStillTrue
    <2>3. QED
      BY <1>5, <1>6, <2>1, <2>2 DEF issue_raw_query_view_token
  <1>7. CASE expire_raw_query_view_token(c)
    <2>1. Writes(c, "expired")
      BY <1>7 DEF expire_raw_query_view_token, Writes, Writable
    <2>2. /\ loc[c].req \in Requests /\ status[loc[c].req] = "token_issued"
      BY <1>7, <1>t DEF expire_raw_query_view_token, LocalsOK, TokenOpen
    <2>3. kind[loc[c].req] = "raw_query"
      BY <2>2 DEF SInv, RequestsOK
    <2>4. QED
      BY <1>5, <1>7, <2>1, <2>2, <2>3 DEF expire_raw_query_view_token
  <1>8. CASE decrypt_raw_runtime_query(c)
    <2>1. /\ loc[c].req \in Requests /\ status[loc[c].req] = "token_issued"
          /\ rowLock[loc[c].req] = c
      BY <1>8, <1>t DEF decrypt_raw_runtime_query, LocalsOK, IInv,
         DecryptLocked, TokenOpen
    <2>2. Writes(c, "viewed")
      BY <1>8, <2>1 DEF decrypt_raw_runtime_query, Writes
    <2>3. kind[loc[c].req] = "raw_query"
      BY <2>1 DEF SInv, RequestsOK
    <2>4. QED
      BY <1>5, <1>8, <2>1, <2>2, <2>3 DEF decrypt_raw_runtime_query
  <1>9. QED
    BY <1>1, <1>2, <1>3, <1>4, <1>6, <1>7, <1>8 DEF TokenStep

LEMMA SerialCreate ==
    ASSUME SInv, IInv', NEW r \in Requests, NEW a \in Actors,
           NEW k \in Kinds, create_governed_action_request(r, a, k)
    PROVE  Keeps /\ Moves
  <1>1. /\ status[r] = "absent"
        /\ \A q \in Requests : q # r =>
             status'[q] = status[q] /\ kind'[q] = kind[q]
        /\ status'[r] = "pending"
        /\ UNCHANGED <<decider, reason, pc, loc>>
    BY DEF create_governed_action_request, SInv, IInv, TypeInv, TypeOK
  <1>2. \A d \in Clients : pc[d] # "idle" =>
          loc[d].req \in Requests /\ loc[d].req # r
    BY <1>1 DEF SInv, IInv, TypeInv, LocalsOK, DecidersDiffer
  <1>3. ReadStillTrue'
    BY <1>1, <1>2 DEF SInv, ReadStillTrue
  <1>4. RequestsOK'
    BY <1>1 DEF SInv, RequestsOK
  <1>5. Workflow!Ask(r, a, k)
    BY DEF create_governed_action_request, Workflow!Ask
  <1>6. QED
    BY <1>3, <1>4, <1>5 DEF Keeps, Moves, Workflow!Next, Kinds

LEMMA SerialStep ==
    ASSUME SInv, [SerialNext]_vars
    PROVE  SInv' /\ Moves
  <1>1. IInv'
    BY InvStep DEF SInv, SerialNext
  <1>2. Exclusive'
    BY DEF SInv, Exclusive, SerialNext, vars
  <1>3. CASE UNCHANGED vars
    <2>1. Keeps
      BY <1>3, SerialQuiet DEF vars, Keeps
    <2>2. Moves
      BY <1>3 DEF vars, Moves, Workflow!wfVars
    <2>3. QED
      BY <1>1, <1>2, <2>1, <2>2 DEF SInv, Keeps
  <1>4. ASSUME \/ \E r \in Requests : redact_runtime_raw_query(r)
               \/ \E t \in Tokens : token_lifetime_ends(t)
        PROVE  Keeps /\ Moves
    <2>1. UNCHANGED <<reqVars, pc, loc>>
      BY <1>4 DEF redact_runtime_raw_query, token_lifetime_ends
    <2>2. Keeps
      BY <2>1, SerialQuiet DEF Keeps
    <2>3. QED
      BY <2>1, <2>2 DEF Moves, Workflow!wfVars
  <1>5. CASE Next
    <2>1. Keeps /\ Moves
      BY <1>1, <1>4, <1>5, SerialCreate, SerialDecision, SerialToken DEF Next
    <2>2. QED
      BY <1>1, <1>2, <2>1 DEF SInv, Keeps
  <1>6. QED
    BY <1>3, <1>5 DEF SerialNext

LEMMA SerialInit == Init => SInv /\ Workflow!Init
  BY InitInv DEF Init, SInv, Exclusive, ReadStillTrue, RequestsOK,
     Workflow!Init

(* When calls about one request do not overlap, the handlers implement the *)
(* workflow of the API contract.                                           *)
THEOREM SerialImplementsWorkflow == SerialSpec => ImplementsWorkflow
  <1>1. SInv /\ [SerialNext]_vars => SInv'
    BY SerialStep
  <1>2. SInv /\ [SerialNext]_vars => [Workflow!Next]_(Workflow!wfVars)
    BY SerialStep DEF Moves
  <1>3. QED
    BY SerialInit, <1>1, <1>2, PTL
       DEF SerialSpec, ImplementsWorkflow, Workflow!Spec

=============================================================================
