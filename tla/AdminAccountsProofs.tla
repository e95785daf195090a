------------------------- MODULE AdminAccountsProofs -------------------------
(***************************************************************************)
(* Proofs about AdminAccounts, for any number of workers, accounts,        *)
(* departments, organization users and access requests.                    *)
(***************************************************************************)
EXTENDS AdminAccounts, FiniteSetTheorems, TLAPS

-----------------------------------------------------------------------------
(* The inductive invariant.                                                *)

ManagerOps == {"authed", "approve", "join", "patch_org", "close", "managed",
               "patch", "transfer"}

\* The arguments an open call must have for its last step.
Args(k) ==
    /\ k.op \in ManagerOps => k.actor \in Accounts
    /\ k.op \in {"bootstrap", "startup", "request", "managed"} => k.email \in Emails
    /\ k.op \in {"request", "join"} => k.number \in Numbers
    /\ k.op \in {"request", "join", "close"} => k.dept \in Depts
    /\ k.op \in {"patch_org", "managed"} => k.org \in Orgs
    /\ k.op \in {"patch", "transfer"} => k.acct \in Accounts
    /\ k.op = "approve" => k.req \in Requests
    /\ k.op = "patch_org" => k.value \in {None, "Y", "N"}
    /\ k.op = "managed" => k.value \in Statuses
    /\ k.op = "patch" => k.value \in Or(Statuses)
    /\ k.op = "transfer" => k.grant \subseteq {"application_admin"}

\* The row an open patch has read is still there: rows are never deleted.
Reads(k) ==
    /\ k.op = "patch_org" => org[k.org].use # "absent"
    /\ k.op = "patch" => acct[k.acct].status # "absent"

ArgsInv == \A c \in Clients : Args(call[c])
ReadsInv == \A c \in Clients : Reads(call[c])

\* The row lock keeps the request of an open approval pending.
LockInv ==
    /\ \A c \in Clients : call[c].op = "approve" => req[call[c].req].status = "pending"
    /\ \A b, c \in Clients :
         call[b].op = "approve" /\ call[c].op = "approve"
           /\ call[b].req = call[c].req => b = c

\* A request that was made is complete; an account that was not is nobody's.
RowsInv ==
    /\ \A r \in Requests : req[r].status # "absent" =>
          req[r].number \in Numbers /\ req[r].dept \in Depts /\ req[r].email \in Emails
    /\ \A a \in Accounts : acct[a].status = "absent" => acct[a].origin # "request"

AdminInv == \A a, b \in SystemAdmins : a = b

ApprovalInv ==
    /\ \A r \in Requests :
        /\ req[r].status = "approved" <=> req[r].acct # None
        /\ req[r].status = "approved" =>
              /\ acct[req[r].acct].origin = "request"
              /\ acct[req[r].acct].org = req[r].org
    /\ \A a \in Accounts :
        acct[a].origin = "request" => \E r \in Requests : req[r].acct = a
    /\ \A r, s \in Requests :
        req[r].acct # None /\ req[r].acct = req[s].acct => r = s

\* A department that a call saw open has not been closed behind its back,
\* or the race was noted.
Kept(d) == dept[d] # "N" \/ d \in raced

Joined(k) ==
    /\ k.op = "join" => Kept(k.dept)
    /\ k.op = "approve" => Kept(req[k.req].dept)
    /\ k.op = "patch_org" /\ k.dept # None => Kept(k.dept)
    /\ k.op = "patch_org" /\ k.dept = None /\ k.value = "Y" => Kept(org[k.org].dept)

\* One that a call is about to close is empty, or the race was noted.
Emptied(k) == k.op = "close" => ~ HasActiveUsers(k.dept) \/ k.dept \in raced

JoinInv ==
    /\ \A c \in Clients : Joined(call[c]) /\ Emptied(call[c])
    /\ \A b, c \in Clients :
         call[b].op \in Joins /\ call[c].op = "close" => call[c].dept \in raced

IInv ==
    /\ TypeOK
    /\ ArgsInv
    /\ ReadsInv
    /\ LockInv
    /\ RowsInv
    /\ AdminInv
    /\ ApprovalInv
    /\ JoinInv
    /\ DepartmentsCloseEmpty

USE DEF tables

-----------------------------------------------------------------------------
(* Values.                                                                 *)

LEMMA IdleType == Idle \in Call /\ Idle.op = "idle"
  BY DEF Idle, Call, Ops, Or

\* The operations, and the columns that may be NULL.
LEMMA CallValues ==
    /\ Ops = {"idle", "authed", "bootstrap", "startup", "request", "approve",
              "join", "patch_org", "close", "managed", "patch", "transfer"}
    /\ Accounts \subseteq Or(Accounts) /\ Depts \subseteq Or(Depts)
    /\ Orgs \subseteq Or(Orgs) /\ Numbers \subseteq Or(Numbers)
    /\ Emails \subseteq Or(Emails) /\ Requests \subseteq Or(Requests)
    /\ Statuses \subseteq Or({"Y", "N", "active", "disabled"})
  BY DEF Ops, Or, Statuses

LEMMA IdleIsFree ==
    /\ Args(Idle) /\ Reads(Idle) /\ Joined(Idle) /\ Emptied(Idle)
    /\ Idle.op \notin Joins /\ Idle.op # "close" /\ Idle.op # "approve"
  BY IdleType DEF Args, Reads, Joined, Emptied, Joins, ManagerOps

LEMMA NoRowTypes ==
    /\ NoOrg \in OrgRow /\ NoOrg.use = "absent"
    /\ NoAcct \in AcctRow /\ NoAcct.status = "absent" /\ NoAcct.origin # "request"
    /\ NoReq \in ReqRow /\ NoReq.status = "absent" /\ NoReq.acct = None
  BY NoneAssumption DEF NoOrg, NoAcct, NoReq, OrgRow, AcctRow, ReqRow, Use, Or, Origins

LEMMA InitInv == Init => IInv
  <1> SUFFICES ASSUME Init PROVE IInv
    OBVIOUS
  <1>1. TypeOK
    BY IdleType, NoRowTypes DEF Init, TypeOK, Use
  <1>2. ArgsInv /\ ReadsInv
    BY IdleIsFree DEF Init, ArgsInv, ReadsInv
  <1>3. LockInv
    BY IdleType DEF Init, LockInv
  <1>4. RowsInv /\ ApprovalInv
    BY NoRowTypes DEF Init, RowsInv, ApprovalInv
  <1>5. AdminInv
    BY DEF Init, AdminInv, SystemAdmins
  <1>6. JoinInv
    BY IdleIsFree DEF Init, JoinInv
  <1>7. DepartmentsCloseEmpty
    BY NoRowTypes DEF Init, DepartmentsCloseEmpty
  <1> QED
    BY <1>1, <1>2, <1>3, <1>4, <1>5, <1>6, <1>7 DEF IInv

-----------------------------------------------------------------------------
(* The first step of a call: the tables stay as they are.                  *)

LEMMA OpenKeeps ==
    ASSUME IInv, NEW c \in Clients, NEW k \in Call, Open(c, k), UNCHANGED tables,
           raced \subseteq raced', raced' \subseteq Depts,
           Args(k), Reads(k), Joined(k), Emptied(k),
           k.op = "approve" =>
              /\ req[k.req].status = "pending"
              /\ \A b \in Clients : call[b].op = "approve" => call[b].req # k.req,
           k.op \in Joins =>
              \A b \in Clients : call[b].op = "close" => call[b].dept \in raced',
           k.op = "close" =>
              \A b \in Clients : call[b].op \in Joins => k.dept \in raced'
    PROVE  IInv'
  <1> USE DEF IInv
  <1>1. /\ call'[c] = k /\ \A b \in Clients : b # c => call'[b] = call[b]
        /\ call' \in [Clients -> Call]
    BY DEF TypeOK, Open
  <1>2. TypeOK'
    BY <1>1 DEF TypeOK
  <1>3. ArgsInv'
    BY <1>1 DEF ArgsInv, Args
  <1>4. ReadsInv'
    BY <1>1 DEF ReadsInv, Reads
  <1>5. LockInv'
    BY <1>1 DEF LockInv
  <1>6. RowsInv' /\ ApprovalInv'
    BY DEF RowsInv, ApprovalInv
  <1>7. AdminInv'
    BY DEF AdminInv, SystemAdmins
  <1>8. JoinInv'
    <2>1. ASSUME NEW b \in Clients PROVE (Joined(call[b]) /\ Emptied(call[b]))'
      <3>1. CASE b = c
        BY <1>1, <3>1 DEF Joined, Emptied, Kept, HasActiveUsers
      <3>2. CASE b # c
        BY <1>1, <3>2 DEF JoinInv, Joined, Emptied, Kept, HasActiveUsers
      <3> QED
        BY <3>1, <3>2
    <2>2. ASSUME NEW a \in Clients, NEW b \in Clients,
                 call'[a].op \in Joins, call'[b].op = "close"
          PROVE  call'[b].dept \in raced'
      <3>1. CASE a = c /\ b = c
        BY <1>1, <2>2, <3>1 DEF Joins
      <3>2. CASE a = c /\ b # c
        BY <1>1, <2>2, <3>2
      <3>3. CASE a # c /\ b = c
        BY <1>1, <2>2, <3>3
      <3>4. CASE a # c /\ b # c
        BY <1>1, <2>2, <3>4 DEF JoinInv
      <3> QED
        BY <3>1, <3>2, <3>3, <3>4
    <2> QED
      BY <2>1, <2>2 DEF JoinInv
  <1>9. DepartmentsCloseEmpty'
    BY DEF DepartmentsCloseEmpty
  <1> QED
    BY <1>2, <1>3, <1>4, <1>5, <1>6, <1>7, <1>8, <1>9

\* Calls that neither join nor close a department and lock no request.
LEMMA OpenPlainKeeps ==
    ASSUME IInv, NEW c \in Clients, NEW k \in Call, Open(c, k), UNCHANGED <<tables, raced>>,
           k.op \notin Joins \cup {"close"}, Args(k), Reads(k)
    PROVE  IInv'
  <1>1. k.op # "approve" /\ Joined(k) /\ Emptied(k)
    BY DEF Joined, Emptied, Joins
  <1>2. raced' \subseteq Depts
    BY DEF IInv, TypeOK
  <1> QED
    BY <1>1, <1>2, OpenKeeps

LEMMA AbortKeeps == ASSUME IInv, NEW c \in Clients, abort(c) PROVE IInv'
  BY IdleType, IdleIsFree, OpenPlainKeeps DEF abort, End, Open

LEMMA AuthenticateKeeps ==
    ASSUME IInv, NEW c \in Clients, NEW a \in Accounts, authenticate(c, a)
    PROVE  IInv'
  <1> DEFINE k == [Idle EXCEPT !.op = "authed", !.actor = a]
  <1>1. k \in Call /\ k.op = "authed" /\ k.actor = a
    BY IdleType, CallValues DEF Call
  <1>2. Open(c, k) /\ UNCHANGED <<tables, raced>>
    BY DEF authenticate
  <1> HIDE DEF k
  <1>3. Args(k) /\ Reads(k) /\ k.op \notin Joins \cup {"close"}
    BY <1>1 DEF Args, Reads, Joins
  <1> QED
    BY <1>1, <1>2, <1>3, OpenPlainKeeps

LEMMA BeginBootstrapKeeps ==
    ASSUME IInv, NEW c \in Clients, NEW e \in Emails, begin_bootstrap_admin(c, e)
    PROVE  IInv'
  <1> DEFINE k == [Idle EXCEPT !.op = "bootstrap", !.email = e]
  <1>1. k \in Call /\ k.op = "bootstrap" /\ k.email = e
    BY IdleType, CallValues DEF Call
  <1>2. Open(c, k) /\ UNCHANGED <<tables, raced>>
    BY DEF begin_bootstrap_admin
  <1> HIDE DEF k
  <1>3. Args(k) /\ Reads(k) /\ k.op \notin Joins \cup {"close"}
    BY <1>1 DEF Args, Reads, Joins, ManagerOps
  <1> QED
    BY <1>1, <1>2, <1>3, OpenPlainKeeps

LEMMA BeginStartupKeeps ==
    ASSUME IInv, NEW c \in Clients, begin_configure_startup_system_admin(c)
    PROVE  IInv'
  <1>1. PICK a \in Or(Accounts) :
          Open(c, [Idle EXCEPT !.op = "startup", !.email = StartupEmail, !.acct = a,
                               !.grant = {"system_admin"} \
                                    (IF a = None THEN {} ELSE roles[a])])
    BY DEF begin_configure_startup_system_admin
  <1>2. StartupEmail \in Emails /\ UNCHANGED <<tables, raced>>
    BY InputsAssumption DEF begin_configure_startup_system_admin, Or
  <1> DEFINE g == {"system_admin"} \ (IF a = None THEN {} ELSE roles[a])
  <1>3. g \in SUBSET GlobalRoles
    BY DEF GlobalRoles
  <1> HIDE DEF g
  <1> DEFINE k == [Idle EXCEPT !.op = "startup", !.email = StartupEmail, !.acct = a,
                               !.grant = g]
  <1>4. k \in Call /\ k.op = "startup" /\ k.email = StartupEmail
    <2>1. StartupEmail \in Or(Emails) /\ "startup" \in Ops
      BY <1>2 DEF Or, Ops
    <2> QED
      BY <1>3, <2>1, IdleType DEF Call
  <1>5. Open(c, k)
    BY <1>1 DEF g
  <1> HIDE DEF k
  <1>6. Args(k) /\ Reads(k) /\ k.op \notin Joins \cup {"close"}
    BY <1>2, <1>4 DEF Args, Reads, Joins, ManagerOps
  <1> QED
    BY <1>2, <1>4, <1>5, <1>6, OpenPlainKeeps

LEMMA BeginRequestKeeps ==
    ASSUME IInv, NEW c \in Clients, NEW n \in Numbers, NEW d \in Depts, NEW e \in Emails,
           begin_create_admin_access_request(c, n, d, e)
    PROVE  IInv'
  <1> DEFINE k == [Idle EXCEPT !.op = "request", !.number = n, !.dept = d, !.email = e]
  <1>1. /\ k \in Call /\ k.op = "request" /\ k.email = e /\ k.number = n /\ k.dept = d
    BY IdleType, CallValues DEF Call
  <1>2. Open(c, k) /\ UNCHANGED <<tables, raced>>
    BY DEF begin_create_admin_access_request
  <1> HIDE DEF k
  <1>3. Args(k) /\ Reads(k) /\ k.op \notin Joins \cup {"close"}
    BY <1>1 DEF Args, Reads, Joins, ManagerOps
  <1> QED
    BY <1>1, <1>2, <1>3, OpenPlainKeeps

LEMMA ManagerType ==
    ASSUME IInv, NEW c \in Clients, Manager(c)
    PROVE  call[c] \in Call /\ call[c].actor \in Accounts
  BY DEF IInv, TypeOK, ArgsInv, Args, Manager, ManagerOps

LEMMA BeginManagedKeeps ==
    ASSUME IInv, NEW c \in Clients, NEW o \in Orgs, NEW e \in Emails,
           NEW n \in NewAccounts, begin_create_managed_admin_user(c, o, e, n)
    PROVE  IInv'
  <1> DEFINE k == [call[c] EXCEPT !.op = "managed", !.org = o, !.email = e,
                                  !.value = n.status, !.grant = n.roles]
  <1>1. call[c] \in Call /\ call[c].actor \in Accounts
    BY ManagerType DEF begin_create_managed_admin_user
  <1>2. n.status \in Statuses /\ n.roles \in SUBSET GlobalRoles
    BY InputsAssumption
  <1>3. /\ k \in Call /\ k.op = "managed" /\ k.org = o /\ k.email = e
        /\ k.value = n.status /\ k.actor = call[c].actor
    BY <1>1, <1>2, CallValues DEF Call
  <1>4. Open(c, k) /\ UNCHANGED <<tables, raced>>
    BY DEF begin_create_managed_admin_user
  <1> HIDE DEF k
  <1>5. Args(k) /\ Reads(k) /\ k.op \notin Joins \cup {"close"}
    BY <1>1, <1>2, <1>3 DEF Args, Reads, Joins, ManagerOps
  <1> QED
    BY <1>3, <1>4, <1>5, OpenPlainKeeps

LEMMA BeginTransferKeeps ==
    ASSUME IInv, NEW c \in Clients, NEW a \in Accounts, begin_transfer_system_admin(c, a)
    PROVE  IInv'
  <1> DEFINE g == {"application_admin"} \ roles[call[c].actor]
  <1> DEFINE k == [call[c] EXCEPT !.op = "transfer", !.acct = a, !.grant = g]
  <1>1. call[c] \in Call /\ call[c].actor \in Accounts
    BY ManagerType DEF begin_transfer_system_admin
  <1>2. Open(c, k) /\ UNCHANGED <<tables, raced>>
    BY DEF begin_transfer_system_admin
  <1>3. g \subseteq {"application_admin"} /\ g \in SUBSET GlobalRoles
    BY DEF GlobalRoles
  <1> HIDE DEF g
  <1>4. /\ k \in Call /\ k.op = "transfer" /\ k.acct = a /\ k.actor = call[c].actor
        /\ k.grant = g
    BY <1>1, <1>3, CallValues DEF Call
  <1> HIDE DEF k
  <1>5. Args(k) /\ Reads(k) /\ k.op \notin Joins \cup {"close"}
    BY <1>1, <1>3, <1>4 DEF Args, Reads, Joins, ManagerOps
  <1> QED
    BY <1>2, <1>4, <1>5, OpenPlainKeeps

LEMMA BeginPatchKeeps ==
    ASSUME IInv, NEW c \in Clients, NEW a \in Accounts, NEW p \in AccountPatches,
           begin_patch_managed_admin_user(c, a, p)
    PROVE  IInv'
  <1> DEFINE e == IF p.email = acct[a].email THEN None ELSE p.email
             v == IF p.status = ReadStatus(c, a) THEN None ELSE p.status
             g == IF p.roles = None THEN {} ELSE p.roles \ roles[a]
             h == IF p.roles = None THEN {} ELSE roles[a] \ p.roles
             k == [call[c] EXCEPT !.op = "patch", !.acct = a, !.email = e,
                                  !.value = v, !.grant = g, !.revoke = h]
  <1>1. call[c] \in Call /\ call[c].actor \in Accounts
    BY ManagerType DEF begin_patch_managed_admin_user
  <1>2. Open(c, k) /\ UNCHANGED <<tables, raced>> /\ Exists(a)
    BY DEF begin_patch_managed_admin_user
  <1>3. /\ e \in Or(Emails) /\ v \in Or(Statuses)
        /\ g \in SUBSET GlobalRoles /\ h \in SUBSET GlobalRoles
    <2>1. /\ p.email \in Or(Emails) /\ p.status \in Or(Statuses)
          /\ p.roles \in Or(SUBSET GlobalRoles)
      BY InputsAssumption
    <2>2. roles[a] \in SUBSET GlobalRoles
      BY DEF IInv, TypeOK
    <2> QED
      BY <2>1, <2>2 DEF Or
  <1> HIDE DEF e, v, g, h
  <1>4. /\ k \in Call /\ k.op = "patch" /\ k.acct = a /\ k.actor = call[c].actor
        /\ k.value = v
    <2>1. /\ v \in Or({"Y", "N", "active", "disabled"}) /\ a \in Or(Accounts)
          /\ "patch" \in Ops
      BY <1>3 DEF Or, Statuses, Ops
    <2> QED
      BY <1>1, <1>3, <2>1 DEF Call
  <1> HIDE DEF k
  <1>5. Args(k) /\ Reads(k) /\ k.op \notin Joins \cup {"close"}
    BY <1>1, <1>2, <1>3, <1>4 DEF Args, Reads, Joins, ManagerOps, Exists
  <1> QED
    BY <1>2, <1>4, <1>5, OpenPlainKeeps

-----------------------------------------------------------------------------
(* Calls that join or close a department.                                  *)

LEMMA NoteJoinNotes ==
    ASSUME IInv, NoteJoin
    PROVE  /\ raced \subseteq raced' /\ raced' \subseteq Depts
           /\ \A b \in Clients : call[b].op = "close" => call[b].dept \in raced'
  BY DEF NoteJoin, IInv, TypeOK, ArgsInv, Args

LEMMA BeginCloseKeeps ==
    ASSUME IInv, NEW c \in Clients, NEW d \in Depts, begin_deactivate_department(c, d)
    PROVE  IInv'
  <1> DEFINE k == [call[c] EXCEPT !.op = "close", !.dept = d]
  <1>1. call[c] \in Call /\ call[c].actor \in Accounts
    BY ManagerType DEF begin_deactivate_department
  <1>2. Open(c, k) /\ UNCHANGED tables /\ ~ HasActiveUsers(d) /\ NoteClose(d)
    BY DEF begin_deactivate_department
  <1>3. k \in Call /\ k.op = "close" /\ k.dept = d /\ k.actor = call[c].actor
    BY <1>1, CallValues DEF Call
  <1> HIDE DEF k
  <1>4. /\ raced \subseteq raced' /\ raced' \subseteq Depts
        /\ \A b \in Clients : call[b].op \in Joins => d \in raced'
    BY <1>2 DEF NoteClose, IInv, TypeOK
  <1>5. Args(k) /\ Reads(k) /\ Joined(k) /\ Emptied(k) /\ k.op \notin Joins
    BY <1>1, <1>2, <1>3 DEF Args, Reads, Joins, ManagerOps, Joined, Emptied
  <1>6. k.op # "approve" /\ k.op \notin Joins
        /\ \A b \in Clients : call[b].op \in Joins => k.dept \in raced'
    BY <1>3, <1>4, <1>5
  <1> QED
    BY <1>2, <1>3, <1>4, <1>5, <1>6, OpenKeeps

LEMMA BeginJoinKeeps ==
    ASSUME IInv, NEW c \in Clients, NEW n \in Numbers, NEW d \in Depts,
           begin_create_organization_user(c, n, d)
    PROVE  IInv'
  <1> DEFINE k == [call[c] EXCEPT !.op = "join", !.number = n, !.dept = d]
  <1>1. call[c] \in Call /\ call[c].actor \in Accounts
    BY ManagerType DEF begin_create_organization_user
  <1>2. Open(c, k) /\ UNCHANGED tables /\ dept[d] = "Y" /\ NoteJoin
    BY DEF begin_create_organization_user
  <1>3. /\ k \in Call /\ k.op = "join" /\ k.dept = d /\ k.number = n
        /\ k.actor = call[c].actor
    BY <1>1, CallValues DEF Call
  <1> HIDE DEF k
  <1>4. Args(k) /\ Reads(k) /\ Joined(k) /\ Emptied(k)
    BY <1>1, <1>2, <1>3 DEF Args, Reads, ManagerOps, Joined, Emptied, Kept
  <1> QED
    BY <1>2, <1>3, <1>4, NoteJoinNotes, OpenKeeps

LEMMA BeginApproveKeeps ==
    ASSUME IInv, NEW c \in Clients, NEW r \in Requests,
           begin_approve_admin_access_request(c, r)
    PROVE  IInv'
  <1> DEFINE k == [call[c] EXCEPT !.op = "approve", !.req = r]
  <1>1. call[c] \in Call /\ call[c].actor \in Accounts
    BY ManagerType DEF begin_approve_admin_access_request
  <1>2. /\ Open(c, k) /\ UNCHANGED tables /\ dept[req[r].dept] = "Y" /\ NoteJoin
        /\ ~ Locked(r) /\ req[r].status = "pending"
    BY DEF begin_approve_admin_access_request
  <1>3. k \in Call /\ k.op = "approve" /\ k.req = r /\ k.actor = call[c].actor
    BY <1>1, CallValues DEF Call
  <1> HIDE DEF k
  <1>4. Args(k) /\ Reads(k) /\ Joined(k) /\ Emptied(k)
    BY <1>1, <1>2, <1>3 DEF Args, Reads, ManagerOps, Joined, Emptied, Kept
  <1>5. /\ req[k.req].status = "pending" /\ k.op # "close"
        /\ \A b \in Clients : call[b].op = "approve" => call[b].req # k.req
    BY <1>2, <1>3 DEF Locked
  <1> QED
    BY <1>2, <1>3, <1>4, <1>5, NoteJoinNotes, OpenKeeps

LEMMA BeginPatchOrgKeeps ==
    ASSUME IInv, NEW c \in Clients, NEW o \in Orgs, NEW p \in OrgPatches,
           begin_patch_organization_user(c, o, p)
    PROVE  IInv'
  <1> DEFINE n == IF p.number = org[o].number THEN None ELSE p.number
             d == IF p.dept = org[o].dept THEN None ELSE p.dept
             v == IF p.use = org[o].use THEN None ELSE p.use
             k == [call[c] EXCEPT !.op = "patch_org", !.org = o, !.number = n,
                                  !.dept = d, !.value = v]
  <1>1. call[c] \in Call /\ call[c].actor \in Accounts
    BY ManagerType DEF begin_patch_organization_user
  <1>2. /\ Open(c, k) /\ UNCHANGED tables /\ NoteJoin
        /\ org[o].use # "absent"
        /\ p.dept # None => dept[p.dept] = "Y"
        /\ p.use = "Y" => dept[IF p.dept # None THEN p.dept ELSE org[o].dept] = "Y"
    BY DEF begin_patch_organization_user
  <1>3. n \in Or(Numbers) /\ d \in Or(Depts) /\ v \in {None, "Y", "N"}
    <2>1. /\ p.number \in Or(Numbers) /\ p.dept \in Or(Depts)
          /\ p.use \in Or({"Y", "N"})
      BY InputsAssumption
    <2> QED
      BY <2>1 DEF Or
  <1>4. /\ d # None => dept[d] = "Y"
        /\ d = None /\ v = "Y" => dept[org[o].dept] = "Y"
    BY <1>2, NoneAssumption
  <1> HIDE DEF n, d, v
  <1>5. /\ k \in Call /\ k.op = "patch_org" /\ k.org = o /\ k.actor = call[c].actor
        /\ k.dept = d /\ k.value = v
    <2>1. /\ v \in Or({"Y", "N", "active", "disabled"}) /\ o \in Or(Orgs)
          /\ "patch_org" \in Ops
      BY <1>3 DEF Or, Ops
    <2> QED
      BY <1>1, <1>3, <2>1 DEF Call
  <1> HIDE DEF k
  <1>6. Args(k) /\ Reads(k) /\ Joined(k) /\ Emptied(k)
    BY <1>1, <1>2, <1>3, <1>4, <1>5 DEF Args, Reads, ManagerOps, Joined, Emptied, Kept
  <1>7. k.op # "approve" /\ k.op # "close"
    BY <1>5
  <1> QED
    BY <1>2, <1>5, <1>6, <1>7, NoteJoinNotes, OpenKeeps

-----------------------------------------------------------------------------
(* The last step of a call.                                                *)

Approves(b) == call[b].op = "approve"

\* A step that deletes no row and leaves the requests of open approvals
\* alone keeps what the other open calls have read.
LEMMA EndFrame ==
    ASSUME IInv, NEW c \in Clients, End(c),
           \A o \in Orgs : org[o].use # "absent" => org'[o].use # "absent",
           \A a \in Accounts : acct[a].status # "absent" => acct'[a].status # "absent",
           \A b \in Clients : b # c /\ Approves(b) => req'[call[b].req] = req[call[b].req]
    PROVE  /\ call'[c] = Idle /\ \A b \in Clients : b # c => call'[b] = call[b]
           /\ call' \in [Clients -> Call] /\ ArgsInv' /\ ReadsInv' /\ LockInv'
  <1> USE DEF IInv
  <1>1. call'[c] = Idle /\ \A b \in Clients : b # c => call'[b] = call[b]
    BY DEF End, TypeOK
  <1>2. call' \in [Clients -> Call]
    BY IdleType DEF End, TypeOK
  <1>3. ArgsInv'
    BY <1>1, IdleIsFree DEF ArgsInv, Args
  <1>4. ReadsInv'
    <2> SUFFICES ASSUME NEW b \in Clients PROVE Reads(call[b])'
      BY DEF ReadsInv
    <2>1. CASE b = c
      BY <1>1, <2>1, IdleType DEF Reads
    <2>2. CASE b # c
      <3>1. Args(call[b]) /\ Reads(call[b])
        BY DEF ArgsInv, ReadsInv
      <3> QED
        BY <1>1, <2>2, <3>1 DEF Args, Reads
    <2> QED
      BY <2>1, <2>2
  <1>5. LockInv'
    BY <1>1, IdleType DEF LockInv, Approves
  <1> QED
    BY <1>1, <1>2, <1>3, <1>4, <1>5

LEMMA JoinFrame ==
    ASSUME IInv, NEW c \in Clients, End(c), UNCHANGED <<dept, org, raced>>,
           \A b \in Clients : b # c /\ Approves(b) => req'[call[b].req] = req[call[b].req]
    PROVE  JoinInv' /\ DepartmentsCloseEmpty'
  <1> USE DEF IInv
  <1>1. call'[c] = Idle /\ \A b \in Clients : b # c => call'[b] = call[b]
    BY DEF End, TypeOK
  <1>2. ASSUME NEW b \in Clients PROVE (Joined(call[b]) /\ Emptied(call[b]))'
    <2>1. CASE b = c
      BY <1>1, <2>1, IdleType DEF Joined, Emptied
    <2>2. CASE b # c
      BY <1>1, <2>2 DEF JoinInv, Joined, Emptied, Kept, HasActiveUsers, Approves
    <2> QED
      BY <2>1, <2>2
  <1>3. \A a, b \in Clients :
          call'[a].op \in Joins /\ call'[b].op = "close" => call'[b].dept \in raced'
    BY <1>1, IdleIsFree DEF JoinInv
  <1>4. DepartmentsCloseEmpty'
    BY DEF DepartmentsCloseEmpty
  <1> QED
    BY <1>2, <1>3, <1>4 DEF JoinInv

(* Accounts and their roles.                                               *)

\* A new account that no request asked for.
LEMMA NewAccountKeeps ==
    ASSUME IInv, NEW c \in Clients, NEW a \in Accounts, NEW row \in AcctRow,
           NEW held \in SUBSET GlobalRoles, ~ Exists(a),
           row.status # "absent", row.email # None, row.origin # "request",
           "system_admin" \in held => AdminFree(a),
           acct' = [acct EXCEPT ![a] = row], roles' = [roles EXCEPT ![a] = held],
           End(c), UNCHANGED <<dept, org, sessions, req, raced>>
    PROVE  IInv'
  <1> USE DEF IInv
  <1>1. /\ acct'[a] = row /\ \A b \in Accounts : b # a => acct'[b] = acct[b]
        /\ roles'[a] = held /\ \A b \in Accounts : b # a => roles'[b] = roles[b]
        /\ acct[a].status = "absent"
    BY DEF TypeOK, Exists
  <1>2. /\ call' \in [Clients -> Call] /\ ArgsInv' /\ ReadsInv' /\ LockInv'
    BY <1>1, EndFrame
  <1>3. TypeOK'
    <2>1. acct' \in [Accounts -> AcctRow] /\ roles' \in [Accounts -> SUBSET GlobalRoles]
      BY DEF TypeOK
    <2>2. \A b \in Accounts : acct'[b].status # "absent" => acct'[b].email # None
      BY <1>1 DEF TypeOK
    <2> QED
      BY <1>2, <2>1, <2>2 DEF TypeOK
  <1>4. RowsInv'
    BY <1>1 DEF RowsInv
  <1>5. AdminInv'
    BY <1>1 DEF AdminInv, SystemAdmins, AdminFree
  <1>6. ApprovalInv'
    <2>1. \A r \in Requests : req[r].acct # a
      <3> SUFFICES ASSUME NEW r \in Requests, req[r].acct = a PROVE FALSE
        OBVIOUS
      <3>1. acct[a].origin = "request"
        BY NoneAssumption DEF ApprovalInv
      <3> QED
        BY <1>1, <3>1 DEF RowsInv
    <2>2. \A r \in Requests : req[r].status = "approved" => req[r].acct \in Accounts
      BY DEF ApprovalInv, TypeOK, ReqRow, Or
    <2> QED
      BY <1>1, <2>1, <2>2 DEF ApprovalInv
  <1>7. JoinInv' /\ DepartmentsCloseEmpty'
    BY JoinFrame
  <1> QED
    BY <1>2, <1>3, <1>4, <1>5, <1>6, <1>7

LEMMA CreateOwnerKeeps ==
    ASSUME IInv, NEW c \in Clients, NEW origin \in {"bootstrap", "startup"},
           call[c].email \in Emails, CreateOwner(c, origin), End(c),
           UNCHANGED <<dept, org, sessions, req, raced>>
    PROVE  IInv'
  <1>1. PICK a \in Accounts :
          /\ ~ Exists(a) /\ AdminFree(a)
          /\ acct' = [acct EXCEPT ![a] =
                 [NoAcct EXCEPT !.status = "active", !.email = call[c].email,
                                !.password = TRUE, !.origin = origin]]
          /\ roles' = [roles EXCEPT ![a] = {"system_admin"}]
    BY DEF CreateOwner
  <1> DEFINE row == [NoAcct EXCEPT !.status = "active", !.email = call[c].email,
                                   !.password = TRUE, !.origin = origin]
  <1>2. /\ row \in AcctRow /\ row.status = "active" /\ row.email = call[c].email
        /\ row.origin = origin
    BY NoRowTypes DEF AcctRow, Or, Origins
  <1>3. row.email # None
    BY <1>2, NoneAssumption
  <1>4. {"system_admin"} \in SUBSET GlobalRoles
    BY DEF GlobalRoles
  <1> HIDE DEF row
  <1> QED
    BY <1>1, <1>2, <1>3, <1>4, NewAccountKeeps DEF row

LEMMA BootstrapKeeps ==
    ASSUME IInv, NEW c \in Clients, bootstrap_admin(c) PROVE IInv'
  <1>1. call[c].email \in Emails
    BY DEF bootstrap_admin, IInv, ArgsInv, Args
  <1> QED
    BY <1>1, CreateOwnerKeeps DEF bootstrap_admin

LEMMA ManagedKeeps ==
    ASSUME IInv, NEW c \in Clients, create_managed_admin_user(c) PROVE IInv'
  <1>1. PICK a \in Accounts :
          /\ ~ Exists(a)
          /\ "system_admin" \in call[c].grant => AdminFree(a)
          /\ acct' = [acct EXCEPT ![a] =
                 [status |-> call[c].value, email |-> call[c].email,
                  org |-> call[c].org, password |-> FALSE, origin |-> "managed"]]
          /\ roles' = [roles EXCEPT ![a] = call[c].grant]
    BY DEF create_managed_admin_user
  <1>2. End(c) /\ UNCHANGED <<dept, org, sessions, req, raced>>
    BY DEF create_managed_admin_user
  <1>3. /\ call[c].email \in Emails /\ call[c].org \in Orgs /\ call[c].value \in Statuses
        /\ call[c].grant \in SUBSET GlobalRoles
    BY DEF create_managed_admin_user, IInv, ArgsInv, Args, TypeOK, Call
  <1> DEFINE row == [status |-> call[c].value, email |-> call[c].email,
                     org |-> call[c].org, password |-> FALSE, origin |-> "managed"]
  <1>4. /\ row \in AcctRow /\ row.status = call[c].value /\ row.email = call[c].email
        /\ row.origin = "managed"
    BY <1>3 DEF AcctRow, Or, Origins, Statuses
  <1>5. row.email # None /\ row.status # "absent"
    BY <1>3, <1>4, NoneAssumption DEF Statuses
  <1> HIDE DEF row
  <1> QED
    BY <1>1, <1>2, <1>3, <1>4, <1>5, NewAccountKeeps DEF row

\* A change of accounts that are there, whose origin and person stay.
LEMMA ChangedAccountsKeep ==
    ASSUME IInv, NEW c \in Clients, End(c), UNCHANGED <<dept, org, sessions, req, raced>>,
           acct' \in [Accounts -> AcctRow], roles' \in [Accounts -> SUBSET GlobalRoles],
           \A a \in Accounts :
              /\ acct'[a].origin = acct[a].origin /\ acct'[a].org = acct[a].org
              /\ acct'[a].status = "absent" <=> acct[a].status = "absent"
              /\ acct'[a].email = None => acct[a].email = None,
           AdminInv'
    PROVE  IInv'
  <1> USE DEF IInv
  <1>1. /\ call' \in [Clients -> Call] /\ ArgsInv' /\ ReadsInv' /\ LockInv'
    BY EndFrame
  <1>2. TypeOK'
    BY <1>1 DEF TypeOK
  <1>3. RowsInv'
    BY DEF RowsInv
  <1>4. ApprovalInv'
    <2>1. \A r \in Requests : req[r].status = "approved" => req[r].acct \in Accounts
      BY DEF ApprovalInv, TypeOK, ReqRow, Or
    <2> QED
      BY <2>1 DEF ApprovalInv
  <1>5. JoinInv' /\ DepartmentsCloseEmpty'
    BY JoinFrame
  <1> QED
    BY <1>1, <1>2, <1>3, <1>4, <1>5

LEMMA StartupKeeps ==
    ASSUME IInv, NEW c \in Clients, configure_startup_system_admin(c) PROVE IInv'
  <1>1. End(c) /\ UNCHANGED <<dept, org, sessions, req, raced>>
    BY DEF configure_startup_system_admin
  <1>2. call[c].email \in Emails /\ call[c] \in Call
    BY DEF configure_startup_system_admin, IInv, ArgsInv, Args, TypeOK
  <1>3. CASE CreateOwner(c, "startup")
    BY <1>1, <1>2, <1>3, CreateOwnerKeeps
  <1>4. CASE ~ CreateOwner(c, "startup")
    <2> DEFINE a == call[c].acct
    <2>1. /\ a # None /\ (call[c].grant # {} => AdminFree(a))
          /\ acct' = [acct EXCEPT ![a].password = TRUE]
          /\ roles' = [roles EXCEPT ![a] = @ \cup call[c].grant]
      BY <1>4 DEF configure_startup_system_admin
    <2>2. a \in Accounts /\ call[c].grant \in SUBSET GlobalRoles
      BY <1>2, <2>1 DEF Call, Or
    <2> HIDE DEF a
    <2>3. /\ acct \in [Accounts -> AcctRow] /\ roles \in [Accounts -> SUBSET GlobalRoles]
      BY DEF IInv, TypeOK
    <2>4. acct' \in [Accounts -> AcctRow] /\ roles' \in [Accounts -> SUBSET GlobalRoles]
      BY <2>1, <2>2, <2>3 DEF AcctRow
    <2>5. \A b \in Accounts :
              /\ acct'[b].origin = acct[b].origin /\ acct'[b].org = acct[b].org
              /\ acct'[b].status = acct[b].status /\ acct'[b].email = acct[b].email
      BY <2>1, <2>2, <2>3 DEF AcctRow
    <2>6. /\ roles'[a] = roles[a] \cup call[c].grant
          /\ \A b \in Accounts : b # a => roles'[b] = roles[b]
      BY <2>1, <2>2, <2>3
    <2>7. AdminInv'
      <3>1. CASE call[c].grant = {}
        BY <2>6, <3>1 DEF IInv, AdminInv, SystemAdmins
      <3>2. CASE call[c].grant # {}
        BY <2>1, <2>6, <3>2 DEF AdminInv, SystemAdmins, AdminFree
      <3> QED
        BY <3>1, <3>2
    <2> QED
      BY <1>1, <2>4, <2>5, <2>7, ChangedAccountsKeep
  <1> QED
    BY <1>3, <1>4

LEMMA PatchKeeps ==
    ASSUME IInv, NEW c \in Clients, patch_managed_admin_user(c) PROVE IInv'
  <1> DEFINE a == call[c].acct  e == call[c].email  v == call[c].value
             g == call[c].grant  h == call[c].revoke
  <1>1. /\ End(c) /\ UNCHANGED <<dept, org, sessions, req, raced>>
        /\ "system_admin" \in g => AdminFree(a)
        /\ acct' = [acct EXCEPT ![a].email = IF e = None THEN @ ELSE e,
                                ![a].status = IF v = None THEN @ ELSE v]
        /\ roles' = [roles EXCEPT ![a] = (@ \cup g) \ h]
    BY DEF patch_managed_admin_user
  <1>2. /\ a \in Accounts /\ e \in Or(Emails) /\ v \in Or(Statuses)
        /\ acct[a].status # "absent"
        /\ g \in SUBSET GlobalRoles
    BY DEF patch_managed_admin_user, IInv, ArgsInv, Args, ReadsInv, Reads, TypeOK, Call
  <1> HIDE DEF a, e, v, g, h
  <1>3. acct \in [Accounts -> AcctRow] /\ roles \in [Accounts -> SUBSET GlobalRoles]
    BY DEF IInv, TypeOK
  <1>4. /\ \A b \in Accounts : b # a => acct'[b] = acct[b]
        /\ acct'[a].origin = acct[a].origin /\ acct'[a].org = acct[a].org
        /\ acct'[a].password = acct[a].password
        /\ acct'[a].status = (IF v = None THEN acct[a].status ELSE v)
        /\ acct'[a].email = (IF e = None THEN acct[a].email ELSE e)
    BY <1>1, <1>2, <1>3 DEF AcctRow
  <1>5. acct' \in [Accounts -> AcctRow]
    <2>1. /\ (IF v = None THEN acct[a].status ELSE v) \in {"absent", "active", "disabled"}
          /\ (IF e = None THEN acct[a].email ELSE e) \in Or(Emails)
      BY <1>2, <1>3 DEF AcctRow, Statuses, Or
    <2> DEFINE x == IF e = None THEN acct[a].email ELSE e
               y == IF v = None THEN acct[a].status ELSE v
    <2>2. acct' = [acct EXCEPT ![a] = [acct[a] EXCEPT !.email = x, !.status = y]]
      BY <1>1, <1>2, <1>3 DEF AcctRow
    <2> HIDE DEF x, y
    <2>3. [acct[a] EXCEPT !.email = x, !.status = y] \in AcctRow
      BY <1>2, <1>3, <2>1 DEF AcctRow, x, y
    <2> QED
      BY <1>2, <1>3, <2>2, <2>3
  <1>6. roles' \in [Accounts -> SUBSET GlobalRoles]
    BY <1>1, <1>2, <1>3
  <1>7. /\ roles'[a] = (roles[a] \cup g) \ h
        /\ \A b \in Accounts : b # a => roles'[b] = roles[b]
    BY <1>1, <1>2, <1>3
  <1>8. AdminInv'
    <2>1. CASE "system_admin" \in g
      BY <1>1, <1>7, <2>1 DEF AdminInv, SystemAdmins, AdminFree
    <2>2. CASE "system_admin" \notin g
      BY <1>7, <2>2 DEF IInv, AdminInv, SystemAdmins
    <2> QED
      BY <2>1, <2>2
  <1>9. \A b \in Accounts :
              /\ acct'[b].origin = acct[b].origin /\ acct'[b].org = acct[b].org
              /\ acct'[b].status = "absent" <=> acct[b].status = "absent"
              /\ acct'[b].email = None => acct[b].email = None
    BY <1>2, <1>4 DEF Statuses, Or
  <1> QED
    BY <1>1, <1>5, <1>6, <1>8, <1>9, ChangedAccountsKeep

LEMMA TransferKeeps ==
    ASSUME IInv, NEW c \in Clients, transfer_system_admin(c) PROVE IInv'
  <1> DEFINE from == call[c].actor  to == call[c].acct  g == call[c].grant
  <1>1. /\ End(c) /\ UNCHANGED <<dept, org, acct, sessions, req, raced>>
        /\ SystemAdmins \subseteq {from, to}
        /\ roles' = [roles EXCEPT
                 ![from] = (@ \ {"system_admin"}) \cup g,
                 ![to] = (@ \cup {"system_admin"}) \ {"application_admin"}]
    BY DEF transfer_system_admin
  <1>2. from \in Accounts /\ to \in Accounts /\ g \subseteq {"application_admin"}
    BY DEF transfer_system_admin, IInv, ArgsInv, Args, ManagerOps, TypeOK, Call
  <1>3. acct \in [Accounts -> AcctRow] /\ roles \in [Accounts -> SUBSET GlobalRoles]
    BY DEF IInv, TypeOK
  <1> HIDE DEF from, to, g
  <1>4. roles' \in [Accounts -> SUBSET GlobalRoles]
    BY <1>1, <1>2, <1>3 DEF GlobalRoles
  <1>5. AdminInv'
    BY <1>1, <1>2, <1>3 DEF AdminInv, SystemAdmins
  <1> QED
    BY <1>1, <1>3, <1>4, <1>5, ChangedAccountsKeep

-----------------------------------------------------------------------------
(* The directory.                                                          *)

LEMMA DirectoryFrame ==
    ASSUME IInv, UNCHANGED <<acct, roles, req>>
    PROVE  RowsInv' /\ AdminInv' /\ ApprovalInv'
  <1>1. RowsInv' /\ ApprovalInv'
    BY DEF IInv, RowsInv, ApprovalInv
  <1>2. AdminInv'
    BY DEF IInv, AdminInv, SystemAdmins
  <1> QED
    BY <1>1, <1>2

LEMMA CreateDepartmentKeeps ==
    ASSUME IInv, NEW c \in Clients, NEW d \in Depts, create_department(c, d) PROVE IInv'
  <1> USE DEF IInv
  <1>1. /\ dept' = [dept EXCEPT ![d] = "Y"] /\ End(c)
        /\ UNCHANGED <<org, acct, roles, sessions, req, raced>>
    BY DEF create_department
  <1>2. /\ call' \in [Clients -> Call] /\ ArgsInv' /\ ReadsInv' /\ LockInv'
        /\ call'[c] = Idle /\ \A b \in Clients : b # c => call'[b] = call[b]
    BY <1>1, EndFrame
  <1>3. TypeOK'
    BY <1>1, <1>2 DEF TypeOK, Use
  <1>4. \A x : dept'[x] = "N" => dept[x] = "N"
    <2>1. dept'[d] = "Y" /\ \A x : x # d => dept'[x] = dept[x]
      BY <1>1 DEF TypeOK
    <2> QED
      BY <2>1
  <1>5. JoinInv'
    <2>1. ASSUME NEW b \in Clients PROVE (Joined(call[b]) /\ Emptied(call[b]))'
      <3>1. CASE b = c
        BY <1>2, <3>1, IdleType DEF Joined, Emptied
      <3>2. CASE b # c
        BY <1>1, <1>2, <1>4, <3>2 DEF JoinInv, Joined, Emptied, Kept, HasActiveUsers
      <3> QED
        BY <3>1, <3>2
    <2>2. \A a, b \in Clients :
            call'[a].op \in Joins /\ call'[b].op = "close" => call'[b].dept \in raced'
      BY <1>1, <1>2, IdleIsFree DEF JoinInv
    <2> QED
      BY <2>1, <2>2 DEF JoinInv
  <1>6. DepartmentsCloseEmpty'
    BY <1>1, <1>4 DEF DepartmentsCloseEmpty
  <1> QED
    BY <1>1, <1>2, <1>3, <1>5, <1>6, DirectoryFrame

LEMMA CloseKeeps ==
    ASSUME IInv, NEW c \in Clients, deactivate_department(c) PROVE IInv'
  <1> USE DEF IInv
  <1> DEFINE d == call[c].dept
  <1>1. /\ dept' = [dept EXCEPT ![d] = "N"] /\ End(c) /\ call[c].op = "close"
        /\ UNCHANGED <<org, acct, roles, sessions, req, raced>>
    BY DEF deactivate_department
  <1>2. /\ call' \in [Clients -> Call] /\ ArgsInv' /\ ReadsInv' /\ LockInv'
        /\ call'[c] = Idle /\ \A b \in Clients : b # c => call'[b] = call[b]
    BY <1>1, EndFrame
  <1>3. d \in Depts
    BY <1>1 DEF ArgsInv, Args
  <1>4. TypeOK'
    BY <1>1, <1>2, <1>3 DEF TypeOK, Use
  <1>5. \A x : x # d => dept'[x] = dept[x]
    BY <1>1 DEF TypeOK
  <1>6. /\ \A b \in Clients : call[b].op \in Joins => d \in raced
        /\ ~ HasActiveUsers(d) \/ d \in raced
    BY <1>1 DEF JoinInv, Emptied
  <1> HIDE DEF d
  <1>7. JoinInv'
    <2>1. ASSUME NEW b \in Clients PROVE (Joined(call[b]) /\ Emptied(call[b]))'
      <3>1. CASE b = c
        BY <1>2, <3>1, IdleType DEF Joined, Emptied
      <3>2. CASE b # c /\ call[b].op \notin Joins
        BY <1>1, <1>2, <3>2 DEF JoinInv, Joined, Emptied, HasActiveUsers, Joins
      <3>3. CASE b # c /\ call[b].op \in Joins
        <4>1. \A x : Kept(x) => Kept(x)'
          BY <1>1, <1>5, <1>6, <3>3 DEF Kept
        <4> QED
          BY <1>1, <1>2, <3>3, <4>1 DEF JoinInv, Joined, Emptied, Joins, Kept, HasActiveUsers
      <3> QED
        BY <3>1, <3>2, <3>3
    <2>2. \A a, b \in Clients :
            call'[a].op \in Joins /\ call'[b].op = "close" => call'[b].dept \in raced'
      BY <1>1, <1>2, IdleIsFree DEF JoinInv
    <2> QED
      BY <2>1, <2>2 DEF JoinInv
  <1>8. DepartmentsCloseEmpty'
    BY <1>1, <1>5, <1>6 DEF DepartmentsCloseEmpty, HasActiveUsers
  <1> QED
    BY <1>1, <1>2, <1>4, <1>7, <1>8, DirectoryFrame

\* A row of the directory is written by a call that saw the department
\* open, or the row was active there before.
LEMMA OrgWritten ==
    ASSUME IInv, NEW c \in Clients, End(c), UNCHANGED <<dept, raced>>,
           \A b \in Clients : b # c /\ Approves(b) => req'[call[b].req] = req[call[b].req],
           NEW o \in Orgs, NEW row \in OrgRow, org' = [org EXCEPT ![o] = row],
           row.use # "absent", row.dept # None, row.number # None,
           \/ org[o].use # "absent" /\ row.dept = org[o].dept
           \/ Kept(row.dept),
           row.use = "Y" =>
              \/ org[o].use = "Y" /\ row.dept = org[o].dept
              \/ call[c].op \in Joins /\ Kept(row.dept)
    PROVE  /\ org' \in [Orgs -> OrgRow]
           /\ \A p \in Orgs :
                org'[p].use # "absent" => org'[p].dept # None /\ org'[p].number # None
           /\ \A p \in Orgs : org[p].use # "absent" => org'[p].use # "absent"
           /\ JoinInv' /\ DepartmentsCloseEmpty'
  <1> USE DEF IInv
  <1>1. org'[o] = row /\ \A p \in Orgs : p # o => org'[p] = org[p]
    BY DEF TypeOK
  <1>2. org' \in [Orgs -> OrgRow]
    BY DEF TypeOK
  <1>3. /\ \A p \in Orgs :
             org'[p].use # "absent" => org'[p].dept # None /\ org'[p].number # None
        /\ \A p \in Orgs : org[p].use # "absent" => org'[p].use # "absent"
    BY <1>1 DEF TypeOK
  <1>4. call'[c] = Idle /\ \A b \in Clients : b # c => call'[b] = call[b]
    BY DEF End, TypeOK
  <1>5. ASSUME NEW b \in Clients PROVE (Joined(call[b]) /\ Emptied(call[b]))'
    <2>1. CASE b = c
      BY <1>4, <2>1, IdleType DEF Joined, Emptied
    <2>2. CASE b # c
      <3>1. Joined(call[b]) /\ Emptied(call[b]) /\ Args(call[b]) /\ Reads(call[b])
        BY DEF JoinInv, ArgsInv, ReadsInv
      <3>2. \A x : Kept(x) <=> Kept(x)'
        BY DEF Kept
      <3>3. Joined(call[b])'
        <4>1. CASE call[b].op = "patch_org" /\ call[b].org = o
          BY <1>1, <1>4, <2>2, <3>1, <4>1 DEF Joined, Kept, Reads, Args
        <4>2. CASE ~ (call[b].op = "patch_org" /\ call[b].org = o)
          BY <1>1, <1>4, <2>2, <3>1, <4>2 DEF Joined, Kept, Args, Approves
        <4> QED
          BY <4>1, <4>2
      <3>4. Emptied(call[b])'
        <4>1. CASE call[b].op = "close" /\ call[c].op \in Joins
          BY <1>4, <2>2, <4>1 DEF JoinInv, Emptied
        <4>2. CASE call[b].op = "close" /\ call[c].op \notin Joins
          BY <1>1, <1>4, <2>2, <3>1, <4>2 DEF Emptied, HasActiveUsers
        <4>3. CASE call[b].op # "close"
          BY <1>4, <2>2, <4>3 DEF Emptied
        <4> QED
          BY <4>1, <4>2, <4>3
      <3> QED
        BY <3>3, <3>4
    <2> QED
      BY <2>1, <2>2
  <1>6. \A a, b \in Clients :
          call'[a].op \in Joins /\ call'[b].op = "close" => call'[b].dept \in raced'
    BY <1>4, IdleIsFree DEF JoinInv
  <1>7. DepartmentsCloseEmpty'
    BY <1>1 DEF DepartmentsCloseEmpty, Kept
  <1> QED
    BY <1>2, <1>3, <1>5, <1>6, <1>7 DEF JoinInv

\* Writing the directory alone.
LEMMA OrgWriteKeeps ==
    ASSUME IInv, NEW c \in Clients, End(c),
           UNCHANGED <<dept, acct, roles, sessions, req, raced>>,
           NEW o \in Orgs, NEW row \in OrgRow, org' = [org EXCEPT ![o] = row],
           row.use # "absent", row.dept # None, row.number # None,
           \/ org[o].use # "absent" /\ row.dept = org[o].dept
           \/ Kept(row.dept),
           row.use = "Y" =>
              \/ org[o].use = "Y" /\ row.dept = org[o].dept
              \/ call[c].op \in Joins /\ Kept(row.dept)
    PROVE  IInv'
  <1>1. /\ org' \in [Orgs -> OrgRow]
        /\ \A p \in Orgs :
             org'[p].use # "absent" => org'[p].dept # None /\ org'[p].number # None
        /\ \A p \in Orgs : org[p].use # "absent" => org'[p].use # "absent"
        /\ JoinInv' /\ DepartmentsCloseEmpty'
    BY OrgWritten
  <1>2. /\ call' \in [Clients -> Call] /\ ArgsInv' /\ ReadsInv' /\ LockInv'
    BY <1>1, EndFrame
  <1>3. TypeOK'
    BY <1>1, <1>2 DEF TypeOK, IInv
  <1> QED
    BY <1>1, <1>2, <1>3, DirectoryFrame DEF IInv

\* The row of a new organization user.
LEMMA NewOrgRow ==
    ASSUME NEW n \in Numbers, NEW d \in Depts
    PROVE  LET row == [use |-> "Y", dept |-> d, number |-> n]
           IN /\ row \in OrgRow /\ row.use = "Y" /\ row.dept = d /\ row.number = n
              /\ row.use # "absent" /\ row.dept # None /\ row.number # None
  BY NoneAssumption DEF OrgRow, Use, Or

LEMMA JoinKeeps ==
    ASSUME IInv, NEW c \in Clients, create_organization_user(c) PROVE IInv'
  <1> DEFINE n == call[c].number  d == call[c].dept
             row == [use |-> "Y", dept |-> d, number |-> n]
  <1>1. PICK o \in Orgs : org' = [org EXCEPT ![o] = row]
    BY DEF create_organization_user, InsertOrg
  <1>2. /\ call[c].op = "join" /\ End(c)
        /\ UNCHANGED <<dept, acct, roles, sessions, req, raced>>
    BY DEF create_organization_user
  <1>3. n \in Numbers /\ d \in Depts /\ Kept(d)
    BY <1>2 DEF IInv, ArgsInv, Args, JoinInv, Joined
  <1>4. /\ row \in OrgRow /\ row.use = "Y" /\ row.dept = d
        /\ row.use # "absent" /\ row.dept # None /\ row.number # None
    BY <1>3, NewOrgRow
  <1>5. call[c].op \in Joins
    BY <1>2 DEF Joins
  <1> HIDE DEF row, n, d
  <1> QED
    BY <1>1, <1>2, <1>3, <1>4, <1>5, OrgWriteKeeps

LEMMA PatchOrgKeeps ==
    ASSUME IInv, NEW c \in Clients, patch_organization_user(c) PROVE IInv'
  <1> DEFINE k == call[c]  o == k.org
             u == IF k.value = None THEN org[o].use ELSE k.value
             d == IF k.dept = None THEN org[o].dept ELSE k.dept
             n == IF k.number = None THEN org[o].number ELSE k.number
             row == [use |-> u, dept |-> d, number |-> n]
  <1>1. /\ k.op = "patch_org" /\ k \in Call /\ o \in Orgs /\ org[o].use # "absent"
        /\ k.value \in {None, "Y", "N"} /\ org[o] \in OrgRow
        /\ org[o].dept # None /\ org[o].number # None
        /\ k.dept # None => Kept(k.dept)
        /\ k.dept = None /\ k.value = "Y" => Kept(org[o].dept)
    BY DEF patch_organization_user, IInv, ArgsInv, Args, ReadsInv, Reads, JoinInv,
       Joined, TypeOK
  <1>2. /\ End(c) /\ UNCHANGED <<dept, acct, roles, sessions, req, raced>>
        /\ org' = [org EXCEPT ![o] = row]
    BY <1>1 DEF patch_organization_user, IInv, TypeOK
  <1>3. u \in Use /\ u # "absent" /\ d \in Depts /\ n \in Numbers /\ d # None /\ n # None
    BY <1>1 DEF Call, OrgRow, Or, Use
  <1>4. /\ d = org[o].dept \/ Kept(d)
        /\ u = "Y" => \/ org[o].use = "Y" /\ d = org[o].dept
                      \/ Kept(d)
    BY <1>1
  <1> HIDE DEF u, d, n
  <1>5. /\ row \in OrgRow /\ row.use = u /\ row.dept = d /\ row.number = n
    BY <1>3 DEF OrgRow, Or
  <1>6. call[c].op \in Joins
    BY <1>1 DEF Joins
  <1> HIDE DEF row
  <1> QED
    BY <1>1, <1>2, <1>3, <1>4, <1>5, <1>6, OrgWriteKeeps

LEMMA DeactivateOrgKeeps ==
    ASSUME IInv, NEW c \in Clients, NEW o \in Orgs, deactivate_organization_user(c, o)
    PROVE  IInv'
  <1> DEFINE row == [org[o] EXCEPT !.use = "N"]
  <1>1. /\ org[o] \in OrgRow /\ org[o].use # "absent"
        /\ org[o].dept # None /\ org[o].number # None
    BY DEF deactivate_organization_user, IInv, TypeOK
  <1>2. /\ End(c) /\ UNCHANGED <<dept, acct, roles, sessions, req, raced>>
        /\ org' = [org EXCEPT ![o] = row]
    BY DEF deactivate_organization_user, IInv, TypeOK
  <1>3. /\ row \in OrgRow /\ row.use = "N" /\ row.dept = org[o].dept
        /\ row.number = org[o].number
    BY <1>1 DEF OrgRow, Use
  <1> HIDE DEF row
  <1> QED
    BY <1>1, <1>2, <1>3, OrgWriteKeeps

-----------------------------------------------------------------------------
(* Access requests.                                                        *)

LEMMA RequestKeeps ==
    ASSUME IInv, NEW c \in Clients, create_admin_access_request(c) PROVE IInv'
  <1> USE DEF IInv
  <1> DEFINE row == [NoReq EXCEPT !.status = "pending", !.number = call[c].number,
                                  !.dept = call[c].dept, !.email = call[c].email]
  <1>1. PICK r \in Requests : req[r].status = "absent" /\ req' = [req EXCEPT ![r] = row]
    BY DEF create_admin_access_request
  <1>2. End(c) /\ UNCHANGED <<dept, org, acct, roles, sessions, raced>>
    BY DEF create_admin_access_request
  <1>3. call[c].number \in Numbers /\ call[c].dept \in Depts /\ call[c].email \in Emails
    BY DEF create_admin_access_request, ArgsInv, Args
  <1>4. /\ row \in ReqRow /\ row.status = "pending" /\ row.number \in Numbers
        /\ row.dept \in Depts /\ row.email \in Emails /\ row.acct = None
    <2>1. /\ call[c].number \in Or(Numbers) /\ call[c].dept \in Or(Depts)
          /\ call[c].email \in Or(Emails)
      BY <1>3 DEF Or
    <2> QED
      BY <1>3, <2>1, NoRowTypes DEF ReqRow
  <1> HIDE DEF row
  <1>5. req'[r] = row /\ \A s \in Requests : s # r => req'[s] = req[s]
    BY <1>1 DEF TypeOK
  <1>6. \A b \in Clients : Approves(b) => req'[call[b].req] = req[call[b].req]
    BY <1>1, <1>5 DEF LockInv, ArgsInv, Args, Approves
  <1>7. /\ call' \in [Clients -> Call] /\ ArgsInv' /\ ReadsInv' /\ LockInv'
    BY <1>2, <1>6, EndFrame
  <1>8. TypeOK'
    <2>1. req' \in [Requests -> ReqRow]
      BY <1>1, <1>4 DEF TypeOK
    <2> QED
      BY <1>2, <1>7, <2>1 DEF TypeOK
  <1>9. RowsInv'
    BY <1>2, <1>4, <1>5 DEF RowsInv
  <1>10. AdminInv'
    BY <1>2 DEF AdminInv, SystemAdmins
  <1>11. ApprovalInv'
    <2>1. req[r].acct = None
      BY <1>1 DEF ApprovalInv
    <2> QED
      BY <1>2, <1>4, <1>5, <2>1, NoneAssumption DEF ApprovalInv
  <1>12. JoinInv' /\ DepartmentsCloseEmpty'
    BY <1>2, <1>6, JoinFrame
  <1> QED
    BY <1>7, <1>8, <1>9, <1>10, <1>11, <1>12

LEMMA RejectKeeps ==
    ASSUME IInv, NEW c \in Clients, NEW r \in Requests, reject_admin_access_request(c, r)
    PROVE  IInv'
  <1> USE DEF IInv
  <1>1. /\ ~ Locked(r) /\ req[r].status = "pending" /\ End(c)
        /\ req' = [req EXCEPT ![r].status = "rejected"]
        /\ UNCHANGED <<dept, org, acct, roles, sessions, raced>>
    BY DEF reject_admin_access_request
  <1>2. /\ req'[r] = [req[r] EXCEPT !.status = "rejected"]
        /\ \A s \in Requests : s # r => req'[s] = req[s]
    BY <1>1 DEF TypeOK
  <1>3. /\ req'[r] \in ReqRow /\ req'[r].status = "rejected"
        /\ req'[r].number = req[r].number /\ req'[r].dept = req[r].dept
        /\ req'[r].email = req[r].email /\ req'[r].acct = req[r].acct
    BY <1>2 DEF TypeOK, ReqRow
  <1>4. \A b \in Clients : Approves(b) => req'[call[b].req] = req[call[b].req]
    BY <1>1, <1>2 DEF Locked, ArgsInv, Args, Approves
  <1>5. /\ call' \in [Clients -> Call] /\ ArgsInv' /\ ReadsInv' /\ LockInv'
    BY <1>1, <1>4, EndFrame
  <1>6. TypeOK'
    <2>1. req' \in [Requests -> ReqRow]
      BY <1>1, <1>2, <1>3 DEF TypeOK
    <2> QED
      BY <1>1, <1>5, <2>1 DEF TypeOK
  <1>7. RowsInv'
    BY <1>1, <1>2, <1>3 DEF RowsInv
  <1>8. AdminInv'
    BY <1>1 DEF AdminInv, SystemAdmins
  <1>9. ApprovalInv'
    BY <1>1, <1>2, <1>3, NoneAssumption DEF ApprovalInv
  <1>10. JoinInv' /\ DepartmentsCloseEmpty'
    BY <1>1, <1>4, JoinFrame
  <1> QED
    BY <1>5, <1>6, <1>7, <1>8, <1>9, <1>10

\* The account is new, so it is no other request's; the request is pending,
\* so it has no other account.
LEMMA ApproveKeeps ==
    ASSUME IInv, NEW c \in Clients, approve_admin_access_request(c) PROVE IInv'
  <1> USE DEF IInv
  <1> DEFINE r == call[c].req
  <1>1. PICK o \in Orgs, a \in Accounts :
          /\ InsertOrg(o, req[r].number, req[r].dept) /\ ~ Exists(a)
          /\ acct' = [acct EXCEPT ![a] =
                 [status |-> "active", email |-> req[r].email, org |-> o,
                  password |-> TRUE, origin |-> "request"]]
          /\ roles' = [roles EXCEPT ![a] = {"application_admin"}]
          /\ req' = [req EXCEPT ![r].status = "approved", ![r].org = o, ![r].acct = a]
    BY DEF approve_admin_access_request
  <1>2. End(c) /\ call[c].op = "approve" /\ UNCHANGED <<dept, sessions, raced>>
    BY DEF approve_admin_access_request
  <1>3. /\ r \in Requests /\ req[r].status = "pending" /\ req[r].number \in Numbers
        /\ req[r].dept \in Depts /\ req[r].email \in Emails /\ Kept(req[r].dept)
        /\ req[r] \in ReqRow
    BY <1>2 DEF ArgsInv, Args, LockInv, RowsInv, JoinInv, Joined, TypeOK
  <1>4. \A b \in Clients : b # c /\ Approves(b) => call[b].req # r /\ call[b].req \in Requests
    BY <1>2 DEF LockInv, ArgsInv, Args, Approves
  <1> HIDE DEF r
  <1> DEFINE row == [use |-> "Y", dept |-> req[r].dept, number |-> req[r].number]
             new == [status |-> "active", email |-> req[r].email, org |-> o,
                     password |-> TRUE, origin |-> "request"]
  <1>5. /\ row \in OrgRow /\ row.use = "Y" /\ row.dept = req[r].dept
        /\ row.use # "absent" /\ row.dept # None /\ row.number # None
    BY <1>3, NewOrgRow
  <1>6. org' = [org EXCEPT ![o] = row]
    BY <1>1 DEF InsertOrg
  <1>7. /\ new \in AcctRow /\ new.status = "active" /\ new.email # None
        /\ new.org = o /\ new.origin = "request"
    BY <1>3, NoneAssumption DEF AcctRow, Or, Origins
  <1> HIDE DEF row
  <1>8. acct' = [acct EXCEPT ![a] = new] /\ acct[a].status = "absent"
    BY <1>1 DEF Exists, TypeOK
  <1> HIDE DEF new
  <1>9. /\ acct'[a] = new /\ \A b \in Accounts : b # a => acct'[b] = acct[b]
        /\ roles'[a] = {"application_admin"}
        /\ \A b \in Accounts : b # a => roles'[b] = roles[b]
    BY <1>1, <1>8 DEF TypeOK
  <1>10. /\ req'[r] = [req[r] EXCEPT !.status = "approved", !.org = o, !.acct = a]
         /\ \A s \in Requests : s # r => req'[s] = req[s]
         /\ req' \in [Requests -> ReqRow]
    <2>1. [req[r] EXCEPT !.status = "approved", !.org = o, !.acct = a] \in ReqRow
      BY <1>3 DEF ReqRow, Or
    <2>2. /\ req'[r] = [req[r] EXCEPT !.status = "approved", !.org = o, !.acct = a]
          /\ \A s \in Requests : s # r => req'[s] = req[s]
      BY <1>1, <1>3 DEF TypeOK, ReqRow
    <2>3. DOMAIN req' = Requests /\ req' = [s \in Requests |-> req'[s]]
      BY <1>1 DEF TypeOK
    <2> QED
      BY <2>1, <2>2, <2>3 DEF TypeOK
  <1>11. /\ req'[r].status = "approved" /\ req'[r].org = o /\ req'[r].acct = a
         /\ req'[r].number = req[r].number /\ req'[r].dept = req[r].dept
         /\ req'[r].email = req[r].email
    BY <1>3, <1>10 DEF ReqRow
  <1>12. \A b \in Clients : b # c /\ Approves(b) => req'[call[b].req] = req[call[b].req]
    BY <1>4, <1>10
  <1>13. /\ org' \in [Orgs -> OrgRow]
         /\ \A p \in Orgs :
              org'[p].use # "absent" => org'[p].dept # None /\ org'[p].number # None
         /\ \A p \in Orgs : org[p].use # "absent" => org'[p].use # "absent"
         /\ JoinInv' /\ DepartmentsCloseEmpty'
    <2>1. call[c].op \in Joins /\ Kept(row.dept)
      BY <1>2, <1>3, <1>5 DEF Joins
    <2> QED
      BY <1>2, <1>5, <1>6, <1>12, <2>1, OrgWritten
  <1>14. /\ call' \in [Clients -> Call] /\ ArgsInv' /\ ReadsInv' /\ LockInv'
    <2>1. \A b \in Accounts : acct[b].status # "absent" => acct'[b].status # "absent"
      BY <1>7, <1>9
    <2> QED
      BY <1>2, <1>12, <1>13, <2>1, EndFrame
  <1>15. TypeOK'
    <2>1. acct' \in [Accounts -> AcctRow] /\ roles' \in [Accounts -> SUBSET GlobalRoles]
      BY <1>1, <1>7, <1>8 DEF TypeOK, GlobalRoles
    <2>2. \A b \in Accounts : acct'[b].status # "absent" => acct'[b].email # None
      BY <1>7, <1>9 DEF TypeOK
    <2> QED
      BY <1>2, <1>10, <1>13, <1>14, <2>1, <2>2 DEF TypeOK
  <1>16. \A s \in Requests : s # r => req'[s] = req[s]
    BY <1>10
  <1>17. RowsInv'
    BY <1>3, <1>7, <1>9, <1>11, <1>16 DEF RowsInv
  <1>18. AdminInv'
    BY <1>9 DEF AdminInv, SystemAdmins
  <1>19. ApprovalInv'
    <2>1. \A s \in Requests : req[s].acct # a
      <3> SUFFICES ASSUME NEW s \in Requests, req[s].acct = a PROVE FALSE
        OBVIOUS
      <3>1. acct[a].origin = "request"
        BY NoneAssumption DEF ApprovalInv
      <3> QED
        BY <1>8, <3>1 DEF RowsInv
    <2>2. req[r].acct = None /\ a # None
      BY <1>3, NoneAssumption DEF ApprovalInv
    <2>3. \A s \in Requests : req[s].status = "approved" => req[s].acct \in Accounts
      BY DEF ApprovalInv, TypeOK, ReqRow, Or
    <2>4. \A s \in Requests :
            /\ req'[s].status = "approved" <=> req'[s].acct # None
            /\ req'[s].status = "approved" =>
                 /\ acct'[req'[s].acct].origin = "request"
                 /\ acct'[req'[s].acct].org = req'[s].org
      BY <1>7, <1>9, <1>11, <1>16, <2>1, <2>2, <2>3 DEF ApprovalInv
    <2>5. \A b \in Accounts :
            acct'[b].origin = "request" => \E s \in Requests : req'[s].acct = b
      <3> SUFFICES ASSUME NEW b \in Accounts, acct'[b].origin = "request"
                   PROVE  \E s \in Requests : req'[s].acct = b
        OBVIOUS
      <3>1. CASE b = a
        BY <1>3, <1>11, <3>1
      <3>2. CASE b # a
        <4>1. PICK s \in Requests : req[s].acct = b
          BY <1>9, <3>2 DEF ApprovalInv
        <4>2. s # r
          BY <2>2, <4>1, NoneAssumption
        <4> QED
          BY <1>16, <4>1, <4>2
      <3> QED
        BY <3>1, <3>2
    <2>6. \A s, t \in Requests :
            req'[s].acct # None /\ req'[s].acct = req'[t].acct => s = t
      BY <1>11, <1>16, <2>1, <2>2 DEF ApprovalInv
    <2> QED
      BY <2>4, <2>5, <2>6 DEF ApprovalInv
  <1> QED
    BY <1>13, <1>14, <1>15, <1>17, <1>18, <1>19

-----------------------------------------------------------------------------
LEMMA SessionKeeps ==
    ASSUME IInv, sessions' \subseteq Accounts,
           UNCHANGED <<dept, org, acct, roles, req, raced, call>>
    PROVE  IInv'
  <1> USE DEF IInv
  <1>1. TypeOK'
    BY DEF TypeOK
  <1>2. ArgsInv' /\ ReadsInv' /\ LockInv'
    BY DEF ArgsInv, Args, ReadsInv, Reads, LockInv
  <1>3. JoinInv'
    BY DEF JoinInv, Joined, Emptied, Kept, HasActiveUsers
  <1>4. DepartmentsCloseEmpty'
    BY DEF DepartmentsCloseEmpty
  <1> QED
    BY <1>1, <1>2, <1>3, <1>4, DirectoryFrame

LEMMA StepInv == ASSUME IInv, [Next]_vars PROVE IInv'
  <1>1. CASE SessionNext
    BY <1>1, SessionKeeps, AuthenticateKeeps
       DEF SessionNext, login, session_ends, IInv, TypeOK
  <1>2. CASE OwnerNext
    BY <1>2, BeginBootstrapKeeps, BootstrapKeeps, BeginStartupKeeps, StartupKeeps
       DEF OwnerNext
  <1>3. CASE DirectoryNext
    BY <1>3, CreateDepartmentKeeps, BeginCloseKeeps, BeginJoinKeeps, CloseKeeps,
       JoinKeeps, PatchOrgKeeps, DeactivateOrgKeeps, BeginPatchOrgKeeps
       DEF DirectoryNext
  <1>4. CASE RequestNext
    BY <1>4, BeginRequestKeeps, RequestKeeps, BeginApproveKeeps, RejectKeeps,
       ApproveKeeps DEF RequestNext
  <1>5. CASE AccountNext
    BY <1>5, BeginManagedKeeps, ManagedKeeps, BeginTransferKeeps, BeginPatchKeeps,
       PatchKeeps, TransferKeeps DEF AccountNext
  <1>6. ASSUME NEW c \in Clients, abort(c) PROVE IInv'
    BY <1>6, AbortKeeps
  <1>7. CASE UNCHANGED vars
    BY <1>7, SessionKeeps DEF vars, IInv, TypeOK
  <1> QED
    BY <1>1, <1>2, <1>3, <1>4, <1>5, <1>6, <1>7 DEF Next

LEMMA Invariance == Spec => []IInv
  BY InitInv, StepInv, PTL DEF Spec

\* The tables stay well formed, and no column that the schema calls NOT
\* NULL is ever empty, whatever calls overlap.
THEOREM TypeCorrect == Spec => []TypeOK
  <1>1. IInv => TypeOK
    BY DEF IInv
  <1> QED
    BY <1>1, Invariance, PTL

\* At most one account holds system_admin: bootstrap, application start,
\* creation, patch and transfer each meet the partial unique index.
THEOREM OneSystemAdmin == Spec => []SingleSystemAdmin
  <1>1. ASSUME IInv PROVE SingleSystemAdmin
    <2>1. CASE SystemAdmins = {}
      BY <2>1, FS_EmptySet DEF SingleSystemAdmin
    <2>2. CASE SystemAdmins # {}
      <3>1. PICK a \in SystemAdmins : TRUE
        BY <2>2
      <3>2. SystemAdmins = {a}
        BY <1>1, <3>1 DEF IInv, AdminInv
      <3>3. Cardinality({a}) = 1
        BY FS_Singleton
      <3> QED
        BY <3>2, <3>3 DEF SingleSystemAdmin
    <2> QED
      BY <2>1, <2>2
  <1> QED
    BY <1>1, Invariance, PTL

\* An account made for an access request exists exactly when that request
\* is approved, and belongs to that request alone.
THEOREM ApprovalsAreWhole == Spec => []ApprovalIsWhole
  <1>1. ASSUME IInv PROVE ApprovalIsWhole
    <2>1. ASSUME NEW a \in Accounts, acct[a].origin = "request"
          PROVE  Cardinality({r \in Requests : req[r].acct = a}) = 1
      <3>1. PICK r \in Requests : req[r].acct = a
        BY <1>1, <2>1 DEF IInv, ApprovalInv
      <3>2. {s \in Requests : req[s].acct = a} = {r}
        BY <1>1, <3>1, NoneAssumption DEF IInv, ApprovalInv
      <3> QED
        BY <3>2, FS_Singleton
    <2> QED
      BY <1>1, <2>1 DEF ApprovalIsWhole, IInv, ApprovalInv
  <1> QED
    BY <1>1, Invariance, PTL

\* A department with an active organization user is active, unless it was
\* closed while a call that had checked it was open.
THEOREM DepartmentsStayOpen == Spec => []DepartmentsCloseEmpty
  <1>1. IInv => DepartmentsCloseEmpty
    BY DEF IInv
  <1> QED
    BY <1>1, Invariance, PTL

\* The later of two decisions about an access request is refused: approve
\* and reject read the status under the row lock and approve keeps it.
THEOREM DecisionsStay == Spec => DecisionsAreFinal
  <1> DEFINE Final == \A r \in Requests :
                req[r].status \in {"approved", "rejected"} => req'[r] = req[r]
  <1>1. ASSUME IInv, [Next]_vars PROVE Final
    <2>1. SUFFICES ASSUME NEW r \in Requests, req[r].status \in {"approved", "rejected"}
                   PROVE  req'[r] = req[r]
      OBVIOUS
    <2>2. req \in [Requests -> ReqRow]
      BY <1>1 DEF IInv, TypeOK
    <2>3. CASE \E c \in Clients : create_admin_access_request(c)
      BY <2>1, <2>2, <2>3 DEF create_admin_access_request
    <2>4. CASE \E c \in Clients, s \in Requests : reject_admin_access_request(c, s)
      BY <2>1, <2>2, <2>4 DEF reject_admin_access_request
    <2>5. CASE \E c \in Clients : approve_admin_access_request(c)
      <3>1. PICK c \in Clients : approve_admin_access_request(c)
        BY <2>5
      <3>2. call[c].req # r
        BY <1>1, <2>1, <3>1 DEF IInv, LockInv, approve_admin_access_request
      <3>3. \E o, a : req' = [req EXCEPT ![call[c].req].status = "approved",
                                        ![call[c].req].org = o, ![call[c].req].acct = a]
        BY <3>1 DEF approve_admin_access_request
      <3> QED
        BY <2>2, <3>2, <3>3
    <2>6. CASE SessionNext \/ OwnerNext
      BY <2>6 DEF SessionNext, login, session_ends, authenticate, OwnerNext,
         begin_bootstrap_admin, bootstrap_admin, begin_configure_startup_system_admin,
         configure_startup_system_admin
    <2>7. CASE DirectoryNext
      <3>1. \A c \in Clients, d \in Depts :
              /\ create_department(c, d) => UNCHANGED req
              /\ begin_deactivate_department(c, d) => UNCHANGED req
              /\ \A n \in Numbers :
                   begin_create_organization_user(c, n, d) => UNCHANGED req
        BY DEF create_department, begin_deactivate_department,
           begin_create_organization_user
      <3>2. \A c \in Clients :
              deactivate_department(c) \/ create_organization_user(c)
                \/ patch_organization_user(c) => UNCHANGED req
        BY DEF deactivate_department, create_organization_user,
           patch_organization_user
      <3>3. \A c \in Clients, o \in Orgs :
              /\ deactivate_organization_user(c, o) => UNCHANGED req
              /\ \A p \in OrgPatches :
                   begin_patch_organization_user(c, o, p) => UNCHANGED req
        BY DEF deactivate_organization_user, begin_patch_organization_user
      <3> QED
        BY <2>7, <3>1, <3>2, <3>3 DEF DirectoryNext
    <2>8. CASE AccountNext
      <3>1. \A c \in Clients, o \in Orgs, e \in Emails, n \in NewAccounts :
              begin_create_managed_admin_user(c, o, e, n) => UNCHANGED req
        BY DEF begin_create_managed_admin_user
      <3>2. \A c \in Clients :
              create_managed_admin_user(c) \/ patch_managed_admin_user(c)
                \/ transfer_system_admin(c) => UNCHANGED req
        BY DEF create_managed_admin_user, patch_managed_admin_user,
           transfer_system_admin
      <3>3. \A c \in Clients, a \in Accounts :
              begin_transfer_system_admin(c, a) => UNCHANGED req
        BY DEF begin_transfer_system_admin
      <3>4. ASSUME NEW c \in Clients, NEW a \in Accounts, NEW p \in AccountPatches,
                   begin_patch_managed_admin_user(c, a, p)
            PROVE  UNCHANGED req
        <4>1. UNCHANGED <<tables, raced>>
          BY <3>4, Zenon DEF begin_patch_managed_admin_user
        <4> QED
          BY <4>1
      <3> QED
        BY <2>8, <3>1, <3>2, <3>3, <3>4 DEF AccountNext
    <2>9. CASE \/ UNCHANGED vars
               \/ \E c \in Clients : abort(c)
               \/ \E c \in Clients, s \in Requests :
                    begin_approve_admin_access_request(c, s)
               \/ \E c \in Clients, n \in Numbers, d \in Depts, e \in Emails :
                    begin_create_admin_access_request(c, n, d, e)
      BY <2>9 DEF vars, abort, begin_approve_admin_access_request,
         begin_create_admin_access_request
    <2> QED
      BY <1>1, <2>3, <2>4, <2>5, <2>6, <2>7, <2>8, <2>9 DEF Next, RequestNext
  <1>2. IInv /\ [Next]_vars => [Final]_vars
    BY <1>1
  <1>3. Spec => [][Final]_vars
    BY <1>2, Invariance, PTL DEF Spec
  <1> QED
    BY <1>3 DEF DecisionsAreFinal

=============================================================================
