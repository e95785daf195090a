---------------------------- MODULE AdminAccounts ----------------------------
(***************************************************************************)
(* People, accounts and authority of the admin console: departments and    *)
(* organization users, admin accounts with their global roles, sessions,   *)
(* and self-service access requests.                                       *)
(*                                                                         *)
(* A call is up to three steps.  `authenticate' reads the session and the  *)
(* roles and commits, so everything after it runs on a context that may    *)
(* be stale (expire_on_commit is off).  A `begin_' step is the handler's   *)
(* reads and checks, made without locks except where the code says FOR     *)
(* UPDATE.  The last step writes and commits.  A check that fails, an      *)
(* index that refuses the write and a worker that dies are all `abort'.    *)
(***************************************************************************)
EXTENDS Integers, FiniteSets

CONSTANTS
    Clients,        \* API workers, each with one open database session
    Depts,          \* departments.id
    Orgs,           \* users.id: the organization directory
    Numbers,        \* users.user_number
    Accounts,       \* admin_users.user_id
    Emails,         \* admin_users.email_normalized
    Requests,       \* admin_access_requests.request_id
    NewAccounts,    \* status and global_roles of the creations tried
    AccountPatches, \* email, status, global_roles of the patches tried
    OrgPatches,     \* user_number, department_id, use_yn of the patches tried
    StartupEmail,   \* the configured startup administrator, or None
    None            \* SQL NULL, a field left out of a request

GlobalRoles == {"system_admin", "application_admin"}
Statuses == {"active", "disabled"}
Or(S) == S \cup {None}

Origins == {"bootstrap", "startup", "request", "managed"}

ASSUME NoneAssumption ==
    None \notin Clients \cup Depts \cup Orgs \cup Numbers \cup Accounts
                \cup Emails \cup Requests \cup Statuses \cup Origins
                \cup {"Y", "N"}

ASSUME InputsAssumption ==
    /\ StartupEmail \in Or(Emails)
    /\ NewAccounts \subseteq [status : Statuses, roles : SUBSET GlobalRoles]
    /\ AccountPatches \subseteq [email : Or(Emails), status : Or(Statuses),
                                 roles : Or(SUBSET GlobalRoles)]
    /\ OrgPatches \subseteq [number : Or(Numbers), dept : Or(Depts),
                             use : Or({"Y", "N"})]

VARIABLES
    dept,       \* departments.use_yn
    org,        \* the users table
    acct,       \* the admin_users table
    roles,      \* admin_user_roles: the global roles of each account
    sessions,   \* accounts with a session neither revoked nor expired
    req,        \* the admin_access_requests table
    raced,      \* departments closed while a call that joins one was open
    call        \* each worker's open call: its context, reads, arguments

tables == <<dept, org, acct, roles, sessions, req>>
vars == <<dept, org, acct, roles, sessions, req, raced, call>>

-----------------------------------------------------------------------------
Use == {"absent", "Y", "N"}
Ops == {"idle", "authed", "bootstrap", "startup", "request", "approve",
        "join", "patch_org", "close", "managed", "patch", "transfer"}

OrgRow == [use : Use, dept : Or(Depts), number : Or(Numbers)]
AcctRow == [status : {"absent", "active", "disabled"}, email : Or(Emails),
            org : Or(Orgs), password : BOOLEAN, origin : Or(Origins)]
ReqRow == [status : {"absent", "pending", "approved", "rejected"},
           number : Or(Numbers), dept : Or(Depts), email : Or(Emails),
           org : Or(Orgs), acct : Or(Accounts)]
Call == [op : Ops, actor : Or(Accounts),
         dept : Or(Depts), org : Or(Orgs), number : Or(Numbers),
         acct : Or(Accounts), email : Or(Emails), req : Or(Requests),
         value : Or({"Y", "N", "active", "disabled"}),
         grant : SUBSET GlobalRoles, revoke : SUBSET GlobalRoles]

NoOrg == [use |-> "absent", dept |-> None, number |-> None]
NoAcct == [status |-> "absent", email |-> None, org |-> None,
           password |-> FALSE, origin |-> None]
NoReq == [status |-> "absent", number |-> None, dept |-> None,
          email |-> None, org |-> None, acct |-> None]
Idle == [op |-> "idle", actor |-> None, dept |-> None, org |-> None,
         number |-> None, acct |-> None, email |-> None,
         req |-> None, value |-> None, grant |-> {}, revoke |-> {}]

\* Rows are well typed, and no column the schema calls NOT NULL is empty.
TypeOK ==
    /\ dept \in [Depts -> Use]
    /\ org \in [Orgs -> OrgRow]
    /\ acct \in [Accounts -> AcctRow]
    /\ roles \in [Accounts -> SUBSET GlobalRoles]
    /\ sessions \subseteq Accounts
    /\ req \in [Requests -> ReqRow]
    /\ raced \subseteq Depts
    /\ call \in [Clients -> Call]
    /\ \A o \in Orgs :
        org[o].use # "absent" => org[o].dept # None /\ org[o].number # None
    /\ \A a \in Accounts : acct[a].status # "absent" => acct[a].email # None

\* A database the migrations have just made: every table is empty.
Init ==
    /\ dept = [d \in Depts |-> "absent"]
    /\ org = [o \in Orgs |-> NoOrg]
    /\ acct = [a \in Accounts |-> NoAcct]
    /\ roles = [a \in Accounts |-> {}]
    /\ sessions = {}
    /\ req = [r \in Requests |-> NoReq]
    /\ raced = {}
    /\ call = [c \in Clients |-> Idle]

-----------------------------------------------------------------------------
(* The unique constraints, as the INSERT or UPDATE of `id' meets them.     *)

Exists(a) == acct[a].status # "absent"
EmailFree(e, id) == \A a \in Accounts \ {id} : acct[a].email # e
NumberFree(n, id) == \A o \in Orgs \ {id} : org[o].number # n
Unlinked(o) == \A a \in Accounts : acct[a].org # o
SystemAdmins == {a \in Accounts : "system_admin" \in roles[a]}
\* assert_can_assign_system_admin and uq_admin_user_roles_single_system_admin
AdminFree_unchecked(a) == TRUE
AdminFree(a) == SystemAdmins \subseteq {a}
NoPending(n, e) ==
    \A r \in Requests :
        req[r].status = "pending" => req[r].number # n /\ req[r].email # e

\* The row conditions of login, sessions and the administrator count.
LinkActive(a) == acct[a].org # None => org[acct[a].org].use = "Y"
Eligible(a) == acct[a].status = "active" /\ LinkActive(a) /\ roles[a] # {}
EligibleAdmins == {a \in SystemAdmins : Eligible(a)}

-----------------------------------------------------------------------------
Open(c, k) == call' = [call EXCEPT ![c] = k]
End(c) == call' = [call EXCEPT ![c] = Idle]

\* The request row stays locked from approve's SELECT FOR UPDATE to its end.
Locked_never(r) == FALSE
Locked(r) == \E c \in Clients : call[c].op = "approve" /\ call[c].req = r
\* acquire_advisory_xact_lock: one call of its kind at a time.
Alone(op) == \A c \in Clients : call[c].op # op

Joins == {"join", "patch_org", "approve"}
\* A call joining a department opens while others of them are being closed.
NoteJoin ==
    raced' = raced \cup
        {call[c].dept : c \in {k \in Clients : call[k].op = "close"}}
NoteClose(d) ==
    raced' = raced \cup
        {d : c \in {k \in Clients : call[k].op \in Joins}}

\* A database error, an HTTP error after the first read, or a dead worker:
\* the transaction rolls back and its locks go with it.
abort(c) ==
    /\ call[c].op # "idle"
    /\ End(c)
    /\ UNCHANGED <<tables, raced>>

-----------------------------------------------------------------------------
(* Sessions                                                                *)

login(a) ==
    /\ Exists(a) /\ acct[a].password /\ Eligible(a)
    /\ a \notin sessions
    /\ sessions' = sessions \cup {a}
    /\ UNCHANGED <<dept, org, acct, roles, req, raced, call>>

\* logout, and expires_at passing.
session_ends(a) ==
    /\ a \in sessions
    /\ sessions' = sessions \ {a}
    /\ UNCHANGED <<dept, org, acct, roles, req, raced, call>>

\* The context of a management call.  _require_system_admin looks only at
\* the roles it holds: a call without the role ends here.
authenticate(c, a) ==
    /\ call[c].op = "idle"
    /\ a \in sessions /\ Eligible(a)
    /\ "system_admin" \in roles[a]
    /\ Open(c, [Idle EXCEPT !.op = "authed", !.actor = a])
    /\ UNCHANGED <<tables, raced>>

Manager(c) == call[c].op = "authed"

-----------------------------------------------------------------------------
(* The first administrator: the bootstrap endpoint, and application start. *)

begin_bootstrap_admin(c, e) ==
    /\ call[c].op = "idle" /\ Alone("bootstrap")
    /\ SystemAdmins = {}
    /\ EmailFree(e, None)
    /\ Open(c, [Idle EXCEPT !.op = "bootstrap", !.email = e])
    /\ UNCHANGED <<tables, raced>>

\* create_admin_user and assign_admin_user_role of the first administrator.
CreateOwner(c, origin) ==
    \E a \in Accounts :
        /\ ~Exists(a)
        /\ EmailFree(call[c].email, a) /\ AdminFree(a)
        /\ acct' = [acct EXCEPT ![a] =
               [NoAcct EXCEPT !.status = "active", !.email = call[c].email,
                              !.password = TRUE, !.origin = origin]]
        /\ roles' = [roles EXCEPT ![a] = {"system_admin"}]

bootstrap_admin(c) ==
    /\ call[c].op = "bootstrap"
    /\ CreateOwner(c, "bootstrap")
    /\ End(c)
    /\ UNCHANGED <<dept, org, sessions, req, raced>>

\* The start of a worker process.  Any holder of the role other than the
\* configured account stops the start with a ValueError.
begin_configure_startup_system_admin(c) ==
    /\ call[c].op = "idle" /\ Alone("startup")
    /\ StartupEmail # None
    /\ \E a \in Or(Accounts) :
        /\ IF a = None THEN EmailFree(StartupEmail, None)
                       ELSE acct[a].email = StartupEmail
        /\ SystemAdmins \subseteq {a}
        /\ Open(c, [Idle EXCEPT !.op = "startup", !.email = StartupEmail,
                                !.acct = a,
                                !.grant = {"system_admin"} \
                                    (IF a = None THEN {} ELSE roles[a])])
    /\ UNCHANGED <<tables, raced>>

\* The password is set and the role ensured; a disabled account stays so.
configure_startup_system_admin(c) ==
    /\ call[c].op = "startup"
    /\ LET a == call[c].acct
       IN \/ /\ a = None
             /\ CreateOwner(c, "startup")
          \/ /\ a # None
             /\ call[c].grant # {} => AdminFree(a)
             /\ acct' = [acct EXCEPT ![a].password = TRUE]
             /\ roles' = [roles EXCEPT ![a] = @ \cup call[c].grant]
    /\ End(c)
    /\ UNCHANGED <<dept, org, sessions, req, raced>>

-----------------------------------------------------------------------------
(* The organization directory                                              *)

\* Department creation, and a patch with use_yn = 'Y'.
create_department(c, d) ==
    /\ Manager(c)
    /\ dept[d] # "Y"
    /\ dept' = [dept EXCEPT ![d] = "Y"]
    /\ End(c)
    /\ UNCHANGED <<org, acct, roles, sessions, req, raced>>

\* _department_has_active_organization_users, for DELETE and for a patch
\* with use_yn = 'N'.
HasActiveUsers_ignored(d) == FALSE
HasActiveUsers(d) == \E o \in Orgs : org[o].use = "Y" /\ org[o].dept = d

begin_deactivate_department(c, d) ==
    /\ Manager(c)
    /\ dept[d] # "absent" /\ ~HasActiveUsers(d)
    /\ Open(c, [call[c] EXCEPT !.op = "close", !.dept = d])
    /\ NoteClose(d)
    /\ UNCHANGED tables

deactivate_department(c) ==
    /\ call[c].op = "close"
    /\ dept' = [dept EXCEPT ![call[c].dept] = "N"]
    /\ End(c)
    /\ UNCHANGED <<org, acct, roles, sessions, req, raced>>

begin_create_organization_user(c, n, d) ==
    /\ Manager(c)
    /\ dept[d] = "Y"
    /\ Open(c, [call[c] EXCEPT !.op = "join", !.number = n, !.dept = d])
    /\ NoteJoin
    /\ UNCHANGED tables

InsertOrg(o, n, d) ==
    /\ org[o].use = "absent" /\ NumberFree(n, o)
    /\ org' = [org EXCEPT ![o] = [use |-> "Y", dept |-> d, number |-> n]]

create_organization_user(c) ==
    /\ call[c].op = "join"
    /\ \E o \in Orgs : InsertOrg(o, call[c].number, call[c].dept)
    /\ End(c)
    /\ UNCHANGED <<dept, acct, roles, sessions, req, raced>>

\* A field left out is None; so is one that equals what was read, since
\* the UPDATE names only the columns that changed.
begin_patch_organization_user(c, o, p) ==
    /\ Manager(c)
    /\ org[o].use # "absent"
    /\ p.dept # None => dept[p.dept] = "Y"
    /\ p.use = "Y" =>
           dept[IF p.dept # None THEN p.dept ELSE org[o].dept] = "Y"
    /\ Open(c, [call[c] EXCEPT
               !.op = "patch_org", !.org = o,
               !.number = IF p.number = org[o].number THEN None ELSE p.number,
               !.dept = IF p.dept = org[o].dept THEN None ELSE p.dept,
               !.value = IF p.use = org[o].use THEN None ELSE p.use])
    /\ NoteJoin
    /\ UNCHANGED tables

patch_organization_user_null(c) ==
    /\ call[c].op = "patch_org"
    /\ org' = [org EXCEPT ![call[c].org].dept = call[c].dept]
    /\ End(c)
    /\ UNCHANGED <<dept, acct, roles, sessions, req, raced>>

patch_organization_user(c) ==
    /\ call[c].op = "patch_org"
    /\ LET k == call[c]
           new(field, old) == IF field = None THEN old ELSE field
       IN /\ k.number # None => NumberFree(k.number, k.org)
          /\ org' = [org EXCEPT ![k.org] =
                 [use |-> new(k.value, @.use), dept |-> new(k.dept, @.dept),
                  number |-> new(k.number, @.number)]]
    /\ End(c)
    /\ UNCHANGED <<dept, acct, roles, sessions, req, raced>>

\* No check: neither for the person's admin account nor for its roles.
deactivate_organization_user(c, o) ==
    /\ Manager(c)
    /\ org[o].use # "absent"
    /\ org' = [org EXCEPT ![o].use = "N"]
    /\ End(c)
    /\ UNCHANGED <<dept, acct, roles, sessions, req, raced>>

-----------------------------------------------------------------------------
(* Access requests: anybody may ask, the system_admin decides.             *)

begin_create_admin_access_request(c, n, d, e) ==
    /\ call[c].op = "idle"
    /\ dept[d] = "Y" /\ NumberFree(n, None) /\ EmailFree(e, None)
    /\ Open(c, [Idle EXCEPT !.op = "request", !.number = n, !.dept = d,
                            !.email = e])
    /\ UNCHANGED <<tables, raced>>

create_admin_access_request(c) ==
    /\ call[c].op = "request"
    /\ NoPending(call[c].number, call[c].email)
    /\ \E r \in Requests :
        /\ req[r].status = "absent"
        /\ req' = [req EXCEPT ![r] =
               [NoReq EXCEPT !.status = "pending", !.number = call[c].number,
                             !.dept = call[c].dept, !.email = call[c].email]]
    /\ End(c)
    /\ UNCHANGED <<dept, org, acct, roles, sessions, raced>>

begin_approve_admin_access_request(c, r) ==
    /\ Manager(c)
    /\ ~Locked(r)
    /\ req[r].status = "pending"
    /\ dept[req[r].dept] = "Y"
    /\ NumberFree(req[r].number, None) /\ EmailFree(req[r].email, None)
    /\ Open(c, [call[c] EXCEPT !.op = "approve", !.req = r])
    /\ NoteJoin
    /\ UNCHANGED tables

\* The organization user, the account, its role and the decision in one
\* transaction.
approve_admin_access_request(c) ==
    /\ call[c].op = "approve"
    /\ LET r == call[c].req
       IN \E o \in Orgs, a \in Accounts :
            /\ InsertOrg(o, req[r].number, req[r].dept)
            /\ ~Exists(a) /\ EmailFree(req[r].email, a)
            /\ acct' = [acct EXCEPT ![a] =
                   [status |-> "active", email |-> req[r].email, org |-> o,
                    password |-> TRUE, origin |-> "request"]]
            /\ roles' = [roles EXCEPT ![a] = {"application_admin"}]
            /\ req' = [req EXCEPT ![r].status = "approved", ![r].org = o,
                                  ![r].acct = a]
    /\ End(c)
    /\ UNCHANGED <<dept, sessions, raced>>

\* A rejection that looks only at the lock.
reject_admin_access_request_any(c, r) ==
    /\ Manager(c)
    /\ ~Locked(r)
    /\ req[r].status # "absent"
    /\ req' = [req EXCEPT ![r].status = "rejected"]
    /\ End(c)
    /\ UNCHANGED <<dept, org, acct, roles, sessions, raced>>

reject_admin_access_request(c, r) ==
    /\ Manager(c)
    /\ ~Locked(r)
    /\ req[r].status = "pending"
    /\ req' = [req EXCEPT ![r].status = "rejected"]
    /\ End(c)
    /\ UNCHANGED <<dept, org, acct, roles, sessions, raced>>

-----------------------------------------------------------------------------
(* Admin accounts under management                                         *)

begin_create_managed_admin_user(c, o, e, n) ==
    /\ Manager(c)
    /\ org[o].use = "Y" /\ Unlinked(o) /\ EmailFree(e, None)
    /\ Open(c, [call[c] EXCEPT !.op = "managed", !.org = o, !.email = e,
                               !.value = n.status, !.grant = n.roles])
    /\ UNCHANGED <<tables, raced>>

\* The account gets DISABLED_ADMIN_PASSWORD_HASH: nobody can log in to it.
create_managed_admin_user(c) ==
    /\ call[c].op = "managed"
    /\ \E a \in Accounts :
        /\ ~Exists(a)
        /\ EmailFree(call[c].email, a) /\ Unlinked(call[c].org)
        /\ "system_admin" \in call[c].grant => AdminFree(a)
        /\ acct' = [acct EXCEPT ![a] =
               [status |-> call[c].value, email |-> call[c].email,
                org |-> call[c].org, password |-> FALSE,
                origin |-> "managed"]]
        /\ roles' = [roles EXCEPT ![a] = call[c].grant]
    /\ End(c)
    /\ UNCHANGED <<dept, org, sessions, req, raced>>

\* _require_not_self_last_system_admin
NotSelfLast(c, a) ==
    a = call[c].actor /\ "system_admin" \in roles[a]
        => Cardinality(EligibleAdmins) > 1

\* The caller's own row was loaded, active, when the session was read.
ReadStatus(c, a) == IF a = call[c].actor THEN "active" ELSE acct[a].status

\* A field the request leaves out is None.
begin_patch_managed_admin_user(c, a, p) ==
    /\ Manager(c) /\ Exists(a)
    /\ p.status = "active" => LinkActive(a)
    /\ p.status = "disabled" /\ ReadStatus(c, a) = "active"
           => NotSelfLast(c, a)
    /\ LET grant == IF p.roles = None THEN {} ELSE p.roles \ roles[a]
           revoke == IF p.roles = None THEN {} ELSE roles[a] \ p.roles
       IN /\ "system_admin" \in grant => AdminFree(a)
          /\ "system_admin" \in revoke => NotSelfLast(c, a)
          /\ Open(c, [call[c] EXCEPT
                 !.op = "patch", !.acct = a,
                 !.email = IF p.email = acct[a].email THEN None ELSE p.email,
                 !.value = IF p.status = ReadStatus(c, a) THEN None
                           ELSE p.status,
                 !.grant = grant, !.revoke = revoke])
    /\ UNCHANGED <<tables, raced>>

\* The changed columns, then the grants, then the revocations: a row that
\* another call deleted meanwhile is deleted again without an error.
patch_managed_admin_user(c) ==
    /\ call[c].op = "patch"
    /\ LET k == call[c]
       IN /\ k.email # None => EmailFree(k.email, k.acct)
          /\ "system_admin" \in k.grant => AdminFree(k.acct)
          /\ acct' = [acct EXCEPT
                 ![k.acct].email = IF k.email = None THEN @ ELSE k.email,
                 ![k.acct].status = IF k.value = None THEN @ ELSE k.value]
          /\ roles' = [roles EXCEPT ![k.acct] = (@ \cup k.grant) \ k.revoke]
    /\ End(c)
    /\ UNCHANGED <<dept, org, sessions, req, raced>>

begin_transfer_system_admin(c, a) ==
    /\ Manager(c)
    /\ a # call[c].actor
    /\ acct[a].status = "active" /\ LinkActive(a)
    /\ "system_admin" \in roles[call[c].actor]
    /\ "application_admin" \in roles[a]
    /\ Open(c, [call[c] EXCEPT
               !.op = "transfer", !.acct = a,
               !.grant = {"application_admin"} \ roles[call[c].actor]])
    /\ UNCHANGED <<tables, raced>>

\* The source gives the role up first, so that the index admits the target.
transfer_system_admin(c) ==
    /\ call[c].op = "transfer"
    /\ LET from == call[c].actor
           to == call[c].acct
       IN /\ SystemAdmins \subseteq {from, to}
          /\ roles' = [roles EXCEPT
                 ![from] = (@ \ {"system_admin"}) \cup call[c].grant,
                 ![to] = (@ \cup {"system_admin"}) \ {"application_admin"}]
    /\ End(c)
    /\ UNCHANGED <<dept, org, acct, sessions, req, raced>>

-----------------------------------------------------------------------------
SessionNext ==
    \/ \E a \in Accounts : login(a) \/ session_ends(a)
    \/ \E c \in Clients, a \in Accounts : authenticate(c, a)

OwnerNext ==
    \E c \in Clients :
        \/ \E e \in Emails : begin_bootstrap_admin(c, e)
        \/ bootstrap_admin(c)
        \/ begin_configure_startup_system_admin(c)
        \/ configure_startup_system_admin(c)

DirectoryNext ==
    \E c \in Clients :
        \/ \E d \in Depts : \/ create_department(c, d)
                            \/ begin_deactivate_department(c, d)
                            \/ \E n \in Numbers :
                                 begin_create_organization_user(c, n, d)
        \/ deactivate_department(c)
        \/ create_organization_user(c)
        \/ patch_organization_user(c)
        \/ \E o \in Orgs :
             \/ deactivate_organization_user(c, o)
             \/ \E p \in OrgPatches : begin_patch_organization_user(c, o, p)

RequestNext ==
    \E c \in Clients :
        \/ \E n \in Numbers, d \in Depts, e \in Emails :
             begin_create_admin_access_request(c, n, d, e)
        \/ create_admin_access_request(c)
        \/ \E r \in Requests : \/ begin_approve_admin_access_request(c, r)
                               \/ reject_admin_access_request(c, r)
        \/ approve_admin_access_request(c)

AccountNext ==
    \E c \in Clients :
        \/ \E o \in Orgs, e \in Emails, n \in NewAccounts :
             begin_create_managed_admin_user(c, o, e, n)
        \/ create_managed_admin_user(c)
        \/ \E a \in Accounts :
             \/ begin_transfer_system_admin(c, a)
             \/ \E p \in AccountPatches :
                  begin_patch_managed_admin_user(c, a, p)
        \/ patch_managed_admin_user(c)
        \/ transfer_system_admin(c)

Next ==
    \/ SessionNext \/ OwnerNext \/ DirectoryNext \/ RequestNext
    \/ AccountNext
    \/ \E c \in Clients : abort(c)

Spec == Init /\ [][Next]_vars

-----------------------------------------------------------------------------
\* At most one account holds system_admin, although the bootstrap endpoint
\* and the start of a worker check for it under different advisory locks
\* and a patch, a creation and a transfer check under none.
SingleSystemAdmin == Cardinality(SystemAdmins) <= 1

\* A decided request keeps its decision: approve and reject read it under
\* its row lock, so the later of two overlapping decisions is refused.
DecisionsAreFinal ==
    [][\A r \in Requests :
        req[r].status \in {"approved", "rejected"} => req'[r] = req[r]]_vars

\* An account made for an access request exists exactly when that request
\* is approved, and it is the request's own: no account survives a rejected
\* request, and no two requests share an account or a person.
ApprovalIsWhole ==
    /\ \A r \in Requests :
        /\ req[r].status = "approved" <=> req[r].acct # None
        /\ req[r].status = "approved" =>
              /\ acct[req[r].acct].origin = "request"
              /\ acct[req[r].acct].org = req[r].org
    /\ \A a \in Accounts :
        acct[a].origin = "request" =>
            Cardinality({r \in Requests : req[r].acct = a}) = 1

\* A department with an active organization user is active, except one
\* closed while a call that had checked it was still open: the check and
\* the write of a closing, a joining and a move lock nothing.
DepartmentsCloseEmpty ==
    \A o \in Orgs :
        org[o].use = "Y" /\ dept[org[o].dept] = "N" => org[o].dept \in raced

\* From the first administrator on there is a system_admin that can pass
\* authentication: "Cannot remove or disable the last active system_admin."
SystemAdminStays ==
    (\E a \in Accounts : Exists(a)) => EligibleAdmins # {}

=============================================================================
