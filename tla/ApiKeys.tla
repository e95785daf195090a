------------------------------ MODULE ApiKeys ------------------------------
(***************************************************************************)
(* One Service, its members and its runtime API keys: the membership and   *)
(* API key handlers of api/admin.py, the lookup of api/dependencies.py and *)
(* the audit rows they write.                                              *)
(*                                                                         *)
(* A handler's context is what authentication read at its start.  Revoke   *)
(* and reveal read the key with SELECT ... FOR UPDATE, so they take the    *)
(* row lock in one step and commit in the next; granting a role reads the  *)
(* membership row first and lets the INSERT decide.                        *)
(***************************************************************************)
EXTENDS Naturals, Sequences, FiniteSets

CONSTANTS
    Keys,        \* rows of api_keys that may be created
    Users,       \* active admin accounts
    Admin,       \* the account that holds system_admin
    Clients,     \* admin requests that may be in flight
    NoOne,       \* no client, no user
    NoKey,       \* no key
    MaxCalls     \* bound on the admin requests and expirations

ASSUME KeysAssumption ==
    /\ Admin \in Users
    /\ NoOne \notin Users \cup Clients
    /\ NoKey \notin Keys
    /\ MaxCalls \in Nat

VARIABLES
    service,   \* "none", "created", or "released" once a release is active
    key,       \* the status column of each key
    expired,   \* the keys whose expires_at has passed
    trail,     \* the audit rows of each key, in order
    keyLock,   \* the client that holds the row lock of each key
    member,    \* user_service_roles
    granted,   \* how often each role was logged as granted ...
    dropped,   \* ... and as revoked
    call,      \* the request each client has in flight
    calls,     \* how many requests were made and keys expired
    byHand     \* history: the keys an administrator revoked

keyVars == <<key, trail, keyLock>>
roleVars == <<member, granted, dropped>>
accessVars == <<service, key, expired, trail, keyLock, member, granted,
                dropped, call, calls, byHand>>

ServiceRoles == {"service_owner", "auditor"}

Memberships == (Users \ {Admin}) \X ServiceRoles

Idle == [op |-> "idle", user |-> NoOne, owner |-> FALSE, key |-> NoKey,
         role |-> <<>>, found |-> FALSE]

\* A Service that does not exist yet, or that has its first key.
Init(first) ==
    /\ service = IF first = NoKey THEN "none" ELSE "released"
    /\ key = [k \in Keys |-> IF k = first THEN "active" ELSE "absent"]
    /\ expired = {}
    /\ trail = [k \in Keys |-> IF k = first THEN <<"created">> ELSE <<>>]
    /\ keyLock = [k \in Keys |-> NoOne]
    /\ member = {}
    /\ granted = [m \in Memberships |-> 0]
    /\ dropped = [m \in Memberships |-> 0]
    /\ call = [c \in Clients |-> Idle] /\ calls = 0
    /\ byHand = {}

\* Keys are taken in a fixed order: which random key_id is drawn is not
\* observable.
Fresh(k) ==
    /\ key[k] = "absent"
    /\ k = CHOOSE x \in Keys : key[x] = "absent"

\* What require_api_key checks of the row its own session read.
require_api_key(k) == key[k] = "active" /\ k \notin expired

-----------------------------------------------------------------------------
(* The API key handlers                                                    *)

\* The scope must come from a release of the environment; the row, its
\* encrypted secret and the audit row are one commit.
create_api_key(k) ==
    /\ service = "released"
    /\ Fresh(k)
    /\ key' = [key EXCEPT ![k] = "active"]
    /\ trail' = [trail EXCEPT ![k] = <<"created">>]

\* The request of a user: the context holds the roles as they are now.
authenticate(c, u) ==
    /\ call[c].op = "idle" /\ calls < MaxCalls
    /\ calls' = calls + 1
    /\ call' = [call EXCEPT ![c] =
                   [Idle EXCEPT !.op = "authenticated", !.user = u,
                       !.owner = \/ u = Admin
                                 \/ <<u, "service_owner">> \in member]]
    /\ UNCHANGED <<service, keyVars, expired, roleVars, byHand>>

\* _require_api_key_management_access and
\* _require_service_membership_management_access let the same roles in.
Manager(c) == call[c].op = "authenticated" /\ call[c].owner

Done(c) == call' = [call EXCEPT ![c] = Idle]

\* A refused request, or one whose client or worker dies: the transaction
\* is rolled back and its row lock released.
abort(c) ==
    /\ call[c].op # "idle"
    /\ Done(c)
    /\ keyLock' = [k \in Keys |-> IF keyLock[k] = c THEN NoOne ELSE keyLock[k]]
    /\ UNCHANGED <<calls, service, key, expired, trail, roleVars, byHand>>

create_service_api_key(c, k) ==
    /\ Manager(c)
    /\ create_api_key(k)
    /\ Done(c)
    /\ UNCHANGED <<calls, service, expired, keyLock, roleVars, byHand>>

\* Mutant: the row is read without its lock.
get_api_key_by_id(c, k) == UNCHANGED keyLock

\* get_api_key_by_id_for_update waits for the holder of the row.
get_api_key_by_id_for_update(c, k) ==
    /\ keyLock[k] = NoOne
    /\ keyLock' = [keyLock EXCEPT ![k] = c]

\* The row as the handler read it under the lock is kept in the call.
begin_key_action(c, k, op) ==
    /\ Manager(c)
    /\ key[k] # "absent"
    /\ get_api_key_by_id_for_update(c, k)
    /\ call' = [call EXCEPT ![c].op = op, ![c].key = k,
                            ![c].found = key[k] = "revoked"]
    /\ UNCHANGED <<calls, service, key, expired, trail, roleVars, byHand>>

\* A key found revoked is returned as it is, without an audit row.
Revoked(k, found) ==
    /\ key' = [key EXCEPT ![k] = "revoked"]
    /\ trail' = IF found THEN trail
                 ELSE [trail EXCEPT ![k] = Append(@, "revoked")]

Unlock(c, k) ==
    keyLock' = [keyLock EXCEPT ![k] = IF @ = c THEN NoOne ELSE @]

revoke_service_api_key(c) ==
    /\ call[c].op = "revoke"
    /\ Revoked(call[c].key, call[c].found)
    /\ byHand' = IF call[c].found THEN byHand ELSE byHand \cup {call[c].key}
    /\ Unlock(c, call[c].key)
    /\ Done(c)
    /\ UNCHANGED <<calls, service, expired, roleVars>>

\* A revoked or expired key is refused; the reveal is logged and committed
\* before the secret is returned.
reveal_service_api_key(c) ==
    LET k == call[c].key
    IN /\ call[c].op = "reveal"
       /\ ~call[c].found /\ k \notin expired
       /\ trail' = [trail EXCEPT ![k] = Append(@, "revealed")]
       /\ Unlock(c, k)
       /\ Done(c)
       /\ UNCHANGED <<calls, service, key, expired, roleVars, byHand>>

\* expires_at passes.
expire(k) ==
    /\ key[k] # "absent" /\ k \notin expired
    /\ calls < MaxCalls
    /\ calls' = calls + 1
    /\ expired' = expired \cup {k}
    /\ UNCHANGED <<service, keyVars, roleVars, call, byHand>>

-----------------------------------------------------------------------------
(* The members of the Service                                              *)

create_service(c) ==
    /\ call[c].op = "authenticated" /\ call[c].user = Admin
    /\ service = "none"
    /\ service' = "created"
    /\ Done(c)
    /\ UNCHANGED <<calls, keyVars, expired, roleVars, byHand>>

\* ensure_user_service_role_with_created reads the row before it inserts.
begin_grant_service_member_role(c, m) ==
    /\ Manager(c) /\ service # "none"
    /\ call' = [call EXCEPT ![c].op = "grant", ![c].role = m,
                            ![c].found = m \in member]
    /\ UNCHANGED <<calls, service, keyVars, expired, roleVars, byHand>>

\* The rows the INSERT adds: none when the row was read or another request
\* inserted it meanwhile (IntegrityError).
Created(c) == IF call[c].found THEN {} ELSE {call[c].role} \ member

\* Only an inserted row is logged.
grant_service_member_role(c) ==
    /\ call[c].op = "grant"
    /\ member' = member \cup Created(c)
    /\ granted' = [m \in Memberships |->
                      IF m \in Created(c) THEN granted[m] + 1 ELSE granted[m]]
    /\ Done(c)
    /\ UNCHANGED <<calls, service, keyVars, expired, dropped, byHand>>

\* SELECT FOR UPDATE, DELETE and the audit row under one row lock.
revoke_service_member_role(c, m) ==
    /\ Manager(c) /\ m \in member
    /\ member' = member \ {m}
    /\ dropped' = [dropped EXCEPT ![m] = @ + 1]
    /\ Done(c)
    /\ UNCHANGED <<calls, service, keyVars, expired, granted, byHand>>

AccessNext ==
    \/ \E c \in Clients :
          \/ \E u \in Users : authenticate(c, u)
          \/ abort(c)
          \/ create_service(c)
          \/ \E k \in Keys : create_service_api_key(c, k)
          \/ \E k \in Keys, op \in {"revoke", "reveal"} :
                begin_key_action(c, k, op)
          \/ revoke_service_api_key(c)
          \/ reveal_service_api_key(c)
          \/ \E m \in Memberships : begin_grant_service_member_role(c, m)
          \/ grant_service_member_role(c)
          \/ \E m \in Memberships : revoke_service_member_role(c, m)
    \/ \E k \in Keys : expire(k)

-----------------------------------------------------------------------------
(* Properties                                                              *)

Calls == [op : {"idle", "authenticated", "revoke", "reveal", "grant"},
          user : Users \cup {NoOne}, owner : BOOLEAN, key : Keys \cup {NoKey},
          role : Memberships \cup {<<>>}, found : BOOLEAN]

AccessTypeOK ==
    /\ service \in {"none", "created", "released"}
    /\ key \in [Keys -> {"absent", "active", "revoked"}]
    /\ expired \subseteq Keys /\ byHand \subseteq Keys
    /\ trail \in [Keys -> Seq({"created", "revealed", "revoked"})]
    /\ keyLock \in [Keys -> Clients \cup {NoOne}]
    /\ member \subseteq Memberships
    /\ granted \in [Memberships -> Nat] /\ dropped \in [Memberships -> Nat]
    /\ call \in [Clients -> Calls] /\ calls \in 0 .. MaxCalls

\* The audit rows of a key tell its story: it was created first, revoked at
\* most once and at the end exactly when its status says so, so that no
\* secret was revealed after the revocation.
KeyStory(k) ==
    LET t == trail[k]
    IN /\ key[k] = "absent" <=> t = <<>>
       /\ \A i \in DOMAIN t :
             /\ t[i] = "created" <=> i = 1
             /\ t[i] = "revoked" => i = Len(t) /\ key[k] = "revoked"
       /\ key[k] = "revoked" => t[Len(t)] = "revoked"

\* audit_logs replays to the tables, whatever revocations, reveals, grants
\* and rotations overlap: every key's rows tell its story, and a role is
\* held exactly when it was logged as granted once more than as revoked.
AuditReplays ==
    /\ \A k \in Keys : KeyStory(k)
    /\ \A m \in Memberships :
          granted[m] = dropped[m] + (IF m \in member THEN 1 ELSE 0)
=============================================================================
