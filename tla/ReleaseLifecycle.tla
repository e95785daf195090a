-------------------------- MODULE ReleaseLifecycle --------------------------
(***************************************************************************)
(* The release lifecycle of one Service: catalog versions are created and  *)
(* deactivated, test runs are executed against them, gated releases are    *)
(* cut from passing runs, activated and rolled back, and the runtime API   *)
(* serves whatever release is active in its environment.                   *)
(*                                                                         *)
(* Every request is handled by a client (an API worker with one database   *)
(* session) as one READ COMMITTED transaction, split here at the points    *)
(* where another transaction can slip in: the advisory lock                *)
(* catalog-version:{service}, each statement whose result is used later,   *)
(* each row lock of the activating UPDATE, and the commit.  A worker may   *)
(* die at any of them, which rolls its transaction back.  A request that   *)
(* is refused before it holds a lock changes nothing and is no step.       *)
(***************************************************************************)
EXTENDS Naturals, FiniteSets

CONSTANTS
    Clients,        \* API workers, each with one open database session
    Catalogs,       \* intent_catalog_version identifiers
    Runs,           \* test_run_id identifiers
    Policies,       \* policy_version identifiers (rows are immutable)
    Environments,   \* SUPPORTED_RUNTIME_ENVIRONMENTS
    Models,         \* embedding model versions a worker can be started with
    MaxReleases,    \* bound on the release sequence of the day
    None            \* SQL NULL, no owner, no argument

ReleaseIds == 1 .. MaxReleases

ASSUME ConstantsAssumption ==
    /\ MaxReleases \in Nat
    /\ None \notin Clients \cup Catalogs \cup Runs \cup Policies
                   \cup Environments \cup Models \cup Nat

VARIABLES
    catalog,    \* status of each version, and with it of its embeddings
    catModel,   \* the model of the version's vector index
    runs,       \* rows of test_runs, with their test_results folded in
    releases,   \* rows of releases, without the column active
    active,     \* the releases whose column active is true
    lock,       \* holder of the advisory lock catalog-version:{service}
    rowLock,    \* holder of the row lock of each release
    pc,         \* where each client's handler is
    req,        \* the arguments and the local variables of that handler
    rows,       \* the rows in the snapshot of the activating UPDATE
    saw,        \* catalog statuses the test run's searches have met
    provider    \* model version of the embedding provider of each worker

dbVars == <<catalog, catModel, runs, releases, active>>
vars == <<catalog, catModel, runs, releases, active, lock, rowLock, pc, req,
          rows, saw, provider>>

-----------------------------------------------------------------------------
(* Types.                                                                  *)

CatalogStatus == {"absent", "active", "inactive"}
RiskOutcome == {"none", "fail", "pass"}

TestRun == [id : Runs, pol : Policies, cat : Catalogs, model : Models,
            gate_passed : BOOLEAN, risk : RiskOutcome,
            saw : SUBSET CatalogStatus]

Release == [id : ReleaseIds, env : Environments, pol : Policies,
            cat : Catalogs, run : Runs, model : Models,
            back : ReleaseIds \cup {None}]

(* One shape for every handler's locals: the ones it does not use are None *)
Request == [env : Environments \cup {None}, pol : Policies \cup {None},
            cat : Catalogs \cup {None}, run : Runs \cup {None},
            rel : ReleaseIds \cup {None}, back : ReleaseIds \cup {None}]

Locals(env, pol, cat, run, rel, back) ==
    [env |-> env, pol |-> pol, cat |-> cat, run |-> run, rel |-> rel,
     back |-> back]

NoRequest == Locals(None, None, None, None, None, None)

Waiting == {"cat_wait", "deact_wait", "rel_wait"}
Holding == {"cat_locked", "deact_locked", "deact_update", "rel_locked",
            "rel_insert"}
Labels == {"idle", "test_cases", "act_update", "act_rows", "route_search"}
          \cup Waiting \cup Holding

TypeOK ==
    /\ catalog \in [Catalogs -> CatalogStatus]
    /\ catModel \in [Catalogs -> Models \cup {None}]
    /\ runs \subseteq TestRun
    /\ releases \subseteq Release
    /\ active \subseteq ReleaseIds
    /\ lock \in Clients \cup {None}
    /\ rowLock \in [ReleaseIds -> Clients \cup {None}]
    /\ pc \in [Clients -> Labels]
    /\ req \in [Clients -> Request]
    /\ rows \in [Clients -> SUBSET ReleaseIds]
    /\ saw \in [Clients -> SUBSET CatalogStatus]
    /\ provider \in [Clients -> Models]

Init ==
    /\ catalog = [c \in Catalogs |-> "absent"]
    /\ catModel = [c \in Catalogs |-> None]
    /\ runs = {}
    /\ releases = {}
    /\ active = {}
    /\ lock = None
    /\ rowLock = [r \in ReleaseIds |-> None]
    /\ pc = [c \in Clients |-> "idle"]
    /\ req = [c \in Clients |-> NoRequest]
    /\ rows = [c \in Clients |-> {}]
    /\ saw = [c \in Clients |-> {}]
    /\ provider \in [Clients -> Models]

-----------------------------------------------------------------------------
(* Steps of a transaction.                                                 *)

(* The handler starts with the arguments of its HTTP request.              *)
Begin(c, label, request) ==
    /\ pc[c] = "idle"
    /\ pc' = [pc EXCEPT ![c] = label]
    /\ req' = [req EXCEPT ![c] = request]

Goto(c, label) == pc' = [pc EXCEPT ![c] = label]

(* Mutant: pg_advisory_lock, held until the session ends.                  *)
EndTransactionSessionLock(c) ==
    /\ Goto(c, "idle")
    /\ req' = [req EXCEPT ![c] = NoRequest]
    /\ rows' = [rows EXCEPT ![c] = {}]
    /\ saw' = [saw EXCEPT ![c] = {}]
    /\ lock' = lock
    /\ rowLock' = [r \in ReleaseIds |->
                     IF rowLock[r] = c THEN None ELSE rowLock[r]]

(* Commit and rollback both end the transaction: its locks are released.   *)
EndTransaction(c) ==
    /\ Goto(c, "idle")
    /\ req' = [req EXCEPT ![c] = NoRequest]
    /\ rows' = [rows EXCEPT ![c] = {}]
    /\ saw' = [saw EXCEPT ![c] = {}]
    /\ lock' = IF lock = c THEN None ELSE lock
    /\ rowLock' = [r \in ReleaseIds |->
                     IF rowLock[r] = c THEN None ELSE rowLock[r]]

(* Mutant: the lock is not exclusive.                                      *)
acquire_shared_lock(c) ==
    /\ lock' = c
    /\ \/ pc[c] = "cat_wait" /\ Goto(c, "cat_locked")
       \/ pc[c] = "deact_wait" /\ Goto(c, "deact_locked")
       \/ pc[c] = "rel_wait" /\ Goto(c, "rel_locked")
    /\ UNCHANGED <<dbVars, rowLock, req, rows, saw, provider>>

(* pg_advisory_xact_lock(hashtext('catalog-version:{service}')), the       *)
(* statement every writer of the draft and the catalog versions runs first *)
(* create_release takes two more keys after it, which only ever holders of *)
(* this one ask for.                                                       *)
acquire_advisory_xact_lock(c) ==
    /\ lock = None
    /\ lock' = c
    /\ \/ pc[c] = "cat_wait" /\ Goto(c, "cat_locked")
       \/ pc[c] = "deact_wait" /\ Goto(c, "deact_locked")
       \/ pc[c] = "rel_wait" /\ Goto(c, "rel_locked")
    /\ UNCHANGED <<dbVars, rowLock, req, rows, saw, provider>>

-----------------------------------------------------------------------------
(* Catalog versions.                                                       *)

begin_create_catalog_version(c) ==
    /\ Begin(c, "cat_wait", NoRequest)
    /\ UNCHANGED <<dbVars, lock, rowLock, rows, saw, provider>>

(* A fresh version, its ready vector index for the worker's model and its  *)
(* active embeddings are inserted by one transaction.                      *)
create_catalog_version(c) ==
    /\ pc[c] = "cat_locked"
    /\ \E cat \in Catalogs :
         /\ catalog[cat] = "absent"
         /\ catalog' = [catalog EXCEPT ![cat] = "active"]
         /\ catModel' = [catModel EXCEPT ![cat] = provider[c]]
    /\ EndTransaction(c)
    /\ UNCHANGED <<runs, releases, active, provider>>

begin_deactivate_catalog_version(c) ==
    /\ \E cat \in Catalogs :
         Begin(c, "deact_wait", Locals(None, None, cat, None, None, None))
    /\ UNCHANGED <<dbVars, lock, rowLock, rows, saw, provider>>

catalog_version_has_release_reference(cat) ==
    \E r \in releases : r.cat = cat

(* Mutant: only releases that are active protect their catalog.            *)
MayDeactivateUnlessServed(cat) ==
    /\ \A r \in releases : r.id \in active => r.cat # cat
    /\ catalog[cat] # "absent"

MayDeactivate(cat) ==
    /\ ~ catalog_version_has_release_reference(cat)
    /\ catalog[cat] # "absent"

(* 409 when a release refers to the version, 404 when it does not exist.   *)
check_deactivate_catalog_version(c) ==
    /\ pc[c] = "deact_locked"
    /\ \/ /\ MayDeactivate(req[c].cat)
          /\ Goto(c, "deact_update")
          /\ UNCHANGED <<lock, rowLock, req, rows, saw>>
       \/ /\ ~ MayDeactivate(req[c].cat)
          /\ EndTransaction(c)
    /\ UNCHANGED <<dbVars, provider>>

(* The version becomes inactive and its embeddings are cleared.            *)
deactivate_catalog_version(c) ==
    /\ pc[c] = "deact_update"
    /\ catalog' = [catalog EXCEPT ![req[c].cat] = "inactive"]
    /\ EndTransaction(c)
    /\ UNCHANGED <<catModel, runs, releases, active, provider>>

-----------------------------------------------------------------------------
(* Test runs.                                                              *)

(* No lock is taken, and an inactive version is accepted: only a ready     *)
(* vector index for the worker's model is asked for.                       *)
begin_create_test_run(c) ==
    /\ \E pol \in Policies, cat \in Catalogs :
         /\ catalog[cat] # "absent"
         /\ catModel[cat] = provider[c]
         /\ Begin(c, "test_cases", Locals(None, pol, cat, None, None, None))
    /\ UNCHANGED <<dbVars, lock, rowLock, rows, saw, provider>>

(* One test case: its search statement sees the embeddings as they are     *)
(* committed now.                                                          *)
run_case(c) ==
    /\ pc[c] = "test_cases"
    /\ saw' = [saw EXCEPT ![c] = @ \cup {catalog[req[c].cat]}]
    /\ UNCHANGED <<dbVars, lock, rowLock, pc, req, rows, provider>>

(* evaluate_gate: the pass rate reaches 70%, and there are risk cases and  *)
(* all of them pass.                                                       *)
evaluate_gate(rateReached, risk) == rateReached /\ risk = "pass"

create_test_run(c) ==
    /\ pc[c] = "test_cases"
    /\ saw[c] # {}
    /\ \E id \in Runs, rateReached \in BOOLEAN, risk \in RiskOutcome :
         /\ \A t \in runs : t.id # id
         /\ runs' = runs \cup
              {[id |-> id, pol |-> req[c].pol, cat |-> req[c].cat,
                model |-> provider[c],
                gate_passed |-> evaluate_gate(rateReached, risk),
                risk |-> risk, saw |-> saw[c]]}
    /\ EndTransaction(c)
    /\ UNCHANGED <<catalog, catModel, releases, active, provider>>

-----------------------------------------------------------------------------
(* Releases.                                                               *)

begin_create_release(c) ==
    /\ \E env \in Environments, pol \in Policies, cat \in Catalogs,
          run \in Runs, back \in ReleaseIds \cup {None} :
         Begin(c, "rel_wait", Locals(env, pol, cat, run, None, back))
    /\ UNCHANGED <<dbVars, lock, rowLock, rows, saw, provider>>

(* Mutant: the gate of the test run is not looked at.                      *)
validate_ungated_inputs(q) ==
    /\ catalog[q.cat] = "active"
    /\ \E t \in runs : t.id = q.run /\ t.pol = q.pol /\ t.cat = q.cat
    /\ q.back # None => \E r \in releases : r.id = q.back /\ r.env = q.env

validate_release_inputs(q) ==
    /\ catalog[q.cat] = "active"
    /\ \E t \in runs :
         /\ t.id = q.run
         /\ t.gate_passed
         /\ t.risk = "pass"
         /\ t.pol = q.pol
         /\ t.cat = q.cat
    /\ q.back # None => \E r \in releases : r.id = q.back /\ r.env = q.env

(* Mutant: the lookup for an earlier release of the run finds nothing.     *)
no_release_for_test_run(q) == {}

get_release_for_test_run_environment(q) ==
    {r \in releases : r.env = q.env /\ r.run = q.run}

(* The ready vector index for the worker's model is the one the version    *)
(* was created with, and the test run used it.                             *)
VectorIndexMatches(c, q) ==
    /\ catModel[q.cat] = provider[c]
    /\ \A t \in runs : t.id = q.run => t.model = provider[c]

(* release_version_id: one more than the highest sequence of the day.      *)
release_version_id(id) ==
    /\ \A r \in releases : r.id < id
    /\ id = 1 \/ \E r \in releases : r.id = id - 1

(* The last conjunct is the model's bound MaxReleases.                     *)
Releasable(c, q) ==
    /\ validate_release_inputs(q)
    /\ get_release_for_test_run_environment(q) = {}
    /\ VectorIndexMatches(c, q)
    /\ \E id \in ReleaseIds : release_version_id(id)

(* All of create_release but its INSERT: a request that does not validate  *)
(* is rolled back with 404, 400 or 409.                                    *)
check_create_release(c) ==
    /\ pc[c] = "rel_locked"
    /\ \/ /\ Releasable(c, req[c])
          /\ \E id \in ReleaseIds :
               /\ release_version_id(id)
               /\ req' = [req EXCEPT ![c] =
                            Locals(@.env, @.pol, @.cat, @.run, id, @.back)]
          /\ Goto(c, "rel_insert")
          /\ UNCHANGED <<lock, rowLock, rows, saw>>
       \/ /\ ~ Releasable(c, req[c])
          /\ EndTransaction(c)
    /\ UNCHANGED <<dbVars, provider>>

create_release(c) ==
    /\ pc[c] = "rel_insert"
    /\ releases' = releases \cup
         {[id |-> req[c].rel, env |-> req[c].env, pol |-> req[c].pol,
           cat |-> req[c].cat, run |-> req[c].run, model |-> provider[c],
           back |-> req[c].back]}
    /\ EndTransaction(c)
    /\ UNCHANGED <<catalog, catModel, runs, active, provider>>

-----------------------------------------------------------------------------
(* Activation and rollback.                                                *)

begin_activate_release(c) ==
    /\ \E r \in releases :
         Begin(c, "act_update", Locals(r.env, None, None, None, r.id, None))
    /\ UNCHANGED <<dbVars, lock, rowLock, rows, saw, provider>>

(* Mutant: a release without a rollback target is rolled back.             *)
begin_rollback_unchecked(c) ==
    /\ \E r \in releases :
         Begin(c, "act_update", Locals(r.env, None, None, None, r.back, None))
    /\ UNCHANGED <<dbVars, lock, rowLock, rows, saw, provider>>

begin_rollback_release(c) ==
    /\ \E r, target \in releases :
         /\ r.back = target.id
         /\ target.env = r.env
         /\ Begin(c, "act_update",
                  Locals(target.env, None, None, None, target.id, None))
    /\ UNCHANGED <<dbVars, lock, rowLock, rows, saw, provider>>

(* set_active_release, "UPDATE releases SET active = false WHERE           *)
(* environment = ...": the statement's snapshot decides which rows it      *)
(* will touch; a release committed later is not among them.                *)
start_update(c) ==
    /\ pc[c] = "act_update"
    /\ rows' = [rows EXCEPT ![c] =
                  {r.id : r \in {s \in releases : s.env = req[c].env}}]
    /\ Goto(c, "act_rows")
    /\ UNCHANGED <<dbVars, lock, rowLock, req, saw, provider>>

(* The UPDATE locks the rows of its snapshot one by one, waiting for the   *)
(* transaction that holds the next one.                                    *)
lock_row(c, r) ==
    /\ pc[c] = "act_rows"
    /\ r \in rows[c]
    /\ rowLock[r] = None
    /\ rowLock' = [rowLock EXCEPT ![r] = c]
    /\ UNCHANGED <<dbVars, lock, pc, req, rows, saw, provider>>

(* Mutant: the UPDATE does not synchronise the session, so a target that   *)
(* was read as active looks unchanged and is not written again.            *)
set_active_release_unsynchronised(c) ==
    /\ pc[c] = "act_rows"
    /\ \A r \in rows[c] : rowLock[r] = c
    /\ active' = (active \ rows[c]) \cup ({req[c].rel} \ active)
    /\ EndTransaction(c)
    /\ UNCHANGED <<catalog, catModel, runs, releases, provider>>

(* All rows are updated, then the target's column is set and the           *)
(* transaction commits.                                                    *)
set_active_release(c) ==
    /\ pc[c] = "act_rows"
    /\ \A r \in rows[c] : rowLock[r] = c
    /\ active' = (active \ rows[c]) \cup {req[c].rel}
    /\ EndTransaction(c)
    /\ UNCHANGED <<catalog, catModel, runs, releases, provider>>

-----------------------------------------------------------------------------
(* Runtime routing.                                                        *)

(* get_active_release.  Should several rows be active the code takes the   *)
(* youngest; the model lets it be any of them.                             *)
load_active_release(c) ==
    /\ \E r \in releases :
         /\ r.id \in active
         /\ Begin(c, "route_search",
                  Locals(r.env, r.pol, r.cat, r.run, r.id, None))
    /\ UNCHANGED <<dbVars, lock, rowLock, rows, saw, provider>>

(* The semantic search over the embeddings of the release's catalog, the   *)
(* response and the runtime log.                                           *)
intent_route(c) ==
    /\ pc[c] = "route_search"
    /\ EndTransaction(c)
    /\ UNCHANGED <<dbVars, provider>>

-----------------------------------------------------------------------------
(* Failures.                                                               *)

(* c waits for d: all rows c still needs are held, one of them by d.       *)
WaitsFor(c, d) ==
    /\ pc[c] = "act_rows"
    /\ \A r \in rows[c] : rowLock[r] # None
    /\ \E r \in rows[c] : rowLock[r] = d /\ d # c

(* PostgreSQL's deadlock detector: one of the UPDATEs that wait for each    *)
(* other in a cycle is rolled back.                                        *)
deadlock_abort(c) ==
    /\ \E cycle \in SUBSET Clients :
         /\ c \in cycle
         /\ \A x \in cycle : /\ \E d \in cycle : WaitsFor(x, d)
                             /\ \E d \in cycle : WaitsFor(d, x)
    /\ EndTransaction(c)
    /\ UNCHANGED <<dbVars, provider>>

(* The embedding provider fails or returns malformed vectors, or an INSERT *)
(* is refused: the handler rolls back.                                     *)
fail_request(c) ==
    /\ pc[c] \in {"cat_locked", "test_cases", "route_search"}
    /\ EndTransaction(c)
    /\ UNCHANGED <<dbVars, provider>>

(* A worker dies, or loses its connection, and is started again, perhaps   *)
(* with another embedding model.                                           *)
restart(c) ==
    /\ EndTransaction(c)
    /\ \E m \in Models : provider' = [provider EXCEPT ![c] = m]
    /\ UNCHANGED dbVars

-----------------------------------------------------------------------------
CatalogStep(c) ==
    \/ begin_create_catalog_version(c)
    \/ create_catalog_version(c)
    \/ begin_deactivate_catalog_version(c)
    \/ check_deactivate_catalog_version(c)
    \/ deactivate_catalog_version(c)

TestStep(c) ==
    \/ begin_create_test_run(c)
    \/ run_case(c)
    \/ create_test_run(c)

ReleaseStep(c) ==
    \/ begin_create_release(c)
    \/ check_create_release(c)
    \/ create_release(c)

ActivationStep(c) ==
    \/ begin_activate_release(c)
    \/ begin_rollback_release(c)
    \/ start_update(c)
    \/ \E r \in ReleaseIds : lock_row(c, r)
    \/ set_active_release(c)

RouteStep(c) ==
    \/ load_active_release(c)
    \/ intent_route(c)

Next ==
    \E c \in Clients :
        \/ acquire_advisory_xact_lock(c)
        \/ CatalogStep(c)
        \/ TestStep(c)
        \/ ReleaseStep(c)
        \/ ActivationStep(c)
        \/ RouteStep(c)
        \/ fail_request(c)
        \/ deadlock_abort(c)
        \/ restart(c)

Spec == Init /\ [][Next]_vars

(* The same system when nobody commits a new release while an activating   *)
(* UPDATE is running: an operating rule, not something the code enforces.  *)
QuiescentNext ==
    /\ Next
    /\ releases' # releases => \A c \in Clients : pc[c] # "act_rows"

QuiescentSpec == Init /\ [][QuiescentNext]_vars

(* The steps a worker takes by itself once it has a request.               *)
Progress(c) ==
    \/ create_catalog_version(c)
    \/ check_deactivate_catalog_version(c)
    \/ deactivate_catalog_version(c)
    \/ run_case(c)
    \/ create_test_run(c)
    \/ check_create_release(c)
    \/ create_release(c)
    \/ start_update(c)
    \/ set_active_release(c)
    \/ intent_route(c)
    \/ fail_request(c)
    \/ deadlock_abort(c)

GetLock(c) ==
    \/ acquire_advisory_xact_lock(c)
    \/ \E r \in ReleaseIds : lock_row(c, r)

(* A worker keeps running; PostgreSQL hands a contended advisory lock or   *)
(* row lock to its waiters in turn, so none of them starves.  Nobody has   *)
(* to send requests, and no worker has to crash.                           *)
Fairness ==
    \A c \in Clients :
        /\ WF_vars(Progress(c))
        /\ SF_vars(GetLock(c))

FairSpec == Spec /\ Fairness

-----------------------------------------------------------------------------
(* Properties.                                                             *)

ActiveIn(env) == {r \in releases : r.env = env /\ r.id \in active}

(* Deactivation and release creation check each other's table and then     *)
(* write their own; the advisory lock keeps the two checks from crossing.  *)
(* No release ever refers to a catalog version that is not active, whose   *)
(* embeddings the runtime search would find cleared.                       *)
ReleasedCatalogServable ==
    \A r \in releases : catalog[r.cat] = "active"

(* A release's test run passed the gate with its risk cases, on the same   *)
(* policy, catalog and model, and every one of its searches read the       *)
(* embeddings the release will serve: create_test_run takes no lock and    *)
(* may overlap a deactivation, but then its catalog can not be released.   *)
ReleaseWasTested ==
    \A r \in releases : \E t \in runs :
        /\ t.id = r.run
        /\ t.gate_passed /\ t.risk = "pass"
        /\ t.pol = r.pol /\ t.cat = r.cat /\ t.model = r.model
        /\ t.model = catModel[r.cat]
        /\ t.saw = {"active"}

(* A create_release that has passed its checks never meets the primary key *)
(* or the unique constraint (service, environment, test run) when it       *)
(* inserts: the 409 branch for IntegrityError is dead while the locks hold.*)
InsertNeverConflicts ==
    /\ \A r, s \in releases :
         r.id = s.id \/ (r.env = s.env /\ r.run = s.run) => r = s
    /\ \A c \in Clients : pc[c] = "rel_insert" =>
         \A r \in releases : /\ r.id # req[c].rel
                             /\ ~ (r.env = req[c].env /\ r.run = req[c].run)

(* Every rollback target exists, in the environment of the release that    *)
(* names it, so rollback_release's 404 branch is dead and a rollback never *)
(* crosses environments.                                                   *)
RollbackTargetsExist ==
    \A r \in releases : r.back # None =>
        \E t \in releases : t.id = r.back /\ t.env = r.env

(* A runtime request that has read the active release finds its catalog    *)
(* still served and its test run gated, however long it takes and whatever *)
(* is activated, rolled back or deactivated meanwhile: no                  *)
(* POLICY_LOAD_FAILED and no search over cleared embeddings.               *)
RuntimeFindsDependencies ==
    \A c \in Clients : pc[c] = "route_search" =>
        /\ catalog[req[c].cat] = "active"
        /\ \E t \in runs : t.id = req[c].run /\ t.gate_passed

(* An environment that serves a release goes on serving one: activation    *)
(* and rollback switch off and on in one commit, and a crash between the   *)
(* two UPDATEs leaves the old release in place.                            *)
ServedStaysServed ==
    [][\A env \in Environments : ActiveIn(env) # {} => ActiveIn(env)' # {}]_vars

(* "activating a release sets previous active release active=false": at    *)
(* most one release per environment is active.                             *)
AtMostOneActive ==
    \A env \in Environments : \A r, s \in ActiveIn(env) : r = s

(* Every request comes to an end: no lock order of the handlers leaves     *)
(* workers waiting for one another for good.                               *)
RequestsComplete ==
    \A c \in Clients : (pc[c] # "idle") ~> (pc[c] = "idle")
=============================================================================
