----------------------- MODULE ReleaseLifecycleProofs -----------------------
(***************************************************************************)
(* Proofs about ReleaseLifecycle, for any number of workers, catalog       *)
(* versions, runs, policies, environments, models and releases.            *)
(***************************************************************************)
EXTENDS ReleaseLifecycle, TLAPS

-----------------------------------------------------------------------------
(* The inductive invariant.                                                *)

(* The locals a handler uses after its first step were given values.       *)
RequestOK ==
    \A c \in Clients :
        /\ pc[c] \in {"test_cases", "deact_wait", "deact_locked",
                      "deact_update", "rel_wait", "rel_locked", "rel_insert",
                      "route_search"}
             => req[c].cat \in Catalogs
        /\ pc[c] \in {"test_cases", "rel_wait", "rel_locked", "rel_insert"}
             => req[c].pol \in Policies
        /\ pc[c] \in {"rel_wait", "rel_locked", "rel_insert"}
             => req[c].run \in Runs
        /\ pc[c] \in {"rel_wait", "rel_locked", "rel_insert", "act_update",
                      "act_rows"}
             => req[c].env \in Environments
        /\ pc[c] \in {"rel_insert", "act_update", "act_rows"}
             => req[c].rel \in ReleaseIds

TypeInv == TypeOK /\ RequestOK

(* Whoever is inside a section guarded by the advisory lock holds it.      *)
LockHeld(c) == pc[c] \in Holding => lock = c

(* A test run in progress uses the model its catalog was embedded with,    *)
(* and while the catalog is active its searches have met nothing else.     *)
TestingLinked(c) ==
    pc[c] = "test_cases" =>
        /\ catalog[req[c].cat] # "absent"
        /\ catModel[req[c].cat] = provider[c]
        /\ catalog[req[c].cat] = "active" => saw[c] \subseteq {"active"}

(* What deactivate_catalog_version checked still holds when it updates.    *)
DeactivationChecked(c) ==
    pc[c] = "deact_update" =>
        /\ \A r \in releases : r.cat # req[c].cat
        /\ catalog[req[c].cat] # "absent"

(* What create_release checked still holds when it inserts.                *)
CreationChecked(c) ==
    pc[c] = "rel_insert" =>
        /\ catalog[req[c].cat] = "active"
        /\ catModel[req[c].cat] = provider[c]
        /\ \E t \in runs : /\ t.id = req[c].run
                           /\ t.gate_passed /\ t.risk = "pass"
                           /\ t.pol = req[c].pol /\ t.cat = req[c].cat
                           /\ t.model = provider[c]
        /\ req[c].back # None => \E r \in releases :
                                   r.id = req[c].back /\ r.env = req[c].env
        /\ \A r \in releases : /\ r.id # req[c].rel
                               /\ ~ (r.env = req[c].env /\ r.run = req[c].run)

(* An activation's target is a release of the environment it updates, and  *)
(* so are the rows of its snapshot.                                        *)
ActivationTargets(c) ==
    /\ pc[c] \in {"act_update", "act_rows"} =>
         \E r \in releases : r.id = req[c].rel /\ r.env = req[c].env
    /\ pc[c] = "act_rows" =>
         \A i \in rows[c] : \E r \in releases :
            r.id = i /\ r.env = req[c].env

(* A runtime request was handed a release that is still there.             *)
RoutedRelease(c) ==
    pc[c] = "route_search" =>
        \E r \in releases : r.cat = req[c].cat /\ r.run = req[c].run

(* The searches of a request are forgotten when it ends.                   *)
IdleClean(c) == pc[c] = "idle" => saw[c] = {}

ClientInv(c) ==
    /\ IdleClean(c)
    /\ LockHeld(c)
    /\ TestingLinked(c)
    /\ DeactivationChecked(c)
    /\ CreationChecked(c)
    /\ ActivationTargets(c)
    /\ RoutedRelease(c)

(* A status never returns to active, so every search of a run over a       *)
(* catalog that is still active has met active embeddings.                 *)
RunsLinked ==
    \A t \in runs : /\ catalog[t.cat] # "absent"
                    /\ t.model = catModel[t.cat]
                    /\ catalog[t.cat] = "active" => t.saw = {"active"}

UniqueReleases ==
    \A r, s \in releases :
        r.id = s.id \/ (r.env = s.env /\ r.run = s.run) => r = s

ActiveExist == \A i \in active : \E r \in releases : r.id = i

DataInv ==
    /\ RunsLinked
    /\ UniqueReleases
    /\ ActiveExist
    /\ ReleasedCatalogServable
    /\ ReleaseWasTested
    /\ RollbackTargetsExist

IInv ==
    /\ TypeInv
    /\ DataInv
    /\ \A c \in Clients : ClientInv(c)

-----------------------------------------------------------------------------
(* Type correctness.                                                       *)

LEMMA EndTransactionType ==
    ASSUME TypeInv, NEW c \in Clients, EndTransaction(c)
    PROVE  /\ lock' \in Clients \cup {None}
           /\ rowLock' \in [ReleaseIds -> Clients \cup {None}]
           /\ pc' \in [Clients -> Labels]
           /\ req' \in [Clients -> Request]
           /\ rows' \in [Clients -> SUBSET ReleaseIds]
           /\ saw' \in [Clients -> SUBSET CatalogStatus]
           /\ RequestOK'
  <1>1. NoRequest \in Request
    BY DEF NoRequest, Locals, Request
  <1>2. "idle" \in Labels
    BY DEF Labels
  <1>3. QED
    BY <1>1, <1>2 DEF EndTransaction, Goto, TypeInv, TypeOK, RequestOK

LEMMA TypeInit == Init => TypeInv
  <1>1. NoRequest \in Request
    BY DEF NoRequest, Locals, Request
  <1>2. QED
    BY <1>1 DEF Init, TypeInv, TypeOK, RequestOK, Labels, CatalogStatus

LEMMA TypeStep == TypeInv /\ [Next]_vars => TypeInv'
  <1> SUFFICES ASSUME TypeInv, [Next]_vars PROVE TypeInv'
    OBVIOUS
  <1>n. NoRequest \in Request
    BY DEF NoRequest, Locals, Request
  <1>1. CASE UNCHANGED vars
    BY <1>1 DEF vars, TypeInv, TypeOK, RequestOK
  <1>2. ASSUME NEW c \in Clients, acquire_advisory_xact_lock(c)
        PROVE  TypeInv'
    BY <1>2 DEF acquire_advisory_xact_lock, Goto, dbVars, TypeInv, TypeOK,
                RequestOK, Labels, Waiting, Holding
  <1>3. ASSUME NEW c \in Clients, begin_create_catalog_version(c)
        PROVE  TypeInv'
    BY <1>n, <1>3 DEF begin_create_catalog_version, Begin, dbVars, TypeInv,
                TypeOK, RequestOK, Labels, Waiting, Holding
  <1>4. ASSUME NEW c \in Clients, create_catalog_version(c)
        PROVE  TypeInv'
    BY <1>4, EndTransactionType DEF create_catalog_version, TypeInv, TypeOK,
                CatalogStatus
  <1>5. ASSUME NEW c \in Clients, begin_deactivate_catalog_version(c)
        PROVE  TypeInv'
    <2>1. PICK cat \in Catalogs :
            Begin(c, "deact_wait", Locals(None, None, cat, None, None, None))
      BY <1>5 DEF begin_deactivate_catalog_version
    <2> DEFINE q == Locals(None, None, cat, None, None, None)
    <2>2. q \in Request /\ q.cat = cat
      BY DEF NoRequest, Locals, Request
    <2> HIDE DEF q
    <2>3. QED
      BY <1>5, <2>1, <2>2 DEF q, begin_deactivate_catalog_version, Begin,
            dbVars, TypeInv, TypeOK, RequestOK, Labels, Waiting, Holding
  <1>6. ASSUME NEW c \in Clients, check_deactivate_catalog_version(c)
        PROVE  TypeInv'
    <2>1. CASE EndTransaction(c)
      BY <1>6, <2>1, EndTransactionType
         DEF check_deactivate_catalog_version, dbVars, TypeInv, TypeOK
    <2>2. CASE /\ Goto(c, "deact_update")
               /\ UNCHANGED <<lock, rowLock, req, rows, saw>>
      BY <1>6, <2>2 DEF check_deactivate_catalog_version, Goto, dbVars,
            TypeInv, TypeOK, RequestOK, Labels, Waiting, Holding
    <2>3. QED
      BY <1>6, <2>1, <2>2 DEF check_deactivate_catalog_version
  <1>7. ASSUME NEW c \in Clients, deactivate_catalog_version(c)
        PROVE  TypeInv'
    BY <1>7, EndTransactionType DEF deactivate_catalog_version, TypeInv,
                TypeOK, CatalogStatus
  <1>8. ASSUME NEW c \in Clients, begin_create_test_run(c)
        PROVE  TypeInv'
    <2>1. PICK pol \in Policies, cat \in Catalogs :
            Begin(c, "test_cases",
                  Locals(None, pol, cat, None, None, None))
      BY <1>8 DEF begin_create_test_run
    <2> DEFINE q == Locals(None, pol, cat, None, None, None)
    <2>2. q \in Request /\ q.cat = cat /\ q.pol = pol
      BY DEF NoRequest, Locals, Request
    <2> HIDE DEF q
    <2>3. QED
      BY <1>8, <2>1, <2>2 DEF q, begin_create_test_run, Begin, dbVars,
            TypeInv, TypeOK, RequestOK, Labels, Waiting, Holding
  <1>9. ASSUME NEW c \in Clients, run_case(c)
        PROVE  TypeInv'
    <2>1. req[c].cat \in Catalogs
      BY <1>9 DEF run_case, TypeInv, RequestOK
    <2>2. QED
      BY <1>9, <2>1 DEF run_case, dbVars, TypeInv, TypeOK, RequestOK
  <1>10. ASSUME NEW c \in Clients, create_test_run(c)
         PROVE  TypeInv'
    <2>1. PICK id \in Runs, rateReached \in BOOLEAN, risk \in RiskOutcome :
            runs' = runs \cup
              {[id |-> id, pol |-> req[c].pol, cat |-> req[c].cat,
                model |-> provider[c],
                gate_passed |-> evaluate_gate(rateReached, risk),
                risk |-> risk, saw |-> saw[c]]}
      BY <1>10 DEF create_test_run
    <2>2. /\ req[c].pol \in Policies /\ req[c].cat \in Catalogs
          /\ provider[c] \in Models /\ saw[c] \in SUBSET CatalogStatus
      BY <1>10 DEF create_test_run, TypeInv, TypeOK, RequestOK
    <2>3. evaluate_gate(rateReached, risk) \in BOOLEAN
      BY DEF evaluate_gate
    <2>4. runs' \subseteq TestRun
      BY <2>1, <2>2, <2>3 DEF TypeInv, TypeOK, TestRun
    <2>5. QED
      BY <1>10, <2>4, EndTransactionType DEF create_test_run, TypeInv, TypeOK
  <1>11. ASSUME NEW c \in Clients, begin_create_release(c)
         PROVE  TypeInv'
    <2>1. PICK env \in Environments, pol \in Policies, cat \in Catalogs,
               run \in Runs, back \in ReleaseIds \cup {None} :
            Begin(c, "rel_wait", Locals(env, pol, cat, run, None, back))
      BY <1>11 DEF begin_create_release
    <2> DEFINE q == Locals(env, pol, cat, run, None, back)
    <2>2. /\ q \in Request
          /\ q.env = env /\ q.pol = pol /\ q.cat = cat /\ q.run = run
      BY DEF NoRequest, Locals, Request
    <2> HIDE DEF q
    <2>3. QED
      BY <1>11, <2>1, <2>2 DEF q, begin_create_release, Begin, dbVars,
            TypeInv, TypeOK, RequestOK, Labels, Waiting, Holding
  <1>12. ASSUME NEW c \in Clients, check_create_release(c)
         PROVE  TypeInv'
    <2>1. CASE EndTransaction(c)
      BY <1>12, <2>1, EndTransactionType
         DEF check_create_release, dbVars, TypeInv, TypeOK
    <2>2. CASE /\ \E id \in ReleaseIds :
                    req' = [req EXCEPT ![c] =
                              Locals(@.env, @.pol, @.cat, @.run, id, @.back)]
               /\ Goto(c, "rel_insert")
               /\ UNCHANGED <<lock, rowLock, rows, saw>>
      <3>1. PICK id \in ReleaseIds :
              req' = [req EXCEPT ![c] =
                        Locals(@.env, @.pol, @.cat, @.run, id, @.back)]
        BY <2>2
      <3>2. /\ req' \in [Clients -> Request]
            /\ req'[c].rel = id
            /\ req'[c].env = req[c].env /\ req'[c].pol = req[c].pol
            /\ req'[c].cat = req[c].cat /\ req'[c].run = req[c].run
            /\ \A d \in Clients : d # c => req'[d] = req[d]
        BY <3>1 DEF TypeInv, TypeOK, Request, Locals
      <3>3. pc[c] = "rel_locked"
        BY <1>12 DEF check_create_release
      <3>4. RequestOK'
        BY <2>2, <3>2, <3>3 DEF Goto, TypeInv, TypeOK, RequestOK
      <3>5. QED
        BY <1>12, <2>2, <3>2, <3>4 DEF check_create_release, Goto, dbVars,
            TypeInv, TypeOK, Labels, Waiting, Holding
    <2>3. QED
      BY <1>12, <2>1, <2>2 DEF check_create_release
  <1>13. ASSUME NEW c \in Clients, create_release(c)
         PROVE  TypeInv'
    <2>1. /\ req[c] \in Request /\ provider[c] \in Models
          /\ req[c].env \in Environments /\ req[c].pol \in Policies
          /\ req[c].cat \in Catalogs /\ req[c].run \in Runs
          /\ req[c].rel \in ReleaseIds
      BY <1>13 DEF create_release, TypeInv, TypeOK, RequestOK
    <2>2. req[c].back \in ReleaseIds \cup {None}
      BY <2>1 DEF Request
    <2>3. releases' \subseteq Release
      BY <1>13, <2>1, <2>2 DEF create_release, Release, TypeInv, TypeOK
    <2>4. QED
      BY <1>13, <2>3, EndTransactionType DEF create_release, TypeInv, TypeOK
  <1>14. ASSUME NEW c \in Clients, NEW r \in releases,
                Begin(c, "act_update",
                      Locals(r.env, None, None, None, r.id, None)),
                UNCHANGED <<dbVars, lock, rowLock, rows, saw, provider>>
         PROVE  TypeInv'
    <2>1. r.env \in Environments /\ r.id \in ReleaseIds
      BY DEF TypeInv, TypeOK, Release
    <2> DEFINE q == Locals(r.env, None, None, None, r.id, None)
    <2>2. q \in Request /\ q.env = r.env /\ q.rel = r.id
      BY <2>1 DEF Locals, Request
    <2> HIDE DEF q
    <2>3. QED
      BY <1>14, <2>1, <2>2 DEF q, Begin, dbVars, TypeInv, TypeOK, RequestOK,
            Labels, Waiting, Holding
  <1>15. ASSUME NEW c \in Clients, start_update(c)
         PROVE  TypeInv'
    <2>1. {r.id : r \in {s \in releases : s.env = req[c].env}}
            \subseteq ReleaseIds
      BY DEF TypeInv, TypeOK, Release
    <2>2. QED
      BY <1>15, <2>1 DEF start_update, Goto, dbVars, TypeInv, TypeOK,
            RequestOK, Labels, Waiting, Holding
  <1>16. ASSUME NEW c \in Clients, NEW r \in ReleaseIds, lock_row(c, r)
         PROVE  TypeInv'
    BY <1>16 DEF lock_row, dbVars, TypeInv, TypeOK, RequestOK
  <1>17. ASSUME NEW c \in Clients, set_active_release(c)
         PROVE  TypeInv'
    <2>1. req[c].rel \in ReleaseIds
      BY <1>17 DEF set_active_release, TypeInv, RequestOK
    <2>2. QED
      BY <1>17, <2>1, EndTransactionType
         DEF set_active_release, TypeInv, TypeOK
  <1>18. ASSUME NEW c \in Clients, load_active_release(c)
         PROVE  TypeInv'
    <2>1. PICK r \in releases :
            Begin(c, "route_search",
                  Locals(r.env, r.pol, r.cat, r.run, r.id, None))
      BY <1>18 DEF load_active_release
    <2>2. /\ r.env \in Environments /\ r.id \in ReleaseIds
          /\ r.pol \in Policies /\ r.cat \in Catalogs /\ r.run \in Runs
      BY DEF TypeInv, TypeOK, Release
    <2> DEFINE q == Locals(r.env, r.pol, r.cat, r.run, r.id, None)
    <2>3. q \in Request /\ q.cat = r.cat
      BY <2>2 DEF Locals, Request
    <2> HIDE DEF q
    <2>4. QED
      BY <1>18, <2>1, <2>2, <2>3 DEF q, load_active_release, Begin, dbVars,
            TypeInv, TypeOK, RequestOK, Labels, Waiting, Holding
  <1>19. ASSUME NEW c \in Clients,
                intent_route(c) \/ fail_request(c) \/ deadlock_abort(c)
         PROVE  TypeInv'
    BY <1>19, EndTransactionType DEF intent_route, fail_request,
          deadlock_abort, dbVars, TypeInv, TypeOK
  <1>20. ASSUME NEW c \in Clients, restart(c)
         PROVE  TypeInv'
    BY <1>20, EndTransactionType DEF restart, dbVars, TypeInv, TypeOK
  <1>21. ASSUME NEW c \in Clients, begin_activate_release(c)
         PROVE  TypeInv'
    BY <1>14, <1>21 DEF begin_activate_release
  <1>22. ASSUME NEW c \in Clients, begin_rollback_release(c)
         PROVE  TypeInv'
    BY <1>14, <1>22 DEF begin_rollback_release
  <1>23. QED
    BY <1>1, <1>2, <1>3, <1>4, <1>5, <1>6, <1>7, <1>8, <1>9, <1>10, <1>11,
       <1>12, <1>13, <1>15, <1>16, <1>17, <1>18, <1>19, <1>20, <1>21, <1>22
       DEF Next, CatalogStep, TestStep, ReleaseStep, ActivationStep, RouteStep

(* Every state of the release lifecycle is well typed, whatever the order  *)
(* in which workers interleave, fail and restart.                          *)
THEOREM TypeCorrect == Spec => []TypeOK
  <1>1. Spec => []TypeInv
    BY TypeInit, TypeStep, PTL DEF Spec
  <1>2. TypeInv => TypeOK
    BY DEF TypeInv
  <1>3. QED
    BY <1>1, <1>2, PTL

-----------------------------------------------------------------------------
(* The inductive invariant holds.                                          *)

USE DEF dbVars

(* A step of c leaves the other workers' transactions alone.               *)
Untouched(c) ==
    \A d \in Clients : d # c =>
        /\ pc'[d] = pc[d] /\ req'[d] = req[d] /\ rows'[d] = rows[d]
        /\ saw'[d] = saw[d] /\ provider'[d] = provider[d]
        /\ pc[d] \in Holding => lock' = lock

LEMMA EndUntouched ==
    ASSUME IInv, NEW c \in Clients, EndTransaction(c),
           \A d \in Clients : d # c => provider'[d] = provider[d]
    PROVE  Untouched(c) /\ pc'[c] = "idle" /\ saw'[c] = {}
  <1>1. ASSUME NEW d \in Clients, d # c, pc[d] \in Holding
        PROVE  lock' = lock
    BY <1>1 DEF IInv, ClientInv, LockHeld, EndTransaction
  <1>2. QED
    BY <1>1 DEF Untouched, EndTransaction, Goto, IInv, TypeInv, TypeOK

LEMMA BeginUntouched ==
    ASSUME IInv, NEW c \in Clients, NEW label, NEW q, Begin(c, label, q),
           UNCHANGED <<dbVars, lock, rowLock, rows, saw, provider>>
    PROVE  Untouched(c) /\ pc'[c] = label /\ req'[c] = q
  BY DEF Untouched, Begin, IInv, TypeInv, TypeOK

(* The invariant is stable for the workers a step leaves alone when the    *)
(* step does not change the tables.                                        *)
LEMMA OthersKeep ==
    ASSUME IInv, NEW c \in Clients, Untouched(c), UNCHANGED dbVars,
           NEW d \in Clients, d # c
    PROVE  ClientInv(d)'
  <1> USE DEF IInv, Untouched
  <1>1. LockHeld(d)'
    BY DEF ClientInv, LockHeld
  <1>2. TestingLinked(d)'
    BY DEF ClientInv, TestingLinked
  <1>3. DeactivationChecked(d)'
    BY DEF ClientInv, DeactivationChecked
  <1>4. CreationChecked(d)'
    BY DEF ClientInv, CreationChecked
  <1>5. ActivationTargets(d)'
    BY DEF ClientInv, ActivationTargets
  <1>6. RoutedRelease(d)'
    BY DEF ClientInv, RoutedRelease
  <1>7. IdleClean(d)'
    BY DEF ClientInv, IdleClean
  <1>8. QED
    BY <1>1, <1>2, <1>3, <1>4, <1>5, <1>6, <1>7 DEF ClientInv

LEMMA DataKept ==
    ASSUME DataInv, UNCHANGED dbVars
    PROVE  DataInv'
  BY DEF DataInv, RunsLinked, UniqueReleases, ActiveExist,
         ReleasedCatalogServable, ReleaseWasTested, RollbackTargetsExist

(* A worker without a transaction, or waiting for the lock, owes nothing.  *)
LEMMA FreeWorker ==
    ASSUME NEW c \in Clients,
           pc'[c] \in {"idle", "cat_wait", "deact_wait", "rel_wait"},
           pc'[c] = "idle" => saw'[c] = {}
    PROVE  ClientInv(c)'
  BY DEF ClientInv, IdleClean, LockHeld, TestingLinked, DeactivationChecked,
         CreationChecked, ActivationTargets, RoutedRelease, Holding

LEMMA ReadingStep ==
    ASSUME IInv, TypeInv', NEW c \in Clients, Untouched(c), UNCHANGED dbVars,
           ClientInv(c)'
    PROVE  IInv'
  <1>1. \A d \in Clients : ClientInv(d)'
    BY OthersKeep
  <1>2. QED
    BY <1>1, DataKept DEF IInv

(* Two workers are never both inside the section the lock guards.          *)
LEMMA MutualExclusion ==
    ASSUME IInv, NEW c \in Clients, NEW d \in Clients,
           pc[c] \in Holding, pc[d] \in Holding
    PROVE  c = d
  BY DEF IInv, ClientInv, LockHeld

LEMMA IInvInit == Init => IInv
  <1> SUFFICES ASSUME Init PROVE IInv
    OBVIOUS
  <1>1. DataInv
    BY DEF Init, DataInv, RunsLinked, UniqueReleases, ActiveExist,
           ReleasedCatalogServable, ReleaseWasTested, RollbackTargetsExist
  <1>2. \A c \in Clients : ClientInv(c)
    BY DEF Init, ClientInv, IdleClean, LockHeld, TestingLinked, DeactivationChecked,
           CreationChecked, ActivationTargets, RoutedRelease, Holding
  <1>3. QED
    BY <1>1, <1>2, TypeInit DEF IInv

(* The steps that leave the tables alone.                                  *)
LEMMA IInvReads ==
    ASSUME IInv, TypeInv', NEW c \in Clients,
           \/ acquire_advisory_xact_lock(c)
           \/ begin_create_catalog_version(c)
           \/ begin_deactivate_catalog_version(c)
           \/ check_deactivate_catalog_version(c)
           \/ begin_create_test_run(c)
           \/ run_case(c)
           \/ begin_create_release(c)
           \/ check_create_release(c)
           \/ begin_activate_release(c)
           \/ begin_rollback_release(c)
           \/ start_update(c)
           \/ \E r \in ReleaseIds : lock_row(c, r)
           \/ RouteStep(c)
           \/ fail_request(c) \/ deadlock_abort(c) \/ restart(c)
    PROVE  IInv'
  <1> USE DEF IInv
  <1>t. /\ TypeOK /\ None \notin Clients
        /\ pc \in [Clients -> Labels] /\ req \in [Clients -> Request]
        /\ saw \in [Clients -> SUBSET CatalogStatus]
        /\ rows \in [Clients -> SUBSET ReleaseIds]
        /\ provider \in [Clients -> Models]
    BY ConstantsAssumption DEF TypeInv, TypeOK
  <1>1. CASE acquire_advisory_xact_lock(c)
    <2>1. Untouched(c)
      <3>1. \A d \in Clients : pc[d] \notin Holding
        BY <1>1, <1>t DEF acquire_advisory_xact_lock, ClientInv, LockHeld
      <3>2. QED
        BY <1>1, <1>t, <3>1 DEF acquire_advisory_xact_lock, Goto, Untouched
    <2>2. /\ pc'[c] \in {"cat_locked", "deact_locked", "rel_locked"}
          /\ lock' = c
      BY <1>1, <1>t DEF acquire_advisory_xact_lock, Goto
    <2>3. ClientInv(c)'
      BY <2>2 DEF ClientInv, IdleClean, LockHeld, TestingLinked, DeactivationChecked,
            CreationChecked, ActivationTargets, RoutedRelease
    <2>4. QED
      BY <1>1, <2>1, <2>3, ReadingStep DEF acquire_advisory_xact_lock
  <1>2. CASE begin_create_catalog_version(c)
    <2>1. Untouched(c) /\ pc'[c] = "cat_wait"
      BY <1>2, BeginUntouched DEF begin_create_catalog_version
    <2>2. QED
      BY <1>2, <2>1, FreeWorker, ReadingStep DEF begin_create_catalog_version
  <1>3. CASE begin_deactivate_catalog_version(c)
    <2>1. Untouched(c) /\ pc'[c] = "deact_wait"
      BY <1>3, BeginUntouched DEF begin_deactivate_catalog_version
    <2>2. QED
      BY <1>3, <2>1, FreeWorker, ReadingStep
         DEF begin_deactivate_catalog_version
  <1>4. ASSUME EndTransaction(c), UNCHANGED dbVars,
               \A d \in Clients : d # c => provider'[d] = provider[d]
        PROVE  IInv'
    <2>1. Untouched(c) /\ pc'[c] = "idle" /\ saw'[c] = {}
      BY <1>4, EndUntouched
    <2>2. QED
      BY <1>4, <2>1, FreeWorker, ReadingStep
  <1>5. CASE check_deactivate_catalog_version(c)
    <2>1. CASE EndTransaction(c)
      BY <1>4, <1>5, <2>1 DEF check_deactivate_catalog_version
    <2>2. CASE /\ MayDeactivate(req[c].cat)
               /\ Goto(c, "deact_update")
               /\ UNCHANGED <<lock, rowLock, req, rows, saw>>
      <3>1. Untouched(c) /\ pc'[c] = "deact_update" /\ lock' = lock
        BY <1>5, <1>t, <2>2
           DEF check_deactivate_catalog_version, Goto, Untouched
      <3>2. lock = c
        BY <1>5 DEF check_deactivate_catalog_version, ClientInv, LockHeld,
              Holding
      <3>3. DeactivationChecked(c)'
        BY <1>5, <2>2 DEF check_deactivate_catalog_version, MayDeactivate,
              catalog_version_has_release_reference, DeactivationChecked
      <3>4. ClientInv(c)'
        BY <3>1, <3>2, <3>3 DEF ClientInv, IdleClean, LockHeld, TestingLinked,
              CreationChecked, ActivationTargets, RoutedRelease
      <3>5. QED
        BY <1>5, <3>1, <3>4, ReadingStep DEF check_deactivate_catalog_version
    <2>3. QED
      BY <1>5, <2>1, <2>2 DEF check_deactivate_catalog_version
  <1>6. CASE begin_create_test_run(c)
    <2>1. PICK pol \in Policies, cat \in Catalogs :
            /\ catalog[cat] # "absent"
            /\ catModel[cat] = provider[c]
            /\ Begin(c, "test_cases",
                     Locals(None, pol, cat, None, None, None))
      BY <1>6 DEF begin_create_test_run
    <2>2. /\ Untouched(c) /\ pc'[c] = "test_cases"
          /\ req'[c] = Locals(None, pol, cat, None, None, None)
      BY <1>6, <2>1, BeginUntouched DEF begin_create_test_run
    <2>3. req'[c].cat = cat
      BY <2>2 DEF Locals
    <2>4. saw[c] = {}
      BY <1>6, <1>t, <2>1 DEF Begin, ClientInv, IdleClean
    <2>5. TestingLinked(c)'
      BY <1>6, <2>1, <2>3, <2>4 DEF begin_create_test_run, TestingLinked
    <2>6. ClientInv(c)'
      BY <2>2, <2>5 DEF ClientInv, IdleClean, LockHeld, DeactivationChecked, Holding,
            CreationChecked, ActivationTargets, RoutedRelease
    <2>7. QED
      BY <1>6, <2>2, <2>6, ReadingStep DEF begin_create_test_run
  <1>7. CASE run_case(c)
    <2>1. Untouched(c) /\ pc' = pc /\ req' = req
      BY <1>7, <1>t DEF run_case, Untouched
    <2>2. TestingLinked(c)'
      BY <1>7, <1>t DEF run_case, ClientInv, TestingLinked
    <2>3. ClientInv(c)'
      BY <1>7, <2>2 DEF run_case, ClientInv, IdleClean, LockHeld,
            DeactivationChecked, Holding, CreationChecked, ActivationTargets,
            RoutedRelease
    <2>4. QED
      BY <1>7, <2>1, <2>3, ReadingStep DEF run_case
  <1>8. CASE begin_create_release(c)
    <2>1. Untouched(c) /\ pc'[c] = "rel_wait"
      BY <1>8, BeginUntouched DEF begin_create_release
    <2>2. QED
      BY <1>8, <2>1, FreeWorker, ReadingStep DEF begin_create_release
  <1>9. CASE check_create_release(c)
    <2>1. CASE EndTransaction(c)
      BY <1>4, <1>9, <2>1 DEF check_create_release
    <2>2. CASE /\ Releasable(c, req[c])
               /\ \E id \in ReleaseIds :
                    /\ release_version_id(id)
                    /\ req' = [req EXCEPT ![c] =
                              Locals(@.env, @.pol, @.cat, @.run, id, @.back)]
               /\ Goto(c, "rel_insert")
               /\ UNCHANGED <<lock, rowLock, rows, saw>>
      <3>1. PICK id \in ReleaseIds :
              /\ release_version_id(id)
              /\ req' = [req EXCEPT ![c] =
                        Locals(@.env, @.pol, @.cat, @.run, id, @.back)]
        BY <2>2
      <3>2. /\ Untouched(c) /\ pc'[c] = "rel_insert" /\ lock' = lock
        BY <1>9, <1>t, <2>2, <3>1 DEF check_create_release, Goto, Untouched
      <3>3. /\ req'[c].env = req[c].env /\ req'[c].pol = req[c].pol
            /\ req'[c].cat = req[c].cat /\ req'[c].run = req[c].run
            /\ req'[c].back = req[c].back /\ req'[c].rel = id
        BY <1>t, <3>1 DEF Locals
      <3>4. lock = c
        BY <1>9 DEF check_create_release, ClientInv, LockHeld, Holding
      <3>5. /\ validate_release_inputs(req[c])
            /\ get_release_for_test_run_environment(req[c]) = {}
            /\ VectorIndexMatches(c, req[c])
        BY <2>2 DEF Releasable
      <3>6. \A r \in releases : r.id # id
        <4>1. \A r \in releases : r.id \in Nat /\ r.id < id
          BY <1>t, <3>1 DEF release_version_id, TypeOK, Release, ReleaseIds
        <4>2. QED
          BY <4>1
      <3>7. \A r \in releases :
              ~ (r.env = req[c].env /\ r.run = req[c].run)
        BY <3>5 DEF get_release_for_test_run_environment
      <3>8. CreationChecked(c)'
        BY <1>9, <3>3, <3>5, <3>6, <3>7 DEF check_create_release,
              CreationChecked, validate_release_inputs, VectorIndexMatches
      <3>9. ClientInv(c)'
        BY <3>2, <3>4, <3>8 DEF ClientInv, IdleClean, LockHeld,
              TestingLinked, DeactivationChecked, ActivationTargets,
              RoutedRelease
      <3>10. QED
        BY <1>9, <3>2, <3>9, ReadingStep DEF check_create_release
    <2>3. QED
      BY <1>9, <2>1, <2>2 DEF check_create_release
  <1>10. ASSUME NEW r \in releases,
                Begin(c, "act_update",
                      Locals(r.env, None, None, None, r.id, None)),
                UNCHANGED <<dbVars, lock, rowLock, rows, saw, provider>>
         PROVE  IInv'
    <2>1. /\ Untouched(c) /\ pc'[c] = "act_update"
          /\ req'[c] = Locals(r.env, None, None, None, r.id, None)
      BY <1>10, BeginUntouched
    <2>2. req'[c].env = r.env /\ req'[c].rel = r.id
      BY <2>1 DEF Locals
    <2>3. ClientInv(c)'
      BY <1>10, <2>1, <2>2 DEF ClientInv, IdleClean, LockHeld, TestingLinked,
            DeactivationChecked, CreationChecked, ActivationTargets,
            RoutedRelease, Holding
    <2>4. QED
      BY <1>10, <2>1, <2>3, ReadingStep
  <1>11. CASE begin_activate_release(c)
    BY <1>10, <1>11 DEF begin_activate_release
  <1>12. CASE begin_rollback_release(c)
    BY <1>10, <1>12 DEF begin_rollback_release
  <1>13. CASE start_update(c)
    <2>1. Untouched(c) /\ pc'[c] = "act_rows" /\ req' = req
      BY <1>13, <1>t DEF start_update, Goto, Untouched
    <2>2. \A i \in rows'[c] : \E r \in releases :
            r.id = i /\ r.env = req[c].env
      BY <1>13, <1>t DEF start_update
    <2>3. \E r \in releases : r.id = req[c].rel /\ r.env = req[c].env
      BY <1>13 DEF start_update, ClientInv, ActivationTargets
    <2>4. ClientInv(c)'
      BY <1>13, <2>1, <2>2, <2>3 DEF start_update, ClientInv, IdleClean,
            LockHeld, TestingLinked, DeactivationChecked, CreationChecked,
            ActivationTargets, RoutedRelease, Holding
    <2>5. QED
      BY <1>13, <2>1, <2>4, ReadingStep DEF start_update
  <1>14. ASSUME NEW r \in ReleaseIds, lock_row(c, r)
         PROVE  IInv'
    <2>1. Untouched(c)
      BY <1>14 DEF lock_row, Untouched
    <2>2. ClientInv(c)'
      BY <1>14 DEF lock_row, ClientInv, IdleClean, LockHeld, TestingLinked,
            DeactivationChecked, CreationChecked, ActivationTargets,
            RoutedRelease
    <2>3. QED
      BY <1>14, <2>1, <2>2, ReadingStep DEF lock_row
  <1>15. CASE load_active_release(c)
    <2>1. PICK r \in releases :
            Begin(c, "route_search",
                  Locals(r.env, r.pol, r.cat, r.run, r.id, None))
      BY <1>15 DEF load_active_release
    <2>2. /\ Untouched(c) /\ pc'[c] = "route_search"
          /\ req'[c] = Locals(r.env, r.pol, r.cat, r.run, r.id, None)
      BY <1>15, <2>1, BeginUntouched DEF load_active_release
    <2>3. req'[c].cat = r.cat /\ req'[c].run = r.run
      BY <2>2 DEF Locals
    <2>4. ClientInv(c)'
      BY <1>15, <2>2, <2>3 DEF load_active_release, ClientInv, IdleClean,
            LockHeld, TestingLinked, DeactivationChecked, CreationChecked,
            ActivationTargets, RoutedRelease, Holding
    <2>5. QED
      BY <1>15, <2>2, <2>4, ReadingStep DEF load_active_release
  <1>16. CASE intent_route(c) \/ fail_request(c) \/ deadlock_abort(c)
    BY <1>4, <1>16 DEF intent_route, fail_request, deadlock_abort
  <1>17. CASE restart(c)
    BY <1>4, <1>17, <1>t DEF restart
  <1>18. QED
    BY <1>1, <1>2, <1>3, <1>5, <1>6, <1>7, <1>8, <1>9, <1>11, <1>12, <1>13,
       <1>14, <1>15, <1>16, <1>17 DEF RouteStep

(* A committing step ends c's transaction; what is left to show is that    *)
(* the new tables are consistent and that the others can live with them.   *)
LEMMA CommitStep ==
    ASSUME IInv, TypeInv', NEW c \in Clients, EndTransaction(c),
           provider' = provider, DataInv',
           \A d \in Clients : d # c =>
               /\ TestingLinked(d)' /\ DeactivationChecked(d)'
               /\ CreationChecked(d)' /\ ActivationTargets(d)'
               /\ RoutedRelease(d)'
    PROVE  IInv'
  <1>1. Untouched(c) /\ pc'[c] = "idle" /\ saw'[c] = {}
    BY EndUntouched
  <1>2. ASSUME NEW d \in Clients, d # c PROVE ClientInv(d)'
    <2>1. LockHeld(d)' /\ IdleClean(d)'
      BY <1>1, <1>2 DEF Untouched, IInv, ClientInv, LockHeld, IdleClean
    <2>2. QED
      BY <1>2, <2>1 DEF ClientInv
  <1>3. ClientInv(c)'
    BY <1>1, FreeWorker
  <1>4. QED
    BY <1>2, <1>3 DEF IInv

LEMMA IInvCommits ==
    ASSUME IInv, TypeInv', NEW c \in Clients,
           \/ create_catalog_version(c)
           \/ deactivate_catalog_version(c)
           \/ create_test_run(c)
           \/ create_release(c)
           \/ set_active_release(c)
    PROVE  IInv'
  <1>t. TypeOK /\ RequestOK
    BY DEF IInv, TypeInv
  <1>d. DataInv /\ \A d \in Clients : ClientInv(d)
    BY DEF IInv
  <1>u. ASSUME EndTransaction(c), provider' = provider PROVE Untouched(c)
    BY <1>u, EndUntouched
  <1>1. CASE create_catalog_version(c)
    <2>1. PICK cat \in Catalogs :
            /\ catalog[cat] = "absent"
            /\ catalog' = [catalog EXCEPT ![cat] = "active"]
            /\ catModel' = [catModel EXCEPT ![cat] = provider[c]]
      BY <1>1 DEF create_catalog_version
    <2>2. \A x \in Catalogs : catalog[x] # "absent" =>
            catalog'[x] = catalog[x] /\ catModel'[x] = catModel[x]
      BY <1>t, <2>1 DEF TypeOK
    <2>3. /\ EndTransaction(c) /\ Untouched(c)
          /\ UNCHANGED <<runs, releases, active, provider>>
      BY <1>1, <1>u DEF create_catalog_version
    <2>4. (\A t \in runs : t.cat \in Catalogs)
          /\ (\A r \in releases : r.cat \in Catalogs)
      BY <1>t DEF TypeOK, TestRun, Release
    <2>5. RunsLinked'
      BY <1>d, <2>2, <2>3, <2>4 DEF DataInv, RunsLinked
    <2>6. ReleasedCatalogServable'
      BY <1>d, <2>2, <2>3, <2>4 DEF DataInv, ReleasedCatalogServable
    <2>7. ReleaseWasTested'
      BY <1>d, <2>2, <2>3, <2>4
         DEF DataInv, ReleaseWasTested, ReleasedCatalogServable
    <2>8. DataInv'
      BY <1>d, <2>3, <2>5, <2>6, <2>7
         DEF DataInv, UniqueReleases, ActiveExist, RollbackTargetsExist
    <2>9. ASSUME NEW d \in Clients, d # c
          PROVE  /\ TestingLinked(d)' /\ DeactivationChecked(d)'
                 /\ CreationChecked(d)' /\ ActivationTargets(d)'
                 /\ RoutedRelease(d)'
      <3>1. TestingLinked(d)'
        BY <1>d, <1>t, <2>2, <2>3, <2>9
           DEF Untouched, ClientInv, TestingLinked, RequestOK
      <3>2. DeactivationChecked(d)'
        BY <1>d, <1>t, <2>2, <2>3, <2>9
           DEF Untouched, ClientInv, DeactivationChecked, RequestOK
      <3>3. CreationChecked(d)'
        BY <1>d, <1>t, <2>2, <2>3, <2>9
           DEF Untouched, ClientInv, CreationChecked, RequestOK
      <3>4. ActivationTargets(d)' /\ RoutedRelease(d)'
        BY <1>d, <2>3, <2>9
           DEF Untouched, ClientInv, ActivationTargets, RoutedRelease
      <3>5. QED
        BY <3>1, <3>2, <3>3, <3>4
    <2>10. QED
      BY <2>3, <2>8, <2>9, CommitStep
  <1>2. CASE deactivate_catalog_version(c)
    <2> DEFINE cat == req[c].cat
    <2>1. /\ cat \in Catalogs /\ catalog[cat] # "absent"
          /\ \A r \in releases : r.cat # cat
      BY <1>2, <1>t, <1>d DEF deactivate_catalog_version, RequestOK,
            ClientInv, DeactivationChecked
    <2>2. /\ catalog'[cat] = "inactive"
          /\ \A x \in Catalogs : x # cat => catalog'[x] = catalog[x]
      BY <1>2, <1>t, <2>1 DEF deactivate_catalog_version, TypeOK
    <2> HIDE DEF cat
    <2>3. /\ EndTransaction(c) /\ Untouched(c)
          /\ UNCHANGED <<catModel, runs, releases, active, provider>>
      BY <1>2, <1>u DEF deactivate_catalog_version
    <2>4. (\A t \in runs : t.cat \in Catalogs)
          /\ (\A r \in releases : r.cat \in Catalogs)
      BY <1>t DEF TypeOK, TestRun, Release
    <2>5. RunsLinked'
      BY <1>d, <2>2, <2>3, <2>4 DEF DataInv, RunsLinked
    <2>6. ReleasedCatalogServable'
      BY <1>d, <2>1, <2>2, <2>3, <2>4 DEF DataInv, ReleasedCatalogServable
    <2>7. DataInv'
      BY <1>d, <2>3, <2>5, <2>6 DEF DataInv, ReleaseWasTested,
            UniqueReleases, ActiveExist, RollbackTargetsExist
    <2>8. ASSUME NEW d \in Clients, d # c
          PROVE  /\ TestingLinked(d)' /\ DeactivationChecked(d)'
                 /\ CreationChecked(d)' /\ ActivationTargets(d)'
                 /\ RoutedRelease(d)'
      <3>0. pc'[d] = pc[d] /\ pc[d] \notin Holding
        BY <1>2, <2>3, <2>8, <1>d
           DEF deactivate_catalog_version, Untouched, Holding, ClientInv,
               LockHeld
      <3>1. TestingLinked(d)'
        BY <1>d, <1>t, <2>2, <2>3, <2>8
           DEF Untouched, ClientInv, TestingLinked, RequestOK
      <3>2. DeactivationChecked(d)' /\ CreationChecked(d)'
        BY <3>0 DEF Holding, DeactivationChecked, CreationChecked
      <3>3. ActivationTargets(d)' /\ RoutedRelease(d)'
        BY <1>d, <2>3, <2>8
           DEF Untouched, ClientInv, ActivationTargets, RoutedRelease
      <3>4. QED
        BY <3>1, <3>2, <3>3
    <2>9. QED
      BY <2>3, <2>7, <2>8, CommitStep
  <1>3. CASE create_test_run(c)
    <2>1. PICK id \in Runs, rateReached \in BOOLEAN, risk \in RiskOutcome :
            runs' = runs \cup
              {[id |-> id, pol |-> req[c].pol, cat |-> req[c].cat,
                model |-> provider[c],
                gate_passed |-> evaluate_gate(rateReached, risk),
                risk |-> risk, saw |-> saw[c]]}
      BY <1>3 DEF create_test_run
    <2>2. /\ pc[c] = "test_cases" /\ saw[c] # {} /\ TestingLinked(c)
          /\ EndTransaction(c) /\ Untouched(c)
          /\ UNCHANGED <<catalog, catModel, releases, active, provider>>
      BY <1>3, <1>d, <1>u DEF create_test_run, ClientInv
    <2>3. /\ catalog[req[c].cat] # "absent"
          /\ catModel[req[c].cat] = provider[c]
          /\ catalog[req[c].cat] = "active" => saw[c] = {"active"}
      BY <2>2 DEF TestingLinked
    <2>4. RunsLinked'
      BY <1>d, <2>1, <2>2, <2>3 DEF DataInv, RunsLinked
    <2>5. runs \subseteq runs'
      BY <2>1
    <2>6. ReleaseWasTested'
      BY <1>d, <2>2, <2>5 DEF DataInv, ReleaseWasTested
    <2>7. DataInv'
      BY <1>d, <2>2, <2>4, <2>6 DEF DataInv, ReleasedCatalogServable,
            UniqueReleases, ActiveExist, RollbackTargetsExist
    <2>8. ASSUME NEW d \in Clients, d # c
          PROVE  /\ TestingLinked(d)' /\ DeactivationChecked(d)'
                 /\ CreationChecked(d)' /\ ActivationTargets(d)'
                 /\ RoutedRelease(d)'
      <3>1. TestingLinked(d)' /\ DeactivationChecked(d)'
        BY <1>d, <2>2, <2>8
           DEF Untouched, ClientInv, TestingLinked, DeactivationChecked
      <3>2. CreationChecked(d)'
        BY <1>d, <2>2, <2>5, <2>8 DEF Untouched, ClientInv, CreationChecked
      <3>3. ActivationTargets(d)' /\ RoutedRelease(d)'
        BY <1>d, <2>2, <2>8
           DEF Untouched, ClientInv, ActivationTargets, RoutedRelease
      <3>4. QED
        BY <3>1, <3>2, <3>3
    <2>9. QED
      BY <2>2, <2>7, <2>8, CommitStep
  <1>4. CASE create_release(c)
    <2> DEFINE new == [id |-> req[c].rel, env |-> req[c].env,
                       pol |-> req[c].pol, cat |-> req[c].cat,
                       run |-> req[c].run, model |-> provider[c],
                       back |-> req[c].back]
    <2>1. /\ releases' = releases \cup {new} /\ CreationChecked(c)
          /\ pc[c] = "rel_insert" /\ EndTransaction(c) /\ Untouched(c)
          /\ UNCHANGED <<catalog, catModel, runs, active, provider>>
      BY <1>4, <1>d, <1>u DEF create_release, ClientInv
    <2>2. /\ new.id = req[c].rel /\ new.env = req[c].env
          /\ new.pol = req[c].pol /\ new.cat = req[c].cat
          /\ new.run = req[c].run /\ new.model = provider[c]
          /\ new.back = req[c].back
      OBVIOUS
    <2> HIDE DEF new
    <2>3. UniqueReleases'
      BY <1>d, <2>1, <2>2 DEF DataInv, UniqueReleases, CreationChecked
    <2>4. ActiveExist'
      BY <1>d, <2>1 DEF DataInv, ActiveExist
    <2>5. ReleasedCatalogServable'
      BY <1>d, <2>1, <2>2
         DEF DataInv, ReleasedCatalogServable, CreationChecked
    <2>6. ReleaseWasTested'
      BY <1>d, <2>1, <2>2
         DEF DataInv, ReleaseWasTested, RunsLinked, CreationChecked
    <2>7. RollbackTargetsExist'
      BY <1>d, <2>1, <2>2 DEF DataInv, RollbackTargetsExist, CreationChecked
    <2>8. DataInv'
      BY <1>d, <2>1, <2>3, <2>4, <2>5, <2>6, <2>7 DEF DataInv, RunsLinked
    <2>9. ASSUME NEW d \in Clients, d # c
          PROVE  /\ TestingLinked(d)' /\ DeactivationChecked(d)'
                 /\ CreationChecked(d)' /\ ActivationTargets(d)'
                 /\ RoutedRelease(d)'
      <3>0. pc'[d] = pc[d] /\ pc[d] \notin Holding
        BY <2>1, <2>9, <1>d DEF Untouched, Holding, ClientInv, LockHeld
      <3>1. TestingLinked(d)'
        BY <1>d, <2>1, <2>9 DEF Untouched, ClientInv, TestingLinked
      <3>2. DeactivationChecked(d)' /\ CreationChecked(d)'
        BY <3>0 DEF Holding, DeactivationChecked, CreationChecked
      <3>3. ActivationTargets(d)' /\ RoutedRelease(d)'
        BY <1>d, <2>1, <2>9
           DEF Untouched, ClientInv, ActivationTargets, RoutedRelease
      <3>4. QED
        BY <3>1, <3>2, <3>3
    <2>10. QED
      BY <2>1, <2>8, <2>9, CommitStep
  <1>5. CASE set_active_release(c)
    <2>1. /\ active' = (active \ rows[c]) \cup {req[c].rel}
          /\ ActivationTargets(c) /\ pc[c] = "act_rows"
          /\ EndTransaction(c) /\ Untouched(c)
          /\ UNCHANGED <<catalog, catModel, runs, releases, provider>>
      BY <1>5, <1>d, <1>u DEF set_active_release, ClientInv
    <2>2. ActiveExist'
      BY <1>d, <2>1 DEF DataInv, ActiveExist, ActivationTargets
    <2>3. DataInv'
      BY <1>d, <2>1, <2>2 DEF DataInv, RunsLinked, UniqueReleases,
            ReleasedCatalogServable, ReleaseWasTested, RollbackTargetsExist
    <2>4. ASSUME NEW d \in Clients, d # c
          PROVE  /\ TestingLinked(d)' /\ DeactivationChecked(d)'
                 /\ CreationChecked(d)' /\ ActivationTargets(d)'
                 /\ RoutedRelease(d)'
      <3>1. TestingLinked(d)' /\ DeactivationChecked(d)'
        BY <1>d, <2>1, <2>4
           DEF Untouched, ClientInv, TestingLinked, DeactivationChecked
      <3>2. CreationChecked(d)'
        BY <1>d, <2>1, <2>4 DEF Untouched, ClientInv, CreationChecked
      <3>3. ActivationTargets(d)' /\ RoutedRelease(d)'
        BY <1>d, <2>1, <2>4
           DEF Untouched, ClientInv, ActivationTargets, RoutedRelease
      <3>4. QED
        BY <3>1, <3>2, <3>3
    <2>5. QED
      BY <2>1, <2>3, <2>4, CommitStep
  <1>6. QED
    BY <1>1, <1>2, <1>3, <1>4, <1>5

LEMMA IInvStep == IInv /\ [Next]_vars => IInv'
  <1> SUFFICES ASSUME IInv, [Next]_vars PROVE IInv'
    OBVIOUS
  <1>1. TypeInv'
    BY TypeStep DEF IInv
  <1>2. CASE UNCHANGED vars
    <2>1. DataInv'
      BY <1>2, DataKept DEF vars, IInv
    <2>2. ASSUME NEW d \in Clients PROVE ClientInv(d)'
      BY <1>2 DEF vars, IInv, ClientInv, IdleClean, LockHeld, TestingLinked,
            DeactivationChecked, CreationChecked, ActivationTargets,
            RoutedRelease
    <2>3. QED
      BY <1>1, <2>1, <2>2 DEF IInv
  <1>3. CASE Next
    BY <1>1, <1>3, IInvReads, IInvCommits DEF Next, CatalogStep, TestStep,
       ReleaseStep, ActivationStep
  <1>4. QED
    BY <1>2, <1>3

LEMMA IInvAlways == Spec => []IInv
  BY IInvInit, IInvStep, PTL DEF Spec

(* No release of any service ever refers to a catalog version that was     *)
(* deactivated: create_release and deactivate_catalog_version can not      *)
(* cross, however many workers there are and wherever they die.            *)
THEOREM ReleasesStayServable == Spec => []ReleasedCatalogServable
  <1>1. IInv => ReleasedCatalogServable
    BY DEF IInv, DataInv
  <1>2. QED
    BY <1>1, IInvAlways, PTL

(* Every release was gated by a test run of its own policy, catalog and    *)
(* model that read none but the embeddings it will serve.                  *)
THEOREM ReleasesAreTested == Spec => []ReleaseWasTested
  <1>1. IInv => ReleaseWasTested
    BY DEF IInv, DataInv
  <1>2. QED
    BY <1>1, IInvAlways, PTL

(* create_release never violates the primary key or the unique constraint  *)
(* of the releases table.                                                  *)
THEOREM InsertsAreClean == Spec => []InsertNeverConflicts
  <1>1. IInv => InsertNeverConflicts
    BY DEF IInv, DataInv, ClientInv, CreationChecked, UniqueReleases,
           InsertNeverConflicts
  <1>2. QED
    BY <1>1, IInvAlways, PTL

(* The rollback target a release names exists in its own environment.      *)
THEOREM RollbackIsPossible == Spec => []RollbackTargetsExist
  <1>1. IInv => RollbackTargetsExist
    BY DEF IInv, DataInv
  <1>2. QED
    BY <1>1, IInvAlways, PTL

(* A runtime request finds the catalog and the gated test run of the       *)
(* release it was given, whatever happens while it runs.                   *)
THEOREM RuntimeIsServed == Spec => []RuntimeFindsDependencies
  <1>1. IInv => RuntimeFindsDependencies
    <2> SUFFICES ASSUME IInv, NEW c \in Clients, pc[c] = "route_search"
                 PROVE  /\ catalog[req[c].cat] = "active"
                        /\ \E t \in runs : t.id = req[c].run /\ t.gate_passed
      BY DEF RuntimeFindsDependencies
    <2>1. PICK r \in releases : r.cat = req[c].cat /\ r.run = req[c].run
      BY DEF IInv, ClientInv, RoutedRelease
    <2>2. QED
      BY <2>1 DEF IInv, DataInv, ReleasedCatalogServable, ReleaseWasTested
  <1>2. QED
    BY <1>1, IInvAlways, PTL

-----------------------------------------------------------------------------
(* Activation.                                                             *)

(* Only create_release adds releases and only set_active_release touches   *)
(* the column active.                                                      *)
LEMMA ActiveChanges ==
    ASSUME [Next]_vars
    PROVE  \/ UNCHANGED <<releases, active>>
           \/ \E c \in Clients : create_release(c) \/ set_active_release(c)
  <1>1. CASE UNCHANGED vars
    BY <1>1 DEF vars
  <1>2. ASSUME NEW c \in Clients, CatalogStep(c) \/ TestStep(c)
        PROVE  UNCHANGED <<releases, active>>
    BY <1>2 DEF CatalogStep, TestStep, begin_create_catalog_version,
       create_catalog_version, begin_deactivate_catalog_version,
       check_deactivate_catalog_version, deactivate_catalog_version,
       begin_create_test_run, run_case, create_test_run
  <1>3. ASSUME NEW c \in Clients,
               ReleaseStep(c) \/ ActivationStep(c) \/ RouteStep(c),
               ~ create_release(c), ~ set_active_release(c)
        PROVE  UNCHANGED <<releases, active>>
    BY <1>3 DEF ReleaseStep, ActivationStep, RouteStep, begin_create_release,
       check_create_release, begin_activate_release, begin_rollback_release,
       start_update, lock_row, load_active_release, intent_route
  <1>4. ASSUME NEW c \in Clients,
               \/ acquire_advisory_xact_lock(c) \/ fail_request(c)
               \/ deadlock_abort(c) \/ restart(c)
        PROVE  UNCHANGED <<releases, active>>
    BY <1>4 DEF acquire_advisory_xact_lock, fail_request, deadlock_abort,
       restart
  <1>5. QED
    BY <1>1, <1>2, <1>3, <1>4 DEF Next

LEMMA ServedStep ==
    ASSUME IInv, [Next]_vars, NEW env \in Environments, ActiveIn(env) # {}
    PROVE  ActiveIn(env)' # {}
  <1>1. PICK r \in releases : r.env = env /\ r.id \in active
    BY DEF ActiveIn
  <1>2. CASE UNCHANGED <<releases, active>>
    BY <1>1, <1>2 DEF ActiveIn
  <1>3. ASSUME NEW c \in Clients, create_release(c)
        PROVE  ActiveIn(env)' # {}
    <2>1. r \in releases' /\ active' = active
      BY <1>3 DEF create_release
    <2>2. QED
      BY <1>1, <2>1 DEF ActiveIn
  <1>4. ASSUME NEW c \in Clients, set_active_release(c)
        PROVE  ActiveIn(env)' # {}
    <2>1. /\ releases' = releases /\ ActivationTargets(c) /\ UniqueReleases
          /\ active' = (active \ rows[c]) \cup {req[c].rel}
          /\ pc[c] = "act_rows"
      BY <1>4 DEF set_active_release, IInv, DataInv, ClientInv
    <2>2. CASE req[c].env = env
      BY <2>1, <2>2 DEF ActivationTargets, ActiveIn
    <2>3. CASE req[c].env # env
      <3>1. r.id \notin rows[c]
        BY <1>1, <2>1, <2>3 DEF ActivationTargets, UniqueReleases
      <3>2. QED
        BY <1>1, <2>1, <3>1 DEF ActiveIn
    <2>4. QED
      BY <2>2, <2>3
  <1>5. QED
    BY <1>2, <1>3, <1>4, ActiveChanges

(* Once an environment serves a release it serves one for ever.            *)
THEOREM ServingNeverStops == Spec => ServedStaysServed
  <1>1. IInv /\ [Next]_vars =>
          [\A env \in Environments :
              ActiveIn(env) # {} => ActiveIn(env)' # {}]_vars
    BY ServedStep
  <1>2. QED
    BY <1>1, IInvAlways, PTL DEF Spec, ServedStaysServed

(* Without a release committed in between, the rows of a running UPDATE    *)
(* are all the releases of its environment.                                *)
SnapshotComplete ==
    \A c \in Clients : pc[c] = "act_rows" =>
        \A r \in releases : r.env = req[c].env => r.id \in rows[c]

QInv == IInv /\ SnapshotComplete /\ AtMostOneActive

LEMMA ReleasesChange ==
    ASSUME [Next]_vars
    PROVE  releases' = releases \/ \E c \in Clients : create_release(c)
  BY ActiveChanges DEF set_active_release

(* A worker is in act_rows because it was, with the same rows, or because  *)
(* it has just taken its snapshot.                                         *)
LEMMA SnapshotChange ==
    ASSUME TypeInv, [Next]_vars, NEW d \in Clients, pc'[d] = "act_rows"
    PROVE  \/ pc[d] = "act_rows" /\ req'[d] = req[d] /\ rows'[d] = rows[d]
           \/ start_update(d)
  <1> USE DEF TypeInv, TypeOK, Labels, Waiting, Holding
  <1>1. CASE UNCHANGED vars
    BY <1>1 DEF vars
  <1>2. ASSUME NEW c \in Clients, EndTransaction(c)
        PROVE  pc[d] = "act_rows" /\ req'[d] = req[d] /\ rows'[d] = rows[d]
    BY <1>2 DEF EndTransaction, Goto
  <1>3. ASSUME NEW c \in Clients, NEW label, NEW q, Begin(c, label, q),
               label # "act_rows", rows' = rows
        PROVE  pc[d] = "act_rows" /\ req'[d] = req[d] /\ rows'[d] = rows[d]
    BY <1>3 DEF Begin
  <1>4. ASSUME NEW c \in Clients,
               \/ create_catalog_version(c) \/ deactivate_catalog_version(c)
               \/ create_test_run(c) \/ create_release(c)
               \/ set_active_release(c) \/ intent_route(c)
               \/ fail_request(c) \/ deadlock_abort(c) \/ restart(c)
        PROVE  pc[d] = "act_rows" /\ req'[d] = req[d] /\ rows'[d] = rows[d]
    <2>1. EndTransaction(c)
      BY <1>4 DEF create_catalog_version, deactivate_catalog_version,
         create_test_run, create_release, set_active_release, intent_route,
         fail_request, deadlock_abort, restart
    <2>2. QED
      BY <1>2, <2>1
  <1>5. ASSUME NEW c \in Clients,
               \/ begin_create_catalog_version(c)
               \/ begin_deactivate_catalog_version(c)
               \/ begin_create_test_run(c) \/ begin_create_release(c)
               \/ begin_activate_release(c) \/ begin_rollback_release(c)
               \/ load_active_release(c)
        PROVE  pc[d] = "act_rows" /\ req'[d] = req[d] /\ rows'[d] = rows[d]
    BY <1>3, <1>5 DEF begin_create_catalog_version,
       begin_deactivate_catalog_version, begin_create_test_run,
       begin_create_release, begin_activate_release, begin_rollback_release,
       load_active_release
  <1>6. ASSUME NEW c \in Clients,
               acquire_advisory_xact_lock(c) \/ run_case(c)
               \/ \E r \in ReleaseIds : lock_row(c, r)
        PROVE  pc[d] = "act_rows" /\ req'[d] = req[d] /\ rows'[d] = rows[d]
    BY <1>6 DEF acquire_advisory_xact_lock, run_case, lock_row, Goto
  <1>7. ASSUME NEW c \in Clients, check_deactivate_catalog_version(c)
        PROVE  pc[d] = "act_rows" /\ req'[d] = req[d] /\ rows'[d] = rows[d]
    BY <1>2, <1>7 DEF check_deactivate_catalog_version, Goto
  <1>8. ASSUME NEW c \in Clients, check_create_release(c)
        PROVE  pc[d] = "act_rows" /\ req'[d] = req[d] /\ rows'[d] = rows[d]
    BY <1>2, <1>8 DEF check_create_release, Goto
  <1>9. ASSUME NEW c \in Clients, start_update(c)
        PROVE  \/ pc[d] = "act_rows" /\ req'[d] = req[d] /\ rows'[d] = rows[d]
               \/ start_update(d)
    BY <1>9 DEF start_update, Goto
  <1>10. QED
    BY <1>1, <1>4, <1>5, <1>6, <1>7, <1>8, <1>9 DEF Next, CatalogStep,
       TestStep, ReleaseStep, ActivationStep, RouteStep

LEMMA QInvStep == QInv /\ [QuiescentNext]_vars => QInv'
  <1> SUFFICES ASSUME QInv, [QuiescentNext]_vars PROVE QInv'
    OBVIOUS
  <1>1. [Next]_vars /\ IInv /\ IInv' /\ TypeInv
    BY IInvStep DEF QInv, QuiescentNext, IInv
  <1>2. releases' # releases => \A c \in Clients : pc[c] # "act_rows"
    BY DEF QuiescentNext, vars
  <1>3. SnapshotComplete'
    <2> SUFFICES ASSUME NEW d \in Clients, pc'[d] = "act_rows",
                        NEW r \in releases', r.env = req'[d].env
                 PROVE  r.id \in rows'[d]
      BY DEF SnapshotComplete
    <2>1. CASE /\ pc[d] = "act_rows" /\ req'[d] = req[d]
               /\ rows'[d] = rows[d]
      BY <1>2, <2>1 DEF QInv, SnapshotComplete
    <2>2. CASE start_update(d)
      BY <2>2, <1>1 DEF start_update, TypeInv, TypeOK
    <2>3. QED
      BY <1>1, <2>1, <2>2, SnapshotChange
  <1>4. AtMostOneActive'
    <2>1. CASE UNCHANGED <<releases, active>>
      BY <2>1 DEF QInv, AtMostOneActive, ActiveIn
    <2>2. ASSUME NEW c \in Clients, create_release(c)
          PROVE  AtMostOneActive'
      <3>1. /\ \A r \in releases : r.id # req[c].rel
            /\ \A i \in active : \E r \in releases : r.id = i
        BY <1>1, <2>2 DEF create_release, IInv, DataInv, ActiveExist,
              ClientInv, CreationChecked
      <3>2. /\ active' = active
            /\ \A r \in releases' : r \in releases \/ r.id = req[c].rel
        BY <2>2 DEF create_release
      <3>3. \A env \in Environments : ActiveIn(env)' \subseteq ActiveIn(env)
        BY <3>1, <3>2 DEF ActiveIn
      <3>4. QED
        BY <3>3 DEF QInv, AtMostOneActive
    <2>3. ASSUME NEW c \in Clients, set_active_release(c)
          PROVE  AtMostOneActive'
      <3>1. /\ releases' = releases /\ ActivationTargets(c)
            /\ UniqueReleases /\ pc[c] = "act_rows"
            /\ active' = (active \ rows[c]) \cup {req[c].rel}
        BY <1>1, <2>3 DEF set_active_release, IInv, DataInv, ClientInv
      <3>2. ASSUME NEW env \in Environments, NEW r \in ActiveIn(env)',
                   NEW s \in ActiveIn(env)'
            PROVE  r = s
        <4>1. /\ r \in releases /\ s \in releases
              /\ r.env = env /\ s.env = env
              /\ r.id \in active' /\ s.id \in active'
          BY <3>1 DEF ActiveIn
        <4>2. CASE env = req[c].env
          <5>1. r.id = req[c].rel /\ s.id = req[c].rel
            BY <3>1, <4>1, <4>2 DEF QInv, SnapshotComplete
          <5>2. QED
            BY <3>1, <4>1, <5>1 DEF UniqueReleases
        <4>3. CASE env # req[c].env
          <5>1. r.id # req[c].rel /\ s.id # req[c].rel
            BY <3>1, <4>1, <4>3 DEF ActivationTargets, UniqueReleases
          <5>2. r \in ActiveIn(env) /\ s \in ActiveIn(env)
            BY <3>1, <4>1, <5>1 DEF ActiveIn
          <5>3. QED
            BY <5>2 DEF QInv, AtMostOneActive
        <4>4. QED
          BY <4>2, <4>3
      <3>3. QED
        BY <3>2 DEF AtMostOneActive
    <2>4. QED
      BY <1>1, <2>1, <2>2, <2>3, ActiveChanges
  <1>5. QED
    BY <1>1, <1>3, <1>4 DEF QInv

(* When no release is committed while an activating UPDATE runs, at most   *)
(* one release of an environment is active; the run that leaves the        *)
(* condition out shows that it is needed.                                  *)
THEOREM OneActiveWhenQuiescent == QuiescentSpec => []AtMostOneActive
  <1>1. Init => QInv
    BY IInvInit DEF Init, QInv, SnapshotComplete, AtMostOneActive, ActiveIn
  <1>2. QInv => AtMostOneActive
    BY DEF QInv
  <1>3. QED
    BY <1>1, <1>2, QInvStep, PTL DEF QuiescentSpec

=============================================================================
