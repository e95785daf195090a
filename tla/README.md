# Intent routing: a TLA+ verification project

The repository is a FastAPI service over PostgreSQL. Administrators curate
*intents* and *examples* per Service, freeze them into *catalog versions*, test
them with CSV runs, cut gated *releases* and activate them; a runtime API routes
user queries through the release that is active in its environment. Around that
core stand accounts and roles, API keys, approvals for publishing and for
viewing raw user text, and jobs that delete or re-encrypt that text.

All requests are handled by API workers, each with one SQLAlchemy session
(`db/session.py`: `autoflush=False`, `expire_on_commit=False`), as READ
COMMITTED transactions. There is no in-process shared state: everything hard
about the system happens between transactions.

## Inventory

| Component | State it keeps | Operations | Hard behaviour | What makes it correct |
|---|---|---|---|---|
| Release lifecycle (`versions/releases.py`, `api/admin.py`) | `releases`, `releases.active` | create, activate, roll back | activation's UPDATE against releases it does not see, crossing row locks, death between two UPDATEs | a release is cut from what was tested, serves embeddings that exist, and serving never stops |
| Catalog versions (`versions/catalogs.py`) | `intent_catalog_versions`, `vector_index_versions`, `intent_catalog_embeddings` | create, deactivate, load to draft, diff | deactivation checked against releases that are being created | no release refers to a deactivated version |
| Catalog draft (`api/admin.py`) | `intents`, `intent_examples` | create, patch, delete, approve, load | two editors, a snapshot taken meanwhile | a version is one consistent draft |
| Test runs (`testing/`) | `test_runs`, `test_results` | run, gate | no lock: embeddings may vanish half way | only whole, gated runs are released |
| Runtime API (`api/runtime.py`, `routing/`, `policy/`) | `runtime_logs` | route | the release read first is used in later statements | what it loaded is still there |
| Governed requests (`api/admin.py`, `db/repositories.py`) | `governed_action_requests`, `raw_query_view_tokens`, `audit_logs` | ask, decide, activate, issue, view | checked in memory, written blindly | two persons, one view per token |
| Admin accounts and access requests (`api/admin_auth.py`, `api/admin.py`, `security/admin_*.py`) | `admin_users`, `admin_user_roles`, `admin_sessions`, `admin_access_requests` | bootstrap, provisioning at start, login, request, approve, reject, create, patch, transfer, deactivate | authorisation is read and committed before the handler runs; checks for the single administrator under different locks or none | one system administrator and not zero; a decision is final and whole |
| API keys and Service members (`security/api_keys.py`, `api/admin.py`) | `services`, `api_keys`, `user_service_roles`, `audit_logs` | create, reveal, revoke, expire; grant, revoke a role | a key checked in a session of its own; a row read before it is inserted | the audit log replays to the tables; nothing is revealed after a revocation |
| Raw text retention and re-encryption (`ops/retention.py`, `security/rewrap.py`) | encrypted columns of `runtime_logs`, `intent_examples` | redact, rewrap | candidates read long before they are written | redacted text stays redacted |
| Routing decision (`routing/scoring.py`, `routing/engine.py`, `policy/`) | none (a function of release, query and key) | search, score, compose, off-topic, risk | a chain of early returns over score boundaries; a search that is cut off | confident only when it is clear; better evidence never makes it worse |
| Organisation directory (`api/admin.py`) | `departments`, `users` | create, patch, deactivate | unlocked check before a department is closed | a closed department has nobody active in it |
| Pilot and operations scripts (`scripts/run_pilot_rehearsal.py`, `scripts/rotate_api_key.py`, `ops/`) | state files with a key, threshold report, two manifests | seed, compare, smoke, freeze and compare a baseline, export, rotate | every HTTP request commits by itself; a script may fail or be killed between two, or run twice | a manifest that says PASS is true of the evidence beside it; rotation never cuts a Service off |
| Test diagnostics (`diagnostics/`) | none | grade, report | boundaries of rates | verdicts agree with the rows |
| Admin console (`frontend/`) | browser state | everything above over HTTP | answers arriving out of order | shows the item that is selected |
| Embeddings, masking, encryption, migrations, configuration | files, environment | - | - | - |

How they interact: there are no messages and no callbacks between components,
only tables. Releases read test runs, catalog versions and policies; catalog
deactivation reads releases; the runtime reads all of them; the governed publish
request ends in the same activation as the direct call; a governed raw-query
view reads the log row that the retention job redacts and the rewrap job
rewrites. The operator's scripts drive the admin and runtime APIs over HTTP and
keep what they learn in files. Three mechanisms order the transactions: a transaction-scoped advisory
lock per Service (the catalog draft, its versions and release creation), `SELECT ... FOR
UPDATE` (tokens, keys, access requests) and the row locks of plain UPDATEs.
Where none of them is used a handler works with what it read before.

## Modules

| Module | Models | Composition |
|---|---|---|
| `ReleaseLifecycle` | catalog versions, test runs, releases, activation, runtime reads | the four components that share the release tables, in one state machine |
| `ReleaseLifecycleProofs` | its theorems | |
| `ApprovalWorkflow` | what the API contract promises of a governed request | abstract specification |
| `GovernedRequests` | approvals, publish activation, raw-query tokens | implements `ApprovalWorkflow` when calls do not overlap |
| `GovernedRequestsProofs` | its theorems, the refinement included | |
| `RawTextJobs` | encrypted columns, key rotation, rewrap and retention scripts, example edits | the two scripts with the API writers they race |
| `RawTextJobsProofs` | its theorems | |
| `RoutingDecision` | one query: risk, search, scoring, decision, off-topic | |
| `RoutingDecisionProofs` | its theorems | |
| `AdminAccounts` | departments, people, accounts, roles, sessions, access requests | three components that share the account tables |
| `AdminAccountsProofs` | its theorems | |
| `CatalogDraft` | intents, examples, their versions, loading and the diff | |
| `CatalogDraftProofs` | its theorems | |
| `ApiKeys` | a Service, its members and its API keys, with their audit rows | |
| `PilotOps` | the rehearsal and rotation scripts, their files and reports | extends `ApiKeys`: the scripts and the administrators they meet |
| `PilotOpsProofs` | the theorems of both | |
| `MC...` | symmetry sets, policies, patches and reports for TLC | |

Definitions carry the names of the functions they translate. Definitions marked
*Mutant* in a module are deliberate mistakes that stand next to the definition
they change; each property is known to fail when one of them takes its place.

### ReleaseLifecycle

A worker (`Clients`) is at a program point `pc[c]` with the values its handler
has read in `req[c]`. A handler is cut where another transaction can get in
between: at the wait for the advisory lock, between its checking SELECTs and the
write that commits, between two searches of a test run, at each row lock of the
activating UPDATE. Tables are sets and functions (`catalog`, `catModel`, `runs`,
`releases`, `active`). `EndTransaction` is commit or rollback: it gives up every
lock. `set_active_release` in `db/repositories.py` is modelled as PostgreSQL runs
it: the UPDATE takes its snapshot of rows (`start_update`), waits for each of
them in any order (`lock_row`), then the target is set and both are committed.
`deadlock_abort` is the database's deadlock detector, `restart` a worker that
dies or is redeployed, possibly with another embedding model (`provider`),
`fail_request` any error response of a handler.

### GovernedRequests

`begin_*` actions read and check (authentication, ownership, the status in
memory), the actions named after repository methods write. Approve, reject,
activate and issue use no lock: their write is an UPDATE by primary key that
carries the columns that differ from what was read, which is why `reason` may
survive from an earlier decision. The decrypt call locks the request
(`rowLock`), reads the token again, marks it viewed, and rolls back when the text
turns out to be redacted. `audit` is the set of audit rows, `views` counts how
often a text was shown for a token. `Workflow` instantiates `ApprovalWorkflow`
with the columns `kind`, `status`, `author` and `decider` as its variables.

### RawTextJobs

An envelope is abstracted to three values: the text in the bytes, the key the
bytes are sealed with, and the `key_id` column; the algorithm column matters only
for logs (`noAlg`), because a rewrap that writes back over a redaction leaves it
NULL. The rewrap script is six steps (read committed runs and compute the run
id, insert, select and re-encrypt in memory, flush, write the report, commit);
each may fail or die. A run id is a UTC date and a number (`next_rewrap_run_id`
counts the committed ids of `today`), and `midnight` moves the date on: rewraps
of one date compute the same id, of which the primary key lets one in, while a
rewrap that started before midnight and one that started after it run at the
same time. The retention script plans and applies. Rows that were
flushed stay locked until the commit, which other writers, another rewrap
among them, wait for. Operators
rotate the active key and retire keys whose count in the key summary is zero.
The history variable `raced` holds the rows that another writer changed while a
rewrap had read them and not yet committed; three invariants say that only those
rows can be damaged, so a damaged row always has an overlapping writer as its
cause.

### RoutingDecision

Scores are integers in units of 1/200, in which all literals of the code are
whole numbers. A catalog is any set of rows (intent, type, similarity); the
search returns any set of its nearest rows of the size `max(MinRows,
RowsPerCandidate * n)`, ties resolved in any way. `compose` is the chain of early
returns of `DecisionComposer.compose` in its order.

### AdminAccounts

A call is up to three steps: `authenticate` reads session, account and roles and
commits; a `begin_` step is the handler's reads and checks; the step named after
the handler writes and commits. What was read is kept in `call[c]`, so a context
or a check may be stale when it is used. Only the decisions on access requests
hold a row lock (`Locked`); the bootstrap endpoint and the provisioning of a
starting worker each hold an advisory lock of its own (`Alone`), and the unique
indexes (e-mail, person, user number, the single `system_admin`) refuse a write
at its commit. `abort` is a refused check, a refused index or a worker that
dies. `raced` holds departments that were closed while a call that joins a
department was open.

### CatalogDraft

Every handler that writes the draft takes the Service's advisory lock and keeps
it to the end. Handlers that read, wait for the embedding provider or walk the
tables, and then write are two steps; during them another worker may try to
start or the handler may fail. A version is kept twice in the database, as a
JSON snapshot and as one embedding row per example; `versions` holds both,
because a load takes the intents from the one and the examples from the other.
A load meets the unique route key row by row in the order of intents
(`RouteCollision`), and then fails as a whole. `build_catalog_version_diff` is an
operator over two snapshots. The examples of an intent are a list in a snapshot,
ordered by `created_at` and then by identifier: `older` holds the pairs of
examples whose `created_at` differ and `listed` the resulting pairs of a snapshot.
`create_example` takes its `created_at` before it waits for the lock, so the new
example may come before one that is already there; a load gives all examples one
`created_at`, after which they are listed by identifier.

### ApiKeys and PilotOps

`ApiKeys` has the requests of administrators: reveal and revoke read the key
`FOR UPDATE` and commit in a second step, a grant reads the membership and lets
the INSERT decide. `trail` is the sequence of audit rows of a key, `granted` and
`dropped` count those of a role.

`PilotOps` adds the scripts. A rehearsal is a program counter over seeding
(Service, release, key, state file), the CSV comparison, the redaction of its
report, the smoke, the Dify matrix, the baseline comparison, the evidence export
and the two manifests; `fail_e2e` and `fail_dify_matrix` are `_run_step` turning an
exception into a failed step, `rehearsal_dies` is a kill, after which the files
stay. A rotation creates a key, tries it, optionally revokes the old one and
writes a state file. A runtime request is two steps, the lookup of its key and
its answer. `evaluate_gate`, `freeze_baseline` and `compare_baseline` are the rate
computations of the reports as operators, with rates compared by cross
multiplication.

## Runs

Bounds are constants of each `.cfg`; no definition is replaced.

| Run | Instance | Shows |
|---|---|---|
| `release_lifecycle` | 2 workers, 1 catalog version, 2 test runs, 2 environments, 2 releases, `FairSpec` | the safety invariants, `ServedStaysServed` and `RequestsComplete` (every request ends) under every interleaving, failure and restart |
| `release_two_active` | 2 workers, 1 environment, 2 releases, `Spec` | **violated**: two releases of an environment active |
| `governed_requests` | 3 overlapping calls, 1 request, 2 tokens, two developers and an administrator | two persons, one view per token, open tokens, and a row that tells a decision somebody took (`DecisionIsAudited`) |
| `governed_serial` | 2 requests, 2 workers, `SerialSpec` | the handlers implement `ApprovalWorkflow` |
| `governed_rejected` | 2 overlapping calls, 1 request | **violated**: a rejection is overwritten by a late approval |
| `raw_text_jobs` | 2 logs, 1 example, 2 texts, 2 keys, 2 rewraps, 2 dates, 2 retention jobs, limit 1 | rewraps of one day exclude each other, those across midnight wait for each other's rows; queries stay readable; a log is redacted once; `completed` is truthful; only overlapped rows can be damaged |
| `raw_text_deleted` | 1 log, 1 example, 1 rewrap, 1 retention job | **violated**: a redacted log gets its ciphertext back |
| `routing_decision` | up to 2 intents and 3 examples, 4 similarities, 3 policies, 2 scopes | decisions agree with the whole catalog (`DecisionsAreGrounded`) and are monotone |
| `admin_accounts` | 2 workers, 1 department, 1 person, 2 accounts, 2 e-mails, 2 access requests | one `system_admin` at most; decisions are final and whole; a department closes with people in it only through an overlap |
| `admin_lockout` | the same | **violated**: no `system_admin` that can log in |
| `catalog_draft` | 2 workers, 2 intents, 2 routes, 2 examples, 2 texts, 2 versions, 3 rows | a load restores the rows of its version, listed by identifier; a version's two records agree; approved examples carry the vector of their text; the diff shows every difference |
| `pilot_ops` | 3 keys, an administrator and an owner, 2 clients, 2 admin calls, 2 scripts, 3 reports of 4 cases, 4 argument records | audit rows replay; rotation keeps a tried key; a PASS manifest stays earned |

Why the bounds suffice. The races of the release and approval tables are between
two transactions that have each read before the other writes; two workers and
two rows of a kind give every such pair, and the third release or the third
caller gives a writer that crosses a waiting pair. The proofs remove the bounds
for the invariants. A rewrap run of `Limit = 1` over two logs has both a full
batch and a remainder. `MaxSuffix = 1` and `MaxRuns = 2` give a day two runs with
different ids, and `LastDay = 1` is one midnight for them to overlap across; a
third run of a day, which would meet the end of the numbering, is left to the
theorem. The arguments tried are a rewrap of all tables and a dry run over the
logs. Two keys are enough for a row that is stale and one that is not.
In `routing_decision` the similarities lie below, at and above each
boundary of the policies; `MinRows`, `RowsPerCandidate` and `MaxClarify` are
scaled down (8, 4, 3 in the code) so that a search can miss rows with three
examples. With `MaxClarify = 2` and two intents a question is never cut off: that
the cut keeps the best of the ranking is left to the theorem `DecisionsGrounded`,
which has any number of intents. Its properties over scores
are proved for any number of candidates.

In `admin_accounts` the uniqueness rules need two accounts, two e-mails and two
access requests that compete for them, and each race is between two calls; the
patches tried set each field alone. In `catalog_draft` two intents and two routes
are the smallest catalog in which a route key moves from one intent to another (no
handler moves an example), two examples of one intent can be in either order, and
two versions give a load of the older one over the newer. `MaxRows = 3` rows at a
time are two intents with an example or an intent with two; `Statuses` is a
constant because no handler of the draft looks at a status, and the run has the
one that is written. In
`pilot_ops` three keys allow a seeded key and two rotations of it at once; three
of four passing cases are above the gate of 70 per cent and below a baseline of
all four, and one report fails by its risk case alone; two scripts give a
rehearsal after a rehearsal and a rotation beside one, from a Service that is new
or already seeded.

A release tested under one embedding model and cut under another, and chains of
more than two releases, are in the model and covered by the theorems; the run has
one model and two releases so that liveness can be checked.

Deadlock is checked in every run but `routing_decision`, where a query is over
after its decision, and `admin_accounts`, `admin_lockout` and `pilot_ops`, where the
rows, calls and scripts of the instance are used up.

### Two specifications with an operating rule

`QuiescentSpec` and `SerialSpec` add a restriction the code does not enforce: no
release is committed during an activation; calls about one request do not
overlap. They say under which rule a promise holds. The runs that are violated
drop the rule, and show that it is needed.

### Fairness

`FairSpec` assumes weak fairness of each worker's own steps (a worker that runs
keeps running; a request that failed is ended) and strong fairness of getting a
lock, because PostgreSQL queues waiters of an advisory lock or a row lock and
grants in turn. The deadlock detector is one of the worker's own steps. Nothing
is assumed of clients (nobody has to send a request) nor of failures.

## What the violated runs show

* `release_two_active`: the activating UPDATE clears the rows of its statement
  snapshot. A release committed after that, and activated while the UPDATE still
  waits for a row, is not cleared. `docs/superpowers/plans/2026-06-25-intent-routing-sprint-0.md:2096`
  says "activating a release sets previous active release active=false".
* `governed_rejected`: approve and reject check the status of an object read
  without a lock. `docs/api/admin-phase2-contracts.md:53` says "Rejected requests
  are terminal."
* `raw_text_deleted`: the rewrap writes by primary key what it read before the
  redaction. `docs/superpowers/plans/2026-06-28-intent-routing-sprint-3.md:171`
  says retention sets all envelope columns to NULL; the row keeps
  `raw_query_deleted_at`, so retention does not come back to it.
* `admin_lockout`: the guard `_require_not_self_last_system_admin` looks at a patch
  of the caller's own account. A transfer that has checked its target, and a
  deactivation of the target's organization user by another request of the same
  administrator, both commit; the only `system_admin` then cannot log in, and the
  bootstrap endpoint stays closed because the role row exists. The refusal at
  `src/intent_routing/api/admin.py:1519` says "Cannot remove or disable the last
  active system_admin."; `tests/integration/test_admin_user_management_api.py:292`
  asserts it for the patch alone.

## Proofs

Every theorem holds for all values of the constants that satisfy the named
ASSUME of its module. Most of these say that bounds are naturals and that `None`
(a NULL) is neither a value nor a row (`RawTextAssumption`, `EnvelopeAssumption`,
`RowsAssumption`, `NoneAssumption`, `KeysAssumption`). The others say what the code
accepts or produces: `RoutingAssumption` has the policies the API validates and
room for two candidates in a clarifying question (the code has
`MAX_CLARIFY_CANDIDATES = 3`); `InputsAssumption` has the request bodies the
schemas accept; `OpsAssumption` says that a report has finitely many rows and that
each ends in PASS, FAIL or REVIEW, the three values of `_compare_result` in
`testing/csv_runner.py`.

Every safety invariant and every action property that a passing run checks is
stated by a theorem. An invariant is seldom inductive here for one reason: a
handler or a script writes what it checked some steps ago. The strengthenings
say which of these reads are still true when they are used, and which mechanism
(a lock, a unique index, the secrecy of a key) keeps them so.

**ReleaseLifecycleProofs.** `IInv` is `TypeInv /\ DataInv` and, per worker,
`ClientInv`. The invariants are not inductive by themselves because a handler
writes what it checked steps ago: `ClientInv` states what each program point has
established and still holds (`LockHeld`, `DeactivationChecked`,
`CreationChecked`, `TestingLinked`, `ActivationTargets`, `RoutedRelease`).
`LockHeld` gives mutual exclusion, which keeps another worker's check true.
`TestingLinked` is the interesting part: a test run without a lock may meet
cleared embeddings, but only if its catalog is no longer active, and then no
release can use it. Theorems: `TypeCorrect`, `ReleasesStayServable`,
`ReleasesAreTested`, `InsertsAreClean`, `RollbackIsPossible`, `RuntimeIsServed`,
`ServingNeverStops` (an action property) and, from the stronger `QInv`,
`OneActiveWhenQuiescent`.

**GovernedRequestsProofs.** `IInv` adds that every status past an approval, and
every handler that read one, has an approval by another person in the audit
table (`ApprovalRecorded`), that a deciding handler is not the author's
(`DecidersDiffer`), and that a decrypt call past its SELECT holds the row
(`DecryptLocked`). The first survives lost updates because audit rows are only
added. `SInv` adds, for calls that do not overlap, that what a handler read is
still so when it writes (`ReadStillTrue`); from it follows
`SerialImplementsWorkflow`, the refinement of `ApprovalWorkflow` with the identity
mapping on its four variables. `DecisionsAreAudited` is about calls that do
overlap: its two lemmas say that a decision writes its decider, and a rejection
its reason, over whatever another call left (`AuditedDecision`), and that all
other steps move the status away from a decision at most (`AuditedFrame`).

**RoutingDecisionProofs.** `TypeOK` is inductive; its core is
`ConfidenceBounded`. `CompetitionSafe`, `StricterSafe` and `KeywordsSafe` follow
from it with `ConfidentMeans` and `ClarifyMeans`, which turn the chain of early
returns into conditions. `DecisionsGrounded` needs `SearchInv`: until the decision
the confidences are those of the rows found, and these are all rows when the
catalog fits the LIMIT (`SmallCatalogIsFound`, by counting). That a question
offers the runner-up rests on `SomeoneIsFirst`, a least element of the ranking
obtained from the well-foundedness of `<` on the naturals.

**CatalogDraftProofs.** `CallInv` says that an open call is the holder of the
advisory lock and that what it read is what the tables hold. With it
`ApprovedIsEmbedded`, `VersionsAreWhole` and `LoadRestores` are inductive:
`ApprovedStaysEmbedded`, `VersionsStayWhole`, `LoadsRestore`, `TypeCorrect`.
`LoadRestores` says what a load keeps: the intents and the examples, and not the
order of the version, which becomes that of the identifiers.
`DiffsAreComplete` is about the operator alone: it needs the types of the versions
and that a snapshot lists its own examples (`ListsInv`), so that equal items make
equal snapshots.

**RawTextJobsProofs.** `RunInv` says that an identifier a rewrap computed is still
the next one of its day or already taken, so the primary key lets one of several
rewraps of a day in; `LockInv` says that what two rewraps have flushed are
different rows, whatever their days. Together they give `RewrapsOfADayExclude`.
`WritesInv` says that what a rewrap is about to write is the text of the row unless
the row is in `raced`; `LoadingInv` says the same of a load and `FrozenInv` of the
envelopes in a version. `StatusInv` carries the final count of a run from its report
to its commit: rows logged meanwhile are sealed with the active key, which is
rotated only between runs. Theorems: `RewrapsExclude`, `LogsAreReadable`, `RedactionsHappenOnce`,
`RawMatches`, `DeletionsLast`, `EnvelopesWhole`, the action property
`CompletedIsMigrated`, and `TypeCorrect`.

**AdminAccountsProofs.** `ArgsInv` and `ReadsInv` give an open call its arguments and
the rows it has read, `LockInv` keeps the request of an open approval pending and
its own, `ApprovalInv` ties requests and accounts together in both directions, and
`JoinInv` says that a department which a call saw open has not been closed since, or
the overlap is in `raced`. Theorems: `OneSystemAdmin`, `ApprovalsAreWhole`,
`DepartmentsStayOpen`, the action property `DecisionsStay`, and `TypeCorrect`.

**PilotOpsProofs.** `CallInv` says that revoke and reveal hold the row lock of their
key and that its status is what they read; `AuditAlwaysReplays` follows with the
lemmas on audit rows (`CreateTells`, `RevokeTells`, `RevealTells`). `PrivateInv` says
that nobody but its rotation knows a new key until the state file names it, so no
other rotation can have revoked it, and it is the witness that serves when the old
key goes (`ServingInv`, hence `RotationsKeepServing`). `EvidenceInv` says that a
report is written only while a new Service is being set up and no manifest says
PASS, and what a step recorded as passed has established; `GateAccepts` and
`BaselineHolds` turn the rate comparisons into the acceptance
(`PassesAreEarned`).

Only model-checked: `RequestsComplete`, because liveness under fairness is outside
the prover. The runs that are expected to be violated refute their property, so
there is nothing to prove; the theorems over `raced`, and those about
`QuiescentSpec` and `SerialSpec`, say when the promise does hold.

## Observations made while modelling

* With threshold 0.60, minimum 0.55 and margin 0.08 (the exploratory preset) a
  query whose best score is 0.60-0.62 and whose runner-up is within the margin
  but below the minimum falls back, although a slightly lower best score with a
  matched keyword would clarify. `KeywordsHelp` states the condition on the policy
  under which this cannot happen.
* The search limit is per candidate but the search is not: one intent with many
  close examples can use up the rows of the others.
* `viable or [top]` in `_clarify` never takes its second branch.
* The key summary does not count envelopes kept in catalog versions; loading one
  whose key was retired brings back an example that cannot be decrypted. Loading
  while a rewrap is running can leave bytes of one key under the name of another.
* `docs/ops/security-operations.md:18` says "Revoke the old key after the smoke and
  Dify secret update succeed."; with `--revoke-old` the script revokes before the
  new state file is written. A rotation killed in between leaves the old file with
  a revoked key; the new key is active and can be revealed, which is what
  `RotationKeepsServing` relies on.
* A rehearsal can end in PASS while the readiness report of its e2e step has
  `final_status` FAIL: `_result_passed` looks at the quality gate only. The scan's
  markers do not include the masked query, so an unredacted threshold report of a
  rehearsal that was killed is not noticed by the next scan. `PassIsEarned` still
  holds because seeding is not idempotent: a second rehearsal of one Service fails
  at "Service already exists" before it writes a report.
* Loading a version fails with an unhandled IntegrityError when a route key has
  moved to an intent that sorts later (`api/admin.py:5635`);
  `docs/api/catalog-version-management.md:108` says the draft is replaced. The
  transaction is undone, so `LoadRestores` is not affected.
* The decision record of 2026-07-15 gives memberships of a Service to
  `system_admin` alone; the code lets a `service_owner` manage them too
  (`api/admin.py:1586`).
* A version made right after a load can differ from the version that was loaded:
  the load writes one `created_at` into every example (`api/admin.py:5657`), the
  snapshot lists them by `created_at` and identifier
  (`db/repositories.py:1732`), and an intent whose examples come in another order
  is in `changed_intents` although nothing was edited (`versions/catalogs.py:250`).
* The run id of a rewrap carries the UTC date (`scripts/rewrap_raw_text.py:300`).
  Within a day the primary key keeps a second rewrap out; across midnight two of
  them work on the same rows, and only the row locks order their writes.
* One approval can give two tokens: two issue calls that both read the request as
  approved each write one. Two overlapping decisions can leave an approval with
  the reason of the rejection it overwrote. No document promises otherwise for
  calls that overlap.
* A person can be added to a department that is being closed: both sides check and
  then write without a lock (`DepartmentsCloseEmpty` names exactly that overlap).

## Not modelled

Similarity values and embedding vectors (any value is taken), the cryptography
of envelopes, masking expressions, CSV and JSON formats, HTTP status wording,
metrics and read-only reports, the messages of the test diagnostics, migrations,
shell wrappers, and the admin console, which is a client of the handlers that are
modelled. Names and descriptions that ride along with a row are left out.
Transactions are READ COMMITTED; statements are atomic except the activating
UPDATE. Connection loss is a worker failure.

## Plan

1. The rule under which `admin_lockout` holds, as a theorem: a system administrator
   that can log in, as long as transfers and deactivations do not overlap.
2. `ApiKeys` by itself against an abstract specification of a key's life (created,
   active, revoked, revealed only while active), with the refinement proved.
3. Publish requests composed with release activation, so that what was approved
   is what is activated; answers out of order in the console's request hooks.
