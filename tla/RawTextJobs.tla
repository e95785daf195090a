---------------------------- MODULE RawTextJobs ----------------------------
(***************************************************************************)
(* Raw text at rest: the API stores examples and runtime queries encrypted *)
(* under the active key, operators rotate that key, and two scripts work   *)
(* on the same rows while the API is serving: rewrap_raw_text re-encrypts  *)
(* rows of older keys, apply_log_retention deletes old queries.            *)
(*                                                                         *)
(* The rewrap reads its candidates without a lock, re-encrypts them in     *)
(* memory and writes the changed columns back by primary key.  Columns     *)
(* matter: an envelope is the encrypted bytes, which belong to one text    *)
(* and one key, the key_id column and the algorithm column, and an UPDATE  *)
(* writes only those whose value differs from what its session has read.   *)
(*                                                                         *)
(* Nothing but the primary key of its run keeps a rewrap from overlapping  *)
(* another one, and that key starts with the UTC date: rewraps of one day  *)
(* meet there, rewraps started on the two sides of midnight do not.        *)
(***************************************************************************)
EXTENDS Naturals, FiniteSets

CONSTANTS
    Logs,           \* runtime_logs.trace_id
    Examples,       \* intent_examples.example_id
    Texts,          \* plaintexts of examples
    QueryText,      \* the plaintext of runtime queries
    Keys,           \* raw-text KEK identifiers
    RewrapJobs,     \* invocations of scripts/rewrap_raw_text.py
    RetentionJobs,  \* invocations of scripts/apply_log_retention.py
    RewrapArgs,     \* --dry-run and the included tables of the runs tried
    Limit,          \* --limit of both scripts
    MaxSuffix,      \* highest three-digit suffix of a run id (999)
    LastDay,        \* bound: UTC dates after the first one
    MaxRuns,        \* bound: committed rewraps after which no other starts
    MaxRows,        \* bound: rows in use at a time
    None            \* SQL NULL, no row, no argument

Rows == Logs \cup Examples
Days == 0 .. LastDay
RunIds == [day : Days, number : 1 .. MaxSuffix + 1]  \* rtr-<date>-<number>
Tables == {"intent_examples", "runtime_logs"}

ASSUME RawTextAssumption ==
    /\ RewrapArgs \subseteq [dry : BOOLEAN, tables : SUBSET Tables \ {{}}]
    /\ Limit \in Nat \ {0}
    /\ MaxSuffix \in Nat
    /\ LastDay \in Nat
    /\ MaxRuns \in Nat
    /\ MaxRows \in Nat \ {0}
    /\ Logs \cap Examples = {}
    /\ RewrapJobs \cap RetentionJobs = {}
    /\ None \notin Texts \cup {QueryText} \cup Keys \cup Nat

VARIABLES
    today,      \* the UTC date
    env,        \* the envelope of every row
    masked,     \* the text that intent_examples.text_masked was made from
    frozen,     \* the envelopes copied into a catalog version
    frozenMask, \* and the masked texts with them
    noAlg,      \* logs whose query_raw_algorithm is NULL
    deleted,    \* logs whose raw_query_deleted_at is set
    redactions, \* number of raw_query_redacted audit rows of each log
    active,     \* RAW_TEXT_KEK_ID
    legacy,     \* the keys in RAW_TEXT_LEGACY_KEKS_JSON
    runs,       \* primary keys of the committed raw_text_rewrap_runs
    pc,         \* where each job is
    job,        \* arguments and results of each rewrap
    writes,     \* the texts each rewrap will write back
    plan,       \* eligible_trace_ids of each retention job
    loading,    \* the examples load_catalog_version_to_draft has read
    raced       \* rows another writer changed while a rewrap held them

draftVars == <<masked, frozen, frozenMask, loading>>
logVars == <<noAlg, deleted, redactions>>
keyVars == <<today, active, legacy>>
jobVars == <<runs, pc, job, writes, plan>>
vars == <<today, env, masked, frozen, frozenMask, noAlg, deleted, redactions, active,
          legacy, runs, pc, job, writes, plan, loading, raced>>

-----------------------------------------------------------------------------
(* raw and sealed are what the bytes decrypt to and with which key.        *)
Envelope == [raw : Texts \cup {QueryText}, sealed : Keys, key : Keys]
ASSUME EnvelopeAssumption ==
    /\ None \notin Envelope
    /\ None \notin [Examples -> Envelope \cup {None}]

Statuses == {"running", "completed", "partial_remaining",
             "completed_with_failures"}
Job == [id : RunIds \cup {None}, dry : BOOLEAN, tables : SUBSET Tables,
        source : SUBSET Keys, failed : BOOLEAN, status : Statuses]
NoJob == [id |-> None, dry |-> TRUE, tables |-> {}, source |-> {},
          failed |-> FALSE, status |-> "running"]
NoWrites == [r \in Rows |-> None]

TypeOK ==
    /\ today \in Days
    /\ env \in [Rows -> Envelope \cup {None}]
    /\ masked \in [Examples -> Texts \cup {None}]
    /\ frozen \in [Examples -> Envelope \cup {None}]
    /\ frozenMask \in [Examples -> Texts \cup {None}]
    /\ noAlg \subseteq Logs
    /\ deleted \subseteq Logs
    /\ redactions \in [Logs -> Nat]
    /\ active \in Keys
    /\ legacy \subseteq Keys
    /\ runs \subseteq RunIds
    /\ pc \in [RewrapJobs \cup RetentionJobs ->
                 {"idle", "insert", "list", "flush", "report", "commit",
                  "apply"}]
    /\ job \in [RewrapJobs -> Job]
    /\ writes \in [RewrapJobs -> [Rows -> Texts \cup {QueryText, None}]]
    /\ plan \in [RetentionJobs -> SUBSET Logs]
    /\ loading \in [Examples -> Envelope \cup {None}] \cup {None}
    /\ raced \subseteq Rows

Init ==
    /\ today = 0
    /\ env = [r \in Rows |-> None]
    /\ masked = [e \in Examples |-> None]
    /\ frozen = [e \in Examples |-> None]
    /\ frozenMask = [e \in Examples |-> None]
    /\ noAlg = {}
    /\ deleted = {}
    /\ redactions = [l \in Logs |-> 0]
    /\ active \in Keys
    /\ legacy = {}
    /\ runs = {}
    /\ pc = [j \in RewrapJobs \cup RetentionJobs |-> "idle"]
    /\ job = [j \in RewrapJobs |-> NoJob]
    /\ writes = [j \in RewrapJobs |-> NoWrites]
    /\ plan = [j \in RetentionJobs |-> {}]
    /\ loading = None
    /\ raced = {}

-----------------------------------------------------------------------------
(* Encryption and row locks.                                               *)

(* RawTextKeyring.encrypt_text: always under the active key.               *)
encrypt_text(t) == [raw |-> t, sealed |-> active, key |-> active]

(* RawTextKeyring.decrypt_text succeeds: the key_id column names a         *)
(* configured key, and it is the one the bytes are bound to.               *)
Decryptable(v) == v.key \in {active} \cup legacy /\ v.sealed = v.key

(* Rows a rewrap has flushed stay locked until it commits.                 *)
Locked(r) == \E j \in RewrapJobs : /\ pc[j] \in {"report", "commit"}
                                   /\ writes[j][r] # None

RewrapRunning == \E j \in RewrapJobs : pc[j] # "idle"

(* Rows a rewrap has read and not yet flushed: nothing locks them.         *)
InRewrap(r) == \E j \in RewrapJobs : pc[j] = "flush" /\ writes[j][r] # None
Race(rows) == raced' = raced \cup {r \in rows : InRewrap(r)}

(* The bound on rows; a deleted example that no version holds is gone.     *)
RoomFor(row) ==
    LET used == {r \in Rows : env[r] # None} \cup deleted
                  \cup {e \in Examples : frozen[e] # None}
    IN Cardinality(used \cup {row}) <= MaxRows

-----------------------------------------------------------------------------
(* The API.                                                                *)

insert_runtime_log(l) ==
    /\ env[l] = None
    /\ l \notin deleted
    /\ RoomFor(l)
    /\ env' = [env EXCEPT ![l] = encrypt_text(QueryText)]
    /\ UNCHANGED <<draftVars, logVars, keyVars, jobVars, raced>>

(* Mutant: the masked text is not computed again.                          *)
write_example_keeping_mask(e, t) ==
    /\ loading = None
    /\ ~ Locked(e) /\ RoomFor(e)
    /\ env' = [env EXCEPT ![e] = encrypt_text(t)]
    /\ masked' = [masked EXCEPT ![e] = IF masked[e] = None THEN t ELSE @]
    /\ Race({e})
    /\ UNCHANGED <<frozen, frozenMask, loading, logVars, keyVars, jobVars>>

(* create_example and the text of patch_example; the advisory lock keeps   *)
(* every other edit of the draft out while a load is running.              *)
write_example(e, t) ==
    /\ loading = None
    /\ ~ Locked(e) /\ RoomFor(e)
    /\ env' = [env EXCEPT ![e] = encrypt_text(t)]
    /\ masked' = [masked EXCEPT ![e] = t]
    /\ Race({e})
    /\ UNCHANGED <<frozen, frozenMask, loading, logVars, keyVars, jobVars>>

delete_example(e) ==
    /\ loading = None
    /\ ~ Locked(e)
    /\ env' = [env EXCEPT ![e] = None]
    /\ masked' = [masked EXCEPT ![e] = None]
    /\ UNCHANGED <<frozen, frozenMask, loading, logVars, keyVars, jobVars,
                   raced>>

(* create_catalog_version copies every example's columns.                  *)
freeze_examples ==
    /\ loading = None
    /\ frozen' = [e \in Examples |-> env[e]]
    /\ frozenMask' = masked
    /\ UNCHANGED <<env, masked, loading, logVars, keyVars, jobVars, raced>>

(* There is a version to load; one without examples only deletes them.     *)
begin_load_catalog_version_to_draft ==
    /\ loading = None
    /\ \E e \in Examples : frozen[e] # None
    /\ loading' = [e \in Examples |-> env[e]]
    /\ UNCHANGED <<env, masked, frozen, frozenMask, logVars, keyVars, jobVars, raced>>

(* Mutant: the key_id column is not restored.                              *)
RestoredWithoutKey(old, read, new) ==
    [raw |-> new.raw, sealed |-> new.sealed, key |-> old.key]

(* What the UPDATE makes of the row: bytes and key_id are written when the *)
(* version's differ from the ones read.                                    *)
Restored(old, read, new) ==
    LET bytes == IF <<new.raw, new.sealed>> = <<read.raw, read.sealed>>
                 THEN old ELSE new
    IN [raw |-> bytes.raw, sealed |-> bytes.sealed,
        key |-> IF new.key = read.key THEN old.key ELSE new.key]

load_catalog_version_to_draft ==
    /\ loading # None
    /\ \A e \in Examples : ~ Locked(e)
    /\ env' = [r \in Rows |->
         IF r \in Logs THEN env[r]
         ELSE IF frozen[r] = None THEN None
         ELSE IF loading[r] = None THEN frozen[r]
         ELSE Restored(env[r], loading[r], frozen[r])]
    /\ masked' = frozenMask
    /\ loading' = None
    /\ Race(Examples)
    /\ UNCHANGED <<frozen, frozenMask, logVars, keyVars, jobVars>>

-----------------------------------------------------------------------------
(* Key rotation.                                                           *)

(* The API and the operator's shell are restarted with another active key  *)
(* and the previous one as a legacy entry, between rewrap runs.  A request *)
(* that was in flight is lost.                                             *)
rotate_key(k) ==
    /\ ~ RewrapRunning
    /\ k # active
    /\ active' = k
    /\ legacy' = (legacy \cup {active}) \ {k}
    /\ loading' = None
    /\ UNCHANGED <<today, env, masked, frozen, frozenMask, logVars, jobVars, raced>>

(* Mutant: the summary forgets the runtime logs.                           *)
count_example_keys == {env[r].key : r \in {s \in Examples : env[s] # None}}

(* The raw-text key summary: keys of examples and of all runtime logs.     *)
count_raw_text_key_inventory == {env[r].key : r \in {s \in Rows : env[s] # None}}

(* "Keep the previous KEK ... until rewrap validation is complete": then   *)
(* it is removed.                                                          *)
retire_key(k) ==
    /\ ~ RewrapRunning
    /\ k \in legacy
    /\ k \notin count_raw_text_key_inventory
    /\ legacy' = legacy \ {k}
    /\ loading' = None
    /\ UNCHANGED <<today, env, masked, frozen, frozenMask, active, logVars,
                   jobVars, raced>>

-----------------------------------------------------------------------------
(* scripts/rewrap_raw_text.py, one transaction.                            *)

(* The date changes at midnight UTC, whatever is running.                  *)
midnight ==
    /\ today < LastDay
    /\ today' = today + 1
    /\ UNCHANGED <<env, draftVars, logVars, active, legacy, jobVars, raced>>

(* _next_rewrap_run_id: the date, and one more than the highest three-     *)
(* digit suffix of that date.                                              *)
next_rewrap_run_id(now, id) ==
    LET numbered == {r.number : r \in {s \in runs : s.day = now}}
                      \cap 1 .. MaxSuffix
    IN /\ id.day = now
       /\ \A n \in numbered : n < id.number
       /\ id.number = 1 \/ id.number - 1 \in numbered

(* count_raw_text_key_ids over the included tables: the keys of examples   *)
(* and of complete envelopes of logs that are not deleted.                 *)
count_raw_text_key_ids(rows, tables) ==
    {rows[r].key : r \in {s \in Rows :
        /\ rows[s] # None
        /\ IF s \in Examples THEN "intent_examples" \in tables
           ELSE "runtime_logs" \in tables /\ s \notin noAlg \cup deleted}}

SetJob(j, id, dry, tables, source, failed, status) ==
    job' = [job EXCEPT ![j] =
              [id |-> id, dry |-> dry, tables |-> tables, source |-> source,
               failed |-> failed, status |-> status]]

Goto(j, label) == pc' = [pc EXCEPT ![j] = label]

(* Commit and rollback.                                                    *)
EndRewrap(j) ==
    /\ Goto(j, "idle")
    /\ job' = [job EXCEPT ![j] = NoJob]
    /\ writes' = [writes EXCEPT ![j] = NoWrites]

(* The run id and the source keys are read from what is committed.         *)
begin_rewrap(j) ==
    /\ pc[j] = "idle"
    /\ Cardinality(runs) < MaxRuns
    /\ \E id \in RunIds, a \in RewrapArgs :
         /\ next_rewrap_run_id(today, id)
         /\ SetJob(j, id, a.dry, a.tables,
                   count_raw_text_key_ids(env, a.tables) \ {active}, FALSE,
                   "running")
    /\ Goto(j, "insert")
    /\ UNCHANGED <<env, draftVars, logVars, keyVars, runs, writes,
                   plan, raced>>

(* Jobs that hold an uncommitted raw_text_rewrap_runs row.                 *)
Inserted == {j \in RewrapJobs : pc[j] \in {"list", "flush", "report", "commit"}}

(* Mutant: the run gets a random identifier.                               *)
create_run_with_fresh_id(j) ==
    /\ pc[j] = "insert"
    /\ Goto(j, "list")
    /\ UNCHANGED <<env, draftVars, logVars, keyVars, runs, job,
                   writes, plan, raced>>

(* The INSERT waits for the transaction that has inserted the same primary *)
(* key, and fails when that one commits.                                   *)
create_raw_text_rewrap_run(j) ==
    /\ pc[j] = "insert"
    /\ \A i \in Inserted : job[i].id # job[j].id
    /\ \/ /\ job[j].id \notin runs
          /\ Goto(j, "list")
          /\ UNCHANGED <<job, writes>>
       \/ /\ job[j].id \in runs
          /\ EndRewrap(j)
    /\ UNCHANGED <<env, draftVars, logVars, keyVars, runs, plan, raced>>

(* The rows of one table that list_..._for_rewrap selects.                 *)
RewrapRows(j, table) ==
    {r \in IF table = "runtime_logs" THEN Logs \ noAlg ELSE Examples :
        /\ table \in job[j].tables
        /\ env[r] # None
        /\ env[r].key \in job[j].source}

(* The oldest rows up to the limit; which ones those are is left open.     *)
UpToLimit(rows, chosen) ==
    /\ chosen \subseteq rows
    /\ Cardinality(chosen) =
         IF Cardinality(rows) < Limit THEN Cardinality(rows) ELSE Limit

(* _list_candidates and _process_candidates: every candidate is decrypted  *)
(* and re-encrypted in memory; missing key material, or bytes that do not  *)
(* decrypt, count as a failure.  The source keys are of no use after that. *)
process_candidates(j) ==
    /\ pc[j] = "list"
    /\ \E logs \in SUBSET Logs, examples \in SUBSET Examples :
         /\ UpToLimit(RewrapRows(j, "runtime_logs"), logs)
         /\ UpToLimit(RewrapRows(j, "intent_examples"), examples)
         /\ writes' = [writes EXCEPT ![j] = [r \in Rows |->
              IF r \in logs \cup examples /\ ~ job[j].dry /\ Decryptable(env[r])
              THEN env[r].raw ELSE None]]
         /\ SetJob(j, job[j].id, job[j].dry, job[j].tables, {},
                   \E r \in logs \cup examples :
                      IF job[j].dry THEN env[r].key \notin {active} \cup legacy
                      ELSE ~ Decryptable(env[r]),
                   "running")
    /\ Goto(j, "flush")
    /\ UNCHANGED <<env, draftVars, logVars, keyVars, runs, plan, raced>>

(* session.flush: UPDATE by primary key.  It waits for the rows that a     *)
(* rewrap of another day has flushed.  The session expects to match every  *)
(* row, so an example deleted meanwhile fails the run.                     *)
flush_rewrap(j) ==
    /\ pc[j] = "flush"
    /\ \A r \in Rows : writes[j][r] # None => ~ Locked(r)
    /\ \/ /\ \A r \in Rows : writes[j][r] # None => env[r] # None \/ r \in Logs
          /\ Goto(j, "report")
          /\ UNCHANGED <<job, writes>>
       \/ /\ \E e \in Examples : writes[j][e] # None /\ env[e] = None
          /\ EndRewrap(j)
    /\ UNCHANGED <<env, draftVars, logVars, keyVars, runs, plan, raced>>

(* The tables as the job's own session sees them after the flush.          *)
Rewrapped(j) ==
    [r \in Rows |-> IF writes[j][r] # None THEN encrypt_text(writes[j][r])
                    ELSE env[r]]

(* Mutant: the final counts are not looked at.                             *)
status_without_counts(j) ==
    IF job[j].failed THEN "completed_with_failures" ELSE "completed"

(* Mutant: a status no reader of the table knows.                          *)
status_unknown(j) ==
    IF count_raw_text_key_ids(Rewrapped(j), job[j].tables) \ {active} # {}
    THEN "partial" ELSE "completed"

raw_text_rewrap_status(j) ==
    IF job[j].failed THEN "completed_with_failures"
    ELSE IF /\ ~ job[j].dry
            /\ count_raw_text_key_ids(Rewrapped(j), job[j].tables)
                 \ {active} # {}
         THEN "partial_remaining" ELSE "completed"

(* The final counts; the report files, written here, precede the commit.   *)
write_reports(j) ==
    /\ pc[j] = "report"
    /\ SetJob(j, job[j].id, job[j].dry, job[j].tables, job[j].source,
              job[j].failed, raw_text_rewrap_status(j))
    /\ Goto(j, "commit")
    /\ UNCHANGED <<env, draftVars, logVars, keyVars, runs, writes, plan, raced>>

(* The run, with its status, and the rows it wrote.                        *)
commit_rewrap(j) ==
    /\ pc[j] = "commit"
    /\ env' = Rewrapped(j)
    /\ runs' = runs \cup {job[j].id}
    /\ EndRewrap(j)
    /\ raced' = raced \cup {e \in Examples : loading # None
                                           /\ writes[j][e] # None}
    /\ UNCHANGED <<draftVars, logVars, keyVars, plan>>

(* The script dies: its transaction is rolled back.                        *)
crash_rewrap(j) ==
    /\ pc[j] # "idle"
    /\ EndRewrap(j)
    /\ UNCHANGED <<env, draftVars, logVars, keyVars, runs, plan, raced>>

-----------------------------------------------------------------------------
(* scripts/apply_log_retention.py.                                         *)

(* Rows with raw material that are not deleted; which of them are old      *)
(* enough is left open.                                                    *)
plan_runtime_raw_query_redaction(j) ==
    /\ pc[j] = "idle"
    /\ \E traces \in SUBSET {l \in Logs : env[l] # None /\ l \notin deleted} :
         /\ Cardinality(traces) \in 1 .. Limit
         /\ plan' = [plan EXCEPT ![j] = traces]
    /\ Goto(j, "apply")
    /\ UNCHANGED <<env, draftVars, logVars, keyVars, runs, job,
                   writes, raced>>

(* Mutant: the UPDATE trusts the plan.                                     *)
Planned(j) == plan[j]

(* The planned rows that still meet the WHERE clause of the UPDATE.        *)
Redactable(j) == {l \in plan[j] : l \notin deleted /\ env[l] # None}

(* Mutant: the deletion is recorded and the columns are kept.              *)
redaction_marks_only(j) ==
    /\ pc[j] = "apply"
    /\ \A l \in plan[j] : ~ Locked(l)
    /\ deleted' = deleted \cup Redactable(j)
    /\ redactions' = [l \in Logs |->
         redactions[l] + IF l \in Redactable(j) THEN 1 ELSE 0]
    /\ Goto(j, "idle")
    /\ plan' = [plan EXCEPT ![j] = {}]
    /\ Race(Redactable(j))
    /\ UNCHANGED <<env, noAlg, draftVars, keyVars, runs, job, writes>>

(* The UPDATE, one audit row for every row it returns, and the commit.     *)
apply_runtime_raw_query_redaction(j) ==
    /\ pc[j] = "apply"
    /\ \A l \in plan[j] : ~ Locked(l)
    /\ env' = [r \in Rows |-> IF r \in Redactable(j) THEN None ELSE env[r]]
    /\ noAlg' = noAlg \cup Redactable(j)
    /\ deleted' = deleted \cup Redactable(j)
    /\ redactions' = [l \in Logs |->
         redactions[l] + IF l \in Redactable(j) THEN 1 ELSE 0]
    /\ Goto(j, "idle")
    /\ plan' = [plan EXCEPT ![j] = {}]
    /\ Race(Redactable(j))
    /\ UNCHANGED <<draftVars, keyVars, runs, job, writes>>

(* A dry run, or a script that dies before its commit.                     *)
end_retention(j) ==
    /\ pc[j] = "apply"
    /\ Goto(j, "idle")
    /\ plan' = [plan EXCEPT ![j] = {}]
    /\ UNCHANGED <<env, draftVars, logVars, keyVars, runs, job,
                   writes, raced>>

-----------------------------------------------------------------------------
ApiStep ==
    \/ \E l \in Logs : insert_runtime_log(l)
    \/ \E e \in Examples, t \in Texts : write_example(e, t)
    \/ \E e \in Examples : delete_example(e)
    \/ freeze_examples
    \/ begin_load_catalog_version_to_draft
    \/ load_catalog_version_to_draft

OperatorStep ==
    \/ midnight
    \/ \E k \in Keys : rotate_key(k) \/ retire_key(k)

RewrapStep(j) ==
    \/ begin_rewrap(j)
    \/ create_raw_text_rewrap_run(j)
    \/ process_candidates(j)
    \/ flush_rewrap(j)
    \/ write_reports(j)
    \/ commit_rewrap(j)
    \/ crash_rewrap(j)

RetentionStep(j) ==
    \/ plan_runtime_raw_query_redaction(j)
    \/ apply_runtime_raw_query_redaction(j)
    \/ end_retention(j)

Next ==
    \/ ApiStep
    \/ OperatorStep
    \/ \E j \in RewrapJobs : RewrapStep(j)
    \/ \E j \in RetentionJobs : RetentionStep(j)

Spec == Init /\ [][Next]_vars

-----------------------------------------------------------------------------
(* Properties.                                                             *)

(* Two rewraps work at the same time only across midnight: rewraps of one  *)
(* day compute the same run id from the committed runs, and the primary    *)
(* key stops the second one.  Rewraps that do overlap never hold the same  *)
(* row, and a run that is at work has an id of its own.                    *)
RewrapsOfADayExclude ==
    /\ \A i, j \in Inserted : job[i].id.day = job[j].id.day => i = j
    /\ \A i, j \in Inserted, r \in Rows :
         /\ {pc[i], pc[j]} \subseteq {"report", "commit"}
         /\ writes[i][r] # None /\ writes[j][r] # None
         => i = j
    /\ \A j \in Inserted : job[j].id \notin runs

(* Every runtime query that was not deleted can still be decrypted, through*)
(* rotations, partial rewraps, crashes and the retirement of keys whose    *)
(* count in the key summary is zero.                                       *)
LogsStayReadable ==
    \A l \in Logs : env[l] # None /\ l \notin deleted => Decryptable(env[l])

(* A log is redacted and audited once, however many retention jobs have it *)
(* in their plans.                                                         *)
RedactedOnce ==
    \A l \in Logs : redactions[l] = IF l \in deleted THEN 1 ELSE 0

(* A run that reports "completed" leaves no runtime log under another key, *)
(* whatever commits between its final count and its commit: neither the    *)
(* limit nor a failed row is forgotten.                                    *)
CompletedMeansMigrated ==
    [][\A j \in RewrapJobs :
         /\ pc[j] = "commit" /\ job[j].id \in runs' \ runs
         /\ job[j].status = "completed" /\ ~ job[j].dry
         /\ "runtime_logs" \in job[j].tables
         => count_raw_text_key_ids(env, {"runtime_logs"})'
              \subseteq {active}]_vars

(* Raw and masked text of an example are the same text, unless an edit or  *)
(* a load met a rewrap that had read this very row.                        *)
RawMatchesMasked ==
    \A e \in Examples \ raced : IF env[e] = None THEN masked[e] = None
                                ELSE masked[e] = env[e].raw

(* A deleted log has no raw material left, whatever rewraps, crashes and   *)
(* retention jobs follow, unless its redaction met a rewrap holding it.    *)
DeletedStaysDeleted == \A l \in deleted \ raced : env[l] = None

(* "updating all envelope columns atomically in the same transaction": the *)
(* key_id column names the key the bytes are bound to; a load and a rewrap *)
(* of one example, each writing its part, are the only exception.          *)
EnvelopesAreWhole ==
    \A r \in Rows \ raced : env[r] # None => env[r].sealed = env[r].key

(* "Set all query_raw_* envelope columns to NULL": no deleted log has raw  *)
(* material.                                                               *)
DeletedHasNoMaterial == \A l \in deleted : env[l] = None
=============================================================================
