------------------------- MODULE RawTextJobsProofs -------------------------
(***************************************************************************)
(* Proofs about RawTextJobs, for any number of rows, keys and jobs.        *)
(***************************************************************************)
EXTENDS RawTextJobs, TLAPS

-----------------------------------------------------------------------------
(* The inductive invariant.                                                *)

NextOfItsDay(id) == next_rewrap_run_id(id.day, id)

(* An identifier that a run has computed is the next one of its day still, *)
(* or taken: the identifiers of a day are handed out one by one.           *)
RunInv ==
    /\ \A j \in RewrapJobs : pc[j] # "idle" =>
         /\ job[j].id \in RunIds
         /\ job[j].id \in runs \/ NextOfItsDay(job[j].id)
    /\ \A j \in Inserted : job[j].id \notin runs
    /\ \A i, j \in Inserted : job[i].id.day = job[j].id.day => i = j

(* The rows that two rewraps have flushed are different rows.              *)
LockInv ==
    \A i, j \in RewrapJobs, r \in Rows :
        /\ {pc[i], pc[j]} \subseteq {"report", "commit"}
        /\ writes[i][r] # None /\ writes[j][r] # None
        => i = j

(* What a rewrap will write is the text of the row, unless another writer  *)
(* has been there, or the example is gone and the flush will notice.       *)
WritesInv ==
    \A j \in RewrapJobs, r \in Rows : writes[j][r] # None =>
        /\ pc[j] \in {"flush", "report", "commit"}
        /\ r \in Examples /\ pc[j] # "flush" => env[r] # None
        /\ r \notin raced =>
             \/ env[r] # None /\ env[r].raw = writes[j][r]
             \/ r \in Examples /\ env[r] = None

(* A version that is frozen is as good as the draft it was made of.        *)
FrozenInv ==
    \A e \in Examples \ raced :
        /\ IF frozen[e] = None THEN frozenMask[e] = None
           ELSE frozenMask[e] = frozen[e].raw
        /\ frozen[e] # None => frozen[e].sealed = frozen[e].key

(* What a load has read is still there, unless a rewrap has committed.     *)
LoadingInv ==
    loading # None =>
        \A e \in Examples : /\ loading[e] # None => env[e] # None
                            /\ e \notin raced => env[e] = loading[e]

(* The final count of a run that will report "completed" stays true of the *)
(* runtime logs until its commit.                                          *)
StatusInv ==
    \A j \in RewrapJobs :
        pc[j] = "commit" /\ job[j].status = "completed" /\ ~ job[j].dry =>
          count_raw_text_key_ids(Rewrapped(j), job[j].tables \ {"intent_examples"})
            \subseteq {active}

IInv ==
    /\ TypeOK
    /\ RunInv
    /\ WritesInv
    /\ FrozenInv
    /\ LoadingInv
    /\ StatusInv
    /\ LogsStayReadable
    /\ RedactedOnce
    /\ RawMatchesMasked
    /\ DeletedStaysDeleted
    /\ EnvelopesAreWhole

USE DEF draftVars, logVars, keyVars, jobVars, Rows

-----------------------------------------------------------------------------
(* Values.                                                                 *)

Plain == Texts \cup {QueryText}

LEMMA EnvType ==
    ASSUME TypeOK, NEW r \in Rows, env[r] # None
    PROVE  /\ env[r] \in Envelope /\ env[r].raw \in Plain
           /\ env[r].sealed \in Keys /\ env[r].key \in Keys
  <1>1. env[r] \in Envelope
    BY DEF TypeOK
  <1> QED
    BY <1>1 DEF Envelope, Plain

LEMMA PlainIsNotNone == \A t \in Plain : t # None
  BY RawTextAssumption DEF Plain

LEMMA EncryptType ==
    ASSUME TypeOK, NEW t \in Plain
    PROVE  /\ encrypt_text(t) \in Envelope /\ encrypt_text(t) # None
           /\ encrypt_text(t).raw = t
           /\ encrypt_text(t).sealed = active /\ encrypt_text(t).key = active
           /\ Decryptable(encrypt_text(t))
  <1>1. encrypt_text(t) \in Envelope
    BY DEF encrypt_text, Envelope, TypeOK, Plain
  <1>2. /\ encrypt_text(t).raw = t
        /\ encrypt_text(t).sealed = active /\ encrypt_text(t).key = active
    BY DEF encrypt_text
  <1> QED
    BY <1>1, <1>2, EnvelopeAssumption DEF Decryptable

LEMMA NoJobType == NoJob \in Job /\ NoWrites \in [Rows -> Plain \cup {None}]
  BY DEF NoJob, Job, NoWrites, Statuses

LEMMA RowsSplit ==
    /\ Logs \subseteq Rows /\ Examples \subseteq Rows
    /\ \A r \in Rows : r \in Logs <=> r \notin Examples
  BY RawTextAssumption

(* At most one identifier is the next one of a day.                        *)
LEMMA NextIsUnique ==
    ASSUME NEW x \in RunIds, NEW y \in RunIds, x.day = y.day,
           NextOfItsDay(x), NextOfItsDay(y)
    PROVE  x = y
  <1> DEFINE numbered == {r.number : r \in {s \in runs : s.day = x.day}}
                           \cap 1 .. MaxSuffix
  <1> DEFINE m == x.number
             n == y.number
  <1>1. /\ \A k \in numbered : k < m /\ k < n
        /\ m = 1 \/ m - 1 \in numbered
        /\ n = 1 \/ n - 1 \in numbered
    BY DEF NextOfItsDay, next_rewrap_run_id
  <1>2. m \in Nat /\ n \in Nat /\ m >= 1 /\ n >= 1
    BY RawTextAssumption DEF RunIds
  <1> HIDE DEF numbered, m, n
  <1>3. m = n
    BY <1>1, <1>2
  <1> QED
    BY <1>3 DEF RunIds, m, n

(* A run of one day leaves the next identifier of another day alone.       *)
LEMMA NextOfOtherDay ==
    ASSUME NEW x \in RunIds, NEW id, id.day # x.day, runs' = runs \cup {id},
           NextOfItsDay(x)
    PROVE  NextOfItsDay(x)'
  <1>1. {s \in runs' : s.day = x.day} = {s \in runs : s.day = x.day}
    OBVIOUS
  <1> QED
    BY <1>1 DEF NextOfItsDay, next_rewrap_run_id

LEMMA NextIsKept ==
    ASSUME UNCHANGED runs PROVE \A x \in RunIds : NextOfItsDay(x) => NextOfItsDay(x)'
  BY DEF NextOfItsDay, next_rewrap_run_id

LEMMA InitInv == Init => IInv
  <1> SUFFICES ASSUME Init PROVE IInv
    OBVIOUS
  <1>1. TypeOK
    BY NoJobType, RawTextAssumption DEF Init, TypeOK, Plain, Days
  <1>2. RunInv
    BY DEF Init, RunInv, Inserted
  <1>3. WritesInv
    BY DEF Init, WritesInv, NoWrites
  <1>4. FrozenInv /\ LoadingInv
    BY DEF Init, FrozenInv, LoadingInv
  <1>5. StatusInv
    BY DEF Init, StatusInv
  <1>6. LogsStayReadable /\ RedactedOnce /\ RawMatchesMasked
        /\ DeletedStaysDeleted /\ EnvelopesAreWhole
    BY DEF Init, LogsStayReadable, RedactedOnce, RawMatchesMasked,
       DeletedStaysDeleted, EnvelopesAreWhole
  <1> QED
    BY <1>1, <1>2, <1>3, <1>4, <1>5, <1>6 DEF IInv

-----------------------------------------------------------------------------
(* What a step leaves alone keeps its part of the invariant.               *)

LEMMA KeepsRuns ==
    ASSUME RunInv, UNCHANGED <<runs, pc, job>>
    PROVE  RunInv'
  BY DEF RunInv, Inserted, NextOfItsDay, next_rewrap_run_id

LEMMA KeepsFrozen ==
    ASSUME FrozenInv, UNCHANGED <<frozen, frozenMask>>, raced \subseteq raced'
    PROVE  FrozenInv'
  BY DEF FrozenInv

(* The rows a job will write, when nothing else is written where it has    *)
(* read without saying so.                                                 *)
LEMMA KeepsWrites ==
    ASSUME WritesInv, UNCHANGED <<pc, writes>>, raced \subseteq raced',
           \A r \in Rows : \/ env'[r] = env[r]
                           \/ /\ ~ Locked(r)
                              /\ \/ ~ InRewrap(r)
                                 \/ r \in raced'
                                 \/ r \in Examples /\ env'[r] = None
    PROVE  WritesInv'
  <1> SUFFICES ASSUME NEW j \in RewrapJobs, NEW r \in Rows, writes[j][r] # None
               PROVE  /\ pc[j] \in {"flush", "report", "commit"}
                      /\ r \in Examples /\ pc[j] # "flush" => env'[r] # None
                      /\ r \notin raced' =>
                           \/ env'[r] # None /\ env'[r].raw = writes[j][r]
                           \/ r \in Examples /\ env'[r] = None
    BY DEF WritesInv
  <1>1. /\ pc[j] \in {"flush", "report", "commit"}
        /\ r \in Examples /\ pc[j] # "flush" => env[r] # None
        /\ r \notin raced =>
             \/ env[r] # None /\ env[r].raw = writes[j][r]
             \/ r \in Examples /\ env[r] = None
    BY DEF WritesInv
  <1>2. CASE env'[r] = env[r]
    BY <1>1, <1>2
  <1>3. CASE env'[r] # env[r]
    <2>1. /\ ~ Locked(r)
          /\ \/ ~ InRewrap(r)
             \/ r \in raced'
             \/ r \in Examples /\ env'[r] = None
      BY <1>3
    <2>2. pc[j] = "flush"
      BY <1>1, <2>1 DEF Locked
    <2>3. InRewrap(r)
      BY <2>2 DEF InRewrap
    <2> QED
      BY <1>1, <2>1, <2>2, <2>3
  <1> QED
    BY <1>2, <1>3

(* The final count of the logs, when those that appear are under the       *)
(* active key.                                                             *)
LEMMA KeepsStatus ==
    ASSUME StatusInv, UNCHANGED <<pc, job, writes, active>>,
           noAlg \subseteq noAlg', deleted \subseteq deleted',
           \A l \in Logs : \/ env'[l] = env[l] \/ env'[l] = None
                           \/ env'[l] # None /\ env'[l].key = active
    PROVE  StatusInv'
  <1> SUFFICES ASSUME NEW j \in RewrapJobs, pc[j] = "commit",
                      job[j].status = "completed", ~ job[j].dry
               PROVE  (count_raw_text_key_ids(Rewrapped(j),
                          job[j].tables \ {"intent_examples"})
                        \subseteq {active})'
    BY DEF StatusInv
  <1>1. count_raw_text_key_ids(Rewrapped(j), job[j].tables \ {"intent_examples"})
          \subseteq {active}
    BY DEF StatusInv
  <1> SUFFICES ASSUME NEW s \in Logs, "runtime_logs" \in job[j].tables,
                      s \notin noAlg' \cup deleted', Rewrapped(j)'[s] # None
               PROVE  Rewrapped(j)'[s].key = active
    BY RowsSplit DEF count_raw_text_key_ids
  <1>2. /\ Rewrapped(j)[s] = IF writes[j][s] # None
                             THEN encrypt_text(writes[j][s]) ELSE env[s]
        /\ Rewrapped(j)'[s] = IF writes[j][s] # None
                              THEN encrypt_text(writes[j][s]) ELSE env'[s]
    BY DEF Rewrapped, encrypt_text
  <1>3. Rewrapped(j)[s] # None => Rewrapped(j)[s].key = active
    BY <1>1, RowsSplit DEF count_raw_text_key_ids
  <1>4. CASE writes[j][s] # None \/ env'[s] = env[s]
    BY <1>2, <1>3, <1>4
  <1>5. CASE writes[j][s] = None /\ env'[s] # env[s]
    BY <1>2, <1>5
  <1> QED
    BY <1>4, <1>5

-----------------------------------------------------------------------------
(* The API.                                                                *)

LEMMA InsertKeeps ==
    ASSUME IInv, NEW l \in Logs, insert_runtime_log(l)
    PROVE  IInv'
  <1> USE DEF IInv
  <1>1. QueryText \in Plain /\ l \in Rows
    BY DEF Plain
  <1>2. /\ env[l] = None /\ l \notin deleted
        /\ env' = [env EXCEPT ![l] = encrypt_text(QueryText)]
        /\ UNCHANGED <<today, masked, frozen, frozenMask, loading, noAlg, deleted,
                       redactions, active, legacy, runs, pc, job, writes, plan,
                       raced>>
    BY DEF insert_runtime_log
  <1>3. /\ \A r \in Rows : r # l => env'[r] = env[r]
        /\ env'[l] = encrypt_text(QueryText)
    BY <1>1, <1>2 DEF TypeOK
  <1>4. /\ encrypt_text(QueryText) \in Envelope /\ encrypt_text(QueryText) # None
        /\ encrypt_text(QueryText).sealed = active
        /\ encrypt_text(QueryText).key = active
    BY <1>1, EncryptType
  <1>5. l \notin Examples
    BY RowsSplit
  <1>6. TypeOK'
    BY <1>2, <1>4 DEF TypeOK
  <1>7. RunInv'
    BY <1>2, KeepsRuns
  <1>8. WritesInv'
    <2>1. ASSUME NEW j \in RewrapJobs, writes[j][l] # None PROVE l \in raced
      BY <1>1, <1>2, <1>5, <2>1 DEF WritesInv
    <2>2. SUFFICES ASSUME NEW j \in RewrapJobs, NEW r \in Rows,
                          writes[j][r] # None
                   PROVE  /\ pc[j] \in {"flush", "report", "commit"}
                          /\ r \in Examples /\ pc[j] # "flush" => env'[r] # None
                          /\ r \notin raced =>
                               \/ env'[r] # None /\ env'[r].raw = writes[j][r]
                               \/ r \in Examples /\ env'[r] = None
      BY <1>2 DEF WritesInv
    <2> QED
      BY <1>3, <1>5, <2>1, <2>2 DEF WritesInv
  <1>9. FrozenInv'
    BY <1>2, KeepsFrozen
  <1>10. LoadingInv'
    BY <1>2, <1>3, <1>5, RowsSplit DEF LoadingInv
  <1>11. StatusInv'
    BY <1>2, <1>3, <1>4, KeepsStatus, RowsSplit
  <1>12. LogsStayReadable'
    BY <1>2, <1>3, <1>4, RowsSplit DEF LogsStayReadable, Decryptable
  <1>13. RedactedOnce' /\ DeletedStaysDeleted'
    BY <1>2, <1>3, RowsSplit, RawTextAssumption
       DEF RedactedOnce, DeletedStaysDeleted, TypeOK
  <1>14. RawMatchesMasked'
    BY <1>2, <1>3, <1>5, RowsSplit DEF RawMatchesMasked
  <1>15. EnvelopesAreWhole'
    BY <1>2, <1>3, <1>4 DEF EnvelopesAreWhole
  <1> QED
    BY <1>6, <1>7, <1>8, <1>9, <1>10, <1>11, <1>12, <1>13, <1>14, <1>15

LEMMA WriteKeeps ==
    ASSUME IInv, NEW e \in Examples, NEW t \in Texts, write_example(e, t)
    PROVE  IInv'
  <1> USE DEF IInv
  <1>1. t \in Plain /\ e \in Rows /\ e \notin Logs
    BY RowsSplit DEF Plain
  <1>2. /\ loading = None /\ ~ Locked(e)
        /\ env' = [env EXCEPT ![e] = encrypt_text(t)]
        /\ masked' = [masked EXCEPT ![e] = t]
        /\ raced' = raced \cup {r \in {e} : InRewrap(r)}
        /\ UNCHANGED <<today, frozen, frozenMask, loading, noAlg, deleted, redactions,
                       active, legacy, runs, pc, job, writes, plan>>
    BY DEF write_example, Race
  <1>3. /\ \A r \in Rows : r # e => env'[r] = env[r]
        /\ env'[e] = encrypt_text(t)
        /\ \A d \in Examples : d # e => masked'[d] = masked[d]
        /\ masked'[e] = t
    BY <1>1, <1>2 DEF TypeOK
  <1>4. /\ encrypt_text(t) \in Envelope /\ encrypt_text(t) # None
        /\ encrypt_text(t).raw = t
        /\ encrypt_text(t).sealed = active /\ encrypt_text(t).key = active
    BY <1>1, EncryptType
  <1>5. /\ raced \subseteq raced' /\ raced' \subseteq Rows
        /\ InRewrap(e) => e \in raced'
    BY <1>1, <1>2 DEF TypeOK
  <1>6. TypeOK'
    BY <1>2, <1>4, <1>5 DEF TypeOK
  <1>7. RunInv'
    BY <1>2, KeepsRuns
  <1>8. WritesInv'
    BY <1>2, <1>3, <1>5, KeepsWrites DEF Locked, InRewrap
  <1>9. FrozenInv'
    BY <1>2, <1>5, KeepsFrozen
  <1>10. LoadingInv'
    BY <1>2 DEF LoadingInv
  <1>11. StatusInv'
    BY <1>1, <1>2, <1>3, KeepsStatus, RowsSplit
  <1>12. LogsStayReadable'
    BY <1>1, <1>2, <1>3, RowsSplit DEF LogsStayReadable, Decryptable
  <1>13. RedactedOnce' /\ DeletedStaysDeleted'
    BY <1>1, <1>2, <1>3, <1>5, RowsSplit DEF RedactedOnce, DeletedStaysDeleted, TypeOK
  <1>14. RawMatchesMasked'
    BY <1>3, <1>4, <1>5, RowsSplit DEF RawMatchesMasked
  <1>15. EnvelopesAreWhole'
    BY <1>3, <1>4, <1>5 DEF EnvelopesAreWhole
  <1> QED
    BY <1>6, <1>7, <1>8, <1>9, <1>10, <1>11, <1>12, <1>13, <1>14, <1>15

LEMMA DeleteKeeps ==
    ASSUME IInv, NEW e \in Examples, delete_example(e)
    PROVE  IInv'
  <1> USE DEF IInv
  <1>1. e \in Rows /\ e \notin Logs
    BY RowsSplit
  <1>2. /\ loading = None /\ ~ Locked(e)
        /\ env' = [env EXCEPT ![e] = None]
        /\ masked' = [masked EXCEPT ![e] = None]
        /\ UNCHANGED <<today, frozen, frozenMask, loading, noAlg, deleted, redactions,
                       active, legacy, runs, pc, job, writes, plan, raced>>
    BY DEF delete_example
  <1>3. /\ \A r \in Rows : r # e => env'[r] = env[r]
        /\ env'[e] = None
        /\ \A d \in Examples : d # e => masked'[d] = masked[d]
        /\ masked'[e] = None
    BY <1>1, <1>2 DEF TypeOK
  <1>4. TypeOK'
    BY <1>2 DEF TypeOK
  <1>5. RunInv'
    BY <1>2, KeepsRuns
  <1>6. WritesInv'
    BY <1>2, <1>3, KeepsWrites DEF Locked, InRewrap
  <1>7. FrozenInv'
    BY <1>2, KeepsFrozen
  <1>8. LoadingInv'
    BY <1>2 DEF LoadingInv
  <1>9. StatusInv'
    BY <1>1, <1>2, <1>3, KeepsStatus, RowsSplit
  <1>10. LogsStayReadable'
    BY <1>1, <1>2, <1>3, RowsSplit DEF LogsStayReadable, Decryptable
  <1>11. RedactedOnce' /\ DeletedStaysDeleted'
    BY <1>1, <1>2, <1>3, RowsSplit DEF RedactedOnce, DeletedStaysDeleted, TypeOK
  <1>12. RawMatchesMasked'
    BY <1>2, <1>3, RowsSplit DEF RawMatchesMasked
  <1>13. EnvelopesAreWhole'
    BY <1>2, <1>3 DEF EnvelopesAreWhole
  <1> QED
    BY <1>4, <1>5, <1>6, <1>7, <1>8, <1>9, <1>10, <1>11, <1>12, <1>13

LEMMA FreezeKeeps == ASSUME IInv, freeze_examples PROVE IInv'
  <1> USE DEF IInv
  <1>1. /\ frozen' = [e \in Examples |-> env[e]] /\ frozenMask' = masked
        /\ loading = None
        /\ UNCHANGED <<today, env, masked, loading, noAlg, deleted, redactions, active,
                       legacy, runs, pc, job, writes, plan, raced>>
    BY DEF freeze_examples
  <1>2. TypeOK'
    BY <1>1 DEF TypeOK
  <1>3. RunInv'
    BY <1>1, KeepsRuns
  <1>4. WritesInv'
    BY <1>1, KeepsWrites
  <1>5. FrozenInv'
    BY <1>1, RowsSplit DEF FrozenInv, RawMatchesMasked, EnvelopesAreWhole
  <1>6. LoadingInv'
    BY <1>1 DEF LoadingInv
  <1>7. StatusInv'
    BY <1>1, KeepsStatus
  <1>8. LogsStayReadable' /\ RedactedOnce' /\ DeletedStaysDeleted'
    BY <1>1 DEF LogsStayReadable, Decryptable, RedactedOnce, DeletedStaysDeleted
  <1>9. RawMatchesMasked' /\ EnvelopesAreWhole'
    BY <1>1 DEF RawMatchesMasked, EnvelopesAreWhole
  <1> QED
    BY <1>2, <1>3, <1>4, <1>5, <1>6, <1>7, <1>8, <1>9

LEMMA BeginLoadKeeps ==
    ASSUME IInv, begin_load_catalog_version_to_draft PROVE IInv'
  <1> USE DEF IInv
  <1>1. /\ loading' = [e \in Examples |-> env[e]]
        /\ UNCHANGED <<today, env, masked, frozen, frozenMask, noAlg, deleted,
                       redactions, active, legacy, runs, pc, job, writes, plan,
                       raced>>
    BY DEF begin_load_catalog_version_to_draft
  <1>2. TypeOK'
    BY <1>1 DEF TypeOK
  <1>3. RunInv'
    BY <1>1, KeepsRuns
  <1>4. WritesInv'
    BY <1>1, KeepsWrites
  <1>5. FrozenInv'
    BY <1>1, KeepsFrozen
  <1>6. LoadingInv'
    BY <1>1 DEF LoadingInv
  <1>7. StatusInv'
    BY <1>1, KeepsStatus
  <1>8. LogsStayReadable' /\ RedactedOnce' /\ DeletedStaysDeleted'
    BY <1>1 DEF LogsStayReadable, Decryptable, RedactedOnce, DeletedStaysDeleted
  <1>9. RawMatchesMasked' /\ EnvelopesAreWhole'
    BY <1>1 DEF RawMatchesMasked, EnvelopesAreWhole
  <1> QED
    BY <1>2, <1>3, <1>4, <1>5, <1>6, <1>7, <1>8, <1>9

(* An UPDATE that finds the row as it was read makes it the version's; one *)
(* that does not still leaves an envelope.                                 *)
LEMMA RestoredType ==
    ASSUME NEW old \in Envelope, NEW read \in Envelope, NEW new \in Envelope
    PROVE  /\ Restored(old, read, new) \in Envelope
           /\ old = read => /\ Restored(old, read, new).raw = new.raw
                            /\ Restored(old, read, new).sealed = new.sealed
                            /\ Restored(old, read, new).key = new.key
  BY DEF Restored, Envelope

LEMMA LoadKeeps == ASSUME IInv, load_catalog_version_to_draft PROVE IInv'
  <1> USE DEF IInv
  <1>1. /\ loading # None
        /\ \A e \in Examples : ~ Locked(e)
        /\ masked' = frozenMask /\ loading' = None
        /\ raced' = raced \cup {r \in Examples : InRewrap(r)}
        /\ UNCHANGED <<today, frozen, frozenMask, noAlg, deleted, redactions, active,
                       legacy, runs, pc, job, writes, plan>>
    BY DEF load_catalog_version_to_draft, Race
  <1>2. /\ \A l \in Logs : env'[l] = env[l]
        /\ \A e \in Examples :
             /\ frozen[e] = None => env'[e] = None
             /\ frozen[e] # None /\ loading[e] = None => env'[e] = frozen[e]
             /\ frozen[e] # None /\ loading[e] # None =>
                  env'[e] = Restored(env[e], loading[e], frozen[e])
    BY RowsSplit DEF load_catalog_version_to_draft
  <1>3. /\ DOMAIN env' = Rows
        /\ env' = [r \in Rows |-> env'[r]]
    BY DEF load_catalog_version_to_draft
  <1>4. /\ raced \subseteq raced' /\ raced' \subseteq Rows
        /\ \A r \in Examples : InRewrap(r) => r \in raced'
    BY <1>1 DEF TypeOK
  <1>5. ASSUME NEW e \in Examples, frozen[e] # None
        PROVE  /\ env'[e] \in Envelope /\ env'[e] # None
               /\ e \notin raced' => /\ env'[e].raw = frozen[e].raw
                                     /\ env'[e].sealed = frozen[e].sealed
                                     /\ env'[e].key = frozen[e].key
    <2>1. frozen[e] \in Envelope
      BY <1>5 DEF TypeOK
    <2>2. CASE loading[e] = None
      BY <1>2, <1>5, <2>1, <2>2, EnvelopeAssumption
    <2>3. CASE loading[e] # None
      <3>1. loading[e] \in Envelope
        BY <1>1, <2>3 DEF TypeOK
      <3>2. env[e] # None /\ (e \notin raced => env[e] = loading[e])
        BY <1>1, <2>3 DEF LoadingInv
      <3>3. env[e] \in Envelope
        BY <3>2, EnvType, RowsSplit
      <3>4. env'[e] = Restored(env[e], loading[e], frozen[e])
        BY <1>2, <1>5, <2>3
      <3> QED
        BY <1>4, <2>1, <3>1, <3>2, <3>3, <3>4, RestoredType, EnvelopeAssumption
    <2> QED
      BY <2>2, <2>3
  <1>6. TypeOK'
    <2>1. \A r \in Rows : env'[r] \in Envelope \cup {None}
      BY <1>2, <1>5, RowsSplit DEF TypeOK
    <2> QED
      BY <1>1, <1>3, <1>4, <2>1 DEF TypeOK
  <1>7. RunInv'
    BY <1>1, KeepsRuns
  <1>8. WritesInv'
    BY <1>1, <1>2, <1>4, KeepsWrites, RowsSplit DEF Locked, InRewrap
  <1>9. FrozenInv'
    BY <1>1, <1>4, KeepsFrozen
  <1>10. LoadingInv'
    BY <1>1 DEF LoadingInv
  <1>11. StatusInv'
    BY <1>1, <1>2, KeepsStatus
  <1>12. LogsStayReadable' /\ RedactedOnce' /\ DeletedStaysDeleted'
    BY <1>1, <1>2, <1>4
       DEF LogsStayReadable, Decryptable, RedactedOnce, DeletedStaysDeleted, TypeOK
  <1>13. RawMatchesMasked'
    BY <1>1, <1>2, <1>4, <1>5 DEF RawMatchesMasked, FrozenInv
  <1>14. EnvelopesAreWhole'
    BY <1>1, <1>2, <1>4, <1>5, RowsSplit DEF EnvelopesAreWhole, FrozenInv
  <1> QED
    BY <1>6, <1>7, <1>8, <1>9, <1>10, <1>11, <1>12, <1>13, <1>14

-----------------------------------------------------------------------------
(* Key rotation.                                                           *)

LEMMA RotateKeeps ==
    ASSUME IInv, NEW k \in Keys, rotate_key(k) PROVE IInv'
  <1> USE DEF IInv
  <1>1. /\ ~ RewrapRunning /\ k # active /\ active' = k
        /\ legacy' = (legacy \cup {active}) \ {k} /\ loading' = None
        /\ UNCHANGED <<today, env, masked, frozen, frozenMask, noAlg, deleted,
                       redactions, runs, pc, job, writes, plan, raced>>
    BY DEF rotate_key
  <1>2. TypeOK'
    BY <1>1 DEF TypeOK
  <1>3. RunInv'
    BY <1>1, KeepsRuns
  <1>4. WritesInv'
    BY <1>1, KeepsWrites
  <1>5. FrozenInv' /\ LoadingInv'
    BY <1>1, KeepsFrozen DEF LoadingInv
  <1>6. StatusInv'
    BY <1>1 DEF StatusInv, RewrapRunning
  <1>7. LogsStayReadable'
    BY <1>1 DEF LogsStayReadable, Decryptable
  <1>8. RedactedOnce' /\ DeletedStaysDeleted'
    BY <1>1 DEF RedactedOnce, DeletedStaysDeleted
  <1>9. RawMatchesMasked' /\ EnvelopesAreWhole'
    BY <1>1 DEF RawMatchesMasked, EnvelopesAreWhole
  <1> QED
    BY <1>2, <1>3, <1>4, <1>5, <1>6, <1>7, <1>8, <1>9

LEMMA RetireKeeps ==
    ASSUME IInv, NEW k \in Keys, retire_key(k) PROVE IInv'
  <1> USE DEF IInv
  <1>1. /\ k \notin count_raw_text_key_inventory /\ loading' = None
        /\ legacy' = legacy \ {k}
        /\ UNCHANGED <<today, env, masked, frozen, frozenMask, noAlg, deleted, active,
                       redactions, runs, pc, job, writes, plan, raced>>
    BY DEF retire_key
  <1>2. TypeOK'
    BY <1>1 DEF TypeOK
  <1>3. RunInv'
    BY <1>1, KeepsRuns
  <1>4. WritesInv'
    BY <1>1, KeepsWrites
  <1>5. FrozenInv' /\ LoadingInv'
    BY <1>1, KeepsFrozen DEF LoadingInv
  <1>6. StatusInv'
    BY <1>1, KeepsStatus
  <1>7. LogsStayReadable'
    BY <1>1, RowsSplit DEF LogsStayReadable, Decryptable, count_raw_text_key_inventory
  <1>8. RedactedOnce' /\ DeletedStaysDeleted'
    BY <1>1 DEF RedactedOnce, DeletedStaysDeleted
  <1>9. RawMatchesMasked' /\ EnvelopesAreWhole'
    BY <1>1 DEF RawMatchesMasked, EnvelopesAreWhole
  <1> QED
    BY <1>2, <1>3, <1>4, <1>5, <1>6, <1>7, <1>8, <1>9

-----------------------------------------------------------------------------
(* The rewrap.                                                             *)

rowVars == <<env, masked, frozen, frozenMask, noAlg, deleted, redactions,
             active, legacy, loading, raced>>

(* A step that touches no row keeps what the invariant says of rows.       *)
LEMMA KeepsRows ==
    ASSUME IInv, UNCHANGED rowVars
    PROVE  /\ FrozenInv' /\ LoadingInv' /\ LogsStayReadable' /\ RedactedOnce'
           /\ RawMatchesMasked' /\ DeletedStaysDeleted' /\ EnvelopesAreWhole'
  <1> USE DEF IInv, rowVars
  <1>1. FrozenInv' /\ LoadingInv'
    BY DEF FrozenInv, LoadingInv
  <1>2. LogsStayReadable'
    BY DEF LogsStayReadable, Decryptable
  <1>3. RedactedOnce' /\ DeletedStaysDeleted'
    BY DEF RedactedOnce, DeletedStaysDeleted
  <1>4. RawMatchesMasked' /\ EnvelopesAreWhole'
    BY DEF RawMatchesMasked, EnvelopesAreWhole
  <1> QED
    BY <1>1, <1>2, <1>3, <1>4

LEMMA KeepsCounts ==
    ASSUME StatusInv, UNCHANGED rowVars,
           \A i \in RewrapJobs : pc'[i] = "commit" =>
              /\ pc[i] = "commit" /\ job'[i] = job[i] /\ writes'[i] = writes[i]
    PROVE  StatusInv'
  <1> SUFFICES ASSUME NEW i \in RewrapJobs, pc'[i] = "commit",
                      job'[i].status = "completed", ~ job'[i].dry
               PROVE  (count_raw_text_key_ids(Rewrapped(i),
                          job[i].tables \ {"intent_examples"})
                        \subseteq {active})'
    BY DEF StatusInv
  <1>1. pc[i] = "commit" /\ job'[i] = job[i] /\ writes'[i] = writes[i]
    OBVIOUS
  <1>2. Rewrapped(i)' = Rewrapped(i)
    BY <1>1 DEF Rewrapped, encrypt_text, rowVars
  <1>3. count_raw_text_key_ids(Rewrapped(i), job[i].tables \ {"intent_examples"})
          \subseteq {active}
    BY <1>1 DEF StatusInv
  <1> QED
    BY <1>1, <1>2, <1>3 DEF count_raw_text_key_ids, rowVars

(* A job's end, by commit, failure or crash, is seen by nobody else.       *)
LEMMA EndTypes ==
    ASSUME TypeOK, NEW j \in RewrapJobs, EndRewrap(j)
    PROVE  /\ pc' \in [RewrapJobs \cup RetentionJobs ->
                         {"idle", "insert", "list", "flush", "report", "commit",
                          "apply"}]
           /\ job' \in [RewrapJobs -> Job]
           /\ writes' \in [RewrapJobs -> [Rows -> Plain \cup {None}]]
           /\ pc'[j] = "idle" /\ writes'[j] = NoWrites
           /\ \A i \in RewrapJobs : i # j => /\ pc'[i] = pc[i] /\ job'[i] = job[i]
                                            /\ writes'[i] = writes[i]
  <1>1. /\ pc' = [pc EXCEPT ![j] = "idle"]
        /\ job' = [job EXCEPT ![j] = NoJob]
        /\ writes' = [writes EXCEPT ![j] = NoWrites]
    BY DEF EndRewrap, Goto
  <1>2. writes \in [RewrapJobs -> [Rows -> Plain \cup {None}]]
    BY DEF TypeOK, Plain
  <1>3. /\ pc'[j] = "idle" /\ writes'[j] = NoWrites
        /\ \A i \in RewrapJobs : i # j => /\ pc'[i] = pc[i] /\ job'[i] = job[i]
                                          /\ writes'[i] = writes[i]
    BY <1>1 DEF TypeOK
  <1> QED
    BY <1>1, <1>2, <1>3, NoJobType DEF TypeOK

LEMMA EndKeeps ==
    ASSUME IInv, NEW j \in RewrapJobs, EndRewrap(j), UNCHANGED <<today, rowVars, runs, plan>>
    PROVE  IInv'
  <1> USE DEF IInv
  <1>1. /\ pc'[j] = "idle" /\ writes'[j] = NoWrites
        /\ \A i \in RewrapJobs : i # j => /\ pc'[i] = pc[i] /\ job'[i] = job[i]
                                          /\ writes'[i] = writes[i]
    BY EndTypes
  <1>2. TypeOK'
    BY EndTypes DEF TypeOK, Plain, rowVars
  <1>3. RunInv'
    <2>1. /\ \A i \in RewrapJobs : pc'[i] # "idle" =>
               i # j /\ pc'[i] = pc[i] /\ job'[i] = job[i]
          /\ \A i \in Inserted' : i # j /\ i \in Inserted /\ job'[i] = job[i]
      BY <1>1 DEF Inserted
    <2>2. UNCHANGED runs
      OBVIOUS
    <2> QED
      BY <2>1, <2>2, NextIsKept DEF RunInv
  <1>4. WritesInv'
    BY <1>1 DEF WritesInv, NoWrites, rowVars
  <1>5. StatusInv'
    BY <1>1, KeepsCounts
  <1> QED
    BY <1>2, <1>3, <1>4, <1>5, KeepsRows

LEMMA BeginRewrapKeeps ==
    ASSUME IInv, NEW j \in RewrapJobs, begin_rewrap(j) PROVE IInv'
  <1> USE DEF IInv
  <1>1. PICK id \in RunIds, a \in RewrapArgs :
          /\ next_rewrap_run_id(today, id)
          /\ SetJob(j, id, a.dry, a.tables,
                    count_raw_text_key_ids(env, a.tables) \ {active}, FALSE,
                    "running")
    BY DEF begin_rewrap
  <1>2. /\ pc[j] = "idle" /\ pc' = [pc EXCEPT ![j] = "insert"]
        /\ UNCHANGED <<today, rowVars, runs, writes, plan>>
    BY DEF begin_rewrap, Goto, rowVars
  <1>3. a.dry \in BOOLEAN /\ a.tables \in SUBSET Tables
    BY RawTextAssumption
  <1>4. count_raw_text_key_ids(env, a.tables) \subseteq Keys
    BY EnvType DEF count_raw_text_key_ids
  <1>5. /\ pc'[j] = "insert" /\ job'[j].id = id
        /\ \A i \in RewrapJobs : i # j => pc'[i] = pc[i] /\ job'[i] = job[i]
    BY <1>1, <1>2 DEF SetJob, TypeOK
  <1>6. TypeOK'
    <2>1. job' \in [RewrapJobs -> Job]
      BY <1>1, <1>3, <1>4 DEF SetJob, TypeOK, Job, Statuses
    <2> QED
      BY <1>2, <2>1 DEF TypeOK, rowVars
  <1>7. RunInv'
    <2>1. NextOfItsDay(id)
      BY <1>1 DEF NextOfItsDay, next_rewrap_run_id
    <2>2. \A i \in Inserted' : i # j /\ i \in Inserted /\ job'[i] = job[i]
      BY <1>5 DEF Inserted
    <2> QED
      BY <1>1, <1>2, <1>5, <2>1, <2>2, NextIsKept DEF RunInv
  <1>8. WritesInv'
    BY <1>2, <1>5 DEF WritesInv, rowVars
  <1>9. StatusInv'
    BY <1>2, <1>5, KeepsCounts
  <1> QED
    BY <1>2, <1>6, <1>7, <1>8, <1>9, KeepsRows

LEMMA CreateRunKeeps ==
    ASSUME IInv, NEW j \in RewrapJobs, create_raw_text_rewrap_run(j) PROVE IInv'
  <1> USE DEF IInv
  <1>1. /\ pc[j] = "insert"
        /\ \A i \in Inserted : job[i].id # job[j].id
        /\ UNCHANGED <<today, rowVars, runs, plan>>
    BY DEF create_raw_text_rewrap_run, rowVars
  <1>2. CASE EndRewrap(j)
    BY <1>1, <1>2, EndKeeps
  <1>3. CASE ~ EndRewrap(j)
    <2>1. /\ job[j].id \notin runs
          /\ pc' = [pc EXCEPT ![j] = "list"] /\ UNCHANGED <<job, writes>>
      BY <1>3 DEF create_raw_text_rewrap_run, Goto
    <2>2. pc'[j] = "list" /\ \A i \in RewrapJobs : i # j => pc'[i] = pc[i]
      BY <2>1 DEF TypeOK
    <2>3. TypeOK'
      BY <1>1, <2>1 DEF TypeOK, rowVars
    <2>4. ASSUME NEW i \in Inserted PROVE job[i].id.day # job[j].id.day
      <3>1. /\ job[i].id \in RunIds /\ NextOfItsDay(job[i].id)
            /\ job[j].id \in RunIds /\ NextOfItsDay(job[j].id)
        BY <1>1, <2>1, <2>4 DEF RunInv, Inserted
      <3> QED
        BY <1>1, <2>4, <3>1, NextIsUnique
    <2>5. Inserted' = Inserted \cup {j}
      BY <1>1, <2>2 DEF Inserted
    <2>6. RunInv'
      <3>1. ASSUME NEW i \in RewrapJobs, pc'[i] # "idle"
            PROVE  /\ job[i].id \in RunIds
                   /\ job[i].id \in runs \/ NextOfItsDay(job[i].id)
        BY <1>1, <2>2, <3>1 DEF RunInv
      <3>2. \A i \in Inserted' : job[i].id \notin runs
        BY <2>1, <2>5 DEF RunInv
      <3>3. \A i, k \in Inserted' : job[i].id.day = job[k].id.day => i = k
        BY <2>4, <2>5 DEF RunInv
      <3> QED
        BY <1>1, <2>1, <3>1, <3>2, <3>3, NextIsKept DEF RunInv
    <2>7. WritesInv'
      BY <1>1, <2>1, <2>2 DEF WritesInv, rowVars
    <2>8. StatusInv'
      BY <1>1, <2>1, <2>2, KeepsCounts
    <2> QED
      BY <1>1, <2>3, <2>6, <2>7, <2>8, KeepsRows
  <1> QED
    BY <1>2, <1>3

(* A step of a job from one place to another that keeps its identifier.    *)
LEMMA KeepsIds ==
    ASSUME RunInv, UNCHANGED runs, NEW j \in RewrapJobs, pc[j] # "idle",
           j \in Inserted,
           job'[j].id = job[j].id,
           \A i \in RewrapJobs : i # j => pc'[i] = pc[i] /\ job'[i] = job[i]
    PROVE  RunInv'
  <1>1. /\ \A i \in RewrapJobs : pc'[i] # "idle" => pc[i] # "idle"
        /\ \A i \in RewrapJobs : job'[i].id = job[i].id
        /\ Inserted' \subseteq Inserted
    BY DEF Inserted
  <1>2. \A i \in Inserted' : i \in RewrapJobs
    BY DEF Inserted
  <1> QED
    BY <1>1, <1>2, NextIsKept DEF RunInv

LEMMA ProcessKeeps ==
    ASSUME IInv, NEW j \in RewrapJobs, process_candidates(j) PROVE IInv'
  <1> USE DEF IInv
  <1>1. PICK logs \in SUBSET Logs, examples \in SUBSET Examples :
          /\ UpToLimit(RewrapRows(j, "runtime_logs"), logs)
          /\ UpToLimit(RewrapRows(j, "intent_examples"), examples)
          /\ writes' = [writes EXCEPT ![j] = [r \in Rows |->
               IF r \in logs \cup examples /\ ~ job[j].dry /\ Decryptable(env[r])
               THEN env[r].raw ELSE None]]
          /\ SetJob(j, job[j].id, job[j].dry, job[j].tables, {},
                    \E r \in logs \cup examples :
                       IF job[j].dry THEN env[r].key \notin {active} \cup legacy
                       ELSE ~ Decryptable(env[r]),
                    "running")
    BY DEF process_candidates
  <1>2. /\ pc[j] = "list" /\ pc' = [pc EXCEPT ![j] = "flush"]
        /\ UNCHANGED <<today, rowVars, runs, plan>>
    BY DEF process_candidates, Goto, rowVars
  <1>3. \A r \in logs \cup examples : r \in Rows /\ env[r] # None
    BY <1>1 DEF UpToLimit, RewrapRows
  <1>4. /\ pc'[j] = "flush" /\ job'[j].id = job[j].id
        /\ \A i \in RewrapJobs : i # j => /\ pc'[i] = pc[i] /\ job'[i] = job[i]
                                          /\ writes'[i] = writes[i]
    BY <1>1, <1>2 DEF SetJob, TypeOK
  <1>5. \A r \in Rows :
          \/ writes'[j][r] = None
          \/ env[r] # None /\ writes'[j][r] = env[r].raw
    BY <1>1, <1>3 DEF TypeOK
  <1>6. TypeOK'
    <2>1. job[j] \in Job
      BY DEF TypeOK
    <2>2. job' \in [RewrapJobs -> Job]
      BY <1>1, <2>1 DEF SetJob, TypeOK, Job, Statuses
    <2> DEFINE w == [r \in Rows |->
                 IF r \in logs \cup examples /\ ~ job[j].dry /\ Decryptable(env[r])
                 THEN env[r].raw ELSE None]
    <2>3. w \in [Rows -> Texts \cup {QueryText, None}]
      BY <1>3, EnvType DEF Plain
    <2>4. writes' = [writes EXCEPT ![j] = w]
      BY <1>1
    <2> HIDE DEF w
    <2>5. writes' \in [RewrapJobs -> [Rows -> Texts \cup {QueryText, None}]]
      BY <2>3, <2>4 DEF TypeOK
    <2>6. pc' \in [RewrapJobs \cup RetentionJobs ->
                     {"idle", "insert", "list", "flush", "report", "commit",
                      "apply"}]
      BY <1>2 DEF TypeOK
    <2> QED
      BY <1>2, <2>2, <2>5, <2>6 DEF TypeOK, rowVars
  <1>7. RunInv'
    BY <1>2, <1>4, KeepsIds DEF Inserted
  <1>8. WritesInv'
    BY <1>2, <1>4, <1>5 DEF WritesInv, rowVars
  <1>9. StatusInv'
    BY <1>2, <1>4, KeepsCounts
  <1> QED
    BY <1>2, <1>6, <1>7, <1>8, <1>9, KeepsRows

LEMMA FlushKeeps ==
    ASSUME IInv, NEW j \in RewrapJobs, flush_rewrap(j) PROVE IInv'
  <1> USE DEF IInv
  <1>1. pc[j] = "flush" /\ UNCHANGED <<today, rowVars, runs, plan>>
    BY DEF flush_rewrap, rowVars
  <1>2. CASE EndRewrap(j)
    BY <1>1, <1>2, EndKeeps
  <1>3. CASE ~ EndRewrap(j)
    <2>1. /\ \A r \in Rows : writes[j][r] # None => env[r] # None \/ r \in Logs
          /\ pc' = [pc EXCEPT ![j] = "report"] /\ UNCHANGED <<job, writes>>
      BY <1>3 DEF flush_rewrap, Goto
    <2>2. pc'[j] = "report" /\ \A i \in RewrapJobs : i # j => pc'[i] = pc[i]
      BY <2>1 DEF TypeOK
    <2>3. TypeOK'
      BY <1>1, <2>1 DEF TypeOK, rowVars
    <2>4. RunInv'
      BY <1>1, <2>1, <2>2, KeepsIds DEF Inserted
    <2>5. WritesInv'
      BY <1>1, <2>1, <2>2, RowsSplit DEF WritesInv, rowVars
    <2>6. StatusInv'
      BY <1>1, <2>1, <2>2, KeepsCounts
    <2> QED
      BY <1>1, <2>3, <2>4, <2>5, <2>6, KeepsRows
  <1> QED
    BY <1>2, <1>3

LEMMA ReportKeeps ==
    ASSUME IInv, NEW j \in RewrapJobs, write_reports(j) PROVE IInv'
  <1> USE DEF IInv
  <1>1. /\ pc[j] = "report" /\ pc' = [pc EXCEPT ![j] = "commit"]
        /\ SetJob(j, job[j].id, job[j].dry, job[j].tables, job[j].source,
                  job[j].failed, raw_text_rewrap_status(j))
        /\ UNCHANGED <<today, rowVars, runs, writes, plan>>
    BY DEF write_reports, Goto, rowVars
  <1>2. /\ pc'[j] = "commit"
        /\ job'[j].id = job[j].id /\ job'[j].dry = job[j].dry
        /\ job'[j].tables = job[j].tables
        /\ job'[j].status = raw_text_rewrap_status(j)
        /\ \A i \in RewrapJobs : i # j => pc'[i] = pc[i] /\ job'[i] = job[i]
    BY <1>1 DEF SetJob, TypeOK
  <1>3. TypeOK'
    <2>1. job[j] \in Job /\ raw_text_rewrap_status(j) \in Statuses
      BY DEF TypeOK, raw_text_rewrap_status, Statuses
    <2>2. job' \in [RewrapJobs -> Job]
      BY <1>1, <2>1 DEF SetJob, TypeOK, Job
    <2> QED
      BY <1>1, <2>2 DEF TypeOK, rowVars
  <1>4. RunInv'
    BY <1>1, <1>2, KeepsIds DEF Inserted
  <1>5. WritesInv'
    BY <1>1, <1>2 DEF WritesInv, rowVars
  <1>6. StatusInv'
    <2>1. SUFFICES ASSUME NEW i \in RewrapJobs, pc'[i] = "commit",
                          job'[i].status = "completed", ~ job'[i].dry
                   PROVE  (count_raw_text_key_ids(Rewrapped(i),
                              job[i].tables \ {"intent_examples"})
                            \subseteq {active})'
      BY DEF StatusInv
    <2>2. Rewrapped(i)' = Rewrapped(i) /\ job'[i].tables = job[i].tables
      BY <1>1, <1>2 DEF Rewrapped, encrypt_text, rowVars
    <2>3. count_raw_text_key_ids(Rewrapped(i), job[i].tables \ {"intent_examples"})
            \subseteq {active}
      <3>1. CASE i = j
        <4>1. count_raw_text_key_ids(Rewrapped(j), job[j].tables) \ {active} = {}
          BY <1>2, <2>1, <3>1 DEF raw_text_rewrap_status
        <4> QED
          BY <3>1, <4>1 DEF count_raw_text_key_ids
      <3>2. CASE i # j
        BY <1>2, <2>1, <3>2 DEF StatusInv
      <3> QED
        BY <3>1, <3>2
    <2> QED
      BY <1>1, <2>2, <2>3 DEF count_raw_text_key_ids, rowVars
  <1> QED
    BY <1>1, <1>3, <1>4, <1>5, <1>6, KeepsRows

LEMMA CrashKeeps ==
    ASSUME IInv, NEW j \in RewrapJobs, crash_rewrap(j) PROVE IInv'
  BY EndKeeps DEF crash_rewrap, rowVars

(* The commit takes the identifier that every open run of its day has      *)
(* computed.  A rewrap of another day may hold the same rows, and will     *)
(* write the same texts under the same key.                                *)
LEMMA CommitKeeps ==
    ASSUME IInv, NEW j \in RewrapJobs, commit_rewrap(j) PROVE IInv'
  <1> USE DEF IInv
  <1>1. /\ pc[j] = "commit" /\ env' = Rewrapped(j) /\ runs' = runs \cup {job[j].id}
        /\ EndRewrap(j)
        /\ raced' = raced \cup {e \in Examples : loading # None
                                              /\ writes[j][e] # None}
        /\ UNCHANGED <<today, masked, frozen, frozenMask, loading, noAlg, deleted,
                       redactions, active, legacy, plan>>
    BY DEF commit_rewrap
  <1>2. /\ pc'[j] = "idle" /\ writes'[j] = NoWrites
        /\ \A i \in RewrapJobs : i # j => /\ pc'[i] = pc[i] /\ job'[i] = job[i]
                                          /\ writes'[i] = writes[i]
    BY <1>1, EndTypes
  <1>3. j \in Inserted /\ Inserted' = Inserted \ {j}
    BY <1>1, <1>2 DEF Inserted
  <1>4. /\ raced \subseteq raced' /\ raced' \subseteq Rows
        /\ \A e \in Examples : loading # None /\ writes[j][e] # None => e \in raced'
    BY <1>1 DEF TypeOK
  <1>5. ASSUME NEW r \in Rows, writes[j][r] # None
        PROVE  /\ env'[r] \in Envelope /\ env'[r] # None
               /\ env'[r].raw = writes[j][r]
               /\ env'[r].sealed = active /\ env'[r].key = active
    <2>1. writes[j][r] \in Plain
      BY <1>5 DEF TypeOK, Plain
    <2>2. env'[r] = encrypt_text(writes[j][r])
      BY <1>1, <1>5 DEF Rewrapped
    <2> QED
      BY <2>1, <2>2, EncryptType
  <1>6. \A r \in Rows : writes[j][r] = None => env'[r] = env[r]
    BY <1>1 DEF Rewrapped
  <1>7. TypeOK'
    <2>1. env' \in [Rows -> Envelope \cup {None}]
      <3>1. \A r \in Rows : env'[r] \in Envelope \cup {None}
        BY <1>5, <1>6 DEF TypeOK
      <3>2. DOMAIN env' = Rows /\ env' = [r \in Rows |-> env'[r]]
        BY <1>1 DEF Rewrapped
      <3> QED
        BY <3>1, <3>2
    <2>2. runs' \subseteq RunIds
      BY <1>1 DEF RunInv, TypeOK
    <2> QED
      BY <1>1, <1>4, <2>1, <2>2, EndTypes DEF TypeOK, Plain
  <1>8. RunInv'
    <2>1. job[j].id \in RunIds /\ NextOfItsDay(job[j].id)
      BY <1>1, <1>3 DEF RunInv
    <2>2. ASSUME NEW i \in RewrapJobs, pc'[i] # "idle"
          PROVE  job'[i].id \in RunIds /\ (job[i].id \in runs \/ NextOfItsDay(job[i].id))'
      <3>1. i # j /\ pc[i] # "idle" /\ job'[i] = job[i]
        BY <1>2, <2>2
      <3>2. /\ job[i].id \in RunIds
            /\ job[i].id \in runs \/ NextOfItsDay(job[i].id)
        BY <3>1 DEF RunInv
      <3>3. CASE job[i].id \in runs \/ job[i].id.day = job[j].id.day
        BY <1>1, <2>1, <3>1, <3>2, <3>3, NextIsUnique
      <3>4. CASE NextOfItsDay(job[i].id) /\ job[i].id.day # job[j].id.day
        BY <1>1, <3>1, <3>2, <3>4, NextOfOtherDay
      <3> QED
        BY <3>2, <3>3, <3>4
    <2>3. ASSUME NEW i \in Inserted' PROVE job'[i].id \notin runs'
      <3>1. i \in Inserted /\ i # j /\ job'[i] = job[i]
        BY <1>2, <1>3, <2>3 DEF Inserted
      <3>2. job[i].id \notin runs /\ job[i].id # job[j].id
        BY <1>3, <3>1 DEF RunInv
      <3> QED
        BY <1>1, <3>1, <3>2
    <2>4. \A i, k \in Inserted' : job'[i].id.day = job'[k].id.day => i = k
      <3>1. \A i \in Inserted' : i \in Inserted /\ job'[i] = job[i]
        BY <1>2, <1>3 DEF Inserted
      <3> QED
        BY <3>1 DEF RunInv
    <2> QED
      BY <2>2, <2>3, <2>4 DEF RunInv
  <1>9. WritesInv'
    <2> SUFFICES ASSUME NEW i \in RewrapJobs, NEW r \in Rows, writes'[i][r] # None
                 PROVE  /\ pc'[i] \in {"flush", "report", "commit"}
                        /\ r \in Examples /\ pc'[i] # "flush" => env'[r] # None
                        /\ r \notin raced' =>
                             \/ env'[r] # None /\ env'[r].raw = writes'[i][r]
                             \/ r \in Examples /\ env'[r] = None
      BY DEF WritesInv
    <2>1. i # j /\ pc'[i] = pc[i] /\ writes'[i] = writes[i]
      BY <1>2 DEF NoWrites
    <2>2. CASE writes[j][r] = None
      BY <1>4, <1>6, <2>1, <2>2 DEF WritesInv
    <2>3. CASE writes[j][r] # None
      <3>1. env'[r] # None /\ env'[r].raw = writes[j][r]
        BY <1>5, <2>3
      <3>2. r \notin raced' => env[r] # None /\ env[r].raw = writes[j][r]
        BY <1>1, <1>4, <2>3 DEF WritesInv
      <3>3. r \notin raced' => writes[i][r] = writes[j][r]
        BY <1>4, <2>1, <3>2 DEF WritesInv
      <3> QED
        BY <2>1, <3>1, <3>3 DEF WritesInv
    <2> QED
      BY <2>2, <2>3
  <1>10. FrozenInv'
    BY <1>1, <1>4, KeepsFrozen
  <1>11. LoadingInv'
    BY <1>1, <1>4, <1>5, <1>6, RowsSplit DEF LoadingInv
  <1>12. StatusInv'
    <2> SUFFICES ASSUME NEW i \in RewrapJobs, pc'[i] = "commit",
                        job'[i].status = "completed", ~ job'[i].dry
                 PROVE  (count_raw_text_key_ids(Rewrapped(i),
                            job[i].tables \ {"intent_examples"})
                          \subseteq {active})'
      BY DEF StatusInv
    <2>1. pc[i] = "commit" /\ job'[i] = job[i] /\ writes'[i] = writes[i]
      BY <1>2
    <2>2. count_raw_text_key_ids(Rewrapped(i), job[i].tables \ {"intent_examples"})
            \subseteq {active}
      BY <2>1 DEF StatusInv
    <2> SUFFICES ASSUME NEW s \in Logs, "runtime_logs" \in job[i].tables,
                        s \notin noAlg \cup deleted, Rewrapped(i)'[s] # None
                 PROVE  Rewrapped(i)'[s].key = active
      BY <1>1, <2>1, RowsSplit DEF count_raw_text_key_ids
    <2>3. /\ Rewrapped(i)[s] = IF writes[i][s] # None
                               THEN encrypt_text(writes[i][s]) ELSE env[s]
          /\ Rewrapped(i)'[s] = IF writes[i][s] # None
                                THEN encrypt_text(writes[i][s]) ELSE env'[s]
      BY <1>1, <2>1, RowsSplit DEF Rewrapped, encrypt_text
    <2>4. Rewrapped(i)[s] # None => Rewrapped(i)[s].key = active
      BY <2>2, RowsSplit DEF count_raw_text_key_ids
    <2>5. env'[s] = env[s] \/ env'[s].key = active
      BY <1>5, <1>6, RowsSplit
    <2> QED
      BY <2>3, <2>4, <2>5
  <1>13. LogsStayReadable'
    BY <1>1, <1>5, <1>6, RowsSplit DEF LogsStayReadable, Decryptable
  <1>14. RedactedOnce'
    BY <1>1 DEF RedactedOnce
  <1>15. DeletedStaysDeleted'
    <2> SUFFICES ASSUME NEW l \in deleted, l \notin raced'
                 PROVE  env'[l] = None
      BY <1>1 DEF DeletedStaysDeleted
    <2>1. l \in Logs /\ l \in Rows /\ l \notin Examples /\ l \notin raced
      BY <1>4, RowsSplit DEF TypeOK
    <2>2. env[l] = None
      BY <2>1 DEF DeletedStaysDeleted
    <2>3. writes[j][l] = None
      BY <2>1, <2>2 DEF WritesInv
    <2> QED
      BY <1>6, <2>1, <2>2, <2>3
  <1>16. RawMatchesMasked'
    <2> SUFFICES ASSUME NEW e \in Examples, e \notin raced'
                 PROVE  IF env'[e] = None THEN masked[e] = None
                        ELSE masked[e] = env'[e].raw
      BY <1>1 DEF RawMatchesMasked
    <2>1. e \in Rows /\ e \notin raced
      BY <1>4, RowsSplit
    <2>2. IF env[e] = None THEN masked[e] = None ELSE masked[e] = env[e].raw
      BY <2>1 DEF RawMatchesMasked
    <2>3. CASE writes[j][e] = None
      BY <1>6, <2>1, <2>2, <2>3
    <2>4. CASE writes[j][e] # None
      <3>1. env[e] # None /\ env[e].raw = writes[j][e]
        BY <1>1, <2>1, <2>4 DEF WritesInv
      <3> QED
        BY <1>5, <2>1, <2>2, <2>4, <3>1
    <2> QED
      BY <2>3, <2>4
  <1>17. EnvelopesAreWhole'
    BY <1>4, <1>5, <1>6 DEF EnvelopesAreWhole
  <1> QED
    BY <1>7, <1>8, <1>9, <1>10, <1>11, <1>12, <1>13, <1>14, <1>15, <1>16, <1>17

-----------------------------------------------------------------------------
(* Log retention.                                                          *)

(* A retention job's place is not a rewrap's.                              *)
LEMMA RetentionFrame ==
    ASSUME TypeOK, NEW j \in RetentionJobs,
           NEW label \in {"idle", "apply"}, pc' = [pc EXCEPT ![j] = label]
    PROVE  /\ pc' \in [RewrapJobs \cup RetentionJobs ->
                         {"idle", "insert", "list", "flush", "report", "commit",
                          "apply"}]
           /\ \A i \in RewrapJobs : pc'[i] = pc[i]
  BY RawTextAssumption DEF TypeOK

LEMMA RetentionKeepsRuns ==
    ASSUME RunInv, UNCHANGED <<runs, job>>, \A i \in RewrapJobs : pc'[i] = pc[i]
    PROVE  RunInv'
  <1>1. Inserted' = Inserted /\ \A i \in Inserted : i \in RewrapJobs
    BY DEF Inserted
  <1> QED
    BY <1>1, NextIsKept DEF RunInv

(* Planning a redaction, and giving one up, change only the job.           *)
LEMMA PlanKeeps ==
    ASSUME IInv, NEW j \in RetentionJobs, NEW traces \in SUBSET Logs,
           NEW label \in {"idle", "apply"}, pc' = [pc EXCEPT ![j] = label],
           plan' = [plan EXCEPT ![j] = traces],
           UNCHANGED <<today, rowVars, runs, job, writes>>
    PROVE  IInv'
  <1> USE DEF IInv
  <1>1. TypeOK'
    BY RetentionFrame DEF TypeOK, rowVars
  <1>2. RunInv'
    BY RetentionFrame, RetentionKeepsRuns
  <1>3. WritesInv'
    BY RetentionFrame DEF WritesInv, rowVars
  <1>4. StatusInv'
    BY RetentionFrame, KeepsCounts
  <1> QED
    BY <1>1, <1>2, <1>3, <1>4, KeepsRows

LEMMA ApplyKeeps ==
    ASSUME IInv, NEW j \in RetentionJobs, apply_runtime_raw_query_redaction(j)
    PROVE  IInv'
  <1> USE DEF IInv
  <1> DEFINE R == {l \in plan[j] : l \notin deleted /\ env[l] # None}
  <1>1. /\ \A l \in plan[j] : ~ Locked(l)
        /\ env' = [r \in Rows |-> IF r \in R THEN None ELSE env[r]]
        /\ noAlg' = noAlg \cup R /\ deleted' = deleted \cup R
        /\ redactions' = [l \in Logs |-> redactions[l] + IF l \in R THEN 1 ELSE 0]
        /\ pc' = [pc EXCEPT ![j] = "idle"] /\ plan' = [plan EXCEPT ![j] = {}]
        /\ raced' = raced \cup {r \in R : InRewrap(r)}
        /\ UNCHANGED <<today, masked, frozen, frozenMask, loading, active, legacy, runs,
                       job, writes>>
    BY DEF apply_runtime_raw_query_redaction, Redactable, Race, Goto
  <1>2. /\ R \subseteq Logs /\ R \cap deleted = {}
        /\ \A l \in R : ~ Locked(l) /\ env[l] # None
    BY <1>1 DEF TypeOK
  <1> HIDE DEF R
  <1>3. /\ \A r \in R : env'[r] = None
        /\ \A r \in Rows \ R : env'[r] = env[r]
        /\ \A e \in Examples : env'[e] = env[e]
    BY <1>1, <1>2, RowsSplit
  <1>4. /\ raced \subseteq raced' /\ raced' \subseteq Rows
        /\ \A r \in R : InRewrap(r) => r \in raced'
    BY <1>1, <1>2, RowsSplit DEF TypeOK
  <1>5. \A i \in RewrapJobs : pc'[i] = pc[i]
    BY <1>1, RetentionFrame
  <1>6. TypeOK'
    <2>1. env' \in [Rows -> Envelope \cup {None}]
      BY <1>1 DEF TypeOK
    <2>2. redactions' \in [Logs -> Nat]
      BY <1>1 DEF TypeOK
    <2> QED
      BY <1>1, <1>2, <1>4, <2>1, <2>2, RetentionFrame DEF TypeOK
  <1>7. RunInv'
    BY <1>1, <1>5, RetentionKeepsRuns
  <1>8. WritesInv'
    <2> SUFFICES ASSUME NEW i \in RewrapJobs, NEW r \in Rows, writes[i][r] # None
                 PROVE  /\ pc[i] \in {"flush", "report", "commit"}
                        /\ r \in Examples /\ pc[i] # "flush" => env'[r] # None
                        /\ r \notin raced' =>
                             \/ env'[r] # None /\ env'[r].raw = writes[i][r]
                             \/ r \in Examples /\ env'[r] = None
      BY <1>1, <1>5 DEF WritesInv
    <2>1. CASE r \in R
      <3>1. pc[i] = "flush"
        BY <1>2, <2>1 DEF WritesInv, Locked
      <3>2. r \in raced' /\ r \notin Examples
        BY <1>2, <1>4, <2>1, <3>1, RowsSplit DEF InRewrap
      <3> QED
        BY <3>1, <3>2
    <2>2. CASE r \notin R
      BY <1>3, <1>4, <2>2 DEF WritesInv
    <2> QED
      BY <2>1, <2>2
  <1>9. FrozenInv'
    BY <1>1, <1>4, KeepsFrozen
  <1>10. LoadingInv'
    BY <1>1, <1>3, <1>4 DEF LoadingInv
  <1>11. StatusInv'
    <2> SUFFICES ASSUME NEW i \in RewrapJobs, pc[i] = "commit",
                        job[i].status = "completed", ~ job[i].dry
                 PROVE  (count_raw_text_key_ids(Rewrapped(i),
                            job[i].tables \ {"intent_examples"})
                          \subseteq {active})'
      BY <1>1, <1>5 DEF StatusInv
    <2>1. count_raw_text_key_ids(Rewrapped(i), job[i].tables \ {"intent_examples"})
            \subseteq {active}
      BY DEF StatusInv
    <2> SUFFICES ASSUME NEW s \in Logs, "runtime_logs" \in job[i].tables,
                        s \notin noAlg' \cup deleted', Rewrapped(i)'[s] # None
                 PROVE  Rewrapped(i)'[s].key = active
      BY <1>1, RowsSplit DEF count_raw_text_key_ids
    <2>2. Rewrapped(i)'[s] = Rewrapped(i)[s]
      <3>1. env'[s] = env[s]
        BY <1>1, <1>3, RowsSplit
      <3> QED
        BY <1>1, <3>1, RowsSplit DEF Rewrapped, encrypt_text
    <2> QED
      BY <1>1, <2>1, <2>2, RowsSplit DEF count_raw_text_key_ids
  <1>12. LogsStayReadable'
    BY <1>1, <1>3, RowsSplit DEF LogsStayReadable, Decryptable
  <1>13. RedactedOnce'
    BY <1>1, <1>2 DEF RedactedOnce
  <1>14. DeletedStaysDeleted'
    BY <1>1, <1>3, <1>4, RowsSplit DEF DeletedStaysDeleted, TypeOK
  <1>15. RawMatchesMasked'
    BY <1>1, <1>3, <1>4 DEF RawMatchesMasked
  <1>16. EnvelopesAreWhole'
    BY <1>3, <1>4 DEF EnvelopesAreWhole
  <1> QED
    BY <1>6, <1>7, <1>8, <1>9, <1>10, <1>11, <1>12, <1>13, <1>14, <1>15, <1>16

-----------------------------------------------------------------------------
LEMMA MidnightKeeps == ASSUME IInv, midnight PROVE IInv'
  <1> USE DEF IInv
  <1>1. /\ today < LastDay /\ today' = today + 1
        /\ UNCHANGED <<rowVars, jobVars>>
    BY DEF midnight, rowVars
  <1>2. TypeOK'
    <2>1. today' \in Days
      BY <1>1, RawTextAssumption DEF TypeOK, Days
    <2> QED
      BY <1>1, <2>1 DEF TypeOK, rowVars
  <1>3. RunInv'
    BY <1>1, KeepsRuns
  <1>4. WritesInv'
    BY <1>1 DEF WritesInv, rowVars
  <1>5. StatusInv'
    BY <1>1, KeepsCounts
  <1> QED
    BY <1>1, <1>2, <1>3, <1>4, <1>5, KeepsRows

LEMMA StepInv == ASSUME IInv, [Next]_vars PROVE IInv'
  <1>1. CASE ApiStep
    BY <1>1, InsertKeeps, WriteKeeps, DeleteKeeps, FreezeKeeps, BeginLoadKeeps,
       LoadKeeps DEF ApiStep
  <1>2. CASE OperatorStep
    BY <1>2, MidnightKeeps, RotateKeeps, RetireKeeps DEF OperatorStep
  <1>3. ASSUME NEW j \in RewrapJobs, RewrapStep(j) PROVE IInv'
    BY <1>3, BeginRewrapKeeps, CreateRunKeeps, ProcessKeeps, FlushKeeps, ReportKeeps,
       CommitKeeps, CrashKeeps DEF RewrapStep
  <1>4. ASSUME NEW j \in RetentionJobs, RetentionStep(j) PROVE IInv'
    <2>1. CASE plan_runtime_raw_query_redaction(j)
      BY <2>1, PlanKeeps DEF plan_runtime_raw_query_redaction, Goto, rowVars
    <2>2. CASE apply_runtime_raw_query_redaction(j)
      BY <2>2, ApplyKeeps
    <2>3. CASE end_retention(j)
      BY <2>3, PlanKeeps DEF end_retention, Goto, rowVars
    <2> QED
      BY <1>4, <2>1, <2>2, <2>3 DEF RetentionStep
  <1>5. CASE UNCHANGED vars
    <2> USE DEF IInv, vars
    <2>1. TypeOK'
      BY <1>5 DEF TypeOK
    <2>2. RunInv'
      BY <1>5, KeepsRuns
    <2>3. WritesInv'
      BY <1>5, KeepsWrites
    <2>4. StatusInv'
      BY <1>5, KeepsStatus
    <2> QED
      BY <1>5, <2>1, <2>2, <2>3, <2>4, KeepsRows DEF rowVars
  <1> QED
    BY <1>1, <1>2, <1>3, <1>4, <1>5 DEF Next

LEMMA Invariance == Spec => []IInv
  BY InitInv, StepInv, PTL DEF Spec

(* The state stays well formed, whatever the API, the operators and the    *)
(* two scripts do.                                                         *)
THEOREM TypeCorrect == Spec => []TypeOK
  <1>1. IInv => TypeOK
    BY DEF IInv
  <1> QED
    BY <1>1, Invariance, PTL

(* Nothing but a flush gives a job rows to hold, and the flush waits.      *)
LEMMA LocksAreKept ==
    ASSUME LockInv,
           \A i \in RewrapJobs : pc'[i] \in {"report", "commit"} =>
              pc[i] \in {"report", "commit"} /\ writes'[i] = writes[i]
    PROVE  LockInv'
  BY DEF LockInv

LEMMA LockStep == ASSUME IInv, LockInv, [Next]_vars PROVE LockInv'
  <1> USE DEF IInv
  <1>1. CASE ApiStep
    BY <1>1, LocksAreKept DEF ApiStep, insert_runtime_log, write_example, delete_example,
       freeze_examples, begin_load_catalog_version_to_draft,
       load_catalog_version_to_draft
  <1>2. CASE OperatorStep \/ UNCHANGED vars
    BY <1>2, LocksAreKept DEF OperatorStep, midnight, rotate_key, retire_key, vars
  <1>3. ASSUME NEW j \in RewrapJobs, RewrapStep(j) PROVE LockInv'
    <2>1. CASE EndRewrap(j)
      BY <2>1, EndTypes, LocksAreKept
    <2>2. CASE begin_rewrap(j) \/ write_reports(j)
      BY <2>2, LocksAreKept DEF begin_rewrap, write_reports, Goto, TypeOK
    <2>3. CASE process_candidates(j)
      <3>1. /\ pc' = [pc EXCEPT ![j] = "flush"]
            /\ \A i \in RewrapJobs : i # j => writes'[i] = writes[i]
        BY <2>3 DEF process_candidates, Goto, TypeOK
      <3> QED
        BY <3>1, LocksAreKept DEF TypeOK
    <2>4. CASE create_raw_text_rewrap_run(j) /\ ~ EndRewrap(j)
      BY <2>4, LocksAreKept DEF create_raw_text_rewrap_run, Goto, TypeOK
    <2>5. CASE flush_rewrap(j) /\ ~ EndRewrap(j)
      <3>1. /\ \A r \in Rows : writes[j][r] # None => ~ Locked(r)
            /\ pc' = [pc EXCEPT ![j] = "report"] /\ UNCHANGED writes
        BY <2>5 DEF flush_rewrap, Goto
      <3>2. \A i \in RewrapJobs : i # j => pc'[i] = pc[i]
        BY <3>1 DEF TypeOK
      <3> QED
        BY <3>1, <3>2 DEF LockInv, Locked
    <2> QED
      BY <1>3, <2>1, <2>2, <2>3, <2>4, <2>5 DEF RewrapStep, commit_rewrap, crash_rewrap
  <1>4. ASSUME NEW j \in RetentionJobs, RetentionStep(j) PROVE LockInv'
    <2>1. UNCHANGED writes /\ \A i \in RewrapJobs : pc'[i] = pc[i]
      BY <1>4, RetentionFrame DEF RetentionStep, plan_runtime_raw_query_redaction,
         apply_runtime_raw_query_redaction, end_retention, Goto
    <2> QED
      BY <2>1, LocksAreKept
  <1> QED
    BY <1>1, <1>2, <1>3, <1>4 DEF Next

(* Rewraps of one UTC day never hold an uncommitted run at the same time,  *)
(* because the primary key serialises what _next_rewrap_run_id computed    *)
(* from the same committed rows; rewraps that overlap across midnight      *)
(* never hold the same row.                                                *)
THEOREM RewrapsExclude == Spec => []RewrapsOfADayExclude
  <1>1. Init => LockInv
    BY DEF Init, LockInv, NoWrites
  <1>2. Spec => []LockInv
    BY <1>1, LockStep, Invariance, PTL DEF Spec
  <1>3. IInv /\ LockInv => RewrapsOfADayExclude
    BY DEF IInv, RunInv, LockInv, RewrapsOfADayExclude, Inserted
  <1> QED
    BY <1>2, <1>3, Invariance, PTL

(* No runtime query that is kept becomes undecryptable, through rotations, *)
(* partial rewraps, crashes and retired keys.                              *)
THEOREM LogsAreReadable == Spec => []LogsStayReadable
  <1>1. IInv => LogsStayReadable
    BY DEF IInv
  <1> QED
    BY <1>1, Invariance, PTL

(* A runtime query is redacted and audited once, by however many jobs.     *)
THEOREM RedactionsHappenOnce == Spec => []RedactedOnce
  <1>1. IInv => RedactedOnce
    BY DEF IInv
  <1> QED
    BY <1>1, Invariance, PTL

(* Outside the race of an edit or a load with a rewrap, the raw text of an *)
(* example is the text it was masked from.                                 *)
THEOREM RawMatches == Spec => []RawMatchesMasked
  <1>1. IInv => RawMatchesMasked
    BY DEF IInv
  <1> QED
    BY <1>1, Invariance, PTL

(* Outside the race of a redaction with a rewrap, a redacted query has no  *)
(* raw material ever again.                                                *)
THEOREM DeletionsLast == Spec => []DeletedStaysDeleted
  <1>1. IInv => DeletedStaysDeleted
    BY DEF IInv
  <1> QED
    BY <1>1, Invariance, PTL

(* Outside the race of a load with a rewrap, an envelope's key_id column   *)
(* names the key of its bytes.                                             *)
THEOREM EnvelopesWhole == Spec => []EnvelopesAreWhole
  <1>1. IInv => EnvelopesAreWhole
    BY DEF IInv
  <1> QED
    BY <1>1, Invariance, PTL

(* A run that is committed as "completed" leaves no runtime log under      *)
(* another key than the active one.                                        *)
THEOREM CompletedIsMigrated == Spec => CompletedMeansMigrated
  <1> DEFINE Migrated == \A j \in RewrapJobs :
                /\ pc[j] = "commit" /\ job[j].id \in runs' \ runs
                /\ job[j].status = "completed" /\ ~ job[j].dry
                /\ "runtime_logs" \in job[j].tables
                => count_raw_text_key_ids(env, {"runtime_logs"})' \subseteq {active}
  <1>1. ASSUME IInv, [Next]_vars PROVE Migrated
    <2>1. SUFFICES ASSUME NEW j \in RewrapJobs,
                          pc[j] = "commit", job[j].id \in runs' \ runs,
                          job[j].status = "completed", ~ job[j].dry,
                          "runtime_logs" \in job[j].tables
                   PROVE  count_raw_text_key_ids(env, {"runtime_logs"})'
                            \subseteq {active}
      OBVIOUS
    <2>2. PICK i \in RewrapJobs : commit_rewrap(i)
      <3>1. runs' # runs
        BY <2>1
      <3>2. CASE ApiStep \/ OperatorStep \/ UNCHANGED vars
        BY <3>1, <3>2 DEF ApiStep, OperatorStep, vars, insert_runtime_log, write_example,
           delete_example, freeze_examples, begin_load_catalog_version_to_draft,
           load_catalog_version_to_draft, midnight, rotate_key, retire_key
      <3>3. CASE \E i \in RewrapJobs : RewrapStep(i)
        BY <3>1, <3>3 DEF RewrapStep, begin_rewrap, create_raw_text_rewrap_run,
           process_candidates, flush_rewrap, write_reports, crash_rewrap
      <3>4. CASE \E i \in RetentionJobs : RetentionStep(i)
        BY <3>1, <3>4 DEF RetentionStep, plan_runtime_raw_query_redaction,
           apply_runtime_raw_query_redaction, end_retention
      <3> QED
        BY <1>1, <3>2, <3>3, <3>4 DEF Next
    <2>3. /\ pc[i] = "commit" /\ env' = Rewrapped(i) /\ runs' = runs \cup {job[i].id}
          /\ UNCHANGED <<noAlg, deleted>>
      BY <2>2 DEF commit_rewrap
    <2>4. i = j
      <3>1. i \in Inserted /\ j \in Inserted /\ job[i].id = job[j].id
        BY <2>1, <2>3 DEF Inserted
      <3> QED
        BY <1>1, <3>1 DEF IInv, RunInv
    <2>5. count_raw_text_key_ids(Rewrapped(j), job[j].tables \ {"intent_examples"})
            \subseteq {active}
      BY <1>1, <2>1 DEF IInv, StatusInv
    <2>6. count_raw_text_key_ids(Rewrapped(j), {"runtime_logs"}) \subseteq {active}
      BY <2>1, <2>5, RowsSplit DEF count_raw_text_key_ids
    <2> QED
      BY <2>3, <2>4, <2>6 DEF count_raw_text_key_ids
  <1>2. IInv /\ [Next]_vars => [Migrated]_vars
    BY <1>1
  <1>3. Spec => [][Migrated]_vars
    BY <1>2, Invariance, PTL DEF Spec
  <1> QED
    BY <1>3 DEF CompletedMeansMigrated

=============================================================================
