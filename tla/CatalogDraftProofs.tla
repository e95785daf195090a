------------------------- MODULE CatalogDraftProofs -------------------------
(***************************************************************************)
(* Proofs about CatalogDraft, for any number of workers, intents, examples *)
(* and versions.                                                           *)
(***************************************************************************)
EXTENDS CatalogDraft, SequenceTheorems, TLAPS

-----------------------------------------------------------------------------
(* The inductive invariant.                                                *)

(* The worker with an open call is the holder of the advisory lock, so     *)
(* what it read is still what the tables hold.                             *)
CallInv ==
    \A c \in Clients :
        /\ call[c].op # "idle" <=> lock = c
        /\ call[c].op # "idle" =>
             call[c].read = [intent |-> intent, example |-> example]
        /\ call[c].op \in {"approve", "patch"} =>
             call[c].example \in Examples /\ example[call[c].example] # None
        /\ call[c].op = "patch" => call[c].text \in Texts
        /\ call[c].op = "load" => call[c].version \in 1 .. Len(versions)

(* A snapshot lists pairs of its examples, two of one intent.              *)
Listed(s) ==
    \A p \in s.listed :
        /\ p \in Present(s.examples) \X Present(s.examples)
        /\ s.examples[p[1]].intent = s.examples[p[2]].intent

ListsInv == \A v \in 1 .. Len(versions) : Listed(versions[v].snapshot)

IInv ==
    /\ TypeOK
    /\ CallInv
    /\ VersionsAreWhole
    /\ ListsInv
    /\ ApprovedIsEmbedded
    /\ LoadRestores

USE DEF draft, Or

LEMMA IdleType == Idle \in Call
  BY DraftAssumption DEF Idle, Call, Ops

LEMMA InitInv == Init => IInv
  <1> SUFFICES ASSUME Init PROVE IInv
    OBVIOUS
  <1>1. TypeOK
    BY IdleType, DraftAssumption DEF Init, TypeOK
  <1>2. CallInv
    BY DraftAssumption DEF Init, CallInv, Idle
  <1>3. VersionsAreWhole /\ ListsInv /\ ApprovedIsEmbedded /\ LoadRestores
    BY DEF Init, VersionsAreWhole, ListsInv, ApprovedIsEmbedded, LoadRestores
  <1> QED
    BY <1>1, <1>2, <1>3 DEF IInv

-----------------------------------------------------------------------------
(* The advisory lock.                                                      *)

(* Nobody has an open call.                                                *)
Quiet == \A c \in Clients : call[c].op = "idle"

(* While the lock is free no call is open.                                 *)
LEMMA FreeIsQuiet ==
    ASSUME IInv, lock = None
    PROVE  Quiet
  BY DraftAssumption DEF IInv, CallInv, Quiet

(* The end of a call leaves nobody in one.                                 *)
LEMMA EndIsQuiet ==
    ASSUME IInv, NEW c \in Clients, call[c].op # "idle", End(c)
    PROVE  lock' = None /\ call' \in [Clients -> Call] /\ Quiet'
  <1>1. lock = c /\ \A d \in Clients \ {c} : call[d].op = "idle"
    BY DEF IInv, CallInv
  <1>2. call \in [Clients -> Call] /\ Idle.op = "idle"
    BY DEF IInv, TypeOK, Idle
  <1> QED
    BY <1>1, <1>2, IdleType DEF End, Quiet

(* When nobody has an open call there is nothing to keep true for one.     *)
LEMMA QuietCalls ==
    ASSUME Quiet', lock' = None
    PROVE  CallInv'
  BY DraftAssumption DEF Quiet, CallInv

-----------------------------------------------------------------------------
(* Edits of the draft.                                                     *)

(* An edit by the only open call, or by a handler of one step.             *)
LEMMA EditKeeps ==
    ASSUME IInv,
           intent' \in [Intents -> IntentRow \cup {None}],
           example' \in [Examples -> ExampleRow \cup {None}],
           \A e \in Examples :
             example'[e] # None => intent'[example'[e].intent] # None,
           older' \in SUBSET (Examples \X Examples),
           ApprovedIsEmbedded',
           Quiet', lock' = None, call' \in [Clients -> Call],
           UNCHANGED versions, loaded' = 0
    PROVE  IInv'
  <1>1. TypeOK'
    BY DEF IInv, TypeOK
  <1>2. CallInv'
    BY QuietCalls
  <1>3. VersionsAreWhole' /\ ListsInv'
    BY DEF IInv, VersionsAreWhole, ListsInv, Listed, Present
  <1>4. LoadRestores'
    BY DEF LoadRestores
  <1> QED
    BY <1>1, <1>2, <1>3, <1>4 DEF IInv

(* A handler of one step runs while nobody has an open call.               *)
LEMMA AloneIsQuiet ==
    ASSUME IInv, NEW c \in Clients, Alone(c)
    PROVE  /\ Quiet' /\ lock' = None /\ call' \in [Clients -> Call]
           /\ UNCHANGED versions
  <1>1. lock = None /\ UNCHANGED <<lock, call, versions>>
    BY DEF Alone, acquire_advisory_xact_lock
  <1> QED
    BY <1>1, FreeIsQuiet DEF Quiet, IInv, TypeOK

LEMMA IntentKeeps ==
    ASSUME IInv, NEW c \in Clients, IntentStep(c)
    PROVE  IInv'
  <1>1. PICK i \in Intents :
          \/ \E r \in Routes : create_intent(c, i, r)
          \/ \E r \in Routes, s \in Statuses : patch_intent(c, i, r, s)
          \/ delete_intent(c, i)
    BY DEF IntentStep
  <1> USE DEF IInv, TypeOK, ApprovedIsEmbedded
  <1>2. ASSUME NEW r \in Routes, NEW s \in Statuses, Alone(c),
               intent' = [intent EXCEPT ![i] = [route |-> r, status |-> s]],
               Edited, UNCHANGED <<example, older>>
        PROVE  IInv'
    <2>1. [route |-> r, status |-> s] \in IntentRow
      BY DEF IntentRow
    <2>2. intent' \in [Intents -> IntentRow \cup {None}] /\ intent'[i] # None
          /\ \A j \in Intents : intent[j] # None => intent'[j] # None
      BY <1>2, <2>1, RowsAssumption
    <2>3. \A e \in Examples :
            example'[e] # None => intent'[example'[e].intent] # None
      BY <1>2, <2>2, RowsAssumption DEF ExampleRow
    <2> QED
      BY <1>2, <2>2, <2>3, AloneIsQuiet, EditKeeps DEF Edited
  <1>3. CASE delete_intent(c, i)
    <2>1. /\ intent' \in [Intents -> IntentRow \cup {None}]
          /\ example' \in [Examples -> ExampleRow \cup {None}]
      BY <1>3 DEF delete_intent
    <2>2. \A e \in Examples :
            example'[e] # None => intent'[example'[e].intent] # None
      BY <1>3, RowsAssumption DEF delete_intent, ExampleRow
    <2>3. ApprovedIsEmbedded' /\ older' \in SUBSET (Examples \X Examples)
      BY <1>3 DEF delete_intent, OlderAmong
    <2> QED
      BY <1>3, <2>1, <2>2, <2>3, AloneIsQuiet, EditKeeps
         DEF delete_intent, Edited
  <1> QED
    BY <1>1, <1>2, <1>3, DraftAssumption DEF create_intent, patch_intent

(* The draft and the versions are as they were.                            *)
LEMMA SameTables ==
    ASSUME IInv, UNCHANGED <<intent, example, older, versions, loaded>>
    PROVE  VersionsAreWhole' /\ ListsInv' /\ ApprovedIsEmbedded' /\ LoadRestores'
  <1>1. VersionsAreWhole'
    BY DEF IInv, VersionsAreWhole, Present
  <1>2. ListsInv'
    BY DEF IInv, ListsInv, Listed, Present
  <1>3. ApprovedIsEmbedded'
    BY DEF IInv, ApprovedIsEmbedded
  <1>4. LoadRestores'
    BY DEF IInv, LoadRestores, catalog_snapshot, FrozenExamples, list_examples,
       Present
  <1> QED
    BY <1>1, <1>2, <1>3, <1>4

(* A call that begins reads the tables under the lock.                     *)
LEMMA BeginKeeps ==
    ASSUME IInv, NEW c \in Clients, NEW k \in Call, Begin(c, k),
           k.op # "idle",
           k.op \in {"approve", "patch"} =>
             k.example \in Examples /\ example[k.example] # None,
           k.op = "patch" => k.text \in Texts,
           k.op = "load" => k.version \in 1 .. Len(versions)
    PROVE  IInv'
  <1> DEFINE q == [k EXCEPT !.read = [intent |-> intent, example |-> example]]
  <1>1. /\ q.op = k.op /\ q.example = k.example /\ q.text = k.text
        /\ q.version = k.version
        /\ q.read = [intent |-> intent, example |-> example]
    BY DEF Call
  <1>2. q \in Call
    BY DEF Call, Draft, IInv, TypeOK
  <1>3. /\ lock = None /\ lock' = c /\ call' = [call EXCEPT ![c] = q]
        /\ UNCHANGED <<intent, example, older, versions, loaded>>
    BY DEF Begin, acquire_advisory_xact_lock
  <1> HIDE DEF q
  <1>4. TypeOK'
    BY <1>2, <1>3 DEF IInv, TypeOK
  <1>5. CallInv'
    BY <1>1, <1>3, FreeIsQuiet, DraftAssumption
       DEF IInv, TypeOK, CallInv, Quiet
  <1>6. VersionsAreWhole' /\ ListsInv' /\ ApprovedIsEmbedded' /\ LoadRestores'
    BY <1>3, SameTables
  <1> QED
    BY <1>4, <1>5, <1>6 DEF IInv

LEMMA AbortKeeps ==
    ASSUME IInv, NEW c \in Clients, abort(c)
    PROVE  IInv'
  <1>1. /\ lock' = None /\ call' \in [Clients -> Call] /\ Quiet'
        /\ UNCHANGED <<intent, example, older, versions, loaded>>
    BY EndIsQuiet DEF abort
  <1>2. TypeOK' /\ CallInv'
    BY <1>1, QuietCalls DEF IInv, TypeOK
  <1>3. VersionsAreWhole' /\ ListsInv' /\ ApprovedIsEmbedded' /\ LoadRestores'
    BY <1>1, SameTables
  <1> QED
    BY <1>2, <1>3 DEF IInv

(* A row of the draft that is replaced by one of the same intent.          *)
LEMMA RewriteKeeps ==
    ASSUME IInv, NEW c \in Clients, call[c].op # "idle", End(c),
           NEW e \in Examples, example[e] # None, NEW x \in ExampleRow,
           example' = [example EXCEPT ![e] = x],
           x.intent = example[e].intent,
           x.vector = IF x.approved THEN x.text ELSE None,
           Edited, UNCHANGED <<intent, older, versions>>
    PROVE  IInv'
  <1>1. /\ example' \in [Examples -> ExampleRow \cup {None}]
        /\ intent' \in [Intents -> IntentRow \cup {None}]
    BY DEF IInv, TypeOK
  <1>2. \A f \in Examples :
          example'[f] # None => intent'[example'[f].intent] # None
    BY DEF IInv, TypeOK
  <1>3. ApprovedIsEmbedded' /\ older' \in SUBSET (Examples \X Examples)
    BY DEF IInv, TypeOK, ApprovedIsEmbedded
  <1> QED
    BY <1>1, <1>2, <1>3, EndIsQuiet, EditKeeps DEF Edited

LEMMA ExampleKeeps ==
    ASSUME IInv, NEW c \in Clients, ExampleStep(c)
    PROVE  IInv'
  <1>1. ASSUME NEW e \in Examples, NEW i \in Intents, NEW t \in Texts,
               create_example(c, e, i, t)
        PROVE  IInv'
    <2> DEFINE x == [intent |-> i, text |-> t, approved |-> FALSE,
                     vector |-> None]
    <2>1. x \in ExampleRow /\ x.intent = i /\ x.vector = None /\ ~ x.approved
      BY DEF ExampleRow
    <2>2. /\ intent[i] # None /\ example' = [example EXCEPT ![e] = x]
          /\ Alone(c) /\ loaded' = 0 /\ UNCHANGED intent
      BY <1>1 DEF create_example, Edited
    <2> HIDE DEF x
    <2>3. /\ example' \in [Examples -> ExampleRow \cup {None}]
          /\ intent' \in [Intents -> IntentRow \cup {None}]
      BY <2>1, <2>2 DEF IInv, TypeOK
    <2>4. \A f \in Examples :
            example'[f] # None => intent'[example'[f].intent] # None
      BY <2>1, <2>2 DEF IInv, TypeOK
    <2>5. ApprovedIsEmbedded'
      BY <2>1, <2>2 DEF IInv, TypeOK, ApprovedIsEmbedded
    <2>6. older' \in SUBSET (Examples \X Examples)
      <3>1. PICK earlier \in SUBSET Present(example) :
              older' = older \cup (earlier \X {e})
                             \cup ({e} \X (Present(example) \ earlier))
        BY <1>1 DEF create_example
      <3>2. /\ Present(example) \subseteq Examples
            /\ older \in SUBSET (Examples \X Examples)
        BY DEF IInv, TypeOK, Present
      <3> QED
        BY <3>1, <3>2
    <2> QED
      BY <2>2, <2>3, <2>4, <2>5, <2>6, AloneIsQuiet, EditKeeps
  <1>2. ASSUME NEW e \in Examples, delete_example(c, e)
        PROVE  IInv'
    <2>1. /\ example' \in [Examples -> ExampleRow \cup {None}]
          /\ intent' \in [Intents -> IntentRow \cup {None}]
      BY <1>2 DEF delete_example, IInv, TypeOK
    <2>2. \A f \in Examples :
            example'[f] # None => intent'[example'[f].intent] # None
      BY <1>2 DEF delete_example, IInv, TypeOK
    <2>3. ApprovedIsEmbedded' /\ older' \in SUBSET (Examples \X Examples)
      BY <1>2 DEF delete_example, OlderAmong, IInv, TypeOK, ApprovedIsEmbedded
    <2> QED
      BY <1>2, <2>1, <2>2, <2>3, AloneIsQuiet, EditKeeps
         DEF delete_example, Edited
  <1>3. ASSUME NEW e \in Examples, begin_approve_example(c, e)
        PROVE  IInv'
    <2> DEFINE k == [Idle EXCEPT !.op = "approve", !.example = e]
    <2>1. k \in Call /\ k.op = "approve" /\ k.example = e
      BY IdleType DEF Call, Ops
    <2>2. Begin(c, k) /\ example[e] # None
      BY <1>3 DEF begin_approve_example
    <2> HIDE DEF k
    <2> QED
      BY <2>1, <2>2, BeginKeeps
  <1>4. ASSUME NEW e \in Examples, NEW t \in Texts, begin_patch_example(c, e, t)
        PROVE  IInv'
    <2> DEFINE k == [Idle EXCEPT !.op = "patch", !.example = e, !.text = t]
    <2>1. k \in Call /\ k.op = "patch" /\ k.example = e /\ k.text = t
      BY IdleType DEF Call, Ops
    <2>2. Begin(c, k) /\ example[e] # None
      BY <1>4 DEF begin_patch_example
    <2> HIDE DEF k
    <2> QED
      BY <2>1, <2>2, BeginKeeps
  <1> DEFINE e == call[c].example
  <1>5. ASSUME call[c].op \in {"approve", "patch"}
        PROVE  /\ e \in Examples /\ example[e] # None
               /\ example[e] \in ExampleRow
               /\ call[c].read.example = example
    BY <1>5 DEF IInv, CallInv, TypeOK
  <1>6. CASE approve_example(c)
    <2> DEFINE x == [example[e] EXCEPT !.approved = TRUE,
                                       !.vector = example[e].text]
    <2>1. /\ x \in ExampleRow /\ x.intent = example[e].intent
          /\ x.approved /\ x.vector = x.text
      BY <1>5, <1>6 DEF approve_example, ExampleRow
    <2>2. example' = [example EXCEPT ![e] = x]
      BY <1>5, <1>6 DEF approve_example
    <2> HIDE DEF x
    <2> QED
      BY <1>5, <1>6, <2>1, <2>2, RewriteKeeps DEF approve_example
  <1>7. CASE patch_example(c)
    <2> DEFINE x == [example[e] EXCEPT !.text = call[c].text,
                        !.vector = IF example[e].approved THEN call[c].text
                                   ELSE @]
    <2>1. call[c].text \in Texts
      BY <1>7 DEF patch_example, IInv, CallInv
    <2>2. /\ x \in ExampleRow /\ x.intent = example[e].intent
          /\ x.approved = example[e].approved /\ x.text = call[c].text
          /\ x.vector = IF x.approved THEN x.text ELSE example[e].vector
      BY <1>5, <1>7, <2>1 DEF patch_example, ExampleRow
    <2>3. example' = [example EXCEPT ![e] = x]
      BY <1>5, <1>7 DEF patch_example
    <2>4. ~ example[e].approved => example[e].vector = None
      BY <1>5, <1>7 DEF patch_example, IInv, ApprovedIsEmbedded
    <2> HIDE DEF x
    <2>5. x.vector = IF x.approved THEN x.text ELSE None
      BY <2>2, <2>4
    <2> QED
      BY <1>5, <1>7, <2>2, <2>3, <2>5, RewriteKeeps DEF patch_example
  <1> QED
    BY <1>1, <1>2, <1>3, <1>4, <1>6, <1>7 DEF ExampleStep

-----------------------------------------------------------------------------
(* Versions.                                                               *)

(* What a version says of its examples and intents.                        *)
Whole(v) ==
    /\ v.rows = v.snapshot.examples
    /\ \A e \in Present(v.snapshot.examples) :
         v.snapshot.routes[v.snapshot.examples[e].intent] # None
    /\ Listed(v.snapshot)

LEMMA WholeVersions ==
    VersionsAreWhole /\ ListsInv <=>
      \A v \in 1 .. Len(versions) : Whole(versions[v])
  BY DEF VersionsAreWhole, ListsInv, Whole

(* The snapshot of a well-typed draft is well typed.                       *)
LEMMA SnapshotType ==
    ASSUME IInv
    PROVE  /\ catalog_snapshot(intent, example, older) \in Snapshot
           /\ FrozenExamples(example) \in [Examples -> Frozen \cup {None}]
  <1>1. FrozenExamples(example) \in [Examples -> Frozen \cup {None}]
    BY DEF IInv, TypeOK, FrozenExamples, ExampleRow, Frozen
  <1>2. [i \in Intents |-> IF intent[i] = None THEN None ELSE intent[i].route]
          \in [Intents -> Routes \cup {None}]
    BY DEF IInv, TypeOK, IntentRow
  <1>3. list_examples(example, older) \in SUBSET (Examples \X Examples)
    BY DEF list_examples, Present, IInv, TypeOK
  <1> QED
    BY <1>1, <1>2, <1>3 DEF catalog_snapshot, Snapshot

(* The foreign key makes the snapshot of the draft whole.                  *)
LEMMA SnapshotIsWhole ==
    ASSUME IInv
    PROVE  LET s == catalog_snapshot(intent, example, older)
           IN  \A e \in Present(s.examples) : s.routes[s.examples[e].intent] # None
  <1> DEFINE s == catalog_snapshot(intent, example, older)
  <1>1. s.examples = FrozenExamples(example)
        /\ s.routes = [i \in Intents |->
                         IF intent[i] = None THEN None ELSE intent[i].route]
    BY DEF catalog_snapshot
  <1> HIDE DEF s
  <1> SUFFICES ASSUME NEW e \in Present(s.examples)
               PROVE  s.routes[s.examples[e].intent] # None
    BY DEF s
  <1>2. e \in Examples /\ FrozenExamples(example)[e] # None
    BY <1>1 DEF Present, FrozenExamples
  <1>3. /\ example[e] # None
        /\ s.examples[e].intent = example[e].intent
    BY <1>1, <1>2 DEF FrozenExamples
  <1>4. /\ example[e].intent \in Intents
        /\ intent[example[e].intent] # None
        /\ intent[example[e].intent].route \in Routes
    BY <1>2, <1>3 DEF IInv, TypeOK, ExampleRow, IntentRow
  <1> QED
    BY <1>1, <1>3, <1>4, DraftAssumption

LEMMA SnapshotIsListed ==
    ASSUME IInv
    PROVE  Listed(catalog_snapshot(intent, example, older))
  <1> DEFINE s == catalog_snapshot(intent, example, older)
  <1>1. /\ s.examples = FrozenExamples(example)
        /\ s.listed = list_examples(example, older)
    BY DEF catalog_snapshot
  <1> HIDE DEF s
  <1> SUFFICES ASSUME NEW p \in s.listed
               PROVE  /\ p \in Present(s.examples) \X Present(s.examples)
                      /\ s.examples[p[1]].intent = s.examples[p[2]].intent
    BY DEF Listed, s
  <1>2. /\ p \in Present(example) \X Present(example)
        /\ example[p[1]].intent = example[p[2]].intent
    BY <1>1 DEF list_examples
  <1>3. ASSUME NEW x \in Present(example)
        PROVE  x \in Present(s.examples) /\ s.examples[x].intent = example[x].intent
    <2>1. x \in Examples /\ example[x] # None /\ example[x] \in ExampleRow
      BY DEF IInv, TypeOK, Present
    <2>2. [intent |-> example[x].intent, text |-> example[x].text] \in Frozen
      BY <2>1 DEF ExampleRow, Frozen
    <2> QED
      BY <1>1, <2>1, <2>2, RowsAssumption DEF Present, FrozenExamples
  <1> QED
    BY <1>2, <1>3

LEMMA CreateVersionKeeps ==
    ASSUME IInv, NEW c \in Clients, create_catalog_version(c)
    PROVE  IInv'
  <1> DEFINE v == [snapshot |-> catalog_snapshot(intent, example, older),
                   rows |-> FrozenExamples(example), active |-> TRUE]
  <1>1. call[c].read.example = example /\ call[c].op # "idle"
    BY DEF create_catalog_version, IInv, CallInv
  <1>2. v \in Version /\ Whole(v)
    BY SnapshotType, SnapshotIsWhole, SnapshotIsListed
       DEF Version, Whole, catalog_snapshot
  <1>3. /\ versions' = Append(versions, v) /\ End(c)
        /\ Len(versions) < MaxVersions
        /\ UNCHANGED <<intent, example, older, loaded>>
    BY <1>1 DEF create_catalog_version
  <1> HIDE DEF v
  <1>4. /\ versions \in Seq(Version) /\ Len(versions) \in Nat
        /\ loaded \in 0 .. Len(versions)
    BY DEF IInv, TypeOK
  <1>5. /\ versions' \in Seq(Version) /\ Len(versions') = Len(versions) + 1
        /\ \A n \in 1 .. Len(versions) : versions'[n] = versions[n]
        /\ versions'[Len(versions) + 1] = v
    BY <1>2, <1>3, <1>4
  <1>6. lock' = None /\ call' \in [Clients -> Call] /\ Quiet'
    BY <1>1, <1>3, EndIsQuiet
  <1>7. TypeOK'
    BY <1>3, <1>4, <1>5, <1>6, DraftAssumption DEF IInv, TypeOK
  <1>8. \A n \in 1 .. Len(versions') : Whole(versions'[n])
    <2> TAKE n \in 1 .. Len(versions')
    <2>1. n \in 1 .. Len(versions) \/ n = Len(versions) + 1
      BY <1>4, <1>5
    <2>2. \A m \in 1 .. Len(versions) : Whole(versions[m])
      BY WholeVersions DEF IInv
    <2> QED
      BY <1>2, <1>5, <2>1, <2>2
  <1>9. VersionsAreWhole' /\ ListsInv'
    BY <1>8 DEF VersionsAreWhole, ListsInv, Whole
  <1>10. LoadRestores' /\ ApprovedIsEmbedded'
    BY <1>3, <1>4, <1>5 DEF IInv, LoadRestores, catalog_snapshot,
       FrozenExamples, list_examples, ApprovedIsEmbedded
  <1> QED
    BY <1>6, <1>7, <1>9, <1>10, QuietCalls DEF IInv

LEMMA DeactivateKeeps ==
    ASSUME IInv, NEW c \in Clients, NEW v \in 1 .. Len(versions),
           deactivate_catalog_version(c, v)
    PROVE  IInv'
  <1> DEFINE w == [versions[v] EXCEPT !.active = FALSE]
  <1>1. versions \in Seq(Version) /\ versions[v] \in Version
    BY ElementOfSeq DEF IInv, TypeOK
  <1>2. /\ w \in Version
        /\ w.rows = versions[v].rows /\ w.snapshot = versions[v].snapshot
    BY <1>1 DEF Version
  <1>3. /\ versions' = [versions EXCEPT ![v] = w]
        /\ lock = None
        /\ UNCHANGED <<intent, example, older, lock, call, loaded>>
    BY DEF deactivate_catalog_version, acquire_advisory_xact_lock
  <1> HIDE DEF w
  <1>4. /\ versions' \in Seq(Version) /\ Len(versions') = Len(versions)
        /\ \A n \in 1 .. Len(versions) :
             versions'[n] = IF n = v THEN w ELSE versions[n]
    BY <1>1, <1>2, <1>3, ExceptSeq
  <1>5. \A n \in 1 .. Len(versions) :
          /\ versions'[n].rows = versions[n].rows
          /\ versions'[n].snapshot = versions[n].snapshot
    BY <1>2, <1>4
  <1>6. TypeOK'
    BY <1>3, <1>4 DEF IInv, TypeOK
  <1>7. VersionsAreWhole' /\ ListsInv'
    BY <1>4, <1>5 DEF IInv, VersionsAreWhole, ListsInv
  <1>8. Quiet' /\ lock' = None
    BY <1>3, FreeIsQuiet DEF Quiet
  <1>9. ApprovedIsEmbedded'
    BY <1>3 DEF IInv, ApprovedIsEmbedded
  <1>10. LoadRestores'
    <2>1. loaded # 0 => loaded \in 1 .. Len(versions)
      BY <1>1 DEF IInv, TypeOK
    <2> QED
      BY <1>3, <1>5, <2>1 DEF IInv, LoadRestores, catalog_snapshot,
         FrozenExamples, list_examples
  <1> QED
    BY <1>6, <1>7, <1>8, <1>9, <1>10, QuietCalls DEF IInv

(* The rows a load leaves are those the version was made of: what the      *)
(* version lacks was read, because the read is still true, and is deleted. *)
LEMMA LoadKeeps ==
    ASSUME IInv, NEW c \in Clients, load_catalog_version_to_draft(c)
    PROVE  IInv'
  <1> DEFINE n == call[c].version
             v == versions[n]
  <1>1. /\ call[c].op # "idle" /\ n \in 1 .. Len(versions)
        /\ call[c].read = [intent |-> intent, example |-> example]
    BY DEF load_catalog_version_to_draft, IInv, CallInv
  <1>2. versions \in Seq(Version) /\ v \in Version
    BY <1>1, ElementOfSeq DEF IInv, TypeOK
  <1>3. /\ v.snapshot \in Snapshot /\ v.rows = v.snapshot.examples
        /\ \A e \in Present(v.snapshot.examples) :
             v.snapshot.routes[v.snapshot.examples[e].intent] # None
    BY <1>1, <1>2 DEF IInv, VersionsAreWhole, Version
  <1>4. /\ v.snapshot.routes \in [Intents -> Routes \cup {None}]
        /\ v.snapshot.examples \in [Examples -> Frozen \cup {None}]
        /\ v.rows \in [Examples -> Frozen \cup {None}]
    BY <1>3 DEF Snapshot
  <1>5. End(c) /\ loaded' = n /\ older' = {} /\ UNCHANGED versions
    BY DEF load_catalog_version_to_draft
  <1>6. call[c].read.intent = intent /\ call[c].read.example = example
    BY <1>1
  <1>7. intent' = [i \in Intents |->
             IF v.snapshot.routes[i] # None
             THEN [route |-> v.snapshot.routes[i], status |-> "draft"]
             ELSE IF intent[i] # None THEN None ELSE intent[i]]
    BY <1>6 DEF load_catalog_version_to_draft
  <1>8. example' = [e \in Examples |->
             IF v.rows[e] # None
             THEN [intent |-> v.rows[e].intent, text |-> v.rows[e].text,
                   approved |-> FALSE, vector |-> None]
             ELSE IF example[e] # None THEN None ELSE example[e]]
    BY <1>6 DEF load_catalog_version_to_draft
  <1> HIDE DEF n, v
  <1>9. \A i \in Intents : v.snapshot.routes[i] # None =>
          [route |-> v.snapshot.routes[i], status |-> "draft"] \in IntentRow
    BY <1>4, DraftAssumption DEF IntentRow
  <1>10. \A e \in Examples : v.rows[e] # None =>
          [intent |-> v.rows[e].intent, text |-> v.rows[e].text,
           approved |-> FALSE, vector |-> None] \in ExampleRow
    BY <1>4 DEF ExampleRow, Frozen
  <1>11. /\ intent' \in [Intents -> IntentRow \cup {None}]
        /\ \A i \in Intents : /\ intent'[i] = None <=> v.snapshot.routes[i] = None
                              /\ intent'[i] # None =>
                                   intent'[i].route = v.snapshot.routes[i]
    BY <1>7, <1>9, RowsAssumption
  <1>12. /\ example' \in [Examples -> ExampleRow \cup {None}]
        /\ \A e \in Examples : /\ example'[e] = None <=> v.rows[e] = None
                               /\ example'[e] # None =>
                                    /\ example'[e].intent = v.rows[e].intent
                                    /\ example'[e].text = v.rows[e].text
                                    /\ ~ example'[e].approved
                                    /\ example'[e].vector = None
    BY <1>8, <1>10, RowsAssumption
  <1>13. \A e \in Examples :
           example'[e] # None => intent'[example'[e].intent] # None
    <2> SUFFICES ASSUME NEW e \in Examples, example'[e] # None
                 PROVE  intent'[example'[e].intent] # None
      OBVIOUS
    <2>1. v.rows[e] # None /\ v.rows[e].intent \in Intents
      BY <1>4, <1>12 DEF Frozen
    <2>2. v.snapshot.routes[v.rows[e].intent] # None
      BY <1>3, <1>4, <2>1 DEF Present
    <2> QED
      BY <1>11, <1>12, <2>1, <2>2
  <1>14. lock' = None /\ call' \in [Clients -> Call] /\ Quiet'
    BY <1>1, <1>5, EndIsQuiet
  <1>15. TypeOK'
    BY <1>1, <1>5, <1>11, <1>12, <1>13, <1>14 DEF IInv, TypeOK, n
  <1>16. VersionsAreWhole' /\ ListsInv'
    BY <1>5 DEF IInv, VersionsAreWhole, ListsInv
  <1>17. ApprovedIsEmbedded'
    BY <1>12 DEF ApprovedIsEmbedded
  <1>18. LoadRestores'
    <2>1. FrozenExamples(example') = v.snapshot.examples
      <3>1. \A e \in Examples : v.rows[e] # None =>
              v.rows[e] = [intent |-> v.rows[e].intent, text |-> v.rows[e].text]
        BY <1>4 DEF Frozen
      <3> QED
        BY <1>3, <1>4, <1>12, <3>1 DEF FrozenExamples
    <2>2. [i \in Intents |-> IF intent'[i] = None THEN None ELSE intent'[i].route]
            = v.snapshot.routes
      BY <1>4, <1>11
    <2>3. list_examples(example', {}) = list_examples(v.snapshot.examples, {})
      <3>1. Present(example') = Present(v.snapshot.examples)
        BY <1>3, <1>4, <1>12 DEF Present
      <3>2. \A e \in Present(example') :
              example'[e].intent = v.snapshot.examples[e].intent
        BY <1>3, <1>12 DEF Present
      <3> QED
        BY <3>1, <3>2 DEF list_examples
    <2>4. /\ catalog_snapshot(intent', example', older').routes = v.snapshot.routes
          /\ catalog_snapshot(intent', example', older').examples
               = v.snapshot.examples
          /\ catalog_snapshot(intent', example', older').listed
               = list_examples(v.snapshot.examples, {})
      BY <1>5, <2>1, <2>2, <2>3 DEF catalog_snapshot
    <2> QED
      BY <1>5, <2>4 DEF LoadRestores, v
  <1> QED
    BY <1>14, <1>15, <1>16, <1>17, <1>18, QuietCalls DEF IInv

LEMMA VersionKeeps ==
    ASSUME IInv, NEW c \in Clients, VersionStep(c)
    PROVE  IInv'
  <1>1. CASE begin_create_catalog_version(c)
    <2> DEFINE k == [Idle EXCEPT !.op = "version"]
    <2>1. k \in Call /\ k.op = "version"
      BY IdleType DEF Call, Ops
    <2>2. Begin(c, k)
      BY <1>1 DEF begin_create_catalog_version
    <2> HIDE DEF k
    <2> QED
      BY <2>1, <2>2, BeginKeeps
  <1>2. ASSUME NEW v \in 1 .. Len(versions),
               begin_load_catalog_version_to_draft(c, v)
        PROVE  IInv'
    <2> DEFINE k == [Idle EXCEPT !.op = "load", !.version = v]
    <2>1. v \in 0 .. MaxVersions
      BY DraftAssumption DEF IInv, TypeOK
    <2>2. k \in Call /\ k.op = "load" /\ k.version = v
      BY <2>1, IdleType DEF Call, Ops
    <2>3. Begin(c, k)
      BY <1>2 DEF begin_load_catalog_version_to_draft
    <2> HIDE DEF k
    <2> QED
      BY <2>2, <2>3, BeginKeeps
  <1> QED
    BY <1>1, <1>2, CreateVersionKeeps, DeactivateKeeps, LoadKeeps
       DEF VersionStep

LEMMA InvStep == IInv /\ [Next]_vars => IInv'
  <1> SUFFICES ASSUME IInv, [Next]_vars PROVE IInv'
    OBVIOUS
  <1>1. CASE UNCHANGED vars
    <2>1. TypeOK' /\ CallInv'
      BY <1>1 DEF vars, IInv, TypeOK, CallInv
    <2> QED
      BY <1>1, <2>1, SameTables DEF vars, IInv
  <1>2. CASE Next
    BY <1>2, IntentKeeps, ExampleKeeps, VersionKeeps, AbortKeeps DEF Next
  <1> QED
    BY <1>1, <1>2

LEMMA InvAlways == Spec => []IInv
  BY InitInv, InvStep, PTL DEF Spec

-----------------------------------------------------------------------------
(* What follows for every state.                                           *)

(* Tables, versions and open calls keep their types, and the foreign key   *)
(* of intent_examples holds, also after a load that takes intents and      *)
(* examples from different records.                                        *)
THEOREM TypeCorrect == Spec => []TypeOK
  <1>1. IInv => TypeOK
    BY DEF IInv
  <1> QED
    BY <1>1, InvAlways, PTL

(* A load restores the intents and the examples of the version it was      *)
(* asked for, listed by identifier, whatever other workers tried meanwhile *)
(* and in whatever order the version listed them.                          *)
THEOREM LoadsRestore == Spec => []LoadRestores
  <1>1. IInv => LoadRestores
    BY DEF IInv
  <1> QED
    BY <1>1, InvAlways, PTL

(* The snapshot of a version and its embedding rows are the same examples, *)
(* each of an intent of the snapshot, although the rows are listed before  *)
(* the texts are embedded and the snapshot is read after.                  *)
THEOREM VersionsStayWhole == Spec => []VersionsAreWhole
  <1>1. IInv => VersionsAreWhole
    BY DEF IInv
  <1> QED
    BY <1>1, InvAlways, PTL

(* An approved example carries the vector of its present text, although    *)
(* the text is read before the provider is asked for the vector.           *)
THEOREM ApprovedStaysEmbedded == Spec => []ApprovedIsEmbedded
  <1>1. IInv => ApprovedIsEmbedded
    BY DEF IInv
  <1> QED
    BY <1>1, InvAlways, PTL

-----------------------------------------------------------------------------
(* The diff, as a fact about any two snapshots.                            *)

SnapshotWhole(s) ==
    /\ \A e \in Present(s.examples) : s.routes[s.examples[e].intent] # None
    /\ Listed(s)

(* The fields of an item that decide whether two items are equal.          *)
LEMMA ItemsDiffer ==
    ASSUME NEW b, NEW a, NEW i, ItemOf(b, i) = ItemOf(a, i)
    PROVE  /\ b.routes[i] = a.routes[i]
           /\ \A e \in Examples :
                a.examples[e] # None /\ a.examples[e].intent = i =>
                  b.examples[e] = a.examples[e]
           /\ \A p \in a.listed : a.examples[p[1]].intent = i => p \in b.listed
  <1> DEFINE Of(s) == {<<e, s.examples[e]>> : e \in {x \in Examples :
                          s.examples[x] # None /\ s.examples[x].intent = i}}
  <1> DEFINE In(s) == {p \in s.listed : s.examples[p[1]].intent = i}
  <1>1. b.routes[i] = a.routes[i] /\ Of(b) = Of(a) /\ In(b) = In(a)
    <2>1. /\ ItemOf(b, i).route = b.routes[i] /\ ItemOf(b, i).examples = Of(b)
          /\ ItemOf(a, i).route = a.routes[i] /\ ItemOf(a, i).examples = Of(a)
          /\ ItemOf(b, i).listed = In(b) /\ ItemOf(a, i).listed = In(a)
      BY DEF ItemOf
    <2> QED
      BY <2>1
  <1>2. ASSUME NEW e \in Examples, a.examples[e] # None,
               a.examples[e].intent = i
        PROVE  b.examples[e] = a.examples[e]
    <2>1. <<e, a.examples[e]>> \in Of(a)
      BY <1>2
    <2>2. PICK x \in Examples : <<e, a.examples[e]>> = <<x, b.examples[x]>>
      BY <1>1, <2>1
    <2> QED
      BY <2>2
  <1> QED
    BY <1>1, <1>2

(* Equal keys and no changed key make equal functions.                     *)
LEMMA SnapshotsEqual ==
    ASSUME NEW b \in Snapshot, NEW a \in Snapshot,
           Present(a.routes) = Present(b.routes),
           Present(a.examples) = Present(b.examples),
           changed_intents(b, a) = {}, changed_examples(b, a) = {},
           SnapshotWhole(b), SnapshotWhole(a)
    PROVE  b = a
  <1>1. /\ b.routes \in [Intents -> Routes \cup {None}]
        /\ a.routes \in [Intents -> Routes \cup {None}]
        /\ b.examples \in [Examples -> Frozen \cup {None}]
        /\ a.examples \in [Examples -> Frozen \cup {None}]
        /\ b = [routes |-> b.routes, examples |-> b.examples, listed |-> b.listed]
        /\ a = [routes |-> a.routes, examples |-> a.examples, listed |-> a.listed]
    BY DEF Snapshot
  <1>2. \A i \in Intents : b.routes[i] = a.routes[i]
    <2> TAKE i \in Intents
    <2>1. CASE i \in Present(b.routes)
      <3>1. ItemOf(b, i) = ItemOf(a, i)
        BY <2>1 DEF changed_intents
      <3> QED
        BY <3>1, ItemsDiffer
    <2>2. CASE i \notin Present(b.routes)
      BY <1>1, <2>2 DEF Present
    <2> QED
      BY <2>1, <2>2
  <1>3. \A e \in Examples : b.examples[e] = a.examples[e]
    BY <1>1 DEF changed_examples, Present
  <1>4. b.routes = a.routes /\ b.examples = a.examples
    BY <1>1, <1>2, <1>3
  <1>5. ASSUME NEW x \in {a, b}, NEW p \in x.listed
        PROVE  /\ x.examples[p[1]].intent \in Present(a.routes)
               /\ x.examples[p[1]].intent \in Present(b.routes)
    <2>1. p[1] \in Present(x.examples) /\ x.examples[p[1]] \in Frozen
      BY <1>1, <1>5 DEF SnapshotWhole, Listed, Present
    <2>2. x.examples[p[1]].intent \in Intents
      BY <2>1 DEF Frozen
    <2>3. x.routes[x.examples[p[1]].intent] # None
      BY <1>5, <2>1 DEF SnapshotWhole
    <2>4. x.examples[p[1]].intent \in Present(x.routes)
      BY <1>1, <2>2, <2>3 DEF Present
    <2> QED
      BY <2>4
  <1>6. \A i \in Present(a.routes) : ItemOf(b, i) = ItemOf(a, i)
    BY DEF changed_intents
  <1>7. a.listed \subseteq b.listed /\ b.listed \subseteq a.listed
    BY <1>5, <1>6, ItemsDiffer
  <1>8. a.listed = b.listed
    BY <1>7
  <1> QED
    BY <1>1, <1>4, <1>8

LEMMA BaselineType ==
    ASSUME IInv, NEW v \in 0 .. Len(versions)
    PROVE  baseline(v) \in Snapshot /\ SnapshotWhole(baseline(v))
  <1>1. CASE v = 0
    <2>1. EmptySnapshot \in Snapshot
      BY DEF EmptySnapshot, Snapshot
    <2>2. SnapshotWhole(EmptySnapshot)
      BY DEF EmptySnapshot, SnapshotWhole, Listed, Present
    <2> QED
      BY <1>1, <2>1, <2>2 DEF baseline
  <1>2. CASE v # 0
    <2>1. v \in 1 .. Len(versions) /\ versions \in Seq(Version)
      BY <1>2 DEF IInv, TypeOK
    <2>2. versions[v] \in Version
      BY <2>1, ElementOfSeq
    <2> QED
      BY <1>2, <2>1, <2>2 DEF baseline, IInv, VersionsAreWhole, ListsInv,
         SnapshotWhole, Version
  <1> QED
    BY <1>1, <1>2

(* The diff of two versions is empty only for equal contents in the same   *)
(* order, and shows each changed example at its intent too.                *)
THEOREM DiffsAreComplete == Spec => []DiffIsComplete
<1>1. IInv => DiffIsComplete
  <2> SUFFICES ASSUME IInv, NEW v \in 0 .. Len(versions),
                      NEW w \in 0 .. Len(versions)
               PROVE
      LET d == build_catalog_version_diff(v, w)
          touched == d.added_intents \cup d.removed_intents \cup d.changed_intents
      IN /\ baseline(v) = baseline(w) <=> \A f \in DOMAIN d : d[f] = {}
         /\ \A e \in d.added_examples \cup d.changed_examples :
              baseline(w).examples[e].intent \in touched
    BY DEF DiffIsComplete
  <2> DEFINE d == build_catalog_version_diff(v, w)
             b == baseline(v)
             a == baseline(w)
  <2>1. /\ d.added_intents = Present(a.routes) \ Present(b.routes)
        /\ d.removed_intents = Present(b.routes) \ Present(a.routes)
        /\ d.changed_intents = changed_intents(b, a)
        /\ d.added_examples = Present(a.examples) \ Present(b.examples)
        /\ d.removed_examples = Present(b.examples) \ Present(a.examples)
        /\ d.changed_examples = changed_examples(b, a)
        /\ DOMAIN d = {"added_intents", "removed_intents", "changed_intents",
                       "added_examples", "removed_examples",
                       "changed_examples"}
    BY DEF build_catalog_version_diff
  <2>2. /\ b \in Snapshot /\ SnapshotWhole(b)
        /\ a \in Snapshot /\ SnapshotWhole(a)
    BY BaselineType
  <2> HIDE DEF d, a, b
  <2>3. b = a => \A f \in DOMAIN d : d[f] = {}
    BY <2>1 DEF changed_intents, changed_examples
  <2>4. (\A f \in DOMAIN d : d[f] = {}) => b = a
    <3> SUFFICES ASSUME \A f \in DOMAIN d : d[f] = {} PROVE b = a
      OBVIOUS
    <3>1. /\ d.added_intents = {} /\ d.removed_intents = {}
          /\ d.changed_intents = {} /\ d.added_examples = {}
          /\ d.removed_examples = {} /\ d.changed_examples = {}
      BY <2>1
    <3>2. /\ Present(a.routes) = Present(b.routes)
          /\ Present(a.examples) = Present(b.examples)
      BY <2>1, <3>1
    <3> QED
      BY <2>1, <2>2, <3>1, <3>2, SnapshotsEqual
  <2>5. ASSUME NEW e \in d.added_examples \cup d.changed_examples
        PROVE  a.examples[e].intent
                 \in d.added_intents \cup d.removed_intents \cup d.changed_intents
    <3> DEFINE i == a.examples[e].intent
    <3>1. /\ e \in Examples /\ a.examples[e] # None
          /\ b.examples[e] # a.examples[e]
      BY <2>1, <2>2 DEF changed_examples, Present, Snapshot
    <3>2. i \in Intents /\ i \in Present(a.routes)
      <4>1. /\ a.routes \in [Intents -> Routes \cup {None}]
            /\ a.examples \in [Examples -> Frozen \cup {None}]
        BY <2>2 DEF Snapshot
      <4>2. e \in Present(a.examples) /\ i \in Intents
        BY <3>1, <4>1 DEF Present, Frozen
      <4> QED
        BY <2>2, <4>1, <4>2 DEF SnapshotWhole, Present
    <3>3. ItemOf(b, i) # ItemOf(a, i)
      BY <3>1, ItemsDiffer
    <3> QED
      BY <2>1, <3>2, <3>3 DEF changed_intents
  <2> QED
    BY <2>1, <2>3, <2>4, <2>5 DEF d, a, b
<1> QED
  BY <1>1, InvAlways, PTL

=============================================================================
