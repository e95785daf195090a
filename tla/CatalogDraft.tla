---------------------------- MODULE CatalogDraft ----------------------------
(***************************************************************************)
(* The editable Intent Catalog of one Service and the versions made of it. *)
(*                                                                         *)
(* Every handler that writes the draft first takes the advisory lock       *)
(* "catalog-version:<service>" and keeps it to the end of its transaction. *)
(* Handlers that read, then embed text or walk the tables, then write, are *)
(* two steps here; the others are one.  A version is kept twice: as a JSON *)
(* snapshot, and as one embedding row per example.  Loading a version      *)
(* takes the intents from the first and the examples from the second.      *)
(*                                                                         *)
(* The examples of an intent are a list, by created_at and then by         *)
(* example_id, and a snapshot keeps that list.  A load writes one          *)
(* created_at into every example, so it restores the rows of a version     *)
(* and not their order.                                                    *)
(***************************************************************************)
EXTENDS Naturals, Sequences, FiniteSets

CONSTANTS
    Clients,      \* API workers
    Intents,      \* intent_id, in the order list_intents sorts them
    Routes,       \* route_key
    Examples,     \* example_id, in the order of the column
    Statuses,     \* intents.status; no handler of the draft looks at it
    Texts,        \* example texts; text_masked and text_raw are one here
    MaxVersions,  \* bound: catalog versions
    MaxRows,      \* bound: intents and examples of the draft
    None

Or(S) == S \cup {None}

ASSUME DraftAssumption ==
    /\ Intents \subseteq Nat /\ Examples \subseteq Nat
    /\ "draft" \in Statuses
    /\ MaxVersions \in Nat /\ MaxRows \in Nat
    /\ None \notin Clients \cup Intents \cup Routes \cup Examples \cup Texts

VARIABLES
    intent,     \* the intents table
    example,    \* the intent_examples table
    older,      \* pairs of examples whose created_at differ, older one first
    versions,   \* intent_catalog_versions, in the order of display_version
    lock,       \* holder of the advisory lock
    call,       \* the open call of each worker
    loaded      \* the version the draft was loaded from and not edited since

draft == <<intent, example, older>>
vars == <<intent, example, older, versions, lock, call, loaded>>

-----------------------------------------------------------------------------
IntentRow == [route : Routes, status : Statuses]
ExampleRow == [intent : Intents, text : Texts, approved : BOOLEAN,
               vector : Or(Texts)]
Frozen == [intent : Intents, text : Texts]
Snapshot == [routes : [Intents -> Or(Routes)], examples : [Examples -> Or(Frozen)],
             listed : SUBSET (Examples \X Examples)]
Version == [snapshot : Snapshot, rows : [Examples -> Or(Frozen)],
            active : BOOLEAN]
Draft == [intent : [Intents -> Or(IntentRow)],
          example : [Examples -> Or(ExampleRow)]]
Ops == {"idle", "approve", "patch", "version", "load"}
Call == [op : Ops, example : Or(Examples), text : Or(Texts),
         version : 0 .. MaxVersions, read : Or(Draft)]

\* No row is SQL NULL.
ASSUME RowsAssumption == None \notin IntentRow \cup ExampleRow \cup Frozen

Idle == [op |-> "idle", example |-> None, text |-> None, version |-> 0,
         read |-> None]

\* Rows are well typed, and the foreign key of intent_examples holds.
TypeOK ==
    /\ intent \in [Intents -> Or(IntentRow)]
    /\ example \in [Examples -> Or(ExampleRow)]
    /\ older \in SUBSET (Examples \X Examples)
    /\ versions \in Seq(Version) /\ Len(versions) <= MaxVersions
    /\ lock \in Or(Clients)
    /\ call \in [Clients -> Call]
    /\ loaded \in 0 .. Len(versions)
    /\ \A e \in Examples :
        example[e] # None => intent[example[e].intent] # None

Init ==
    /\ intent = [i \in Intents |-> None]
    /\ example = [e \in Examples |-> None]
    /\ older = {}
    /\ versions = <<>>
    /\ lock = None
    /\ call = [c \in Clients |-> Idle]
    /\ loaded = 0

-----------------------------------------------------------------------------
acquire_nothing(c) == call[c].op = "idle"
\* acquire_advisory_xact_lock: granted when no open transaction holds it.
acquire_advisory_xact_lock(c) == call[c].op = "idle" /\ lock = None

Begin(c, k) ==
    /\ acquire_advisory_xact_lock(c)
    /\ lock' = c
    /\ call' = [call EXCEPT ![c] = [k EXCEPT
                   !.read = [intent |-> intent, example |-> example]]]
    /\ UNCHANGED <<draft, versions, loaded>>

\* Commit or rollback: the lock goes with the transaction.
End(c) ==
    /\ lock' = IF lock = c THEN None ELSE lock
    /\ call' = [call EXCEPT ![c] = Idle]

\* A handler of one step.
Alone(c) == acquire_advisory_xact_lock(c) /\ UNCHANGED <<lock, call, versions>>
Edited == loaded' = 0

Present(rows) == {k \in DOMAIN rows : rows[k] # None}
RoomForRow ==
    Cardinality(Present(intent)) + Cardinality(Present(example)) < MaxRows

\* A failing embedding provider, an IntegrityError or a dying worker.
abort(c) ==
    /\ call[c].op # "idle"
    /\ End(c)
    /\ UNCHANGED <<draft, versions, loaded>>

-----------------------------------------------------------------------------
(* Intents                                                                 *)

RouteFree(i, r) ==
    \A j \in Intents \ {i} : intent[j] # None => intent[j].route # r

create_intent(c, i, r) ==
    /\ Alone(c)
    /\ intent[i] = None /\ RouteFree(i, r) /\ RoomForRow
    /\ intent' = [intent EXCEPT ![i] = [route |-> r, status |-> "draft"]]
    /\ Edited /\ UNCHANGED <<example, older>>

\* Any status may follow any other.
patch_intent(c, i, r, s) ==
    /\ Alone(c)
    /\ intent[i] # None /\ RouteFree(i, r)
    /\ intent[i] # [route |-> r, status |-> s]
    /\ intent' = [intent EXCEPT ![i] = [route |-> r, status |-> s]]
    /\ Edited /\ UNCHANGED <<example, older>>

\* Mutant: the intent's examples are left behind.
delete_intent_only(c, i) ==
    /\ Alone(c)
    /\ intent[i] # None
    /\ intent' = [intent EXCEPT ![i] = None]
    /\ Edited /\ UNCHANGED <<example, older>>

OlderAmong(rows) == older \cap (Present(rows) \X Present(rows))

\* The intent's examples go first.
delete_intent(c, i) ==
    /\ Alone(c)
    /\ intent[i] # None
    /\ intent' = [intent EXCEPT ![i] = None]
    /\ example' = [e \in Examples |->
           IF example[e] # None /\ example[e].intent = i THEN None
           ELSE example[e]]
    /\ older' = OlderAmong(example')
    /\ Edited

-----------------------------------------------------------------------------
(* Examples                                                                *)

\* uuid4: an identifier no row and no version has.
Fresh(e) ==
    /\ example[e] = None
    /\ \A v \in 1 .. Len(versions) : versions[v].rows[e] = None

\* created_at is taken before the wait for the lock, so it may fall between
\* those of any two examples that were written meanwhile.
create_example(c, e, i, t) ==
    /\ Alone(c)
    /\ intent[i] # None /\ Fresh(e) /\ RoomForRow
    /\ \E earlier \in SUBSET Present(example) :
         LET later == Present(example) \ earlier
         IN /\ earlier \X later \subseteq older
            /\ older' = older \cup (earlier \X {e}) \cup ({e} \X later)
    /\ example' = [example EXCEPT ![e] =
           [intent |-> i, text |-> t, approved |-> FALSE, vector |-> None]]
    /\ Edited /\ UNCHANGED intent

delete_example(c, e) ==
    /\ Alone(c)
    /\ example[e] # None
    /\ example' = [example EXCEPT ![e] = None]
    /\ older' = OlderAmong(example')
    /\ Edited /\ UNCHANGED intent

begin_approve_example(c, e) ==
    /\ example[e] # None
    /\ Begin(c, [Idle EXCEPT !.op = "approve", !.example = e])

\* The embedding is of the text that was read.
approve_example(c) ==
    /\ call[c].op = "approve"
    /\ LET e == call[c].example
       IN /\ example[e] # None
          /\ example' = [example EXCEPT
                 ![e].approved = TRUE,
                 ![e].vector = call[c].read.example[e].text]
    /\ Edited /\ End(c)
    /\ UNCHANGED <<intent, older, versions>>

begin_patch_example(c, e, t) ==
    /\ example[e] # None /\ example[e].text # t
    /\ Begin(c, [Idle EXCEPT !.op = "patch", !.example = e, !.text = t])

patch_example_text_only(c) ==
    /\ call[c].op = "patch"
    /\ LET e == call[c].example
       IN /\ example[e] # None
          /\ example' = [example EXCEPT ![e].text = call[c].text]
    /\ Edited /\ End(c)
    /\ UNCHANGED <<intent, older, versions>>

\* An approved example stays approved and is embedded again.
patch_example(c) ==
    /\ call[c].op = "patch"
    /\ LET e == call[c].example
           approved == call[c].read.example[e].approved
       IN /\ example[e] # None
          /\ example' = [example EXCEPT
                 ![e].text = call[c].text,
                 ![e].vector = IF approved THEN call[c].text ELSE @]
    /\ Edited /\ End(c)
    /\ UNCHANGED <<intent, older, versions>>

-----------------------------------------------------------------------------
(* Versions                                                                *)

FrozenExamples(rows) ==
    [e \in Examples |->
        IF rows[e] = None THEN None
        ELSE [intent |-> rows[e].intent, text |-> rows[e].text]]

\* list_examples: the pairs of examples of one intent, in the list's order.
list_examples(rows, ages) ==
    {p \in Present(rows) \X Present(rows) :
        /\ rows[p[1]].intent = rows[p[2]].intent
        /\ \/ p \in ages
           \/ <<p[2], p[1]>> \notin ages /\ p[1] < p[2]}

\* _catalog_snapshot: all intents count as active, all examples as approved.
catalog_snapshot(intents, rows, ages) ==
    [routes |-> [i \in Intents |->
                    IF intents[i] = None THEN None ELSE intents[i].route],
     examples |-> FrozenExamples(rows),
     listed |-> list_examples(rows, ages)]

begin_create_catalog_version(c) ==
    /\ Len(versions) < MaxVersions
    /\ Begin(c, [Idle EXCEPT !.op = "version"])

\* The rows are those listed before the texts were embedded; the snapshot
\* is read afterwards.
create_catalog_version(c) ==
    /\ call[c].op = "version"
    /\ Len(versions) < MaxVersions
    /\ versions' = Append(versions,
           [snapshot |-> catalog_snapshot(intent, example, older),
            rows |-> FrozenExamples(call[c].read.example), active |-> TRUE])
    /\ End(c)
    /\ UNCHANGED <<draft, loaded>>

\* Blocked by a Release that refers to the version; vectors are cleared,
\* the texts stay for a later load.
deactivate_catalog_version(c, v) ==
    /\ acquire_advisory_xact_lock(c)
    /\ versions[v].active
    /\ versions' = [versions EXCEPT ![v].active = FALSE]
    /\ UNCHANGED <<draft, lock, call, loaded>>

begin_load_catalog_version_to_draft(c, v) ==
    Begin(c, [Idle EXCEPT !.op = "load", !.version = v])

\* The intents are written one by one, each flushed before the next: a
\* route_key that a later intent still holds fails the whole load.
RouteCollision(routes) ==
    \E i, j \in Intents :
        /\ i < j
        /\ routes[i] # None /\ routes[j] # None
        /\ intent[j] # None /\ intent[j].route = routes[i]

\* Mutant: intents that the version lacks stay.
load_keeping_intents(c) ==
    /\ call[c].op = "load"
    /\ LET v == versions[call[c].version]
       IN /\ ~RouteCollision(v.snapshot.routes)
          /\ \A i \in Intents : v.snapshot.routes[i] # None =>
                 RouteFree(i, v.snapshot.routes[i])
          /\ intent' = [i \in Intents |->
                 IF v.snapshot.routes[i] # None
                 THEN [route |-> v.snapshot.routes[i], status |-> "draft"]
                 ELSE intent[i]]
          /\ example' = [e \in Examples |->
                 IF v.rows[e] = None THEN None
                 ELSE [intent |-> v.rows[e].intent, text |-> v.rows[e].text,
                       approved |-> FALSE, vector |-> None]]
    /\ older' = {}
    /\ loaded' = call[c].version
    /\ End(c)
    /\ UNCHANGED versions

\* What the call read and the version lacks is deleted, what the version
\* has is created or overwritten, with one created_at for all.
load_catalog_version_to_draft(c) ==
    /\ call[c].op = "load"
    /\ LET v == versions[call[c].version]
           read == call[c].read
       IN /\ ~RouteCollision(v.snapshot.routes)
          /\ intent' = [i \in Intents |->
                 IF v.snapshot.routes[i] # None
                 THEN [route |-> v.snapshot.routes[i], status |-> "draft"]
                 ELSE IF read.intent[i] # None THEN None ELSE intent[i]]
          /\ example' = [e \in Examples |->
                 IF v.rows[e] # None
                 THEN [intent |-> v.rows[e].intent, text |-> v.rows[e].text,
                       approved |-> FALSE, vector |-> None]
                 ELSE IF read.example[e] # None THEN None ELSE example[e]]
    /\ older' = {}
    /\ loaded' = call[c].version
    /\ End(c)
    /\ UNCHANGED versions

-----------------------------------------------------------------------------
(* build_catalog_version_diff                                              *)

EmptySnapshot == [routes |-> [i \in Intents |-> None],
                  examples |-> [e \in Examples |-> None], listed |-> {}]
baseline(v) == IF v = 0 THEN EmptySnapshot ELSE versions[v].snapshot

\* An intent's item of the snapshot holds the list of its examples too.
ItemOf(s, i) ==
    [route |-> s.routes[i],
     examples |-> {<<e, s.examples[e]>> : e \in {x \in Examples :
                      s.examples[x] # None /\ s.examples[x].intent = i}},
     listed |-> {p \in s.listed : s.examples[p[1]].intent = i}]

\* Mutant: only the route_key of an intent is compared.
changed_routes(b, a) ==
    {i \in Present(b.routes) \cap Present(a.routes) : b.routes[i] # a.routes[i]}
changed_intents(b, a) ==
    {i \in Present(b.routes) \cap Present(a.routes) : ItemOf(b, i) # ItemOf(a, i)}
changed_examples(b, a) ==
    {e \in Present(b.examples) \cap Present(a.examples) :
        b.examples[e] # a.examples[e]}

build_catalog_version_diff(from, to) ==
    LET b == baseline(from)
        a == baseline(to)
    IN [added_intents |-> Present(a.routes) \ Present(b.routes),
        removed_intents |-> Present(b.routes) \ Present(a.routes),
        changed_intents |-> changed_intents(b, a),
        added_examples |-> Present(a.examples) \ Present(b.examples),
        removed_examples |-> Present(b.examples) \ Present(a.examples),
        changed_examples |-> changed_examples(b, a)]

-----------------------------------------------------------------------------
IntentStep(c) ==
    \E i \in Intents :
        \/ \E r \in Routes : create_intent(c, i, r)
        \/ \E r \in Routes, s \in Statuses : patch_intent(c, i, r, s)
        \/ delete_intent(c, i)

ExampleStep(c) ==
    \/ \E e \in Examples, i \in Intents, t \in Texts : create_example(c, e, i, t)
    \/ \E e \in Examples : delete_example(c, e) \/ begin_approve_example(c, e)
    \/ \E e \in Examples, t \in Texts : begin_patch_example(c, e, t)
    \/ approve_example(c)
    \/ patch_example(c)

VersionStep(c) ==
    \/ begin_create_catalog_version(c)
    \/ create_catalog_version(c)
    \/ \E v \in 1 .. Len(versions) :
        \/ deactivate_catalog_version(c, v)
        \/ begin_load_catalog_version_to_draft(c, v)
    \/ load_catalog_version_to_draft(c)

Next ==
    \E c \in Clients :
        IntentStep(c) \/ ExampleStep(c) \/ VersionStep(c) \/ abort(c)

Spec == Init /\ [][Next]_vars

-----------------------------------------------------------------------------
(* Properties                                                              *)

\* "Current editable Intents/Examples are replaced to match the selected
\* snapshot": after a load that succeeds, and until the next edit, a version
\* made of the draft would hold the intents and the examples of the version
\* that was loaded, although they come from different tables and other
\* editors wait meanwhile.  Its examples are listed by identifier, whatever
\* their order was: where that is another list, the intent has changed.
LoadRestores ==
    loaded # 0 =>
        LET now == catalog_snapshot(intent, example, older)
            then == versions[loaded].snapshot
        IN /\ now.routes = then.routes /\ now.examples = then.examples
           /\ now.listed = list_examples(then.examples, {})

\* The two records of a version agree, so a search over its vectors finds
\* exactly the examples its snapshot shows, and each belongs to an intent of
\* the snapshot.
VersionsAreWhole ==
    \A v \in 1 .. Len(versions) :
        LET s == versions[v].snapshot
        IN /\ versions[v].rows = s.examples
           /\ \A e \in Present(s.examples) : s.routes[s.examples[e].intent] # None

\* An approved example has the embedding of the text it has now, through
\* concurrent approvals, edits and loads.
ApprovedIsEmbedded ==
    \A e \in Examples : example[e] # None =>
        example[e].vector = IF example[e].approved THEN example[e].text
                            ELSE None

\* Two versions differ, be it in the order of two examples, exactly when
\* their diff shows something, and whatever happens to an example shows at
\* its intent too.
DiffIsComplete ==
    \A v, w \in 0 .. Len(versions) :
        LET d == build_catalog_version_diff(v, w)
            touched == d.added_intents \cup d.removed_intents \cup d.changed_intents
        IN /\ baseline(v) = baseline(w) <=> \A f \in DOMAIN d : d[f] = {}
           /\ \A e \in d.added_examples \cup d.changed_examples :
                baseline(w).examples[e].intent \in touched
=============================================================================
