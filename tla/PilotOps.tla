------------------------------ MODULE PilotOps ------------------------------
(***************************************************************************)
(* The operator's scripts that drive a pilot Service through its APIs:     *)
(* run_pilot_rehearsal.py with the scripts it calls (seed, CSV comparison, *)
(* readiness smokes, Dify matrix, baseline comparison, evidence export),   *)
(* and rotate_api_key.py.  Each HTTP request commits by itself; a script   *)
(* may fail or be killed between any two of them, and the administrators   *)
(* of ApiKeys act meanwhile.                                               *)
(*                                                                         *)
(* Files: the two state files that hold a key, and the evidence directory  *)
(* with the threshold report and the two manifests.                        *)
(***************************************************************************)
EXTENDS ApiKeys

CONSTANTS
    Rotations,    \* runs of rotate_api_key.py
    RiskCases,    \* the CSV cases of type risk
    Reports,      \* threshold comparisons the CSV runs may end with
    Options,      \* arguments of a rehearsal: its mode, the report its
                  \* baseline was frozen from, the end of its BGE steps
    NoReport,     \* no report, no baseline
    MaxScripts    \* bound on the scripts that are started

Statuses == {"pass", "fail", "skip"}

ASSUME OpsAssumption ==
    /\ MaxScripts \in Nat /\ NoReport \notin Reports
    /\ \A r \in Reports :
          /\ IsFiniteSet(DOMAIN r.rows)
          /\ \A c \in DOMAIN r.rows : r.rows[c].result \in {"PASS", "FAIL", "REVIEW"}
    /\ Options \subseteq [mode : {"local", "closed-network"},
                          frozen : Reports \cup {NoReport},
                          bge : Statuses \X Statuses]

VARIABLES
    file,       \* the key each state file holds
    rot,        \* the rotation scripts
    served,     \* history: the keys a smoke was answered with
    rotatedOut, \* history: the keys a rotation revoked
    reh,        \* the rehearsal script
    started,    \* how many scripts were started
    report,     \* the threshold report of the evidence directory
    manifest,   \* what the two manifest files say
    against     \* history: the baseline of the rehearsal that passed

fileVars == <<report, manifest, against>>
rotVars == <<rot, served, rotatedOut>>
opsVars == <<file, rot, served, rotatedOut, reh, started, fileVars>>
vars == <<accessVars, opsVars>>

Paths == {"state", "rotated"}
StepNames == {"bge-package", "bge-benchmark", "pilot-e2e-smoke",
              "dify-smoke-matrix", "csv-baseline", "ops-evidence-export"}

Stopped == [pc |-> "idle", mode |-> "local", base |-> NoReport, key |-> NoKey,
            steps |-> [n \in StepNames |-> "skip"]]

NoRotation == [pc |-> "idle", old |-> NoKey, new |-> NoKey, revoke |-> FALSE]
Ended == [NoRotation EXCEPT !.pc = "ended"]

-----------------------------------------------------------------------------
(* Reports and baselines                                                   *)

\* A report has one row for each case of its CSV.
Passes(r) == {c \in DOMAIN r.rows : r.rows[c].result = "PASS"}
Risky(r) == RiskCases \cap DOMAIN r.rows

\* The rates are compared as fractions of cases.
AtLeast(some, all, percent) ==
    100 * Cardinality(some) >= percent * Cardinality(all)

\* The CSV gate of a run: 70% of the cases, and risk cases that all pass.
evaluate_gate(r) ==
    /\ AtLeast(Passes(r), DOMAIN r.rows, 70)
    /\ Risky(r) # {}
    /\ Risky(r) \subseteq Passes(r)

\* The gate of the required preset looks at the run's gate and at its rates.
evaluate_required_preset_gate(r) ==
    /\ evaluate_gate(r)
    /\ AtLeast(Passes(r), DOMAIN r.rows, 70)
    /\ Risky(r) \subseteq Passes(r)

\* What freezing keeps: the CSV, the preset's rates and each case's outcome.
freeze_baseline(r) ==
    [csv |-> r.csv, passes |-> Cardinality(Passes(r)),
     total |-> Cardinality(DOMAIN r.rows),
     risky |-> Cardinality(Risky(r) \cap Passes(r)),
     risks |-> Cardinality(Risky(r)), rows |-> r.rows]

\* Rates, CSV, missing cases, new failures and reviews, and drift of the
\* routed answer; a case that did not pass before may change its result.
\* The baseline is as freezing writes it: no new failure or review is allowed,
\* and its preset is the one the gate requires.
compare_baseline(r, b) ==
    /\ Cardinality(Passes(r)) * b.total >= b.passes * Cardinality(DOMAIN r.rows)
    /\ Cardinality(Risky(r) \cap Passes(r)) * b.risks
          >= b.risky * Cardinality(Risky(r))
    /\ r.csv = b.csv
    /\ \A c \in DOMAIN b.rows :
          /\ c \in DOMAIN r.rows
          /\ b.rows[c].result = "PASS" =>
                r.rows[c].result \notin {"FAIL", "REVIEW"}
          /\ r.rows[c].answer = b.rows[c].answer

Baselines == {freeze_baseline(r) : r \in Reports}

\* A new Service, or one that seed_pilot.py has set up: it is released and
\* its state file holds a key.
OpsInit ==
    /\ \/ Init(NoKey) /\ file = [p \in Paths |-> NoKey]
       \/ \E k \in Keys :
             /\ k = CHOOSE x \in Keys : TRUE
             /\ Init(k)
             /\ file = [p \in Paths |-> IF p = "state" THEN k ELSE NoKey]
    /\ rot = [r \in Rotations |-> NoRotation]
    /\ served = {} /\ rotatedOut = {}
    /\ reh = Stopped /\ started = 0
    /\ report = [body |-> NoReport, redacted |-> FALSE]
    /\ manifest = [m \in {"json", "md"} |-> "none"]
    /\ against = NoReport

-----------------------------------------------------------------------------
(* run_pilot_rehearsal                                                     *)

Goto(pc) == reh' = [reh EXCEPT !.pc = pc]
Record(name, status, pc) ==
    reh' = [reh EXCEPT !.steps[name] = status, !.pc = pc]

\* BGE package and benchmark run first in closed-network mode and are
\* skipped in local mode.
run_pilot_rehearsal(o) ==
    /\ reh.pc = "idle" /\ started < MaxScripts
    /\ o.mode = "local" <=> o.bge = <<"skip", "skip">>
    /\ reh' = [Stopped EXCEPT !.pc = "service", !.mode = o.mode,
                  !.base = IF o.frozen = NoReport THEN NoReport
                           ELSE freeze_baseline(o.frozen),
                  !.steps["bge-package"] = o.bge[1],
                  !.steps["bge-benchmark"] = o.bge[2]]
    /\ started' = started + 1
    /\ UNCHANGED <<accessVars, file, rotVars, fileVars>>

\* _seed_pilot_with_api: the Service must be new; ...
seed_service ==
    /\ reh.pc = "service" /\ service = "none"
    /\ service' = "created"
    /\ Goto("release")
    /\ UNCHANGED <<keyVars, expired, roleVars, call, calls, byHand, file,
                   rotVars, started, fileVars>>

\* ... its catalog, policy, CSV gate and release follow; ...
seed_release ==
    /\ reh.pc = "release"
    /\ service' = "released"
    /\ Goto("key")
    /\ UNCHANGED <<keyVars, expired, roleVars, call, calls, byHand, file,
                   rotVars, started, fileVars>>

\* ... and the key comes last.
seed_api_key(k) ==
    /\ reh.pc = "key"
    /\ create_api_key(k)
    /\ reh' = [reh EXCEPT !.key = k, !.pc = "state"]
    /\ UNCHANGED <<service, keyLock, expired, roleVars, call, calls, byHand,
                   file, rotVars, started, fileVars>>

\* _write_state replaces the file by a rename.
write_state ==
    /\ reh.pc = "state"
    /\ file' = [file EXCEPT !["state"] = reh.key]
    /\ Goto("compare")
    /\ UNCHANGED <<accessVars, rotVars, started, fileVars>>

\* run_threshold_comparison writes its report into the evidence directory ...
run_threshold_comparison(r) ==
    /\ reh.pc = "compare"
    /\ report' = [body |-> r, redacted |-> FALSE]
    /\ Goto("redact")
    /\ UNCHANGED <<accessVars, file, rotVars, started, manifest, against>>

\* ... and _redact_threshold_report_json rewrites it.
redact_threshold_report ==
    /\ reh.pc = "redact"
    /\ report' = [report EXCEPT !.redacted = TRUE]
    /\ Goto("smoke")
    /\ UNCHANGED <<accessVars, file, rotVars, started, manifest, against>>

\* The smokes use the key in memory; authentication is one lookup and the
\* answer comes later.
smoke_lookup ==
    /\ reh.pc = "smoke" /\ require_api_key(reh.key)
    /\ Goto("answer")
    /\ UNCHANGED <<accessVars, file, rotVars, started, fileVars>>

\* Mutant: a result without a verdict of its own counts as passed.
result_passed_if_returned(r) == r # NoReport

\* The step passes when the quality gate it returns passed; otherwise the
\* steps after it are recorded as skipped.
result_passed(r) == evaluate_required_preset_gate(r)

finish_e2e ==
    /\ reh.pc = "answer"
    /\ served' = served \cup {reh.key}
    /\ IF result_passed(report.body)
          THEN Record("pilot-e2e-smoke", "pass", "load")
          ELSE Record("pilot-e2e-smoke", "fail", "finalize")
    /\ UNCHANGED <<accessVars, file, rot, rotatedOut, started, fileVars>>

E2e == {"service", "release", "key", "state", "compare", "redact", "smoke",
        "answer"}

\* _run_step turns any exception of the e2e flow into a failed step.
fail_e2e ==
    /\ reh.pc \in E2e
    /\ Record("pilot-e2e-smoke", "fail", "finalize")
    /\ UNCHANGED <<accessVars, file, rotVars, started, fileVars>>

\* The Dify matrix authenticates with the key of the state file.
load_state ==
    /\ reh.pc = "load" /\ require_api_key(file["state"])
    /\ reh' = [reh EXCEPT !.key = file["state"], !.pc = "dify"]
    /\ UNCHANGED <<accessVars, file, rotVars, started, fileVars>>

\* Each of its requests is looked up again, the last one included.
run_dify_smoke_matrix ==
    /\ reh.pc = "dify" /\ require_api_key(reh.key)
    /\ served' = served \cup {reh.key}
    /\ Record("dify-smoke-matrix", "pass", "baseline")
    /\ UNCHANGED <<accessVars, file, rot, rotatedOut, started, fileVars>>

fail_dify_matrix ==
    /\ reh.pc \in {"load", "dify"}
    /\ Record("dify-smoke-matrix", "fail", "baseline")
    /\ UNCHANGED <<accessVars, file, rotVars, started, fileVars>>

\* Mutant: a comparison that was not asked for gets a status of its own.
run_csv_baseline_step_missing ==
    /\ reh.pc = "baseline"
    /\ Record("csv-baseline",
              IF reh.base = NoReport THEN "missing" ELSE "pass", "ops")
    /\ UNCHANGED <<accessVars, file, rotVars, started, fileVars>>

\* The comparison with the baseline runs even when the matrix failed; the
\* export then does not.
run_csv_baseline_step ==
    /\ reh.pc = "baseline"
    /\ reh' = [reh EXCEPT
                  !.steps["csv-baseline"] =
                      IF reh.base = NoReport THEN "skip"
                      ELSE IF compare_baseline(report.body, reh.base)
                           THEN "pass" ELSE "fail",
                  !.pc = IF reh.steps["dify-smoke-matrix"] = "pass"
                         THEN "ops" ELSE "finalize"]
    /\ UNCHANGED <<accessVars, file, rotVars, started, fileVars>>

run_ops_evidence_export(status) ==
    /\ reh.pc = "ops"
    /\ Record("ops-evidence-export", status, "finalize")
    /\ UNCHANGED <<accessVars, file, rotVars, started, fileVars>>

Required ==
    {"pilot-e2e-smoke", "dify-smoke-matrix", "ops-evidence-export"}
        \cup (IF reh.mode = "closed-network"
              THEN {"bge-package", "bge-benchmark"} ELSE {})
        \cup (IF reh.base = NoReport THEN {} ELSE {"csv-baseline"})

\* The scan covers the evidence directory, and what the operator added, as
\* they are before the manifests are written; its markers do not include
\* what the report redaction hides.
manifest_passed(scanned) ==
    /\ scanned
    /\ \A n \in Required : reh.steps[n] = "pass"

\* The JSON manifest first, ...
finalize_rehearsal(scanned) ==
    /\ reh.pc = "finalize"
    /\ manifest' = [manifest EXCEPT !["json"] =
                       IF manifest_passed(scanned) THEN "PASS" ELSE "FAIL"]
    /\ against' = IF manifest_passed(scanned) THEN reh.base ELSE against
    /\ Goto("markdown")
    /\ UNCHANGED <<accessVars, file, rotVars, started, report>>

\* ... then the one a reader opens.
write_markdown ==
    /\ reh.pc = "markdown"
    /\ manifest' = [manifest EXCEPT !["md"] = manifest["json"]]
    /\ reh' = Stopped
    /\ UNCHANGED <<accessVars, file, rotVars, started, report, against>>

\* The script is killed: what it wrote stays.
rehearsal_dies ==
    /\ reh.pc # "idle"
    /\ reh' = Stopped
    /\ UNCHANGED <<accessVars, file, rotVars, started, fileVars>>

RehearsalNext ==
    \/ \E o \in Options : run_pilot_rehearsal(o)
    \/ seed_service
    \/ seed_release
    \/ \E k \in Keys : seed_api_key(k)
    \/ write_state
    \/ \E r \in Reports : run_threshold_comparison(r)
    \/ redact_threshold_report
    \/ smoke_lookup
    \/ finish_e2e
    \/ fail_e2e
    \/ load_state
    \/ run_dify_smoke_matrix
    \/ fail_dify_matrix
    \/ run_csv_baseline_step
    \/ \E s \in {"pass", "fail"} : run_ops_evidence_export(s)
    \/ \E scanned \in BOOLEAN : finalize_rehearsal(scanned)
    \/ write_markdown
    \/ rehearsal_dies

-----------------------------------------------------------------------------
(* rotate_api_key                                                          *)

\* The script reads the key to replace from either state file.
rotate_api_key(r, p, revoke) ==
    /\ rot[r].pc = "idle" /\ file[p] # NoKey
    /\ started < MaxScripts /\ started' = started + 1
    /\ rot' = [rot EXCEPT ![r] = [pc |-> "create", old |-> file[p],
                                  new |-> NoKey, revoke |-> revoke]]
    /\ UNCHANGED <<accessVars, file, served, rotatedOut, reh, fileVars>>

rotate_create(r, k) ==
    /\ rot[r].pc = "create"
    /\ create_api_key(k)
    /\ rot' = [rot EXCEPT ![r].new = k, ![r].pc = "smoke"]
    /\ UNCHANGED <<service, keyLock, expired, roleVars, call, calls, byHand,
                   file, served, rotatedOut, reh, started, fileVars>>

rotate_lookup(r) ==
    /\ rot[r].pc = "smoke" /\ require_api_key(rot[r].new)
    /\ rot' = [rot EXCEPT ![r].pc = "answer"]
    /\ UNCHANGED <<accessVars, file, served, rotatedOut, reh, started, fileVars>>

\* Mutant: an unexpected answer does not stop the rotation.
rotate_smoke_unchecked(r) ==
    /\ rot[r].pc = "answer"
    /\ rot' = [rot EXCEPT ![r].pc = IF rot[r].revoke THEN "revoke" ELSE "write"]
    /\ UNCHANGED <<accessVars, file, served, rotatedOut, reh, started, fileVars>>

\* run_runtime_smoke raises unless the answer is the expected decision.
rotate_smoke(r) ==
    /\ rot[r].pc = "answer"
    /\ served' = served \cup {rot[r].new}
    /\ rot' = [rot EXCEPT ![r].pc = IF rot[r].revoke THEN "revoke" ELSE "write"]
    /\ UNCHANGED <<accessVars, file, rotatedOut, reh, started, fileVars>>

\* The request waits for the row lock, as every revocation does.
rotate_revoke(r) ==
    LET k == rot[r].old
    IN /\ rot[r].pc = "revoke"
       /\ keyLock[k] = NoOne
       /\ Revoked(k, key[k] = "revoked")
       /\ rotatedOut' = IF key[k] = "revoked" THEN rotatedOut
                        ELSE rotatedOut \cup {k}
       /\ rot' = [rot EXCEPT ![r].pc = "write"]
       /\ UNCHANGED <<service, keyLock, expired, roleVars, call, calls, byHand,
                      file, served, reh, started, fileVars>>

\* _write_secret_state replaces a file by a rename; the report follows.
rotate_write(r, p) ==
    /\ rot[r].pc = "write"
    /\ file' = [file EXCEPT ![p] = rot[r].new]
    /\ rot' = [rot EXCEPT ![r] = Ended]
    /\ UNCHANGED <<accessVars, served, rotatedOut, reh, started, fileVars>>

\* A failed request or smoke, or a kill: the script stops where it is.
rotation_dies(r) ==
    /\ rot[r].pc \notin {"idle", "ended"}
    /\ rot' = [rot EXCEPT ![r] = Ended]
    /\ UNCHANGED <<accessVars, file, served, rotatedOut, reh, started, fileVars>>

RotationNext ==
    \E r \in Rotations :
        \/ \E p \in Paths, revoke \in BOOLEAN : rotate_api_key(r, p, revoke)
        \/ \E k \in Keys : rotate_create(r, k)
        \/ rotate_lookup(r)
        \/ rotate_smoke(r)
        \/ rotate_revoke(r)
        \/ \E p \in Paths : rotate_write(r, p)
        \/ rotation_dies(r)

Next ==
    \/ AccessNext /\ UNCHANGED opsVars
    \/ RehearsalNext
    \/ RotationNext

Spec == OpsInit /\ [][Next]_vars

-----------------------------------------------------------------------------
(* Properties                                                              *)

RehearsalPcs == E2e \cup {"idle", "load", "dify", "baseline", "ops", "finalize",
                          "markdown"}

\* The tables, the state files, the scripts' own variables and the evidence
\* have their types in every state of the handlers and the scripts.
TypeOK ==
    /\ AccessTypeOK
    /\ file \in [Paths -> Keys \cup {NoKey}]
    /\ rot \in [Rotations ->
                   [pc : {"idle", "create", "smoke", "answer", "revoke",
                          "write", "ended"},
                    old : Keys \cup {NoKey}, new : Keys \cup {NoKey},
                    revoke : BOOLEAN]]
    /\ served \subseteq Keys /\ rotatedOut \subseteq Keys
    /\ reh.pc \in RehearsalPcs /\ reh.key \in Keys \cup {NoKey}
    /\ reh.steps \in [StepNames -> Statuses]
    /\ started \in 0 .. MaxScripts
    /\ report.body \in Reports \cup {NoReport}
    /\ {reh.base, against} \subseteq Baselines \cup {NoReport}
    /\ manifest \in [{"json", "md"} -> {"none", "PASS", "FAIL"}]

\* Rotation never cuts a Service off: once a rotation revoked a key, there
\* is a key that answered a smoke and is still active, unless an
\* administrator revoked it; also with several rotations of one key, and
\* with a rotation killed before it wrote its state file, when the new
\* secret can be revealed.
RotationKeepsServing ==
    rotatedOut # {} =>
        \E k \in served : key[k] = "active" \/ k \in byHand

\* What the evidence directory must show.
Accepted(r) ==
    /\ 10 * Cardinality(Passes(r)) >= 7 * Cardinality(DOMAIN r.rows)
    /\ \A c \in Risky(r) : r.rows[c].result = "PASS"

NoRegression(r, b) ==
    \A c \in DOMAIN b.rows :
        /\ c \in DOMAIN r.rows /\ r.rows[c].answer = b.rows[c].answer
        /\ b.rows[c].result = "PASS" => r.rows[c].result = "PASS"

\* A manifest that says PASS was earned, and stays true of the evidence
\* beside it: the threshold report on disk is redacted and meets the gate,
\* it has no regression against the baseline the rehearsal was given, and
\* a key answered; whatever later rehearsals into the same directory do and
\* wherever they are killed.
PassIsEarned ==
    "PASS" \in {manifest["json"], manifest["md"]} =>
        /\ report.body # NoReport /\ report.redacted
        /\ Accepted(report.body)
        /\ against # NoReport => NoRegression(report.body, against)
        /\ served # {}
=============================================================================
