--------------------------- MODULE PilotOpsProofs ---------------------------
(***************************************************************************)
(* Proofs about PilotOps and the API keys it drives, for any number of     *)
(* keys, users, requests in flight, rotations and reports.                 *)
(***************************************************************************)
EXTENDS PilotOps, FiniteSetTheorems, TLAPS

-----------------------------------------------------------------------------
(* The inductive invariant.                                                *)

Rotation == [pc : {"idle", "create", "smoke", "answer", "revoke", "write",
                   "ended"},
             old : Keys \cup {NoKey}, new : Keys \cup {NoKey}, revoke : BOOLEAN]
Rehearsal == [pc : RehearsalPcs, mode : {"local", "closed-network"},
              base : Baselines \cup {NoReport}, key : Keys \cup {NoKey},
              steps : [StepNames -> Statuses]]

\* TypeOK with the scripts' records.
OpsTypes ==
    /\ file \in [Paths -> Keys \cup {NoKey}]
    /\ rot \in [Rotations -> Rotation]
    /\ served \subseteq Keys /\ rotatedOut \subseteq Keys
    /\ reh \in Rehearsal
    /\ started \in 0 .. MaxScripts
    /\ report \in [body : Reports \cup {NoReport}, redacted : BOOLEAN]
    /\ manifest \in [{"json", "md"} -> {"none", "PASS", "FAIL"}]
    /\ against \in Baselines \cup {NoReport}

\* What a handler read under the row lock stays true until it commits.
ReadHolds(c) ==
    /\ call[c].op \in {"revoke", "reveal"} =>
         /\ call[c].key \in Keys /\ keyLock[call[c].key] = c
         /\ key[call[c].key] # "absent"
         /\ call[c].found <=> key[call[c].key] = "revoked"
    /\ call[c].op = "grant" => call[c].role \in Memberships

CallInv == \A c \in Clients : ReadHolds(c)

AccessInv == AccessTypeOK /\ CallInv /\ AuditReplays

\* A key that a file, a script or the history names has been created, and
\* a revoked one was revoked by hand or by a rotation.
KnownInv ==
    /\ \A p \in Paths : file[p] # NoKey => key[file[p]] # "absent"
    /\ \A r \in Rotations : /\ rot[r].old # NoKey => key[rot[r].old] # "absent"
                            /\ rot[r].new # NoKey => key[rot[r].new] # "absent"
    /\ reh.key # NoKey => key[reh.key] # "absent"
    /\ \A k \in served \cup rotatedOut : key[k] # "absent"
    /\ \A k \in Keys : key[k] = "revoked" => k \in byHand \cup rotatedOut

HasNew == {"smoke", "answer", "revoke", "write"}

\* The keys a script has at each of its steps.
ScriptInv ==
    /\ \A r \in Rotations :
         /\ rot[r].pc \in HasNew \cup {"create"} => rot[r].old # NoKey
         /\ rot[r].pc \in HasNew => rot[r].new # NoKey
         /\ rot[r].pc \in {"revoke", "write"} => rot[r].new \in served
    /\ reh.pc \in {"state", "compare", "redact", "smoke", "answer", "dify"} =>
         reh.key # NoKey
    /\ reh.pc \in {"compare", "redact", "smoke", "answer", "load"} =>
         file["state"] # NoKey

\* Nobody but its rotation knows a new key before the state file names it.
PrivateInv ==
    \A r \in Rotations : rot[r].pc \in HasNew =>
        /\ \A p \in Paths : file[p] # rot[r].new
        /\ \A q \in Rotations : /\ rot[q].old # rot[r].new
                                /\ q # r => rot[q].new # rot[r].new
        /\ reh.key # rot[r].new
        /\ rot[r].new \notin rotatedOut

\* A rotation revokes a key only when another one answers.
ServingInv == rotatedOut # {} => \E k \in served : k \notin rotatedOut

\* Only one rehearsal can set the Service up and write the report, and it
\* does so before any manifest says PASS.
Seeding == {"release", "key", "state", "compare", "redact", "smoke", "answer"}

EvidenceInv ==
    /\ service = "none" \/ reh.pc \in Seeding =>
         manifest["json"] # "PASS" /\ manifest["md"] # "PASS"
    /\ reh.pc \in Seeding => service # "none"
    /\ reh.pc \in {"redact", "smoke", "answer"} => report.body # NoReport
    /\ reh.pc \in {"smoke", "answer"} => report.redacted
    /\ reh.steps["pilot-e2e-smoke"] = "pass" =>
         /\ reh.pc \in {"load", "dify", "baseline", "ops", "finalize", "markdown"}
         /\ service # "none" /\ served # {}
         /\ report.body # NoReport /\ report.redacted /\ result_passed(report.body)
    /\ reh.steps["csv-baseline"] = "pass" =>
         /\ reh.pc \in {"ops", "finalize", "markdown"}
         /\ reh.base # NoReport /\ compare_baseline(report.body, reh.base)

KeysInv == KnownInv /\ ScriptInv /\ PrivateInv /\ ServingInv

IInv == AccessInv /\ OpsTypes /\ KeysInv /\ EvidenceInv /\ PassIsEarned

USE DEF keyVars, roleVars, accessVars, fileVars, rotVars, opsVars

-----------------------------------------------------------------------------
(* Values.                                                                 *)

LEMMA IdleType == Idle \in Calls /\ Idle.op = "idle"
  BY DEF Idle, Calls

LEMMA StoppedType ==
    /\ Stopped \in Rehearsal /\ Stopped.pc = "idle" /\ Stopped.key = NoKey
    /\ Stopped.steps \in [StepNames -> {"skip"}] /\ Stopped.base = NoReport
  BY DEF Stopped, Rehearsal, RehearsalPcs, Statuses

LEMMA NoRotationType ==
    /\ NoRotation \in Rotation /\ NoRotation.pc = "idle"
    /\ NoRotation.old = NoKey /\ NoRotation.new = NoKey
    /\ Ended \in Rotation /\ Ended.pc = "ended"
    /\ Ended.old = NoKey /\ Ended.new = NoKey
  <1>1. /\ NoRotation \in Rotation /\ NoRotation.pc = "idle"
        /\ NoRotation.old = NoKey /\ NoRotation.new = NoKey
    BY DEF NoRotation, Rotation
  <1> QED
    BY <1>1 DEF Ended, Rotation

-----------------------------------------------------------------------------
(* The audit rows of one key.                                              *)

Trails == Seq({"created", "revealed", "revoked"})

LEMMA KeyTypes ==
    ASSUME AccessTypeOK
    PROVE  /\ key \in [Keys -> {"absent", "active", "revoked"}]
           /\ trail \in [Keys -> Trails]
           /\ keyLock \in [Keys -> Clients \cup {NoOne}]
           /\ call \in [Clients -> Calls] /\ expired \subseteq Keys /\ byHand \subseteq Keys
  BY DEF AccessTypeOK, Trails

Stories == \A k \in Keys : KeyStory(k)
Balances == \A m \in Memberships :
                granted[m] = dropped[m] + (IF m \in member THEN 1 ELSE 0)

LEMMA AuditParts == AuditReplays <=> Stories /\ Balances
  BY DEF AuditReplays, Stories, Balances

LEMMA CreateTells ==
    ASSUME AccessTypeOK, Stories, NEW k \in Keys, create_api_key(k)
    PROVE  /\ Stories'
           /\ key' \in [Keys -> {"absent", "active", "revoked"}]
           /\ trail' \in [Keys -> Trails]
           /\ key[k] = "absent" /\ key'[k] = "active"
           /\ \A j \in Keys : j # k => key'[j] = key[j]
  <1>1. /\ key[k] = "absent" /\ key' = [key EXCEPT ![k] = "active"]
        /\ trail' = [trail EXCEPT ![k] = <<"created">>]
    BY DEF create_api_key, Fresh
  <1>2. <<"created">> \in Trails
    BY DEF Trails
  <1>3. /\ key'[k] = "active" /\ trail'[k] = <<"created">>
        /\ \A j \in Keys : j # k => key'[j] = key[j] /\ trail'[j] = trail[j]
    BY <1>1, KeyTypes
  <1>4. KeyStory(k)'
    BY <1>3 DEF KeyStory
  <1>5. ASSUME NEW j \in Keys, j # k PROVE KeyStory(j)'
    BY <1>3, <1>5 DEF KeyStory, Stories
  <1>6. Stories'
    BY <1>4, <1>5 DEF Stories
  <1> QED
    BY <1>1, <1>2, <1>3, <1>6, KeyTypes

\* One more row at the end of a key that is active.
LEMMA AppendTells ==
    ASSUME NEW t \in Trails, NEW x \in {"revealed", "revoked"}, t # <<>>,
           \A i \in DOMAIN t : t[i] = "created" <=> i = 1,
           \A i \in DOMAIN t : t[i] # "revoked"
    PROVE  /\ Append(t, x) \in Trails /\ Append(t, x) # <<>>
           /\ Len(Append(t, x)) = Len(t) + 1
           /\ Append(t, x)[Len(t) + 1] = x
           /\ \A i \in DOMAIN Append(t, x) :
                 /\ Append(t, x)[i] = "created" <=> i = 1
                 /\ Append(t, x)[i] = "revoked" => i = Len(t) + 1 /\ x = "revoked"
  BY DEF Trails

LEMMA ActiveTells ==
    ASSUME AccessTypeOK, Stories, NEW k \in Keys, key[k] = "active"
    PROVE  /\ trail[k] \in Trails /\ trail[k] # <<>>
           /\ \A i \in DOMAIN trail[k] : trail[k][i] = "created" <=> i = 1
           /\ \A i \in DOMAIN trail[k] : trail[k][i] # "revoked"
  BY KeyTypes DEF Stories, KeyStory

LEMMA RevokeTells ==
    ASSUME AccessTypeOK, Stories, NEW k \in Keys, NEW found \in BOOLEAN, key[k] # "absent",
           found <=> key[k] = "revoked", Revoked(k, found)
    PROVE  /\ Stories'
           /\ key' \in [Keys -> {"absent", "active", "revoked"}]
           /\ trail' \in [Keys -> Trails]
           /\ key'[k] = "revoked" /\ \A j \in Keys : j # k => key'[j] = key[j]
  <1>1. /\ key' = [key EXCEPT ![k] = "revoked"]
        /\ trail' = IF found THEN trail
                    ELSE [trail EXCEPT ![k] = Append(trail[k], "revoked")]
    BY DEF Revoked
  <1>2. /\ key' \in [Keys -> {"absent", "active", "revoked"}]
        /\ key'[k] = "revoked" /\ \A j \in Keys : j # k => key'[j] = key[j]
    BY <1>1, KeyTypes
  <1>3. CASE found
    <2>1. trail' = trail /\ key' = key
      BY <1>1, <1>3, KeyTypes
    <2>2. Stories'
      BY <2>1 DEF Stories, KeyStory
    <2> QED
      BY <1>2, <2>1, <2>2, KeyTypes
  <1>4. CASE ~ found
    <2> DEFINE t == trail[k]  u == Append(t, "revoked")
    <2>1. trail' = [trail EXCEPT ![k] = u] /\ key[k] = "active"
      BY <1>1, <1>4, KeyTypes
    <2>2. /\ u \in Trails /\ u # <<>> /\ Len(u) = Len(t) + 1
          /\ u[Len(u)] = "revoked"
          /\ \A i \in DOMAIN u : /\ u[i] = "created" <=> i = 1
                                 /\ u[i] = "revoked" => i = Len(u)
      BY <2>1, ActiveTells, AppendTells
    <2> HIDE DEF u
    <2>3. /\ trail'[k] = u /\ \A j \in Keys : j # k => trail'[j] = trail[j]
          /\ trail' \in [Keys -> Trails]
      BY <2>1, <2>2, KeyTypes
    <2>4. KeyStory(k)'
      BY <1>2, <2>2, <2>3 DEF KeyStory
    <2>5. ASSUME NEW j \in Keys, j # k PROVE KeyStory(j)'
      BY <1>2, <2>3, <2>5 DEF KeyStory, Stories
    <2>6. Stories'
      BY <2>4, <2>5 DEF Stories
    <2> QED
      BY <1>2, <2>3, <2>6
  <1> QED
    BY <1>3, <1>4

LEMMA RevealTells ==
    ASSUME AccessTypeOK, Stories, NEW k \in Keys, key[k] = "active", UNCHANGED key,
           trail' = [trail EXCEPT ![k] = Append(trail[k], "revealed")]
    PROVE  Stories' /\ trail' \in [Keys -> Trails]
  <1> DEFINE t == trail[k]  u == Append(t, "revealed")
  <1>1. /\ u \in Trails /\ u # <<>>
        /\ \A i \in DOMAIN u : /\ u[i] = "created" <=> i = 1
                               /\ u[i] # "revoked"
    BY ActiveTells, AppendTells
  <1>2. trail' = [trail EXCEPT ![k] = u]
    OBVIOUS
  <1>0. trail \in [Keys -> Trails]
    BY KeyTypes
  <1> HIDE DEF u, t
  <1>3. /\ trail'[k] = u /\ \A j \in Keys : j # k => trail'[j] = trail[j]
        /\ trail' \in [Keys -> Trails]
    BY <1>0, <1>1, <1>2
  <1>4. KeyStory(k)'
    BY <1>1, <1>3 DEF KeyStory
  <1>5. ASSUME NEW j \in Keys, j # k PROVE KeyStory(j)'
    BY <1>3, <1>5 DEF KeyStory, Stories
  <1> QED
    BY <1>3, <1>4, <1>5 DEF Stories

-----------------------------------------------------------------------------
(* The initial states.                                                     *)

LEMMA InitAccess ==
    ASSUME NEW first \in Keys \cup {NoKey}, Init(first)
    PROVE  AccessInv
  <1>1. AccessTypeOK
    <2>1. <<>> \in Trails /\ <<"created">> \in Trails
      BY DEF Trails
    <2>2. /\ trail \in [Keys -> Trails] /\ key \in [Keys -> {"absent", "active", "revoked"}]
          /\ service \in {"none", "created", "released"}
      BY <2>1 DEF Init
    <2>3. /\ call \in [Clients -> Calls] /\ calls \in 0 .. MaxCalls
          /\ granted \in [Memberships -> Nat] /\ dropped \in [Memberships -> Nat]
      BY IdleType, KeysAssumption DEF Init
    <2> QED
      BY <2>2, <2>3 DEF AccessTypeOK, Trails, Init
  <1>2. CallInv
    BY IdleType DEF Init, CallInv, ReadHolds
  <1>3. Stories
    <2> SUFFICES ASSUME NEW k \in Keys PROVE KeyStory(k)
      BY DEF Stories
    <2>1. CASE k = first
      <3>1. key[k] = "active" /\ trail[k] = <<"created">>
        BY <2>1 DEF Init
      <3> QED
        BY <3>1 DEF KeyStory
    <2>2. CASE k # first
      <3>1. key[k] = "absent" /\ trail[k] = <<>>
        BY <2>2 DEF Init
      <3> QED
        BY <3>1 DEF KeyStory
    <2> QED
      BY <2>1, <2>2
  <1>4. Balances
    BY DEF Init, Balances
  <1> QED
    BY <1>1, <1>2, <1>3, <1>4, AuditParts DEF AccessInv

LEMMA InitInv == OpsInit => IInv
  <1> SUFFICES ASSUME OpsInit PROVE IInv
    OBVIOUS
  <1>1. PICK first \in Keys \cup {NoKey} :
           /\ Init(first)
           /\ file = [p \in Paths |-> IF p = "state" THEN first ELSE NoKey]
    BY DEF OpsInit, Paths
  <1>2. /\ rot = [r \in Rotations |-> NoRotation]
        /\ served = {} /\ rotatedOut = {} /\ reh = Stopped /\ started = 0
        /\ report = [body |-> NoReport, redacted |-> FALSE]
        /\ manifest = [m \in {"json", "md"} |-> "none"] /\ against = NoReport
    BY DEF OpsInit
  <1>3. OpsTypes
    BY <1>1, <1>2, StoppedType, NoRotationType, OpsAssumption DEF OpsTypes
  <1>4. /\ first # NoKey => key[first] = "active"
        /\ \A k \in Keys : key[k] # "revoked"
    BY <1>1 DEF Init
  <1>5. KnownInv
    BY <1>1, <1>2, <1>4, StoppedType, NoRotationType DEF KnownInv, Paths
  <1>6. ScriptInv /\ PrivateInv /\ ServingInv
    BY <1>2, StoppedType, NoRotationType DEF ScriptInv, PrivateInv, ServingInv, HasNew
  <1>7. EvidenceInv /\ PassIsEarned
    BY <1>2, StoppedType DEF EvidenceInv, PassIsEarned, Seeding, StepNames
  <1> QED
    BY <1>1, <1>3, <1>5, <1>6, <1>7, InitAccess DEF IInv, KeysInv

-----------------------------------------------------------------------------
(* What a step leaves as it is.                                            *)

LEMMA AccessSame ==
    ASSUME AccessInv, UNCHANGED accessVars
    PROVE  AccessInv'
  BY DEF AccessInv, AccessTypeOK, CallInv, ReadHolds, AuditReplays, KeyStory

\* The calls in flight whose locked keys a step leaves alone.
LEMMA CallsHold ==
    ASSUME AccessInv, NEW S \in SUBSET Clients,
           \A b \in S : call'[b] = call[b],
           \A k \in Keys : keyLock[k] \in S /\ key[k] # "absent" =>
               keyLock'[k] = keyLock[k] /\ key'[k] = key[k]
    PROVE  \A b \in S : ReadHolds(b)'
  BY DEF AccessInv, CallInv, ReadHolds

\* A handler leaves the scripts, their files and the evidence alone, and
\* takes no key away from them.
LEMMA HandlerKeeps ==
    ASSUME IInv, UNCHANGED opsVars, AccessInv', byHand \subseteq byHand',
           service' = "none" => service = "none",
           \A k \in Keys : /\ key[k] # "absent" => key'[k] # "absent"
                           /\ key'[k] = "revoked" => key[k] = "revoked" \/ k \in byHand'
    PROVE  IInv'
  <1>1. OpsTypes'
    BY DEF IInv, OpsTypes
  <1>2. KnownInv'
    BY DEF IInv, KeysInv, KnownInv, OpsTypes, Rotation, Rehearsal
  <1>3. ScriptInv' /\ PrivateInv' /\ ServingInv'
    BY DEF IInv, KeysInv, ScriptInv, PrivateInv, ServingInv
  <1>4. EvidenceInv'
    BY DEF IInv, EvidenceInv
  <1>5. PassIsEarned'
    BY DEF IInv, PassIsEarned
  <1> QED
    BY <1>1, <1>2, <1>3, <1>4, <1>5 DEF IInv, KeysInv

-----------------------------------------------------------------------------
(* The handlers.                                                           *)

\* A request that leaves the tables alone.
LEMMA RequestKeeps ==
    ASSUME IInv, UNCHANGED opsVars, NEW c \in Clients, NEW x \in Calls,
           call' = [call EXCEPT ![c] = x], ReadHolds(c)',
           UNCHANGED <<service, key, expired, trail, roleVars, byHand>>,
           calls' \in 0 .. MaxCalls, keyLock' \in [Keys -> Clients \cup {NoOne}],
           \A k \in Keys : keyLock[k] \in Clients \ {c} => keyLock'[k] = keyLock[k]
    PROVE  IInv'
  <1>1. AccessInv
    BY DEF IInv
  <1>2. call' \in [Clients -> Calls] /\ \A b \in Clients \ {c} : call'[b] = call[b]
    BY <1>1, KeyTypes DEF AccessInv
  <1>3. AccessTypeOK'
    BY <1>1, <1>2 DEF AccessInv, AccessTypeOK
  <1>4. \A b \in Clients \ {c} : ReadHolds(b)'
    BY <1>1, <1>2, CallsHold
  <1>5. AuditReplays'
    BY <1>1 DEF AccessInv, AuditReplays, KeyStory
  <1>6. AccessInv'
    BY <1>3, <1>4, <1>5 DEF AccessInv, CallInv
  <1> QED
    BY <1>6, HandlerKeeps

LEMMA AuthenticateKeeps ==
    ASSUME IInv, UNCHANGED opsVars, NEW c \in Clients, NEW u \in Users,
           authenticate(c, u)
    PROVE  IInv'
  <1> DEFINE x == [Idle EXCEPT !.op = "authenticated", !.user = u,
                      !.owner = \/ u = Admin
                                \/ <<u, "service_owner">> \in member]
  <1>1. x \in Calls /\ x.op = "authenticated"
    BY IdleType DEF Calls
  <1>2. /\ call' = [call EXCEPT ![c] = x] /\ calls < MaxCalls /\ calls' = calls + 1
        /\ UNCHANGED <<service, keyVars, expired, roleVars, byHand>>
    BY DEF authenticate
  <1> HIDE DEF x
  <1>3. /\ calls' \in 0 .. MaxCalls /\ call \in [Clients -> Calls]
        /\ keyLock' \in [Keys -> Clients \cup {NoOne}]
    BY <1>2, KeysAssumption DEF IInv, AccessInv, AccessTypeOK
  <1>4. ReadHolds(c)'
    BY <1>1, <1>2, <1>3 DEF ReadHolds
  <1> QED
    BY <1>1, <1>2, <1>3, <1>4, RequestKeeps

\* What ending a request does to the calls.
LEMMA DoneTypes ==
    ASSUME AccessInv, NEW c \in Clients, Done(c)
    PROVE  /\ call' = [call EXCEPT ![c] = Idle] /\ call' \in [Clients -> Calls]
           /\ \A b \in Clients \ {c} : call'[b] = call[b]
           /\ ReadHolds(c)'
  <1>1. /\ call' = [call EXCEPT ![c] = Idle] /\ call \in [Clients -> Calls]
        /\ Idle \in Calls /\ Idle.op = "idle"
    BY KeyTypes, IdleType DEF Done, AccessInv
  <1>2. /\ call' \in [Clients -> Calls] /\ call'[c] = Idle
        /\ \A b \in Clients \ {c} : call'[b] = call[b]
    BY <1>1
  <1>3. ReadHolds(c)'
    BY <1>1, <1>2 DEF ReadHolds
  <1> QED
    BY <1>1, <1>2, <1>3

LEMMA AbortKeeps ==
    ASSUME IInv, UNCHANGED opsVars, NEW c \in Clients, abort(c)
    PROVE  IInv'
  <1>1. AccessInv /\ AccessTypeOK
    BY DEF IInv, AccessInv
  <1>2. /\ Done(c)
        /\ keyLock' = [k \in Keys |-> IF keyLock[k] = c THEN NoOne ELSE keyLock[k]]
        /\ UNCHANGED <<calls, service, key, expired, trail, roleVars, byHand>>
    BY DEF abort
  <1>3. /\ keyLock' \in [Keys -> Clients \cup {NoOne}] /\ calls' \in 0 .. MaxCalls
        /\ \A k \in Keys : keyLock[k] \in Clients \ {c} => keyLock'[k] = keyLock[k]
    BY <1>1, <1>2 DEF AccessTypeOK
  <1> QED
    BY <1>1, <1>2, <1>3, DoneTypes, IdleType, RequestKeeps

LEMMA CreateServiceKeeps ==
    ASSUME IInv, UNCHANGED opsVars, NEW c \in Clients, create_service(c)
    PROVE  IInv'
  <1>1. AccessInv /\ AccessTypeOK
    BY DEF IInv, AccessInv
  <1>2. /\ Done(c) /\ service' = "created"
        /\ UNCHANGED <<calls, keyVars, expired, roleVars, byHand>>
    BY DEF create_service
  <1>3. AccessTypeOK'
    BY <1>1, <1>2, DoneTypes DEF AccessTypeOK
  <1>4. \A b \in Clients \ {c} : ReadHolds(b)'
    BY <1>1, <1>2, DoneTypes, CallsHold
  <1>5. AuditReplays'
    BY <1>1, <1>2 DEF AccessInv, AuditReplays, KeyStory
  <1>6. AccessInv'
    BY <1>1, <1>2, <1>3, <1>4, <1>5, DoneTypes DEF AccessInv, CallInv
  <1> QED
    BY <1>2, <1>6, HandlerKeeps

LEMMA CreateKeyKeeps ==
    ASSUME IInv, UNCHANGED opsVars, NEW c \in Clients, NEW k \in Keys,
           create_service_api_key(c, k)
    PROVE  IInv'
  <1>1. AccessInv /\ AccessTypeOK /\ Stories /\ Balances
    BY AuditParts DEF IInv, AccessInv
  <1>2. /\ create_api_key(k) /\ Done(c)
        /\ UNCHANGED <<calls, service, expired, keyLock, roleVars, byHand>>
    BY DEF create_service_api_key
  <1>3. /\ Stories' /\ key' \in [Keys -> {"absent", "active", "revoked"}]
        /\ trail' \in [Keys -> Trails]
        /\ key[k] = "absent" /\ key'[k] = "active"
        /\ \A j \in Keys : j # k => key'[j] = key[j]
    BY <1>1, <1>2, CreateTells
  <1>4. AccessTypeOK'
    BY <1>1, <1>2, <1>3, DoneTypes DEF AccessTypeOK, Trails
  <1>5. \A b \in Clients \ {c} : ReadHolds(b)'
    BY <1>1, <1>2, <1>3, DoneTypes, CallsHold
  <1>6. Balances'
    BY <1>1, <1>2 DEF Balances
  <1>7. AuditReplays'
    BY <1>3, <1>6 DEF Stories, Balances, AuditReplays
  <1>8. AccessInv'
    BY <1>1, <1>2, <1>4, <1>5, <1>7, DoneTypes DEF AccessInv, CallInv
  <1> QED
    BY <1>2, <1>3, <1>8, HandlerKeeps

LEMMA BeginKeyActionKeeps ==
    ASSUME IInv, UNCHANGED opsVars, NEW c \in Clients, NEW k \in Keys,
           NEW op \in {"revoke", "reveal"}, begin_key_action(c, k, op)
    PROVE  IInv'
  <1> DEFINE x == [call[c] EXCEPT !.op = op, !.key = k,
                                  !.found = key[k] = "revoked"]
  <1>1. /\ call \in [Clients -> Calls] /\ keyLock \in [Keys -> Clients \cup {NoOne}]
        /\ calls \in 0 .. MaxCalls
    BY DEF IInv, AccessInv, AccessTypeOK
  <1>2. /\ key[k] # "absent" /\ keyLock[k] = NoOne
        /\ keyLock' = [keyLock EXCEPT ![k] = c]
        /\ call' = [call EXCEPT ![c] = x]
        /\ UNCHANGED <<calls, service, key, expired, trail, roleVars, byHand>>
    BY <1>1 DEF begin_key_action, get_api_key_by_id_for_update
  <1>3. /\ x \in Calls /\ x.op = op /\ x.key = k
        /\ x.found = (key[k] = "revoked")
    <2>1. call[c] \in Calls
      BY <1>1
    <2> QED
      BY <2>1 DEF Calls
  <1> HIDE DEF x
  <1>4. /\ keyLock' \in [Keys -> Clients \cup {NoOne}] /\ keyLock'[k] = c
        /\ \A j \in Keys : keyLock[j] \in Clients \ {c} => keyLock'[j] = keyLock[j]
    BY <1>1, <1>2, KeysAssumption
  <1>5. ReadHolds(c)'
    BY <1>1, <1>2, <1>3, <1>4 DEF ReadHolds
  <1> QED
    BY <1>1, <1>2, <1>3, <1>4, <1>5, RequestKeeps

LEMMA UnlockTypes ==
    ASSUME AccessInv, NEW c \in Clients, NEW k \in Keys, Unlock(c, k)
    PROVE  /\ keyLock' \in [Keys -> Clients \cup {NoOne}]
           /\ \A j \in Keys : keyLock[j] \in Clients \ {c} => keyLock'[j] = keyLock[j]
  <1>1. /\ keyLock \in [Keys -> Clients \cup {NoOne}]
        /\ keyLock' = [keyLock EXCEPT ![k] = IF keyLock[k] = c THEN NoOne ELSE keyLock[k]]
    BY KeyTypes DEF AccessInv, Unlock
  <1> QED
    BY <1>1

\* The handler's read is still true when it commits: nobody revoked the key
\* since, and it has no second audit row.
LEMMA RevokeKeyKeeps ==
    ASSUME IInv, UNCHANGED opsVars, NEW c \in Clients, revoke_service_api_key(c)
    PROVE  IInv'
  <1> DEFINE k == call[c].key  found == call[c].found
  <1>1. AccessInv /\ AccessTypeOK /\ Stories /\ Balances
    BY AuditParts DEF IInv, AccessInv
  <1>2. /\ Revoked(k, found) /\ Done(c) /\ Unlock(c, k)
        /\ byHand' = IF found THEN byHand ELSE byHand \cup {k}
        /\ UNCHANGED <<calls, service, expired, roleVars>> /\ call[c].op = "revoke"
    BY DEF revoke_service_api_key
  <1>3. /\ k \in Keys /\ key[k] # "absent" /\ keyLock[k] = c
        /\ found <=> key[k] = "revoked"
    BY <1>1, <1>2 DEF AccessInv, CallInv, ReadHolds
  <1>4. found \in BOOLEAN
    <2>1. call[c] \in Calls
      BY <1>1 DEF AccessTypeOK
    <2> QED
      BY <2>1 DEF Calls
  <1> HIDE DEF k, found
  <1>5. /\ Stories' /\ key' \in [Keys -> {"absent", "active", "revoked"}]
        /\ trail' \in [Keys -> Trails]
        /\ key'[k] = "revoked" /\ \A j \in Keys : j # k => key'[j] = key[j]
    BY <1>1, <1>2, <1>3, <1>4, RevokeTells
  <1>6. AccessTypeOK'
    BY <1>1, <1>2, <1>3, <1>5, DoneTypes, UnlockTypes DEF AccessTypeOK, Trails
  <1>7. \A b \in Clients \ {c} : ReadHolds(b)'
    <2>1. /\ \A b \in Clients \ {c} : call'[b] = call[b]
          /\ \A j \in Keys : keyLock[j] \in Clients \ {c} => keyLock'[j] = keyLock[j]
      BY <1>1, <1>2, <1>3, DoneTypes, UnlockTypes
    <2>2. \A j \in Keys : keyLock[j] \in Clients \ {c} => key'[j] = key[j]
      BY <1>3, <1>5
    <2> QED
      BY <1>1, <2>1, <2>2, CallsHold
  <1>8. Balances'
    BY <1>1, <1>2 DEF Balances
  <1>9. AuditReplays'
    BY <1>5, <1>8 DEF Stories, Balances, AuditReplays
  <1>10. AccessInv'
    BY <1>1, <1>2, <1>6, <1>7, <1>9, DoneTypes DEF AccessInv, CallInv
  <1>11. \A j \in Keys : /\ key[j] # "absent" => key'[j] # "absent"
                         /\ key'[j] = "revoked" => key[j] = "revoked" \/ j \in byHand'
    BY <1>2, <1>3, <1>5
  <1> QED
    BY <1>2, <1>10, <1>11, HandlerKeeps

LEMMA RevealKeyKeeps ==
    ASSUME IInv, UNCHANGED opsVars, NEW c \in Clients, reveal_service_api_key(c)
    PROVE  IInv'
  <1> DEFINE k == call[c].key
  <1>1. AccessInv /\ AccessTypeOK /\ Stories /\ Balances
    BY AuditParts DEF IInv, AccessInv
  <1>2. /\ trail' = [trail EXCEPT ![k] = Append(trail[k], "revealed")]
        /\ Done(c) /\ Unlock(c, k) /\ call[c].op = "reveal" /\ ~ call[c].found
        /\ UNCHANGED <<calls, service, key, expired, roleVars, byHand>>
    BY DEF reveal_service_api_key
  <1>3. k \in Keys /\ key[k] # "absent" /\ key[k] # "revoked"
    BY <1>1, <1>2 DEF AccessInv, CallInv, ReadHolds
  <1>4. key[k] = "active"
    BY <1>1, <1>3 DEF AccessTypeOK
  <1> HIDE DEF k
  <1>5. Stories' /\ trail' \in [Keys -> Trails]
    BY <1>1, <1>2, <1>3, <1>4, RevealTells
  <1>6. AccessTypeOK'
    BY <1>1, <1>2, <1>3, <1>5, DoneTypes, UnlockTypes DEF AccessTypeOK, Trails
  <1>7. \A b \in Clients \ {c} : ReadHolds(b)'
    <2>1. /\ \A b \in Clients \ {c} : call'[b] = call[b]
          /\ \A j \in Keys : keyLock[j] \in Clients \ {c} => keyLock'[j] = keyLock[j]
      BY <1>1, <1>2, <1>3, DoneTypes, UnlockTypes
    <2> QED
      BY <1>1, <1>2, <2>1, CallsHold
  <1>8. Balances'
    BY <1>1, <1>2 DEF Balances
  <1>9. AuditReplays'
    BY <1>5, <1>8 DEF Stories, Balances, AuditReplays
  <1>10. AccessInv'
    BY <1>1, <1>2, <1>6, <1>7, <1>9, DoneTypes DEF AccessInv, CallInv
  <1> QED
    BY <1>2, <1>10, HandlerKeeps

LEMMA ExpireKeeps ==
    ASSUME IInv, UNCHANGED opsVars, NEW k \in Keys, expire(k)
    PROVE  IInv'
  <1>1. /\ AccessInv /\ calls < MaxCalls /\ calls' = calls + 1
        /\ expired' = expired \cup {k}
        /\ UNCHANGED <<service, keyVars, roleVars, call, byHand>>
    BY DEF IInv, expire
  <1>2. AccessTypeOK'
    BY <1>1, KeysAssumption DEF AccessInv, AccessTypeOK
  <1>3. CallInv' /\ AuditReplays'
    BY <1>1 DEF AccessInv, CallInv, ReadHolds, AuditReplays, KeyStory
  <1> QED
    BY <1>1, <1>2, <1>3, HandlerKeeps DEF AccessInv

LEMMA BeginGrantKeeps ==
    ASSUME IInv, UNCHANGED opsVars, NEW c \in Clients, NEW m \in Memberships,
           begin_grant_service_member_role(c, m)
    PROVE  IInv'
  <1> DEFINE found == m \in member
             x == [call[c] EXCEPT !.op = "grant", !.role = m, !.found = found]
  <1>1. /\ call \in [Clients -> Calls] /\ keyLock \in [Keys -> Clients \cup {NoOne}]
        /\ calls \in 0 .. MaxCalls
    BY DEF IInv, AccessInv, AccessTypeOK
  <1>2. /\ call' = [call EXCEPT ![c] = x]
        /\ UNCHANGED <<calls, service, keyVars, expired, roleVars, byHand>>
    BY <1>1 DEF begin_grant_service_member_role
  <1>3. x \in Calls /\ x.op = "grant" /\ x.role = m
    <2>1. call[c] \in Calls /\ found \in BOOLEAN
      BY <1>1
    <2> HIDE DEF found
    <2> QED
      BY <2>1 DEF Calls
  <1> HIDE DEF x
  <1>4. ReadHolds(c)'
    BY <1>1, <1>2, <1>3 DEF ReadHolds
  <1> QED
    BY <1>1, <1>2, <1>3, <1>4, RequestKeeps

\* The INSERT, not the earlier read, decides whether the grant is logged.
LEMMA GrantKeeps ==
    ASSUME IInv, UNCHANGED opsVars, NEW c \in Clients, grant_service_member_role(c)
    PROVE  IInv'
  <1>1. AccessInv /\ AccessTypeOK /\ Stories /\ Balances
    BY AuditParts DEF IInv, AccessInv
  <1>2. /\ Done(c) /\ call[c].op = "grant" /\ member' = member \cup Created(c)
        /\ granted' = [m \in Memberships |->
                          IF m \in Created(c) THEN granted[m] + 1 ELSE granted[m]]
        /\ UNCHANGED <<calls, service, keyVars, expired, dropped, byHand>>
    BY DEF grant_service_member_role
  <1>3. Created(c) \subseteq Memberships /\ \A m \in Created(c) : m \notin member
    BY <1>1, <1>2 DEF AccessInv, CallInv, ReadHolds, Created
  <1>4. granted' \in [Memberships -> Nat] /\ member' \subseteq Memberships
    BY <1>1, <1>2, <1>3 DEF AccessTypeOK
  <1>5. AccessTypeOK'
    BY <1>1, <1>2, <1>4, DoneTypes DEF AccessTypeOK
  <1>6. \A b \in Clients \ {c} : ReadHolds(b)'
    BY <1>1, <1>2, DoneTypes, CallsHold
  <1>7. Balances'
    <2> SUFFICES ASSUME NEW m \in Memberships
                 PROVE  granted'[m] = dropped'[m] + (IF m \in member' THEN 1 ELSE 0)
      BY DEF Balances
    <2>1. granted[m] = dropped[m] + (IF m \in member THEN 1 ELSE 0)
      BY <1>1 DEF Balances
    <2>2. granted[m] \in Nat /\ dropped[m] \in Nat /\ dropped'[m] = dropped[m]
      BY <1>1, <1>2 DEF AccessTypeOK
    <2> QED
      BY <1>2, <1>3, <2>1, <2>2
  <1>8. Stories'
    BY <1>1, <1>2 DEF Stories, KeyStory
  <1>9. AuditReplays'
    BY <1>7, <1>8 DEF Stories, Balances, AuditReplays
  <1>10. AccessInv'
    BY <1>1, <1>2, <1>5, <1>6, <1>9, DoneTypes DEF AccessInv, CallInv
  <1> QED
    BY <1>2, <1>10, HandlerKeeps

LEMMA RevokeRoleKeeps ==
    ASSUME IInv, UNCHANGED opsVars, NEW c \in Clients, NEW n \in Memberships,
           revoke_service_member_role(c, n)
    PROVE  IInv'
  <1>1. AccessInv /\ AccessTypeOK /\ Stories /\ Balances
    BY AuditParts DEF IInv, AccessInv
  <1>2. /\ Done(c) /\ n \in member /\ member' = member \ {n}
        /\ dropped' = [dropped EXCEPT ![n] = dropped[n] + 1]
        /\ UNCHANGED <<calls, service, keyVars, expired, granted, byHand>>
    BY DEF revoke_service_member_role
  <1>3. dropped' \in [Memberships -> Nat]
    BY <1>1, <1>2 DEF AccessTypeOK
  <1>4. AccessTypeOK'
    BY <1>1, <1>2, <1>3, DoneTypes DEF AccessTypeOK
  <1>5. \A b \in Clients \ {c} : ReadHolds(b)'
    BY <1>1, <1>2, DoneTypes, CallsHold
  <1>6. Balances'
    <2> SUFFICES ASSUME NEW m \in Memberships
                 PROVE  granted'[m] = dropped'[m] + (IF m \in member' THEN 1 ELSE 0)
      BY DEF Balances
    <2>1. granted[m] = dropped[m] + (IF m \in member THEN 1 ELSE 0)
      BY <1>1 DEF Balances
    <2>2. granted[m] \in Nat /\ dropped[m] \in Nat /\ dropped \in [Memberships -> Nat]
      BY <1>1 DEF AccessTypeOK
    <2> QED
      BY <1>2, <2>1, <2>2
  <1>7. Stories'
    BY <1>1, <1>2 DEF Stories, KeyStory
  <1>8. AuditReplays'
    BY <1>6, <1>7 DEF Stories, Balances, AuditReplays
  <1>9. AccessInv'
    BY <1>1, <1>2, <1>4, <1>5, <1>8, DoneTypes DEF AccessInv, CallInv
  <1> QED
    BY <1>2, <1>9, HandlerKeeps

LEMMA AccessKeeps ==
    ASSUME IInv, UNCHANGED opsVars, AccessNext
    PROVE  IInv'
  <1>1. ASSUME NEW c \in Clients, NEW u \in Users, authenticate(c, u) PROVE IInv'
    BY <1>1, AuthenticateKeeps
  <1>2. ASSUME NEW c \in Clients, abort(c) PROVE IInv'
    BY <1>2, AbortKeeps
  <1>3. ASSUME NEW c \in Clients, create_service(c) PROVE IInv'
    BY <1>3, CreateServiceKeeps
  <1>4. ASSUME NEW c \in Clients, NEW k \in Keys, create_service_api_key(c, k)
        PROVE  IInv'
    BY <1>4, CreateKeyKeeps
  <1>5. ASSUME NEW c \in Clients, NEW k \in Keys, NEW op \in {"revoke", "reveal"},
               begin_key_action(c, k, op)
        PROVE  IInv'
    BY <1>5, BeginKeyActionKeeps
  <1>6. ASSUME NEW c \in Clients, revoke_service_api_key(c) PROVE IInv'
    BY <1>6, RevokeKeyKeeps
  <1>7. ASSUME NEW c \in Clients, reveal_service_api_key(c) PROVE IInv'
    BY <1>7, RevealKeyKeeps
  <1>8. ASSUME NEW c \in Clients, NEW m \in Memberships,
               begin_grant_service_member_role(c, m)
        PROVE  IInv'
    BY <1>8, BeginGrantKeeps
  <1>9. ASSUME NEW c \in Clients, grant_service_member_role(c) PROVE IInv'
    BY <1>9, GrantKeeps
  <1>10. ASSUME NEW c \in Clients, NEW m \in Memberships,
                revoke_service_member_role(c, m)
         PROVE  IInv'
    BY <1>10, RevokeRoleKeeps
  <1>11. ASSUME NEW k \in Keys, expire(k) PROVE IInv'
    BY <1>11, ExpireKeeps
  <1> QED
    BY <1>1, <1>2, <1>3, <1>4, <1>5, <1>6, <1>7, <1>8, <1>9, <1>10, <1>11 DEF AccessNext

-----------------------------------------------------------------------------
(* The rehearsal: its record, and the steps that only move it on.          *)

LEMMA RehearsalFields ==
    ASSUME OpsTypes
    PROVE  /\ reh \in Rehearsal /\ reh.pc \in RehearsalPcs
           /\ reh.base \in Baselines \cup {NoReport} /\ reh.key \in Keys \cup {NoKey}
           /\ reh.steps \in [StepNames -> Statuses]
           /\ reh.mode \in {"local", "closed-network"}
  BY DEF OpsTypes, Rehearsal

LEMMA GotoTypes ==
    ASSUME OpsTypes, NEW pc \in RehearsalPcs, Goto(pc)
    PROVE  /\ reh' \in Rehearsal /\ reh'.pc = pc /\ reh'.base = reh.base
           /\ reh'.key = reh.key /\ reh'.steps = reh.steps /\ reh'.mode = reh.mode
  <1>1. reh \in Rehearsal /\ reh' = [reh EXCEPT !.pc = pc]
    BY RehearsalFields DEF Goto
  <1> QED
    BY <1>1 DEF Rehearsal

LEMMA RecordTypes ==
    ASSUME OpsTypes, NEW n \in StepNames, NEW s \in Statuses, NEW pc \in RehearsalPcs,
           Record(n, s, pc)
    PROVE  /\ reh' \in Rehearsal /\ reh'.pc = pc /\ reh'.base = reh.base
           /\ reh'.key = reh.key /\ reh'.mode = reh.mode
           /\ reh'.steps[n] = s
           /\ \A m \in StepNames : m # n => reh'.steps[m] = reh.steps[m]
  <1>1. reh \in Rehearsal /\ reh.steps \in [StepNames -> Statuses]
    BY RehearsalFields
  <1> DEFINE f == [reh.steps EXCEPT ![n] = s]
  <1>2. reh' = [reh EXCEPT !.steps = f, !.pc = pc]
    BY <1>1 DEF Record
  <1>3. /\ f \in [StepNames -> Statuses] /\ f[n] = s
        /\ \A m \in StepNames : m # n => f[m] = reh.steps[m]
    BY <1>1
  <1> HIDE DEF f
  <1> QED
    BY <1>1, <1>2, <1>3 DEF Rehearsal

HoldsKey == {"state", "compare", "redact", "smoke", "answer", "dify"}
HasState == {"compare", "redact", "smoke", "answer", "load"}
Late == {"load", "dify", "baseline", "ops", "finalize", "markdown"}

\* The rehearsal learns no key but the one of the state file, and puts only
\* its own into it.
LEMMA KeysFrame ==
    ASSUME IInv, OpsTypes', UNCHANGED <<key, byHand, rot, rotatedOut>>,
           \A p \in Paths : file'[p] \in {file[p], reh.key},
           served \subseteq served', served' \subseteq served \cup {reh.key},
           reh'.key \in {reh.key, file["state"], NoKey},
           reh'.pc \in HoldsKey => reh'.key # NoKey,
           reh'.pc \in HasState => file'["state"] # NoKey
    PROVE  KeysInv'
  <1>1. \A k \in served' : k \in Keys
    BY DEF OpsTypes
  <1>2. KnownInv'
    BY <1>1, KeysAssumption DEF IInv, KeysInv, KnownInv, Paths
  <1>3. ScriptInv'
    BY DEF IInv, KeysInv, ScriptInv, HoldsKey, HasState
  <1>4. PrivateInv'
    <2> SUFFICES ASSUME NEW r \in Rotations, rot[r].pc \in HasNew
                 PROVE  /\ \A p \in Paths : file'[p] # rot[r].new
                        /\ reh'.key # rot[r].new
      BY DEF IInv, KeysInv, PrivateInv
    <2>1. /\ \A p \in Paths : file[p] # rot[r].new
          /\ reh.key # rot[r].new /\ rot[r].new # NoKey
      BY DEF IInv, KeysInv, PrivateInv, ScriptInv
    <2> QED
      BY <2>1 DEF Paths
  <1>5. ServingInv'
    BY DEF IInv, KeysInv, ServingInv
  <1> QED
    BY <1>2, <1>3, <1>4, <1>5 DEF KeysInv

\* A step that neither touches the evidence nor passes a step it rests on.
LEMMA EvidenceFrame ==
    ASSUME IInv, UNCHANGED <<report, manifest, against>>, served \subseteq served',
           service' = "none" => service = "none",
           reh'.pc \in Seeding => reh.pc \in Seeding /\ service' # "none",
           reh'.pc \in {"redact", "smoke", "answer"} =>
               reh.pc \in {"redact", "smoke", "answer"},
           reh'.pc \in {"smoke", "answer"} => reh.pc \in {"smoke", "answer"},
           reh'.steps["pilot-e2e-smoke"] = "pass" =>
               reh.steps["pilot-e2e-smoke"] = "pass" /\ reh'.pc \in Late,
           reh'.steps["csv-baseline"] = "pass" =>
               /\ reh.steps["csv-baseline"] = "pass" /\ reh'.base = reh.base
               /\ reh'.pc \in {"ops", "finalize", "markdown"}
    PROVE  EvidenceInv' /\ PassIsEarned'
  <1>1. PassIsEarned'
    BY DEF IInv, PassIsEarned
  <1>2. (service = "none" \/ reh.pc \in Seeding)' =>
           manifest'["json"] # "PASS" /\ manifest'["md"] # "PASS"
    BY DEF IInv, EvidenceInv
  <1>3. /\ (reh.pc \in Seeding)' => service' # "none"
        /\ (reh.pc \in {"redact", "smoke", "answer"})' => report'.body # NoReport
        /\ (reh.pc \in {"smoke", "answer"})' => report'.redacted
    BY DEF IInv, EvidenceInv
  <1>4. reh'.steps["pilot-e2e-smoke"] = "pass" =>
           /\ reh'.pc \in Late /\ service' # "none" /\ served' # {}
           /\ report'.body # NoReport /\ report'.redacted /\ result_passed(report'.body)
    BY DEF IInv, EvidenceInv
  <1>5. reh'.steps["csv-baseline"] = "pass" =>
           /\ reh'.pc \in {"ops", "finalize", "markdown"}
           /\ reh'.base # NoReport /\ compare_baseline(report'.body, reh'.base)
    BY DEF IInv, EvidenceInv
  <1> QED
    BY <1>1, <1>2, <1>3, <1>4, <1>5 DEF EvidenceInv, Late

LEMMA RunRehearsalKeeps ==
    ASSUME IInv, NEW o \in Options, run_pilot_rehearsal(o)
    PROVE  IInv'
  <1> DEFINE base == IF o.frozen = NoReport THEN NoReport ELSE freeze_baseline(o.frozen)
             f == [Stopped.steps EXCEPT !["bge-package"] = o.bge[1],
                                        !["bge-benchmark"] = o.bge[2]]
  <1>1. o.frozen \in Reports \cup {NoReport} /\ o.bge \in Statuses \X Statuses
        /\ o.mode \in {"local", "closed-network"}
    BY OpsAssumption
  <1>2. base \in Baselines \cup {NoReport}
    BY <1>1 DEF Baselines
  <1>3. /\ f \in [StepNames -> Statuses] /\ f["pilot-e2e-smoke"] = "skip"
        /\ f["csv-baseline"] = "skip"
    BY <1>1, StoppedType DEF StepNames, Statuses
  <1>4. reh' = [Stopped EXCEPT !.pc = "service", !.mode = o.mode, !.base = base,
                               !.steps = f]
    BY DEF run_pilot_rehearsal, Stopped
  <1>5. /\ started < MaxScripts /\ started' = started + 1
        /\ UNCHANGED <<accessVars, file, rotVars, fileVars>>
    BY DEF run_pilot_rehearsal
  <1> HIDE DEF base, f
  <1>6. /\ reh' \in Rehearsal /\ reh'.pc = "service" /\ reh'.key = NoKey
        /\ reh'.steps = f
    <2>1. "service" \in RehearsalPcs
      BY DEF RehearsalPcs, E2e
    <2> QED
      BY <1>1, <1>2, <1>3, <1>4, <2>1, StoppedType DEF Rehearsal
  <1>7. OpsTypes'
    BY <1>5, <1>6, OpsAssumption DEF IInv, OpsTypes
  <1>8. KeysInv'
    BY <1>5, <1>6, <1>7, KeysFrame DEF HoldsKey, HasState
  <1>9. EvidenceInv' /\ PassIsEarned'
    BY <1>3, <1>5, <1>6, EvidenceFrame DEF Seeding
  <1> QED
    BY <1>5, <1>7, <1>8, <1>9, AccessSame DEF IInv

LEMMA WriteStateKeeps ==
    ASSUME IInv, write_state
    PROVE  IInv'
  <1>1. /\ reh.pc = "state" /\ file' = [file EXCEPT !["state"] = reh.key]
        /\ Goto("compare") /\ OpsTypes /\ "compare" \in RehearsalPcs
        /\ UNCHANGED <<accessVars, rotVars, started, fileVars>>
    BY DEF write_state, IInv, RehearsalPcs, E2e
  <1>2. /\ reh' \in Rehearsal /\ reh'.pc = "compare" /\ reh'.base = reh.base
        /\ reh'.key = reh.key /\ reh'.steps = reh.steps
    BY <1>1, GotoTypes
  <1>3. file' \in [Paths -> Keys \cup {NoKey}] /\ file'["state"] = reh.key
        /\ \A p \in Paths : file'[p] \in {file[p], reh.key}
    BY <1>1, RehearsalFields DEF OpsTypes, Paths
  <1>4. OpsTypes'
    BY <1>1, <1>2, <1>3 DEF OpsTypes
  <1>5. reh.key # NoKey
    BY <1>1 DEF IInv, KeysInv, ScriptInv
  <1>6. KeysInv'
    BY <1>1, <1>2, <1>3, <1>4, <1>5, KeysFrame
  <1>7. EvidenceInv' /\ PassIsEarned'
    <2>1. /\ reh.steps["pilot-e2e-smoke"] # "pass" /\ reh.steps["csv-baseline"] # "pass"
          /\ service # "none"
      BY <1>1 DEF IInv, EvidenceInv, Seeding
    <2> QED
      BY <1>1, <1>2, <2>1, EvidenceFrame DEF Seeding
  <1> QED
    BY <1>1, <1>4, <1>6, <1>7, AccessSame DEF IInv

\* A step of the rehearsal that changes no table and no file.
LEMMA QuietKeeps ==
    ASSUME IInv, UNCHANGED <<accessVars, file, rot, rotatedOut, started, fileVars>>,
           reh' \in Rehearsal,
           reh.pc # "idle", reh'.pc \notin {"service", "release", "key"},
           served \subseteq served', served' \subseteq Keys,
           served' \subseteq served \cup {reh.key},
           reh'.key \in {reh.key, file["state"], NoKey},
           reh'.pc \in HoldsKey => reh'.key # NoKey,
           reh'.pc \in HasState => file["state"] # NoKey,
           reh'.pc \in Seeding => reh.pc = "smoke" /\ reh'.pc = "answer",
           reh'.steps["pilot-e2e-smoke"] = "pass" =>
               reh.steps["pilot-e2e-smoke"] = "pass" /\ reh'.pc \in Late,
           reh'.steps["csv-baseline"] = "pass" =>
               /\ reh.steps["csv-baseline"] = "pass" /\ reh'.base = reh.base
               /\ reh'.pc \in {"ops", "finalize", "markdown"}
    PROVE  IInv'
  <1>1. OpsTypes'
    BY DEF IInv, OpsTypes
  <1>2. KeysInv'
    BY <1>1, KeysFrame DEF Paths
  <1>3. EvidenceInv' /\ PassIsEarned'
    <2>1. reh.pc \in Seeding => service # "none"
      BY DEF IInv, EvidenceInv
    <2> QED
      BY <2>1, EvidenceFrame DEF Seeding
  <1> QED
    BY <1>1, <1>2, <1>3, AccessSame DEF IInv

LEMMA SmokeLookupKeeps ==
    ASSUME IInv, smoke_lookup
    PROVE  IInv'
  <1>1. /\ reh.pc = "smoke" /\ Goto("answer") /\ OpsTypes /\ "answer" \in RehearsalPcs
        /\ UNCHANGED <<accessVars, file, rotVars, started, fileVars>>
    BY DEF smoke_lookup, IInv, RehearsalPcs, E2e
  <1>2. /\ reh' \in Rehearsal /\ reh'.pc = "answer" /\ reh'.base = reh.base
        /\ reh'.key = reh.key /\ reh'.steps = reh.steps
    BY <1>1, GotoTypes
  <1>3. reh.key # NoKey /\ file["state"] # NoKey /\ served \subseteq Keys
    BY <1>1 DEF IInv, KeysInv, ScriptInv, OpsTypes
  <1>4. reh.steps["pilot-e2e-smoke"] # "pass" /\ reh.steps["csv-baseline"] # "pass"
    BY <1>1 DEF IInv, EvidenceInv
  <1> QED
    BY <1>1, <1>2, <1>3, <1>4, QuietKeeps

LEMMA FailE2eKeeps ==
    ASSUME IInv, fail_e2e
    PROVE  IInv'
  <1>1. /\ reh.pc \in E2e /\ Record("pilot-e2e-smoke", "fail", "finalize") /\ OpsTypes
        /\ "finalize" \in RehearsalPcs /\ "pilot-e2e-smoke" \in StepNames
        /\ "csv-baseline" \in StepNames /\ "fail" \in Statuses
        /\ UNCHANGED <<accessVars, file, rotVars, started, fileVars>>
    BY DEF fail_e2e, IInv, RehearsalPcs, StepNames, Statuses
  <1>2. /\ reh' \in Rehearsal /\ reh'.pc = "finalize" /\ reh'.base = reh.base
        /\ reh'.key = reh.key /\ reh'.steps["pilot-e2e-smoke"] = "fail"
        /\ reh'.steps["csv-baseline"] = reh.steps["csv-baseline"]
    BY <1>1, RecordTypes
  <1>3. served \subseteq Keys /\ reh.pc # "idle"
    BY <1>1 DEF OpsTypes, E2e
  <1> QED
    BY <1>1, <1>2, <1>3, QuietKeeps DEF HoldsKey, HasState, Seeding

LEMMA LoadStateKeeps ==
    ASSUME IInv, load_state
    PROVE  IInv'
  <1>1. /\ reh.pc = "load" /\ OpsTypes
        /\ reh' = [reh EXCEPT !.key = file["state"], !.pc = "dify"]
        /\ UNCHANGED <<accessVars, file, rotVars, started, fileVars>>
    BY DEF load_state, IInv
  <1>2. file["state"] \in Keys \cup {NoKey} /\ "dify" \in RehearsalPcs
        /\ served \subseteq Keys
    BY <1>1 DEF OpsTypes, RehearsalPcs, Paths
  <1>3. /\ reh' \in Rehearsal /\ reh'.pc = "dify" /\ reh'.base = reh.base
        /\ reh'.key = file["state"] /\ reh'.steps = reh.steps
    BY <1>1, <1>2, RehearsalFields DEF Rehearsal
  <1>4. file["state"] # NoKey
    BY <1>1 DEF IInv, KeysInv, ScriptInv
  <1>5. reh.steps["csv-baseline"] # "pass"
    BY <1>1 DEF IInv, EvidenceInv
  <1> QED
    BY <1>1, <1>2, <1>3, <1>4, <1>5, QuietKeeps DEF HasState, Seeding, Late

LEMMA DifyKeeps ==
    ASSUME IInv, run_dify_smoke_matrix \/ fail_dify_matrix
    PROVE  IInv'
  <1>1. OpsTypes /\ "baseline" \in RehearsalPcs /\ {"pass", "fail"} \subseteq Statuses
        /\ {"dify-smoke-matrix", "pilot-e2e-smoke", "csv-baseline"} \subseteq StepNames
    BY DEF IInv, RehearsalPcs, StepNames, Statuses
  <1>2. PICK s \in {"pass", "fail"} : Record("dify-smoke-matrix", s, "baseline")
    BY DEF run_dify_smoke_matrix, fail_dify_matrix
  <1>3. /\ reh.pc \in {"load", "dify"}
        /\ UNCHANGED <<accessVars, file, rot, rotatedOut, started, fileVars>>
        /\ served \subseteq served' /\ served' \subseteq served \cup {reh.key}
        /\ reh.pc # "dify" => served' = served
    BY DEF run_dify_smoke_matrix, fail_dify_matrix
  <1>4. /\ reh' \in Rehearsal /\ reh'.pc = "baseline" /\ reh'.base = reh.base
        /\ reh'.key = reh.key
        /\ reh'.steps["pilot-e2e-smoke"] = reh.steps["pilot-e2e-smoke"]
        /\ reh'.steps["csv-baseline"] = reh.steps["csv-baseline"]
    BY <1>1, <1>2, RecordTypes
  <1>5. reh.steps["csv-baseline"] # "pass" /\ served' \subseteq Keys
    BY <1>1, <1>3, RehearsalFields DEF IInv, EvidenceInv, KeysInv, ScriptInv, OpsTypes
  <1> QED
    BY <1>3, <1>4, <1>5, QuietKeeps DEF HoldsKey, HasState, Seeding, Late

LEMMA ExportKeeps ==
    ASSUME IInv, NEW s \in {"pass", "fail"}, run_ops_evidence_export(s)
    PROVE  IInv'
  <1>1. /\ OpsTypes /\ "finalize" \in RehearsalPcs /\ s \in Statuses
        /\ {"ops-evidence-export", "pilot-e2e-smoke", "csv-baseline"} \subseteq StepNames
        /\ reh.pc = "ops" /\ Record("ops-evidence-export", s, "finalize")
        /\ UNCHANGED <<accessVars, file, rotVars, started, fileVars>>
    BY DEF IInv, RehearsalPcs, StepNames, Statuses, run_ops_evidence_export
  <1>2. /\ reh' \in Rehearsal /\ reh'.pc = "finalize" /\ reh'.base = reh.base
        /\ reh'.key = reh.key
        /\ reh'.steps["pilot-e2e-smoke"] = reh.steps["pilot-e2e-smoke"]
        /\ reh'.steps["csv-baseline"] = reh.steps["csv-baseline"]
    BY <1>1, RecordTypes
  <1>3. served \subseteq Keys
    BY <1>1 DEF OpsTypes
  <1> QED
    BY <1>1, <1>2, <1>3, QuietKeeps DEF HoldsKey, HasState, Seeding, Late

LEMMA RehearsalDiesKeeps ==
    ASSUME IInv, rehearsal_dies
    PROVE  IInv'
  <1>1. /\ reh.pc # "idle" /\ reh' = Stopped /\ served \subseteq Keys
        /\ UNCHANGED <<accessVars, file, rotVars, started, fileVars>>
    BY DEF rehearsal_dies, IInv, OpsTypes
  <1>2. /\ reh'.steps["pilot-e2e-smoke"] = "skip" /\ reh'.steps["csv-baseline"] = "skip"
        /\ reh' \in Rehearsal /\ reh'.pc = "idle" /\ reh'.key = NoKey
    BY <1>1, StoppedType DEF StepNames
  <1> QED
    BY <1>1, <1>2, QuietKeeps DEF HoldsKey, HasState, Seeding

-----------------------------------------------------------------------------
(* The rehearsal: setting the Service up.                                  *)

LEMMA AccessService ==
    ASSUME AccessInv, service' \in {"created", "released"},
           UNCHANGED <<keyVars, expired, roleVars, call, calls, byHand>>
    PROVE  AccessInv'
  BY DEF AccessInv, AccessTypeOK, CallInv, ReadHolds, AuditReplays, KeyStory

\* A new Service has no evidence that says PASS.
LEMMA SeedServiceKeeps ==
    ASSUME IInv, seed_service
    PROVE  IInv'
  <1>1. /\ reh.pc = "service" /\ service = "none" /\ service' = "created"
        /\ Goto("release") /\ OpsTypes /\ "release" \in RehearsalPcs
        /\ UNCHANGED <<keyVars, expired, roleVars, call, calls, byHand, file,
                       rotVars, started, fileVars>>
    BY DEF seed_service, IInv, RehearsalPcs, E2e
  <1>2. /\ reh' \in Rehearsal /\ reh'.pc = "release" /\ reh'.base = reh.base
        /\ reh'.key = reh.key /\ reh'.steps = reh.steps
    BY <1>1, GotoTypes
  <1>3. OpsTypes'
    BY <1>1, <1>2 DEF OpsTypes
  <1>4. KeysInv'
    BY <1>1, <1>2, <1>3, KeysFrame DEF HoldsKey, HasState
  <1>5. /\ manifest["json"] # "PASS" /\ manifest["md"] # "PASS"
        /\ reh.steps["pilot-e2e-smoke"] # "pass" /\ reh.steps["csv-baseline"] # "pass"
    BY <1>1 DEF IInv, EvidenceInv
  <1>6. EvidenceInv'
    BY <1>1, <1>2, <1>5 DEF EvidenceInv
  <1>7. PassIsEarned'
    BY <1>1, <1>5 DEF PassIsEarned
  <1> QED
    BY <1>1, <1>3, <1>4, <1>6, <1>7, AccessService DEF IInv

LEMMA SeedReleaseKeeps ==
    ASSUME IInv, seed_release
    PROVE  IInv'
  <1>1. /\ reh.pc = "release" /\ service' = "released"
        /\ Goto("key") /\ OpsTypes /\ "key" \in RehearsalPcs
        /\ UNCHANGED <<keyVars, expired, roleVars, call, calls, byHand, file,
                       rotVars, started, fileVars>>
    BY DEF seed_release, IInv, RehearsalPcs, E2e
  <1>2. /\ reh' \in Rehearsal /\ reh'.pc = "key" /\ reh'.base = reh.base
        /\ reh'.key = reh.key /\ reh'.steps = reh.steps
    BY <1>1, GotoTypes
  <1>3. OpsTypes'
    BY <1>1, <1>2 DEF OpsTypes
  <1>4. KeysInv'
    BY <1>1, <1>2, <1>3, KeysFrame DEF HoldsKey, HasState
  <1>5. reh.steps["pilot-e2e-smoke"] # "pass" /\ reh.steps["csv-baseline"] # "pass"
    BY <1>1 DEF IInv, EvidenceInv
  <1>6. EvidenceInv' /\ PassIsEarned'
    BY <1>1, <1>2, <1>5, EvidenceFrame DEF Seeding
  <1> QED
    BY <1>1, <1>3, <1>4, <1>6, AccessService DEF IInv

\* A key that a script creates is new to every file, script and request.
LEMMA ScriptCreates ==
    ASSUME IInv, NEW k \in Keys, create_api_key(k),
           UNCHANGED <<service, keyLock, expired, roleVars, call, calls, byHand>>
    PROVE  /\ AccessInv'
           /\ key[k] = "absent" /\ key'[k] = "active"
           /\ \A j \in Keys : j # k => key'[j] = key[j]
           /\ \A p \in Paths : file[p] # k
           /\ \A r \in Rotations : rot[r].old # k /\ rot[r].new # k
           /\ reh.key # k /\ k \notin served \cup rotatedOut
  <1>1. AccessInv /\ AccessTypeOK /\ Stories /\ Balances
    BY AuditParts DEF IInv, AccessInv
  <1>2. /\ Stories' /\ key' \in [Keys -> {"absent", "active", "revoked"}]
        /\ trail' \in [Keys -> Trails]
        /\ key[k] = "absent" /\ key'[k] = "active"
        /\ \A j \in Keys : j # k => key'[j] = key[j]
    BY <1>1, CreateTells
  <1>3. AccessTypeOK'
    BY <1>1, <1>2 DEF AccessTypeOK, Trails
  <1>4. CallInv'
    BY <1>1, <1>2, CallsHold DEF CallInv
  <1>5. Balances'
    BY <1>1 DEF Balances
  <1>6. AuditReplays'
    BY <1>2, <1>5 DEF Stories, Balances, AuditReplays
  <1>7. AccessInv'
    BY <1>3, <1>4, <1>6 DEF AccessInv
  <1>8. /\ \A p \in Paths : file[p] # k
        /\ \A r \in Rotations : rot[r].old # k /\ rot[r].new # k
        /\ reh.key # k /\ k \notin served \cup rotatedOut
    BY <1>2, KeysAssumption DEF IInv, KeysInv, KnownInv
  <1> QED
    BY <1>2, <1>7, <1>8

LEMMA SeedKeyKeeps ==
    ASSUME IInv, NEW k \in Keys, seed_api_key(k)
    PROVE  IInv'
  <1>1. /\ reh.pc = "key" /\ reh' = [reh EXCEPT !.key = k, !.pc = "state"]
        /\ OpsTypes /\ "state" \in RehearsalPcs /\ create_api_key(k)
        /\ UNCHANGED <<service, keyLock, expired, roleVars, call, calls, byHand,
                       file, rotVars, started, fileVars>>
    BY DEF seed_api_key, IInv, RehearsalPcs, E2e
  <1>2. /\ reh' \in Rehearsal /\ reh'.pc = "state" /\ reh'.base = reh.base
        /\ reh'.key = k /\ reh'.steps = reh.steps
    BY <1>1, RehearsalFields DEF Rehearsal
  <1>3. OpsTypes'
    BY <1>1, <1>2 DEF OpsTypes
  <1>4. /\ AccessInv' /\ key[k] = "absent" /\ key'[k] = "active"
        /\ \A j \in Keys : j # k => key'[j] = key[j]
        /\ \A r \in Rotations : rot[r].old # k /\ rot[r].new # k
    BY <1>1, ScriptCreates
  <1>5. \A j \in Keys : /\ key[j] # "absent" => key'[j] # "absent"
                        /\ key'[j] = "revoked" => key[j] = "revoked"
    BY <1>4
  <1>6. KnownInv'
    BY <1>1, <1>2, <1>4, <1>5 DEF IInv, KeysInv, KnownInv, OpsTypes, Rotation
  <1>7. ScriptInv' /\ PrivateInv' /\ ServingInv'
    BY <1>1, <1>2, <1>4, KeysAssumption DEF IInv, KeysInv, ScriptInv, PrivateInv, ServingInv
  <1>8. /\ reh.steps["pilot-e2e-smoke"] # "pass" /\ reh.steps["csv-baseline"] # "pass"
        /\ service # "none"
    BY <1>1 DEF IInv, EvidenceInv, Seeding
  <1>9. EvidenceInv' /\ PassIsEarned'
    BY <1>1, <1>2, <1>8, EvidenceFrame DEF Seeding
  <1> QED
    BY <1>3, <1>4, <1>6, <1>7, <1>9 DEF IInv, KeysInv

-----------------------------------------------------------------------------
(* The rehearsal: the evidence.                                            *)

LEMMA CompareKeeps ==
    ASSUME IInv, NEW r \in Reports, run_threshold_comparison(r)
    PROVE  IInv'
  <1>1. /\ reh.pc = "compare" /\ report' = [body |-> r, redacted |-> FALSE]
        /\ Goto("redact") /\ OpsTypes /\ "redact" \in RehearsalPcs
        /\ UNCHANGED <<accessVars, file, rotVars, started, manifest, against>>
    BY DEF run_threshold_comparison, IInv, RehearsalPcs, E2e
  <1>2. /\ reh' \in Rehearsal /\ reh'.pc = "redact" /\ reh'.base = reh.base
        /\ reh'.key = reh.key /\ reh'.steps = reh.steps
    BY <1>1, GotoTypes
  <1>3. OpsTypes'
    BY <1>1, <1>2 DEF OpsTypes
  <1>4. reh.key # NoKey /\ file["state"] # NoKey
    BY <1>1 DEF IInv, KeysInv, ScriptInv
  <1>5. KeysInv'
    BY <1>1, <1>2, <1>3, <1>4, KeysFrame
  <1>6. /\ manifest["json"] # "PASS" /\ manifest["md"] # "PASS" /\ service # "none"
        /\ reh.steps["pilot-e2e-smoke"] # "pass" /\ reh.steps["csv-baseline"] # "pass"
    BY <1>1 DEF IInv, EvidenceInv, Seeding
  <1>7. EvidenceInv'
    BY <1>1, <1>2, <1>6, OpsAssumption DEF EvidenceInv
  <1>8. PassIsEarned'
    BY <1>1, <1>6 DEF PassIsEarned
  <1> QED
    BY <1>1, <1>3, <1>5, <1>7, <1>8, AccessSame DEF IInv

LEMMA RedactKeeps ==
    ASSUME IInv, redact_threshold_report
    PROVE  IInv'
  <1>1. /\ reh.pc = "redact" /\ report' = [report EXCEPT !.redacted = TRUE]
        /\ Goto("smoke") /\ OpsTypes /\ "smoke" \in RehearsalPcs
        /\ UNCHANGED <<accessVars, file, rotVars, started, manifest, against>>
    BY DEF redact_threshold_report, IInv, RehearsalPcs, E2e
  <1>2. /\ reh' \in Rehearsal /\ reh'.pc = "smoke" /\ reh'.base = reh.base
        /\ reh'.key = reh.key /\ reh'.steps = reh.steps
    BY <1>1, GotoTypes
  <1>3. /\ report' \in [body : Reports \cup {NoReport}, redacted : BOOLEAN]
        /\ report'.body = report.body /\ report'.redacted
    BY <1>1 DEF OpsTypes
  <1>4. OpsTypes'
    BY <1>1, <1>2, <1>3 DEF OpsTypes
  <1>5. reh.key # NoKey /\ file["state"] # NoKey
    BY <1>1 DEF IInv, KeysInv, ScriptInv
  <1>6. KeysInv'
    BY <1>1, <1>2, <1>4, <1>5, KeysFrame
  <1>7. /\ manifest["json"] # "PASS" /\ manifest["md"] # "PASS" /\ service # "none"
        /\ reh.steps["pilot-e2e-smoke"] # "pass" /\ reh.steps["csv-baseline"] # "pass"
        /\ report.body # NoReport
    BY <1>1 DEF IInv, EvidenceInv, Seeding
  <1>8. EvidenceInv'
    BY <1>1, <1>2, <1>3, <1>7 DEF EvidenceInv
  <1>9. PassIsEarned'
    BY <1>1, <1>7 DEF PassIsEarned
  <1> QED
    BY <1>1, <1>4, <1>6, <1>8, <1>9, AccessSame DEF IInv

LEMMA FinishE2eKeeps ==
    ASSUME IInv, finish_e2e
    PROVE  IInv'
  <1>1. /\ reh.pc = "answer" /\ served' = served \cup {reh.key} /\ OpsTypes
        /\ UNCHANGED <<accessVars, file, rot, rotatedOut, started, fileVars>>
        /\ {"finalize", "load"} \subseteq RehearsalPcs /\ {"pass", "fail"} \subseteq Statuses
        /\ {"pilot-e2e-smoke", "csv-baseline"} \subseteq StepNames
    BY DEF finish_e2e, IInv, RehearsalPcs, StepNames, Statuses
  <1>2. reh.key # NoKey /\ file["state"] # NoKey
    BY <1>1 DEF IInv, KeysInv, ScriptInv
  <1>3. /\ manifest["json"] # "PASS" /\ manifest["md"] # "PASS" /\ service # "none"
        /\ reh.steps["csv-baseline"] # "pass"
        /\ report.body # NoReport /\ report.redacted
    BY <1>1 DEF IInv, EvidenceInv, Seeding
  <1>4. PICK s \in {"pass", "fail"}, pc \in {"load", "finalize"} :
           /\ Record("pilot-e2e-smoke", s, pc)
           /\ s = "pass" => result_passed(report.body)
    BY DEF finish_e2e
  <1>5. /\ reh' \in Rehearsal /\ reh'.pc = pc /\ reh'.base = reh.base
        /\ reh'.key = reh.key /\ reh'.steps["pilot-e2e-smoke"] = s
        /\ reh'.steps["csv-baseline"] = reh.steps["csv-baseline"]
    BY <1>1, <1>4, RecordTypes
  <1>6. OpsTypes'
    BY <1>1, <1>2, <1>5, RehearsalFields DEF OpsTypes
  <1>7. KeysInv'
    BY <1>1, <1>2, <1>5, <1>6, KeysFrame
  <1>8. EvidenceInv'
    BY <1>1, <1>3, <1>4, <1>5 DEF EvidenceInv, Seeding
  <1>9. PassIsEarned'
    BY <1>1, <1>3 DEF PassIsEarned
  <1> QED
    BY <1>1, <1>6, <1>7, <1>8, <1>9, AccessSame DEF IInv

LEMMA BaselineKeeps ==
    ASSUME IInv, run_csv_baseline_step
    PROVE  IInv'
  <1> DEFINE s == IF reh.base = NoReport THEN "skip"
                  ELSE IF compare_baseline(report.body, reh.base)
                       THEN "pass" ELSE "fail"
             pc == IF reh.steps["dify-smoke-matrix"] = "pass"
                   THEN "ops" ELSE "finalize"
             f == [reh.steps EXCEPT !["csv-baseline"] = s]
  <1>1. /\ reh.pc = "baseline" /\ OpsTypes
        /\ UNCHANGED <<accessVars, file, rotVars, started, fileVars>>
        /\ {"finalize", "ops"} \subseteq RehearsalPcs
        /\ {"pass", "fail", "skip"} \subseteq Statuses
        /\ {"pilot-e2e-smoke", "csv-baseline"} \subseteq StepNames
    BY DEF run_csv_baseline_step, IInv, RehearsalPcs, StepNames, Statuses
  <1>2. reh' = [reh EXCEPT !.steps = f, !.pc = pc]
    BY <1>1, RehearsalFields DEF run_csv_baseline_step
  <1>3. /\ s = "pass" => reh.base # NoReport /\ compare_baseline(report.body, reh.base)
        /\ s \in Statuses /\ pc \in {"ops", "finalize"}
    BY <1>1
  <1> HIDE DEF s, pc
  <1>4. /\ f \in [StepNames -> Statuses] /\ f["csv-baseline"] = s
        /\ f["pilot-e2e-smoke"] = reh.steps["pilot-e2e-smoke"]
    BY <1>1, <1>3, RehearsalFields
  <1> HIDE DEF f
  <1>5. /\ reh' \in Rehearsal /\ reh'.pc = pc /\ reh'.base = reh.base
        /\ reh'.key = reh.key /\ reh'.steps = f
    BY <1>1, <1>2, <1>3, <1>4, RehearsalFields DEF Rehearsal
  <1>6. OpsTypes'
    BY <1>1, <1>5 DEF OpsTypes
  <1>7. KeysInv'
    BY <1>1, <1>3, <1>5, <1>6, KeysFrame DEF HoldsKey, HasState
  <1>8. EvidenceInv'
    BY <1>1, <1>3, <1>4, <1>5 DEF IInv, EvidenceInv, Seeding
  <1>9. PassIsEarned'
    BY <1>1 DEF IInv, PassIsEarned
  <1> QED
    BY <1>1, <1>6, <1>7, <1>8, <1>9, AccessSame DEF IInv

\* The gate in percent of cases is the acceptance in tenths.
LEMMA GateAccepts ==
    ASSUME NEW r \in Reports, result_passed(r)
    PROVE  Accepted(r)
  <1>1. IsFiniteSet(DOMAIN r.rows) /\ IsFiniteSet(Passes(r))
    BY OpsAssumption, FS_Subset DEF Passes
  <1>2. Cardinality(DOMAIN r.rows) \in Nat /\ Cardinality(Passes(r)) \in Nat
    BY <1>1, FS_CardinalityType
  <1>3. /\ 100 * Cardinality(Passes(r)) >= 70 * Cardinality(DOMAIN r.rows)
        /\ Risky(r) \subseteq Passes(r)
    BY DEF result_passed, evaluate_required_preset_gate, evaluate_gate, AtLeast
  <1>4. 10 * Cardinality(Passes(r)) >= 7 * Cardinality(DOMAIN r.rows)
    BY <1>2, <1>3
  <1> QED
    BY <1>3, <1>4 DEF Accepted, Passes

\* A result is PASS, FAIL or REVIEW, so one that is no new failure passes.
LEMMA BaselineHolds ==
    ASSUME NEW r \in Reports, NEW b, compare_baseline(r, b)
    PROVE  NoRegression(r, b)
  BY OpsAssumption DEF compare_baseline, NoRegression

LEMMA FinalizeKeeps ==
    ASSUME IInv, NEW scanned \in BOOLEAN, finalize_rehearsal(scanned)
    PROVE  IInv'
  <1> DEFINE passed == manifest_passed(scanned)
  <1>1. /\ reh.pc = "finalize" /\ Goto("markdown") /\ OpsTypes
        /\ manifest' = [manifest EXCEPT !["json"] = IF passed THEN "PASS" ELSE "FAIL"]
        /\ against' = IF passed THEN reh.base ELSE against
        /\ UNCHANGED <<accessVars, file, rotVars, started, report>>
        /\ "markdown" \in RehearsalPcs
    BY DEF finalize_rehearsal, IInv, RehearsalPcs
  <1>2. /\ passed => reh.steps["pilot-e2e-smoke"] = "pass"
        /\ passed /\ reh.base # NoReport => reh.steps["csv-baseline"] = "pass"
    BY DEF manifest_passed, Required
  <1> HIDE DEF passed
  <1>3. /\ reh' \in Rehearsal /\ reh'.pc = "markdown" /\ reh'.base = reh.base
        /\ reh'.key = reh.key /\ reh'.steps = reh.steps
    BY <1>1, GotoTypes
  <1>4. /\ manifest' \in [{"json", "md"} -> {"none", "PASS", "FAIL"}]
        /\ manifest'["json"] = (IF passed THEN "PASS" ELSE "FAIL")
        /\ manifest'["md"] = manifest["md"]
    BY <1>1 DEF OpsTypes
  <1>5. OpsTypes'
    BY <1>1, <1>3, <1>4, RehearsalFields DEF OpsTypes
  <1>6. KeysInv'
    BY <1>1, <1>3, <1>5, KeysFrame DEF HoldsKey, HasState
  <1>7. passed =>
           /\ service # "none" /\ served # {} /\ report.body # NoReport
           /\ report.redacted /\ result_passed(report.body)
           /\ reh.base # NoReport => compare_baseline(report.body, reh.base)
    BY <1>2 DEF IInv, EvidenceInv
  <1>8. EvidenceInv'
    BY <1>1, <1>3, <1>4, <1>7 DEF IInv, EvidenceInv, Seeding
  <1>9. PassIsEarned'
    <2>1. CASE passed
      <3>1. report.body \in Reports
        BY <1>1, <1>7, <2>1 DEF OpsTypes
      <3>2. Accepted(report.body) /\ (reh.base # NoReport => NoRegression(report.body, reh.base))
        BY <1>7, <2>1, <3>1, GateAccepts, BaselineHolds
      <3> QED
        BY <1>1, <1>7, <2>1, <3>2 DEF PassIsEarned
    <2>2. CASE ~ passed
      BY <1>1, <1>4, <2>2 DEF IInv, PassIsEarned
    <2> QED
      BY <2>1, <2>2
  <1> QED
    BY <1>1, <1>5, <1>6, <1>8, <1>9, AccessSame DEF IInv

LEMMA MarkdownKeeps ==
    ASSUME IInv, write_markdown
    PROVE  IInv'
  <1>1. /\ reh.pc = "markdown" /\ reh' = Stopped /\ OpsTypes
        /\ manifest' = [manifest EXCEPT !["md"] = manifest["json"]]
        /\ UNCHANGED <<accessVars, file, rotVars, started, report, against>>
    BY DEF write_markdown, IInv
  <1>2. /\ manifest' \in [{"json", "md"} -> {"none", "PASS", "FAIL"}]
        /\ manifest'["json"] = manifest["json"] /\ manifest'["md"] = manifest["json"]
    BY <1>1 DEF OpsTypes
  <1>3. /\ reh' \in Rehearsal /\ reh'.pc = "idle" /\ reh'.key = NoKey
        /\ reh'.steps["pilot-e2e-smoke"] = "skip" /\ reh'.steps["csv-baseline"] = "skip"
    BY <1>1, StoppedType DEF StepNames
  <1>4. OpsTypes'
    BY <1>1, <1>2, <1>3 DEF OpsTypes
  <1>5. KeysInv'
    BY <1>1, <1>3, <1>4, KeysFrame DEF HoldsKey, HasState
  <1>6. EvidenceInv'
    BY <1>1, <1>2, <1>3 DEF IInv, EvidenceInv, Seeding
  <1>7. PassIsEarned'
    BY <1>1, <1>2 DEF IInv, PassIsEarned
  <1> QED
    BY <1>1, <1>4, <1>5, <1>6, <1>7, AccessSame DEF IInv

LEMMA RehearsalKeeps ==
    ASSUME IInv, RehearsalNext
    PROVE  IInv'
  <1>1. ASSUME NEW o \in Options, run_pilot_rehearsal(o) PROVE IInv'
    BY <1>1, RunRehearsalKeeps
  <1>2. ASSUME NEW k \in Keys, seed_api_key(k) PROVE IInv'
    BY <1>2, SeedKeyKeeps
  <1>3. ASSUME NEW r \in Reports, run_threshold_comparison(r) PROVE IInv'
    BY <1>3, CompareKeeps
  <1>4. ASSUME NEW s \in {"pass", "fail"}, run_ops_evidence_export(s) PROVE IInv'
    BY <1>4, ExportKeeps
  <1>5. ASSUME NEW scanned \in BOOLEAN, finalize_rehearsal(scanned) PROVE IInv'
    BY <1>5, FinalizeKeeps
  <1> QED
    BY <1>1, <1>2, <1>3, <1>4, <1>5, SeedServiceKeeps, SeedReleaseKeeps,
       WriteStateKeeps, RedactKeeps, SmokeLookupKeeps, FinishE2eKeeps,
       FailE2eKeeps, LoadStateKeeps, DifyKeeps, BaselineKeeps, MarkdownKeeps,
       RehearsalDiesKeeps DEF RehearsalNext

-----------------------------------------------------------------------------
(* The rotations.                                                          *)

\* A step of rotation r that leaves the tables and the evidence alone.
LEMMA RotationKeeps ==
    ASSUME IInv, NEW r \in Rotations, NEW x \in Rotation,
           rot' = [rot EXCEPT ![r] = x],
           UNCHANGED <<accessVars, rotatedOut, reh, fileVars>>,
           started' \in 0 .. MaxScripts,
           file' \in [Paths -> Keys \cup {NoKey}],
           \A p \in Paths : \/ file'[p] = file[p]
                            \/ /\ rot[r].pc = "write" /\ file'[p] = rot[r].new
                               /\ x.pc = "ended",
           served \subseteq served', served' \subseteq Keys,
           served' \subseteq served \cup {rot[r].new},
           x.old \in {NoKey, rot[r].old, file["state"], file["rotated"]},
           x.new \in {NoKey, rot[r].new},
           x.pc \in HasNew \cup {"create"} => x.old # NoKey,
           x.pc \in HasNew => x.new # NoKey /\ rot[r].pc \in HasNew,
           x.pc \in {"revoke", "write"} => x.new \in served'
    PROVE  IInv'
  <1>1. /\ OpsTypes /\ rot'[r] = x /\ \A q \in Rotations : q # r => rot'[q] = rot[q]
        /\ rot' \in [Rotations -> Rotation]
    BY DEF IInv, OpsTypes
  <1>2. OpsTypes'
    BY <1>1 DEF OpsTypes
  <1>3. KnownInv'
    <2>1. \A k \in served' \cup rotatedOut' : key'[k] # "absent"
      BY KeysAssumption DEF IInv, KeysInv, KnownInv
    <2>2. \A p \in Paths : file'[p] # NoKey => key'[file'[p]] # "absent"
      BY DEF IInv, KeysInv, KnownInv
    <2>3. \A q \in Rotations : /\ rot'[q].old # NoKey => key'[rot'[q].old] # "absent"
                               /\ rot'[q].new # NoKey => key'[rot'[q].new] # "absent"
      BY <1>1 DEF IInv, KeysInv, KnownInv, Paths
    <2> QED
      BY <2>1, <2>2, <2>3 DEF IInv, KeysInv, KnownInv
  <1>4. ScriptInv'
    <2>1. \A q \in Rotations :
            /\ rot'[q].pc \in HasNew \cup {"create"} => rot'[q].old # NoKey
            /\ rot'[q].pc \in HasNew => rot'[q].new # NoKey
            /\ rot'[q].pc \in {"revoke", "write"} => rot'[q].new \in served'
      BY <1>1 DEF IInv, KeysInv, ScriptInv
    <2>2. file["state"] # NoKey => file'["state"] # NoKey
      BY DEF IInv, KeysInv, ScriptInv, HasNew, Paths
    <2> QED
      BY <2>1, <2>2 DEF IInv, KeysInv, ScriptInv
  <1>5. PrivateInv'
    <2> SUFFICES ASSUME NEW q \in Rotations, rot'[q].pc \in HasNew
                 PROVE  /\ \A p \in Paths : file'[p] # rot'[q].new
                        /\ \A s \in Rotations : /\ rot'[s].old # rot'[q].new
                                                /\ s # q => rot'[s].new # rot'[q].new
                        /\ reh.key # rot'[q].new
                        /\ rot'[q].new \notin rotatedOut
      BY DEF PrivateInv
    <2>1. rot'[q].new = rot[q].new /\ rot[q].new # NoKey /\ rot[q].pc \in HasNew
      BY <1>1 DEF IInv, KeysInv, ScriptInv
    <2>2. /\ \A p \in Paths : file[p] # rot[q].new
          /\ \A s \in Rotations : /\ rot[s].old # rot[q].new
                                  /\ s # q => rot[s].new # rot[q].new
          /\ reh.key # rot[q].new /\ rot[q].new \notin rotatedOut
      BY <2>1 DEF IInv, KeysInv, PrivateInv
    <2>3. \A p \in Paths : file'[p] # rot[q].new
      <3>1. CASE q = r
        BY <1>1, <2>2, <3>1 DEF HasNew
      <3>2. CASE q # r
        BY <2>2, <3>2
      <3> QED
        BY <3>1, <3>2
    <2>4. \A s \in Rotations : /\ rot'[s].old # rot[q].new
                               /\ s # q => rot'[s].new # rot[q].new
      BY <1>1, <2>1, <2>2 DEF Paths
    <2> QED
      BY <2>1, <2>2, <2>3, <2>4
  <1>6. ServingInv'
    BY DEF IInv, KeysInv, ServingInv
  <1>7. EvidenceInv' /\ PassIsEarned'
    BY EvidenceFrame DEF IInv, EvidenceInv, Late
  <1> QED
    BY <1>2, <1>3, <1>4, <1>5, <1>6, <1>7, AccessSame DEF IInv, KeysInv

LEMMA RotationFields ==
    ASSUME OpsTypes, NEW r \in Rotations
    PROVE  /\ rot[r] \in Rotation /\ rot[r].old \in Keys \cup {NoKey}
           /\ rot[r].new \in Keys \cup {NoKey}
  BY DEF OpsTypes, Rotation

\* A rotation that only moves on.
LEMMA MoveTypes ==
    ASSUME OpsTypes, NEW r \in Rotations,
           NEW pc \in {"answer", "revoke", "write"}
    PROVE  LET x == [rot[r] EXCEPT !.pc = pc]
           IN /\ x \in Rotation /\ x.pc = pc /\ x.old = rot[r].old
              /\ x.new = rot[r].new
              /\ [rot EXCEPT ![r].pc = pc] = [rot EXCEPT ![r] = x]
  <1>1. rot[r] \in Rotation
    BY RotationFields
  <1> QED
    BY <1>1 DEF Rotation

LEMMA RotateStartKeeps ==
    ASSUME IInv, NEW r \in Rotations, NEW p \in Paths, NEW revoke \in BOOLEAN,
           rotate_api_key(r, p, revoke)
    PROVE  IInv'
  <1> DEFINE x == [pc |-> "create", old |-> file[p], new |-> NoKey, revoke |-> revoke]
  <1>1. /\ rot' = [rot EXCEPT ![r] = x] /\ file[p] # NoKey
        /\ started < MaxScripts /\ started' = started + 1 /\ OpsTypes
        /\ UNCHANGED <<accessVars, file, served, rotatedOut, reh, fileVars>>
    BY DEF rotate_api_key, IInv
  <1>2. /\ x \in Rotation /\ x.pc = "create" /\ x.old = file[p] /\ x.new = NoKey
        /\ file[p] \in {file["state"], file["rotated"]}
    BY <1>1 DEF OpsTypes, Rotation, Paths
  <1> HIDE DEF x
  <1>3. /\ started' \in 0 .. MaxScripts /\ served \subseteq Keys
        /\ file \in [Paths -> Keys \cup {NoKey}]
    BY <1>1, OpsAssumption DEF OpsTypes
  <1> QED
    BY <1>1, <1>2, <1>3, RotationKeeps DEF HasNew

LEMMA RotateLookupKeeps ==
    ASSUME IInv, NEW r \in Rotations, rotate_lookup(r)
    PROVE  IInv'
  <1> DEFINE x == [rot[r] EXCEPT !.pc = "answer"]
  <1>1. /\ OpsTypes /\ rot[r].pc = "smoke" /\ rot' = [rot EXCEPT ![r].pc = "answer"]
        /\ UNCHANGED <<accessVars, file, served, rotatedOut, reh, started, fileVars>>
    BY DEF rotate_lookup, IInv
  <1>2. /\ x \in Rotation /\ x.pc = "answer" /\ x.old = rot[r].old /\ x.new = rot[r].new
        /\ rot' = [rot EXCEPT ![r] = x]
    BY <1>1, MoveTypes
  <1> HIDE DEF x
  <1>3. /\ started \in 0 .. MaxScripts /\ served \subseteq Keys
        /\ file \in [Paths -> Keys \cup {NoKey}]
        /\ rot[r].old # NoKey /\ rot[r].new # NoKey
    BY <1>1 DEF OpsTypes, IInv, KeysInv, ScriptInv, HasNew
  <1> QED
    BY <1>1, <1>2, <1>3, RotationKeeps DEF HasNew

\* The smoke's answer makes the new key one that serves.
LEMMA RotateSmokeKeeps ==
    ASSUME IInv, NEW r \in Rotations, rotate_smoke(r)
    PROVE  IInv'
  <1>1. /\ OpsTypes /\ rot[r].pc = "answer" /\ served' = served \cup {rot[r].new}
        /\ UNCHANGED <<accessVars, file, rotatedOut, reh, started, fileVars>>
    BY DEF rotate_smoke, IInv
  <1>2. PICK pc \in {"revoke", "write"} : rot' = [rot EXCEPT ![r].pc = pc]
    BY DEF rotate_smoke
  <1> DEFINE x == [rot[r] EXCEPT !.pc = pc]
  <1>3. /\ x \in Rotation /\ x.pc = pc /\ x.old = rot[r].old /\ x.new = rot[r].new
        /\ rot' = [rot EXCEPT ![r] = x]
    BY <1>1, <1>2, MoveTypes
  <1> HIDE DEF x
  <1>4. rot[r].old # NoKey /\ rot[r].new # NoKey
    BY <1>1 DEF IInv, KeysInv, ScriptInv, HasNew
  <1>5. /\ started \in 0 .. MaxScripts /\ served' \subseteq Keys
        /\ file \in [Paths -> Keys \cup {NoKey}]
    BY <1>1, <1>4, RotationFields DEF OpsTypes
  <1> QED
    BY <1>1, <1>3, <1>4, <1>5, RotationKeeps DEF HasNew

LEMMA RotateWriteKeeps ==
    ASSUME IInv, NEW r \in Rotations, NEW p \in Paths, rotate_write(r, p)
    PROVE  IInv'
  <1>1. /\ OpsTypes /\ rot[r].pc = "write" /\ file' = [file EXCEPT ![p] = rot[r].new]
        /\ rot' = [rot EXCEPT ![r] = Ended]
        /\ UNCHANGED <<accessVars, served, rotatedOut, reh, started, fileVars>>
    BY DEF rotate_write, IInv
  <1>2. /\ started \in 0 .. MaxScripts /\ served \subseteq Keys
        /\ file' \in [Paths -> Keys \cup {NoKey}]
        /\ \A q \in Paths : file'[q] \in {file[q], rot[r].new}
    BY <1>1, RotationFields DEF OpsTypes
  <1> QED
    BY <1>1, <1>2, NoRotationType, RotationKeeps DEF HasNew

LEMMA RotationDiesKeeps ==
    ASSUME IInv, NEW r \in Rotations, rotation_dies(r)
    PROVE  IInv'
  <1>1. /\ OpsTypes /\ rot' = [rot EXCEPT ![r] = Ended]
        /\ UNCHANGED <<accessVars, file, served, rotatedOut, reh, started, fileVars>>
    BY DEF rotation_dies, IInv
  <1>2. /\ started \in 0 .. MaxScripts /\ served \subseteq Keys
        /\ file \in [Paths -> Keys \cup {NoKey}]
    BY <1>1 DEF OpsTypes
  <1> QED
    BY <1>1, <1>2, NoRotationType, RotationKeeps DEF HasNew

LEMMA RotateCreateKeeps ==
    ASSUME IInv, NEW r \in Rotations, NEW k \in Keys, rotate_create(r, k)
    PROVE  IInv'
  <1> DEFINE x == [rot[r] EXCEPT !.new = k, !.pc = "smoke"]
  <1>1. /\ OpsTypes /\ rot[r].pc = "create" /\ create_api_key(k)
        /\ rot' = [rot EXCEPT ![r].new = k, ![r].pc = "smoke"]
        /\ UNCHANGED <<service, keyLock, expired, roleVars, call, calls, byHand,
                       file, served, rotatedOut, reh, started, fileVars>>
    BY DEF rotate_create, IInv
  <1>2. /\ x \in Rotation /\ x.pc = "smoke" /\ x.old = rot[r].old /\ x.new = k
        /\ rot' = [rot EXCEPT ![r] = x]
    <2>1. rot[r] \in Rotation
      BY <1>1, RotationFields
    <2> QED
      BY <1>1, <2>1 DEF Rotation
  <1> HIDE DEF x
  <1>3. /\ rot'[r] = x /\ \A q \in Rotations : q # r => rot'[q] = rot[q]
        /\ rot' \in [Rotations -> Rotation]
    BY <1>1, <1>2 DEF OpsTypes
  <1>4. OpsTypes'
    BY <1>1, <1>3 DEF OpsTypes
  <1>5. /\ AccessInv' /\ key[k] = "absent" /\ key'[k] = "active"
        /\ \A j \in Keys : j # k => key'[j] = key[j]
        /\ \A p \in Paths : file[p] # k
        /\ \A q \in Rotations : rot[q].old # k /\ rot[q].new # k
        /\ reh.key # k /\ k \notin served \cup rotatedOut
    BY <1>1, ScriptCreates
  <1>6. \A j \in Keys : /\ key[j] # "absent" => key'[j] # "absent"
                        /\ key'[j] = "revoked" => key[j] = "revoked"
    BY <1>5
  <1>7. rot[r].old # NoKey
    BY <1>1 DEF IInv, KeysInv, ScriptInv
  <1>8. KnownInv'
    <2>1. \A q \in Rotations : /\ rot'[q].old # NoKey => key'[rot'[q].old] # "absent"
                               /\ rot'[q].new # NoKey => key'[rot'[q].new] # "absent"
      BY <1>1, <1>2, <1>3, <1>5, <1>6, RotationFields DEF IInv, KeysInv, KnownInv
    <2>2. /\ \A p \in Paths : file'[p] # NoKey => key'[file'[p]] # "absent"
          /\ reh'.key # NoKey => key'[reh'.key] # "absent"
          /\ \A j \in served' \cup rotatedOut' : key'[j] # "absent"
      BY <1>1, <1>6, RehearsalFields DEF IInv, KeysInv, KnownInv, OpsTypes
    <2>3. \A j \in Keys : key'[j] = "revoked" => j \in byHand' \cup rotatedOut'
      BY <1>1, <1>6 DEF IInv, KeysInv, KnownInv
    <2> QED
      BY <2>1, <2>2, <2>3 DEF KnownInv
  <1>9. ScriptInv'
    BY <1>1, <1>2, <1>3, <1>7, KeysAssumption DEF IInv, KeysInv, ScriptInv, HasNew
  <1>10. PrivateInv'
    <2>1. /\ \A p \in Paths : file'[p] # k
          /\ \A q \in Rotations : rot'[q].old # k /\ (q # r => rot'[q].new # k)
          /\ reh'.key # k /\ k \notin rotatedOut'
      BY <1>1, <1>2, <1>3, <1>5
    <2>2. ASSUME NEW q \in Rotations, q # r, rot[q].pc \in HasNew
          PROVE  /\ \A p \in Paths : file'[p] # rot[q].new
                 /\ \A s \in Rotations : /\ rot'[s].old # rot[q].new
                                         /\ s # q => rot'[s].new # rot[q].new
                 /\ reh'.key # rot[q].new /\ rot[q].new \notin rotatedOut'
      BY <1>1, <1>2, <1>3, <1>5, <2>2 DEF IInv, KeysInv, PrivateInv
    <2> QED
      BY <1>2, <1>3, <2>1, <2>2 DEF PrivateInv
  <1>11. ServingInv'
    BY <1>1 DEF IInv, KeysInv, ServingInv
  <1>12. EvidenceInv' /\ PassIsEarned'
    BY <1>1, EvidenceFrame DEF IInv, EvidenceInv, Late
  <1> QED
    BY <1>4, <1>5, <1>8, <1>9, <1>10, <1>11, <1>12 DEF IInv, KeysInv

\* The key that the rotation served with stays when the old one goes.
LEMMA RotateRevokeKeeps ==
    ASSUME IInv, NEW r \in Rotations, rotate_revoke(r)
    PROVE  IInv'
  <1> DEFINE k == rot[r].old
             found == key[k] = "revoked"
             x == [rot[r] EXCEPT !.pc = "write"]
  <1>1. /\ AccessInv /\ AccessTypeOK /\ Stories /\ Balances /\ OpsTypes
    BY AuditParts DEF IInv, AccessInv
  <1>2. /\ rot[r].pc = "revoke" /\ keyLock[k] = NoOne /\ Revoked(k, found)
        /\ rotatedOut' = IF found THEN rotatedOut ELSE rotatedOut \cup {k}
        /\ rot' = [rot EXCEPT ![r].pc = "write"]
        /\ UNCHANGED <<service, keyLock, expired, roleVars, call, calls, byHand,
                       file, served, reh, started, fileVars>>
    BY DEF rotate_revoke
  <1>3. /\ k \in Keys /\ key[k] # "absent" /\ found \in BOOLEAN
        /\ rot[r].new # NoKey /\ rot[r].new \in served
    BY <1>1, <1>2, RotationFields DEF IInv, KeysInv, ScriptInv, KnownInv, HasNew
  <1>4. /\ x \in Rotation /\ x.pc = "write" /\ x.old = k /\ x.new = rot[r].new
        /\ rot' = [rot EXCEPT ![r] = x]
    BY <1>1, <1>2, MoveTypes
  <1>5. /\ Stories' /\ key' \in [Keys -> {"absent", "active", "revoked"}]
        /\ trail' \in [Keys -> Trails]
        /\ key'[k] = "revoked" /\ \A j \in Keys : j # k => key'[j] = key[j]
    BY <1>1, <1>2, <1>3, RevokeTells
  <1>6. /\ rotatedOut \subseteq rotatedOut' /\ rotatedOut' \subseteq rotatedOut \cup {k}
        /\ key[k] # "revoked" => k \in rotatedOut'
    BY <1>2
  <1>7. k # NoKey
    BY <1>3, KeysAssumption
  <1> HIDE DEF x, k, found
  <1>8. /\ rot'[r] = x /\ \A q \in Rotations : q # r => rot'[q] = rot[q]
        /\ rot' \in [Rotations -> Rotation]
    BY <1>1, <1>4 DEF OpsTypes
  <1>9. AccessInv'
    <2>1. AccessTypeOK'
      BY <1>1, <1>2, <1>5 DEF AccessTypeOK, Trails
    <2>2. \A j \in Keys : keyLock[j] \in Clients => key'[j] = key[j]
      BY <1>2, <1>5, KeysAssumption
    <2>3. CallInv'
      BY <1>1, <1>2, <2>2, CallsHold DEF CallInv
    <2>4. Balances'
      BY <1>1, <1>2 DEF Balances
    <2> QED
      BY <1>5, <2>1, <2>3, <2>4 DEF AccessInv, AuditReplays, Stories, Balances
  <1>10. OpsTypes'
    BY <1>1, <1>2, <1>3, <1>6, <1>8 DEF OpsTypes
  <1>11. \A j \in Keys : /\ key[j] # "absent" => key'[j] # "absent"
                         /\ key'[j] = "revoked" => key[j] = "revoked" \/ j \in rotatedOut'
    BY <1>5, <1>6
  <1>12. \A q \in Rotations : /\ rot'[q].old = rot[q].old /\ rot'[q].new = rot[q].new
                              /\ rot'[q].pc \in HasNew <=> rot[q].pc \in HasNew
                              /\ rot'[q].pc = "create" <=> rot[q].pc = "create"
                              /\ rot'[q].pc \in {"revoke", "write"} <=>
                                    rot[q].pc \in {"revoke", "write"}
    BY <1>2, <1>4, <1>8 DEF HasNew, k
  <1>13. KnownInv'
    <2>1. \A q \in Rotations : /\ rot'[q].old # NoKey => key'[rot'[q].old] # "absent"
                               /\ rot'[q].new # NoKey => key'[rot'[q].new] # "absent"
      BY <1>1, <1>11, <1>12, RotationFields DEF IInv, KeysInv, KnownInv
    <2>2. /\ \A p \in Paths : file'[p] # NoKey => key'[file'[p]] # "absent"
          /\ reh'.key # NoKey => key'[reh'.key] # "absent"
          /\ \A j \in served' \cup rotatedOut' : key'[j] # "absent"
      BY <1>1, <1>2, <1>3, <1>6, <1>11, RehearsalFields DEF IInv, KeysInv, KnownInv, OpsTypes
    <2>3. \A j \in Keys : key'[j] = "revoked" => j \in byHand' \cup rotatedOut'
      BY <1>2, <1>6, <1>11 DEF IInv, KeysInv, KnownInv
    <2> QED
      BY <2>1, <2>2, <2>3 DEF KnownInv
  <1>14. ScriptInv'
    BY <1>2, <1>12 DEF IInv, KeysInv, ScriptInv
  <1>15. \A q \in Rotations : rot[q].pc \in HasNew => rot[q].new # k
    BY DEF IInv, KeysInv, PrivateInv, k
  <1>16. PrivateInv'
    BY <1>2, <1>6, <1>12, <1>15 DEF IInv, KeysInv, PrivateInv
  <1>17. ServingInv'
    <2>1. rot[r].new \notin rotatedOut'
      BY <1>2, <1>6, <1>15 DEF IInv, KeysInv, PrivateInv, HasNew
    <2> QED
      BY <1>2, <1>3, <2>1 DEF ServingInv
  <1>18. EvidenceInv' /\ PassIsEarned'
    BY <1>2, EvidenceFrame DEF IInv, EvidenceInv, Late
  <1> QED
    BY <1>9, <1>10, <1>13, <1>14, <1>16, <1>17, <1>18 DEF IInv, KeysInv

LEMMA RotationNextKeeps ==
    ASSUME IInv, RotationNext
    PROVE  IInv'
  <1> PICK r \in Rotations :
        \/ \E p \in Paths, revoke \in BOOLEAN : rotate_api_key(r, p, revoke)
        \/ \E k \in Keys : rotate_create(r, k)
        \/ rotate_lookup(r)
        \/ rotate_smoke(r)
        \/ rotate_revoke(r)
        \/ \E p \in Paths : rotate_write(r, p)
        \/ rotation_dies(r)
    BY DEF RotationNext
  <1> QED
    BY RotateStartKeeps, RotateCreateKeeps, RotateLookupKeeps, RotateSmokeKeeps,
       RotateRevokeKeeps, RotateWriteKeeps, RotationDiesKeeps

-----------------------------------------------------------------------------
(* The theorems.                                                           *)

LEMMA StutterKeeps ==
    ASSUME IInv, UNCHANGED vars
    PROVE  IInv'
  BY HandlerKeeps, AccessSame DEF vars, IInv

\* IInv holds in every state of the handlers and the scripts.
THEOREM Inductive == Spec => []IInv
  <1>1. ASSUME IInv, [Next]_vars PROVE IInv'
    BY <1>1, AccessKeeps, RehearsalKeeps, RotationNextKeeps, StutterKeeps DEF Next
  <1> QED
    BY <1>1, InitInv, PTL DEF Spec

\* The tables, the state files, the scripts and the evidence have their
\* types, whatever the handlers and the scripts do.
THEOREM TypeCorrect == Spec => []TypeOK
  <1>1. ASSUME IInv PROVE TypeOK
    <2>1. AccessTypeOK /\ OpsTypes
      BY <1>1 DEF IInv, AccessInv
    <2>2. {reh.base, against} \subseteq Baselines \cup {NoReport}
      BY <2>1, RehearsalFields DEF OpsTypes
    <2>3. report.body \in Reports \cup {NoReport}
      BY <2>1 DEF OpsTypes
    <2> QED
      BY <2>1, <2>2, <2>3, RehearsalFields DEF TypeOK, OpsTypes, Rotation
  <1> QED
    BY <1>1, Inductive, PTL

\* audit_logs replays to the tables for any number of overlapping requests
\* and rotations: each key's rows tell its story, and no reveal follows a
\* revocation, because the row lock keeps what revoke and reveal read true
\* until they commit; every grant and revocation of a role is logged once.
THEOREM AuditAlwaysReplays == Spec => []AuditReplays
  <1>1. ASSUME IInv PROVE AuditReplays
    BY <1>1 DEF IInv, AccessInv
  <1> QED
    BY <1>1, Inductive, PTL

\* rotate_api_key.py never cuts a Service off: the key it served with is its
\* own until the state file names it, so no other rotation can have revoked
\* it by the time the old key is.
THEOREM RotationsKeepServing == Spec => []RotationKeepsServing
  <1>1. ASSUME IInv PROVE RotationKeepsServing
    <2> SUFFICES ASSUME rotatedOut # {}
                 PROVE  \E k \in served : key[k] = "active" \/ k \in byHand
      BY DEF RotationKeepsServing
    <2>1. PICK k \in served : k \notin rotatedOut
      BY <1>1 DEF IInv, KeysInv, ServingInv
    <2>2. /\ k \in Keys /\ key[k] # "absent"
          /\ key[k] = "revoked" => k \in byHand
      BY <1>1, <2>1 DEF IInv, KeysInv, KnownInv, OpsTypes
    <2>3. key[k] \in {"absent", "active", "revoked"}
      BY <1>1, <2>2 DEF IInv, AccessInv, AccessTypeOK
    <2> QED
      BY <2>2, <2>3
  <1> QED
    BY <1>1, Inductive, PTL

\* A manifest of run_pilot_rehearsal.py that says PASS was earned and stays
\* true of the report beside it, for any CSV, any baseline and any number of
\* rehearsals into the same directory, wherever they are killed.
THEOREM PassesAreEarned == Spec => []PassIsEarned
  <1>1. ASSUME IInv PROVE PassIsEarned
    BY <1>1 DEF IInv
  <1> QED
    BY <1>1, Inductive, PTL

=============================================================================
