--------------------------- MODULE EvidenceExport ---------------------------
(***************************************************************************)
(* The evidence bundles of one intake:                                     *)
(* apps/api/src/routes/evidence-export.ts, on the plans of the intake,     *)
(* which move as PlanStateMachine!Overlapped allows while a bundle is put  *)
(* together (ApprovalWorkflow implements that specification).              *)
(*                                                                         *)
(* POST reads the finding, the newest plan and its approvals in one READ   *)
(* COMMITTED transaction, a snapshot per statement, and zips them.  It     *)
(* then commits a row whose s3_key is 'pending', uploads the bundle and    *)
(* commits the key: three steps in two stores, any of which can fail, and  *)
(* between which the API can die.  GET answers with the newest row.        *)
(*                                                                         *)
(* A request makes at most one row and one object, so it names both.       *)
(* Plans are numbered in the order of their created_at.                    *)
(***************************************************************************)
EXTENDS Naturals, FiniteSetsExt, PlanStateMachine

CONSTANTS
  Exports,    \* the POSTs the API receives, each served once
  Readers,    \* the GETs the API receives, each served once
  NoExport,   \* no row
  Faults      \* TRUE: the database or the store fails, the API dies

ASSUME PlansAssumption == Plans \subseteq Nat \ {0}
ASSUME ExportsAssumption ==
  /\ NoExport \notin Exports
  /\ Exports \cap Readers = {}
ASSUME FaultsAssumption == Faults \in BOOLEAN

VARIABLES
  diagnosed,   \* an RCA finding of the intake is committed
  row,         \* evidence_exports: the committed s3_key of the request's row
  stored,      \* the objects in the bucket
  clock,       \* the database clock
  made,        \* created_at of the request's row
  pc,          \* where the request is
  subject, entries,   \* the plan and the approvals in the request's bundle
  found, key,         \* the row a GET has answered with, and its s3_key
  reply               \* the HTTP status of the answer; 0: none

packed == <<subject, entries>>
got    == <<found, key>>
vars   == <<state, trail, diagnosed, row, stored, clock, made, pc, subject,
            entries, found, key, reply>>

InTx == {"begun", "diagnosed", "planned", "read", "inserting"}
PCs  == {"idle", "inserted", "stored", "failed", "linked", "done"} \cup InTx
InFlight(r) == pc[r] \notin {"idle", "done"}
Rows == {r \in Exports : row[r] \in {"pending", "linked"}}

Goto(r, label) ==
  /\ pc' = [pc EXCEPT ![r] = label]
  /\ UNCHANGED reply
Finish(r, code) ==
  /\ pc' = [pc EXCEPT ![r] = "done"]
  /\ reply' = [reply EXCEPT ![r] = code]

Init ==
  /\ MachineInit
  /\ diagnosed = FALSE
  /\ row = [r \in Exports |-> "none"]
  /\ stored = {}
  /\ clock = 0
  /\ made = [r \in Exports |-> 0]
  /\ pc = [r \in Exports |-> "idle"]
  /\ subject = [r \in Exports |-> 0]
  /\ entries = [r \in Exports |-> {}]
  /\ found = [g \in Readers |-> NoExport]
  /\ key = [g \in Readers |-> "none"]
  /\ reply = [r \in Exports \cup Readers |-> 0]

-----------------------------------------------------------------------------
(* POST /intake/:id/rca commits a finding. *)
Diagnose ==
  /\ diagnosed' = TRUE
  /\ ~diagnosed
  /\ UNCHANGED <<machineVars, row, stored, clock, made, pc, packed, got, reply>>

(* POST /intake/:id/repair-plan, which needs a finding, commits a plan, or *)
(* an approval request commits its transition.                             *)
PlansMove ==
  /\ diagnosed
  /\ OverlappedNext
  /\ UNCHANGED <<diagnosed, row, stored, clock, made, pc, packed, got, reply>>

-----------------------------------------------------------------------------
(* Malformed id (400), body (422), or no such intake in the tenant (404). *)
Refuse(r) ==
  /\ pc[r] = "idle"
  /\ \E code \in {400, 404, 422} : Finish(r, code)
  /\ UNCHANGED <<machineVars, diagnosed, row, stored, clock, made, packed, got>>

Begin(r) ==
  /\ pc[r] = "idle"
  /\ Goto(r, "begun")
  /\ UNCHANGED <<machineVars, diagnosed, row, stored, clock, made, packed, got>>

(* SELECT ... FROM rca_findings. *)
ReadFinding(r) ==
  /\ pc[r] = "begun"
  /\ diagnosed
  /\ Goto(r, "diagnosed")
  /\ UNCHANGED <<machineVars, diagnosed, row, stored, clock, made, packed, got>>

(* 412 rca_required. *)
FindingRequired(r) ==
  /\ pc[r] = "begun"
  /\ ~diagnosed
  /\ Finish(r, 412)
  /\ UNCHANGED <<machineVars, diagnosed, row, stored, clock, made, packed, got>>

(* ORDER BY created_at DESC LIMIT 1. *)
NewestPlan == Max({p \in Plans : state[p] # "absent"} \cup {0})

(* Mutant: the gate stops drafts only. *)
ReadPlanUngated(r) ==
  /\ pc[r] = "diagnosed"
  /\ NewestPlan \in Plans /\ state[NewestPlan] # "draft"
  /\ subject' = [subject EXCEPT ![r] = NewestPlan]
  /\ Goto(r, "planned")
  /\ UNCHANGED <<machineVars, diagnosed, row, stored, clock, made, entries, got>>

(* SELECT ... FROM repair_plans: the newest plan, and it is approved. *)
ReadPlan(r) ==
  /\ pc[r] = "diagnosed"
  /\ NewestPlan \in Plans /\ state[NewestPlan] = "approved"
  /\ subject' = [subject EXCEPT ![r] = NewestPlan]
  /\ Goto(r, "planned")
  /\ UNCHANGED <<machineVars, diagnosed, row, stored, clock, made, entries, got>>

(* 412 plan_required or plan_not_approved. *)
ApprovedPlanRequired(r) ==
  /\ pc[r] = "diagnosed"
  /\ NewestPlan \in Plans => state[NewestPlan] # "approved"
  /\ Finish(r, 412)
  /\ UNCHANGED <<machineVars, diagnosed, row, stored, clock, made, packed, got>>

(* SELECT ... FROM approvals, on a later snapshot; then the bundle is zipped. *)
ReadApprovals(r) ==
  /\ pc[r] = "planned"
  /\ entries' = [entries EXCEPT ![r] = trail[subject[r]]]
  /\ Goto(r, "read")
  /\ UNCHANGED <<machineVars, diagnosed, row, stored, clock, made, subject, got>>

(* BEGIN, and with it the created_at of the row that is about to be written. *)
InsertRow(r) ==
  /\ pc[r] = "read"
  /\ made' = [made EXCEPT ![r] = clock + 1]
  /\ clock' = clock + 1
  /\ Goto(r, "inserting")
  /\ UNCHANGED <<machineVars, diagnosed, row, stored, packed, got>>

(* INSERT ... s3_key = 'pending'; COMMIT. *)
CommitRow(r) ==
  /\ pc[r] = "inserting"
  /\ row' = [row EXCEPT ![r] = "pending"]
  /\ Goto(r, "inserted")
  /\ UNCHANGED <<machineVars, diagnosed, stored, clock, made, packed, got>>

(* putObjectBytes has answered. *)
PutObject(r) ==
  /\ pc[r] = "inserted"
  /\ stored' = stored \cup {r}
  /\ Goto(r, "stored")
  /\ UNCHANGED <<machineVars, diagnosed, row, clock, made, packed, got>>

(* putObjectBytes throws: the store refused the bundle, or its answer is *)
(* lost and the object is there.                                         *)
PutFails(r) ==
  /\ Faults
  /\ pc[r] = "inserted"
  /\ stored' \in {stored, stored \cup {r}}
  /\ Goto(r, "failed")
  /\ UNCHANGED <<machineVars, diagnosed, row, clock, made, packed, got>>

(* Mutant: the row is kept. *)
DropRowNever(r) ==
  /\ pc[r] = "failed"
  /\ Finish(r, 503)
  /\ UNCHANGED <<machineVars, diagnosed, row, stored, clock, made, packed, got>>

(* The catch block: DELETE ... WHERE evidence_export_id; 503 s3_unavailable, *)
(* or 500 if the acknowledgement of its COMMIT is lost.                      *)
DropRow(r) ==
  /\ pc[r] = "failed"
  /\ row' = [row EXCEPT ![r] = "deleted"]
  /\ \E code \in {500, 503} : Finish(r, code)
  /\ UNCHANGED <<machineVars, diagnosed, stored, clock, made, packed, got>>

(* Mutant: the key is committed before the upload. *)
LinkRowEarly(r) ==
  /\ pc[r] \in {"inserted", "stored"}
  /\ row' = [row EXCEPT ![r] = "linked"]
  /\ Goto(r, "linked")
  /\ UNCHANGED <<machineVars, diagnosed, stored, clock, made, packed, got>>

(* UPDATE evidence_exports SET s3_key; COMMIT. *)
LinkRow(r) ==
  /\ pc[r] = "stored"
  /\ row' = [row EXCEPT ![r] = "linked"]
  /\ Goto(r, "linked")
  /\ UNCHANGED <<machineVars, diagnosed, stored, clock, made, packed, got>>

Respond(r) ==
  /\ pc[r] = "linked"
  /\ Finish(r, 201)
  /\ UNCHANGED <<machineVars, diagnosed, row, stored, clock, made, packed, got>>

(* A statement, or the acknowledgement of a COMMIT, is lost: 500, and what is *)
(* committed stays, the DELETE of the catch block left undone included.       *)
Fail(r) ==
  /\ Faults
  /\ InFlight(r)
  /\ Finish(r, 500)
  /\ UNCHANGED <<machineVars, diagnosed, row, stored, clock, made, packed, got>>

(* The API dies; uploads it had begun may still arrive. *)
Crash ==
  /\ Faults
  /\ \E r \in Exports : InFlight(r)
  /\ pc' = [r \in Exports |-> IF InFlight(r) THEN "done" ELSE pc[r]]
  /\ \E arrived \in SUBSET {r \in Exports : pc[r] = "inserted"} :
       stored' = stored \cup arrived
  /\ UNCHANGED <<machineVars, diagnosed, row, clock, made, packed, got, reply>>

-----------------------------------------------------------------------------
(* Mutant: the oldest row, ORDER BY created_at ASC. *)
GetLatestReversed(g) ==
  /\ reply[g] = 0
  /\ \E r \in Rows :
       /\ \A q \in Rows : made[r] <= made[q]
       /\ found' = [found EXCEPT ![g] = r]
       /\ key' = [key EXCEPT ![g] = row[r]]
  /\ reply' = [reply EXCEPT ![g] = 200]
  /\ UNCHANGED <<machineVars, diagnosed, row, stored, clock, made, pc, packed>>

(* GET: one SELECT; the newest row, whatever its s3_key, is presigned: 200. *)
GetLatest(g) ==
  /\ reply[g] = 0
  /\ \E r \in Rows :
       /\ \A q \in Rows : made[q] <= made[r]
       /\ found' = [found EXCEPT ![g] = r]
       /\ key' = [key EXCEPT ![g] = row[r]]
  /\ reply' = [reply EXCEPT ![g] = 200]
  /\ UNCHANGED <<machineVars, diagnosed, row, stored, clock, made, pc, packed>>

(* 404 evidence_not_found. *)
GetNothing(g) ==
  /\ reply[g] = 0
  /\ Rows = {}
  /\ reply' = [reply EXCEPT ![g] = 404]
  /\ UNCHANGED <<machineVars, diagnosed, row, stored, clock, made, pc, packed, got>>

Step(r) ==
  \/ ReadFinding(r) \/ FindingRequired(r) \/ ReadPlan(r)
  \/ ApprovedPlanRequired(r) \/ ReadApprovals(r) \/ InsertRow(r)
  \/ CommitRow(r) \/ PutObject(r) \/ PutFails(r) \/ DropRow(r) \/ LinkRow(r)
  \/ Respond(r)

Next ==
  \/ Diagnose \/ PlansMove
  \/ \E r \in Exports : Refuse(r) \/ Begin(r) \/ Step(r) \/ Fail(r)
  \/ Crash
  \/ \E g \in Readers : GetLatest(g) \/ GetNothing(g)

Spec == Init /\ [][Next]_vars

-----------------------------------------------------------------------------
TypeOK ==
  /\ state \in [Plans -> {"absent", "draft", "submitted", "approved", "rejected"}]
  /\ trail \in [Plans -> SUBSET PlanActions]
  /\ diagnosed \in BOOLEAN
  /\ row \in [Exports -> {"none", "pending", "linked", "deleted"}]
  /\ stored \in SUBSET Exports
  /\ clock \in Nat
  /\ made \in [Exports -> Nat]
  /\ pc \in [Exports -> PCs]
  /\ subject \in [Exports -> Plans \cup {0}]
  /\ entries \in [Exports -> SUBSET PlanActions]
  /\ found \in [Readers -> Exports \cup {NoExport}]
  /\ key \in [Readers -> {"none", "pending", "linked"}]
  /\ reply \in [Exports \cup Readers ->
                  {0, 200, 201, 400, 404, 412, 422, 500, 503}]

(* Every bundle in the bucket tells how its plan came to be approved: the    *)
(* approvals it contains include a submission and an approval, although they *)
(* are read after the status, and decisions land in between.                 *)
BundleExplainsApproval ==
  \A r \in stored : {"submit", "approve"} \subseteq entries[r]

(* A row that names its object never dangles: whatever fails, times out or *)
(* dies between the two stores, the object was there first; and so it is   *)
(* for a client who was given the key by a GET and uses it later.          *)
LinkedIsStored ==
  /\ \A r \in Exports : row[r] = "linked" => r \in stored
  /\ \A g \in Readers : key[g] = "linked" => found[g] \in stored

(* What a client is told agrees with the table for good: a 201 has its row, *)
(* linked; a 503 or a 412 leaves none behind.                               *)
AnswerTellsRow ==
  \A r \in Exports :
    /\ reply[r] = 201 => row[r] = "linked"
    /\ reply[r] \in {412, 503} => r \notin Rows

(* Evidence is kept: no failure of another export touches a linked row. *)
LinkedForever ==
  [][\A r \in Exports : row[r] = "linked" => row'[r] = "linked"]_row

(* A GET is never older than an export whose 201 was sent before it. *)
GetIsFresh ==
  [][\A g \in Readers, r \in Exports :
       reply[g] = 0 /\ reply'[g] # 0 /\ reply[r] = 201 =>
         found'[g] \in Exports /\ made[r] <= made[found'[g]]]_<<found, reply>>
=============================================================================
