-------------------------- MODULE ApprovalWorkflow --------------------------
(***************************************************************************)
(* The approval workflow of a repair plan: apps/api/src/routes/approval.ts *)
(* on the transactions of apps/api/src/lib/db.ts.                          *)
(*                                                                         *)
(* A request is one call of submit, approve, reject or of the audit log.   *)
(* It runs as one READ COMMITTED transaction whose statements are separate *)
(* steps here, since other requests run between them: the SELECT of the    *)
(* plan takes no lock, the INSERT of the approvals row is invisible until  *)
(* the COMMIT, and the UPDATE of the plan waits for the row lock of        *)
(* another writer and then overwrites whatever that writer left.           *)
(*                                                                         *)
(* A request inserts at most one approvals row, so the request names the   *)
(* row: row r has repair_plan_id plan[r], action action[r], prior_status   *)
(* prior[r], new_status NewStatus(r) and created_at began[r] (NOW() is the *)
(* start of the transaction).                                              *)
(***************************************************************************)
EXTENDS Naturals

CONSTANTS
  Requests,     \* the requests the API receives, each served once
  Plans,        \* the repair plans of one tenant
  NoApproval,   \* SQL NULL, in repair_plans.current_approval_id
  Overlap       \* FALSE: the transitions of one plan never run concurrently

ASSUME NoApprovalAssumption == NoApproval \notin Requests
ASSUME OverlapAssumption == Overlap \in BOOLEAN

VARIABLES
  status,      \* committed repair_plans.status, "absent" before the INSERT
  current,     \* committed repair_plans.current_approval_id
  approvals,   \* committed approvals rows, named by their requests
  lock,        \* the transaction holding the row lock of the plan
  clock,       \* the database clock, read by BEGIN
  pc,          \* where the request is
  plan, action, began, prior,   \* what the request has sent and read
  seen,        \* the entries an audit-log request has read
  reply        \* the HTTP status of the answer; 0: none

table == <<status, current, approvals>>
args  == <<plan, action, began>>
vars  == <<status, current, approvals, lock, clock, pc, plan, action, began,
           prior, seen, reply>>

Transitions == {"submit", "approve", "reject"}
Actions     == Transitions \cup {"log"}
Statuses    == {"absent", "draft", "submitted", "approved", "rejected"}
InTx        == {"begun", "read", "inserted", "updated"}
PCs         == {"idle", "committed", "done"} \cup InTx

(* Mutants of lookupNext: a decision that needs no submission, a rejection *)
(* that sends the plan back to draft.                                      *)
LookupNextUnsubmitted(from, act) ==
  IF from = "draft" /\ act = "submit" THEN "submitted"
  ELSE IF act = "approve" THEN "approved"
  ELSE IF act = "reject" THEN "rejected" ELSE "none"
LookupNextReopening(from, act) ==
  IF from = "draft" /\ act = "submit" THEN "submitted"
  ELSE IF from = "submitted" /\ act = "approve" THEN "approved"
  ELSE IF from = "submitted" /\ act = "reject" THEN "draft" ELSE "none"

(* TRANSITIONS and lookupNext; "none" is its null. *)
LookupNext(from, act) ==
  IF from = "draft" /\ act = "submit" THEN "submitted"
  ELSE IF from = "submitted" /\ act = "approve" THEN "approved"
  ELSE IF from = "submitted" /\ act = "reject" THEN "rejected" ELSE "none"

NewStatus(r) == LookupNext(prior[r], action[r])
InFlight(r)  == pc[r] \in InTx \cup {"committed"}
Finish(r, code) ==
  /\ pc' = [pc EXCEPT ![r] = "done"]
  /\ reply' = [reply EXCEPT ![r] = code]

Init ==
  /\ status = [p \in Plans |-> "absent"]
  /\ current = [p \in Plans |-> NoApproval]
  /\ approvals = {}
  /\ lock = [p \in Plans |-> NoApproval]
  /\ clock = 0
  /\ pc = [r \in Requests |-> "idle"]
  /\ plan \in [Requests -> Plans]
  /\ action = [r \in Requests |-> "log"]
  /\ began = [r \in Requests |-> 0]
  /\ prior = [r \in Requests |-> "absent"]
  /\ seen = [r \in Requests |-> {}]
  /\ reply = [r \in Requests |-> 0]

-----------------------------------------------------------------------------

(* POST /intake/:id/repair-plan commits the plan; status has DEFAULT 'draft'. *)
CreatePlan(p) ==
  /\ status[p] = "absent"
  /\ status' = [status EXCEPT ![p] = "draft"]
  /\ UNCHANGED <<current, approvals, lock, clock, pc, args, prior, seen, reply>>

(* The route hands the request to withTenant: a connection and a BEGIN. *)
Begin(r, a) ==
  /\ pc[r] = "idle"
  /\ Overlap \/ a = "log"
     \/ \A q \in Requests :
          InFlight(q) /\ plan[q] = plan[r] => action[q] = "log"
  /\ pc' = [pc EXCEPT ![r] = "begun"]
  /\ action' = [action EXCEPT ![r] = a]
  /\ began' = [began EXCEPT ![r] = clock]
  /\ clock' = clock + 1
  /\ UNCHANGED <<table, lock, plan, prior, seen, reply>>

(* SELECT ... FROM repair_plans, without FOR UPDATE: the last committed row. *)
ReadPlan(r) ==
  /\ pc[r] = "begun"
  /\ status[plan[r]] # "absent"
  /\ action[r] = "log" \/ LookupNext(status[plan[r]], action[r]) # "none"
  /\ prior' = [prior EXCEPT ![r] = status[plan[r]]]
  /\ pc' = [pc EXCEPT ![r] = "read"]
  /\ UNCHANGED <<table, lock, clock, args, seen, reply>>

(* No row: 404 repair_plan_not_found. *)
PlanNotFound(r) ==
  /\ pc[r] = "begun"
  /\ status[plan[r]] = "absent"
  /\ Finish(r, 404)
  /\ UNCHANGED <<table, lock, clock, args, prior, seen>>

(* lookupNext is null: 409 invalid_transition. *)
InvalidTransition(r) ==
  /\ pc[r] = "begun"
  /\ action[r] \in Transitions
  /\ status[plan[r]] # "absent"
  /\ LookupNext(status[plan[r]], action[r]) = "none"
  /\ prior' = [prior EXCEPT ![r] = status[plan[r]]]
  /\ Finish(r, 409)
  /\ UNCHANGED <<table, lock, clock, args, seen>>

(* INSERT INTO approvals: the row stays invisible until the COMMIT. *)
InsertApproval(r) ==
  /\ pc[r] = "read"
  /\ action[r] \in Transitions
  /\ pc' = [pc EXCEPT ![r] = "inserted"]
  /\ UNCHANGED <<table, lock, clock, args, prior, seen, reply>>

(* Mutant: the UPDATE runs outside of the transaction. *)
UpdatePlanAutocommit(r) ==
  /\ pc[r] = "inserted"
  /\ lock[plan[r]] = NoApproval
  /\ status' = [status EXCEPT ![plan[r]] = NewStatus(r)]
  /\ current' = [current EXCEPT ![plan[r]] = r]
  /\ lock' = [lock EXCEPT ![plan[r]] = r]
  /\ pc' = [pc EXCEPT ![r] = "updated"]
  /\ UNCHANGED <<approvals, clock, args, prior, seen, reply>>

(* UPDATE repair_plans ... WHERE repair_plan_id = $3: waits for the lock of *)
(* the row; the condition names the plan only, so the wait changes nothing. *)
UpdatePlan(r) ==
  /\ pc[r] = "inserted"
  /\ lock[plan[r]] = NoApproval
  /\ lock' = [lock EXCEPT ![plan[r]] = r]
  /\ pc' = [pc EXCEPT ![r] = "updated"]
  /\ UNCHANGED <<table, clock, args, prior, seen, reply>>

(* COMMIT: the row and both columns become visible at once. *)
Commit(r) ==
  /\ pc[r] = "updated"
  /\ approvals' = approvals \cup {r}
  /\ status' = [status EXCEPT ![plan[r]] = NewStatus(r)]
  /\ current' = [current EXCEPT ![plan[r]] = r]
  /\ lock' = [lock EXCEPT ![plan[r]] = NoApproval]
  /\ pc' = [pc EXCEPT ![r] = "committed"]
  /\ UNCHANGED <<clock, args, prior, seen, reply>>

(* Mutant: the route answers without awaiting the COMMIT. *)
RespondEarly(r) ==
  /\ pc[r] \in {"updated", "committed"}
  /\ Finish(r, 200)
  /\ UNCHANGED <<table, lock, clock, args, prior, seen>>

(* The answer to the COMMIT arrives (200), or the connection is lost before *)
(* it does: withTenant throws and the client gets a 500 for a committed row. *)
Respond(r) ==
  /\ pc[r] = "committed"
  /\ \E code \in {200, 500} : Finish(r, code)
  /\ UNCHANGED <<table, lock, clock, args, prior, seen>>

(* GET .../approvals, second statement, on a snapshot of its own. *)
ReadEntries(r) ==
  /\ pc[r] = "read"
  /\ action[r] = "log"
  /\ seen' = [seen EXCEPT ![r] = {q \in approvals : plan[q] = plan[r]}]
  /\ Finish(r, 200)
  /\ UNCHANGED <<table, lock, clock, args, prior>>

(* Mutant: no ROLLBACK, so the connection keeps the lock of its UPDATE. *)
FailWithoutRollback(r) ==
  /\ pc[r] \in InTx
  /\ Finish(r, 500)
  /\ UNCHANGED <<table, lock, clock, args, prior, seen>>

(* A statement fails or its connection drops: ROLLBACK, 500. *)
Fail(r) ==
  /\ pc[r] \in InTx
  /\ lock' = [p \in Plans |-> IF lock[p] = r THEN NoApproval ELSE lock[p]]
  /\ Finish(r, 500)
  /\ UNCHANGED <<table, clock, args, prior, seen>>

(* The API process dies: no request in flight is answered, and Postgres *)
(* rolls back every transaction it had not committed.                   *)
Crash ==
  /\ \E r \in Requests : InFlight(r)
  /\ pc' = [r \in Requests |-> IF InFlight(r) THEN "done" ELSE pc[r]]
  /\ lock' = [p \in Plans |-> NoApproval]
  /\ UNCHANGED <<table, clock, args, prior, seen, reply>>

Step(r) ==
  \/ ReadPlan(r) \/ PlanNotFound(r) \/ InvalidTransition(r)
  \/ InsertApproval(r) \/ UpdatePlan(r) \/ Commit(r)
  \/ ReadEntries(r) \/ Respond(r)

Next ==
  \/ \E p \in Plans : CreatePlan(p)
  \/ \E r \in Requests :
       \/ \E a \in Actions : Begin(r, a)
       \/ Step(r)
       \/ Fail(r)
  \/ Crash

Spec == Init /\ [][Next]_vars

(* withTenant ends every transaction it begins, and nothing in it waits for *)
(* the client: the statements of a request in flight are executed.          *)
FairSpec == Spec /\ \A r \in Requests : WF_vars(Step(r))
-----------------------------------------------------------------------------
TypeOK ==
  /\ status \in [Plans -> Statuses]
  /\ current \in [Plans -> Requests \cup {NoApproval}]
  /\ approvals \in SUBSET Requests
  /\ lock \in [Plans -> Requests \cup {NoApproval}]
  /\ clock \in Nat
  /\ pc \in [Requests -> PCs]
  /\ plan \in [Requests -> Plans]
  /\ action \in [Requests -> Actions]
  /\ began \in [Requests -> Nat]
  /\ prior \in [Requests -> Statuses]
  /\ seen \in [Requests -> SUBSET Requests]
  /\ reply \in [Requests -> {0, 200, 404, 409, 500}]

(* The status of a plan is always the new_status of the audit row it points *)
(* to, whatever requests overlap, fail or die (the INSERT and the UPDATE of *)
(* performTransition are one transaction).                                  *)
StatusPinned ==
  \A p \in Plans :
    IF status[p] \in {"absent", "draft"}
    THEN current[p] = NoApproval
    ELSE /\ current[p] \in approvals
         /\ plan[current[p]] = p
         /\ NewStatus(current[p]) = status[p]

(* A plan is never decided on unsubmitted: every approve or reject row has a *)
(* submit row of the same plan, although the status was read without a lock *)
(* and may have been overwritten since.                                      *)
EveryDecisionSubmitted ==
  \A r \in approvals :
    action[r] \in {"approve", "reject"} =>
      \E q \in approvals : plan[q] = plan[r] /\ action[q] = "submit"

(* What a client is told about its transition is what the audit log holds: a *)
(* 200 has its row, a 404 or a 409 has none (a 500, or no answer, can mean   *)
(* either).                                                                  *)
ReplyTellsAudit ==
  \A r \in Requests :
    action[r] \in Transitions =>
      /\ reply[r] = 200 => r \in approvals
      /\ reply[r] \in {404, 409} => r \notin approvals

(* The audit log always explains the current_status it is returned with: the *)
(* route reads the status first, then the entries, and what the second       *)
(* snapshot adds is more entries.                                            *)
LogCoversStatus ==
  \A r \in Requests :
    action[r] = "log" /\ reply[r] = 200 /\ prior[r] # "draft" =>
      \E q \in seen[r] : NewStatus(q) = prior[r]

(* approval.ts of the shared package: approved and rejected are terminal. *)
TerminalIsFinal ==
  [][\A p \in Plans :
       status[p] \in {"approved", "rejected"} => status'[p] = status[p]]_status

(* The audit log, which is sorted by created_at, lists the submission of a *)
(* plan before its decision.                                               *)
LogInOrder ==
  \A r \in approvals :
    action[r] \in {"approve", "reject"} =>
      \E q \in approvals :
        plan[q] = plan[r] /\ action[q] = "submit" /\ began[q] < began[r]

(* Sorted by created_at, the audit rows of a plan are a walk through the     *)
(* state machine that leaves each state once: every row starts where an      *)
(* earlier one ended and no two rows start from the same status.             *)
AuditWalk ==
  /\ LogInOrder
  /\ \A q, r \in approvals : plan[q] = plan[r] /\ prior[q] = prior[r] => q = r

Trail == [p \in Plans |-> {action[r] : r \in {q \in approvals : plan[q] = p}}]
SM == INSTANCE PlanStateMachine WITH state <- status, trail <- Trail

(* Whatever overlaps, the tables implement the weaker promise: a transition *)
(* lands where its action leads, and only submitted plans are decided on.   *)
ImplementsOverlapped == SM!Overlapped

(* As long as the transitions of a plan do not overlap, the tables implement *)
(* the state machine clients are promised.                                   *)
ImplementsMachine == SM!Machine

(* Every request the API has begun is answered, or its process dies: no two *)
(* transitions wait for each other, and a failed one keeps no lock.         *)
EveryRequestEnds == \A r \in Requests : pc[r] = "begun" ~> pc[r] = "done"
=============================================================================
