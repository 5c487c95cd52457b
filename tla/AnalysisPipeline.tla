-------------------------- MODULE AnalysisPipeline --------------------------
(***************************************************************************)
(* The two analyses of one intake: POST and GET of /intake/:id/rca         *)
(* (apps/api/src/routes/rca.ts) and of /intake/:id/repair-plan             *)
(* (apps/api/src/routes/repair-plan.ts).                                   *)
(*                                                                         *)
(* Both POSTs read their context in one transaction, await Bob outside of  *)
(* any, and write a row and its details (the snippets of a finding, the    *)
(* steps of a plan) one by one in a second transaction.  Anything may have *)
(* happened in between: newer findings, the same request again, a crash.   *)
(*                                                                         *)
(* Of Bob only the promise is assumed (BobPromise, which BobCall           *)
(* implements).  A POST creates at most one row, so it names the row.      *)
(***************************************************************************)
EXTENDS Naturals

CONSTANTS
  Requests,   \* the POSTs the API receives, each served once
  Readers,    \* the GETs the API receives, each served once
  Kinds,      \* which analysis each of them asks for: sets of functions
  NoRow,      \* no row
  MaxItems    \* bound on the snippets or steps of one answer (8 and 12)

ASSUME KindsAssumption == Kinds \subseteq [Requests \cup Readers -> {"rca", "plan"}]
ASSUME ActorsAssumption == Requests \cap Readers = {}
ASSUME NoRowAssumption == NoRow \notin Requests
ASSUME MaxItemsAssumption == MaxItems \in Nat \ {0}

VARIABLES
  promise,   \* of the request's call of Bob
  intake,    \* "absent", "blank" (its masked body is empty) or "ready"
  rows,      \* committed rows of rca_findings and repair_plans
  details,   \* committed rows of rca_evidence and repair_steps, per parent
  clock,     \* the database clock
  kind,      \* which POST a request is, which analysis a GET asks for
  pc,        \* where the request is
  basis,     \* the finding a plan is made from,
  quoted,    \* and how many of its snippets are in the prompt
  items,     \* how many details Bob's answer has,
  wrote,     \* and how many of them the transaction has inserted
  made,      \* created_at of the request's row
  found, shown,   \* the row a GET has read, and how many details
  reply      \* the HTTP status of the answer; 0: none

INSTANCE BobPromise WITH Calls <- Requests

store   == <<intake, rows, details>>
context == <<basis, quoted>>
draft   == <<items, wrote, made, clock>>
got     == <<found, shown>>
vars    == <<promise, intake, rows, details, clock, kind, pc, basis, quoted,
             items, wrote, made, found, shown, reply>>

InTx  == {"begun", "looked", "based", "writing"}
PCs   == {"idle", "read", "asking", "committed", "done"} \cup InTx
InFlight(r) == pc[r] \notin {"idle", "done"}

Goto(r, label) ==
  /\ pc' = [pc EXCEPT ![r] = label]
  /\ UNCHANGED reply
Finish(r, code) ==
  /\ pc' = [pc EXCEPT ![r] = "done"]
  /\ reply' = [reply EXCEPT ![r] = code]

Findings == {r \in rows : kind[r] = "rca"}
(* ORDER BY created_at DESC LIMIT 1, among the rows of an analysis. *)
Newest(which) ==
  {r \in rows : kind[r] = which /\ \A q \in rows : kind[q] = which => made[q] <= made[r]}

Init ==
  /\ PromiseInit
  /\ intake = "absent"
  /\ rows = {}
  /\ details = [r \in Requests |-> 0]
  /\ clock = 0
  /\ kind \in Kinds
  /\ pc = [r \in Requests \cup Readers |-> "idle"]
  /\ basis = [r \in Requests |-> NoRow]
  /\ quoted = [r \in Requests |-> 0]
  /\ items = [r \in Requests |-> 0]
  /\ wrote = [r \in Requests |-> 0]
  /\ made = [r \in Requests |-> 0]
  /\ found = [g \in Readers |-> NoRow]
  /\ shown = [g \in Readers |-> 0]
  /\ reply = [r \in Requests \cup Readers |-> 0]

-----------------------------------------------------------------------------
(* POST /intake commits; the masked body is there for good, if it is blank. *)
Ingest ==
  /\ intake = "absent"
  /\ intake' \in {"blank", "ready"}
  /\ UNCHANGED <<promise, rows, details, draft, kind, pc, context, got, reply>>

(* Malformed id (400) or body (422). *)
Refuse(r) ==
  /\ pc[r] = "idle"
  /\ \E code \in {400, 422} : Finish(r, code)
  /\ UNCHANGED <<promise, store, draft, kind, context, got>>

Begin(r) ==
  /\ pc[r] = "idle"
  /\ Goto(r, "begun")
  /\ UNCHANGED <<promise, store, draft, kind, context, got>>

(* SELECT ... FROM intake_meta; RCA joins the masked body, a plan looks on. *)
ReadIntake(r) ==
  /\ pc[r] = "begun"
  /\ intake # "absent"
  /\ \/ kind[r] = "rca" /\ intake = "ready" /\ Goto(r, "read")
     \/ kind[r] = "plan" /\ Goto(r, "looked")
  /\ UNCHANGED <<promise, store, draft, kind, context, got>>

(* 404 intake_not_found, or 412 mask_preview_unavailable. *)
NoContext(r) ==
  /\ pc[r] = "begun"
  /\ \/ intake = "absent" /\ Finish(r, 404)
     \/ intake = "blank" /\ kind[r] = "rca" /\ Finish(r, 412)
  /\ UNCHANGED <<promise, store, draft, kind, context, got>>

(* SELECT ... FROM rca_findings: the newest finding. *)
ReadFinding(r) ==
  /\ pc[r] = "looked"
  /\ \E f \in Newest("rca") : basis' = [basis EXCEPT ![r] = f]
  /\ Goto(r, "based")
  /\ UNCHANGED <<promise, store, draft, kind, quoted, got>>

(* 412 rca_required. *)
RcaRequired(r) ==
  /\ pc[r] = "looked"
  /\ Findings = {}
  /\ Finish(r, 412)
  /\ UNCHANGED <<promise, store, draft, kind, context, got>>

(* SELECT ... FROM rca_evidence, on a later snapshot. *)
ReadEvidence(r) ==
  /\ pc[r] = "based"
  /\ quoted' = [quoted EXCEPT ![r] = details[basis[r]]]
  /\ Goto(r, "read")
  /\ UNCHANGED <<promise, store, draft, kind, basis, got>>

-----------------------------------------------------------------------------
(* runRca or runRepairPlan, with no transaction open. *)
AskBob(r) ==
  /\ pc[r] = "read"
  /\ Call(r)
  /\ Goto(r, "asking")
  /\ UNCHANGED <<store, draft, kind, context, got>>

BobSettles(r) ==
  /\ Settle(r)
  /\ UNCHANGED <<store, draft, kind, pc, context, got, reply>>

ErrorCode(outcome) ==
  IF outcome = "timeout" THEN 504
  ELSE IF outcome = "parse" THEN 502
  ELSE IF outcome = "invocation" THEN 503 ELSE 500

(* Mutant: the catch block does not throw on what it does not know. *)
BobFailedSilently(r) ==
  /\ pc[r] = "asking"
  /\ promise[r] \in TypedErrors
  /\ Finish(r, ErrorCode(promise[r]))
  /\ UNCHANGED <<promise, store, draft, kind, context, got>>

(* The catch block; what is not one of its classes is thrown on: 500. *)
BobFailed(r) ==
  /\ pc[r] = "asking"
  /\ promise[r] \in TypedErrors \cup {"untyped"}
  /\ Finish(r, ErrorCode(promise[r]))
  /\ UNCHANGED <<promise, store, draft, kind, context, got>>

(* Mutant: created_at is the start of the request, not of the transaction. *)
InsertRowBackdated(r) ==
  /\ pc[r] = "asking"
  /\ promise[r] = "answer"
  /\ \E n \in 1..MaxItems : items' = [items EXCEPT ![r] = n]
  /\ Goto(r, "writing")
  /\ UNCHANGED <<promise, store, wrote, made, clock, kind, context, got>>

(* The second withTenant: BEGIN, and the INSERT of the finding or the plan. *)
InsertRow(r) ==
  /\ pc[r] = "asking"
  /\ promise[r] = "answer"
  /\ \E n \in 1..MaxItems : items' = [items EXCEPT ![r] = n]
  /\ made' = [made EXCEPT ![r] = clock + 1]
  /\ clock' = clock + 1
  /\ Goto(r, "writing")
  /\ UNCHANGED <<promise, store, wrote, kind, context, got>>

(* The loop over the snippets or steps. *)
InsertItem(r) ==
  /\ pc[r] = "writing"
  /\ wrote[r] < items[r]
  /\ wrote' = [wrote EXCEPT ![r] = @ + 1]
  /\ UNCHANGED <<promise, store, items, made, clock, kind, pc, context, got, reply>>

(* Mutant: the loop is not awaited. *)
CommitUnawaited(r) ==
  /\ pc[r] = "writing"
  /\ rows' = rows \cup {r}
  /\ details' = [details EXCEPT ![r] = wrote[r]]
  /\ Goto(r, "committed")
  /\ UNCHANGED <<promise, intake, draft, kind, context, got>>

(* COMMIT. *)
Commit(r) ==
  /\ pc[r] = "writing"
  /\ wrote[r] = items[r]
  /\ rows' = rows \cup {r}
  /\ details' = [details EXCEPT ![r] = wrote[r]]
  /\ Goto(r, "committed")
  /\ UNCHANGED <<promise, intake, draft, kind, context, got>>

(* 201, unless the acknowledgement of the COMMIT is lost. *)
Respond(r) ==
  /\ pc[r] = "committed"
  /\ \E code \in {201, 500} : Finish(r, code)
  /\ UNCHANGED <<promise, store, draft, kind, context, got>>

(* Mutant: no ROLLBACK; what was inserted stays. *)
FailKeeping(r) ==
  /\ pc[r] \in InTx
  /\ rows' = IF pc[r] = "writing" THEN rows \cup {r} ELSE rows
  /\ details' = [details EXCEPT ![r] = wrote[r]]
  /\ Finish(r, 500)
  /\ UNCHANGED <<promise, intake, draft, kind, context, got>>

(* A statement of either transaction fails: ROLLBACK, 500. *)
Fail(r) ==
  /\ pc[r] \in InTx
  /\ Finish(r, 500)
  /\ UNCHANGED <<promise, store, draft, kind, context, got>>

(* The API dies: nobody is answered, what was not committed is not. *)
Crash ==
  /\ \E r \in Requests : InFlight(r)
  /\ Lose({})
  /\ pc' = [r \in DOMAIN pc |-> IF InFlight(r) THEN "done" ELSE pc[r]]
  /\ UNCHANGED <<store, draft, kind, context, got, reply>>

-----------------------------------------------------------------------------
(* Mutant: the oldest row. *)
GetRowOldest(g) ==
  /\ pc[g] = "idle"
  /\ \E r \in rows :
       /\ kind[r] = kind[g]
       /\ \A q \in rows : kind[q] = kind[g] => made[r] <= made[q]
       /\ found' = [found EXCEPT ![g] = r]
  /\ Goto(g, "read")
  /\ UNCHANGED <<promise, store, draft, kind, context, shown>>

(* GET, first statement: the newest finding or plan. *)
GetRow(g) ==
  /\ pc[g] = "idle"
  /\ \E r \in Newest(kind[g]) : found' = [found EXCEPT ![g] = r]
  /\ Goto(g, "read")
  /\ UNCHANGED <<promise, store, draft, kind, context, shown>>

(* 404 rca_not_found or repair_plan_not_found. *)
GetNothing(g) ==
  /\ pc[g] = "idle"
  /\ Newest(kind[g]) = {}
  /\ Finish(g, 404)
  /\ UNCHANGED <<promise, store, draft, kind, context, got>>

(* GET, second statement, on a snapshot of its own: the row's details. *)
GetDetails(g) ==
  /\ pc[g] = "read"
  /\ shown' = [shown EXCEPT ![g] = details[found[g]]]
  /\ Finish(g, 200)
  /\ UNCHANGED <<promise, store, draft, kind, context, found>>

Step(r) ==
  \/ ReadIntake(r) \/ NoContext(r) \/ ReadFinding(r) \/ RcaRequired(r)
  \/ ReadEvidence(r) \/ AskBob(r) \/ BobSettles(r) \/ BobFailed(r)
  \/ InsertRow(r) \/ InsertItem(r) \/ Commit(r) \/ Respond(r)

Next ==
  \/ Ingest
  \/ \E r \in Requests : Refuse(r) \/ Begin(r) \/ Step(r) \/ Fail(r)
  \/ Crash
  \/ \E g \in Readers : GetRow(g) \/ GetNothing(g) \/ GetDetails(g)

Spec == Init /\ [][Next]_vars

(* withTenant ends its transactions, and Bob's timer settles his promise. *)
FairSpec == Spec /\ \A r \in Requests : WF_vars(Step(r))

-----------------------------------------------------------------------------
TypeOK ==
  /\ promise \in [Requests -> {"uncalled", "pending", "lost"} \cup Settled]
  /\ intake \in {"absent", "blank", "ready"}
  /\ rows \in SUBSET Requests
  /\ details \in [Requests -> Nat]
  /\ clock \in Nat
  /\ kind \in Kinds
  /\ pc \in [Requests \cup Readers -> PCs]
  /\ basis \in [Requests -> Requests \cup {NoRow}]
  /\ quoted \in [Requests -> Nat]
  /\ items \in [Requests -> 0..MaxItems]
  /\ wrote \in [Requests -> 0..MaxItems]
  /\ made \in [Requests -> Nat]
  /\ found \in [Readers -> Requests \cup {NoRow}]
  /\ shown \in [Readers -> 0..MaxItems]
  /\ reply \in [Requests \cup Readers ->
                  {0, 200, 201, 400, 404, 412, 422, 500, 502, 503, 504}]

(* A finding has all of its snippets and a plan all of its steps, and none *)
(* is left without its row, wherever the loop was cut off.                 *)
RowsWhole ==
  \A r \in Requests : details[r] = IF r \in rows THEN items[r] ELSE 0

(* What a GET shows is what Bob answered, though it reads the row and its *)
(* details on two snapshots.                                              *)
GetShowsWhole ==
  \A g \in Readers : reply[g] = 200 => found[g] \in rows /\ shown[g] = items[found[g]]

(* A plan is made from a finding that is stored, with all of its evidence in *)
(* the prompt, and is listed after it: its created_at is later, although     *)
(* both are the starts of transactions that may have overlapped others.      *)
PlanHasBasis ==
  \A p \in rows :
    kind[p] = "plan" =>
      /\ basis[p] \in Findings
      /\ quoted[p] = items[basis[p]]
      /\ made[basis[p]] < made[p]

(* What a client is told agrees with the tables: a 201 has its row; Bob's *)
(* failures and missing preconditions leave none.                         *)
AnswerTellsRow ==
  \A r \in Requests :
    /\ reply[r] = 201 => r \in rows
    /\ reply[r] \in {400, 404, 412, 422, 502, 503, 504} => r \notin rows

(* A GET is never older than an analysis whose 201 was sent before it. *)
GetIsFresh ==
  [][\A g \in Readers, r \in Requests :
       found'[g] # found[g] /\ reply[r] = 201 /\ kind[r] = kind[g] =>
         made[r] <= made[found'[g]]]_<<found, reply>>

(* Every POST that begins ends, with an answer or with its process. *)
EveryRequestEnds == \A r \in Requests : pc[r] = "begun" ~> pc[r] = "done"
=============================================================================
