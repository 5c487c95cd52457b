----------------------- MODULE ApprovalWorkflowProofs -----------------------
(***************************************************************************)
(* Proofs about ApprovalWorkflow, for any sets of plans and requests.      *)
(*                                                                         *)
(* Part 1 holds however the requests overlap.  Its inductive invariant     *)
(* records what the statements of performTransition rely on: a row that is *)
(* committed never changes again, every status a request has read was      *)
(* written by a committed row, and only legal rows are written.            *)
(***************************************************************************)
EXTENDS ApprovalWorkflow, TLAPS

(* Requests that have, or may still get, a row. *)
Writing(r) == pc[r] \in {"read", "inserted", "updated"} /\ action[r] \in Transitions

(* A committed row belongs to a request past its COMMIT; nobody is answered *)
(* before the end.                                                          *)
RowsSettled ==
  /\ \A r \in approvals : pc[r] \in {"committed", "done"} /\ action[r] \in Transitions
  /\ \A r \in Requests :
       /\ pc[r] = "committed" => r \in approvals
       /\ pc[r] \in {"inserted", "updated"} => action[r] \in Transitions
       /\ pc[r] = "read" => prior[r] # "absent"
       /\ pc[r] # "done" => reply[r] = 0
       /\ seen[r] \subseteq approvals

(* The rows written, and those about to be, are rows of TRANSITIONS. *)
RowsLegal ==
  \A r \in Requests : r \in approvals \/ Writing(r) => NewStatus(r) # "none"

(* A status other than draft was read because a committed row had set it. *)
PriorWritten ==
  \A r \in Requests :
    prior[r] \in {"absent", "draft"}
    \/ \E q \in approvals : plan[q] = plan[r] /\ NewStatus(q) = prior[r]

(* A transition that may still write has found its plan, and plans stay. *)
PlanFound == \A r \in Requests : Writing(r) => status[plan[r]] # "absent"

IInv ==
  /\ TypeOK
  /\ RowsSettled
  /\ RowsLegal
  /\ PlanFound
  /\ StatusPinned
  /\ PriorWritten
  /\ ReplyTellsAudit
  /\ LogCoversStatus

-----------------------------------------------------------------------------
(* lookupNext yields a status a plan has after submission, or none. *)
LEMMA LookupNextRange ==
  ASSUME NEW from, NEW act
  PROVE  LookupNext(from, act) \in {"submitted", "approved", "rejected", "none"}
BY DEF LookupNext

(* The statuses lookupNext leads to determine the action taken. *)
LEMMA LookupNextAction ==
  ASSUME NEW from, NEW act
  PROVE  /\ LookupNext(from, act) = "submitted" => from = "draft" /\ act = "submit"
         /\ LookupNext(from, act) = "approved" => from = "submitted" /\ act = "approve"
         /\ LookupNext(from, act) = "rejected" => from = "submitted" /\ act = "reject"
BY DEF LookupNext

(* Nothing has happened yet. *)
LEMMA InitIInv == Init => IInv
BY NoApprovalAssumption
   DEF Init, IInv, TypeOK, RowsSettled, RowsLegal, PlanFound, StatusPinned, PriorWritten,
       ReplyTellsAudit, LogCoversStatus, Writing, Statuses, PCs, InTx, Actions,
       Transitions

(* Only a COMMIT adds a row, and it settles its request. *)
LEMMA SettledNext ==
  ASSUME TypeOK, RowsSettled, [Next]_vars
  PROVE  RowsSettled'
<1>. USE DEF TypeOK, RowsSettled, InTx, PCs, Transitions, Actions, Statuses,
       table, args
<1>1. ASSUME NEW r \in Requests, NEW a \in Actions, Begin(r, a)
      PROVE  RowsSettled'
  BY <1>1 DEF Begin
<1>2. ASSUME NEW r \in Requests, ReadPlan(r) PROVE RowsSettled'
  BY <1>2 DEF ReadPlan
<1>3. ASSUME NEW r \in Requests, Commit(r) PROVE RowsSettled'
  BY <1>3 DEF Commit
<1>4. ASSUME NEW r \in Requests, ReadEntries(r) PROVE RowsSettled'
  BY <1>4 DEF ReadEntries, Finish
<1>5. ASSUME NEW r \in Requests,
           PlanNotFound(r) \/ InvalidTransition(r) \/ InsertApproval(r)
           \/ UpdatePlan(r) \/ Respond(r) \/ Fail(r)
     PROVE  RowsSettled'
  BY <1>5 DEF PlanNotFound, Finish, InvalidTransition, InsertApproval,
      UpdatePlan, Respond, Fail
<1>6. ASSUME NEW p \in Plans, CreatePlan(p) PROVE RowsSettled'
  BY <1>6 DEF CreatePlan
<1>7. ASSUME Crash PROVE RowsSettled'
  BY <1>7 DEF Crash, InFlight
<1>8. CASE UNCHANGED vars
  BY <1>8 DEF vars
<1>. QED
  BY <1>1, <1>2, <1>3, <1>4, <1>5, <1>6, <1>7, <1>8 DEF Next, Step

(* Types; LookupNextRange types the status a COMMIT writes. *)
LEMMA TypeNext ==
  ASSUME TypeOK, RowsSettled, RowsLegal, [Next]_vars
  PROVE  TypeOK'
<1>. USE NoApprovalAssumption DEF TypeOK, RowsSettled, RowsLegal, Writing,
       NewStatus, InTx, PCs, Transitions, Actions, Statuses, table, args
<1>1. ASSUME NEW r \in Requests, Commit(r) PROVE TypeOK'
  BY <1>1, LookupNextRange DEF Commit
<1>2. ASSUME NEW r \in Requests,
           ReadPlan(r) \/ PlanNotFound(r) \/ InvalidTransition(r)
           \/ InsertApproval(r) \/ UpdatePlan(r) \/ ReadEntries(r)
           \/ Respond(r) \/ Fail(r)
     PROVE  TypeOK'
  BY <1>2 DEF ReadPlan, PlanNotFound, Finish, InvalidTransition,
      InsertApproval, UpdatePlan, ReadEntries, Respond, Fail
<1>3. ASSUME NEW p \in Plans, CreatePlan(p) PROVE TypeOK'
  BY <1>3 DEF CreatePlan
<1>4. ASSUME NEW r \in Requests, NEW a \in Actions, Begin(r, a) PROVE TypeOK'
  BY <1>4 DEF Begin
<1>5. ASSUME Crash PROVE TypeOK'
  BY <1>5 DEF Crash, InFlight
<1>6. CASE UNCHANGED vars
  BY <1>6 DEF vars
<1>. QED
  BY <1>1, <1>2, <1>3, <1>4, <1>5, <1>6 DEF Next, Step

(* A request gets past its SELECT only along a legal edge. *)
LEMMA LegalNext ==
  ASSUME TypeOK, RowsSettled, RowsLegal, [Next]_vars
  PROVE  RowsLegal'
<1>. USE DEF TypeOK, RowsSettled, RowsLegal, Writing, NewStatus, InTx, PCs,
       Transitions, Actions, Statuses, table, args
<1>1. ASSUME NEW r \in Requests, NEW a \in Actions, Begin(r, a)
      PROVE  RowsLegal'
  BY <1>1 DEF Begin
<1>2. ASSUME NEW r \in Requests, ReadPlan(r) PROVE RowsLegal'
  BY <1>2 DEF ReadPlan
<1>3. ASSUME NEW r \in Requests, InvalidTransition(r) PROVE RowsLegal'
  BY <1>3 DEF InvalidTransition, Finish
<1>4. ASSUME NEW r \in Requests, Commit(r) PROVE RowsLegal'
  BY <1>4 DEF Commit
<1>5. ASSUME NEW r \in Requests,
           PlanNotFound(r) \/ InsertApproval(r) \/ UpdatePlan(r)
           \/ ReadEntries(r) \/ Respond(r) \/ Fail(r)
     PROVE  RowsLegal'
  BY <1>5 DEF PlanNotFound, Finish, InsertApproval, UpdatePlan, ReadEntries,
      Respond, Fail
<1>6. ASSUME NEW p \in Plans, CreatePlan(p) PROVE RowsLegal'
  BY <1>6 DEF CreatePlan
<1>7. ASSUME Crash PROVE RowsLegal'
  BY <1>7 DEF Crash, InFlight
<1>8. CASE UNCHANGED vars
  BY <1>8 DEF vars
<1>. QED
  BY <1>1, <1>2, <1>3, <1>4, <1>5, <1>6, <1>7, <1>8 DEF Next, Step

(* No step makes a plan absent: lookupNext leads to no such status. *)
LEMMA FoundNext ==
  ASSUME TypeOK, RowsSettled, RowsLegal, PlanFound, [Next]_vars
  PROVE  PlanFound'
<1>. USE DEF TypeOK, RowsSettled, RowsLegal, PlanFound, Writing, NewStatus,
       InTx, PCs, Transitions, Actions, Statuses, table, args
<1>1. ASSUME NEW r \in Requests, NEW a \in Actions, Begin(r, a)
      PROVE  PlanFound'
  BY <1>1 DEF Begin
<1>2. ASSUME NEW r \in Requests, ReadPlan(r) PROVE PlanFound'
  BY <1>2 DEF ReadPlan
<1>3. ASSUME NEW r \in Requests, Commit(r) PROVE PlanFound'
  BY <1>3, LookupNextRange DEF Commit
<1>4. ASSUME NEW r \in Requests,
           PlanNotFound(r) \/ InvalidTransition(r) \/ InsertApproval(r)
           \/ UpdatePlan(r) \/ ReadEntries(r) \/ Respond(r) \/ Fail(r)
     PROVE  PlanFound'
  BY <1>4 DEF PlanNotFound, Finish, InvalidTransition, InsertApproval,
      UpdatePlan, ReadEntries, Respond, Fail
<1>5. ASSUME NEW p \in Plans, CreatePlan(p) PROVE PlanFound'
  BY <1>5 DEF CreatePlan
<1>6. ASSUME Crash PROVE PlanFound'
  BY <1>6 DEF Crash, InFlight
<1>7. CASE UNCHANGED vars
  BY <1>7 DEF vars
<1>. QED
  BY <1>1, <1>2, <1>3, <1>4, <1>5, <1>6, <1>7 DEF Next, Step

(* A COMMIT writes the status and the pin together, and keeps every row. *)
LEMMA PinnedNext ==
  ASSUME TypeOK, RowsSettled, RowsLegal, StatusPinned, [Next]_vars
  PROVE  StatusPinned'
<1>. USE NoApprovalAssumption DEF TypeOK, RowsSettled, RowsLegal,
       StatusPinned, Writing, NewStatus, InTx, PCs, Transitions, Actions,
       Statuses, table, args
<1>1. ASSUME NEW p \in Plans, CreatePlan(p) PROVE StatusPinned'
  BY <1>1 DEF CreatePlan
<1>2. ASSUME NEW r \in Requests, NEW a \in Actions, Begin(r, a)
      PROVE  StatusPinned'
  BY <1>2 DEF Begin
<1>3. ASSUME NEW r \in Requests, ReadPlan(r) PROVE StatusPinned'
  BY <1>3 DEF ReadPlan
<1>4. ASSUME NEW r \in Requests, InvalidTransition(r) PROVE StatusPinned'
  BY <1>4 DEF InvalidTransition, Finish
<1>5. ASSUME NEW r \in Requests, Commit(r) PROVE StatusPinned'
  BY <1>5, LookupNextRange DEF Commit
<1>6. ASSUME NEW r \in Requests,
           PlanNotFound(r) \/ InsertApproval(r) \/ UpdatePlan(r)
           \/ ReadEntries(r) \/ Respond(r) \/ Fail(r)
     PROVE  StatusPinned'
  BY <1>6 DEF PlanNotFound, Finish, InsertApproval, UpdatePlan, ReadEntries,
      Respond, Fail
<1>7. ASSUME Crash PROVE StatusPinned'
  BY <1>7 DEF Crash, InFlight
<1>8. CASE UNCHANGED vars
  BY <1>8 DEF vars
<1>. QED
  BY <1>1, <1>2, <1>3, <1>4, <1>5, <1>6, <1>7, <1>8 DEF Next, Step

(* The status a SELECT returns is pinned to the row that set it. *)
LEMMA WrittenNext ==
  ASSUME TypeOK, RowsSettled, StatusPinned, PriorWritten, [Next]_vars
  PROVE  PriorWritten'
<1>. USE DEF TypeOK, RowsSettled, StatusPinned, PriorWritten, NewStatus, InTx,
       PCs, Transitions, Actions, Statuses, table, args
<1>1. ASSUME NEW r \in Requests, NEW a \in Actions, Begin(r, a)
      PROVE  PriorWritten'
  BY <1>1 DEF Begin
<1>2. ASSUME NEW r \in Requests, ReadPlan(r) PROVE PriorWritten'
  BY <1>2 DEF ReadPlan
<1>3. ASSUME NEW r \in Requests, InvalidTransition(r) PROVE PriorWritten'
  BY <1>3 DEF InvalidTransition, Finish
<1>4. ASSUME NEW r \in Requests, Commit(r) PROVE PriorWritten'
  BY <1>4 DEF Commit
<1>5. ASSUME NEW r \in Requests,
           PlanNotFound(r) \/ InsertApproval(r) \/ UpdatePlan(r)
           \/ ReadEntries(r) \/ Respond(r) \/ Fail(r)
     PROVE  PriorWritten'
  BY <1>5 DEF PlanNotFound, Finish, InsertApproval, UpdatePlan, ReadEntries,
      Respond, Fail
<1>6. ASSUME NEW p \in Plans, CreatePlan(p) PROVE PriorWritten'
  BY <1>6 DEF CreatePlan
<1>7. ASSUME Crash PROVE PriorWritten'
  BY <1>7 DEF Crash, InFlight
<1>8. CASE UNCHANGED vars
  BY <1>8 DEF vars
<1>. QED
  BY <1>1, <1>2, <1>3, <1>4, <1>5, <1>6, <1>7, <1>8 DEF Next, Step

(* 200 follows a COMMIT; 404 and 409 follow a SELECT alone. *)
LEMMA ReplyNext ==
  ASSUME TypeOK, RowsSettled, ReplyTellsAudit, [Next]_vars
  PROVE  ReplyTellsAudit'
<1>. USE DEF TypeOK, RowsSettled, ReplyTellsAudit, InTx, PCs, Transitions,
       Actions, Statuses, table, args
<1>1. ASSUME NEW r \in Requests, NEW a \in Actions, Begin(r, a)
      PROVE  ReplyTellsAudit'
  BY <1>1 DEF Begin
<1>2. ASSUME NEW r \in Requests, Respond(r) PROVE ReplyTellsAudit'
  BY <1>2 DEF Respond, Finish
<1>3. ASSUME NEW r \in Requests,
           ReadPlan(r) \/ PlanNotFound(r) \/ InvalidTransition(r)
           \/ InsertApproval(r) \/ UpdatePlan(r) \/ Commit(r)
           \/ ReadEntries(r) \/ Fail(r)
     PROVE  ReplyTellsAudit'
  BY <1>3 DEF ReadPlan, PlanNotFound, Finish, InvalidTransition,
      InsertApproval, UpdatePlan, Commit, ReadEntries, Fail
<1>4. ASSUME NEW p \in Plans, CreatePlan(p) PROVE ReplyTellsAudit'
  BY <1>4 DEF CreatePlan
<1>5. ASSUME Crash PROVE ReplyTellsAudit'
  BY <1>5 DEF Crash, InFlight
<1>6. CASE UNCHANGED vars
  BY <1>6 DEF vars
<1>. QED
  BY <1>1, <1>2, <1>3, <1>4, <1>5, <1>6 DEF Next, Step

(* The entries are read after the status, and rows are kept. *)
LEMMA LogNext ==
  ASSUME TypeOK, RowsSettled, PriorWritten, LogCoversStatus, [Next]_vars
  PROVE  LogCoversStatus'
<1>. USE DEF TypeOK, RowsSettled, PriorWritten, LogCoversStatus, NewStatus,
       InTx, PCs, Transitions, Actions, Statuses, table, args
<1>1. ASSUME NEW r \in Requests, NEW a \in Actions, Begin(r, a)
      PROVE  LogCoversStatus'
  BY <1>1 DEF Begin
<1>2. ASSUME NEW r \in Requests, ReadPlan(r) PROVE LogCoversStatus'
  BY <1>2 DEF ReadPlan
<1>3. ASSUME NEW r \in Requests, InvalidTransition(r) PROVE LogCoversStatus'
  BY <1>3 DEF InvalidTransition, Finish
<1>4. ASSUME NEW r \in Requests, ReadEntries(r) PROVE LogCoversStatus'
  BY <1>4 DEF ReadEntries, Finish
<1>5. ASSUME NEW r \in Requests,
           PlanNotFound(r) \/ InsertApproval(r) \/ UpdatePlan(r)
           \/ Commit(r) \/ Respond(r) \/ Fail(r)
     PROVE  LogCoversStatus'
  BY <1>5 DEF PlanNotFound, Finish, InsertApproval, UpdatePlan, Commit,
      Respond, Fail
<1>6. ASSUME NEW p \in Plans, CreatePlan(p) PROVE LogCoversStatus'
  BY <1>6 DEF CreatePlan
<1>7. ASSUME Crash PROVE LogCoversStatus'
  BY <1>7 DEF Crash, InFlight
<1>8. CASE UNCHANGED vars
  BY <1>8 DEF vars
<1>. QED
  BY <1>1, <1>2, <1>3, <1>4, <1>5, <1>6, <1>7, <1>8 DEF Next, Step

(* Every step preserves the invariant. *)
LEMMA NextIInv == IInv /\ [Next]_vars => IInv'
BY SettledNext, TypeNext, LegalNext, FoundNext, PinnedNext, WrittenNext,
   ReplyNext, LogNext DEF IInv

(* The inductive invariant holds of every behaviour. *)
THEOREM Invariance == Spec => []IInv
BY InitIInv, NextIInv, PTL DEF Spec

(* The variables keep their types. *)
THEOREM TypeCorrect == Spec => []TypeOK
BY Invariance, PTL DEF IInv

(* However requests overlap, fail or die, a plan's status is the new_status *)
(* of the audit row it is pinned to.                                        *)
THEOREM StatusAlwaysPinned == Spec => []StatusPinned
BY Invariance, PTL DEF IInv

(* What a client was told about a transition agrees with the audit log. *)
THEOREM RepliesAgree == Spec => []ReplyTellsAudit
BY Invariance, PTL DEF IInv

(* An audit log always explains the status it is returned with. *)
THEOREM LogsExplain == Spec => []LogCoversStatus
BY Invariance, PTL DEF IInv

(* No overlap of requests lets a plan be decided on before it was submitted: *)
(* a decision has read "submitted", and only a submit row sets that.         *)
THEOREM DecisionsSubmitted == Spec => []EveryDecisionSubmitted
<1>1. IInv => EveryDecisionSubmitted
  <2>. SUFFICES ASSUME IInv, NEW r \in approvals, action[r] \in {"approve", "reject"}
                PROVE  \E q \in approvals : plan[q] = plan[r] /\ action[q] = "submit"
    BY DEF EveryDecisionSubmitted
  <2>1. r \in Requests /\ prior[r] = "submitted"
    BY LookupNextRange DEF IInv, TypeOK, RowsLegal, NewStatus, LookupNext
  <2>2. PICK q \in approvals : plan[q] = plan[r] /\ NewStatus(q) = "submitted"
    BY <2>1 DEF IInv, PriorWritten
  <2>3. action[q] = "submit"
    BY <2>2, LookupNextAction DEF NewStatus
  <2>. QED
    BY <2>2, <2>3
<1>. QED
  BY <1>1, Invariance, PTL

-----------------------------------------------------------------------------
(***************************************************************************)
(* Part 2 assumes that the transitions of one plan do not overlap, and     *)
(* shows that the tables then implement PlanStateMachine.  The invariant   *)
(* adds what that buys: the status a transition has read is still the      *)
(* status of the plan when it writes, and rows are committed in the order  *)
(* of their created_at.                                                    *)
(***************************************************************************)
OneTransition ==
  \A q, r \in Requests :
    /\ InFlight(q) /\ action[q] \in Transitions
    /\ InFlight(r) /\ action[r] \in Transitions
    /\ plan[q] = plan[r]
    => q = r

PriorCurrent ==
  \A r \in Requests : Writing(r) => prior[r] = status[plan[r]]

(* A plan has left behind the statuses its rows started from. *)
LeftBehind ==
  \A q \in approvals :
    \/ status[plan[q]] = "submitted" /\ prior[q] = "draft"
    \/ /\ status[plan[q]] \in {"approved", "rejected"}
       /\ prior[q] \in {"draft", "submitted"}

(* BEGIN draws later times, so a transition in flight is younger than the *)
(* rows of its plan.                                                      *)
Younger ==
  /\ \A r \in Requests : pc[r] # "idle" => began[r] < clock
  /\ \A q \in approvals, r \in Requests :
       pc[r] \in InTx /\ action[r] \in Transitions /\ plan[q] = plan[r] =>
         began[q] < began[r]

SerialInv == OneTransition /\ PriorCurrent /\ LeftBehind /\ Younger /\ AuditWalk

(* No request is in flight and no row is written. *)
LEMMA InitSerial == Init => SerialInv
BY DEF Init, SerialInv, OneTransition, PriorCurrent, LeftBehind, Younger,
       AuditWalk, LogInOrder, Writing, InFlight, InTx, Transitions


(* Begin keeps a second transition of the plan out. *)
LEMMA OneTransitionNext ==
  ASSUME ~Overlap, TypeOK, RowsSettled, OneTransition, [Next]_vars
  PROVE  OneTransition'
<1>. USE DEF OneTransition, InFlight, TypeOK, RowsSettled, InTx, PCs,
     Transitions, Actions, Statuses, table, args
<1>1. ASSUME NEW r \in Requests, NEW a \in Actions, Begin(r, a)
      PROVE  OneTransition'
  BY <1>1 DEF Begin
<1>2. ASSUME NEW r \in Requests,
           ReadPlan(r) \/ PlanNotFound(r) \/ InvalidTransition(r)
           \/ InsertApproval(r) \/ UpdatePlan(r) \/ Commit(r)
           \/ ReadEntries(r) \/ Respond(r) \/ Fail(r)
     PROVE  OneTransition'
  BY <1>2 DEF ReadPlan, PlanNotFound, Finish, InvalidTransition,
       InsertApproval, UpdatePlan, Commit, ReadEntries, Respond, Fail
<1>3. ASSUME NEW p \in Plans, CreatePlan(p) PROVE OneTransition'
  BY <1>3 DEF CreatePlan
<1>4. ASSUME Crash PROVE OneTransition'
  BY <1>4 DEF Crash, InFlight
<1>5. CASE UNCHANGED vars
  BY <1>5 DEF vars
<1>. QED
  BY <1>1, <1>2, <1>3, <1>4, <1>5 DEF Next, Step

(* Only the one transition in flight writes the status. *)
LEMMA PriorCurrentNext ==
  ASSUME TypeOK, RowsSettled, RowsLegal, OneTransition, PriorCurrent, [Next]_vars
  PROVE  PriorCurrent'
<1>. USE DEF RowsLegal, OneTransition, PriorCurrent, Writing, InFlight,
     NewStatus, LookupNext, TypeOK, RowsSettled, InTx, PCs, Transitions,
     Actions, Statuses, table, args
<1>1. ASSUME NEW r \in Requests, NEW a \in Actions, Begin(r, a)
      PROVE  PriorCurrent'
  BY <1>1 DEF Begin
<1>2. ASSUME NEW r \in Requests, ReadPlan(r) PROVE PriorCurrent'
  BY <1>2 DEF ReadPlan
<1>3. ASSUME NEW r \in Requests, Commit(r) PROVE PriorCurrent'
  BY <1>3 DEF Commit
<1>4. ASSUME NEW p \in Plans, CreatePlan(p) PROVE PriorCurrent'
  BY <1>4 DEF CreatePlan
<1>5. ASSUME NEW r \in Requests,
           PlanNotFound(r) \/ InvalidTransition(r) \/ InsertApproval(r)
           \/ UpdatePlan(r) \/ ReadEntries(r) \/ Respond(r) \/ Fail(r)
     PROVE  PriorCurrent'
  BY <1>5 DEF PlanNotFound, Finish, InvalidTransition, InsertApproval,
       UpdatePlan, ReadEntries, Respond, Fail
<1>6. ASSUME Crash PROVE PriorCurrent'
  BY <1>6 DEF Crash, InFlight
<1>7. CASE UNCHANGED vars
  BY <1>7 DEF vars
<1>. QED
  BY <1>1, <1>2, <1>3, <1>4, <1>5, <1>6, <1>7 DEF Next, Step

(* A COMMIT takes the plan one status further. *)
LEMMA LeftBehindNext ==
  ASSUME TypeOK, RowsSettled, RowsLegal, PriorCurrent, LeftBehind, [Next]_vars
  PROVE  LeftBehind'
<1>. USE DEF RowsLegal, PriorCurrent, LeftBehind, Writing, NewStatus,
     LookupNext, TypeOK, RowsSettled, InTx, PCs, Transitions, Actions,
     Statuses, table, args
<1>1. ASSUME NEW p \in Plans, CreatePlan(p) PROVE LeftBehind'
  BY <1>1 DEF CreatePlan
<1>2. ASSUME NEW r \in Requests, NEW a \in Actions, Begin(r, a)
      PROVE  LeftBehind'
  BY <1>2 DEF Begin
<1>3. ASSUME NEW r \in Requests, ReadPlan(r) PROVE LeftBehind'
  BY <1>3 DEF ReadPlan
<1>4. ASSUME NEW r \in Requests, InvalidTransition(r) PROVE LeftBehind'
  BY <1>4 DEF InvalidTransition, Finish
<1>5. ASSUME NEW r \in Requests, Commit(r) PROVE LeftBehind'
  BY <1>5 DEF Commit
<1>6. ASSUME NEW r \in Requests,
           PlanNotFound(r) \/ InsertApproval(r) \/ UpdatePlan(r)
           \/ ReadEntries(r) \/ Respond(r) \/ Fail(r)
     PROVE  LeftBehind'
  BY <1>6 DEF PlanNotFound, Finish, InsertApproval, UpdatePlan, ReadEntries,
       Respond, Fail
<1>7. ASSUME Crash PROVE LeftBehind'
  BY <1>7 DEF Crash, InFlight
<1>8. CASE UNCHANGED vars
  BY <1>8 DEF vars
<1>. QED
  BY <1>1, <1>2, <1>3, <1>4, <1>5, <1>6, <1>7, <1>8 DEF Next, Step

(* A COMMIT leaves no other transition of the plan in flight. *)
LEMMA YoungerNext ==
  ASSUME TypeOK, RowsSettled, OneTransition, Younger, [Next]_vars
  PROVE  Younger'
<1>. USE DEF OneTransition, Younger, InFlight, TypeOK, RowsSettled, InTx, PCs,
     Transitions, Actions, Statuses, table, args
<1>1. ASSUME NEW r \in Requests, NEW a \in Actions, Begin(r, a) PROVE Younger'
  BY <1>1 DEF Begin
<1>2. ASSUME NEW r \in Requests, Commit(r) PROVE Younger'
  BY <1>2 DEF Commit
<1>3. ASSUME NEW r \in Requests,
           ReadPlan(r) \/ PlanNotFound(r) \/ InvalidTransition(r)
           \/ InsertApproval(r) \/ UpdatePlan(r) \/ ReadEntries(r)
           \/ Respond(r) \/ Fail(r)
     PROVE  Younger'
  BY <1>3 DEF ReadPlan, PlanNotFound, Finish, InvalidTransition,
       InsertApproval, UpdatePlan, ReadEntries, Respond, Fail
<1>4. ASSUME NEW p \in Plans, CreatePlan(p) PROVE Younger'
  BY <1>4 DEF CreatePlan
<1>5. ASSUME Crash PROVE Younger'
  BY <1>5 DEF Crash, InFlight
<1>6. CASE UNCHANGED vars
  BY <1>6 DEF vars
<1>. QED
  BY <1>1, <1>2, <1>3, <1>4, <1>5, <1>6 DEF Next, Step

(* The row a COMMIT adds starts where the plan stands, which no older row of *)
(* the plan did, and its created_at is later than theirs.                    *)
LEMMA AuditWalkNext ==
  ASSUME IInv, SerialInv, [Next]_vars
  PROVE  AuditWalk'
<1>. USE DEF IInv, TypeOK, RowsSettled, AuditWalk, LogInOrder, SerialInv, InTx,
             PCs, Transitions, Actions, Statuses, table, args
<1>1. ASSUME NEW r \in Requests, Commit(r) PROVE AuditWalk'
  <2>. USE <1>1 DEF Commit
  <2>1. /\ r \notin approvals
        /\ NewStatus(r) # "none" /\ prior[r] = status[plan[r]]
        /\ action[r] \in Transitions
    BY DEF RowsLegal, PriorCurrent, Writing
  <2>2. ASSUME NEW q \in approvals, plan[q] = plan[r]
        PROVE  began[q] < began[r] /\ prior[q] # prior[r]
    BY <2>1, <2>2 DEF Younger, LeftBehind
  <2>3. action[r] \in {"approve", "reject"} =>
          \E q \in approvals : plan[q] = plan[r] /\ action[q] = "submit"
    <3>. SUFFICES ASSUME action[r] \in {"approve", "reject"}
                  PROVE  \E q \in approvals : plan[q] = plan[r] /\ action[q] = "submit"
      OBVIOUS
    <3>1. prior[r] = "submitted"
      BY <2>1 DEF NewStatus, LookupNext
    <3>2. PICK q \in approvals : plan[q] = plan[r] /\ NewStatus(q) = "submitted"
      BY <3>1 DEF PriorWritten
    <3>. QED
      BY <3>2, LookupNextAction DEF NewStatus
  <2>4. LogInOrder'
    BY <2>1, <2>2, <2>3
  <2>5. \A q, s \in approvals' : plan[q] = plan[s] /\ prior[q] = prior[s] => q = s
    BY <2>1, <2>2
  <2>. QED
    BY <2>4, <2>5
<1>2. ASSUME NEW r \in Requests, NEW a \in Actions, Begin(r, a)
      PROVE  AuditWalk'
  BY <1>2 DEF Begin
<1>3. ASSUME NEW r \in Requests, ReadPlan(r) \/ InvalidTransition(r)
      PROVE  AuditWalk'
  BY <1>3 DEF ReadPlan, InvalidTransition, Finish
<1>4. ASSUME NEW r \in Requests,
             PlanNotFound(r) \/ InsertApproval(r) \/ UpdatePlan(r)
             \/ ReadEntries(r) \/ Respond(r) \/ Fail(r)
      PROVE  AuditWalk'
  BY <1>4 DEF PlanNotFound, InsertApproval, UpdatePlan, ReadEntries, Respond,
              Fail, Finish
<1>5. ASSUME NEW p \in Plans, CreatePlan(p) PROVE AuditWalk'
  BY <1>5 DEF CreatePlan
<1>6. ASSUME Crash PROVE AuditWalk'
  BY <1>6 DEF Crash
<1>7. CASE UNCHANGED vars
  BY <1>7 DEF vars
<1>. QED
  BY <1>1, <1>2, <1>3, <1>4, <1>5, <1>6, <1>7 DEF Next, Step

(* Both invariants together are inductive when transitions do not overlap. *)
LEMMA SerialInvariance ==
  ASSUME ~Overlap
  PROVE  Spec => [](IInv /\ SerialInv)
<1>1. SerialInv /\ IInv /\ [Next]_vars => SerialInv'
  BY OneTransitionNext, PriorCurrentNext, LeftBehindNext, YoungerNext,
     AuditWalkNext DEF SerialInv, IInv
<1>. QED
  BY <1>1, InitIInv, NextIInv, InitSerial, PTL DEF Spec

(* Without overlap, the audit log sorted by created_at is a walk through the *)
(* state machine that leaves each status at most once.                       *)
THEOREM SerialAuditWalk ==
  ASSUME ~Overlap
  PROVE  Spec => []AuditWalk
BY SerialInvariance, PTL DEF SerialInv

(* What a step does to the tables: a plan is drafted, a transition lands, or *)
(* nothing happens.                                                          *)
LEMMA StepLands ==
  ASSUME IInv, [Next]_vars
  PROVE  \/ \E p \in Plans : CreatePlan(p) /\ SM!Draft(p)
         \/ \E r \in Requests :
              Commit(r) /\ action[r] \in SM!PlanActions /\ SM!Land(plan[r], action[r])
         \/ UNCHANGED SM!machineVars
<1>. USE DEF IInv, TypeOK, RowsSettled, InTx, PCs, Transitions, Actions,
             Statuses, table, args
<1>1. ASSUME NEW p \in Plans, CreatePlan(p) PROVE SM!Draft(p)
  <2>1. UNCHANGED Trail
    BY <1>1 DEF CreatePlan, Trail
  <2>. QED
    BY <1>1, <2>1 DEF CreatePlan, SM!Draft
<1>2. ASSUME NEW r \in Requests, Commit(r)
      PROVE  action[r] \in SM!PlanActions /\ SM!Land(plan[r], action[r])
  <2>. USE <1>2 DEF Commit
  <2>1. /\ action[r] \in Transitions
        /\ NewStatus(r) = SM!Target(action[r])
    BY DEF RowsLegal, Writing, NewStatus, LookupNext, SM!Target
  <2>2. Trail' = [Trail EXCEPT ![plan[r]] = @ \cup {action[r]}]
    <3>1. ASSUME NEW p \in Plans
          PROVE  {action[q] : q \in {s \in approvals' : plan[s] = p}} =
                   IF p = plan[r] THEN Trail[p] \cup {action[r]} ELSE Trail[p]
      BY DEF Trail
    <3>2. Trail' = [p \in Plans |-> IF p = plan[r] THEN Trail[p] \cup {action[r]}
                                                  ELSE Trail[p]]
      BY <3>1 DEF Trail
    <3>. QED
      BY <3>2 DEF Trail
  <2>. QED
    BY <2>1, <2>2 DEF SM!Land, SM!PlanActions
<1>3. ASSUME NEW r \in Requests, NEW a \in Actions, Begin(r, a)
      PROVE  UNCHANGED SM!machineVars
  BY <1>3 DEF Begin, SM!machineVars, Trail
<1>4. ASSUME NEW r \in Requests,
             ReadPlan(r) \/ InvalidTransition(r) \/ PlanNotFound(r)
             \/ InsertApproval(r) \/ UpdatePlan(r) \/ ReadEntries(r)
             \/ Respond(r) \/ Fail(r)
      PROVE  UNCHANGED SM!machineVars
  BY <1>4 DEF ReadPlan, InvalidTransition, PlanNotFound, InsertApproval,
              UpdatePlan, ReadEntries, Respond, Fail, Finish, SM!machineVars, Trail
<1>5. ASSUME Crash \/ UNCHANGED vars PROVE UNCHANGED SM!machineVars
  BY <1>5 DEF Crash, vars, SM!machineVars, Trail
<1>. QED
  BY <1>1, <1>2, <1>3, <1>4, <1>5 DEF Next, Step

(* A transition that lands late still follows a submission of its plan. *)
LEMMA StepOverlaps ==
  ASSUME IInv, [Next]_vars
  PROVE  [SM!OverlappedNext]_(SM!machineVars)
<1>1. ASSUME NEW r \in Requests, Commit(r), action[r] \in SM!PlanActions,
             SM!Land(plan[r], action[r])
      PROVE  SM!LateMove(plan[r], action[r]) /\ plan[r] \in Plans
  <2>. USE DEF IInv, TypeOK, Commit
  <2>1. status[plan[r]] # "absent" /\ NewStatus(r) # "none"
    BY <1>1 DEF RowsLegal, PlanFound, Writing, SM!PlanActions, Transitions
  <2>2. action[r] # "submit" => "submit" \in Trail[plan[r]]
    <3>. SUFFICES ASSUME action[r] # "submit" PROVE "submit" \in Trail[plan[r]]
      OBVIOUS
    <3>1. prior[r] = "submitted"
      BY <1>1, <2>1 DEF NewStatus, LookupNext, SM!PlanActions
    <3>2. PICK q \in approvals : plan[q] = plan[r] /\ NewStatus(q) = "submitted"
      BY <1>1, <3>1 DEF PriorWritten
    <3>. QED
      BY <1>1, <3>2, LookupNextAction DEF NewStatus, Trail
  <2>. QED
    BY <1>1, <2>1, <2>2 DEF SM!LateMove
<1>. QED
  BY <1>1, StepLands DEF SM!OverlappedNext

(* Whatever overlaps, fails or dies, the workflow implements the weaker *)
(* promise, with the audit rows of a plan as its trail.                 *)
THEOREM OverlappedRefinement == Spec => ImplementsOverlapped
<1>1. Init => SM!MachineInit
  BY DEF Init, SM!MachineInit, Trail
<1>. QED
  BY <1>1, StepOverlaps, Invariance, PTL DEF Spec, SM!Overlapped,
       ImplementsOverlapped

(* Without overlap a transition lands on the status it read, and each action *)
(* of a plan happens once.                                                   *)
LEMMA StepRefines ==
  ASSUME IInv, SerialInv, [Next]_vars
  PROVE  [SM!MachineNext]_(SM!machineVars)
<1>1. ASSUME NEW r \in Requests, Commit(r), action[r] \in SM!PlanActions,
             SM!Land(plan[r], action[r])
      PROVE  SM!Move(plan[r], action[r]) /\ plan[r] \in Plans
  <2>. USE <1>1 DEF IInv, TypeOK, RowsSettled, Commit, InTx
  <2>1. /\ r \notin approvals
        /\ NewStatus(r) # "none" /\ prior[r] = status[plan[r]]
    BY DEF RowsLegal, SerialInv, PriorCurrent, Writing
  <2>2. SM!Edge(status[plan[r]], action[r])
    BY <2>1 DEF SM!Edge, NewStatus, LookupNext
  <2>3. action[r] \notin Trail[plan[r]]
    <3>. SUFFICES ASSUME NEW q \in approvals, plan[q] = plan[r], action[q] = action[r]
                  PROVE  FALSE
      BY DEF Trail
    <3>1. prior[q] = prior[r]
      BY <2>1 DEF RowsLegal, NewStatus, LookupNext
    <3>. QED
      BY <2>1, <3>1 DEF SerialInv, LeftBehind
  <2>. QED
    BY <2>2, <2>3 DEF SM!Move
<1>. QED
  BY <1>1, StepLands DEF SM!MachineNext

(* Without overlap the workflow implements the state machine drawn in the *)
(* shared package, whatever fails or dies.                                *)
THEOREM SerialRefinement ==
  ASSUME ~Overlap
  PROVE  Spec => ImplementsMachine
<1>1. Init => SM!MachineInit
  BY DEF Init, SM!MachineInit, Trail
<1>. QED
  BY <1>1, StepRefines, SerialInvariance, PTL DEF Spec, SM!Machine,
       ImplementsMachine

(* Without overlap an approved or rejected plan stays so. *)
THEOREM SerialTerminal ==
  ASSUME ~Overlap
  PROVE  Spec => TerminalIsFinal
<1>1. IInv /\ [SM!MachineNext]_(SM!machineVars) =>
        [\A p \in Plans :
           status[p] \in {"approved", "rejected"} => status'[p] = status[p]]_status
  BY DEF IInv, TypeOK, SM!MachineNext, SM!machineVars, SM!Draft, SM!Move,
       SM!Edge, SM!Land
<1>. QED
  BY <1>1, StepRefines, SerialInvariance, PTL DEF Spec, TerminalIsFinal

-----------------------------------------------------------------------------
(***************************************************************************)
(* Part 3: nobody is stuck, however the requests overlap.  The only step   *)
(* that waits is the UPDATE, for the row lock of its plan, and a            *)
(* transaction that holds the lock of a row waits for nothing.             *)
(***************************************************************************)

(* The row lock of a plan is held by the one transaction that has updated it *)
(* and has not ended.                                                        *)
LockFollows ==
  /\ \A p \in Plans :
       lock[p] # NoApproval => pc[lock[p]] = "updated" /\ plan[lock[p]] = p
  /\ \A r \in Requests : pc[r] = "updated" => lock[plan[r]] = r

(* The guards of the actions of Step, joined: the database and the route *)
(* have a next statement of the request to execute.                      *)
MayStep(r) ==
  \/ pc[r] = "begun" /\ status[plan[r]] = "absent"
  \/ /\ pc[r] = "begun" /\ status[plan[r]] # "absent"
     /\ action[r] = "log" \/ LookupNext(status[plan[r]], action[r]) # "none"
  \/ /\ pc[r] = "begun" /\ status[plan[r]] # "absent"
     /\ action[r] \in Transitions
     /\ LookupNext(status[plan[r]], action[r]) = "none"
  \/ pc[r] = "read" /\ action[r] \in Transitions
  \/ pc[r] = "read" /\ action[r] = "log"
  \/ pc[r] = "inserted" /\ lock[plan[r]] = NoApproval
  \/ pc[r] \in {"updated", "committed"}

(* Every request in flight can go on, or it waits for another transition of *)
(* its plan that can.                                                       *)
NobodyStuck ==
  \A r \in Requests :
    InFlight(r) =>
      \/ MayStep(r)
      \/ \E q \in Requests :
           /\ q # r /\ lock[plan[r]] = q /\ plan[q] = plan[r]
           /\ pc[r] = "inserted" /\ MayStep(q)

(* The lock is taken by the UPDATE and given back by the COMMIT, a ROLLBACK *)
(* or the death of the process.                                             *)
LEMMA LockNext ==
  ASSUME TypeOK, LockFollows, [Next]_vars
  PROVE  LockFollows'
<1>. USE NoApprovalAssumption DEF TypeOK, LockFollows, InTx, PCs, table, args
<1>1. ASSUME NEW r \in Requests, UpdatePlan(r) PROVE LockFollows'
  BY <1>1 DEF UpdatePlan
<1>2. ASSUME NEW r \in Requests, Commit(r) PROVE LockFollows'
  BY <1>2 DEF Commit
<1>3. ASSUME NEW r \in Requests, Fail(r) PROVE LockFollows'
  BY <1>3 DEF Fail, Finish
<1>4. ASSUME Crash PROVE LockFollows'
  BY <1>4 DEF Crash, InFlight
<1>5. ASSUME NEW r \in Requests,
             ReadPlan(r) \/ PlanNotFound(r) \/ InvalidTransition(r)
             \/ InsertApproval(r) \/ ReadEntries(r) \/ Respond(r)
      PROVE  LockFollows'
  BY <1>5 DEF ReadPlan, PlanNotFound, InvalidTransition, InsertApproval,
      ReadEntries, Respond, Finish
<1>6. ASSUME NEW r \in Requests, NEW a \in Actions, Begin(r, a)
      PROVE  LockFollows'
  BY <1>6 DEF Begin
<1>7. ASSUME NEW p \in Plans, CreatePlan(p) PROVE LockFollows'
  BY <1>7 DEF CreatePlan
<1>8. CASE UNCHANGED vars
  BY <1>8 DEF vars
<1>. QED
  BY <1>1, <1>2, <1>3, <1>4, <1>5, <1>6, <1>7, <1>8 DEF Next, Step

(* Every request in flight can go on or waits for one that can: no two       *)
(* transitions of approval.ts wait for each other, and no row lock outlives  *)
(* its transaction, whatever overlaps, fails or dies.  This is what          *)
(* EveryRequestEnds needs besides fairness.                                  *)
THEOREM NobodyIsStuck == Spec => []NobodyStuck
<1>1. Init => LockFollows
  BY DEF Init, LockFollows
<1>2. TypeOK /\ LockFollows => NobodyStuck
  <2>. SUFFICES ASSUME TypeOK, LockFollows, NEW r \in Requests, InFlight(r), ~MayStep(r)
                PROVE  \E q \in Requests :
                         /\ q # r /\ lock[plan[r]] = q /\ plan[q] = plan[r]
                         /\ pc[r] = "inserted" /\ MayStep(q)
    BY DEF NobodyStuck
  <2>1. action[r] \in Transitions \/ action[r] = "log"
    BY DEF TypeOK, Actions
  <2>2. pc[r] = "inserted" /\ lock[plan[r]] # NoApproval
    BY <2>1 DEF InFlight, InTx, MayStep
  <2>3. lock[plan[r]] \in Requests /\ pc[lock[plan[r]]] = "updated"
        /\ plan[lock[plan[r]]] = plan[r]
    BY <2>2 DEF TypeOK, LockFollows
  <2>. QED
    BY <2>2, <2>3 DEF MayStep
<1>. QED
  BY <1>1, <1>2, LockNext, Invariance, PTL DEF Spec, IInv

=============================================================================
