-------------------------- MODULE PlanStateMachine --------------------------
(***************************************************************************)
(* What the approval workflow promises its clients, in two strengths.      *)
(*                                                                         *)
(* Machine is the state machine drawn in packages/shared/src/approval.ts:  *)
(* a plan is created as a draft and moves along the edges of the drawing,  *)
(* one at a time, each edge at most once; every move leaves one entry in   *)
(* the plan's trail, and no edge leaves "approved" or "rejected".          *)
(*                                                                         *)
(* Overlapped is what remains of it when requests for one plan overlap: a  *)
(* transition lands where its action leads, whatever the plan has become   *)
(* since it was read; but a decision still needs a submission.             *)
(*                                                                         *)
(* ApprovalWorkflow implements both; EvidenceExport reads plans that move  *)
(* as Overlapped allows.                                                   *)
(***************************************************************************)
CONSTANT Plans

VARIABLES
  state,   \* state[p]: where p is in the drawing, "absent" before creation
  trail    \* trail[p]: the actions p has gone through

machineVars == <<state, trail>>
PlanActions == {"submit", "approve", "reject"}

Target(action) ==
  IF action = "submit" THEN "submitted"
  ELSE IF action = "approve" THEN "approved" ELSE "rejected"

Edge(prior, action) ==
  \/ prior = "draft" /\ action = "submit"
  \/ prior = "submitted" /\ action \in {"approve", "reject"}

MachineInit ==
  /\ state = [p \in Plans |-> "absent"]
  /\ trail = [p \in Plans |-> {}]

Draft(p) ==
  /\ state[p] = "absent"
  /\ state' = [state EXCEPT ![p] = "draft"]
  /\ UNCHANGED trail

(* The transition is recorded in the trail and decides the state. *)
Land(p, action) ==
  /\ state' = [state EXCEPT ![p] = Target(action)]
  /\ trail' = [trail EXCEPT ![p] = @ \cup {action}]

Move(p, action) ==
  /\ Edge(state[p], action)
  /\ action \notin trail[p]
  /\ Land(p, action)

(* The transition was allowed by the status it read, which may be long gone. *)
LateMove(p, action) ==
  /\ state[p] # "absent"
  /\ action = "submit" \/ "submit" \in trail[p]
  /\ Land(p, action)

MachineNext ==
  \E p \in Plans : Draft(p) \/ \E action \in PlanActions : Move(p, action)
OverlappedNext ==
  \E p \in Plans : Draft(p) \/ \E action \in PlanActions : LateMove(p, action)

Machine    == MachineInit /\ [][MachineNext]_machineVars
Overlapped == MachineInit /\ [][OverlappedNext]_machineVars
=============================================================================
