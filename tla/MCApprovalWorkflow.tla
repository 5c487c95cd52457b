------------------------- MODULE MCApprovalWorkflow -------------------------
(* ApprovalWorkflow on small sets of plans and requests. *)
EXTENDS ApprovalWorkflow, TLC

Symmetry == Permutations(Requests) \cup Permutations(Plans)
=============================================================================
