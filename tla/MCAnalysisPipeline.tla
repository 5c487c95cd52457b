------------------------- MODULE MCAnalysisPipeline -------------------------
(***************************************************************************)
(* AnalysisPipeline on three POSTs and a GET: two findings and a plan, or  *)
(* a finding and two plans.                                                *)
(***************************************************************************)
EXTENDS AnalysisPipeline

CONSTANTS r1, r2, r3, g1

TwoAndOne ==
  {[r \in Requests \cup Readers |-> IF r = r3 THEN "plan" ELSE "rca"],
   [r \in Requests \cup Readers |-> IF r = r1 THEN "rca" ELSE "plan"]}
=============================================================================
