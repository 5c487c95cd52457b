---------------------------- MODULE MCActionPages ----------------------------
(***************************************************************************)
(* ActionPages, with one of: two tabs of the approval page; one whose      *)
(* buttons are pressed more often; a page that creates rows; two that link *)
(* one intake; the intake page.                                            *)
(***************************************************************************)
EXTENDS ActionPages

CONSTANTS a1, a2, a3, c1, l1, l2, i1, plan

Pages == [t \in Tabs |->
            IF t \in {a1, a2, a3} THEN "approve"
            ELSE IF t \in {l1, l2} THEN "repo"
            ELSE IF t = i1 THEN "intake" ELSE "create"]
OnePlan == [t \in Tabs |-> plan]
Bounds  == [t \in Tabs |-> IF t \in {a3, c1, i1} THEN 3 ELSE IF t = a2 THEN 1 ELSE 2]
Visits  == [t \in Tabs |-> IF t \in {a1, a2} THEN 1 ELSE 2]
=============================================================================
