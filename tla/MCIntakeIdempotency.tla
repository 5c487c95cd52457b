------------------------ MODULE MCIntakeIdempotency -------------------------
(***************************************************************************)
(* IntakeIdempotency on two CI runs: Other is the run of another tenant    *)
(* under Build's ids.                                                      *)
(***************************************************************************)
EXTENDS IntakeIdempotency, TLC

CONSTANTS t1, t2

Build == [tenant |-> t1, run_id |-> <<"a">>, attempt_id |-> <<"b", ":", "c">>]
Other == [tenant |-> t2, run_id |-> <<"a">>, attempt_id |-> <<"b", ":", "c">>]

TwoTenants == {Build, Other}
OneRun == {Build}
Symmetry == Permutations(Requests)
=============================================================================
