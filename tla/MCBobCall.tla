----------------------------- MODULE MCBobCall ------------------------------
(* BobCall for TLC: prose, an object with a two-byte character, two objects. *)
EXTENDS BobCall

CONSTANTS c1, c2

FewOutputs ==
  {<<"text">>, <<"open", "lead", "tail", "shut">>,
   <<"open", "shut", "open", "shut">>}
=============================================================================
