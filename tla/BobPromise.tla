----------------------------- MODULE BobPromise -----------------------------
(***************************************************************************)
(* What runRca and runRepairPlan (apps/api/src/lib/bob.ts) promise the     *)
(* routes that await them: a promise per call.  It may be settled by the   *)
(* call itself; once it is pending it is settled once, with an answer or   *)
(* with one of the three typed errors, unless the process dies first.      *)
(*                                                                         *)
(* BobCall implements it; AnalysisPipeline is built on it.                 *)
(***************************************************************************)
CONSTANT Calls

VARIABLE promise   \* what has become of the promise of each call

TypedErrors == {"timeout", "invocation", "parse"}
Settled     == {"answer", "untyped"} \cup TypedErrors

PromiseInit == promise = [c \in Calls |-> "uncalled"]

(* "untyped": the call throws something else than one of its error classes. *)
Call(c) ==
  /\ promise[c] = "uncalled"
  /\ \E next \in {"pending"} \cup Settled : promise' = [promise EXCEPT ![c] = next]

Settle(c) ==
  /\ promise[c] = "pending"
  /\ \E next \in {"answer"} \cup TypedErrors : promise' = [promise EXCEPT ![c] = next]

(* The API process dies, and with it the pending promises, if need be in the *)
(* middle of a call.                                                         *)
Lose(calling) ==
  promise' = [c \in Calls |->
                IF promise[c] = "pending" \/ c \in calling THEN "lost" ELSE promise[c]]

PromiseNext ==
  \/ \E c \in Calls : Call(c) \/ Settle(c)
  \/ \E calling \in SUBSET Calls :
       /\ \A c \in calling : promise[c] = "uncalled"
       /\ Lose(calling)
PromiseSpec == PromiseInit /\ [][PromiseNext]_promise
=============================================================================
