------------------------------- MODULE BobCall ------------------------------
(***************************************************************************)
(* callRealBobGeneric of apps/api/src/lib/bob.ts: one child process per    *)
(* call, and the callbacks that race to settle the call's promise: the     *)
(* timer, 'error' and 'close' of the child, and 'data' of its stdout.      *)
(*                                                                         *)
(* Node emits 'close' once the child has exited and its stdout is drained. *)
(* stdout arrives in chunks that need not end between characters, and each *)
(* chunk is decoded on its own.  stdin has no 'error' listener, so a child *)
(* that closes it before the prompt is written ends the whole API process. *)
(*                                                                         *)
(* What a child prints is a sequence of "open" and "shut" (the braces of a *)
(* JSON object), "text" and the two bytes "lead", "tail" of one character. *)
(***************************************************************************)
EXTENDS Naturals, Sequences, BobPromise

CONSTANT Outputs   \* what a child may have to say
ASSUME OutputsAssumption ==
  Outputs \subseteq Seq({"open", "shut", "text", "lead", "tail"})

VARIABLES
  env,       \* "mock": USE_MOCK_BOB; else whether BOBSHELL_API_KEY is set
  out,       \* what the call's child has to say,
  fits,      \* and whether its object satisfies the zod schema
  child,     \* the child process; "ok" and "bad": exited, with 0 or not
  printed,   \* how much of out it has written
  got,       \* the string stdout of the closure
  timer      \* the setTimeout of the call

vars == <<promise, env, out, fits, child, printed, got, timer>>
input == <<env, out, fits>>

Ended == {"none", "absent", "ok", "bad"}
SettleAs(c, outcome) ==
  /\ promise' = [promise EXCEPT ![c] = outcome]
  /\ timer' = [timer EXCEPT ![c] = "off"]

Init ==
  /\ PromiseInit
  /\ env \in {"mock", "keyless", "keyed"}
  /\ out \in [Calls -> Outputs]
  /\ fits \in [Calls -> BOOLEAN]
  /\ child = [c \in Calls |-> "none"]
  /\ printed = [c \in Calls |-> 0]
  /\ got = [c \in Calls |-> <<>>]
  /\ timer = [c \in Calls |-> "off"]

-----------------------------------------------------------------------------
(* callMockBobRca and callMockBobRepairPlan answer at once. *)
Mock(c) ==
  /\ env = "mock"
  /\ promise[c] = "uncalled"
  /\ SettleAs(c, "answer")
  /\ UNCHANGED <<input, child, printed, got>>

(* No API key: BobInvocationError before anything is spawned. *)
RefuseKeyless(c) ==
  /\ env = "keyless"
  /\ promise[c] = "uncalled"
  /\ SettleAs(c, "invocation")
  /\ UNCHANGED <<input, child, printed, got>>

CanSpawn(c) == env = "keyed" /\ promise[c] = "uncalled"

(* Mutant: no timer. *)
SpawnUntimed(c) ==
  /\ CanSpawn(c)
  /\ promise' = [promise EXCEPT ![c] = "pending"]
  /\ \E begins \in {"running", "absent"} : child' = [child EXCEPT ![c] = begins]
  /\ UNCHANGED <<input, printed, got, timer>>

(* spawn, setTimeout, the listeners and the prompt, in one turn of the event *)
(* loop.  "absent": the CLI could not be executed, 'error' will tell.        *)
Spawn(c) ==
  /\ CanSpawn(c)
  /\ promise' = [promise EXCEPT ![c] = "pending"]
  /\ timer' = [timer EXCEPT ![c] = "armed"]
  /\ \E begins \in {"running", "absent"} : child' = [child EXCEPT ![c] = begins]
  /\ UNCHANGED <<input, printed, got>>

(* spawn itself throws, out of the executor: the promise rejects with that. *)
SpawnThrows(c) ==
  /\ CanSpawn(c)
  /\ SettleAs(c, "untyped")
  /\ UNCHANGED <<input, child, printed, got>>

(* The API process dies and its callbacks with it; the children run on. *)
Die(calling) ==
  /\ Lose(calling)
  /\ timer' = [c \in Calls |-> "off"]
  /\ UNCHANGED <<input, printed, got>>

(* The child has closed its stdin before the write: EPIPE, an 'error' event *)
(* without a listener in the same turn, and the process is over.            *)
StdinBroken(c) ==
  /\ CanSpawn(c)
  /\ Die({c})
  /\ child' = [child EXCEPT ![c] = "bad"]

Crash ==
  /\ \E c \in Calls : promise[c] = "pending"
  /\ Die({})
  /\ UNCHANGED child

-----------------------------------------------------------------------------
(* The child, whose life does not depend on the API's. *)
Emit(c) ==
  /\ child[c] \in {"running", "dying"}
  /\ printed[c] < Len(out[c])
  /\ printed' = [printed EXCEPT ![c] = @ + 1]
  /\ UNCHANGED <<promise, input, child, got, timer>>

(* It exits with 0 after its last word, and otherwise at any moment. *)
Exit(c) ==
  /\ child[c] = "running"
  /\ \/ child' = [child EXCEPT ![c] = "bad"]
     \/ printed[c] = Len(out[c]) /\ child' = [child EXCEPT ![c] = "ok"]
  /\ UNCHANGED <<promise, input, printed, got, timer>>

Killed(c) ==
  /\ child[c] = "dying"
  /\ child' = [child EXCEPT ![c] = "bad"]
  /\ UNCHANGED <<promise, input, printed, got, timer>>

-----------------------------------------------------------------------------

(* chunk.toString('utf8'): half a character becomes U+FFFD. *)
Decode(chunk) ==
  [i \in 1..Len(chunk) |->
     IF \/ chunk[i] = "lead" /\ i = Len(chunk)
        \/ chunk[i] = "tail" /\ i = 1
     THEN "bad" ELSE chunk[i]]

Data(c) ==
  /\ promise[c] # "lost"
  /\ \E end \in Len(got[c]) + 1 .. printed[c] :
       got' = [got EXCEPT ![c] = @ \o Decode(SubSeq(out[c], Len(@) + 1, end))]
  /\ UNCHANGED <<promise, input, child, printed, timer>>

Braces(s) == {i \in 1..Len(s) : s[i] \in {"open", "shut"}}

(* stdout.match(/\{[\s\S]*\}/) runs from the first "{" to the last "}", and *)
(* JSON.parse accepts that if it is one object.                             *)
Parses(s) ==
  \E i, j \in 1..Len(s) :
    i < j /\ s[i] = "open" /\ s[j] = "shut" /\ Braces(s) = {i, j}

Verdict(c) ==
  IF child[c] = "bad" THEN "invocation"
  ELSE IF Parses(got[c]) /\ fits[c] THEN "answer" ELSE "parse"

(* Mutants: listening to 'exit'; `settled` not checked. *)
CloseOnExit(c) ==
  /\ promise[c] = "pending"
  /\ child[c] \in {"ok", "bad"}
  /\ SettleAs(c, Verdict(c))
  /\ UNCHANGED <<input, child, printed, got>>
CloseUnsettled(c) ==
  /\ promise[c] # "uncalled"
  /\ child[c] \in {"ok", "bad"} /\ Len(got[c]) = printed[c]
  /\ SettleAs(c, Verdict(c))
  /\ UNCHANGED <<input, child, printed, got>>

(* 'close', unless the promise is settled: the timer is cleared, and the *)
(* exit code, the JSON and the schema decide.                            *)
Close(c) ==
  /\ promise[c] = "pending"
  /\ child[c] \in {"ok", "bad"} /\ Len(got[c]) = printed[c]
  /\ SettleAs(c, Verdict(c))
  /\ UNCHANGED <<input, child, printed, got>>

(* 'error': the CLI could not be executed. *)
ErrorEvent(c) ==
  /\ promise[c] = "pending"
  /\ child[c] = "absent"
  /\ SettleAs(c, "invocation")
  /\ UNCHANGED <<input, child, printed, got>>

(* Mutant: the child is not killed. *)
TimerFiresOnly(c) ==
  /\ timer[c] = "armed"
  /\ SettleAs(c, "timeout")
  /\ UNCHANGED <<input, child, printed, got>>

(* timeoutMs are over: SIGKILL for a child that still runs. *)
TimerFires(c) ==
  /\ timer[c] = "armed"
  /\ SettleAs(c, "timeout")
  /\ child' = [child EXCEPT ![c] = IF @ = "running" THEN "dying" ELSE @]
  /\ UNCHANGED <<input, printed, got>>

Next ==
  \/ \E c \in Calls :
       \/ Mock(c) \/ RefuseKeyless(c) \/ Spawn(c) \/ SpawnThrows(c)
       \/ StdinBroken(c)
       \/ Emit(c) \/ Exit(c) \/ Killed(c)
       \/ Data(c) \/ Close(c) \/ ErrorEvent(c) \/ TimerFires(c)
  \/ Crash

Spec == Init /\ [][Next]_vars

(* An armed timer fires and SIGKILL kills; of the CLI nothing is assumed. *)
FairSpec ==
  Spec /\ \A c \in Calls : WF_vars(TimerFires(c)) /\ WF_vars(Killed(c))

-----------------------------------------------------------------------------
TypeOK ==
  /\ promise \in [Calls -> {"uncalled", "pending", "lost"} \cup Settled]
  /\ env \in {"mock", "keyless", "keyed"}
  /\ out \in [Calls -> Outputs]
  /\ fits \in [Calls -> BOOLEAN]
  /\ child \in [Calls -> {"none", "absent", "running", "dying", "ok", "bad"}]
  /\ printed \in [Calls -> Nat]
  /\ got \in [Calls -> Seq({"open", "shut", "text", "lead", "tail", "bad"})]
  /\ timer \in [Calls -> {"off", "armed"}]

(* An answer is Bob's whole answer: it comes from a child that exited with 0 *)
(* and every byte it printed is in it, split characters garbled, in order.   *)
WholeAnswer ==
  \A c \in Calls :
    promise[c] = "answer" /\ env # "mock" =>
      /\ child[c] = "ok"
      /\ Len(got[c]) = Len(out[c])
      /\ \A i \in 1..Len(got[c]) : got[c][i] \in {out[c][i], "bad"}

(* The timer and the promise: pending exactly as long as the timer is armed. *)
(* A later timer would kill a process the call no longer has to do with.     *)
TimerGuardsPending ==
  \A c \in Calls : timer[c] = "armed" <=> promise[c] = "pending"

(* Whatever the order of the callbacks, a call keeps the promise its route *)
(* relies on: settled once, and typed if a child was spawned.              *)
ImplementsPromise == PromiseSpec

(* A pending call ends, whatever the CLI does. *)
EveryCallEnds ==
  \A c \in Calls : promise[c] = "pending" ~> promise[c] # "pending"

(* No child outlives a settled call: unless the API dies first, none is left *)
(* to run, unwatched.                                                       *)
NoChildOutlivesItsCall ==
  \A c \in Calls : promise[c] \in Settled ~> child[c] \in Ended
=============================================================================
