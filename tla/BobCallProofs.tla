---------------------------- MODULE BobCallProofs ----------------------------
(***************************************************************************)
(* Proofs about BobCall, for any number of calls and anything their        *)
(* children may print.                                                     *)
(*                                                                         *)
(* The timer is armed exactly as long as the promise is pending, so every  *)
(* callback that settles finds it pending: that is the refinement of       *)
(* BobPromise.  What 'close' judges is all of the output because it waits  *)
(* for the child's exit and the end of its stdout.                         *)
(***************************************************************************)
EXTENDS BobCall, SequenceTheorems, TLAPS

Symbols == {"open", "shut", "text", "lead", "tail"}
Chars   == Symbols \cup {"bad"}

(* What stdout holds so far is what the child has printed so far, and a *)
(* child that exits with 0 has printed everything.                      *)
GotFollows ==
  \A c \in Calls :
    /\ Len(got[c]) <= printed[c]
    /\ printed[c] <= Len(out[c])
    /\ \A i \in 1..Len(got[c]) : got[c][i] \in {out[c][i], "bad"}
    /\ child[c] = "ok" => printed[c] = Len(out[c])

(* The string is final once an answer was made of it. *)
AnswerHasAll ==
  \A c \in Calls :
    promise[c] = "answer" /\ env # "mock" =>
      child[c] = "ok" /\ Len(got[c]) = Len(out[c])

IInv ==
  /\ TypeOK
  /\ TimerGuardsPending
  /\ GotFollows
  /\ AnswerHasAll

-----------------------------------------------------------------------------
(* Decoding keeps the length, and every symbol but the half of a character *)
(* that the cut of a chunk left alone: those are replaced.                 *)
LEMMA DecodeKeeps ==
  ASSUME NEW chunk \in Seq(Symbols)
  PROVE  /\ Decode(chunk) \in Seq(Chars)
         /\ Len(Decode(chunk)) = Len(chunk)
         /\ \A i \in 1..Len(chunk) :
              Decode(chunk)[i] = IF \/ chunk[i] = "lead" /\ i = Len(chunk)
                                    \/ chunk[i] = "tail" /\ i = 1
                                 THEN "bad" ELSE chunk[i]
<1>1. Len(chunk) \in Nat /\ \A i \in 1..Len(chunk) : chunk[i] \in Symbols
  BY LenProperties, ElementOfSeq
<1>2. \A i \in 1..Len(chunk) :
        Decode(chunk)[i] = IF \/ chunk[i] = "lead" /\ i = Len(chunk)
                              \/ chunk[i] = "tail" /\ i = 1
                           THEN "bad" ELSE chunk[i]
  BY DEF Decode
<1>3. Decode(chunk) \in [1..Len(chunk) -> Chars]
  BY <1>1 DEF Decode, Chars
<1>4. Decode(chunk) \in Seq(Chars)
  BY <1>1, <1>3
<1>5. Len(Decode(chunk)) = Len(chunk)
  BY <1>1, <1>3, <1>4, LenProperties
<1>. QED
  BY <1>2, <1>4, <1>5

(* What a child has to say is a sequence of symbols. *)
LEMMA OutTyped ==
  ASSUME TypeOK, NEW c \in Calls
  PROVE  out[c] \in Seq(Symbols) /\ Len(out[c]) \in Nat
<1>1. out[c] \in Seq(Symbols)
  BY OutputsAssumption DEF TypeOK, Symbols
<1>. QED
  BY <1>1, LenProperties

(* s is stdout once the chunk up to end was appended: what was got before it *)
(* stays, and behind that come the symbols of the chunk, but for the halves  *)
(* at its two ends.                                                          *)
Extends(s, c, end) ==
  /\ s \in Seq(Chars)
  /\ Len(s) = end
  /\ \A i \in 1..Len(got[c]) : s[i] = got[c][i]
  /\ \A i \in Len(got[c]) + 1 .. end :
       s[i] = IF \/ out[c][i] = "lead" /\ i = end
                 \/ out[c][i] = "tail" /\ i = Len(got[c]) + 1
              THEN "bad" ELSE out[c][i]

(* That is what a 'data' event makes of stdout. *)
LEMMA DataReads ==
  ASSUME TypeOK, GotFollows, NEW c \in Calls, NEW end \in Len(got[c]) + 1 .. printed[c],
         NEW next, next = got[c] \o Decode(SubSeq(out[c], Len(got[c]) + 1, end))
  PROVE  Extends(next, c, end)
<1>. DEFINE from == Len(got[c])
            chunk == SubSeq(out[c], from + 1, end)
<1>1. got[c] \in Seq(Chars) /\ from \in Nat
  BY LenProperties DEF TypeOK, Chars, Symbols
<1>2. printed[c] \in Nat /\ end \in Nat /\ from + 1 <= end /\ end <= Len(out[c])
  BY <1>1, OutTyped DEF TypeOK, GotFollows
<1>3. \A i \in from + 1 .. end : out[c][i] \in Symbols
  BY <1>1, <1>2, OutTyped, ElementOfSeq
<1>4. /\ chunk \in Seq(Symbols)
      /\ Len(chunk) = end - from
      /\ \A i \in 1..end - from : chunk[i] = out[c][from + i]
  <2>. HIDE DEF from
  <2>1. /\ SubSeq(out[c], from + 1, end) \in Seq(Symbols)
        /\ Len(SubSeq(out[c], from + 1, end))
             = IF from + 1 <= end THEN end - (from + 1) + 1 ELSE 0
        /\ \A i \in 1..end - (from + 1) + 1 :
             SubSeq(out[c], from + 1, end)[i] = out[c][from + 1 + i - 1]
    BY <1>1, <1>2, <1>3, SubSeqProperties
  <2>. HIDE DEF chunk
  <2>2. from \in Int /\ end \in Int /\ from + 1 <= end
    BY <1>1, <1>2
  <2>3. chunk \in Seq(Symbols)
    BY <2>1 DEF chunk
  <2>4. Len(chunk) = end - from
    <3>1. Len(chunk) = end - (from + 1) + 1
      BY <2>1, <2>2 DEF chunk
    <3>. QED
      BY <3>1, <2>2
  <2>5. ASSUME NEW i \in 1..end - from PROVE chunk[i] = out[c][from + i]
    <3>1. i \in 1..end - (from + 1) + 1 /\ from + 1 + i - 1 = from + i
      BY <2>2
    <3>2. SubSeq(out[c], from + 1, end)[i] = out[c][from + 1 + i - 1]
      BY <3>1, <2>1
    <3>. QED
      BY <3>1, <3>2 DEF chunk
  <2>. QED
    BY <2>3, <2>4, <2>5
<1>5. /\ Decode(chunk) \in Seq(Chars)
      /\ Len(Decode(chunk)) = end - from
      /\ \A i \in 1..end - from :
           Decode(chunk)[i] = IF \/ chunk[i] = "lead" /\ i = end - from
                                 \/ chunk[i] = "tail" /\ i = 1
                              THEN "bad" ELSE chunk[i]
  <2>. HIDE DEF chunk, from
  <2>. QED
    BY <1>4, DecodeKeeps
<1>. DEFINE rest == Decode(chunk)
            more == end - from
<1>7. /\ next = got[c] \o rest
      /\ rest \in Seq(Chars) /\ Len(rest) = more
  BY <1>5 DEF chunk
<1>8. ASSUME NEW i \in 1..more
      PROVE  rest[i] = IF \/ out[c][from + i] = "lead" /\ i = more
                          \/ out[c][from + i] = "tail" /\ i = 1
                       THEN "bad" ELSE out[c][from + i]
  <2>. HIDE DEF chunk, from
  <2>1. chunk[i] = out[c][from + i]
    BY <1>4, <1>8
  <2>. QED
    BY <1>5, <1>8, <2>1
<1>9. Len(got[c]) = from /\ more \in Nat /\ from + more = end
  BY <1>1, <1>2
<1>. HIDE DEF rest, more, from
<1>10. /\ next \in Seq(Chars)
       /\ Len(next) = Len(got[c]) + Len(rest)
       /\ \A i \in 1..Len(got[c]) + Len(rest) :
            next[i] = IF i <= Len(got[c]) THEN got[c][i] ELSE rest[i - Len(got[c])]
  <2>. DEFINE first == got[c]
  <2>1. first \in Seq(Chars) /\ rest \in Seq(Chars) /\ next = first \o rest
    BY <1>1, <1>7
  <2>. HIDE DEF first
  <2>2. /\ first \o rest \in Seq(Chars)
        /\ Len(first \o rest) = Len(first) + Len(rest)
        /\ \A i \in 1..Len(first) + Len(rest) :
             (first \o rest)[i] = IF i <= Len(first) THEN first[i] ELSE rest[i - Len(first)]
    BY <2>1, ConcatProperties
  <2>. QED
    BY <2>1, <2>2 DEF first
<1>11. /\ Len(next) = end
       /\ \A i \in 1..end : next[i] = IF i <= from THEN got[c][i] ELSE rest[i - from]
  BY <1>7, <1>9, <1>10
<1>12. ASSUME NEW i \in 1..Len(got[c]) PROVE next[i] = got[c][i]
  <2>1. i \in 1..end /\ i <= from
    BY <1>1, <1>2, <1>9
  <2>. QED
    BY <2>1, <1>11
<1>13. ASSUME NEW i \in Len(got[c]) + 1 .. end
       PROVE  next[i] = IF \/ out[c][i] = "lead" /\ i = end
                           \/ out[c][i] = "tail" /\ i = Len(got[c]) + 1
                        THEN "bad" ELSE out[c][i]
  <2>1. /\ i - from \in 1..more /\ from + (i - from) = i
        /\ i \in 1..end /\ ~(i <= from)
        /\ i - from = more <=> i = end
        /\ i - from = 1 <=> i = Len(got[c]) + 1
    BY <1>1, <1>2, <1>9
  <2>2. next[i] = rest[i - from]
    BY <2>1, <1>11
  <2>. QED
    BY <2>1, <2>2, <1>8
<1>. QED
  BY <1>10, <1>11, <1>12, <1>13 DEF Extends

(* So all of stdout is what the child printed, but for replaced halves. *)
LEMMA DataAppends ==
  ASSUME TypeOK, GotFollows, NEW c \in Calls, NEW end \in Len(got[c]) + 1 .. printed[c],
         NEW next, next = got[c] \o Decode(SubSeq(out[c], Len(got[c]) + 1, end))
  PROVE  /\ next \in Seq(Chars)
         /\ Len(next) = end
         /\ \A i \in 1..Len(next) : next[i] \in {out[c][i], "bad"}
<1>1. Len(got[c]) \in Nat /\ end \in Nat
  BY LenProperties, OutTyped DEF TypeOK
<1>2. Extends(next, c, end)
  BY DataReads
<1>3. ASSUME NEW i \in 1..end PROVE next[i] \in {out[c][i], "bad"}
  <2>1. CASE i <= Len(got[c])
    <3>1. i \in 1..Len(got[c])
      BY <2>1, <1>1
    <3>. QED
      BY <3>1, <1>2 DEF GotFollows, Extends
  <2>2. CASE ~(i <= Len(got[c]))
    <3>1. i \in Len(got[c]) + 1 .. end
      BY <2>2, <1>1
    <3>. QED
      BY <3>1, <1>2 DEF Extends
  <2>. QED
    BY <2>1, <2>2
<1>. QED
  BY <1>2, <1>3 DEF Extends

-----------------------------------------------------------------------------
(* Nothing has been called yet. *)
LEMMA InitIInv == Init => IInv
<1>. SUFFICES ASSUME Init PROVE IInv
  OBVIOUS
<1>1. fits \in [Calls -> BOOLEAN]
  BY DEF Init
<1>2. TypeOK
  BY <1>1 DEF Init, TypeOK, PromiseInit, Settled, TypedErrors
<1>. QED
  BY <1>2, OutTyped DEF Init, PromiseInit, IInv, TimerGuardsPending, GotFollows, AnswerHasAll

(* Types. *)
LEMMA TypeNext ==
  ASSUME TypeOK, GotFollows, [Next]_vars
  PROVE  TypeOK'
<1>. USE DEF TypeOK, input, SettleAs, Settled, TypedErrors, CanSpawn
<1>1. fits' \in [Calls -> BOOLEAN] /\ env' = env /\ out' = out
  <2>1. fits' = fits /\ env' = env /\ out' = out
    BY DEF Next, vars, Mock, RefuseKeyless, Spawn, SpawnThrows, StdinBroken, Die, Emit,
           Exit, Killed, Data, Close, ErrorEvent, TimerFires, Crash
  <2>. QED
    BY <2>1
<1>2. ASSUME NEW c \in Calls, Mock(c) \/ RefuseKeyless(c) \/ Spawn(c) \/ SpawnThrows(c)
      PROVE  TypeOK'
  BY <1>1, <1>2 DEF Mock, RefuseKeyless, Spawn, SpawnThrows
<1>3. ASSUME NEW c \in Calls, StdinBroken(c)
      PROVE  TypeOK'
  BY <1>1, <1>3 DEF StdinBroken, Die, Lose
<1>4. ASSUME NEW c \in Calls, Emit(c) \/ Exit(c) \/ Killed(c)
      PROVE  TypeOK'
  <2>1. printed[c] + 1 \in Nat
    OBVIOUS
  <2>. QED
    BY <1>1, <1>4, <2>1 DEF Emit, Exit, Killed
<1>5. ASSUME NEW c \in Calls, Data(c)
      PROVE  TypeOK'
  <2>0. PICK end \in Len(got[c]) + 1 .. printed[c] :
          got' = [got EXCEPT ![c] = @ \o Decode(SubSeq(out[c], Len(@) + 1, end))]
    BY <1>5 DEF Data
  <2>1. got'[c] \in Seq(Chars)
    <3>1. got'[c] = got[c] \o Decode(SubSeq(out[c], Len(got[c]) + 1, end))
      BY <2>0
    <3>. QED
      BY <3>1, DataAppends
  <2>2. got' \in [Calls -> Seq({"open", "shut", "text", "lead", "tail", "bad"})]
    BY <2>0, <2>1 DEF Chars, Symbols
  <2>. QED
    BY <1>1, <1>5, <2>2 DEF Data
<1>6. ASSUME NEW c \in Calls, Close(c) \/ ErrorEvent(c) \/ TimerFires(c)
      PROVE  TypeOK'
  BY <1>1, <1>6 DEF Close, ErrorEvent, TimerFires, Verdict
<1>7. CASE Crash
  BY <1>1, <1>7 DEF Crash, Die, Lose
<1>8. CASE UNCHANGED vars
  BY <1>1, <1>8 DEF vars
<1>. QED
  BY <1>2, <1>3, <1>4, <1>5, <1>6, <1>7, <1>8 DEF Next

(* Whoever settles clears the timer, and nobody else touches it. *)
LEMMA TimerNext ==
  ASSUME TypeOK, TimerGuardsPending, [Next]_vars
  PROVE  TimerGuardsPending'
<1>. USE DEF TypeOK, TimerGuardsPending, SettleAs, CanSpawn
<1>1. ASSUME NEW c \in Calls, Mock(c) \/ RefuseKeyless(c) \/ Spawn(c) \/ SpawnThrows(c)
      PROVE  TimerGuardsPending'
  BY <1>1 DEF Mock, RefuseKeyless, Spawn, SpawnThrows
<1>2. ASSUME NEW c \in Calls, StdinBroken(c)
      PROVE  TimerGuardsPending'
  BY <1>2 DEF StdinBroken, Die, Lose
<1>3. ASSUME NEW c \in Calls, Emit(c) \/ Exit(c) \/ Killed(c) \/ Data(c)
      PROVE  TimerGuardsPending'
  BY <1>3 DEF Emit, Exit, Killed, Data
<1>4. ASSUME NEW c \in Calls, Close(c) \/ ErrorEvent(c) \/ TimerFires(c)
      PROVE  TimerGuardsPending'
  BY <1>4 DEF Close, ErrorEvent, TimerFires, Verdict
<1>5. CASE Crash
  BY <1>5 DEF Crash, Die, Lose
<1>6. CASE UNCHANGED vars
  BY <1>6 DEF vars
<1>. QED
  BY <1>1, <1>2, <1>3, <1>4, <1>5, <1>6 DEF Next

(* stdout grows behind the child, up to what it has to say. *)
LEMMA GotNext ==
  ASSUME TypeOK, GotFollows, [Next]_vars
  PROVE  GotFollows'
<1>. USE DEF input, SettleAs, CanSpawn
<1>1. \A c \in Calls : printed[c] \in Nat /\ Len(out[c]) \in Nat /\ Len(got[c]) \in Nat
  BY OutTyped, LenProperties DEF TypeOK
<1>2. ASSUME UNCHANGED <<got, printed, out>>,
             \A c \in Calls : child'[c] = "ok" => child[c] = "ok" \/ printed[c] = Len(out[c])
      PROVE  GotFollows'
  BY <1>2 DEF GotFollows
<1>3. ASSUME NEW c \in Calls,
             \/ Mock(c) \/ RefuseKeyless(c) \/ Spawn(c) \/ SpawnThrows(c) \/ StdinBroken(c)
             \/ Exit(c) \/ Killed(c) \/ Close(c) \/ ErrorEvent(c) \/ TimerFires(c)
      PROVE  GotFollows'
  BY <1>2, <1>3 DEF TypeOK, Mock, RefuseKeyless, Spawn, SpawnThrows, StdinBroken, Die,
     Exit, Killed, Close, ErrorEvent, TimerFires
<1>4. ASSUME NEW c \in Calls, Emit(c)
      PROVE  GotFollows'
  BY <1>1, <1>4 DEF TypeOK, GotFollows, Emit
<1>5. ASSUME NEW c \in Calls, Data(c)
      PROVE  GotFollows'
  <2>1. PICK end \in Len(got[c]) + 1 .. printed[c] :
          got' = [got EXCEPT ![c] = @ \o Decode(SubSeq(out[c], Len(@) + 1, end))]
    BY <1>5 DEF Data
  <2>2. got'[c] = got[c] \o Decode(SubSeq(out[c], Len(got[c]) + 1, end))
    BY <2>1 DEF TypeOK
  <2>3. Len(got'[c]) = end /\ \A i \in 1..Len(got'[c]) : got'[c][i] \in {out[c][i], "bad"}
    BY <2>2, DataAppends
  <2>4. end <= printed[c]
    BY <1>1
  <2>5. \A d \in Calls \ {c} : got'[d] = got[d]
    BY <2>1 DEF TypeOK
  <2>6. UNCHANGED <<printed, out, child>>
    BY <1>5 DEF Data
  <2>. QED
    BY <2>3, <2>4, <2>5, <2>6 DEF GotFollows
<1>6. CASE Crash \/ UNCHANGED vars
  BY <1>2, <1>6 DEF Crash, Die, vars
<1>. QED
  BY <1>3, <1>4, <1>5, <1>6 DEF Next

(* An answer is made at the end of stdout, where nothing can follow. *)
LEMMA AnswerNext ==
  ASSUME TypeOK, GotFollows, AnswerHasAll, [Next]_vars
  PROVE  AnswerHasAll'
<1>. USE DEF TypeOK, input, SettleAs, CanSpawn
<1>1. \A c \in Calls : printed[c] \in Nat /\ Len(out[c]) \in Nat /\ Len(got[c]) \in Nat
  BY OutTyped, LenProperties
<1>2. ASSUME NEW c \in Calls, Mock(c) \/ RefuseKeyless(c) \/ Spawn(c) \/ SpawnThrows(c)
      PROVE  AnswerHasAll'
  BY <1>2 DEF AnswerHasAll, Mock, RefuseKeyless, Spawn, SpawnThrows
<1>3. ASSUME NEW c \in Calls, StdinBroken(c)
      PROVE  AnswerHasAll'
  BY <1>3 DEF AnswerHasAll, StdinBroken, Die, Lose
<1>4. ASSUME NEW c \in Calls, Emit(c) \/ Exit(c) \/ Killed(c)
      PROVE  AnswerHasAll'
  BY <1>4 DEF AnswerHasAll, Emit, Exit, Killed
<1>5. ASSUME NEW c \in Calls, Data(c)
      PROVE  AnswerHasAll'
  <2>1. promise[c] # "answer" \/ env = "mock" \/ Len(got[c]) = Len(out[c])
    BY DEF AnswerHasAll
  <2>2. Len(got[c]) < printed[c] /\ printed[c] <= Len(out[c])
    BY <1>1, <1>5 DEF Data, GotFollows
  <2>3. promise[c] # "answer" \/ env = "mock"
    BY <2>1, <2>2, <1>1
  <2>4. \A d \in Calls \ {c} : got'[d] = got[d]
    BY <1>5 DEF Data
  <2>. QED
    BY <1>5, <2>3, <2>4 DEF AnswerHasAll, Data
<1>6. ASSUME NEW c \in Calls, Close(c)
      PROVE  AnswerHasAll'
  <2>1. Verdict(c) = "answer" => child[c] = "ok" /\ Len(got[c]) = Len(out[c])
    BY <1>6 DEF Close, Verdict, GotFollows
  <2>. QED
    BY <1>6, <2>1 DEF AnswerHasAll, Close
<1>7. ASSUME NEW c \in Calls, ErrorEvent(c) \/ TimerFires(c)
      PROVE  AnswerHasAll'
  BY <1>7 DEF AnswerHasAll, ErrorEvent, TimerFires
<1>8. CASE Crash \/ UNCHANGED vars
  BY <1>8 DEF AnswerHasAll, Crash, Die, Lose, vars
<1>. QED
  BY <1>2, <1>3, <1>4, <1>5, <1>6, <1>7, <1>8 DEF Next

(* Every step preserves the invariant. *)
LEMMA NextIInv == IInv /\ [Next]_vars => IInv'
BY TypeNext, TimerNext, GotNext, AnswerNext DEF IInv

(* The inductive invariant holds of every behaviour. *)
THEOREM Invariance == Spec => []IInv
BY InitIInv, NextIInv, PTL DEF Spec

(* The variables keep their types: stdout is a string of what children print *)
(* and of replacement characters.                                            *)
THEOREM TypeCorrect == Spec => []TypeOK
BY Invariance, PTL DEF IInv

(* A timer is armed exactly as long as its call is pending. *)
THEOREM TimerGuards == Spec => []TimerGuardsPending
BY Invariance, PTL DEF IInv

(* However the output is cut into chunks and the callbacks are ordered, an *)
(* answer was judged on all of it.                                         *)
THEOREM AnswersWhole == Spec => []WholeAnswer
<1>1. IInv => WholeAnswer
  BY DEF IInv, GotFollows, AnswerHasAll, WholeAnswer
<1>. QED
  BY <1>1, Invariance, PTL

(* The callbacks implement the promise: every settling step finds its *)
(* promise pending.                                                   *)
THEOREM PromiseRefinement == Spec => ImplementsPromise
<1>1. Init => PromiseInit
  BY DEF Init
<1>2. IInv /\ [Next]_vars => [PromiseNext]_promise
  <2>. SUFFICES ASSUME IInv, [Next]_vars PROVE [PromiseNext]_promise
    OBVIOUS
  <2>. USE DEF IInv, TypeOK, SettleAs, CanSpawn, Settled, TypedErrors
  <2>1. ASSUME NEW c \in Calls, Mock(c) \/ RefuseKeyless(c) \/ Spawn(c) \/ SpawnThrows(c)
        PROVE  Call(c)
    BY <2>1 DEF Call, Mock, RefuseKeyless, Spawn, SpawnThrows
  <2>2. ASSUME NEW c \in Calls, StdinBroken(c)
        PROVE  Lose({c}) /\ promise[c] = "uncalled"
    BY <2>2 DEF StdinBroken, Die
  <2>3. ASSUME NEW c \in Calls, Emit(c) \/ Exit(c) \/ Killed(c) \/ Data(c)
        PROVE  UNCHANGED promise
    BY <2>3 DEF Emit, Exit, Killed, Data
  <2>4. ASSUME NEW c \in Calls, Close(c) \/ ErrorEvent(c) \/ TimerFires(c)
        PROVE  Settle(c)
    BY <2>4 DEF Settle, Close, ErrorEvent, TimerFires, Verdict, TimerGuardsPending
  <2>5. CASE Crash
    BY <2>5 DEF PromiseNext, Crash, Die
  <2>6. CASE UNCHANGED vars
    BY <2>6 DEF vars
  <2>. QED
    BY <2>1, <2>2, <2>3, <2>4, <2>5, <2>6 DEF Next, PromiseNext
<1>. QED
  BY <1>1, <1>2, Invariance, PTL DEF Spec, PromiseSpec, ImplementsPromise

-----------------------------------------------------------------------------
(* Children and promises: none before the call, none killed while it is      *)
(* pending, and none left to run when it is settled.                         *)
ChildOf(c) ==
  /\ promise[c] = "uncalled" => child[c] = "none"
  /\ promise[c] = "pending" => child[c] \in {"running", "absent", "ok", "bad"}
  /\ promise[c] \in Settled => child[c] \in Ended \cup {"dying"}

(* The safety half of NoChildOutlivesItsCall. *)
NoChildRunsOn ==
  \A c \in Calls : promise[c] \in Settled => child[c] \in Ended \cup {"dying"}

(* Whoever settles a call finds its child ended, or kills it. *)
LEMMA ChildNext ==
  ASSUME TypeOK, TimerGuardsPending, [Next]_vars, NEW d \in Calls, ChildOf(d)
  PROVE  ChildOf(d)'
<1>. USE DEF TypeOK, ChildOf, Settled, TypedErrors, Ended, input
<1>1. ASSUME NEW c \in Calls, Mock(c) \/ RefuseKeyless(c) \/ SpawnThrows(c)
      PROVE  ChildOf(d)'
  BY <1>1 DEF Mock, RefuseKeyless, SpawnThrows, CanSpawn, SettleAs
<1>2. ASSUME NEW c \in Calls, Spawn(c)
      PROVE  ChildOf(d)'
  BY <1>2 DEF Spawn, CanSpawn
<1>3. ASSUME NEW c \in Calls, Close(c) \/ ErrorEvent(c)
      PROVE  ChildOf(d)'
  BY <1>3 DEF Close, ErrorEvent, SettleAs, Verdict
<1>4. ASSUME NEW c \in Calls, TimerFires(c)
      PROVE  ChildOf(d)'
  BY <1>4 DEF TimerFires, SettleAs, TimerGuardsPending
<1>5. ASSUME NEW c \in Calls, Emit(c) \/ Exit(c) \/ Killed(c) \/ Data(c)
      PROVE  ChildOf(d)'
  BY <1>5 DEF Emit, Exit, Killed, Data
<1>6. ASSUME NEW c \in Calls, StdinBroken(c)
      PROVE  ChildOf(d)'
  BY <1>6 DEF StdinBroken, CanSpawn, Die, Lose
<1>7. ASSUME Crash
      PROVE  ChildOf(d)'
  BY <1>7 DEF Crash, Die, Lose
<1>8. CASE UNCHANGED vars
  BY <1>8 DEF vars
<1>. QED
  BY <1>1, <1>2, <1>3, <1>4, <1>5, <1>6, <1>7, <1>8 DEF Next

(* The child of a settled call has ended or has been sent its SIGKILL: no    *)
(* order of 'close', 'error' and the timer settles a call and leaves a CLI   *)
(* running that nobody will kill.  NoChildOutlivesItsCall adds that the      *)
(* SIGKILL kills.                                                            *)
THEOREM NoChildIsLeft == Spec => []NoChildRunsOn
<1>. DEFINE Children == \A c \in Calls : ChildOf(c)
<1>1. Init => Children
  BY DEF Init, PromiseInit, ChildOf, Settled, TypedErrors
<1>2. IInv /\ Children /\ [Next]_vars => Children'
  BY ChildNext DEF IInv
<1>3. Children => NoChildRunsOn
  BY DEF ChildOf, NoChildRunsOn
<1>. QED
  BY <1>1, <1>2, <1>3, Invariance, PTL DEF Spec

-----------------------------------------------------------------------------
(* What decoding chunk by chunk has made of the output so far: only halves of *)
(* characters are replaced; of a character that was printed whole, both or    *)
(* none; and no first half waits at the end for its second.                   *)
GarbledOf(c) ==
  /\ \A i \in 1..Len(got[c]) :
       got[c][i] # out[c][i] => got[c][i] = "bad" /\ out[c][i] \in {"lead", "tail"}
  /\ \A i \in 2..Len(got[c]) :
       out[c][i - 1] = "lead" /\ out[c][i] = "tail" =>
         (got[c][i - 1] = "bad" <=> got[c][i] = "bad")
  /\ \A i \in 1..Len(got[c]) : i = Len(got[c]) => got[c][i] # "lead"

GarbledWhole == \A c \in Calls : GarbledOf(c)

(* A chunk that ends within a character replaces its first half, and the *)
(* chunk that follows the second.                                        *)
LEMMA GarbledData ==
  ASSUME TypeOK, GotFollows, NEW c \in Calls, GarbledOf(c), Data(c)
  PROVE  GarbledOf(c)'
<1>1. PICK end \in Len(got[c]) + 1 .. printed[c] :
        got' = [got EXCEPT ![c] = @ \o Decode(SubSeq(out[c], Len(@) + 1, end))]
  BY DEF Data
<1>. DEFINE from == Len(got[c])
            next == got'[c]
<1>2. next = got[c] \o Decode(SubSeq(out[c], Len(got[c]) + 1, end))
  BY <1>1 DEF TypeOK
<1>3. /\ Len(next) = end
      /\ \A i \in 1..from : next[i] = got[c][i]
      /\ \A i \in from + 1 .. end :
           next[i] = IF \/ out[c][i] = "lead" /\ i = end
                        \/ out[c][i] = "tail" /\ i = from + 1
                     THEN "bad" ELSE out[c][i]
  <2>1. Extends(next, c, end)
    BY <1>2, DataReads
  <2>. QED
    BY <2>1 DEF Extends
<1>4. /\ from \in Nat /\ end \in Nat /\ from < end
      /\ \A i \in 1..end : out[c][i] \in Symbols
  <2>1. from \in Nat /\ end \in Nat /\ from < end /\ end <= Len(out[c])
    BY LenProperties, OutTyped DEF TypeOK, GotFollows
  <2>. QED
    BY <2>1, OutTyped, ElementOfSeq
<1>5. out' = out
  BY DEF Data, input
<1>. HIDE DEF from, next
<1>6. ASSUME NEW i \in 1..end
      PROVE  next[i] # out[c][i] => next[i] = "bad" /\ out[c][i] \in {"lead", "tail"}
  <2>1. CASE i \in 1..from
    BY <2>1, <1>3 DEF GarbledOf, from
  <2>2. CASE i \in from + 1 .. end
    BY <2>2, <1>3
  <2>. QED
    BY <2>1, <2>2, <1>4
<1>7. ASSUME NEW i \in 2..end, out[c][i - 1] = "lead", out[c][i] = "tail"
      PROVE  next[i - 1] = "bad" <=> next[i] = "bad"
  <2>1. CASE i \in 2..from
    <3>1. i - 1 \in 1..from /\ i \in 1..from
      BY <2>1, <1>4
    <3>2. got[c][i - 1] = "bad" <=> got[c][i] = "bad"
      BY <2>1, <1>7 DEF GarbledOf, from
    <3>. QED
      BY <3>1, <3>2, <1>3
  <2>2. CASE i = from + 1
    <3>1. from \in 1..from /\ i - 1 = from /\ i \in from + 1 .. end
      BY <2>2, <1>4
    <3>2. got[c][from] = "bad"
      BY <3>1, <1>7 DEF GarbledOf, from
    <3>. QED
      BY <3>1, <3>2, <2>2, <1>3, <1>7
  <2>3. CASE i \in from + 2 .. end
    <3>1. /\ i - 1 \in from + 1 .. end /\ i \in from + 1 .. end
          /\ i - 1 # end /\ i # from + 1
      BY <2>3, <1>4
    <3>. QED
      BY <3>1, <1>3, <1>7
  <2>. QED
    BY <2>1, <2>2, <2>3, <1>4
<1>8. next[end] # "lead"
  <2>1. end \in from + 1 .. end
    BY <1>4
  <2>. QED
    BY <2>1, <1>3
<1>. QED
  BY <1>3, <1>4, <1>5, <1>6, <1>7, <1>8 DEF GarbledOf, next

(* Every step keeps what stdout has become. *)
LEMMA GarbledNext ==
  ASSUME TypeOK, GotFollows, GarbledWhole, [Next]_vars
  PROVE  GarbledWhole'
<1>. USE DEF GarbledWhole
<1>1. ASSUME UNCHANGED <<got, out>>
      PROVE  GarbledWhole'
  BY <1>1 DEF GarbledOf
<1>2. ASSUME NEW c \in Calls, Data(c)
      PROVE  GarbledWhole'
  <2>1. GarbledOf(c)'
    BY <1>2, GarbledData
  <2>2. ASSUME NEW d \in Calls \ {c} PROVE GarbledOf(d)'
    <3>1. got'[d] = got[d] /\ out'[d] = out[d]
      BY <1>2, <2>2 DEF Data, TypeOK, input
    <3>2. GarbledOf(d)
      OBVIOUS
    <3>. QED
      BY <3>1, <3>2 DEF GarbledOf
  <2>. QED
    BY <2>1, <2>2
<1>3. UNCHANGED <<got, out>> \/ \E c \in Calls : Data(c)
  BY DEF Next, vars, input, Mock, RefuseKeyless, Spawn, SpawnThrows, StdinBroken, Die,
         Emit, Exit, Killed, Close, ErrorEvent, TimerFires, Crash
<1>. QED
  BY <1>1, <1>2, <1>3

(* Wherever the pipe cuts the output into chunks, a brace or a text is never *)
(* lost or changed, and a character printed whole comes out whole or as two  *)
(* replacement characters: no half of one is ever read as anything else.     *)
THEOREM OnlyHalvesGarbled == Spec => []GarbledWhole
<1>1. Init => GarbledWhole
  <2>. SUFFICES ASSUME Init, NEW c \in Calls PROVE GarbledOf(c)
    BY DEF GarbledWhole
  <2>1. Len(got[c]) = 0
    BY DEF Init
  <2>. QED
    BY <2>1 DEF GarbledOf
<1>2. IInv /\ GarbledWhole /\ [Next]_vars => GarbledWhole'
  BY GarbledNext DEF IInv
<1>. QED
  BY <1>1, <1>2, Invariance, PTL DEF Spec

=============================================================================
