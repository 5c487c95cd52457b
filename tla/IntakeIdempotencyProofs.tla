---------------------- MODULE IntakeIdempotencyProofs -----------------------
(***************************************************************************)
(* Proofs about IntakeIdempotency, for any set of requests and CI runs,    *)
(* any window and any clock.                                               *)
(*                                                                         *)
(* The SELECT of the route protects nothing by itself.  The argument is    *)
(* that of the unique index: the transaction that holds an entry of a key  *)
(* is alone in doing so, and found no committed row of that key; no row    *)
(* ever leaves the index, because rows are not deleted and every expiry    *)
(* lies beyond the fixed date in the index's WHERE.                        *)
(***************************************************************************)
EXTENDS IntakeIdempotency, TLAPS

RowsSettled ==
  /\ WholeIntake
  /\ \A r \in meta : pc[r] \in {"committed", "done"}
  /\ \A r \in Requests :
       /\ pc[r] = "committed" => r \in meta
       /\ pc[r] # "done" => reply[r] = 0

OneHolder ==
  \A q, r \in Requests :
    pc[q] = "keyed" /\ pc[r] = "keyed" /\ SameKey(q, r) => q = r

HolderAlone ==
  \A r \in Requests, q \in keys : pc[r] = "keyed" => ~SameKey(q, r)

(* A success names a stored intake of the request's key. *)
AnswerStored ==
  \A r \in Requests :
    reply[r] \in {200, 201} => answer[r] \in meta /\ SameKey(answer[r], r)

GetFinds == \A r \in Requests : got[r] # 404

IInv ==
  /\ TypeOK
  /\ RowsSettled
  /\ OneHolder
  /\ HolderAlone
  /\ OneIntakePerKey
  /\ AnswerStored
  /\ GetFinds

(* Every row is in the partial index. *)
LEMMA AlwaysIndexed ==
  ASSUME TypeOK, NEW r \in Requests
  PROVE  Indexed(r)
BY TimeAssumption DEF TypeOK, Indexed, ExpiresAt

(* No row is stored and no request has begun. *)
LEMMA InitIInv == Init => IInv
BY DEF Init, IInv, TypeOK, RowsSettled, WholeIntake, OneHolder, HolderAlone,
       OneIntakePerKey, AnswerStored, GetFinds, PCs, InTx

(* Types. *)
LEMMA TypeNext ==
  ASSUME TypeOK, RowsSettled, [Next]_vars
  PROVE  TypeOK'
<1>. USE TimeAssumption DEF TypeOK, RowsSettled, WholeIntake, InTx, PCs,
         tables
<1>1. ASSUME NEW r \in Requests,
             \/ Unauthorized(r) \/ Refuse(r) \/ MaskBlocked(r) \/ Replay(r)
             \/ UniqueViolation(r) \/ Respond(r) \/ Fail(r)
      PROVE  TypeOK'
  BY <1>1 DEF Unauthorized, Refuse, MaskBlocked, Replay, Active, UniqueViolation,
               Respond, Fail, Finish
<1>2. ASSUME NEW r \in Requests,
             Begin(r) \/ FoundNone(r) \/ InsertIntake(r) \/ Get(r)
      PROVE  TypeOK'
  BY <1>2 DEF Begin, FoundNone, InsertIntake, Get
<1>3. ASSUME NEW r \in Requests, InsertKey(r) PROVE TypeOK'
  BY <1>3 DEF InsertKey
<1>4. ASSUME NEW r \in Requests, Commit(r) PROVE TypeOK'
  BY <1>4 DEF Commit
<1>5. ASSUME Tick \/ Crash PROVE TypeOK'
  BY <1>5 DEF Tick, Crash, InFlight
<1>6. CASE UNCHANGED vars
  BY <1>6 DEF vars
<1>. QED
  BY <1>1, <1>2, <1>3, <1>4, <1>5, <1>6 DEF Next, Step

(* A COMMIT stores the three rows together and settles its request. *)
LEMMA SettledNext ==
  ASSUME TypeOK, RowsSettled, [Next]_vars
  PROVE  RowsSettled'
<1>. USE DEF TypeOK, RowsSettled, WholeIntake, InTx, PCs, tables
<1>1. ASSUME NEW r \in Requests,
             \/ Unauthorized(r) \/ Refuse(r) \/ MaskBlocked(r) \/ Replay(r)
             \/ UniqueViolation(r) \/ Respond(r) \/ Fail(r)
      PROVE  RowsSettled'
  BY <1>1 DEF Unauthorized, Refuse, MaskBlocked, Replay, Active, UniqueViolation,
               Respond, Fail, Finish
<1>2. ASSUME NEW r \in Requests,
             Begin(r) \/ FoundNone(r) \/ InsertIntake(r) \/ Get(r)
      PROVE  RowsSettled'
  BY <1>2 DEF Begin, FoundNone, InsertIntake, Get
<1>3. ASSUME NEW r \in Requests, InsertKey(r) PROVE RowsSettled'
  BY <1>3 DEF InsertKey
<1>4. ASSUME NEW r \in Requests, Commit(r) PROVE RowsSettled'
  BY <1>4 DEF Commit
<1>5. ASSUME Tick \/ Crash PROVE RowsSettled'
  BY <1>5 DEF Tick, Crash, InFlight
<1>6. CASE UNCHANGED vars
  BY <1>6 DEF vars
<1>. QED
  BY <1>1, <1>2, <1>3, <1>4, <1>5, <1>6 DEF Next, Step

(* The INSERT waits for other holders and finds no committed row. *)
LEMMA HolderNext ==
  ASSUME TypeOK, RowsSettled, OneHolder, HolderAlone, [Next]_vars
  PROVE  OneHolder' /\ HolderAlone'
<1>. USE DEF TypeOK, RowsSettled, WholeIntake, InTx, PCs, tables, OneHolder,
         HolderAlone, SameKey
<1>1. ASSUME NEW r \in Requests,
             \/ Unauthorized(r) \/ Refuse(r) \/ MaskBlocked(r) \/ Replay(r)
             \/ UniqueViolation(r) \/ Respond(r) \/ Fail(r)
      PROVE  OneHolder' /\ HolderAlone'
  BY <1>1 DEF Unauthorized, Refuse, MaskBlocked, Replay, Active, UniqueViolation,
               Respond, Fail, Finish
<1>2. ASSUME NEW r \in Requests,
             Begin(r) \/ FoundNone(r) \/ InsertIntake(r) \/ Get(r)
      PROVE  OneHolder' /\ HolderAlone'
  BY <1>2 DEF Begin, FoundNone, InsertIntake, Get
<1>3. ASSUME NEW r \in Requests, InsertKey(r) PROVE OneHolder' /\ HolderAlone'
  BY <1>3, AlwaysIndexed DEF InsertKey, Holders, Conflicts
<1>4. ASSUME NEW r \in Requests, Commit(r) PROVE OneHolder' /\ HolderAlone'
  BY <1>4 DEF Commit
<1>5. ASSUME Tick \/ Crash PROVE OneHolder' /\ HolderAlone'
  BY <1>5 DEF Tick, Crash, InFlight
<1>6. CASE UNCHANGED vars
  BY <1>6 DEF vars
<1>. QED
  BY <1>1, <1>2, <1>3, <1>4, <1>5, <1>6 DEF Next, Step

(* The holder that commits is the only one of its key. *)
LEMMA OneIntakeNext ==
  ASSUME TypeOK, RowsSettled, HolderAlone, OneIntakePerKey, [Next]_vars
  PROVE  OneIntakePerKey'
<1>. USE DEF TypeOK, RowsSettled, WholeIntake, InTx, PCs, tables, HolderAlone,
         OneIntakePerKey, SameKey
<1>1. ASSUME NEW r \in Requests,
             \/ Unauthorized(r) \/ Refuse(r) \/ MaskBlocked(r) \/ Replay(r)
             \/ UniqueViolation(r) \/ Respond(r) \/ Fail(r)
      PROVE  OneIntakePerKey'
  BY <1>1 DEF Unauthorized, Refuse, MaskBlocked, Replay, Active, UniqueViolation,
               Respond, Fail, Finish
<1>2. ASSUME NEW r \in Requests,
             Begin(r) \/ FoundNone(r) \/ InsertIntake(r) \/ Get(r)
      PROVE  OneIntakePerKey'
  BY <1>2 DEF Begin, FoundNone, InsertIntake, Get
<1>3. ASSUME NEW r \in Requests, InsertKey(r) PROVE OneIntakePerKey'
  BY <1>3 DEF InsertKey
<1>4. ASSUME NEW r \in Requests, Commit(r) PROVE OneIntakePerKey'
  BY <1>4 DEF Commit
<1>5. ASSUME Tick \/ Crash PROVE OneIntakePerKey'
  BY <1>5 DEF Tick, Crash, InFlight
<1>6. CASE UNCHANGED vars
  BY <1>6 DEF vars
<1>. QED
  BY <1>1, <1>2, <1>3, <1>4, <1>5, <1>6 DEF Next, Step

(* A 200 names a row the SELECT found; a 201 names the row committed. *)
LEMMA AnswerNext ==
  ASSUME TypeOK, RowsSettled, AnswerStored, [Next]_vars
  PROVE  AnswerStored'
<1>. USE DEF TypeOK, RowsSettled, WholeIntake, InTx, PCs, tables,
         AnswerStored, SameKey
<1>1. ASSUME NEW r \in Requests,
             \/ Unauthorized(r) \/ Refuse(r) \/ MaskBlocked(r) \/ UniqueViolation(r)
             \/ Fail(r)
      PROVE  AnswerStored'
  BY <1>1 DEF Unauthorized, Refuse, MaskBlocked, UniqueViolation, Fail, Finish
<1>2. ASSUME NEW r \in Requests, Replay(r) \/ Respond(r) PROVE AnswerStored'
  BY <1>2 DEF Replay, Active, Respond, Finish
<1>3. ASSUME NEW r \in Requests,
             Begin(r) \/ FoundNone(r) \/ InsertIntake(r) \/ Get(r)
      PROVE  AnswerStored'
  BY <1>3 DEF Begin, FoundNone, InsertIntake, Get
<1>4. ASSUME NEW r \in Requests, InsertKey(r) PROVE AnswerStored'
  BY <1>4 DEF InsertKey
<1>5. ASSUME NEW r \in Requests, Commit(r) PROVE AnswerStored'
  BY <1>5 DEF Commit
<1>6. ASSUME Tick \/ Crash PROVE AnswerStored'
  BY <1>6 DEF Tick, Crash, InFlight
<1>7. CASE UNCHANGED vars
  BY <1>7 DEF vars
<1>. QED
  BY <1>1, <1>2, <1>3, <1>4, <1>5, <1>6, <1>7 DEF Next, Step

(* The intake an answer names is whole, and of the tenant that asked. *)
LEMMA GetNext ==
  ASSUME TypeOK, RowsSettled, AnswerStored, GetFinds, [Next]_vars
  PROVE  GetFinds'
<1>1. ASSUME NEW r \in Requests, Get(r) PROVE GetFinds'
  <2>1. answer[r] \in meta \cap raw /\ SameKey(answer[r], r)
    BY <1>1 DEF Get, AnswerStored, RowsSettled, WholeIntake
  <2>2. run[answer[r]].tenant = run[r].tenant
    BY <2>1 DEF SameKey, DedupeKey
  <2>3. answer[r] \in Visible(run[r].tenant)
    BY <2>1, <2>2 DEF Visible
  <2>4. got' = [got EXCEPT ![r] = 200] \/ got' = [got EXCEPT ![r] = 500]
    BY <1>1, <2>3 DEF Get
  <2>. QED
    BY <2>4 DEF GetFinds, TypeOK
<1>2. CASE got' = got
  BY <1>2 DEF GetFinds
<1>3. ASSUME NEW r \in Requests,
             \/ Unauthorized(r) \/ Refuse(r) \/ MaskBlocked(r) \/ Begin(r) \/ Fail(r)
             \/ Step(r)
      PROVE  got' = got
  BY <1>3 DEF Unauthorized, Refuse, MaskBlocked, Begin, Fail, Step, Replay, FoundNone,
              InsertIntake, InsertKey, UniqueViolation, Commit, Respond
<1>4. Tick \/ Crash \/ UNCHANGED vars => got' = got
  BY DEF Tick, Crash, vars
<1>. QED
  BY <1>1, <1>2, <1>3, <1>4 DEF Next

(* Every step preserves the invariant. *)
LEMMA NextIInv == IInv /\ [Next]_vars => IInv'
BY TypeNext, SettledNext, HolderNext, OneIntakeNext, AnswerNext, GetNext DEF IInv

(* The inductive invariant holds of every behaviour. *)
THEOREM Invariance == Spec => []IInv
BY InitIInv, NextIInv, PTL DEF Spec

(* The variables keep their types. *)
THEOREM TypeCorrect == Spec => []TypeOK
BY Invariance, PTL DEF IInv

(* No race, failure, crash or retry stores two intakes of one run. *)
THEOREM NoDuplicateIntake == Spec => []OneIntakePerKey
BY Invariance, PTL DEF IInv

(* The three rows of an intake are stored together. *)
THEOREM IntakesWhole == Spec => []WholeIntake
BY Invariance, PTL DEF IInv, RowsSettled

(* Successful POSTs of one run all name one stored intake. *)
THEOREM AnswersAlwaysAgree == Spec => []AnswersAgree
<1>1. IInv => AnswersAgree
  <2>. SUFFICES ASSUME IInv, NEW q \in Requests, NEW r \in Requests,
                       reply[q] \in {200, 201}, reply[r] \in {200, 201},
                       run[q] = run[r]
                PROVE  answer[q] = answer[r] /\ answer[q] \in meta
    BY DEF AnswersAgree, IInv, GetFinds
  <2>1. /\ answer[q] \in meta /\ SameKey(answer[q], q)
        /\ answer[r] \in meta /\ SameKey(answer[r], r)
    BY DEF IInv, AnswerStored
  <2>2. SameKey(answer[q], answer[r])
    BY <2>1 DEF SameKey
  <2>. QED
    BY <2>1, <2>2 DEF IInv, OneIntakePerKey
<1>. QED
  BY <1>1, Invariance, PTL

-----------------------------------------------------------------------------
(* The refinement: a COMMIT stores the entry of its run, and an answer of    *)
(* 200 or 201 tells it.                                                      *)

(* At most one intake of a run is stored, so a stored one is all there is. *)
LEMMA OnlyIntake ==
  ASSUME OneIntakePerKey, NEW q \in meta
  PROVE  IntakesOf(DedupeKey(run[q])) = {q}
BY DEF OneIntakePerKey, SameKey, IntakesOf

(* What a request is told depends on its answer. *)
LEMMA ToldKept ==
  ASSUME NEW r \in Requests, reply'[r] = reply[r], answer'[r] = answer[r]
  PROVE  Told(r)' = Told(r)
BY DEF Told

(* What one request is told changes the function of what all have been told. *)
LEMMA ToldToOne ==
  ASSUME NEW r \in Requests, NEW new, Told(r)' = new,
         \A p \in Requests \ {r} : Told(p)' = Told(p)
  PROVE  [p \in Requests |-> Told(p)]' = [[p \in Requests |-> Told(p)] EXCEPT ![r] = new]
<1>1. \A p \in Requests : Told(p)' = IF p = r THEN new ELSE Told(p)
  OBVIOUS
<1>. QED
  BY <1>1

(* While the tables and the runs do not change, the entries do not. *)
LEMMA EntriesKept ==
  ASSUME meta' = meta, run' = run
  PROVE  \A k \in RunKeys : IntakesOf(k)' = IntakesOf(k)
BY DEF IntakesOf

(* An answer that ends r tells it "answers", and nobody else anything. *)
LEMMA FinishTells ==
  ASSUME TypeOK, RowsSettled, NEW r \in Requests, pc[r] # "done", UNCHANGED <<tables, run>>,
         NEW code, NEW intake, Finish(r, code, intake)
  PROVE  /\ \A q \in Requests \ {r} : Told(q)' = Told(q)
         /\ Told(r) = {}
         /\ Told(r)' = IF code \in {200, 201} THEN {intake} ELSE {}
         /\ \A k \in RunKeys : IntakesOf(k)' = IntakesOf(k)
<1>1. reply[r] = 0
  BY DEF RowsSettled
<1>2. /\ reply'[r] = code /\ answer'[r] = intake
      /\ \A q \in Requests \ {r} : reply'[q] = reply[q] /\ answer'[q] = answer[q]
  BY DEF Finish, TypeOK
<1>3. \A q \in Requests \ {r} : Told(q)' = Told(q)
  BY <1>2, ToldKept
<1>4. Told(r) = {} /\ Told(r)' = IF code \in {200, 201} THEN {intake} ELSE {}
  BY <1>1, <1>2 DEF Told
<1>5. \A k \in RunKeys : IntakesOf(k)' = IntakesOf(k)
  BY EntriesKept DEF tables
<1>. QED
  BY <1>3, <1>4, <1>5

(* Nothing is stored and nobody has been told anything. *)
LEMMA LedgerInit == Init => Ledger!OnceInit
BY DEF Init, Ledger!OnceInit, IntakesOf, Told

(* The COMMIT of the only holder of an entry is the abstract Store. *)
LEMMA CommitStores ==
  ASSUME IInv, NEW r \in Requests, Commit(r)
  PROVE  Ledger!Store(r)
<1>1. PICK k0 \in RunKeys : k0 = DedupeKey(run[r])
  BY DEF IInv, TypeOK, RunKeys
<1>2. IntakesOf(k0) = {}
  BY <1>1 DEF IInv, RowsSettled, WholeIntake, HolderAlone, SameKey, IntakesOf, Commit
<1>3. meta' = meta \cup {r} /\ UNCHANGED <<run, reply, answer>>
  BY DEF Commit
<1>4. IntakesOf(k0)' = {r}
  BY <1>1, <1>2, <1>3 DEF IntakesOf
<1>5. \A k \in RunKeys \ {k0} : IntakesOf(k)' = IntakesOf(k)
  BY <1>1, <1>3 DEF IntakesOf
<1>6. \A q \in Requests : Told(q)' = Told(q)
  BY <1>3, ToldKept
<1>7. [k \in RunKeys |-> IntakesOf(k)]' = [[k \in RunKeys |-> IntakesOf(k)] EXCEPT ![k0] = {r}]
  <2>1. \A k \in RunKeys : IntakesOf(k)' = IF k = k0 THEN {r} ELSE IntakesOf(k)
    BY <1>4, <1>5
  <2>. QED
    BY <2>1
<1>8. [q \in Requests |-> Told(q)]' = [q \in Requests |-> Told(q)]
  BY <1>6
<1>. QED
  BY <1>1, <1>2, <1>3, <1>7, <1>8 DEF Ledger!Store

(* A 200 names the row that was found, a 201 the row that was committed. *)
LEMMA SuccessTells ==
  ASSUME IInv, NEW r \in Requests, pc[r] # "done", UNCHANGED <<tables, run>>,
         NEW code \in {200, 201}, NEW q \in meta, SameKey(q, r), Finish(r, code, q)
  PROVE  Ledger!Tell(r)
<1>1. PICK k0 \in RunKeys : k0 = DedupeKey(run[r])
  BY DEF IInv, TypeOK, RunKeys
<1>2. IntakesOf(k0) = {q}
  BY <1>1, OnlyIntake DEF IInv, SameKey
<1>3. /\ \A p \in Requests \ {r} : Told(p)' = Told(p)
      /\ Told(r) = {} /\ Told(r)' = {q}
      /\ \A k \in RunKeys : IntakesOf(k)' = IntakesOf(k)
  BY FinishTells DEF IInv
<1>4. [p \in Requests |-> Told(p)]' = [[p \in Requests |-> Told(p)] EXCEPT ![r] = {q}]
  BY <1>3, ToldToOne
<1>5. [k \in RunKeys |-> IntakesOf(k)]' = [k \in RunKeys |-> IntakesOf(k)]
  BY <1>3
<1>6. [p \in Requests |-> DedupeKey(run[p])][r] = k0
  BY <1>1
<1>7. [k \in RunKeys |-> IntakesOf(k)][k0] = {q}
  BY <1>1, <1>2
<1>8. [p \in Requests |-> Told(p)][r] = {}
  BY <1>3
<1>. QED
  BY <1>2, <1>4, <1>5, <1>6, <1>7, <1>8 DEF Ledger!Tell

(* A failure or refusal tells nothing. *)
LEMMA FailureTells ==
  ASSUME IInv, NEW r \in Requests, pc[r] # "done", UNCHANGED <<tables, run>>,
         NEW code, code \notin {200, 201}, Finish(r, code, NoIntake)
  PROVE  UNCHANGED Ledger!onceVars
<1>1. /\ \A q \in Requests : Told(q)' = Told(q)
      /\ \A k \in RunKeys : IntakesOf(k)' = IntakesOf(k)
  BY FinishTells DEF IInv
<1>. QED
  BY <1>1 DEF Ledger!onceVars

(* Every step of the route is a step of the abstract table or none. *)
LEMMA LedgerNext == IInv /\ [Next]_vars => [Ledger!OnceNext]_(Ledger!onceVars)
<1>. SUFFICES ASSUME IInv, [Next]_vars PROVE [Ledger!OnceNext]_(Ledger!onceVars)
  OBVIOUS
<1>1. ASSUME NEW r \in Requests, Commit(r) PROVE Ledger!OnceNext
  BY <1>1, CommitStores DEF Ledger!OnceNext
<1>2. ASSUME NEW r \in Requests, Replay(r) PROVE Ledger!OnceNext
  <2>1. PICK q \in Active(r) : Finish(r, 200, q)
    BY <1>2 DEF Replay
  <2>2. q \in meta /\ SameKey(q, r)
    BY <2>1 DEF Active
  <2>. QED
    BY <1>2, <2>1, <2>2, SuccessTells DEF Replay, Ledger!OnceNext
<1>3. ASSUME NEW r \in Requests, Respond(r) PROVE Ledger!OnceNext \/ UNCHANGED Ledger!onceVars
  <2>1. r \in meta /\ SameKey(r, r) /\ pc[r] # "done" /\ UNCHANGED <<tables, run>>
    BY <1>3 DEF Respond, IInv, RowsSettled, SameKey
  <2>2. CASE Finish(r, 201, r)
    BY <2>1, <2>2, SuccessTells DEF Ledger!OnceNext
  <2>3. CASE Finish(r, 500, NoIntake)
    BY <2>1, <2>3, FailureTells
  <2>. QED
    BY <1>3, <2>2, <2>3 DEF Respond
<1>4. ASSUME NEW r \in Requests,
             \/ Unauthorized(r) \/ Refuse(r) \/ MaskBlocked(r) \/ UniqueViolation(r) \/ Fail(r)
      PROVE  UNCHANGED Ledger!onceVars
  <2>1. pc[r] # "done" /\ UNCHANGED <<tables, run>>
    BY <1>4 DEF Unauthorized, Refuse, MaskBlocked, UniqueViolation, Fail, InTx
  <2>2. PICK code \in {400, 401, 413, 422, 500} : Finish(r, code, NoIntake)
    BY <1>4 DEF Unauthorized, Refuse, MaskBlocked, UniqueViolation, Fail
  <2>. QED
    BY <2>1, <2>2, FailureTells
<1>5. ASSUME UNCHANGED <<meta, run, reply, answer>> PROVE UNCHANGED Ledger!onceVars
  <2>1. \A q \in Requests : Told(q)' = Told(q)
    BY <1>5, ToldKept
  <2>2. \A k \in RunKeys : IntakesOf(k)' = IntakesOf(k)
    BY <1>5, EntriesKept
  <2>. QED
    BY <1>5, <2>1, <2>2 DEF Ledger!onceVars
<1>6. ASSUME NEW r \in Requests,
             Begin(r) \/ FoundNone(r) \/ InsertIntake(r) \/ InsertKey(r) \/ Get(r)
      PROVE  UNCHANGED <<meta, run, reply, answer>>
  BY <1>6 DEF Begin, FoundNone, InsertIntake, InsertKey, Get, tables
<1>7. Tick \/ Crash \/ UNCHANGED vars => UNCHANGED <<meta, run, reply, answer>>
  BY DEF Tick, Crash, tables, vars
<1>. QED
  BY <1>1, <1>2, <1>3, <1>4, <1>5, <1>6, <1>7 DEF Next, Step

(* The route is a table with one entry per CI run, for any requests: the     *)
(* first intake that is committed is the only one and the one that all       *)
(* successful POSTs are answered with.                                       *)
THEOREM WriteOnceRefinement == Spec => ImplementsWriteOnce
BY LedgerInit, LedgerNext, Invariance, PTL DEF Spec, ImplementsWriteOnce, Ledger!OnceSpec
=============================================================================
