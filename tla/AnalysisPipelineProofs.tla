----------------------- MODULE AnalysisPipelineProofs ------------------------
(***************************************************************************)
(* Proofs about AnalysisPipeline, for any number of requests and readers   *)
(* and any length of Bob's answers.                                        *)
(*                                                                         *)
(* A row and its details are committed together and never change, so what  *)
(* two statements read on two snapshots still belongs together; the        *)
(* database clock moves with every row, so a plan comes after the finding  *)
(* it was made from, whatever overlapped in between.                       *)
(***************************************************************************)
EXTENDS AnalysisPipeline, TLAPS

(* How far a request has come tells what is stored of it. *)
DraftsFollow ==
  \A r \in Requests :
    /\ pc[r] \in {"idle", "read", "asking"} \cup InTx => r \notin rows
    /\ pc[r] \in {"idle", "begun", "looked", "based", "read", "asking"} =>
         wrote[r] = 0
    /\ pc[r] = "committed" => r \in rows
    /\ pc[r] # "done" => reply[r] = 0
    /\ wrote[r] <= items[r]

(* created_at is never ahead of the clock. *)
MadeBehind == \A r \in Requests : made[r] <= clock

(* The finding of a plan under way, and what is quoted of it. *)
BasisFound ==
  \A p \in Requests :
    /\ pc[p] = "based" => basis[p] \in Findings
    /\ pc[p] \in {"read", "asking", "writing", "committed"} /\ kind[p] = "plan" =>
         basis[p] \in Findings /\ quoted[p] = items[basis[p]]
    /\ pc[p] \in {"writing", "committed"} /\ kind[p] = "plan" =>
         made[basis[p]] < made[p]

(* The row a GET has read. *)
FoundStored ==
  \A g \in Readers :
    /\ pc[g] = "read" => found[g] \in rows
    /\ pc[g] # "done" => reply[g] = 0

IInv ==
  /\ TypeOK
  /\ RowsWhole
  /\ DraftsFollow
  /\ MadeBehind
  /\ BasisFound
  /\ PlanHasBasis
  /\ AnswerTellsRow
  /\ FoundStored
  /\ GetShowsWhole

-----------------------------------------------------------------------------
(* Nothing has been asked or stored yet. *)
LEMMA InitIInv == Init => IInv
<1>. SUFFICES ASSUME Init PROVE IInv
  OBVIOUS
<1>1. TypeOK
  BY MaxItemsAssumption DEF Init, PromiseInit, TypeOK, PCs, InTx
<1>2. RowsWhole /\ DraftsFollow /\ MadeBehind /\ PlanHasBasis /\ AnswerTellsRow
  BY DEF Init, RowsWhole, DraftsFollow, MadeBehind, PlanHasBasis, AnswerTellsRow
<1>3. BasisFound /\ FoundStored /\ GetShowsWhole
  BY DEF Init, BasisFound, FoundStored, GetShowsWhole
<1>. QED
  BY <1>1, <1>2, <1>3 DEF IInv

(* Types: a GET shows what is stored, and that is one answer's worth. *)
LEMMA TypeNext ==
  ASSUME TypeOK, RowsWhole, DraftsFollow, BasisFound, FoundStored, [Next]_vars
  PROVE  TypeOK'
<1>. USE MaxItemsAssumption, KindsAssumption, ActorsAssumption
          DEF store, context, draft, got, PCs, InTx, TypeOK
<1>1. ASSUME NEW r \in Requests, Refuse(r) \/ Begin(r) \/ ReadIntake(r) \/ NoContext(r)
     PROVE  TypeOK'
  BY <1>1 DEF Refuse, Begin, ReadIntake, NoContext, Goto, Finish
<1>2. ASSUME NEW r \in Requests, ReadFinding(r) \/ RcaRequired(r) \/ ReadEvidence(r)
     PROVE  TypeOK'
  BY <1>2 DEF ReadFinding, RcaRequired, ReadEvidence, Goto, Finish, Newest, BasisFound,
     Findings
<1>3. ASSUME NEW r \in Requests, AskBob(r) \/ BobSettles(r) \/ BobFailed(r)
     PROVE  TypeOK'
  BY <1>3 DEF AskBob, BobSettles, BobFailed, Goto, Finish, Call, Settle, Settled,
     TypedErrors, ErrorCode
<1>4. ASSUME NEW r \in Requests, InsertRow(r)
     PROVE  TypeOK'
  BY <1>4 DEF InsertRow, Goto
<1>5. ASSUME NEW r \in Requests, InsertItem(r)
     PROVE  TypeOK'
  <2>1. wrote[r] + 1 \in 0..MaxItems
    BY <1>5 DEF InsertItem
  <2>. QED
    BY <1>5, <2>1 DEF InsertItem
<1>6. ASSUME NEW r \in Requests, Commit(r)
     PROVE  TypeOK'
  BY <1>6 DEF Commit, Goto
<1>7. ASSUME NEW r \in Requests, Respond(r) \/ Fail(r)
     PROVE  TypeOK'
  BY <1>7 DEF Respond, Fail, Finish
<1>8. ASSUME NEW g \in Readers, GetRow(g) \/ GetNothing(g) \/ GetDetails(g)
     PROVE  TypeOK'
  <2>1. ASSUME pc[g] = "read" PROVE details[found[g]] \in 0..MaxItems
    BY <2>1 DEF FoundStored, RowsWhole
  <2>2. Newest(kind[g]) \subseteq Requests
    BY DEF Newest
  <2>. QED
    BY <1>8, <2>1, <2>2 DEF GetRow, GetNothing, GetDetails, Goto, Finish
<1>9. ASSUME Ingest \/ Crash
     PROVE  TypeOK'
  BY <1>9 DEF Ingest, Crash, InFlight, Lose, Settled
<1>10. CASE UNCHANGED vars
  BY <1>10 DEF vars
<1>. QED
  BY <1>1, <1>2, <1>3, <1>4, <1>5, <1>6, <1>7, <1>8, <1>9, <1>10 DEF Next, Step

(* A row and its details become visible at once and stay as they are. *)
LEMMA WholeNext ==
  ASSUME TypeOK, RowsWhole, DraftsFollow, [Next]_vars
  PROVE  RowsWhole'
<1>. USE DEF store, context, draft, got, PCs, InTx, TypeOK, RowsWhole, DraftsFollow
<1>1. ASSUME NEW r \in Requests, Refuse(r) \/ Begin(r) \/ ReadIntake(r) \/ NoContext(r)
     PROVE  RowsWhole'
  BY <1>1 DEF Refuse, Begin, ReadIntake, NoContext, Goto, Finish
<1>2. ASSUME NEW r \in Requests, ReadFinding(r) \/ RcaRequired(r) \/ ReadEvidence(r)
     PROVE  RowsWhole'
  BY <1>2 DEF ReadFinding, RcaRequired, ReadEvidence, Goto, Finish
<1>3. ASSUME NEW r \in Requests, AskBob(r) \/ BobSettles(r) \/ BobFailed(r)
     PROVE  RowsWhole'
  BY <1>3 DEF AskBob, BobSettles, BobFailed, Goto, Finish
<1>4. ASSUME NEW r \in Requests, InsertRow(r)
     PROVE  RowsWhole'
  BY <1>4 DEF InsertRow, Goto
<1>5. ASSUME NEW r \in Requests, InsertItem(r)
     PROVE  RowsWhole'
  BY <1>5 DEF InsertItem
<1>6. ASSUME NEW r \in Requests, Commit(r)
     PROVE  RowsWhole'
  BY <1>6 DEF Commit, Goto
<1>7. ASSUME NEW r \in Requests, Respond(r) \/ Fail(r)
     PROVE  RowsWhole'
  BY <1>7 DEF Respond, Fail, Finish
<1>8. ASSUME NEW g \in Readers, GetRow(g) \/ GetNothing(g) \/ GetDetails(g)
     PROVE  RowsWhole'
  BY <1>8 DEF GetRow, GetNothing, GetDetails, Goto, Finish
<1>9. ASSUME Ingest \/ Crash
     PROVE  RowsWhole'
  BY <1>9 DEF Ingest, Crash, InFlight
<1>10. CASE UNCHANGED vars
  BY <1>10 DEF vars
<1>. QED
  BY <1>1, <1>2, <1>3, <1>4, <1>5, <1>6, <1>7, <1>8, <1>9, <1>10 DEF Next, Step

(* A request writes its own row only. *)
LEMMA DraftsNext ==
  ASSUME TypeOK, DraftsFollow, [Next]_vars
  PROVE  DraftsFollow'
<1>. USE MaxItemsAssumption, ActorsAssumption
          DEF store, context, draft, got, PCs, InTx, TypeOK, DraftsFollow
<1>1. ASSUME NEW r \in Requests, Refuse(r) \/ Begin(r) \/ ReadIntake(r) \/ NoContext(r)
     PROVE  DraftsFollow'
  BY <1>1 DEF Refuse, Begin, ReadIntake, NoContext, Goto, Finish
<1>2. ASSUME NEW r \in Requests, ReadFinding(r) \/ RcaRequired(r) \/ ReadEvidence(r)
     PROVE  DraftsFollow'
  BY <1>2 DEF ReadFinding, RcaRequired, ReadEvidence, Goto, Finish
<1>3. ASSUME NEW r \in Requests, AskBob(r) \/ BobSettles(r) \/ BobFailed(r)
     PROVE  DraftsFollow'
  BY <1>3 DEF AskBob, BobSettles, BobFailed, Goto, Finish
<1>4. ASSUME NEW r \in Requests, InsertRow(r)
     PROVE  DraftsFollow'
  BY <1>4 DEF InsertRow, Goto
<1>5. ASSUME NEW r \in Requests, InsertItem(r)
     PROVE  DraftsFollow'
  BY <1>5 DEF InsertItem
<1>6. ASSUME NEW r \in Requests, Commit(r)
     PROVE  DraftsFollow'
  BY <1>6 DEF Commit, Goto
<1>7. ASSUME NEW r \in Requests, Respond(r) \/ Fail(r)
     PROVE  DraftsFollow'
  BY <1>7 DEF Respond, Fail, Finish
<1>8. ASSUME NEW g \in Readers, GetRow(g) \/ GetNothing(g) \/ GetDetails(g)
     PROVE  DraftsFollow'
  BY <1>8 DEF GetRow, GetNothing, GetDetails, Goto, Finish
<1>9. ASSUME Ingest \/ Crash
     PROVE  DraftsFollow'
  BY <1>9 DEF Ingest, Crash, InFlight
<1>10. CASE UNCHANGED vars
  BY <1>10 DEF vars
<1>. QED
  BY <1>1, <1>2, <1>3, <1>4, <1>5, <1>6, <1>7, <1>8, <1>9, <1>10 DEF Next, Step

(* The clock moves with every row. *)
LEMMA MadeNext ==
  ASSUME TypeOK, MadeBehind, [Next]_vars
  PROVE  MadeBehind'
<1>. USE DEF store, context, draft, got, PCs, InTx, TypeOK, MadeBehind
<1>1. ASSUME NEW r \in Requests, Refuse(r) \/ Begin(r) \/ ReadIntake(r) \/ NoContext(r)
     PROVE  MadeBehind'
  BY <1>1 DEF Refuse, Begin, ReadIntake, NoContext, Goto, Finish
<1>2. ASSUME NEW r \in Requests, ReadFinding(r) \/ RcaRequired(r) \/ ReadEvidence(r)
     PROVE  MadeBehind'
  BY <1>2 DEF ReadFinding, RcaRequired, ReadEvidence, Goto, Finish
<1>3. ASSUME NEW r \in Requests, AskBob(r) \/ BobSettles(r) \/ BobFailed(r)
     PROVE  MadeBehind'
  BY <1>3 DEF AskBob, BobSettles, BobFailed, Goto, Finish
<1>4. ASSUME NEW r \in Requests, InsertRow(r)
     PROVE  MadeBehind'
  BY <1>4 DEF InsertRow, Goto
<1>5. ASSUME NEW r \in Requests, InsertItem(r)
     PROVE  MadeBehind'
  BY <1>5 DEF InsertItem
<1>6. ASSUME NEW r \in Requests, Commit(r)
     PROVE  MadeBehind'
  BY <1>6 DEF Commit, Goto
<1>7. ASSUME NEW r \in Requests, Respond(r) \/ Fail(r)
     PROVE  MadeBehind'
  BY <1>7 DEF Respond, Fail, Finish
<1>8. ASSUME NEW g \in Readers, GetRow(g) \/ GetNothing(g) \/ GetDetails(g)
     PROVE  MadeBehind'
  BY <1>8 DEF GetRow, GetNothing, GetDetails, Goto, Finish
<1>9. ASSUME Ingest \/ Crash
     PROVE  MadeBehind'
  BY <1>9 DEF Ingest, Crash, InFlight
<1>10. CASE UNCHANGED vars
  BY <1>10 DEF vars
<1>. QED
  BY <1>1, <1>2, <1>3, <1>4, <1>5, <1>6, <1>7, <1>8, <1>9, <1>10 DEF Next, Step

(* A stored finding and its snippets are there for good. *)
LEMMA BasisNext ==
  ASSUME TypeOK, RowsWhole, DraftsFollow, MadeBehind, BasisFound, [Next]_vars
  PROVE  BasisFound'
<1>. USE KindsAssumption, ActorsAssumption
          DEF store, context, draft, got, PCs, InTx, TypeOK, RowsWhole, DraftsFollow, BasisFound, Findings
<1>1. ASSUME NEW r \in Requests, Refuse(r) \/ Begin(r) \/ ReadIntake(r) \/ NoContext(r)
     PROVE  BasisFound'
  BY <1>1 DEF Refuse, Begin, ReadIntake, NoContext, Goto, Finish
<1>2. ASSUME NEW r \in Requests, ReadFinding(r) \/ RcaRequired(r) \/ ReadEvidence(r)
     PROVE  BasisFound'
  BY <1>2 DEF ReadFinding, RcaRequired, ReadEvidence, Goto, Finish, Newest
<1>3. ASSUME NEW r \in Requests, AskBob(r) \/ BobSettles(r) \/ BobFailed(r)
     PROVE  BasisFound'
  BY <1>3 DEF AskBob, BobSettles, BobFailed, Goto, Finish
<1>4. ASSUME NEW r \in Requests, InsertRow(r)
     PROVE  BasisFound'
  BY <1>4 DEF InsertRow, Goto, MadeBehind
<1>5. ASSUME NEW r \in Requests, InsertItem(r)
     PROVE  BasisFound'
  BY <1>5 DEF InsertItem
<1>6. ASSUME NEW r \in Requests, Commit(r)
     PROVE  BasisFound'
  BY <1>6 DEF Commit, Goto
<1>7. ASSUME NEW r \in Requests, Respond(r) \/ Fail(r)
     PROVE  BasisFound'
  BY <1>7 DEF Respond, Fail, Finish
<1>8. ASSUME NEW g \in Readers, GetRow(g) \/ GetNothing(g) \/ GetDetails(g)
     PROVE  BasisFound'
  BY <1>8 DEF GetRow, GetNothing, GetDetails, Goto, Finish
<1>9. ASSUME Ingest \/ Crash
     PROVE  BasisFound'
  BY <1>9 DEF Ingest, Crash, InFlight
<1>10. CASE UNCHANGED vars
  BY <1>10 DEF vars
<1>. QED
  BY <1>1, <1>2, <1>3, <1>4, <1>5, <1>6, <1>7, <1>8, <1>9, <1>10 DEF Next, Step

(* A plan is stored with the basis it was written with. *)
LEMMA PlanNext ==
  ASSUME TypeOK, DraftsFollow, BasisFound, PlanHasBasis, [Next]_vars
  PROVE  PlanHasBasis'
<1>. USE DEF store, context, draft, got, PCs, InTx, TypeOK, DraftsFollow, PlanHasBasis, Findings
<1>1. ASSUME NEW r \in Requests, Refuse(r) \/ Begin(r) \/ ReadIntake(r) \/ NoContext(r)
     PROVE  PlanHasBasis'
  BY <1>1 DEF Refuse, Begin, ReadIntake, NoContext, Goto, Finish
<1>2. ASSUME NEW r \in Requests, ReadFinding(r) \/ RcaRequired(r) \/ ReadEvidence(r)
     PROVE  PlanHasBasis'
  BY <1>2 DEF ReadFinding, RcaRequired, ReadEvidence, Goto, Finish
<1>3. ASSUME NEW r \in Requests, AskBob(r) \/ BobSettles(r) \/ BobFailed(r)
     PROVE  PlanHasBasis'
  BY <1>3 DEF AskBob, BobSettles, BobFailed, Goto, Finish
<1>4. ASSUME NEW r \in Requests, InsertRow(r)
     PROVE  PlanHasBasis'
  BY <1>4 DEF InsertRow, Goto
<1>5. ASSUME NEW r \in Requests, InsertItem(r)
     PROVE  PlanHasBasis'
  BY <1>5 DEF InsertItem
<1>6. ASSUME NEW r \in Requests, Commit(r)
     PROVE  PlanHasBasis'
  BY <1>6 DEF Commit, Goto, BasisFound
<1>7. ASSUME NEW r \in Requests, Respond(r) \/ Fail(r)
     PROVE  PlanHasBasis'
  BY <1>7 DEF Respond, Fail, Finish
<1>8. ASSUME NEW g \in Readers, GetRow(g) \/ GetNothing(g) \/ GetDetails(g)
     PROVE  PlanHasBasis'
  BY <1>8 DEF GetRow, GetNothing, GetDetails, Goto, Finish
<1>9. ASSUME Ingest \/ Crash
     PROVE  PlanHasBasis'
  BY <1>9 DEF Ingest, Crash, InFlight
<1>10. CASE UNCHANGED vars
  BY <1>10 DEF vars
<1>. QED
  BY <1>1, <1>2, <1>3, <1>4, <1>5, <1>6, <1>7, <1>8, <1>9, <1>10 DEF Next, Step

(* An answered request writes nothing any more. *)
LEMMA AnswerNext ==
  ASSUME TypeOK, DraftsFollow, AnswerTellsRow, [Next]_vars
  PROVE  AnswerTellsRow'
<1>. USE ActorsAssumption DEF store, context, draft, got, PCs, InTx, TypeOK, DraftsFollow, AnswerTellsRow, ErrorCode
<1>1. ASSUME NEW r \in Requests, Refuse(r) \/ Begin(r) \/ ReadIntake(r) \/ NoContext(r)
     PROVE  AnswerTellsRow'
  BY <1>1 DEF Refuse, Begin, ReadIntake, NoContext, Goto, Finish
<1>2. ASSUME NEW r \in Requests, ReadFinding(r) \/ RcaRequired(r) \/ ReadEvidence(r)
     PROVE  AnswerTellsRow'
  BY <1>2 DEF ReadFinding, RcaRequired, ReadEvidence, Goto, Finish
<1>3. ASSUME NEW r \in Requests, AskBob(r) \/ BobSettles(r) \/ BobFailed(r)
     PROVE  AnswerTellsRow'
  BY <1>3 DEF AskBob, BobSettles, BobFailed, Goto, Finish
<1>4. ASSUME NEW r \in Requests, InsertRow(r)
     PROVE  AnswerTellsRow'
  BY <1>4 DEF InsertRow, Goto
<1>5. ASSUME NEW r \in Requests, InsertItem(r)
     PROVE  AnswerTellsRow'
  BY <1>5 DEF InsertItem
<1>6. ASSUME NEW r \in Requests, Commit(r)
     PROVE  AnswerTellsRow'
  BY <1>6 DEF Commit, Goto
<1>7. ASSUME NEW r \in Requests, Respond(r) \/ Fail(r)
     PROVE  AnswerTellsRow'
  BY <1>7 DEF Respond, Fail, Finish
<1>8. ASSUME NEW g \in Readers, GetRow(g) \/ GetNothing(g) \/ GetDetails(g)
     PROVE  AnswerTellsRow'
  BY <1>8 DEF GetRow, GetNothing, GetDetails, Goto, Finish
<1>9. ASSUME Ingest \/ Crash
     PROVE  AnswerTellsRow'
  BY <1>9 DEF Ingest, Crash, InFlight
<1>10. CASE UNCHANGED vars
  BY <1>10 DEF vars
<1>. QED
  BY <1>1, <1>2, <1>3, <1>4, <1>5, <1>6, <1>7, <1>8, <1>9, <1>10 DEF Next, Step

(* Rows are never deleted. *)
LEMMA FoundNext ==
  ASSUME TypeOK, FoundStored, [Next]_vars
  PROVE  FoundStored'
<1>. USE ActorsAssumption DEF store, context, draft, got, PCs, InTx, TypeOK, FoundStored
<1>1. ASSUME NEW r \in Requests, Refuse(r) \/ Begin(r) \/ ReadIntake(r) \/ NoContext(r)
     PROVE  FoundStored'
  BY <1>1 DEF Refuse, Begin, ReadIntake, NoContext, Goto, Finish
<1>2. ASSUME NEW r \in Requests, ReadFinding(r) \/ RcaRequired(r) \/ ReadEvidence(r)
     PROVE  FoundStored'
  BY <1>2 DEF ReadFinding, RcaRequired, ReadEvidence, Goto, Finish
<1>3. ASSUME NEW r \in Requests, AskBob(r) \/ BobSettles(r) \/ BobFailed(r)
     PROVE  FoundStored'
  BY <1>3 DEF AskBob, BobSettles, BobFailed, Goto, Finish
<1>4. ASSUME NEW r \in Requests, InsertRow(r)
     PROVE  FoundStored'
  BY <1>4 DEF InsertRow, Goto
<1>5. ASSUME NEW r \in Requests, InsertItem(r)
     PROVE  FoundStored'
  BY <1>5 DEF InsertItem
<1>6. ASSUME NEW r \in Requests, Commit(r)
     PROVE  FoundStored'
  BY <1>6 DEF Commit, Goto
<1>7. ASSUME NEW r \in Requests, Respond(r) \/ Fail(r)
     PROVE  FoundStored'
  BY <1>7 DEF Respond, Fail, Finish
<1>8. ASSUME NEW g \in Readers, GetRow(g) \/ GetNothing(g) \/ GetDetails(g)
     PROVE  FoundStored'
  BY <1>8 DEF GetRow, GetNothing, GetDetails, Goto, Finish, Newest
<1>9. ASSUME Ingest \/ Crash
     PROVE  FoundStored'
  BY <1>9 DEF Ingest, Crash, InFlight
<1>10. CASE UNCHANGED vars
  BY <1>10 DEF vars
<1>. QED
  BY <1>1, <1>2, <1>3, <1>4, <1>5, <1>6, <1>7, <1>8, <1>9, <1>10 DEF Next, Step

(* Details of a stored row are read whole, whenever they are read. *)
LEMMA ShowsNext ==
  ASSUME TypeOK, RowsWhole, DraftsFollow, FoundStored, GetShowsWhole, [Next]_vars
  PROVE  GetShowsWhole'
<1>. USE ActorsAssumption DEF store, context, draft, got, PCs, InTx, TypeOK, DraftsFollow, FoundStored, GetShowsWhole
<1>1. ASSUME NEW r \in Requests, Refuse(r) \/ Begin(r) \/ ReadIntake(r) \/ NoContext(r)
     PROVE  GetShowsWhole'
  BY <1>1 DEF Refuse, Begin, ReadIntake, NoContext, Goto, Finish
<1>2. ASSUME NEW r \in Requests, ReadFinding(r) \/ RcaRequired(r) \/ ReadEvidence(r)
     PROVE  GetShowsWhole'
  BY <1>2 DEF ReadFinding, RcaRequired, ReadEvidence, Goto, Finish
<1>3. ASSUME NEW r \in Requests, AskBob(r) \/ BobSettles(r) \/ BobFailed(r)
     PROVE  GetShowsWhole'
  BY <1>3 DEF AskBob, BobSettles, BobFailed, Goto, Finish
<1>4. ASSUME NEW r \in Requests, InsertRow(r)
     PROVE  GetShowsWhole'
  BY <1>4 DEF InsertRow, Goto
<1>5. ASSUME NEW r \in Requests, InsertItem(r)
     PROVE  GetShowsWhole'
  BY <1>5 DEF InsertItem
<1>6. ASSUME NEW r \in Requests, Commit(r)
     PROVE  GetShowsWhole'
  BY <1>6 DEF Commit, Goto
<1>7. ASSUME NEW r \in Requests, Respond(r) \/ Fail(r)
     PROVE  GetShowsWhole'
  BY <1>7 DEF Respond, Fail, Finish
<1>8. ASSUME NEW g \in Readers, GetRow(g) \/ GetNothing(g) \/ GetDetails(g)
     PROVE  GetShowsWhole'
  BY <1>8 DEF GetRow, GetNothing, GetDetails, Goto, Finish, RowsWhole
<1>9. ASSUME Ingest \/ Crash
     PROVE  GetShowsWhole'
  BY <1>9 DEF Ingest, Crash, InFlight
<1>10. CASE UNCHANGED vars
  BY <1>10 DEF vars
<1>. QED
  BY <1>1, <1>2, <1>3, <1>4, <1>5, <1>6, <1>7, <1>8, <1>9, <1>10 DEF Next, Step

(* Every step preserves the invariant. *)
LEMMA NextIInv == IInv /\ [Next]_vars => IInv'
BY TypeNext, WholeNext, DraftsNext, MadeNext, BasisNext, PlanNext, AnswerNext, FoundNext,
   ShowsNext
   DEF IInv

(* The inductive invariant holds of every behaviour. *)
THEOREM Invariance == Spec => []IInv
BY InitIInv, NextIInv, PTL DEF Spec

(* The variables keep their types. *)
THEOREM TypeCorrect == Spec => []TypeOK
BY Invariance, PTL DEF IInv

(* Wherever a loop over details is cut off, rows are stored whole or not. *)
THEOREM AlwaysWhole == Spec => []RowsWhole
BY Invariance, PTL DEF IInv

(* A GET shows whole answers of Bob. *)
THEOREM ShownWhole == Spec => []GetShowsWhole
BY Invariance, PTL DEF IInv

(* A plan comes after the stored finding it was made from. *)
THEOREM PlansHaveBasis == Spec => []PlanHasBasis
BY Invariance, PTL DEF IInv

(* The answers of POST agree with the tables for good. *)
THEOREM AnswersTell == Spec => []AnswerTellsRow
BY Invariance, PTL DEF IInv

(* The row of a 201 is among those a later GET takes the newest of. *)
THEOREM GetsFresh == Spec => GetIsFresh
<1>1. IInv /\ [Next]_vars =>
        [\A g \in Readers, r \in Requests :
           found'[g] # found[g] /\ reply[r] = 201 /\ kind[r] = kind[g] =>
             made[r] <= made[found'[g]]]_<<found, reply>>
  <2>. SUFFICES ASSUME IInv, [Next]_vars, NEW g \in Readers, NEW r \in Requests,
                       found'[g] # found[g], reply[r] = 201, kind[r] = kind[g]
                PROVE  made[r] <= made[found'[g]]
    OBVIOUS
  <2>1. GetRow(g)
    <3>1. \/ UNCHANGED found
          \/ \E h \in Readers : GetRow(h)
      BY DEF Next, Step, vars, got, Ingest, Refuse, Begin, ReadIntake, NoContext, ReadFinding,
             RcaRequired, ReadEvidence, AskBob, BobSettles, BobFailed, InsertRow, InsertItem,
             Commit, Respond, Fail, Crash, GetNothing, GetDetails
    <3>. QED
      BY <3>1 DEF GetRow, IInv, TypeOK
  <2>2. r \in rows
    BY DEF IInv, AnswerTellsRow
  <2>. QED
    BY <2>1, <2>2 DEF GetRow, Newest, IInv, TypeOK
<1>. QED
  BY <1>1, Invariance, PTL DEF Spec, GetIsFresh

-----------------------------------------------------------------------------
(***************************************************************************)
(* Nobody is stuck: a route that awaits Bob has a promise that is pending  *)
(* or settled, and ORDER BY created_at DESC LIMIT 1 finds a row if there   *)
(* is one.                                                                 *)
(***************************************************************************)

(* The guards of the actions of Step, joined. *)
MayStep(r) ==
  \/ /\ pc[r] = "begun"
     /\ \/ intake # "absent" /\ kind[r] = "plan"
        \/ intake = "ready" /\ kind[r] = "rca"
        \/ intake = "absent"
        \/ intake = "blank" /\ kind[r] = "rca"
  \/ pc[r] = "looked" /\ (Newest("rca") # {} \/ Findings = {})
  \/ pc[r] = "based"
  \/ pc[r] = "read" /\ promise[r] = "uncalled"
  \/ promise[r] = "pending"
  \/ pc[r] = "asking" /\ promise[r] \in TypedErrors \cup {"untyped"}
  \/ pc[r] = "asking" /\ promise[r] = "answer" /\ 1..MaxItems # {}
  \/ pc[r] = "writing" /\ wrote[r] < items[r]
  \/ pc[r] = "writing" /\ wrote[r] = items[r]
  \/ pc[r] = "committed"

(* Bob is called once per request, and only the death of the process, which *)
(* ends the request too, loses his promise.                                 *)
PromiseFollows(r) ==
  /\ pc[r] \in {"idle", "begun", "looked", "based", "read"} => promise[r] = "uncalled"
  /\ pc[r] = "asking" => promise[r] \in {"pending"} \cup Settled

(* Some row of an analysis is its newest, if there is any. *)
NewestExists ==
  \A k \in {"rca", "plan"} : (\E r \in rows : kind[r] = k) => Newest(k) # {}

NobodyStuck == \A r \in Requests : InFlight(r) => MayStep(r)

(* A request and its promise go together. *)
LEMMA PromiseKept ==
  ASSUME TypeOK, [Next]_vars, NEW q \in Requests, PromiseFollows(q)
  PROVE  PromiseFollows(q)'
<1>. USE ActorsAssumption
     DEF TypeOK, PromiseFollows, Settled, TypedErrors, PCs, InTx, Goto, Finish
<1>1. ASSUME NEW r \in Requests, Refuse(r) \/ Begin(r) \/ ReadIntake(r) \/ NoContext(r)
      PROVE  PromiseFollows(q)'
  BY <1>1 DEF Refuse, Begin, ReadIntake, NoContext
<1>2. ASSUME NEW r \in Requests, ReadFinding(r) \/ RcaRequired(r) \/ ReadEvidence(r)
      PROVE  PromiseFollows(q)'
  BY <1>2 DEF ReadFinding, RcaRequired, ReadEvidence
<1>3. ASSUME NEW r \in Requests, AskBob(r) \/ BobSettles(r) \/ BobFailed(r)
      PROVE  PromiseFollows(q)'
  BY <1>3 DEF AskBob, Call, BobSettles, Settle, BobFailed
<1>4. ASSUME NEW r \in Requests, InsertRow(r) \/ InsertItem(r)
      PROVE  PromiseFollows(q)'
  BY <1>4 DEF InsertRow, InsertItem
<1>5. ASSUME NEW r \in Requests, Commit(r) \/ Respond(r) \/ Fail(r)
      PROVE  PromiseFollows(q)'
  BY <1>5 DEF Commit, Respond, Fail
<1>6. ASSUME NEW g \in Readers, GetRow(g) \/ GetNothing(g) \/ GetDetails(g)
      PROVE  PromiseFollows(q)'
  BY <1>6 DEF GetRow, GetNothing, GetDetails
<1>7. ASSUME Ingest
      PROVE  PromiseFollows(q)'
  BY <1>7 DEF Ingest
<1>8. ASSUME Crash
      PROVE  PromiseFollows(q)'
  BY <1>8 DEF Crash, Lose, InFlight
<1>9. CASE UNCHANGED vars
  BY <1>9 DEF vars
<1>. QED
  BY <1>1, <1>2, <1>3, <1>4, <1>5, <1>6, <1>7, <1>8, <1>9 DEF Next, Step

(* A row that is committed is the newest, or leaves the newest as it is. *)
LEMMA NewestNext ==
  ASSUME TypeOK, DraftsFollow, NewestExists, [Next]_vars
  PROVE  NewestExists'
<1>. USE DEF store, draft, got, context
<1>1. CASE UNCHANGED <<rows, kind>> /\ \A r \in rows : made'[r] = made[r]
  BY <1>1 DEF NewestExists, Newest
<1>2. ASSUME NEW r \in Requests, Commit(r)
      PROVE  NewestExists'
  <2>1. /\ rows' = rows \cup {r} /\ made' = made /\ kind' = kind
        /\ \A q \in rows \cup {r} : made[q] \in Nat
    BY <1>2 DEF Commit, TypeOK
  <2>. SUFFICES ASSUME NEW k \in {"rca", "plan"}, NEW p \in rows', kind'[p] = k
                PROVE  Newest(k)' # {}
    BY DEF NewestExists
  <2>2. CASE kind[r] # k
    <3>1. PICK n \in rows : n \in Newest(k)
      BY <2>1, <2>2 DEF NewestExists, Newest
    <3>. QED
      BY <2>1, <2>2, <3>1 DEF Newest
  <2>3. CASE kind[r] = k /\ Newest(k) = {}
    <3>1. \A q \in rows : kind[q] # k
      BY <2>3 DEF NewestExists
    <3>. QED
      BY <2>1, <2>3, <3>1 DEF Newest
  <2>4. ASSUME kind[r] = k, NEW n \in Newest(k)
        PROVE  Newest(k)' # {}
    <3>1. n \in rows /\ kind[n] = k /\ \A q \in rows : kind[q] = k => made[q] <= made[n]
      BY <2>4 DEF Newest
    <3>2. CASE made[r] <= made[n]
      BY <2>1, <3>1, <3>2 DEF Newest
    <3>3. CASE ~(made[r] <= made[n])
      BY <2>1, <2>4, <3>1, <3>3 DEF Newest
    <3>. QED
      BY <3>2, <3>3
  <2>. QED
    BY <2>2, <2>3, <2>4
<1>3. ASSUME NEW r \in Requests, InsertRow(r)
      PROVE  UNCHANGED <<rows, kind>> /\ \A q \in rows : made'[q] = made[q]
  BY <1>3 DEF InsertRow, DraftsFollow, TypeOK
<1>4. ASSUME NEW r \in Requests,
             \/ Refuse(r) \/ Begin(r) \/ ReadIntake(r) \/ NoContext(r) \/ ReadFinding(r)
             \/ RcaRequired(r) \/ ReadEvidence(r) \/ AskBob(r) \/ BobSettles(r)
             \/ BobFailed(r) \/ InsertItem(r) \/ Respond(r) \/ Fail(r)
      PROVE  UNCHANGED <<rows, kind, made>>
  BY <1>4 DEF Refuse, Begin, ReadIntake, NoContext, ReadFinding, RcaRequired,
       ReadEvidence, AskBob, BobSettles, BobFailed, InsertItem, Respond, Fail
<1>5. ASSUME NEW g \in Readers, GetRow(g) \/ GetNothing(g) \/ GetDetails(g)
      PROVE  UNCHANGED <<rows, kind, made>>
  BY <1>5 DEF GetRow, GetNothing, GetDetails
<1>6. CASE Ingest \/ Crash \/ UNCHANGED vars
  BY <1>1, <1>6 DEF Ingest, Crash, vars
<1>. QED
  BY <1>1, <1>2, <1>3, <1>4, <1>5, <1>6 DEF Next, Step

(* Every POST that has begun can go on, whatever else is written, fails or   *)
(* dies: what a route awaits of Bob is there to be settled, and the SELECT   *)
(* of the newest finding has an answer.  This is what EveryRequestEnds needs *)
(* besides fairness.                                                         *)
THEOREM NobodyIsStuck == Spec => []NobodyStuck
<1>. DEFINE Follow == \A r \in Requests : PromiseFollows(r)
<1>1. Init => Follow /\ NewestExists
  BY DEF Init, PromiseInit, PromiseFollows, NewestExists
<1>2. IInv /\ Follow /\ [Next]_vars => Follow'
  BY PromiseKept DEF IInv
<1>3. IInv /\ NewestExists /\ [Next]_vars => NewestExists'
  BY NewestNext DEF IInv
<1>4. IInv /\ Follow /\ NewestExists => NobodyStuck
  <2>. SUFFICES ASSUME IInv, Follow, NewestExists, NEW r \in Requests, InFlight(r)
                PROVE  MayStep(r)
    BY DEF NobodyStuck
  <2>. USE DEF IInv, TypeOK
  <2>1. PromiseFollows(r)
    OBVIOUS
  <2>2. CASE pc[r] = "begun"
    <3>1. kind[r] \in {"rca", "plan"}
      BY KindsAssumption
    <3>2. intake \in {"absent", "blank", "ready"}
      OBVIOUS
    <3>. QED
      BY ONLY <2>2, <3>1, <3>2 DEF MayStep
  <2>3. CASE pc[r] = "looked"
    BY <2>3 DEF MayStep, NewestExists, Findings
  <2>4. CASE pc[r] \in {"based", "read", "committed"}
    BY <2>1, <2>4 DEF MayStep, PromiseFollows
  <2>5. CASE pc[r] = "asking"
    <3>1. 1 \in 1..MaxItems
      BY MaxItemsAssumption
    <3>. QED
      BY <2>1, <2>5, <3>1 DEF MayStep, PromiseFollows, Settled
  <2>6. CASE pc[r] = "writing"
    <3>1. wrote[r] <= items[r] /\ wrote[r] \in Nat /\ items[r] \in Nat
      BY MaxItemsAssumption DEF DraftsFollow
    <3>. QED
      BY <2>6, <3>1 DEF MayStep
  <2>7. pc[r] \in {"begun", "looked", "based", "read", "asking", "writing", "committed"}
    BY DEF InFlight, PCs, InTx
  <2>. QED
    BY <2>2, <2>3, <2>4, <2>5, <2>6, <2>7
<1>. QED
  BY <1>1, <1>2, <1>3, <1>4, Invariance, PTL DEF Spec

=============================================================================
