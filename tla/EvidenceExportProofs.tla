----------------------- MODULE EvidenceExportProofs ------------------------
(***************************************************************************)
(* Proofs about EvidenceExport, for any numbers of plans, exports and      *)
(* readers.                                                                *)
(*                                                                         *)
(* What a bundle tells of its plan rests on the trail of a plan growing    *)
(* only: a plan that was seen approved has a submission and an approval in *)
(* its trail then, hence in any later snapshot of it.  What the two stores *)
(* hold rests on the program counter alone: a row is linked only behind an *)
(* upload that succeeded.                                                  *)
(***************************************************************************)
EXTENDS EvidenceExport, TLAPS

(* A decision leaves its entry, after the entry of a submission. *)
TrailsExplain ==
  \A p \in Plans :
    /\ trail[p] # {} => "submit" \in trail[p]
    /\ state[p] = "approved" => "approve" \in trail[p]

(* The plan of a bundle was approved when it was read. *)
SubjectsApproved ==
  \A r \in Exports :
    /\ pc[r] = "planned" \/ subject[r] # 0 =>
         /\ subject[r] \in Plans
         /\ {"submit", "approve"} \subseteq trail[subject[r]]
    /\ r \in stored \/ pc[r] \in {"read", "inserting", "inserted"} =>
         {"submit", "approve"} \subseteq entries[r]

(* How far a request has come tells what the stores hold of it. *)
RowsFollow ==
  \A r \in Exports :
    /\ pc[r] \in {"idle", "begun", "diagnosed", "planned", "read", "inserting"} =>
         row[r] = "none"
    /\ pc[r] \in {"inserted", "stored", "failed"} => row[r] = "pending"
    /\ pc[r] = "stored" => r \in stored
    /\ pc[r] = "linked" => row[r] = "linked"
    /\ pc[r] # "done" => reply[r] = 0

IInv ==
  /\ TypeOK
  /\ TrailsExplain
  /\ SubjectsApproved
  /\ RowsFollow
  /\ LinkedIsStored
  /\ AnswerTellsRow

-----------------------------------------------------------------------------
(* Nothing is planned, stored or answered yet. *)
LEMMA InitIInv == Init => IInv
<1>1. Init => diagnosed \in BOOLEAN
  BY DEF Init
<1>2. Init => TypeOK
  BY <1>1 DEF Init, MachineInit, TypeOK, PCs, InTx, PlanActions
<1>3. Init => /\ TrailsExplain /\ SubjectsApproved /\ RowsFollow
              /\ LinkedIsStored /\ AnswerTellsRow
  BY ExportsAssumption
     DEF Init, MachineInit, TrailsExplain, SubjectsApproved, RowsFollow,
         LinkedIsStored, AnswerTellsRow, Rows
<1>. QED
  BY <1>2, <1>3 DEF IInv

(* The trail of a plan is a set of actions. *)
LEMMA TrailTyped ==
  ASSUME TypeOK, NEW p \in Plans
  PROVE  trail[p] \in SUBSET PlanActions
<1>1. trail \in [Plans -> SUBSET PlanActions]
  BY DEF TypeOK
<1>. QED
  BY <1>1

(* Types. *)
LEMMA TypeNext ==
  ASSUME TypeOK, SubjectsApproved, [Next]_vars
  PROVE  TypeOK'
<1>. USE PlansAssumption, ExportsAssumption
          DEF InTx, PCs, machineVars, packed, got, TypeOK, PlanActions, SubjectsApproved
<1>1. ASSUME NEW r \in Exports, Refuse(r) \/ FindingRequired(r) \/ ApprovedPlanRequired(r)
      PROVE  TypeOK'
  BY <1>1 DEF Refuse, FindingRequired, ApprovedPlanRequired, Finish
<1>2. ASSUME NEW r \in Exports, Begin(r) \/ ReadFinding(r) \/ InsertRow(r)
      PROVE  TypeOK'
  BY <1>2 DEF Begin, ReadFinding, InsertRow, Goto
<1>3. ASSUME NEW r \in Exports, ReadPlan(r)
      PROVE  TypeOK'
  BY <1>3 DEF ReadPlan, Goto
<1>4. ASSUME NEW r \in Exports, ReadApprovals(r)
      PROVE  TypeOK'
  <2>1. subject[r] \in Plans
    BY <1>4 DEF ReadApprovals
  <2>2. trail[subject[r]] \in SUBSET PlanActions
    BY <2>1, TrailTyped
  <2>. QED
    BY <1>4, <2>2 DEF ReadApprovals, Goto
<1>5. ASSUME NEW r \in Exports, CommitRow(r) \/ LinkRow(r)
      PROVE  TypeOK'
  BY <1>5 DEF CommitRow, LinkRow, Goto
<1>6. ASSUME NEW r \in Exports, PutObject(r) \/ PutFails(r)
      PROVE  TypeOK'
  BY <1>6 DEF PutObject, PutFails, Goto
<1>7. ASSUME NEW r \in Exports, DropRow(r) \/ Respond(r) \/ Fail(r)
      PROVE  TypeOK'
  BY <1>7 DEF DropRow, Respond, Fail, Finish
<1>8. ASSUME PlansMove PROVE TypeOK'
  BY <1>8 DEF PlansMove, OverlappedNext, Draft, LateMove, Land, Target, PlanActions
<1>9. ASSUME Diagnose \/ Crash PROVE TypeOK'
  <2>1. diagnosed' \in BOOLEAN
    BY <1>9 DEF Diagnose, Crash
  <2>2. stored' \in SUBSET Exports /\ pc' \in [Exports -> PCs]
    BY <1>9 DEF Diagnose, Crash, InFlight
  <2>. QED
    BY <1>9, <2>1, <2>2 DEF Diagnose, Crash
<1>10. ASSUME NEW g \in Readers, GetLatest(g) \/ GetNothing(g)
      PROVE  TypeOK'
  BY <1>10 DEF GetLatest, GetNothing, Rows
<1>11. CASE UNCHANGED vars
  BY <1>11 DEF vars
<1>. QED
  BY <1>1, <1>2, <1>3, <1>4, <1>5, <1>6, <1>7, <1>8, <1>9, <1>10, <1>11 DEF Next, Step

(* Trails grow, and an approval lands with its entry. *)
LEMMA TrailsNext ==
  ASSUME TypeOK, TrailsExplain, [Next]_vars
  PROVE  TrailsExplain'
<1>. USE DEF InTx, PCs, machineVars, packed, got, TypeOK, PlanActions, TrailsExplain
<1>1. ASSUME NEW r \in Exports, Refuse(r) \/ FindingRequired(r) \/ ApprovedPlanRequired(r)
      PROVE  TrailsExplain'
  BY <1>1 DEF Refuse, FindingRequired, ApprovedPlanRequired, Finish
<1>2. ASSUME NEW r \in Exports, Begin(r) \/ ReadFinding(r) \/ InsertRow(r)
      PROVE  TrailsExplain'
  BY <1>2 DEF Begin, ReadFinding, InsertRow, Goto
<1>3. ASSUME NEW r \in Exports, ReadPlan(r)
      PROVE  TrailsExplain'
  BY <1>3 DEF ReadPlan, Goto
<1>4. ASSUME NEW r \in Exports, ReadApprovals(r)
      PROVE  TrailsExplain'
  BY <1>4 DEF ReadApprovals, Goto
<1>5. ASSUME NEW r \in Exports, CommitRow(r) \/ LinkRow(r)
      PROVE  TrailsExplain'
  BY <1>5 DEF CommitRow, LinkRow, Goto
<1>6. ASSUME NEW r \in Exports, PutObject(r) \/ PutFails(r)
      PROVE  TrailsExplain'
  BY <1>6 DEF PutObject, PutFails, Goto
<1>7. ASSUME NEW r \in Exports, DropRow(r) \/ Respond(r) \/ Fail(r)
      PROVE  TrailsExplain'
  BY <1>7 DEF DropRow, Respond, Fail, Finish
<1>8. ASSUME PlansMove PROVE TrailsExplain'
  BY <1>8 DEF PlansMove, OverlappedNext, Draft, LateMove, Land, Target, PlanActions
<1>9. ASSUME Diagnose \/ Crash PROVE TrailsExplain'
  BY <1>9 DEF Diagnose, Crash, InFlight
<1>10. ASSUME NEW g \in Readers, GetLatest(g) \/ GetNothing(g)
      PROVE  TrailsExplain'
  BY <1>10 DEF GetLatest, GetNothing, Rows
<1>11. CASE UNCHANGED vars
  BY <1>11 DEF vars
<1>. QED
  BY <1>1, <1>2, <1>3, <1>4, <1>5, <1>6, <1>7, <1>8, <1>9, <1>10, <1>11 DEF Next, Step

(* The approvals are read after the status, from a trail that has grown. *)
LEMMA SubjectsNext ==
  ASSUME TypeOK, TrailsExplain, SubjectsApproved, [Next]_vars
  PROVE  SubjectsApproved'
<1>. USE PlansAssumption
          DEF InTx, PCs, machineVars, packed, got, TypeOK, PlanActions, TrailsExplain, SubjectsApproved
<1>1. ASSUME NEW r \in Exports, Refuse(r) \/ FindingRequired(r) \/ ApprovedPlanRequired(r)
      PROVE  SubjectsApproved'
  BY <1>1 DEF Refuse, FindingRequired, ApprovedPlanRequired, Finish
<1>2. ASSUME NEW r \in Exports, Begin(r) \/ ReadFinding(r) \/ InsertRow(r)
      PROVE  SubjectsApproved'
  BY <1>2 DEF Begin, ReadFinding, InsertRow, Goto
<1>3. ASSUME NEW r \in Exports, ReadPlan(r)
      PROVE  SubjectsApproved'
  BY <1>3 DEF ReadPlan, Goto
<1>4. ASSUME NEW r \in Exports, ReadApprovals(r)
      PROVE  SubjectsApproved'
  BY <1>4 DEF ReadApprovals, Goto
<1>5. ASSUME NEW r \in Exports, CommitRow(r) \/ LinkRow(r)
      PROVE  SubjectsApproved'
  BY <1>5 DEF CommitRow, LinkRow, Goto
<1>6. ASSUME NEW r \in Exports, PutObject(r) \/ PutFails(r)
      PROVE  SubjectsApproved'
  BY <1>6 DEF PutObject, PutFails, Goto
<1>7. ASSUME NEW r \in Exports, DropRow(r) \/ Respond(r) \/ Fail(r)
      PROVE  SubjectsApproved'
  BY <1>7 DEF DropRow, Respond, Fail, Finish
<1>8. ASSUME PlansMove PROVE SubjectsApproved'
  BY <1>8 DEF PlansMove, OverlappedNext, Draft, LateMove, Land, Target, PlanActions
<1>9. ASSUME Diagnose \/ Crash PROVE SubjectsApproved'
  BY <1>9 DEF Diagnose, Crash, InFlight
<1>10. ASSUME NEW g \in Readers, GetLatest(g) \/ GetNothing(g)
      PROVE  SubjectsApproved'
  BY <1>10 DEF GetLatest, GetNothing, Rows
<1>11. CASE UNCHANGED vars
  BY <1>11 DEF vars
<1>. QED
  BY <1>1, <1>2, <1>3, <1>4, <1>5, <1>6, <1>7, <1>8, <1>9, <1>10, <1>11 DEF Next, Step

(* One statement at a time moves a row and its request on. *)
LEMMA RowsNext ==
  ASSUME TypeOK, RowsFollow, [Next]_vars
  PROVE  RowsFollow'
<1>. USE ExportsAssumption DEF InTx, PCs, machineVars, packed, got, TypeOK, RowsFollow
<1>1. ASSUME NEW r \in Exports, Refuse(r) \/ FindingRequired(r) \/ ApprovedPlanRequired(r)
      PROVE  RowsFollow'
  BY <1>1 DEF Refuse, FindingRequired, ApprovedPlanRequired, Finish
<1>2. ASSUME NEW r \in Exports, Begin(r) \/ ReadFinding(r) \/ InsertRow(r)
      PROVE  RowsFollow'
  BY <1>2 DEF Begin, ReadFinding, InsertRow, Goto
<1>3. ASSUME NEW r \in Exports, ReadPlan(r)
      PROVE  RowsFollow'
  BY <1>3 DEF ReadPlan, Goto
<1>4. ASSUME NEW r \in Exports, ReadApprovals(r)
      PROVE  RowsFollow'
  BY <1>4 DEF ReadApprovals, Goto
<1>5. ASSUME NEW r \in Exports, CommitRow(r) \/ LinkRow(r)
      PROVE  RowsFollow'
  BY <1>5 DEF CommitRow, LinkRow, Goto
<1>6. ASSUME NEW r \in Exports, PutObject(r) \/ PutFails(r)
      PROVE  RowsFollow'
  BY <1>6 DEF PutObject, PutFails, Goto
<1>7. ASSUME NEW r \in Exports, DropRow(r) \/ Respond(r) \/ Fail(r)
      PROVE  RowsFollow'
  BY <1>7 DEF DropRow, Respond, Fail, Finish
<1>8. ASSUME PlansMove PROVE RowsFollow'
  BY <1>8 DEF PlansMove, OverlappedNext, Draft, LateMove, Land, Target, PlanActions
<1>9. ASSUME Diagnose \/ Crash PROVE RowsFollow'
  BY <1>9 DEF Diagnose, Crash, InFlight
<1>10. ASSUME NEW g \in Readers, GetLatest(g) \/ GetNothing(g)
      PROVE  RowsFollow'
  BY <1>10 DEF GetLatest, GetNothing, Rows
<1>11. CASE UNCHANGED vars
  BY <1>11 DEF vars
<1>. QED
  BY <1>1, <1>2, <1>3, <1>4, <1>5, <1>6, <1>7, <1>8, <1>9, <1>10, <1>11 DEF Next, Step

(* A key is committed after the upload has succeeded. *)
LEMMA LinkedNext ==
  ASSUME TypeOK, RowsFollow, LinkedIsStored, [Next]_vars
  PROVE  LinkedIsStored'
<1>. USE DEF InTx, PCs, machineVars, packed, got, TypeOK, RowsFollow, LinkedIsStored
<1>1. ASSUME NEW r \in Exports, Refuse(r) \/ FindingRequired(r) \/ ApprovedPlanRequired(r)
      PROVE  LinkedIsStored'
  BY <1>1 DEF Refuse, FindingRequired, ApprovedPlanRequired, Finish
<1>2. ASSUME NEW r \in Exports, Begin(r) \/ ReadFinding(r) \/ InsertRow(r)
      PROVE  LinkedIsStored'
  BY <1>2 DEF Begin, ReadFinding, InsertRow, Goto
<1>3. ASSUME NEW r \in Exports, ReadPlan(r)
      PROVE  LinkedIsStored'
  BY <1>3 DEF ReadPlan, Goto
<1>4. ASSUME NEW r \in Exports, ReadApprovals(r)
      PROVE  LinkedIsStored'
  BY <1>4 DEF ReadApprovals, Goto
<1>5. ASSUME NEW r \in Exports, CommitRow(r) \/ LinkRow(r)
      PROVE  LinkedIsStored'
  BY <1>5 DEF CommitRow, LinkRow, Goto
<1>6. ASSUME NEW r \in Exports, PutObject(r) \/ PutFails(r)
      PROVE  LinkedIsStored'
  BY <1>6 DEF PutObject, PutFails, Goto
<1>7. ASSUME NEW r \in Exports, DropRow(r) \/ Respond(r) \/ Fail(r)
      PROVE  LinkedIsStored'
  BY <1>7 DEF DropRow, Respond, Fail, Finish
<1>8. ASSUME PlansMove PROVE LinkedIsStored'
  BY <1>8 DEF PlansMove, OverlappedNext, Draft, LateMove, Land, Target, PlanActions
<1>9. ASSUME Diagnose \/ Crash PROVE LinkedIsStored'
  BY <1>9 DEF Diagnose, Crash, InFlight
<1>10. ASSUME NEW g \in Readers, GetLatest(g) \/ GetNothing(g)
      PROVE  LinkedIsStored'
  BY <1>10 DEF GetLatest, GetNothing, Rows
<1>11. CASE UNCHANGED vars
  BY <1>11 DEF vars
<1>. QED
  BY <1>1, <1>2, <1>3, <1>4, <1>5, <1>6, <1>7, <1>8, <1>9, <1>10, <1>11 DEF Next, Step

(* An answered request is over: nobody else writes its row. *)
LEMMA AnswerNext ==
  ASSUME TypeOK, RowsFollow, AnswerTellsRow, [Next]_vars
  PROVE  AnswerTellsRow'
<1>. USE ExportsAssumption DEF InTx, PCs, machineVars, packed, got, TypeOK, RowsFollow, AnswerTellsRow, Rows
<1>1. ASSUME NEW r \in Exports, Refuse(r) \/ FindingRequired(r) \/ ApprovedPlanRequired(r)
      PROVE  AnswerTellsRow'
  BY <1>1 DEF Refuse, FindingRequired, ApprovedPlanRequired, Finish
<1>2. ASSUME NEW r \in Exports, Begin(r) \/ ReadFinding(r) \/ InsertRow(r)
      PROVE  AnswerTellsRow'
  BY <1>2 DEF Begin, ReadFinding, InsertRow, Goto
<1>3. ASSUME NEW r \in Exports, ReadPlan(r)
      PROVE  AnswerTellsRow'
  BY <1>3 DEF ReadPlan, Goto
<1>4. ASSUME NEW r \in Exports, ReadApprovals(r)
      PROVE  AnswerTellsRow'
  BY <1>4 DEF ReadApprovals, Goto
<1>5. ASSUME NEW r \in Exports, CommitRow(r) \/ LinkRow(r)
      PROVE  AnswerTellsRow'
  BY <1>5 DEF CommitRow, LinkRow, Goto
<1>6. ASSUME NEW r \in Exports, PutObject(r) \/ PutFails(r)
      PROVE  AnswerTellsRow'
  BY <1>6 DEF PutObject, PutFails, Goto
<1>7. ASSUME NEW r \in Exports, DropRow(r) \/ Respond(r) \/ Fail(r)
      PROVE  AnswerTellsRow'
  BY <1>7 DEF DropRow, Respond, Fail, Finish
<1>8. ASSUME PlansMove PROVE AnswerTellsRow'
  BY <1>8 DEF PlansMove, OverlappedNext, Draft, LateMove, Land, Target, PlanActions
<1>9. ASSUME Diagnose \/ Crash PROVE AnswerTellsRow'
  BY <1>9 DEF Diagnose, Crash, InFlight
<1>10. ASSUME NEW g \in Readers, GetLatest(g) \/ GetNothing(g)
      PROVE  AnswerTellsRow'
  BY <1>10 DEF GetLatest, GetNothing, Rows
<1>11. CASE UNCHANGED vars
  BY <1>11 DEF vars
<1>. QED
  BY <1>1, <1>2, <1>3, <1>4, <1>5, <1>6, <1>7, <1>8, <1>9, <1>10, <1>11 DEF Next, Step

(* Every step preserves the invariant. *)
LEMMA NextIInv == IInv /\ [Next]_vars => IInv'
BY TypeNext, TrailsNext, SubjectsNext, RowsNext, LinkedNext, AnswerNext DEF IInv

(* The inductive invariant holds of every behaviour. *)
THEOREM Invariance == Spec => []IInv
BY InitIInv, NextIInv, PTL DEF Spec

(* The variables keep their types. *)
THEOREM TypeCorrect == Spec => []TypeOK
BY Invariance, PTL DEF IInv

(* However decisions interleave with the reads of an export, its bundle holds *)
(* the submission and the approval of its plan.                               *)
THEOREM BundlesExplain == Spec => []BundleExplainsApproval
<1>1. IInv => BundleExplainsApproval
  BY DEF IInv, TypeOK, SubjectsApproved, BundleExplainsApproval
<1>. QED
  BY <1>1, Invariance, PTL

(* No failure or crash between the two stores leaves a dangling key. *)
THEOREM NoDanglingKey == Spec => []LinkedIsStored
BY Invariance, PTL DEF IInv

(* The answers of POST agree with the table. *)
THEOREM AnswersTell == Spec => []AnswerTellsRow
BY Invariance, PTL DEF IInv

(* A linked row is never deleted or overwritten: each step that writes a row *)
(* writes the row of its own request, which is not linked yet.               *)
THEOREM EvidenceKept == Spec => LinkedForever
<1>1. IInv /\ [Next]_vars =>
        [\A r \in Exports : row[r] = "linked" => row'[r] = "linked"]_row
  <2>. SUFFICES ASSUME IInv, [Next]_vars, NEW e \in Exports, row[e] = "linked"
                PROVE  row'[e] = "linked"
    OBVIOUS
  <2>. USE DEF IInv, TypeOK, RowsFollow, machineVars, packed, got
  <2>1. ASSUME NEW r \in Exports, CommitRow(r) \/ DropRow(r) \/ LinkRow(r)
        PROVE  row'[e] = "linked"
    BY <2>1 DEF CommitRow, DropRow, LinkRow
  <2>2. ASSUME NEW r \in Exports,
               Refuse(r) \/ Begin(r) \/ ReadFinding(r) \/ FindingRequired(r)
               \/ ReadPlan(r) \/ ApprovedPlanRequired(r) \/ ReadApprovals(r)
               \/ InsertRow(r) \/ PutObject(r) \/ PutFails(r) \/ Respond(r)
               \/ Fail(r)
        PROVE  row'[e] = "linked"
    BY <2>2 DEF Refuse, Begin, ReadFinding, FindingRequired, ReadPlan,
         ApprovedPlanRequired, ReadApprovals, InsertRow, PutObject, PutFails,
         Respond, Fail
  <2>3. ASSUME NEW g \in Readers, GetLatest(g) \/ GetNothing(g)
        PROVE  row'[e] = "linked"
    BY <2>3 DEF GetLatest, GetNothing
  <2>4. CASE Diagnose \/ PlansMove \/ Crash \/ UNCHANGED vars
    BY <2>4 DEF Diagnose, PlansMove, Crash, vars
  <2>. QED
    BY <2>1, <2>2, <2>3, <2>4 DEF Next, Step
<1>. QED
  BY <1>1, Invariance, PTL DEF Spec, LinkedForever

(* A GET reads one snapshot, of which it takes the newest row: the row of an *)
(* export that was answered 201 is there, linked, so what the GET answers    *)
(* with is not older, and it does not answer "not found".                    *)
THEOREM GetsAreFresh == Spec => GetIsFresh
<1>1. IInv /\ [Next]_vars =>
        [\A g \in Readers, r \in Exports :
           reply[g] = 0 /\ reply'[g] # 0 /\ reply[r] = 201 =>
             found'[g] \in Exports /\ made[r] <= made[found'[g]]]_<<found, reply>>
  <2>. SUFFICES ASSUME IInv, [Next]_vars, NEW g \in Readers, NEW e \in Exports,
                       reply[g] = 0, reply'[g] # 0, reply[e] = 201
                PROVE  found'[g] \in Exports /\ made[e] <= made[found'[g]]
    OBVIOUS
  <2>. USE ExportsAssumption DEF IInv, TypeOK, machineVars, packed, got
  <2>1. e \in Rows
    BY DEF AnswerTellsRow, Rows
  <2>2. ASSUME NEW h \in Readers, GetLatest(h)
        PROVE  found'[g] \in Exports /\ made[e] <= made[found'[g]]
    <3>1. h = g
      BY <2>2 DEF GetLatest
    <3>2. PICK r \in Rows : (\A q \in Rows : made[q] <= made[r])
                           /\ found' = [found EXCEPT ![h] = r]
      BY <2>2 DEF GetLatest
    <3>. QED
      BY <2>1, <3>1, <3>2 DEF Rows
  <2>3. ASSUME NEW h \in Readers, GetNothing(h) PROVE FALSE
    BY <2>1, <2>3 DEF GetNothing
  <2>4. ASSUME NEW r \in Exports,
               Refuse(r) \/ FindingRequired(r) \/ ApprovedPlanRequired(r)
               \/ DropRow(r) \/ Respond(r) \/ Fail(r)
        PROVE  reply'[g] = reply[g]
    BY <2>4 DEF Refuse, FindingRequired, ApprovedPlanRequired, DropRow, Respond,
                Fail, Finish
  <2>5. ASSUME NEW r \in Exports,
               Begin(r) \/ ReadFinding(r) \/ ReadPlan(r) \/ ReadApprovals(r)
               \/ InsertRow(r) \/ CommitRow(r) \/ PutObject(r) \/ PutFails(r)
               \/ LinkRow(r)
        PROVE  reply'[g] = reply[g]
    BY <2>5 DEF Begin, ReadFinding, ReadPlan, ReadApprovals, InsertRow, CommitRow,
                PutObject, PutFails, LinkRow, Goto
  <2>6. CASE Diagnose \/ PlansMove \/ Crash \/ UNCHANGED vars
    BY <2>6 DEF Diagnose, PlansMove, Crash, vars
  <2>. QED
    BY <2>2, <2>3, <2>4, <2>5, <2>6 DEF Next, Step
<1>. QED
  BY <1>1, Invariance, PTL DEF Spec, GetIsFresh
=============================================================================
