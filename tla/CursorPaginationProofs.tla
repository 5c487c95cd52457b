----------------------- MODULE CursorPaginationProofs -----------------------
(***************************************************************************)
(* Proofs about CursorPagination, for any number of rows, any lengths of   *)
(* the clock and of a millisecond, and any limits.                         *)
(*                                                                         *)
(* The cursor divides the rows: what was shown is not before it, what a    *)
(* page selects is.  Truncation moves the cursor back only, so shown rows  *)
(* stay on their side; a steady row that changes sides without having been *)
(* shown lies between the truncated time and the cursor's row.             *)
(***************************************************************************)
EXTENDS CursorPagination, FiniteSetTheorems, TLAPS

Shown == earlier \cup page

(* Rows that were seen are committed: their created_at is settled. *)
SeenCommitted ==
  /\ \A r \in Shown \cup minted : phase[r] \in {"listed", "gone"}
  /\ steady \subseteq Matching
  /\ pc = "idle" => Shown = {} /\ steady = {}

ShownBehindCursor ==
  pc = "more" => \A r \in Shown : ~Before(cursor.ts, cursor.id, r)

CutOff(r) == \E b \in minted : Ms(at[b]) = Ms(at[r]) /\ Newer(b, r)

(* A steady row was shown, is still to come, or is cut off by a cursor. *)
SteadyAccounted ==
  \A r \in steady \ Shown :
    \/ pc = "more" /\ Before(cursor.ts, cursor.id, r)
    \/ CutOff(r)

IInv ==
  /\ TypeOK
  /\ SeenCommitted
  /\ ShownBehindCursor
  /\ NewestFirstOnce
  /\ SteadyAccounted

-----------------------------------------------------------------------------
(* Truncation goes back, and not below zero. *)
LEMMA MsBounds ==
  ASSUME NEW t \in Nat
  PROVE  Ms(t) \in Nat /\ Ms(t) <= t
<1>1. t % PerMs \in 0..(PerMs - 1) /\ t = PerMs * (t \div PerMs) + (t % PerMs)
  BY TimeAssumption
<1>2. t \div PerMs \in Nat
  BY TimeAssumption
<1>3. PerMs * (t \div PerMs) \in Nat
  BY <1>2, TimeAssumption
<1>. QED
  BY <1>1, <1>3, TimeAssumption DEF Ms

(* What lies between a truncated time and the time is in its millisecond. *)
LEMMA MsBetween ==
  ASSUME NEW s \in Nat, NEW t \in Nat, Ms(t) <= s, s <= t
  PROVE  Ms(s) = Ms(t)
<1>. DEFINE P == PerMs
            m == Ms(t)
            d == s - m
<1>1. t % P \in 0..(P - 1) /\ t = P * (t \div P) + (t % P) /\ P \in Nat \ {0}
  BY TimeAssumption
<1>2. m = P * (t \div P)
  BY <1>1 DEF Ms
<1>3. d \in 0..(P - 1) /\ s = P * (t \div P) + d
  BY <1>1, <1>2, MsBounds DEF Ms
<1>4. t \div P \in Int
  BY <1>1
<1>5. s % P = d
  <2>. DEFINE e == (s \div P) - (t \div P)
  <2>1. s % P \in 0..(P - 1) /\ s = P * (s \div P) + (s % P) /\ s \div P \in Int
    BY <1>1
  <2>2. e \in Int /\ P * e = d - (s % P)
    BY <2>1, <1>1, <1>3, <1>4
  <2>. HIDE DEF e, P, d
  <2>3. ASSUME e >= 1 PROVE FALSE
    <3>1. P * e >= P
      BY <2>3, <2>2, <1>1
    <3>. QED
      BY <3>1, <2>1, <2>2, <1>1, <1>3
  <2>4. ASSUME e <= -1 PROVE FALSE
    <3>1. P * e <= -P
      BY <2>4, <2>2, <1>1
    <3>. QED
      BY <3>1, <2>1, <2>2, <1>1, <1>3
  <2>5. e = 0
    BY <2>2, <2>3, <2>4
  <2>. QED
    BY <2>5, <2>1, <2>2, <1>1, <1>3
<1>. QED
  BY <1>5, <1>3, MsBounds DEF Ms

(* The rows are totally ordered. *)
LEMMA NewerTotal ==
  ASSUME TypeOK, NEW q \in Ids, NEW r \in Ids, q # r
  PROVE  Newer(q, r) \/ Newer(r, q)
BY IdsAssumption, TimeAssumption DEF TypeOK, Newer, Before

(* The slice of a page is newer than what it leaves. *)
LEMMA SliceNewer ==
  ASSUME TypeOK, NEW rows \in SUBSET Ids, NEW n \in Nat,
         NEW q \in Slice(rows, n), NEW r \in rows \ Slice(rows, n)
  PROVE  Newer(q, r)
<1>. DEFINE NewerThan(x) == {p \in rows : Newer(p, x)}
<1>1. q \in Ids /\ r \in Ids /\ q # r
  BY DEF Slice
<1>2. \A x : IsFiniteSet(NewerThan(x)) /\ Cardinality(NewerThan(x)) \in Nat
  BY IdsAssumption, FS_Subset, FS_CardinalityType
<1>3. Cardinality(NewerThan(q)) < n /\ ~(Cardinality(NewerThan(r)) < n)
  BY DEF Slice
<1>4. ASSUME Newer(r, q) PROVE FALSE
  <2>1. NewerThan(r) \subseteq NewerThan(q)
    <3>. SUFFICES ASSUME NEW p \in rows, Newer(p, r) PROVE Newer(p, q)
      OBVIOUS
    <3>1. \A x \in {p, q, r} : x \in Nat /\ at[x] \in Nat
      BY <1>1, IdsAssumption, TimeAssumption DEF TypeOK
    <3>. QED
      BY <3>1, <1>4 DEF Newer, Before
  <2>2. Cardinality(NewerThan(r)) <= Cardinality(NewerThan(q))
    BY <2>1, <1>2, FS_Subset
  <2>. HIDE DEF NewerThan
  <2>. QED
    BY <2>2, <1>2, <1>3
<1>. QED
  BY <1>1, <1>4, NewerTotal

-----------------------------------------------------------------------------
(* Nothing has been fetched yet. *)
LEMMA InitIInv == Init => IInv
<1>. SUFFICES ASSUME Init PROVE IInv
  OBVIOUS
<1>1. TypeOK
  BY TimeAssumption DEF Init, TypeOK
<1>. QED
  BY <1>1 DEF Init, IInv, SeenCommitted, ShownBehindCursor, NewestFirstOnce,
       SteadyAccounted, Shown

(* The table changes under the walk: created_at of a seen row does not. *)
LEMMA TableNext ==
  ASSUME IInv, NEW r \in Ids, Open(r) \/ Commit(r) \/ Change(r) \/ Delete(r)
  PROVE  IInv'
<1>. USE DEF IInv, walk
<1>1. TypeOK'
  <2>1. CASE Open(r)
    BY <2>1, TimeAssumption DEF TypeOK, Open
  <2>2. CASE Commit(r) \/ Change(r) \/ Delete(r)
    BY <2>2 DEF TypeOK, Commit, Change, Delete
  <2>. QED
    BY <2>1, <2>2
<1>2. /\ steady' \subseteq steady
      /\ UNCHANGED <<pc, cursor, minted, earlier, page>>
      /\ \A q \in Ids : phase[q] \in {"listed", "gone"} => at'[q] = at[q]
  BY DEF TypeOK, Open, Commit, Change, Delete
<1>3. SeenCommitted'
  <2>1. CASE Open(r)
    BY <2>1 DEF TypeOK, SeenCommitted, Open, Shown, Matching
  <2>2. CASE Commit(r)
    BY <2>2 DEF TypeOK, SeenCommitted, Commit, Shown, Matching
  <2>3. CASE Change(r)
    BY <2>3 DEF TypeOK, SeenCommitted, Change, Shown, Matching
  <2>4. CASE Delete(r)
    BY <2>4 DEF TypeOK, SeenCommitted, Delete, Shown, Matching
  <2>. QED
    BY <2>1, <2>2, <2>3, <2>4
<1>4. \A q \in Shown \cup minted \cup steady : q \in Ids /\ at'[q] = at[q]
  BY <1>2 DEF TypeOK, SeenCommitted, Shown, Matching
<1>5. ShownBehindCursor' /\ NewestFirstOnce'
  BY <1>2, <1>4 DEF ShownBehindCursor, NewestFirstOnce, Shown, Newer, Before
<1>6. SteadyAccounted'
  <2>. SUFFICES ASSUME NEW q \in steady \ Shown
                PROVE  \/ pc = "more" /\ Before(cursor.ts, cursor.id, q)'
                       \/ CutOff(q)'
    BY <1>2 DEF SteadyAccounted, Shown
  <2>1. CASE pc = "more" /\ Before(cursor.ts, cursor.id, q)
    BY <2>1, <1>2, <1>4 DEF Before
  <2>2. CASE CutOff(q)
    BY <2>2, <1>2, <1>4 DEF CutOff, Newer, Before
  <2>. QED
    BY <2>1, <2>2 DEF SteadyAccounted
<1>. QED
  BY <1>1, <1>3, <1>5, <1>6

(* A page: what it shows is beyond the cursor, what it leaves is older. *)
LEMMA FetchNext ==
  ASSUME IInv, Fetch
  PROVE  IInv'
<1>. USE DEF IInv
<1>1. PICK n \in Limits : limit' = n /\ page' = Slice(Selected, n)
  BY DEF Fetch
<1>2. n \in Nat
  BY LimitsAssumption
<1>3. Selected \subseteq Matching /\ Matching \subseteq Ids /\ page' \subseteq Selected
  BY <1>1 DEF Selected, Matching, Slice
<1>4. at' = at /\ phase' = phase /\ match' = match /\ earlier' = Shown
  BY DEF Fetch, table, Shown
<1>5. \A q \in Ids : q \in Nat /\ at[q] \in 0..MaxTime /\ at[q] \in Nat
  BY IdsAssumption, TimeAssumption DEF TypeOK
<1>6. cursor.ts \in Nat /\ cursor.id \in Nat
  BY TimeAssumption DEF TypeOK
<1>7. Shown' = Shown \cup page' /\ Shown \subseteq Ids /\ steady' \subseteq Matching
  BY <1>4 DEF Shown, TypeOK, Fetch, SeenCommitted
<1>8. NewestFirstOnce'
  <2>. SUFFICES ASSUME NEW q \in Shown, NEW r \in page'
                PROVE  Newer(q, r)
    BY <1>4 DEF NewestFirstOnce, Newer, Before
  <2>1. pc = "more"
    BY DEF SeenCommitted, Fetch, TypeOK
  <2>2. ~Before(cursor.ts, cursor.id, q) /\ Before(cursor.ts, cursor.id, r)
    BY <2>1, <1>3 DEF ShownBehindCursor, Selected
  <2>. QED
    BY <2>2, <1>3, <1>5, <1>6, <1>7 DEF Before, Newer
<1>9. CASE page' = Selected /\ pc' = "end" /\ UNCHANGED <<cursor, minted>>
  <2>1. TypeOK'
    BY <1>1, <1>3, <1>7, <1>9 DEF TypeOK, Fetch, table, Matching, Shown
  <2>2. SeenCommitted'
    BY <1>3, <1>4, <1>7, <1>9 DEF SeenCommitted, Matching, Shown
  <2>3. SteadyAccounted'
    <3>. SUFFICES ASSUME NEW r \in steady' \ Shown'
                  PROVE  CutOff(r)'
      BY DEF SteadyAccounted
    <3>1. pc = "more" /\ r \in steady \ Shown
      BY <1>3, <1>7, <1>9 DEF Fetch, Selected, TypeOK
    <3>2. ~Before(cursor.ts, cursor.id, r)
      BY <3>1, <1>7, <1>9 DEF Selected, SeenCommitted
    <3>. QED
      BY <3>1, <3>2, <1>4, <1>9 DEF SteadyAccounted, CutOff, Newer, Before
  <2>. QED
    BY <2>1, <2>2, <2>3, <1>8, <1>9 DEF ShownBehindCursor
<1>10. ASSUME page' # Selected, pc' = "more",
              NEW last \in Ids, IsLast(last, page'),
              cursor' = EncodeCursor(last), minted' = minted \cup {last}
       PROVE  IInv'
  <2>1. /\ cursor'.ts = Ms(at[last]) /\ cursor'.id = last /\ cursor'.ts \in Nat
        /\ cursor'.ts <= at[last] /\ last \in Nat /\ at[last] \in Nat
        /\ cursor' = [ts |-> Ms(at[last]), id |-> last]
    BY <1>10, <1>5, MsBounds DEF EncodeCursor
  <2>2. TypeOK'
    <3>1. Ms(at[last]) \in 0..MaxTime
      BY <2>1, <1>5, TimeAssumption
    <3>2. cursor' \in [ts : 0..MaxTime, id : Nat]
      BY <3>1, <2>1
    <3>. QED
      BY <3>2, <1>1, <1>3, <1>7, <1>10 DEF TypeOK, Fetch, table, Matching, Shown
  <2>3. SeenCommitted'
    BY <1>3, <1>4, <1>7, <1>10 DEF SeenCommitted, Matching, Shown, IsLast
  <2>4. ShownBehindCursor'
    <3>. SUFFICES ASSUME NEW q \in Shown'
                  PROVE  ~(at[q] < Ms(at[last]) \/ (at[q] = Ms(at[last]) /\ q < last))
      BY <2>1, <1>4 DEF ShownBehindCursor, Before
    <3>1. q \in Ids /\ (q = last \/ Newer(q, last))
      BY <1>3, <1>4, <1>7, <1>8, <1>10 DEF IsLast, NewestFirstOnce, Newer, Before
    <3>. QED
      BY <3>1, <2>1, <1>5 DEF Newer, Before
  <2>5. SteadyAccounted'
    <3>. SUFFICES ASSUME NEW r \in steady' \ Shown'
                  PROVE  Before(cursor.ts, cursor.id, r)' \/ CutOff(r)'
      BY <1>10 DEF SteadyAccounted
    <3>0. r \in Ids
      BY <1>3, <1>7
    <3>1. CASE r \in Selected
      <4>1. Newer(last, r)
        BY <3>1, <1>1, <1>2, <1>3, <1>7, <1>10, SliceNewer DEF IsLast
      <4>2. CASE at[r] < Ms(at[last])
        BY <4>2, <1>4, <2>1 DEF Before
      <4>3. CASE ~(at[r] < Ms(at[last]))
        <5>1. Ms(at[last]) <= at[r] /\ at[r] <= at[last]
          BY <4>1, <4>3, <3>0, <2>1, <1>5 DEF Newer, Before
        <5>2. Ms(at[last]) = Ms(at[r])
          BY <5>1, <3>0, <1>5, MsBetween
        <5>. QED
          BY <5>2, <4>1, <1>4, <1>10 DEF CutOff, Newer, Before
      <4>. QED
        BY <4>2, <4>3
    <3>2. CASE r \notin Selected
      <4>1. pc = "more" /\ r \in steady \ Shown
        BY <3>2, <1>7 DEF Fetch, Selected, TypeOK
      <4>2. ~Before(cursor.ts, cursor.id, r)
        BY <4>1, <3>2, <1>7 DEF Selected, SeenCommitted
      <4>. QED
        BY <4>1, <4>2, <1>4, <1>10 DEF SteadyAccounted, CutOff, Newer, Before
    <3>. QED
      BY <3>1, <3>2
  <2>. QED
    BY <2>2, <2>3, <2>4, <2>5, <1>8
<1>. QED
  BY <1>1, <1>9, <1>10 DEF Fetch

(* Every step preserves the invariant. *)
LEMMA NextIInv == IInv /\ [Next]_vars => IInv'
<1>. SUFFICES ASSUME IInv, [Next]_vars PROVE IInv'
  OBVIOUS
<1>1. CASE Tick
  <2>1. TypeOK' /\ UNCHANGED <<list, phase, at, match, steady, walk>>
    BY <1>1, TimeAssumption DEF Tick, IInv, TypeOK, walk
  <2>. QED
    BY <2>1 DEF IInv, walk, SeenCommitted, ShownBehindCursor, NewestFirstOnce,
         SteadyAccounted, Shown, CutOff, Matching, Newer, Before
<1>2. CASE UNCHANGED vars
  BY <1>2 DEF vars, IInv, TypeOK, SeenCommitted, ShownBehindCursor,
       NewestFirstOnce, SteadyAccounted, Shown, CutOff, Matching, Newer, Before
<1>. QED
  BY <1>1, <1>2, TableNext, FetchNext DEF Next

(* The inductive invariant holds of every behaviour. *)
THEOREM Invariance == Spec => []IInv
BY InitIInv, NextIInv, PTL DEF Spec

(* The variables keep their types; the time in a cursor is within the bound *)
(* of the clock.                                                            *)
THEOREM TypeCorrect == Spec => []TypeOK
BY Invariance, PTL DEF IInv

(* However rows are committed, changed and deleted between the pages, no row *)
(* is repeated or out of order.                                              *)
THEOREM NothingRepeated == Spec => []NewestFirstOnce
BY Invariance, PTL DEF IInv

(* Truncation costs no other rows than those of a cursor's millisecond. *)
THEOREM OnlyCutOffMissed == Spec => []MissedOnlyInCursorMs
<1>1. IInv => MissedOnlyInCursorMs
  <2>. SUFFICES ASSUME IInv, NEW r \in steady \ Shown, Passed(r)
                PROVE  CutOff(r)
    BY DEF MissedOnlyInCursorMs, Shown, CutOff
  <2>1. CASE pc = "end"
    BY <2>1 DEF IInv, SteadyAccounted
  <2>2. ASSUME pc = "more", NEW q \in page, Newer(r, q) PROVE CutOff(r)
    <3>1. /\ q \in Ids /\ r \in Ids /\ q \in Nat /\ r \in Nat
          /\ at[q] \in Nat /\ at[r] \in Nat /\ cursor.ts \in Nat /\ cursor.id \in Nat
      BY IdsAssumption, TimeAssumption DEF IInv, TypeOK
    <3>2. ~Before(cursor.ts, cursor.id, q)
      BY <2>2 DEF IInv, ShownBehindCursor, Shown
    <3>3. ~Before(cursor.ts, cursor.id, r)
      BY <2>2, <3>1, <3>2 DEF Newer, Before
    <3>. QED
      BY <3>3 DEF IInv, SteadyAccounted
  <2>. QED
    BY <2>1, <2>2 DEF Passed
<1>. QED
  BY <1>1, Invariance, PTL
=============================================================================
