-------------------------- MODULE CursorPagination --------------------------
(***************************************************************************)
(* The five list endpoints and the cursor they share                       *)
(* (apps/api/src/lib/cursor.ts): a client walks through a list page by     *)
(* page while rows are committed, changed and deleted.                     *)
(*                                                                         *)
(* A page is one SELECT: the rows that match the filter, older than the    *)
(* cursor, ORDER BY created_at DESC, id DESC LIMIT limit + 1; the cursor   *)
(* is minted from the last row of the page.  created_at is the start of    *)
(* the row's transaction, in microseconds; pg hands it over as a Date, and *)
(* the cursor carries it in milliseconds.                                  *)
(***************************************************************************)
EXTENDS Integers, FiniteSets

CONSTANTS
  Ids,       \* the rows, by their random ids; the order of the ids is <
  PerMs,     \* microseconds in a millisecond
  MaxTime,   \* bound on the clock, in microseconds
  Limits     \* the limits a client asks for

ASSUME IdsAssumption == Ids \subseteq Nat /\ IsFiniteSet(Ids)
ASSUME TimeAssumption == PerMs \in Nat \ {0} /\ MaxTime \in Nat
ASSUME LimitsAssumption == Limits \subseteq Nat \ {0}

VARIABLES
  list,     \* the list, by what can become of its rows
  clock,
  phase,    \* a row is "absent", "open" (not committed), "listed" or "gone"
  at,       \* its created_at
  match,    \* it matches the client's filter
  steady,   \* the rows that were listed and matched all the time of the walk
  pc,       \* the client: "idle", "more" (has a next_cursor) or "end"
  cursor,   \* [ts, id] of the last next_cursor
  minted,   \* the rows cursors were made from
  earlier,  \* the rows of all pages but the last,
  page,     \* and of the last
  limit     \* of the last page

vars == <<list, clock, phase, at, match, steady, pc, cursor, minted, earlier,
          page, limit>>
table == <<list, clock, phase, at, match>>
walk  == <<pc, cursor, minted, earlier, page, limit>>

(* Whether a filter's verdict on a row can change, and whether rows can go: *)
(* the roll-ups of an intake, the status of a plan, the clean-up of exports. *)
IntakesList == [changing |-> TRUE,  shrinking |-> FALSE]
RcaList     == [changing |-> FALSE, shrinking |-> FALSE]
PlansList   == [changing |-> TRUE,  shrinking |-> FALSE]
ApprovalsList == [changing |-> FALSE, shrinking |-> FALSE]
ExportsList == [changing |-> FALSE, shrinking |-> TRUE]
Lists == {IntakesList, RcaList, PlansList, ApprovalsList, ExportsList}

Before(ts, id, r) == at[r] < ts \/ (at[r] = ts /\ r < id)
Newer(q, r) == Before(at[q], q, r)
Ms(t) == t - (t % PerMs)

Init ==
  /\ list \in Lists
  /\ clock = 0
  /\ phase = [r \in Ids |-> "absent"]
  /\ at = [r \in Ids |-> 0]
  /\ match = [r \in Ids |-> FALSE]
  /\ steady = {}
  /\ pc = "idle"
  /\ cursor = [ts |-> 0, id |-> 0]
  /\ minted = {}
  /\ earlier = {}
  /\ page = {}
  /\ limit = 0

-----------------------------------------------------------------------------
Tick ==
  /\ clock < MaxTime
  /\ clock' = clock + 1
  /\ UNCHANGED <<list, phase, at, match, steady, walk>>

(* BEGIN of the transaction that inserts the row; NOW() is this moment. *)
Open(r) ==
  /\ phase[r] = "absent"
  /\ phase' = [phase EXCEPT ![r] = "open"]
  /\ at' = [at EXCEPT ![r] = clock]
  /\ \E verdict \in BOOLEAN : match' = [match EXCEPT ![r] = verdict]
  /\ UNCHANGED <<list, clock, steady, walk>>

Commit(r) ==
  /\ phase[r] = "open"
  /\ phase' = [phase EXCEPT ![r] = "listed"]
  /\ UNCHANGED <<list, clock, at, match, steady, walk>>

(* What the filter looks at changes: a finding, a transition, an export. *)
Change(r) ==
  /\ list.changing
  /\ phase[r] = "listed"
  /\ match' = [match EXCEPT ![r] = ~@]
  /\ steady' = steady \ {r}
  /\ UNCHANGED <<list, clock, phase, at, walk>>

(* The DELETE after a failed upload. *)
Delete(r) ==
  /\ list.shrinking
  /\ phase[r] = "listed"
  /\ phase' = [phase EXCEPT ![r] = "gone"]
  /\ steady' = steady \ {r}
  /\ UNCHANGED <<list, clock, at, match, walk>>

-----------------------------------------------------------------------------
Matching == {r \in Ids : phase[r] = "listed" /\ match[r]}
IsLast(r, rows) == r \in rows /\ \A q \in rows : q = r \/ Newer(q, r)

(* Mutant: toISOString as if it rounded up. *)
EncodeCursorUp(r) == [ts |-> Ms(at[r] + PerMs - 1), id |-> r]

(* Date.toISOString keeps milliseconds. *)
EncodeCursor(r) == [ts |-> Ms(at[r]), id |-> r]

(* The rows the WHERE leaves; no cursor on the first page. *)
Selected ==
  IF pc = "idle" THEN Matching
  ELSE {r \in Matching : Before(cursor.ts, cursor.id, r)}

(* items.slice(0, limit) of the rows in their order. *)
Slice(rows, n) ==
  {r \in rows : Cardinality({q \in rows : Newer(q, r)}) < n}

(* Mutant: the cursor is made from the row that was fetched in excess. *)
FetchExtra ==
  /\ pc # "end"
  /\ \E n \in Limits :
       /\ limit' = n
       /\ page' = Slice(Selected, n)
       /\ \/ page' = Selected /\ pc' = "end" /\ UNCHANGED <<cursor, minted>>
          \/ /\ page' # Selected
             /\ pc' = "more"
             /\ \E last \in Ids :
                  /\ IsLast(last, Slice(Selected, n + 1))
                  /\ cursor' = EncodeCursor(last)
                  /\ minted' = minted \cup {last}
  /\ earlier' = earlier \cup page
  /\ steady' = IF pc = "idle" THEN Matching ELSE steady
  /\ UNCHANGED table

(* GET: next_cursor is null unless there was a row beyond the limit. *)
Fetch ==
  /\ pc # "end"
  /\ \E n \in Limits :
       /\ limit' = n
       /\ page' = Slice(Selected, n)
       /\ \/ page' = Selected /\ pc' = "end" /\ UNCHANGED <<cursor, minted>>
          \/ /\ page' # Selected
             /\ pc' = "more"
             /\ \E last \in Ids :
                  /\ IsLast(last, page')
                  /\ cursor' = EncodeCursor(last)
                  /\ minted' = minted \cup {last}
  /\ earlier' = earlier \cup page
  /\ steady' = IF pc = "idle" THEN Matching ELSE steady
  /\ UNCHANGED table

Next ==
  \/ Tick
  \/ \E r \in Ids : Open(r) \/ Commit(r) \/ Change(r) \/ Delete(r)
  \/ Fetch

Spec == Init /\ [][Next]_vars

-----------------------------------------------------------------------------
TypeOK ==
  /\ list \in Lists
  /\ clock \in 0..MaxTime
  /\ phase \in [Ids -> {"absent", "open", "listed", "gone"}]
  /\ at \in [Ids -> 0..MaxTime]
  /\ match \in [Ids -> BOOLEAN]
  /\ steady \in SUBSET Ids
  /\ pc \in {"idle", "more", "end"}
  /\ cursor \in [ts : 0..MaxTime, id : Nat]
  /\ minted \in SUBSET Ids
  /\ earlier \in SUBSET Ids
  /\ page \in SUBSET Ids
  /\ limit \in Limits \cup {0}

(* The walk goes strictly from newer to older rows, over all of its pages: *)
(* no row is repeated, whatever is committed late, changes or disappears   *)
(* between two pages.                                                      *)
NewestFirstOnce == \A q \in earlier, r \in page : Newer(q, r)

(* The walk is past row r. *)
Passed(r) == pc = "end" \/ (pc = "more" /\ \E q \in page : Newer(r, q))

(* What the walk misses: of the rows that were there all the time, only such *)
(* that share the millisecond of a cursor and come after it.                 *)
MissedOnlyInCursorMs ==
  \A r \in steady \ (earlier \cup page) :
    Passed(r) => \E b \in minted : Ms(at[b]) = Ms(at[r]) /\ Newer(b, r)
=============================================================================
