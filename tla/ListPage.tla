------------------------------ MODULE ListPage ------------------------------
(***************************************************************************)
(* The skeleton the five list pages of the web application share           *)
(* (apps/web/src/app/{intakes,rca,repair-plans,approvals,evidence}): the   *)
(* filter and the cursor in the state and in the URL, a fetch whenever     *)
(* either changes, Prev and Next over a stack of cursors, the selection,   *)
(* and the retry.  Nothing aborts a fetch that is superseded, so answers   *)
(* arrive in any order.                                                    *)
(*                                                                         *)
(* A page of rows stands for the request it answers.  Cursors are depths   *)
(* in the list, 0 for null; the server's next_cursor lies deeper than the  *)
(* request's cursor (NewestFirstOnce in CursorPagination).                 *)
(***************************************************************************)
EXTENDS Integers, Sequences, SequencesExt

CONSTANTS
  Filters,     \* what the filter bar (its debounced text included) can say
  Depth,       \* the deepest cursor
  MaxFlight,   \* bound on the fetches in flight
  MaxStack     \* bound on the stack of cursors

ASSUME DepthAssumption == Depth \in Nat
ASSUME BoundsAssumption == MaxFlight \in Nat \ {0} /\ MaxStack \in Nat

VARIABLES
  filter,     \* the filter the page has
  cursor,
  stack,      \* cursorStack
  flight,     \* the requests that wait for an answer, oldest first
  shown,      \* the request whose rows are on the page, or Nothing
  next,       \* nextCursor
  loading,
  error,
  selected,   \* the requests from whose rows some are selected
  late,       \* the newest request is answered, before an older one
  hasty       \* the user acted on rows while a request was in flight

vars == <<filter, cursor, stack, flight, shown, next, loading, error,
          selected, late, hasty>>

Cursors == 0..Depth
Requests == [filter : Filters, cursor : Cursors]
Request(f, c) == [filter |-> f, cursor |-> c]
Nothing == [filter |-> {}, cursor |-> -1]

(* What is fetched when the filter is (or becomes) f at cursor c: that page, *)
(* and the first one after the effect that resets the cursor.                *)
Wanted(f, c) ==
  IF c = 0 THEN <<Request(f, 0)>> ELSE <<Request(f, c), Request(f, 0)>>

(* The page as it is mounted from a URL. *)
Init ==
  /\ filter \in Filters
  /\ cursor = 0
  /\ stack = << >>
  /\ \E c \in Cursors : flight = Wanted(filter, c)
  /\ shown = Nothing
  /\ next = 0
  /\ loading = TRUE
  /\ error = FALSE
  /\ selected = {}
  /\ late = FALSE
  /\ hasty = FALSE

-----------------------------------------------------------------------------
(* Mutant: the selection outlives the fetch. *)
FetchSelected(requests) ==
  /\ flight' = flight \o requests
  /\ Len(flight') <= MaxFlight
  /\ loading' = TRUE
  /\ error' = FALSE
  /\ late' = FALSE
  /\ UNCHANGED <<shown, next, selected>>

(* fetchList, up to its await. *)
Fetch(requests) ==
  /\ flight' = flight \o requests
  /\ Len(flight') <= MaxFlight
  /\ loading' = TRUE
  /\ error' = FALSE
  /\ selected' = {}
  /\ late' = FALSE
  /\ UNCHANGED <<shown, next>>

(* Mutant: the effect forgets the cursor. *)
SetFilterOnly(f) ==
  /\ f # filter
  /\ filter' = f
  /\ stack' = << >>
  /\ hasty' = FALSE
  /\ Fetch(<<Request(f, cursor)>>)
  /\ UNCHANGED cursor

SetFilter(f) ==
  /\ f # filter
  /\ filter' = f
  /\ cursor' = 0
  /\ stack' = << >>
  /\ hasty' = FALSE
  /\ Fetch(Wanted(f, cursor))

(* A cursor that does not change fetches nothing. *)
MoveTo(c) ==
  /\ cursor' = c
  /\ hasty' = (hasty \/ flight # << >>)
  /\ UNCHANGED filter
  /\ \/ c # cursor /\ Fetch(<<Request(filter, c)>>)
     \/ c = cursor /\ UNCHANGED <<flight, shown, next, loading, error, selected, late>>

(* Mutant: the cursor Next leads to is pushed, not the one it leaves. *)
NextPageAhead ==
  /\ next # 0
  /\ Len(stack) < MaxStack
  /\ stack' = Append(stack, next)
  /\ MoveTo(next)

(* onNextPage *)
NextPage ==
  /\ next # 0
  /\ Len(stack) < MaxStack
  /\ stack' = Append(stack, cursor)
  /\ MoveTo(next)

(* onPrevPage *)
PrevPage ==
  /\ stack # << >>
  /\ stack' = Front(stack)
  /\ MoveTo(Last(stack))

Retry ==
  /\ ~loading /\ error
  /\ Fetch(<<Request(filter, cursor)>>)
  /\ UNCHANGED <<filter, cursor, stack, hasty>>

(* toggleAll, at any time, and toggleRow, when the rows are displayed. *)
Toggle ==
  /\ shown # Nothing
  /\ \/ selected' = IF shown \in selected THEN {} ELSE {shown}
     \/ /\ ~loading /\ ~error
        /\ \/ selected' = selected \union {shown}
           \/ selected' = selected \ {shown}
  /\ hasty' = (hasty \/ flight # << >>)
  /\ UNCHANGED <<filter, cursor, stack, flight, shown, next, loading, error, late>>

(* A refresh, which mounts the page from the URL the state was written to; *)
(* the answers to the old page's requests find nobody.                     *)
Reload ==
  /\ flight' = Wanted(filter, cursor)
  /\ cursor' = 0
  /\ stack' = << >>
  /\ shown' = Nothing
  /\ next' = 0
  /\ loading' = TRUE
  /\ error' = FALSE
  /\ selected' = {}
  /\ late' = FALSE
  /\ hasty' = FALSE
  /\ UNCHANGED filter

-----------------------------------------------------------------------------
Landed(i) ==
  /\ flight' = RemoveAt(flight, i)
  /\ loading' = FALSE
  /\ late' = (late \/ (i = Len(flight) /\ i > 1))
  /\ UNCHANGED <<filter, cursor, stack, selected, hasty>>

(* Mutant: only the first page an open page asks for replaces the rows. *)
AnswerIfNone(i) ==
  /\ IF shown = Nothing THEN shown' = flight[i] ELSE UNCHANGED shown
  /\ next' \in {0} \union (flight[i].cursor + 1 .. Depth)
  /\ Landed(i)
  /\ UNCHANGED error

(* An answer with rows; the error of an earlier answer stays. *)
Answer(i) ==
  /\ shown' = flight[i]
  /\ next' \in {0} \union (flight[i].cursor + 1 .. Depth)
  /\ Landed(i)
  /\ UNCHANGED error

(* An answer that is not ok, or none. *)
Fail(i) ==
  /\ shown' = Nothing
  /\ next' = 0
  /\ error' = TRUE
  /\ Landed(i)

Next ==
  \/ \E f \in Filters : SetFilter(f)
  \/ NextPage
  \/ PrevPage
  \/ Retry
  \/ Toggle
  \/ Reload
  \/ \E i \in DOMAIN flight : Answer(i)
  \/ \E i \in DOMAIN flight : Fail(i)

Spec == Init /\ [][Next]_vars

-----------------------------------------------------------------------------
(* Types; a page without rows has no next page. *)
TypeOK ==
  /\ filter \in Filters
  /\ cursor \in Cursors
  /\ stack \in Seq(Cursors)
  /\ flight \in Seq(Requests)
  /\ shown \in Requests \union {Nothing}
  /\ next \in Cursors
  /\ loading \in BOOLEAN /\ error \in BOOLEAN
  /\ selected \subseteq Requests
  /\ late \in BOOLEAN /\ hasty \in BOOLEAN
  /\ shown = Nothing => next = 0

(* When every fetch is answered, and the newest not before an older one,    *)
(* the page is not loading, and unless it reports an error its rows answer  *)
(* the filter and the cursor it has now, and Next leads deeper: across the  *)
(* two fetches of a reset, moves while loading, failures and refreshes.     *)
SettledShowsCurrent ==
  flight = << >> /\ ~late =>
    /\ ~loading
    /\ ~error => shown = Request(filter, cursor) /\ (next = 0 \/ next > cursor)

(* Prev leads back to the first page, whatever came between, and as long as *)
(* the user waits for answers no step of it leads forward or nowhere.       *)
PrevRetraces ==
  LET trail == Append(stack, cursor) IN
    /\ trail[1] = 0
    /\ ~hasty => \A i \in DOMAIN stack : trail[i] < trail[i + 1]

(* As long as the user waits for answers, what is selected is on the page. *)
SelectionOnPage == ~hasty => selected \subseteq {shown}
=============================================================================
