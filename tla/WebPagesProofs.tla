--------------------------- MODULE WebPagesProofs ---------------------------
(***************************************************************************)
(* Proofs about the web application: ListPage, for any filters, any depth  *)
(* of the list and any number of fetches in flight; and ActionPages, for   *)
(* any tabs, plans and numbers of presses.                                 *)
(*                                                                         *)
(* ListPage.  The newest request in flight is always the one the state     *)
(* asks for; as long as it is not answered before an older one, it is      *)
(* answered last, and that answer is what the page settles on.  A user who *)
(* waits leaves at most one request in flight once the page is past the    *)
(* first one, so next_cursor is then the current page's and deeper than    *)
(* its cursor.                                                             *)
(*                                                                         *)
(* ActionPages.  A page whose button is disabled waits for its last press  *)
(* only, and the log is loaded while it is: so the log that is shown was   *)
(* read after the last answer.  A transition of the server lands on the    *)
(* status it has read unless another one lands in between, which takes     *)
(* two tabs, or a press whose answer the page has given up.                *)
(***************************************************************************)
EXTENDS ListPage, ActionPages, SequenceTheorems, TLAPS

-----------------------------------------------------------------------------
(* ListPage: what holds in every state. *)

NewestIsCurrent ==
  flight # << >> /\ ~late => flight[Len(flight)] = Request(filter, cursor)

SettledDeeper ==
  flight = << >> =>
    /\ ~loading
    /\ ~late => next = 0 \/ next > cursor
    /\ ~late /\ ~error => shown = Request(filter, cursor)

StackFromFirst == IF stack = << >> THEN cursor = 0 ELSE stack[1] = 0

StackAscends ==
  ~hasty =>
    /\ \A i \in 1 .. Len(stack) - 1 : stack[i] < stack[i + 1]
    /\ stack # << >> => stack[Len(stack)] < cursor

(* Past the first page, a user who waits has one request in flight at most. *)
OneAtATime ==
  ~hasty /\ cursor # 0 =>
    ~late /\ (flight = << >> \/ (Len(flight) = 1 /\ loading))

SelectionFresh ==
  ~hasty => selected \subseteq {shown} /\ (flight # << >> => selected = {})

IInv ==
  /\ TypeOK
  /\ NewestIsCurrent
  /\ SettledDeeper
  /\ StackFromFirst
  /\ StackAscends
  /\ OneAtATime
  /\ SelectionFresh

-----------------------------------------------------------------------------
LEMMA FrontKeeps ==
  ASSUME NEW S, NEW s \in Seq(S), s # << >>
  PROVE  /\ Front(s) \in Seq(S)
         /\ Len(s) \in Nat \ {0} /\ Len(Front(s)) = Len(s) - 1
         /\ \A i \in 1 .. Len(s) - 1 : Front(s)[i] = s[i]
         /\ Last(s) = s[Len(s)] /\ Last(s) \in S
<1>1. Len(s) \in Nat \ {0}
  BY EmptySeq
<1>2. \A i \in 1 .. Len(s) : s[i] \in S
  BY ElementOfSeq
<1>. DEFINE n == Len(s) - 1
<1>3. n \in Nat /\ n <= Len(s) /\ \A i \in 1 .. n : s[i] \in S
  BY <1>1, <1>2
<1>. HIDE DEF n
<1>4. /\ SubSeq(s, 1, n) \in Seq(S)
      /\ Len(SubSeq(s, 1, n)) = IF 1 <= n THEN n - 1 + 1 ELSE 0
      /\ \A i \in 1 .. n - 1 + 1 : SubSeq(s, 1, n)[i] = s[1 + i - 1]
  BY <1>3, SubSeqProperties
<1>5. ASSUME NEW i \in 1 .. n PROVE SubSeq(s, 1, n)[i] = s[i]
  <2>1. i \in 1 .. n - 1 + 1 /\ 1 + i - 1 = i
    BY <1>3
  <2>. QED
    BY <2>1, <1>4
<1>6. Len(SubSeq(s, 1, n)) = n
  BY <1>4, <1>3
<1>7. Front(s) = SubSeq(s, 1, n)
  BY DEF Front, n
<1>8. Last(s) = s[Len(s)] /\ Last(s) \in S
  BY <1>1, <1>2 DEF Last
<1>. QED
  BY <1>1, <1>4, <1>5, <1>6, <1>7, <1>8 DEF n

LEMMA ConcatKeeps ==
  ASSUME NEW S, NEW s \in Seq(S), NEW t \in Seq(S), t # << >>
  PROVE  /\ s \o t \in Seq(S)
         /\ Len(s \o t) = Len(s) + Len(t) /\ Len(s) \in Nat /\ Len(t) \in Nat \ {0}
         /\ s \o t # << >>
         /\ (s \o t)[Len(s \o t)] = t[Len(t)]
<1>1. Len(s) \in Nat /\ Len(t) \in Nat \ {0}
  BY EmptySeq, LenProperties
<1>. DEFINE st == s \o t
<1>2. /\ st \in Seq(S)
      /\ Len(st) = Len(s) + Len(t)
      /\ \A i \in 1 .. Len(s) + Len(t) :
           st[i] = IF i <= Len(s) THEN s[i] ELSE t[i - Len(s)]
  BY ConcatProperties
<1>. HIDE DEF st
<1>3. st # << >>
  BY <1>1, <1>2, EmptySeq
<1>4. st[Len(s) + Len(t)] = t[Len(t)]
  <2>. DEFINE i == Len(s) + Len(t)
  <2>1. i \in 1 .. Len(s) + Len(t) /\ ~(i <= Len(s)) /\ i - Len(s) = Len(t)
    BY <1>1
  <2>. QED
    BY <2>1, <1>2
<1>. QED
  BY <1>1, <1>2, <1>3, <1>4 DEF st

LEMMA RemoveKeeps ==
  ASSUME NEW S, NEW s \in Seq(S), NEW i \in 1 .. Len(s)
  PROVE  /\ RemoveAt(s, i) \in Seq(S)
         /\ Len(s) \in Nat /\ Len(RemoveAt(s, i)) = Len(s) - 1
         /\ i < Len(s) => RemoveAt(s, i)[Len(s) - 1] = s[Len(s)]
<1>1. Len(s) \in Nat /\ i \in Nat /\ 1 <= i /\ i <= Len(s)
  BY LenProperties
<1>. DEFINE n == Len(s)
            head == SubSeq(s, 1, i - 1)
            tail == SubSeq(s, i + 1, n)
<1>2. \A j \in 1 .. n : s[j] \in S
  BY ElementOfSeq
<1>3. n \in Nat /\ i \in 1 .. n
  BY <1>1
<1>4. head \in Seq(S) /\ Len(head) = i - 1
  <2>. HIDE DEF n
  <2>. DEFINE k == i - 1
  <2>1. k \in Nat /\ \A j \in 1 .. k : s[j] \in S
    BY <1>2, <1>3
  <2>. HIDE DEF k
  <2>2. /\ SubSeq(s, 1, k) \in Seq(S)
        /\ Len(SubSeq(s, 1, k)) = IF 1 <= k THEN k - 1 + 1 ELSE 0
    BY <2>1, SubSeqProperties
  <2>3. Len(SubSeq(s, 1, k)) = k
    BY <2>1, <2>2
  <2>. QED
    BY <2>2, <2>3 DEF k
<1>5. /\ tail \in Seq(S) /\ Len(tail) = n - i
      /\ i < n => tail[n - i] = s[n]
  <2>. HIDE DEF n
  <2>. DEFINE k == i + 1
              rest == SubSeq(s, k, n)
  <2>1. k \in Nat /\ \A j \in k .. n : s[j] \in S
    BY <1>2, <1>3
  <2>2. /\ rest \in Seq(S)
        /\ Len(rest) = IF k <= n THEN n - k + 1 ELSE 0
        /\ \A j \in 1 .. n - k + 1 : rest[j] = s[k + j - 1]
    <3>. HIDE DEF k
    <3>. QED
      BY <2>1, <1>3, SubSeqProperties
  <2>. HIDE DEF rest
  <2>3. Len(rest) = n - i
    BY <2>2, <1>3
  <2>4. ASSUME i < n PROVE rest[n - i] = s[n]
    <3>1. n - i \in 1 .. n - k + 1 /\ k + (n - i) - 1 = n
      BY <1>3, <2>4
    <3>2. rest[n - i] = s[k + (n - i) - 1]
      BY <3>1, <2>2
    <3>. QED
      BY <3>1, <3>2
  <2>. QED
    BY <2>2, <2>3, <2>4 DEF rest
<1>6. RemoveAt(s, i) = head \o tail
  BY DEF RemoveAt
<1>. HIDE DEF head, tail, n
<1>. DEFINE both == head \o tail
<1>7. /\ both \in Seq(S)
      /\ Len(both) = Len(head) + Len(tail)
      /\ \A j \in 1 .. Len(head) + Len(tail) :
           both[j] = IF j <= Len(head) THEN head[j] ELSE tail[j - Len(head)]
  BY <1>4, <1>5, ConcatProperties
<1>. HIDE DEF both
<1>8. Len(both) = n - 1
  BY <1>3, <1>4, <1>5, <1>7
<1>9. ASSUME i < n PROVE both[n - 1] = s[n]
  <2>1. /\ n - 1 \in 1 .. Len(head) + Len(tail)
        /\ ~(n - 1 <= Len(head)) /\ n - 1 - Len(head) = n - i
    BY <1>3, <1>4, <1>5, <1>9
  <2>2. both[n - 1] = tail[n - 1 - Len(head)]
    BY <2>1, <1>7
  <2>. QED
    BY <2>1, <2>2, <1>5, <1>9
<1>. QED
  BY <1>3, <1>6, <1>7, <1>8, <1>9 DEF both, n

LEMMA WantedKeeps ==
  ASSUME NEW f \in Filters, NEW c \in Cursors
  PROVE  /\ Wanted(f, c) \in Seq(Requests) /\ Wanted(f, c) # << >>
         /\ Wanted(f, c)[Len(Wanted(f, c))] = Request(f, 0)
<1>1. Request(f, 0) \in Requests /\ Request(f, c) \in Requests
  BY DepthAssumption DEF Request, Requests, Cursors
<1>. HIDE DEF Request
<1>2. CASE c = 0
  <2>1. Wanted(f, c) = <<Request(f, 0)>>
    BY <1>2 DEF Wanted
  <2>. QED
    BY <2>1, <1>1
<1>3. CASE c # 0
  <2>1. Wanted(f, c) = <<Request(f, c), Request(f, 0)>>
    BY <1>3 DEF Wanted
  <2>. QED
    BY <2>1, <1>1
<1>. QED
  BY <1>2, <1>3

(* What fetchList does to the requests in flight. *)
LEMMA FetchLaunches ==
  ASSUME TypeOK, NEW requests \in Seq(Requests), requests # << >>, Fetch(requests)
  PROVE  /\ flight' \in Seq(Requests) /\ flight' # << >>
         /\ flight'[Len(flight')] = requests[Len(requests)]
         /\ Len(flight) \in Nat /\ Len(flight') = Len(flight) + Len(requests)
<1>1. flight \in Seq(Requests) /\ flight' = flight \o requests
  BY DEF TypeOK, Fetch
<1>. QED
  BY <1>1, ConcatKeeps

(* A single request. *)
LEMMA OneRequest ==
  ASSUME NEW f \in Filters, NEW c \in Cursors
  PROVE  /\ <<Request(f, c)>> \in Seq(Requests) /\ <<Request(f, c)>> # << >>
         /\ Len(<<Request(f, c)>>) = 1
         /\ <<Request(f, c)>>[1] = Request(f, c)
<1>1. Request(f, c) \in Requests
  BY DEF Request, Requests
<1>. HIDE DEF Request
<1>. QED
  BY <1>1

(* The flight after each of the actions that fetch. *)
LEMMA FlightOfSetFilter ==
  ASSUME TypeOK, NEW f \in Filters, SetFilter(f)
  PROVE  /\ flight' \in Seq(Requests) /\ flight' # << >>
         /\ flight'[Len(flight')] = Request(filter', cursor')
<1>1. cursor \in Cursors /\ filter' = f /\ cursor' = 0 /\ Fetch(Wanted(f, cursor))
  BY DEF TypeOK, SetFilter
<1>. QED
  BY <1>1, WantedKeeps, FetchLaunches

LEMMA FlightOfReload ==
  ASSUME TypeOK, Reload
  PROVE  /\ flight' \in Seq(Requests) /\ flight' # << >>
         /\ flight'[Len(flight')] = Request(filter', cursor')
<1>1. /\ cursor \in Cursors /\ filter \in Filters
      /\ filter' = filter /\ cursor' = 0 /\ flight' = Wanted(filter, cursor)
  BY DEF TypeOK, Reload
<1>. QED
  BY <1>1, WantedKeeps

LEMMA FlightOfRetry ==
  ASSUME TypeOK, Retry
  PROVE  /\ flight' \in Seq(Requests) /\ flight' # << >>
         /\ flight'[Len(flight')] = Request(filter', cursor')
         /\ Len(flight) \in Nat /\ Len(flight') = Len(flight) + 1
<1>1. /\ cursor \in Cursors /\ filter \in Filters
      /\ filter' = filter /\ cursor' = cursor /\ Fetch(<<Request(filter, cursor)>>)
  BY DEF TypeOK, Retry
<1>. QED
  BY <1>1, OneRequest, FetchLaunches

LEMMA FlightOfMove ==
  ASSUME TypeOK, NEW c \in Cursors, MoveTo(c), c # cursor
  PROVE  /\ flight' \in Seq(Requests) /\ flight' # << >>
         /\ flight'[Len(flight')] = Request(filter', cursor')
         /\ Len(flight) \in Nat /\ Len(flight') = Len(flight) + 1
         /\ loading' = TRUE /\ error' = FALSE /\ selected' = {} /\ late' = FALSE
         /\ UNCHANGED <<shown, next>>
<1>1. /\ filter \in Filters
      /\ filter' = filter /\ cursor' = c /\ Fetch(<<Request(filter, c)>>)
  BY DEF TypeOK, MoveTo
<1>. QED
  BY <1>1, OneRequest, FetchLaunches DEF Fetch

(* Next and Prev move to a cursor. *)
LEMMA NextMoves ==
  ASSUME TypeOK, NextPage
  PROVE  next \in Cursors /\ MoveTo(next)
  BY DEF TypeOK, NextPage

LEMMA PrevMoves ==
  ASSUME TypeOK, PrevPage
  PROVE  Last(stack) \in Cursors /\ MoveTo(Last(stack))
<1>1. stack \in Seq(Cursors) /\ stack # << >> /\ MoveTo(Last(stack))
  BY DEF TypeOK, PrevPage
<1>. QED
  BY <1>1, FrontKeeps

(* An answer or a failure takes one request out of flight. *)
LEMMA FlightLanded ==
  ASSUME TypeOK, NEW i \in DOMAIN flight, Landed(i)
  PROVE  /\ i \in 1 .. Len(flight) /\ Len(flight) \in Nat
         /\ flight[i] \in Requests
         /\ flight' \in Seq(Requests) /\ Len(flight') = Len(flight) - 1
         /\ i < Len(flight) => flight'[Len(flight) - 1] = flight[Len(flight)]
         /\ flight' = << >> => i = 1 /\ i = Len(flight)
<1>1. flight \in Seq(Requests)
  BY DEF TypeOK
<1>2. i \in 1 .. Len(flight) /\ Len(flight) \in Nat
  BY <1>1, LenProperties
<1>3. flight' = RemoveAt(flight, i)
  BY DEF Landed
<1>4. flight[i] \in Requests
  BY <1>1, <1>2, ElementOfSeq
<1>5. flight' \in Seq(Requests) /\ Len(flight') = Len(flight) - 1
      /\ (i < Len(flight) => flight'[Len(flight) - 1] = flight[Len(flight)])
  BY <1>1, <1>2, <1>3, RemoveKeeps
<1>6. flight' = << >> => i = 1 /\ i = Len(flight)
  <2>1. SUFFICES ASSUME flight' = << >> PROVE i = 1 /\ i = Len(flight)
    OBVIOUS
  <2>2. Len(flight') = 0
    BY <2>1, EmptySeq
  <2>. QED
    BY <2>2, <1>2, <1>5
<1>. QED
  BY <1>2, <1>4, <1>5, <1>6

LEMMA StackTyped ==
  ASSUME TypeOK
  PROVE  /\ Len(stack) \in Nat /\ cursor \in Nat /\ next \in Nat /\ Depth \in Nat
         /\ \A i \in 1 .. Len(stack) : stack[i] \in Nat
         /\ stack = << >> <=> Len(stack) = 0
<1>1. stack \in Seq(Cursors) /\ cursor \in Nat /\ next \in Nat
  BY DepthAssumption DEF TypeOK, Cursors
<1>2. Len(stack) \in Nat /\ \A i \in 1 .. Len(stack) : stack[i] \in Cursors
  BY <1>1, LenProperties, ElementOfSeq
<1>3. stack = << >> <=> Len(stack) = 0
  BY <1>1, EmptySeq
<1>. QED
  BY <1>1, <1>2, <1>3, DepthAssumption DEF Cursors

-----------------------------------------------------------------------------
LEMMA InitInv == Init => IInv
<1>. SUFFICES ASSUME Init PROVE IInv
  OBVIOUS
<1>1. PICK c \in Cursors : flight = Wanted(filter, c)
  BY DEF Init
<1>2. filter \in Filters /\ cursor = 0 /\ stack = << >> /\ late = FALSE /\ hasty = FALSE
      /\ shown = Nothing /\ next = 0 /\ loading = TRUE /\ error = FALSE /\ selected = {}
  BY DEF Init
<1>3. flight \in Seq(Requests) /\ flight # << >>
      /\ flight[Len(flight)] = Request(filter, cursor)
  BY <1>1, <1>2, WantedKeeps
<1>4. TypeOK
  <2>1. late \in BOOLEAN /\ hasty \in BOOLEAN /\ loading \in BOOLEAN /\ error \in BOOLEAN
    BY <1>2
  <2>2. stack \in Seq(Cursors)
    BY <1>2
  <2>3. cursor \in Cursors /\ next \in Cursors
    BY <1>2, DepthAssumption DEF Cursors
  <2>. QED
    BY <1>2, <1>3, <2>1, <2>2, <2>3 DEF TypeOK
<1>5. NewestIsCurrent /\ SettledDeeper
  BY <1>3 DEF NewestIsCurrent, SettledDeeper
<1>6. StackFromFirst /\ StackAscends
  BY <1>2 DEF StackFromFirst, StackAscends
<1>7. OneAtATime /\ SelectionFresh
  BY <1>2 DEF OneAtATime, SelectionFresh
<1>. QED
  BY <1>4, <1>5, <1>6, <1>7 DEF IInv

LEMMA TypeStep == TypeOK /\ [Next]_vars => TypeOK'
<1>. SUFFICES ASSUME TypeOK, [Next]_vars PROVE TypeOK'
  OBVIOUS
<1>0. 0 \in Cursors
  BY DepthAssumption DEF Cursors
<1>1. ASSUME NEW f \in Filters, SetFilter(f) PROVE TypeOK'
  <2>1. /\ filter' = f /\ cursor' = 0 /\ stack' = << >> /\ hasty' = FALSE
        /\ loading' = TRUE /\ error' = FALSE /\ selected' = {} /\ late' = FALSE
        /\ UNCHANGED <<shown, next>>
    BY <1>1 DEF SetFilter, Fetch
  <2>2. late' \in BOOLEAN /\ hasty' \in BOOLEAN /\ loading' \in BOOLEAN /\ error' \in BOOLEAN
    BY <2>1
  <2>3. stack' \in Seq(Cursors) /\ flight' \in Seq(Requests)
    BY <1>1, <2>1, FlightOfSetFilter
  <2>. QED
    BY <1>0, <2>1, <2>2, <2>3 DEF TypeOK
<1>2. ASSUME NEW c \in Cursors, MoveTo(c), stack' \in Seq(Cursors) PROVE TypeOK'
  <2>1. (hasty \/ flight # << >>) \in BOOLEAN
    OBVIOUS
  <2>2. hasty' \in BOOLEAN
    BY <1>2, <2>1 DEF MoveTo
  <2>3. cursor' = c /\ filter' = filter
    BY <1>2 DEF MoveTo
  <2>4. CASE c # cursor
    BY <1>2, <2>2, <2>3, <2>4, FlightOfMove DEF TypeOK
  <2>5. CASE c = cursor
    BY <1>2, <2>2, <2>3, <2>5 DEF TypeOK, MoveTo
  <2>. QED
    BY <2>4, <2>5
<1>3. CASE NextPage
  <2>1. stack' = Append(stack, cursor) /\ stack \in Seq(Cursors) /\ cursor \in Cursors
    BY <1>3 DEF NextPage, TypeOK
  <2>2. stack' \in Seq(Cursors)
    BY <2>1
  <2>. QED
    BY <2>2, <1>2, <1>3, NextMoves
<1>4. CASE PrevPage
  <2>1. stack \in Seq(Cursors) /\ stack # << >> /\ stack' = Front(stack)
    BY <1>4 DEF PrevPage, TypeOK
  <2>2. stack' \in Seq(Cursors)
    BY <2>1, FrontKeeps
  <2>. QED
    BY <2>2, <1>2, <1>4, PrevMoves
<1>5. CASE Retry
  BY <1>5, FlightOfRetry DEF TypeOK, Retry, Fetch
<1>6. CASE Toggle
  <2>1. (hasty \/ flight # << >>) \in BOOLEAN
    OBVIOUS
  <2>2. hasty' \in BOOLEAN
    BY <1>6, <2>1 DEF Toggle
  <2>3. shown \in Requests /\ selected \subseteq Requests
    BY <1>6 DEF Toggle, TypeOK
  <2>4. selected' \subseteq Requests
    BY <1>6, <2>3 DEF Toggle
  <2>. QED
    BY <1>6, <2>2, <2>4 DEF Toggle, TypeOK
<1>7. CASE Reload
  <2>1. /\ filter' = filter /\ cursor' = 0 /\ stack' = << >> /\ hasty' = FALSE
        /\ loading' = TRUE /\ error' = FALSE /\ selected' = {} /\ late' = FALSE
        /\ shown' = Nothing /\ next' = 0
    BY <1>7 DEF Reload
  <2>2. late' \in BOOLEAN /\ hasty' \in BOOLEAN /\ loading' \in BOOLEAN /\ error' \in BOOLEAN
    BY <2>1
  <2>3. stack' \in Seq(Cursors) /\ flight' \in Seq(Requests)
    BY <1>7, <2>1, FlightOfReload
  <2>. QED
    BY <1>0, <2>1, <2>2, <2>3 DEF TypeOK
<1>8. ASSUME NEW i \in DOMAIN flight, Landed(i),
             shown' \in Requests \union {Nothing}, next' \in Cursors,
             error' \in BOOLEAN, shown' = Nothing => next' = 0
      PROVE  TypeOK'
  <2>1. (late \/ (i = Len(flight) /\ i > 1)) \in BOOLEAN
    OBVIOUS
  <2>2. late' \in BOOLEAN
    BY <1>8, <2>1 DEF Landed
  <2>3. flight' \in Seq(Requests)
    BY <1>8, FlightLanded
  <2>. QED
    BY <1>8, <2>2, <2>3 DEF TypeOK, Landed
<1>9. ASSUME NEW i \in DOMAIN flight, Answer(i) PROVE TypeOK'
  <2>1. Landed(i) /\ shown' = flight[i] /\ error' = error
        /\ next' \in {0} \union (flight[i].cursor + 1 .. Depth)
    BY <1>9 DEF Answer
  <2>2. flight[i] \in Requests
    BY <2>1, FlightLanded
  <2>3. flight[i].cursor \in Nat /\ flight[i].cursor # -1
    BY <2>2, DepthAssumption DEF Requests, Cursors
  <2>4. next' \in Cursors
    BY <2>1, <2>3, DepthAssumption DEF Cursors
  <2>5. shown' # Nothing
    BY <2>1, <2>2, <2>3 DEF Nothing
  <2>6. error' \in BOOLEAN
    BY <2>1 DEF TypeOK
  <2>. QED
    BY <1>8, <2>1, <2>2, <2>4, <2>5, <2>6
<1>10. ASSUME NEW i \in DOMAIN flight, Fail(i) PROVE TypeOK'
  BY <1>0, <1>8, <1>10 DEF Fail
<1>11. CASE UNCHANGED vars
  BY <1>11 DEF TypeOK, vars
<1>. QED
  BY <1>1, <1>3, <1>4, <1>5, <1>6, <1>7, <1>9, <1>10, <1>11 DEF Next

(* The newest request in flight is the current one. *)
LEMMA NewestStep == TypeOK /\ NewestIsCurrent /\ [Next]_vars => NewestIsCurrent'
<1>. SUFFICES ASSUME TypeOK, NewestIsCurrent, [Next]_vars PROVE NewestIsCurrent'
  OBVIOUS
<1>1. ASSUME NEW f \in Filters, SetFilter(f) PROVE NewestIsCurrent'
  BY <1>1, FlightOfSetFilter DEF NewestIsCurrent
<1>2. ASSUME NEW c \in Cursors, MoveTo(c) PROVE NewestIsCurrent'
  <2>1. CASE c # cursor
    BY <1>2, <2>1, FlightOfMove DEF NewestIsCurrent
  <2>2. CASE c = cursor
    BY <1>2, <2>2 DEF NewestIsCurrent, MoveTo
  <2>. QED
    BY <2>1, <2>2
<1>3. CASE NextPage \/ PrevPage
  BY <1>2, <1>3, NextMoves, PrevMoves
<1>4. CASE Retry \/ Reload
  BY <1>4, FlightOfRetry, FlightOfReload DEF NewestIsCurrent
<1>5. CASE Toggle \/ UNCHANGED vars
  BY <1>5 DEF NewestIsCurrent, Toggle, vars
<1>6. ASSUME NEW i \in DOMAIN flight, Landed(i) PROVE NewestIsCurrent'
  <2>1. SUFFICES ASSUME flight' # << >>, ~late'
                 PROVE  flight'[Len(flight')] = Request(filter', cursor')
    BY DEF NewestIsCurrent
  <2>2. /\ i \in 1 .. Len(flight) /\ Len(flight) \in Nat
        /\ flight' \in Seq(Requests) /\ Len(flight') = Len(flight) - 1
        /\ i < Len(flight) => flight'[Len(flight) - 1] = flight[Len(flight)]
    BY <1>6, FlightLanded
  <2>3. Len(flight') # 0
    BY <2>1, <2>2, EmptySeq
  <2>4. ~late /\ ~(i = Len(flight) /\ i > 1)
    BY <1>6, <2>1 DEF Landed
  <2>5. i < Len(flight)
    BY <2>2, <2>3, <2>4
  <2>6. flight # << >>
    BY <2>2, <2>5
  <2>. QED
    BY <1>6, <2>2, <2>4, <2>5, <2>6 DEF NewestIsCurrent, Landed
<1>. QED
  BY <1>1, <1>3, <1>4, <1>5, <1>6 DEF Next, Answer, Fail

(* Once nothing is in flight, what arrived last is what was asked last. *)
LEMMA SettledStep ==
  TypeOK /\ NewestIsCurrent /\ SettledDeeper /\ [Next]_vars => SettledDeeper'
<1>. SUFFICES ASSUME TypeOK, NewestIsCurrent, SettledDeeper, [Next]_vars
              PROVE  SettledDeeper'
  OBVIOUS
<1>1. ASSUME NEW f \in Filters, SetFilter(f) PROVE SettledDeeper'
  BY <1>1, FlightOfSetFilter DEF SettledDeeper
<1>2. ASSUME NEW c \in Cursors, MoveTo(c) PROVE SettledDeeper'
  <2>1. CASE c # cursor
    BY <1>2, <2>1, FlightOfMove DEF SettledDeeper
  <2>2. CASE c = cursor
    BY <1>2, <2>2 DEF SettledDeeper, MoveTo
  <2>. QED
    BY <2>1, <2>2
<1>3. CASE NextPage \/ PrevPage
  BY <1>2, <1>3, NextMoves, PrevMoves
<1>4. CASE Retry \/ Reload
  BY <1>4, FlightOfRetry, FlightOfReload DEF SettledDeeper
<1>5. CASE Toggle \/ UNCHANGED vars
  BY <1>5 DEF SettledDeeper, Toggle, vars
<1>6. ASSUME NEW i \in DOMAIN flight, Landed(i), flight' = << >>
      PROVE  /\ loading' = FALSE
             /\ ~late' => flight[i] = Request(filter', cursor') /\ cursor' = cursor
             /\ flight[i] \in Requests
  <2>1. i = 1 /\ i = Len(flight) /\ flight[i] \in Requests
    BY <1>6, FlightLanded
  <2>2. flight # << >>
    BY <2>1
  <2>. QED
    BY <1>6, <2>1, <2>2 DEF NewestIsCurrent, Landed
<1>7. ASSUME NEW i \in DOMAIN flight, Answer(i) PROVE SettledDeeper'
  <2>1. SUFFICES ASSUME flight' = << >>
                 PROVE  /\ ~loading'
                        /\ ~late' => next' = 0 \/ next' > cursor'
                        /\ ~late' /\ ~error' => shown' = Request(filter', cursor')
    BY DEF SettledDeeper
  <2>2. /\ loading' = FALSE
        /\ ~late' => flight[i] = Request(filter', cursor') /\ cursor' = cursor
        /\ flight[i] \in Requests
    BY <1>6, <1>7, <2>1 DEF Answer
  <2>3. shown' = flight[i] /\ next' \in {0} \union (flight[i].cursor + 1 .. Depth)
    BY <1>7 DEF Answer
  <2>4. flight[i].cursor \in Nat
    BY <2>2, DepthAssumption DEF Requests, Cursors
  <2>5. ASSUME ~late' PROVE next' = 0 \/ next' > cursor'
    <3>1. flight[i].cursor = cursor'
      BY <2>2, <2>5 DEF Request
    <3>. QED
      BY <3>1, <2>3, <2>4, DepthAssumption
  <2>. QED
    BY <2>2, <2>3, <2>5
<1>8. ASSUME NEW i \in DOMAIN flight, Fail(i) PROVE SettledDeeper'
  BY <1>6, <1>8 DEF SettledDeeper, Fail
<1>. QED
  BY <1>1, <1>3, <1>4, <1>5, <1>7, <1>8 DEF Next

(* Answers leave the cursors and the selection alone. *)
LEMMA LandedKeeps ==
  ASSUME NEW i \in DOMAIN flight, Answer(i) \/ Fail(i)
  PROVE  Landed(i) /\ UNCHANGED <<filter, cursor, stack, selected, hasty>>
  BY DEF Answer, Fail, Landed

LEMMA FirstStep == TypeOK /\ StackFromFirst /\ [Next]_vars => StackFromFirst'
<1>. SUFFICES ASSUME TypeOK, StackFromFirst, [Next]_vars PROVE StackFromFirst'
  OBVIOUS
<1>1. CASE (\E f \in Filters : SetFilter(f)) \/ Reload
  BY <1>1 DEF StackFromFirst, SetFilter, Reload
<1>2. CASE NextPage
  <2>1. /\ stack \in Seq(Cursors) /\ cursor \in Cursors
        /\ stack' = Append(stack, cursor) /\ cursor' = next
    BY <1>2 DEF NextPage, MoveTo, TypeOK
  <2>2. stack' # << >> /\ stack'[1] = IF stack = << >> THEN cursor ELSE stack[1]
    BY <2>1
  <2>. QED
    BY <2>2 DEF StackFromFirst
<1>3. CASE PrevPage
  <2>1. /\ stack \in Seq(Cursors) /\ stack # << >>
        /\ stack' = Front(stack) /\ cursor' = Last(stack)
    BY <1>3 DEF PrevPage, MoveTo, TypeOK
  <2>2. /\ stack' \in Seq(Cursors)
        /\ Len(stack) \in Nat \ {0} /\ Len(stack') = Len(stack) - 1
        /\ \A i \in 1 .. Len(stack) - 1 : stack'[i] = stack[i]
        /\ cursor' = stack[Len(stack)]
    BY <2>1, FrontKeeps
  <2>3. CASE Len(stack) = 1
    <3>1. stack' = << >>
      BY <2>2, <2>3, EmptySeq
    <3>. QED
      BY <3>1, <2>1, <2>2, <2>3 DEF StackFromFirst
  <2>4. CASE Len(stack) # 1
    <3>1. stack' # << >> /\ 1 \in 1 .. Len(stack) - 1
      BY <2>2, <2>4, EmptySeq
    <3>. QED
      BY <3>1, <2>1, <2>2 DEF StackFromFirst
  <2>. QED
    BY <2>3, <2>4
<1>4. CASE Retry \/ Toggle \/ UNCHANGED vars
  BY <1>4 DEF StackFromFirst, Retry, Toggle, vars
<1>5. ASSUME NEW i \in DOMAIN flight, Answer(i) \/ Fail(i) PROVE StackFromFirst'
  BY <1>5, LandedKeeps DEF StackFromFirst
<1>. QED
  BY <1>1, <1>2, <1>3, <1>4, <1>5 DEF Next

(* A move of a user who waits. *)
LEMMA PatientMove ==
  ASSUME NEW c, MoveTo(c), ~hasty'
  PROVE  ~hasty /\ flight = << >> /\ cursor' = c
  BY DEF MoveTo

LEMMA OneStep == TypeOK /\ OneAtATime /\ [Next]_vars => OneAtATime'
<1>. SUFFICES ASSUME TypeOK, OneAtATime, [Next]_vars PROVE OneAtATime'
  OBVIOUS
<1>1. CASE (\E f \in Filters : SetFilter(f)) \/ Reload
  BY <1>1 DEF OneAtATime, SetFilter, Reload
<1>2. ASSUME NEW c \in Cursors, MoveTo(c) PROVE OneAtATime'
  <2>1. SUFFICES ASSUME ~hasty', cursor' # 0
                 PROVE  ~late' /\ (flight' = << >> \/ (Len(flight') = 1 /\ loading'))
    BY DEF OneAtATime
  <2>2. ~hasty /\ flight = << >> /\ cursor' = c
    BY <1>2, <2>1, PatientMove
  <2>3. CASE c # cursor
    <3>1. Len(flight) = 0
      BY <2>2
    <3>2. /\ Len(flight') = Len(flight) + 1
          /\ loading' = TRUE /\ late' = FALSE
      BY <1>2, <2>3, FlightOfMove
    <3>. QED
      BY <3>1, <3>2
  <2>4. CASE c = cursor
    <3>1. UNCHANGED <<flight, loading, late>>
      BY <1>2, <2>4 DEF MoveTo
    <3>. QED
      BY <3>1, <2>1, <2>2, <2>4 DEF OneAtATime
  <2>. QED
    BY <2>3, <2>4
<1>3. CASE NextPage \/ PrevPage
  BY <1>2, <1>3, NextMoves, PrevMoves
<1>4. CASE Retry
  <2>1. SUFFICES ASSUME ~hasty', cursor' # 0
                 PROVE  ~late' /\ Len(flight') = 1 /\ loading'
    BY DEF OneAtATime
  <2>2. ~hasty /\ cursor # 0 /\ ~loading /\ loading' = TRUE /\ late' = FALSE
    BY <1>4, <2>1 DEF Retry, Fetch
  <2>3. flight = << >>
    BY <2>2 DEF OneAtATime
  <2>4. Len(flight) = 0
    BY <2>3
  <2>. QED
    BY <1>4, <2>2, <2>4, FlightOfRetry
<1>5. CASE Toggle
  <2>1. ~hasty' => ~hasty
    BY <1>5 DEF Toggle
  <2>. QED
    BY <1>5, <2>1 DEF OneAtATime, Toggle
<1>6. CASE UNCHANGED vars
  BY <1>6 DEF OneAtATime, vars
<1>7. ASSUME NEW i \in DOMAIN flight, Answer(i) \/ Fail(i) PROVE OneAtATime'
  <2>1. SUFFICES ASSUME ~hasty', cursor' # 0 PROVE ~late' /\ flight' = << >>
    BY DEF OneAtATime
  <2>2. Landed(i) /\ ~hasty /\ cursor # 0
    BY <1>7, <2>1, LandedKeeps
  <2>3. /\ i \in 1 .. Len(flight) /\ Len(flight) \in Nat
        /\ flight' \in Seq(Requests) /\ Len(flight') = Len(flight) - 1
    BY <2>2, FlightLanded
  <2>4. flight # << >>
    BY <2>3
  <2>5. ~late /\ Len(flight) = 1
    BY <2>2, <2>4 DEF OneAtATime
  <2>6. ~(i = Len(flight) /\ i > 1)
    BY <2>5
  <2>7. ~late'
    BY <2>2, <2>5, <2>6 DEF Landed
  <2>8. flight' = << >>
    BY <2>3, <2>5, EmptySeq
  <2>. QED
    BY <2>7, <2>8
<1>. QED
  BY <1>1, <1>3, <1>4, <1>5, <1>6, <1>7 DEF Next

LEMMA AscendsStep ==
  TypeOK /\ SettledDeeper /\ OneAtATime /\ StackAscends /\ [Next]_vars => StackAscends'
<1>. SUFFICES ASSUME TypeOK, SettledDeeper, OneAtATime, StackAscends, [Next]_vars
              PROVE  StackAscends'
  OBVIOUS
<1>1. CASE (\E f \in Filters : SetFilter(f)) \/ Reload
  BY <1>1 DEF StackAscends, SetFilter, Reload
<1>2. CASE NextPage
  <2>1. SUFFICES ASSUME ~hasty'
                 PROVE  /\ \A i \in 1 .. Len(stack') - 1 : stack'[i] < stack'[i + 1]
                        /\ stack' # << >> => stack'[Len(stack')] < cursor'
    BY DEF StackAscends
  <2>2. ~hasty /\ flight = << >> /\ cursor' = next /\ next # 0
    BY <1>2, <2>1, NextMoves, PatientMove DEF NextPage
  <2>3. next > cursor
    BY <2>2, StackTyped DEF OneAtATime, SettledDeeper
  <2>4. /\ stack \in Seq(Cursors) /\ cursor \in Cursors
        /\ stack' = Append(stack, cursor)
    BY <1>2 DEF NextPage, TypeOK
  <2>5. /\ Len(stack') = Len(stack) + 1
        /\ stack'[Len(stack) + 1] = cursor
        /\ \A i \in 1 .. Len(stack) : stack'[i] = stack[i]
    BY <2>4
  <2>6. ASSUME NEW i \in 1 .. Len(stack') - 1 PROVE stack'[i] < stack'[i + 1]
    <3>1. Len(stack) \in Nat /\ i \in 1 .. Len(stack) /\ (stack = << >> <=> Len(stack) = 0)
      BY <2>5, StackTyped
    <3>2. CASE i = Len(stack)
      BY <3>1, <3>2, <2>2, <2>5 DEF StackAscends
    <3>3. CASE i # Len(stack)
      <4>1. i \in 1 .. Len(stack) - 1 /\ i + 1 \in 1 .. Len(stack)
        BY <3>1, <3>3
      <4>. QED
        BY <4>1, <3>1, <2>2, <2>5 DEF StackAscends
    <3>. QED
      BY <3>2, <3>3
  <2>. QED
    BY <2>2, <2>3, <2>5, <2>6, StackTyped
<1>3. CASE PrevPage
  <2>1. SUFFICES ASSUME ~hasty'
                 PROVE  /\ \A i \in 1 .. Len(stack') - 1 : stack'[i] < stack'[i + 1]
                        /\ stack' # << >> => stack'[Len(stack')] < cursor'
    BY DEF StackAscends
  <2>2. ~hasty /\ cursor' = Last(stack)
    BY <1>3, <2>1, PrevMoves, PatientMove
  <2>3. stack \in Seq(Cursors) /\ stack # << >> /\ stack' = Front(stack)
    BY <1>3 DEF PrevPage, TypeOK
  <2>4. /\ stack' \in Seq(Cursors)
        /\ Len(stack) \in Nat \ {0} /\ Len(stack') = Len(stack) - 1
        /\ \A i \in 1 .. Len(stack) - 1 : stack'[i] = stack[i]
        /\ cursor' = stack[Len(stack)]
    BY <2>2, <2>3, FrontKeeps
  <2>5. \A i \in 1 .. Len(stack) - 1 : stack[i] < stack[i + 1]
    BY <2>2 DEF StackAscends
  <2>6. ASSUME NEW i \in 1 .. Len(stack') - 1 PROVE stack'[i] < stack'[i + 1]
    <3>1. i \in 1 .. Len(stack) - 1 /\ i + 1 \in 1 .. Len(stack) - 1
      BY <2>4
    <3>. QED
      BY <3>1, <2>4, <2>5
  <2>7. ASSUME stack' # << >> PROVE stack'[Len(stack')] < cursor'
    <3>1. Len(stack') # 0
      BY <2>4, <2>7, EmptySeq
    <3>2. Len(stack) - 1 \in 1 .. Len(stack) - 1 /\ (Len(stack) - 1) + 1 = Len(stack)
      BY <3>1, <2>4
    <3>. QED
      BY <3>2, <2>4, <2>5
  <2>. QED
    BY <2>6, <2>7
<1>4. CASE Toggle
  <2>1. ~hasty' => ~hasty
    BY <1>4 DEF Toggle
  <2>. QED
    BY <1>4, <2>1 DEF StackAscends, Toggle
<1>5. CASE Retry \/ UNCHANGED vars
  BY <1>5 DEF StackAscends, Retry, vars
<1>6. ASSUME NEW i \in DOMAIN flight, Answer(i) \/ Fail(i) PROVE StackAscends'
  BY <1>6, LandedKeeps DEF StackAscends
<1>. QED
  BY <1>1, <1>2, <1>3, <1>4, <1>5, <1>6 DEF Next

LEMMA SelectionStep == TypeOK /\ SelectionFresh /\ [Next]_vars => SelectionFresh'
<1>. SUFFICES ASSUME TypeOK, SelectionFresh, [Next]_vars PROVE SelectionFresh'
  OBVIOUS
<1>1. CASE (\E f \in Filters : SetFilter(f)) \/ Reload \/ Retry
  BY <1>1 DEF SelectionFresh, SetFilter, Reload, Retry, Fetch
<1>2. ASSUME NEW c \in Cursors, MoveTo(c) PROVE SelectionFresh'
  <2>1. CASE c # cursor
    BY <1>2, <2>1, FlightOfMove DEF SelectionFresh
  <2>2. CASE c = cursor
    <3>1. ~hasty' => ~hasty
      BY <1>2, PatientMove
    <3>2. UNCHANGED <<flight, shown, selected>>
      BY <1>2, <2>2 DEF MoveTo
    <3>. QED
      BY <3>1, <3>2 DEF SelectionFresh
  <2>. QED
    BY <2>1, <2>2
<1>3. CASE NextPage \/ PrevPage
  BY <1>2, <1>3, NextMoves, PrevMoves
<1>4. CASE Toggle
  <2>1. ~hasty' => ~hasty /\ flight = << >>
    BY <1>4 DEF Toggle
  <2>2. UNCHANGED <<flight, shown>>
    BY <1>4 DEF Toggle
  <2>3. selected \subseteq {shown} => selected' \subseteq {shown}
    BY <1>4 DEF Toggle
  <2>. QED
    BY <2>1, <2>2, <2>3 DEF SelectionFresh
<1>5. CASE UNCHANGED vars
  BY <1>5 DEF SelectionFresh, vars
<1>6. ASSUME NEW i \in DOMAIN flight, Answer(i) \/ Fail(i) PROVE SelectionFresh'
  <2>1. Landed(i) /\ UNCHANGED <<selected, hasty>>
    BY <1>6, LandedKeeps
  <2>2. flight # << >>
    BY <2>1, FlightLanded
  <2>. QED
    BY <2>1, <2>2 DEF SelectionFresh
<1>. QED
  BY <1>1, <1>2, <1>3, <1>4, <1>5, <1>6 DEF Next

LEMMA StepInv == IInv /\ [Next]_vars => IInv'
  BY TypeStep, NewestStep, SettledStep, FirstStep, OneStep, AscendsStep, SelectionStep
     DEF IInv

LEMMA AlwaysInv == Spec => []IInv
  BY InitInv, StepInv, PTL DEF Spec

-----------------------------------------------------------------------------
(* The variables of a list page keep their types, and rows and next_cursor *)
(* are cleared together.                                                   *)
THEOREM TypeCorrect == Spec => []TypeOK
<1>1. IInv => TypeOK
  BY DEF IInv
<1>. QED
  BY <1>1, AlwaysInv, PTL

(* Whatever the user does and in whatever order answers and failures come, *)
(* a page whose newest fetch was not answered before an older one settles  *)
(* on the rows of its filter and cursor.                                   *)
THEOREM SettlesOnCurrent == Spec => []SettledShowsCurrent
<1>1. IInv => SettledShowsCurrent
  BY DEF IInv, SettledDeeper, SettledShowsCurrent
<1>. QED
  BY <1>1, AlwaysInv, PTL

(* Prev always leads back to the first page, and for a user who waits it   *)
(* retraces the pages, one by one.                                         *)
THEOREM PrevAlwaysRetraces == Spec => []PrevRetraces
<1>1. IInv => PrevRetraces
  <2>1. SUFFICES ASSUME IInv PROVE PrevRetraces
    OBVIOUS
  <2>. DEFINE walk == Append(stack, cursor)
              n == Len(stack)
  <2>2. stack \in Seq(Cursors) /\ cursor \in Cursors /\ n \in Nat
    BY <2>1, LenProperties DEF IInv, TypeOK
  <2>3. /\ \A i \in 1 .. n : walk[i] = stack[i]
        /\ walk[n + 1] = cursor
        /\ DOMAIN stack = 1 .. n
        /\ stack = << >> <=> n = 0
    BY <2>2
  <2>. HIDE DEF walk
  <2>4. walk[1] = 0
    BY <2>1, <2>2, <2>3 DEF IInv, StackFromFirst
  <2>5. ASSUME ~hasty, NEW i \in 1 .. n PROVE walk[i] < walk[i + 1]
    <3>1. StackAscends /\ stack # << >>
      BY <2>1, <2>2, <2>3, <2>5 DEF IInv
    <3>2. CASE i = n
      BY <3>1, <3>2, <2>3, <2>5 DEF StackAscends
    <3>3. CASE i # n
      <4>1. i \in 1 .. n - 1 /\ i + 1 \in 1 .. n
        BY <3>3, <2>2, <2>5
      <4>. QED
        BY <4>1, <3>1, <2>3, <2>5 DEF StackAscends
    <3>. QED
      BY <3>2, <3>3
  <2>. QED
    BY <2>3, <2>4, <2>5 DEF PrevRetraces, walk
<1>. QED
  BY <1>1, AlwaysInv, PTL

(* For a user who waits, selected rows are rows of the page. *)
THEOREM SelectionAlwaysOnPage == Spec => []SelectionOnPage
<1>1. IInv => SelectionOnPage
  BY DEF IInv, SelectionFresh, SelectionOnPage
<1>. QED
  BY <1>1, AlwaysInv, PTL

-----------------------------------------------------------------------------
(* ActionPages: what holds in every state. *)

(* What a page can know of the log, and a request's answer. *)
LogStatuses == {"none", "draft", "submitted", "approved", "rejected"}
LogValues   == [status : LogStatuses, version : Nat]
Gets        == [at : {"none", "sent", "read"}, log : LogValues]
Replies     == [code : {"none", "ok", "failed", "conflict"}, asOf : Nat]

(* The variables keep their types. *)
PagesTyped ==
  /\ state \in [Plans -> LogStatuses \ {"none"}]
  /\ trail \in [Plans -> SUBSET PlanActions]
  /\ open \in Openings
  /\ version \in [Plans -> Nat]
  /\ stored \in SUBSET Presses
  /\ at \in [Presses -> {"unsent", "sent", "read", "replied"}]
  /\ asked \in [Presses -> PlanActions \cup {"none", "create"}]
  /\ read \in [Presses -> LogStatuses]
  /\ reply \in [Presses -> Replies]
  /\ visits \in [Tabs -> Nat]
  /\ presses \in [Tabs -> Nat]
  /\ status \in [Tabs -> {"closed", "idle", "submitting", "done", "error"}]
  /\ awaited \in [Tabs -> SUBSET Presses]
  /\ row \in [Tabs -> Nat]
  /\ log \in [Tabs -> LogValues]
  /\ loadError \in [Tabs -> BOOLEAN]
  /\ get \in [Tabs -> Gets]
  /\ heard \in [Tabs -> Nat]
  /\ raced \in BOOLEAN
  /\ cut \in BOOLEAN

(* The server knows the presses of open tabs, up to the last one; a          *)
(* transition it has read was allowed by what it read.                       *)
PressServed(x) ==
  /\ at[x] # "unsent" => x[1] \in open /\ x[2] <= presses[x[1]]
  /\ at[x] = "read" => Approval(x[1]) /\ Edge(read[x], asked[x])
PressesServed == \A x \in Presses : PressServed(x)

(* Answers are true: a row that is told of is stored, and no answer is about *)
(* a version that is still to come.                                          *)
PressAnswered(x) ==
  /\ ~Approval(x[1]) /\ reply[x].code = "ok" => x \in stored
  /\ reply[x].asOf <= version[PlanOf[x[1]]]
PressesAnswered == \A x \in Presses : PressAnswered(x)

(* A page with a disabled button waits for its last press only, and only an  *)
(* approval page has a log.                                                  *)
TabWaits(t) ==
  /\ \A x \in awaited[t] : x[1] = t
  /\ KindOf[t] # "intake" =>
       awaited[t] = {} \/ (status[t] = "submitting" /\ awaited[t] = {LastPress(t)})
  /\ Approval(t) => status[t] \in {"closed", "idle", "submitting"} /\ row[t] = 0
  /\ ~Approval(t) => get[t].at = "none" /\ log[t] = NoLog
TabsWait == \A t \in Tabs : TabWaits(t)

(* The log is loaded with all buttons disabled: there is none yet, or a      *)
(* transition was answered.                                                  *)
TabLoads(t) ==
  get[t].at # "none" => awaited[t] = {} /\ (status[t] = "submitting" \/ log[t] = NoLog)
TabsLoad == \A t \in Tabs : TabLoads(t)

(* What a page was told of the plan is in the log it reads after that, and   *)
(* in the one it shows from then on.                                         *)
TabInformed(t) ==
  /\ heard[t] <= version[PlanOf[t]]
  /\ get[t].at = "read" => heard[t] <= get[t].log.version
  /\ get[t].at = "none" /\ log[t] # NoLog /\ ~loadError[t] => heard[t] <= log[t].version
TabsInformed == \A t \in Tabs : TabInformed(t)

(* A terminal status that a page shows, or is about to show, is the plan's.  *)
TabNotified(t) ==
  ~raced =>
    \A l \in {log[t], get[t].log} :
      l.status \in {"approved", "rejected"} => state[PlanOf[t]] = l.status
TabsNotified == \A t \in Tabs : TabNotified(t)

(* Rows and presses. *)
TabRow(t) ==
  /\ row[t] # 0 => <<t, row[t]>> \in stored
  /\ KindOf[t] \in {"create", "repo"} =>
       /\ row[t] \in {0, presses[t]}
       /\ status[t] = "done" <=> row[t] # 0
TabsRow == \A t \in Tabs : TabRow(t)

(* While one tab decides and no POST was given up, what the server works on  *)
(* is awaited, a transition lands on the status it has read, and the trail   *)
(* of a plan is what its state says.                                         *)
PressAlone(x) ==
  Underway(x) =>
    x \in awaited[x[1]] /\ (at[x] = "read" => read[x] = state[PlanOf[x[1]]])
PlanAlone(p) ==
  /\ state[p] = "draft" => trail[p] = {}
  /\ state[p] = "submitted" => trail[p] = {"submit"}
InTurn ==
  ~cut /\ Alone => (\A x \in Presses : PressAlone(x)) /\ (\A p \in Plans : PlanAlone(p))

PagesInv ==
  /\ PagesTyped
  /\ PressesServed
  /\ PressesAnswered
  /\ TabsWait
  /\ TabsLoad
  /\ TabsInformed
  /\ TabsNotified
  /\ TabsRow
  /\ InTurn

-----------------------------------------------------------------------------
(* A press is of a tab, and one of those that it may do. *)
LEMMA PressIs ==
  ASSUME NEW x \in Presses
  PROVE  x[1] \in Tabs /\ x[2] \in 1..MaxPresses[x[1]] /\ x = <<x[1], x[2]>>
BY DEF Presses

LEMMA PressOf ==
  ASSUME NEW t \in Tabs, NEW n \in 1..MaxPresses[t]
  PROVE  <<t, n>> \in Presses /\ <<t, n>>[1] = t /\ <<t, n>>[2] = n
BY DEF Presses

(* The steps of a page by itself, and those on account of a press. *)
PageStep(t) ==
  \/ Load(t) \/ PressCreate(t) \/ PressIntake(t)
  \/ \E action \in PlanActions : PressTransition(t, action)
  \/ ReadLog(t) \/ ShowLog(t) \/ LoadFails(t)
PressStep(x) ==
  \/ ReadStatus(x) \/ LandTransition(x) \/ Store(x) \/ Refuse(x)
  \/ HearTransition(x) \/ HearRow(x) \/ HearError(x) \/ Lose(x)

LEMMA StepIs ==
  ASSUME PagesTyped, PagesNext
  PROVE  \/ \E t \in Tabs : t \in open /\ PageStep(t)
         \/ \E x \in Presses : x[1] \in open /\ PressStep(x)
<1>. open \subseteq Tabs
  BY OpeningsAssumption DEF PagesTyped
<1>1. PICK t \in open : PageStep(t) \/ \E n \in 1..MaxPresses[t] : PressStep(<<t, n>>)
  BY DEF PagesNext, Progress, Refresh, Serve, Deliver, PageStep, PressStep
<1>. QED
  BY <1>1, PressOf

(* A press that is sent is a new one. *)
LEMMA NewPress ==
  ASSUME PagesTyped, NEW t \in Tabs, NEW action, Send(t, action)
  PROVE  /\ <<t, presses[t] + 1>> \in Presses
         /\ PressesServed => at[<<t, presses[t] + 1>>] = "unsent"
<1>1. presses[t] + 1 \in 1..MaxPresses[t]
  <2>1. presses[t] < MaxPresses[t]
    BY DEF Send
  <2>. QED
    BY <2>1, PressesAssumption DEF PagesTyped
<1>2. <<t, presses[t] + 1>> \in Presses
  BY <1>1, PressOf
<1>3. PressesServed => at[<<t, presses[t] + 1>>] = "unsent"
  BY <1>1, <1>2, PressOf DEF PagesTyped, PressesServed, PressServed
<1>. QED
  BY <1>2, <1>3

-----------------------------------------------------------------------------
(* Nothing is open, pressed or answered yet. *)
LEMMA InitTyped == PagesInit => PagesTyped
<1>1. PagesInit => raced \in BOOLEAN /\ cut \in BOOLEAN
  BY DEF PagesInit
<1>2. PagesInit => loadError \in [Tabs -> BOOLEAN]
  BY DEF PagesInit
<1>. QED
  BY <1>1, <1>2 DEF PagesInit, PagesTyped, LogValues, LogStatuses, Gets, Replies,
           NoLog, NoReply, GetAt

LEMMA InitPagesInv == PagesInit => PagesInv
<1>. SUFFICES ASSUME PagesInit PROVE PagesInv
  OBVIOUS
<1>. USE DEF PagesInit, NoLog, NoReply, GetAt
<1>1. PressesServed
  BY DEF PressesServed, PressServed
<1>2. PressesAnswered
  BY PressIs, KindAssumption DEF PressesAnswered, PressAnswered
<1>3. TabsWait /\ TabsLoad
  BY DEF TabsWait, TabWaits, TabsLoad, TabLoads
<1>4. TabsInformed /\ TabsNotified
  BY KindAssumption DEF TabsInformed, TabInformed, TabsNotified, TabNotified
<1>5. TabsRow
  BY DEF TabsRow, TabRow
<1>6. InTurn
  BY DEF InTurn, PressAlone, PlanAlone, Underway
<1>. QED
  BY <1>1, <1>2, <1>3, <1>4, <1>5, <1>6, InitTyped DEF PagesInv

-----------------------------------------------------------------------------
(* The steps of a page keep the types. *)
LEMMA PageTyped ==
  ASSUME PagesTyped, NEW t \in Tabs, PageStep(t)
  PROVE  PagesTyped'
<1>. USE DEF PagesTyped, LogValues, LogStatuses, Gets, Replies,
             plans, server, browser, page, logs, history
<1>1. ASSUME Load(t) PROVE PagesTyped'
  <2>1. loadError' \in [Tabs -> BOOLEAN]
    BY <1>1 DEF Load
  <2>2. cut' \in BOOLEAN /\ raced' \in BOOLEAN
    BY <1>1 DEF Load
  <2>3. NoLog \in LogValues /\ NoReply \in Replies
    BY DEF NoLog, NoReply
  <2>4. get' \in [Tabs -> Gets]
    BY <1>1, <2>3 DEF Load, GetAt
  <2>5. reply' \in [Presses -> Replies]
    BY <1>1, <2>3 DEF Load
  <2>6. log' \in [Tabs -> LogValues]
    BY <1>1, <2>3 DEF Load
  <2>. QED
    BY <1>1, <2>1, <2>2, <2>4, <2>5, <2>6 DEF Load
<1>2. ASSUME NEW action \in PlanActions \cup {"create"}, Send(t, action),
             row' \in [Tabs -> Nat]
      PROVE  PagesTyped'
  <2>1. loadError' \in [Tabs -> BOOLEAN]
    BY <1>2 DEF Send
  <2>2. cut' \in BOOLEAN /\ raced' \in BOOLEAN
    BY <1>2 DEF Send
  <2>. DEFINE x == <<t, presses[t] + 1>>
  <2>3. x \in Presses
    BY <1>2, NewPress
  <2>4. /\ presses' = [presses EXCEPT ![t] = @ + 1]
        /\ at' = [at EXCEPT ![x] = "sent"]
        /\ asked' = [asked EXCEPT ![x] = action]
        /\ status' = [status EXCEPT ![t] = "submitting"]
        /\ awaited' = [awaited EXCEPT ![t] = @ \cup {x}]
        /\ UNCHANGED <<plans, logs, history, open, stored, read, reply, visits>>
    BY <1>2 DEF Send
  <2>. HIDE DEF x
  <2>. QED
    BY <1>2, <2>1, <2>2, <2>3, <2>4
<1>3. ASSUME ReadLog(t) PROVE PagesTyped'
  <2>1. loadError' \in [Tabs -> BOOLEAN]
    BY <1>3 DEF ReadLog
  <2>2. cut' \in BOOLEAN /\ raced' \in BOOLEAN
    BY <1>3 DEF ReadLog
  <2>3. [status |-> state[PlanOf[t]], version |-> version[PlanOf[t]]] \in LogValues
    BY KindAssumption
  <2>4. get' \in [Tabs -> Gets]
    BY <1>3, <2>3 DEF ReadLog, GetAt
  <2>. QED
    BY <1>3, <2>1, <2>2, <2>4 DEF ReadLog
<1>4. ASSUME ShowLog(t) \/ LoadFails(t) PROVE PagesTyped'
  <2>1. loadError' \in [Tabs -> BOOLEAN]
    BY <1>4 DEF ShowLog, LoadFails, FinishRefresh
  <2>2. cut' \in BOOLEAN /\ raced' \in BOOLEAN
    BY <1>4 DEF ShowLog, LoadFails, FinishRefresh
  <2>3. NoLog \in LogValues
    BY DEF NoLog
  <2>4. get' \in [Tabs -> Gets]
    <3>1. get' = [get EXCEPT ![t] = [at |-> "none", log |-> NoLog]]
      BY <1>4 DEF ShowLog, LoadFails, FinishRefresh, GetAt
    <3>. QED
      BY <2>3, <3>1
  <2>5. log' \in [Tabs -> LogValues]
    BY <1>4, <2>3 DEF ShowLog, LoadFails
  <2>. QED
    BY <1>4, <2>1, <2>2, <2>4, <2>5 DEF ShowLog, LoadFails, FinishRefresh
<1>. QED
  <2>1. ASSUME PressCreate(t) \/ PressIntake(t) PROVE PagesTyped'
    <3>1. Send(t, "create") /\ row' \in [Tabs -> Nat]
      BY <2>1 DEF PressCreate, PressIntake
    <3>. QED
      BY <3>1, <1>2
  <2>2. ASSUME NEW action \in PlanActions, PressTransition(t, action) PROVE PagesTyped'
    BY <2>2, <1>2 DEF PressTransition
  <2>. QED
    BY <1>1, <1>3, <1>4, <2>1, <2>2 DEF PageStep

(* An answer, and its arrival, keep the types. *)
LEMMA ReplyTyped ==
  ASSUME PagesTyped, NEW x \in Presses, NEW c \in {"ok", "failed", "conflict"},
         NEW v \in Nat, Reply(x, c, v)
  PROVE  /\ at' \in [Presses -> {"unsent", "sent", "read", "replied"}]
         /\ read' \in [Presses -> LogStatuses]
         /\ reply' \in [Presses -> Replies]
<1>1. [code |-> c, asOf |-> v] \in Replies
  BY DEF Replies
<1>2. reply' \in [Presses -> Replies]
  BY <1>1 DEF PagesTyped, Reply
<1>. QED
  BY <1>2 DEF PagesTyped, Reply, LogStatuses

LEMMA HearTyped ==
  ASSUME PagesTyped, NEW x \in Presses, Hear(x)
  PROVE  awaited' \in [Tabs -> SUBSET Presses] /\ reply' \in [Presses -> Replies]
<1>1. NoReply \in Replies
  BY DEF NoReply, Replies
<1>. QED
  BY <1>1, PressIs DEF PagesTyped, Hear

(* The steps on account of a press keep the types. *)
LEMMA PressTyped ==
  ASSUME PagesTyped, PressesServed, NEW x \in Presses, PressStep(x)
  PROVE  PagesTyped'
<1>. USE PressIs DEF plans, server, browser, page, logs, history
<1>1. ASSUME ReadStatus(x) PROVE PagesTyped'
  <2>1. loadError' \in [Tabs -> BOOLEAN]
    BY <1>1 DEF ReadStatus, PagesTyped
  <2>2. cut' \in BOOLEAN /\ raced' \in BOOLEAN
    BY <1>1 DEF ReadStatus, PagesTyped
  <2>3. state[PlanOf[x[1]]] \in LogStatuses /\ version[PlanOf[x[1]]] \in Nat
    BY KindAssumption DEF PagesTyped
  <2>4. /\ at' \in [Presses -> {"unsent", "sent", "read", "replied"}]
        /\ read' \in [Presses -> LogStatuses]
        /\ reply' \in [Presses -> Replies]
    <3>1. CASE Edge(state[PlanOf[x[1]]], asked[x])
      BY <1>1, <2>3, <3>1 DEF ReadStatus, PagesTyped
    <3>2. CASE ~Edge(state[PlanOf[x[1]]], asked[x])
      BY <1>1, <2>3, <3>2, ReplyTyped DEF ReadStatus
    <3>. QED
      BY <3>1, <3>2
  <2>. QED
    BY <1>1, <2>1, <2>2, <2>4 DEF ReadStatus, PagesTyped
<1>2. ASSUME LandTransition(x) PROVE PagesTyped'
  <2>1. loadError' \in [Tabs -> BOOLEAN]
    BY <1>2 DEF LandTransition, PagesTyped
  <2>2. cut' \in BOOLEAN /\ raced' \in BOOLEAN
    BY <1>2 DEF LandTransition, PagesTyped
  <2>3. version[PlanOf[x[1]]] + 1 \in Nat
    BY KindAssumption DEF PagesTyped
  <2>4. /\ at' \in [Presses -> {"unsent", "sent", "read", "replied"}]
        /\ read' \in [Presses -> LogStatuses]
        /\ reply' \in [Presses -> Replies]
    BY <1>2, <2>3, ReplyTyped DEF LandTransition
  <2>5. asked[x] \in PlanActions
    BY <1>2 DEF LandTransition, PressesServed, PressServed, Edge, PlanActions
  <2>6. /\ state' \in [Plans -> LogStatuses \ {"none"}]
        /\ trail' \in [Plans -> SUBSET PlanActions]
        /\ version' \in [Plans -> Nat]
    BY <1>2, <2>3, <2>5
       DEF LandTransition, LateMove, Land, Target, PagesTyped, LogStatuses, PlanActions
  <2>. QED
    BY <1>2, <2>1, <2>2, <2>4, <2>6 DEF LandTransition, PagesTyped
<1>3. ASSUME Store(x) \/ Refuse(x) PROVE PagesTyped'
  <2>1. loadError' \in [Tabs -> BOOLEAN]
    BY <1>3 DEF Store, Refuse, PagesTyped
  <2>2. cut' \in BOOLEAN /\ raced' \in BOOLEAN
    BY <1>3 DEF Store, Refuse, PagesTyped
  <2>3. PICK c \in {"ok", "failed"} : Reply(x, c, 0)
    BY <1>3 DEF Store, Refuse
  <2>4. stored' \in SUBSET Presses
    BY <1>3 DEF Store, Refuse, PagesTyped
  <2>. QED
    BY <1>3, <2>1, <2>2, <2>3, <2>4, ReplyTyped DEF Store, Refuse, PagesTyped
<1>4. ASSUME HearTransition(x) PROVE PagesTyped'
  <2>1. loadError' \in [Tabs -> BOOLEAN]
    BY <1>4 DEF HearTransition, PagesTyped
  <2>2. cut' \in BOOLEAN /\ raced' \in BOOLEAN
    BY <1>4 DEF HearTransition, PagesTyped
  <2>3. get' \in [Tabs -> Gets]
    <3>1. GetAt("sent", NoLog) \in Gets
      BY DEF GetAt, NoLog, Gets, LogValues, LogStatuses
    <3>. QED
      BY <1>4, <3>1 DEF HearTransition, PagesTyped
  <2>4. heard' \in [Tabs -> Nat]
    BY <1>4 DEF HearTransition, PagesTyped, Replies
  <2>. QED
    BY <1>4, <2>1, <2>2, <2>3, <2>4, HearTyped DEF HearTransition, PagesTyped
<1>5. ASSUME HearRow(x) \/ HearError(x) \/ Lose(x) PROVE PagesTyped'
  <2>1. loadError' \in [Tabs -> BOOLEAN]
    BY <1>5 DEF HearRow, HearError, Lose, PagesTyped
  <2>2. cut' \in BOOLEAN /\ raced' \in BOOLEAN
    BY <1>5 DEF HearRow, HearError, Lose, PagesTyped
  <2>3. Hear(x)
    BY <1>5 DEF HearRow, HearError, Lose
  <2>4. row' \in [Tabs -> Nat]
    <3>1. x[2] \in Nat
      BY PressesAssumption
    <3>. QED
      BY <1>5, <3>1 DEF HearRow, HearError, Lose, PagesTyped
  <2>. QED
    BY <1>5, <2>1, <2>2, <2>3, <2>4, HearTyped DEF HearRow, HearError, Lose, PagesTyped
<1>. QED
  BY <1>1, <1>2, <1>3, <1>4, <1>5 DEF PressStep

(* The types are kept. *)
LEMMA TypedStep ==
  ASSUME PagesTyped, PressesServed, [PagesNext]_pagesVars
  PROVE  PagesTyped'
<1>1. CASE UNCHANGED pagesVars
  <2>1. raced' \in BOOLEAN /\ cut' \in BOOLEAN
    BY <1>1 DEF pagesVars, PagesTyped
  <2>2. loadError' \in [Tabs -> BOOLEAN]
    BY <1>1 DEF pagesVars, PagesTyped
  <2>. QED
    BY <1>1, <2>1, <2>2 DEF pagesVars, PagesTyped
<1>. QED
  BY <1>1, StepIs, PageTyped, PressTyped

-----------------------------------------------------------------------------
(* What a new press is to the server. *)
LEMMA SendServed ==
  ASSUME PagesTyped, PressesServed, NEW t \in Tabs, t \in open,
         NEW action, Send(t, action)
  PROVE  PressesServed'
<1>. SUFFICES ASSUME NEW y \in Presses PROVE PressServed(y)'
  BY DEF PressesServed
<1>. DEFINE x == <<t, presses[t] + 1>>
<1>1. x \in Presses /\ at[x] = "unsent"
  BY NewPress
<1>2. /\ presses' = [presses EXCEPT ![t] = @ + 1]
      /\ at' = [at EXCEPT ![x] = "sent"]
      /\ asked' = [asked EXCEPT ![x] = action]
      /\ open' = open /\ read' = read
  BY DEF Send
<1>3. PressServed(y)
  BY DEF PressesServed
<1>4. x[1] = t /\ x[2] = presses[t] + 1
  OBVIOUS
<1>. HIDE DEF x
<1>5. CASE y = x
  BY <1>1, <1>2, <1>4, <1>5 DEF PressServed, PagesTyped
<1>6. CASE y # x
  BY <1>1, <1>2, <1>3, <1>6, PressIs DEF PressServed, PagesTyped
<1>. QED
  BY <1>5, <1>6

(* The server begins with what was sent, and goes on as it has read. *)
LEMMA ServedStep ==
  ASSUME PagesTyped, PressesServed, [PagesNext]_pagesVars
  PROVE  PressesServed'
<1>. USE DEF plans, server, browser, page, logs, history
<1>1. ASSUME NEW t \in Tabs, t \in open, PageStep(t) PROVE PressesServed'
  <2>1. ASSUME Load(t) \/ ReadLog(t) \/ ShowLog(t) \/ LoadFails(t)
        PROVE  PressesServed'
    BY <2>1 DEF Load, ReadLog, ShowLog, LoadFails, FinishRefresh,
                PressesServed, PressServed
  <2>. QED
    BY <1>1, <2>1, SendServed
       DEF PageStep, PressTransition, PressCreate, PressIntake
<1>2. ASSUME NEW x \in Presses, x[1] \in open, PressStep(x), NEW y \in Presses
      PROVE  PressServed(y)'
  <2>. USE DEF PressServed, PagesTyped
  <2>1. PressServed(y) /\ PressServed(x)
    BY DEF PressesServed
  <2>2. ASSUME ReadStatus(x) PROVE PressServed(y)'
    BY <2>1, <2>2 DEF ReadStatus, Reply
  <2>3. ASSUME LandTransition(x) \/ Store(x) \/ Refuse(x) PROVE PressServed(y)'
    BY <2>1, <2>3 DEF LandTransition, Store, Refuse, Reply, Underway
  <2>4. ASSUME HearTransition(x) \/ HearRow(x) \/ HearError(x) \/ Lose(x)
        PROVE  PressServed(y)'
    BY <2>1, <2>4 DEF HearTransition, HearRow, HearError, Lose
  <2>. QED
    BY <1>2, <2>2, <2>3, <2>4 DEF PressStep
<1>3. CASE UNCHANGED pagesVars
  BY <1>3 DEF pagesVars, PressesServed, PressServed
<1>. QED
  BY <1>1, <1>2, <1>3, StepIs DEF PressesServed

(* Answers are given once a row is stored, and versions only grow. *)
LEMMA AnsweredStep ==
  ASSUME PagesTyped, PressesServed, PressesAnswered, [PagesNext]_pagesVars
  PROVE  PressesAnswered'
<1>. USE KindAssumption DEF plans, server, browser, page, logs, history
<1>1. ASSUME NEW t \in Tabs, PageStep(t), NEW y \in Presses PROVE PressAnswered(y)'
  <2>1. PressAnswered(y) /\ version[PlanOf[y[1]]] \in Nat
    BY PressIs DEF PressesAnswered, PagesTyped
  <2>2. ASSUME Load(t) PROVE PressAnswered(y)'
    BY <2>1, <2>2 DEF Load, NoReply, PressAnswered, PagesTyped
  <2>3. ASSUME ~Load(t) PROVE PressAnswered(y)'
    BY <1>1, <2>1, <2>3
       DEF PageStep, Send, PressTransition, PressCreate, PressIntake, ReadLog, ShowLog,
           LoadFails, FinishRefresh, PressAnswered
  <2>. QED
    BY <2>2, <2>3
<1>2. ASSUME NEW x \in Presses, PressStep(x), NEW y \in Presses PROVE PressAnswered(y)'
  <2>1. /\ PressAnswered(y) /\ version[PlanOf[y[1]]] \in Nat
        /\ version[PlanOf[x[1]]] \in Nat /\ PlanOf[x[1]] \in Plans
    BY PressIs DEF PressesAnswered, PagesTyped
  <2>2. reply[y].asOf \in Nat
    BY DEF PagesTyped, Replies
  <2>. USE DEF PressAnswered, PagesTyped
  <2>3. ASSUME ReadStatus(x) PROVE PressAnswered(y)'
    BY <2>1, <2>2, <2>3 DEF ReadStatus, Reply
  <2>4. ASSUME LandTransition(x) PROVE PressAnswered(y)'
    <3>1. Approval(x[1])
      BY <2>4 DEF LandTransition, PressesServed, PressServed
    <3>. QED
      BY <2>1, <2>2, <2>4, <3>1 DEF LandTransition, Reply
  <2>5. ASSUME Store(x) \/ Refuse(x) PROVE PressAnswered(y)'
    BY <2>1, <2>2, <2>5 DEF Store, Refuse, Reply
  <2>6. ASSUME HearTransition(x) \/ HearRow(x) \/ HearError(x) \/ Lose(x)
        PROVE  PressAnswered(y)'
    BY <2>1, <2>2, <2>6 DEF HearTransition, HearRow, HearError, Lose, Hear, NoReply
  <2>. QED
    BY <1>2, <2>3, <2>4, <2>5, <2>6 DEF PressStep
<1>3. CASE UNCHANGED pagesVars
  BY <1>3 DEF pagesVars, PressesAnswered, PressAnswered
<1>. QED
  BY <1>1, <1>2, <1>3, StepIs DEF PressesAnswered

-----------------------------------------------------------------------------
(* What a press is to its page: one more to wait for, and a disabled button. *)
LEMMA SendWaits ==
  ASSUME PagesTyped, NEW t \in Tabs, NEW action, Send(t, action)
  PROVE  /\ presses' = [presses EXCEPT ![t] = @ + 1]
         /\ status' = [status EXCEPT ![t] = "submitting"]
         /\ awaited' = [awaited EXCEPT ![t] = @ \cup {<<t, presses[t] + 1>>}]
         /\ <<t, presses[t] + 1>>[1] = t
         /\ UNCHANGED <<get, log, loadError, heard, stored, version, state, raced>>
BY DEF Send, plans, logs, history

(* Pages wait for their last press. *)
LEMMA WaitsStep ==
  ASSUME PagesTyped, TabsWait, TabsLoad, [PagesNext]_pagesVars
  PROVE  TabsWait'
<1>. USE DEF plans, server, browser, page, logs, history
<1>1. ASSUME NEW t \in Tabs, PageStep(t), NEW u \in Tabs PROVE TabWaits(u)'
  <2>. USE DEF TabWaits, PagesTyped, LastPress
  <2>1. TabWaits(t) /\ TabWaits(u)
    BY DEF TabsWait
  <2>2. ASSUME Load(t) PROVE TabWaits(u)'
    BY <2>1, <2>2 DEF Load, GetAt
  <2>3. ASSUME NEW action \in PlanActions, PressTransition(t, action) PROVE TabWaits(u)'
    <3>1. Approval(t) /\ status[t] = "idle" /\ row' = row /\ Send(t, action)
      BY <2>3 DEF PressTransition
    <3>. QED
      BY <2>1, <3>1, SendWaits DEF Approval
  <2>4. ASSUME PressCreate(t) PROVE TabWaits(u)'
    <3>1. /\ KindOf[t] \in {"create", "repo"} /\ status[t] # "submitting"
          /\ row' = [row EXCEPT ![t] = 0] /\ Send(t, "create")
      BY <2>4 DEF PressCreate
    <3>. QED
      BY <2>1, <3>1, SendWaits DEF Approval
  <2>5. ASSUME PressIntake(t) PROVE TabWaits(u)'
    <3>1. KindOf[t] = "intake" /\ row' = row /\ Send(t, "create")
      BY <2>5 DEF PressIntake
    <3>. QED
      BY <2>1, <3>1, SendWaits DEF Approval
  <2>6. ASSUME ReadLog(t) \/ ShowLog(t) \/ LoadFails(t) PROVE TabWaits(u)'
    <3>1. Approval(t)
      BY <2>1, <2>6 DEF ReadLog, ShowLog, LoadFails
    <3>2. awaited[t] = {}
      BY <2>6 DEF TabsLoad, TabLoads, ReadLog, ShowLog, LoadFails
    <3>. QED
      BY <2>1, <2>6, <3>1, <3>2
         DEF ReadLog, ShowLog, LoadFails, FinishRefresh, GetAt, Approval
  <2>. QED
    BY <1>1, <2>2, <2>3, <2>4, <2>5, <2>6 DEF PageStep
<1>2. ASSUME NEW x \in Presses, PressStep(x), NEW u \in Tabs PROVE TabWaits(u)'
  <2>. USE DEF TabWaits, PagesTyped, LastPress
  <2>1. TabWaits(u) /\ x[1] \in Tabs
    BY PressIs DEF TabsWait
  <2>2. ASSUME ReadStatus(x) \/ LandTransition(x) \/ Store(x) \/ Refuse(x)
        PROVE  TabWaits(u)'
    BY <2>1, <2>2 DEF ReadStatus, LandTransition, Store, Refuse
  <2>3. ASSUME HearTransition(x) PROVE TabWaits(u)'
    BY <2>1, <2>3 DEF HearTransition, Hear
  <2>4. ASSUME HearRow(x) \/ HearError(x) \/ Lose(x) PROVE TabWaits(u)'
    BY <2>1, <2>4 DEF HearRow, HearError, Lose, Hear
  <2>. QED
    BY <1>2, <2>2, <2>3, <2>4 DEF PressStep
<1>3. CASE UNCHANGED pagesVars
  BY <1>3 DEF pagesVars, TabsWait, TabWaits, LastPress
<1>. QED
  BY <1>1, <1>2, <1>3, StepIs DEF TabsWait

(* The log is loaded with all buttons disabled. *)
LEMMA LoadsStep ==
  ASSUME PagesTyped, TabsWait, TabsLoad, [PagesNext]_pagesVars
  PROVE  TabsLoad'
<1>. USE DEF plans, server, browser, page, logs, history
<1>1. ASSUME NEW t \in Tabs, PageStep(t), NEW u \in Tabs PROVE TabLoads(u)'
  <2>. USE DEF TabLoads, PagesTyped
  <2>1. TabLoads(t) /\ TabLoads(u) /\ TabWaits(t)
    BY DEF TabsLoad, TabsWait
  <2>2. ASSUME Load(t) PROVE TabLoads(u)'
    BY <2>1, <2>2 DEF Load
  <2>3. ASSUME NEW action \in PlanActions, PressTransition(t, action) PROVE TabLoads(u)'
    <3>1. status[t] = "idle" /\ log[t] # NoLog /\ Send(t, action)
      BY <2>3 DEF PressTransition, Edge, NoLog
    <3>. QED
      BY <2>1, <3>1, SendWaits
  <2>4. ASSUME PressCreate(t) \/ PressIntake(t) PROVE TabLoads(u)'
    <3>1. ~Approval(t) /\ Send(t, "create")
      BY <2>4 DEF PressCreate, PressIntake, Approval
    <3>. QED
      BY <2>1, <3>1, SendWaits DEF TabWaits
  <2>5. ASSUME ReadLog(t) \/ ShowLog(t) \/ LoadFails(t) PROVE TabLoads(u)'
    BY <2>1, <2>5 DEF ReadLog, ShowLog, LoadFails, FinishRefresh, GetAt
  <2>. QED
    BY <1>1, <2>2, <2>3, <2>4, <2>5 DEF PageStep
<1>2. ASSUME NEW x \in Presses, PressStep(x), NEW u \in Tabs PROVE TabLoads(u)'
  <2>. USE DEF TabLoads, PagesTyped
  <2>1. TabLoads(u) /\ TabWaits(x[1]) /\ x[1] \in Tabs
    BY PressIs DEF TabsLoad, TabsWait
  <2>2. ASSUME ReadStatus(x) \/ LandTransition(x) \/ Store(x) \/ Refuse(x)
        PROVE  TabLoads(u)'
    BY <2>1, <2>2 DEF ReadStatus, LandTransition, Store, Refuse
  <2>3. ASSUME HearTransition(x) PROVE TabLoads(u)'
    BY <2>1, <2>3 DEF HearTransition, Hear, TabWaits, Approval
  <2>4. ASSUME HearRow(x) \/ HearError(x) \/ Lose(x) PROVE TabLoads(u)'
    BY <2>1, <2>4 DEF HearRow, HearError, Lose, Hear
  <2>. QED
    BY <1>2, <2>2, <2>3, <2>4 DEF PressStep
<1>3. CASE UNCHANGED pagesVars
  BY <1>3 DEF pagesVars, TabsLoad, TabLoads
<1>. QED
  BY <1>1, <1>2, <1>3, StepIs DEF TabsLoad

(* What a page was told is in the log it reads next, and in the one it shows. *)
LEMMA InformedStep ==
  ASSUME PagesTyped, PressesServed, PressesAnswered, TabsWait, TabsLoad, TabsInformed,
         [PagesNext]_pagesVars
  PROVE  TabsInformed'
<1>. USE KindAssumption DEF plans, server, browser, page, logs, history
<1>1. ASSUME NEW t \in Tabs, PageStep(t), NEW u \in Tabs PROVE TabInformed(u)'
  <2>. USE DEF TabInformed, PagesTyped
  <2>1. TabInformed(t) /\ TabInformed(u)
    BY DEF TabsInformed
  <2>2. version[PlanOf[u]] \in Nat /\ version[PlanOf[t]] \in Nat
    OBVIOUS
  <2>3. ASSUME Load(t) PROVE TabInformed(u)'
    BY <2>1, <2>3 DEF Load, GetAt, NoLog
  <2>4. ASSUME NEW action, Send(t, action) PROVE TabInformed(u)'
    BY <2>1, <2>4, SendWaits
  <2>5. ASSUME ReadLog(t) PROVE TabInformed(u)'
    BY <2>1, <2>2, <2>5 DEF ReadLog, GetAt
  <2>6. ASSUME ShowLog(t) PROVE TabInformed(u)'
    BY <2>1, <2>2, <2>6 DEF ShowLog, FinishRefresh, GetAt
  <2>7. ASSUME LoadFails(t) PROVE TabInformed(u)'
    BY <2>1, <2>2, <2>7 DEF LoadFails, FinishRefresh, GetAt
  <2>. QED
    BY <1>1, <2>3, <2>4, <2>5, <2>6, <2>7
       DEF PageStep, PressTransition, PressCreate, PressIntake
<1>2. ASSUME NEW x \in Presses, PressStep(x), NEW u \in Tabs PROVE TabInformed(u)'
  <2>. USE DEF TabInformed, PagesTyped
  <2>1. TabInformed(u) /\ x[1] \in Tabs
    BY PressIs DEF TabsInformed
  <2>2. version[PlanOf[u]] \in Nat /\ version[PlanOf[x[1]]] \in Nat
    BY <2>1
  <2>3. ASSUME ReadStatus(x) \/ Store(x) \/ Refuse(x) PROVE TabInformed(u)'
    BY <2>1, <2>3 DEF ReadStatus, Store, Refuse
  <2>4. ASSUME LandTransition(x) PROVE TabInformed(u)'
    BY <2>1, <2>2, <2>4 DEF LandTransition
  <2>5. ASSUME HearTransition(x) PROVE TabInformed(u)'
    <3>1. reply[x].asOf \in Nat /\ reply[x].asOf <= version[PlanOf[x[1]]]
      BY DEF Replies, PressesAnswered, PressAnswered
    <3>. QED
      BY <2>1, <2>2, <2>5, <3>1 DEF HearTransition, GetAt
  <2>6. ASSUME HearRow(x) \/ HearError(x) \/ Lose(x) PROVE TabInformed(u)'
    BY <2>1, <2>6 DEF HearRow, HearError, Lose
  <2>. QED
    BY <1>2, <2>3, <2>4, <2>5, <2>6 DEF PressStep
<1>3. CASE UNCHANGED pagesVars
  BY <1>3 DEF pagesVars, TabsInformed, TabInformed
<1>. QED
  BY <1>1, <1>2, <1>3, StepIs DEF TabsInformed

(* A transition lands on the status it has read, which is not terminal, or   *)
(* it is raced.                                                              *)
LEMMA NotifiedStep ==
  ASSUME PagesTyped, PressesServed, TabsNotified, [PagesNext]_pagesVars
  PROVE  TabsNotified'
<1>. USE KindAssumption DEF plans, server, browser, page, logs, history
<1>1. ASSUME NEW t \in Tabs, PageStep(t), NEW u \in Tabs PROVE TabNotified(u)'
  <2>. USE DEF TabNotified, PagesTyped
  <2>1. TabNotified(t) /\ TabNotified(u)
    BY DEF TabsNotified
  <2>2. ASSUME Load(t) PROVE TabNotified(u)'
    BY <2>1, <2>2 DEF Load, GetAt, NoLog
  <2>3. ASSUME NEW action, Send(t, action) PROVE TabNotified(u)'
    BY <2>1, <2>3, SendWaits
  <2>4. ASSUME ReadLog(t) PROVE TabNotified(u)'
    BY <2>1, <2>4 DEF ReadLog, GetAt
  <2>5. ASSUME ShowLog(t) \/ LoadFails(t) PROVE TabNotified(u)'
    BY <2>1, <2>5 DEF ShowLog, LoadFails, FinishRefresh, GetAt, NoLog
  <2>. QED
    BY <1>1, <2>2, <2>3, <2>4, <2>5
       DEF PageStep, PressTransition, PressCreate, PressIntake
<1>2. ASSUME NEW x \in Presses, PressStep(x), NEW u \in Tabs PROVE TabNotified(u)'
  <2>. USE DEF TabNotified, PagesTyped
  <2>1. TabNotified(u) /\ x[1] \in Tabs
    BY PressIs DEF TabsNotified
  <2>2. ASSUME ReadStatus(x) \/ Store(x) \/ Refuse(x) PROVE TabNotified(u)'
    BY <2>1, <2>2 DEF ReadStatus, Store, Refuse
  <2>3. ASSUME LandTransition(x) PROVE TabNotified(u)'
    <3>. DEFINE p == PlanOf[x[1]]
    <3>1. read[x] \notin {"approved", "rejected"}
      BY <2>3 DEF LandTransition, PressesServed, PressServed, Edge
    <3>2. /\ raced' = (raced \/ state[p] # read[x])
          /\ \E s : state' = [state EXCEPT ![p] = s]
          /\ log' = log /\ get' = get
      BY <2>3 DEF LandTransition, LateMove, Land
    <3>. QED
      BY <2>1, <3>1, <3>2
  <2>4. ASSUME HearTransition(x) PROVE TabNotified(u)'
    BY <2>1, <2>4 DEF HearTransition, GetAt, NoLog
  <2>5. ASSUME HearRow(x) \/ HearError(x) \/ Lose(x) PROVE TabNotified(u)'
    BY <2>1, <2>5 DEF HearRow, HearError, Lose
  <2>. QED
    BY <1>2, <2>2, <2>3, <2>4, <2>5 DEF PressStep
<1>3. CASE UNCHANGED pagesVars
  BY <1>3 DEF pagesVars, TabsNotified, TabNotified
<1>. QED
  BY <1>1, <1>2, <1>3, StepIs DEF TabsNotified

(* A row is shown when the answer to the last press arrives, and hidden when *)
(* the next press is done.                                                   *)
LEMMA RowStep ==
  ASSUME PagesTyped, PressesAnswered, TabsWait, TabsLoad, TabsRow, [PagesNext]_pagesVars
  PROVE  TabsRow'
<1>. USE KindAssumption DEF plans, server, browser, page, logs, history, Kinds
<1>1. ASSUME NEW t \in Tabs, PageStep(t), NEW u \in Tabs PROVE TabRow(u)'
  <2>. USE DEF TabRow, PagesTyped
  <2>1. TabRow(t) /\ TabRow(u) /\ TabWaits(t)
    BY DEF TabsRow, TabsWait
  <2>2. ASSUME Load(t) PROVE TabRow(u)'
    BY <2>1, <2>2 DEF Load
  <2>3. ASSUME NEW action \in PlanActions, PressTransition(t, action) PROVE TabRow(u)'
    <3>1. Approval(t) /\ row' = row /\ Send(t, action)
      BY <2>3 DEF PressTransition
    <3>. QED
      BY <2>1, <3>1, SendWaits DEF Approval
  <2>4. ASSUME PressCreate(t) PROVE TabRow(u)'
    <3>1. row' = [row EXCEPT ![t] = 0] /\ Send(t, "create")
      BY <2>4 DEF PressCreate
    <3>. QED
      BY <2>1, <3>1, SendWaits
  <2>5. ASSUME PressIntake(t) PROVE TabRow(u)'
    <3>1. KindOf[t] = "intake" /\ row' = row /\ Send(t, "create")
      BY <2>5 DEF PressIntake
    <3>. QED
      BY <2>1, <3>1, SendWaits
  <2>6. ASSUME ReadLog(t) \/ ShowLog(t) \/ LoadFails(t) PROVE TabRow(u)'
    <3>1. Approval(t)
      BY <2>1, <2>6 DEF TabWaits, ReadLog, ShowLog, LoadFails
    <3>. QED
      BY <2>1, <2>6, <3>1 DEF ReadLog, ShowLog, LoadFails, FinishRefresh, Approval
  <2>. QED
    BY <1>1, <2>2, <2>3, <2>4, <2>5, <2>6 DEF PageStep
<1>2. ASSUME NEW x \in Presses, PressStep(x), NEW u \in Tabs PROVE TabRow(u)'
  <2>. USE DEF TabRow, PagesTyped
  <2>1. TabRow(u) /\ TabRow(x[1]) /\ TabWaits(x[1]) /\ x[1] \in Tabs
    BY PressIs DEF TabsRow, TabsWait
  <2>2. ASSUME ReadStatus(x) \/ LandTransition(x) \/ Store(x) \/ Refuse(x)
        PROVE  TabRow(u)'
    BY <2>1, <2>2 DEF ReadStatus, LandTransition, Store, Refuse
  <2>3. ASSUME HearTransition(x) PROVE TabRow(u)'
    BY <2>1, <2>3 DEF HearTransition
  <2>4. ASSUME HearRow(x) PROVE TabRow(u)'
    <3>1. x \in stored /\ x = <<x[1], x[2]>> /\ x[2] # 0
      BY <2>4, PressIs, PressesAssumption
         DEF HearRow, PressesAnswered, PressAnswered
    <3>2. KindOf[x[1]] # "intake" => x[2] = presses[x[1]]
      BY <2>1, <2>4 DEF HearRow, Hear, TabWaits, LastPress
    <3>. QED
      BY <2>1, <2>4, <3>1, <3>2 DEF HearRow
  <2>5. ASSUME HearError(x) \/ Lose(x) PROVE TabRow(u)'
    <3>1. KindOf[x[1]] # "intake" => status[x[1]] = "submitting"
      BY <2>1, <2>5 DEF HearError, Lose, Hear, TabWaits
    <3>. QED
      BY <2>1, <2>5, <3>1 DEF HearError, Lose
  <2>. QED
    BY <1>2, <2>2, <2>3, <2>4, <2>5 DEF PressStep
<1>3. CASE UNCHANGED pagesVars
  BY <1>3 DEF pagesVars, TabsRow, TabRow
<1>. QED
  BY <1>1, <1>2, <1>3, StepIs DEF TabsRow

-----------------------------------------------------------------------------
(* With one tab that decides and no POST given up, the server works on one   *)
(* transition at most.                                                       *)
LEMMA OneUnderway ==
  ASSUME PagesTyped, PressesServed, TabsWait, InTurn, ~cut, Alone,
         NEW x \in Presses, NEW y \in Presses,
         at[x] = "read", at[y] = "read"
  PROVE  x = y
<1>1. /\ x \in awaited[x[1]] /\ y \in awaited[y[1]]
      /\ x[1] \in open /\ y[1] \in open
      /\ Approval(x[1]) /\ Approval(y[1])
  BY DEF InTurn, PressAlone, Underway, PressesServed, PressServed
<1>2. x[1] = y[1]
  BY <1>1 DEF Alone
<1>3. x[1] \in Tabs /\ KindOf[x[1]] # "intake"
  BY <1>1, PressIs DEF Approval
<1>. QED
  BY <1>1, <1>2, <1>3 DEF TabsWait, TabWaits

(* So a transition that lands then is a move of the drawing. *)
LEMMA LandsInTurn ==
  ASSUME PagesTyped, PressesServed, InTurn, ~cut, Alone,
         NEW x \in Presses, LandTransition(x)
  PROVE  /\ PlanOf[x[1]] \in Plans /\ asked[x] \in PlanActions
         /\ Move(PlanOf[x[1]], asked[x])
<1>1. at[x] = "read" /\ Land(PlanOf[x[1]], asked[x])
  BY DEF LandTransition, LateMove
<1>2. read[x] = state[PlanOf[x[1]]]
  BY <1>1 DEF InTurn, PressAlone, Underway
<1>3. Edge(state[PlanOf[x[1]]], asked[x])
  BY <1>1, <1>2 DEF PressesServed, PressServed
<1>4. PlanOf[x[1]] \in Plans /\ asked[x] \in PlanActions
  BY <1>3, PressIs, KindAssumption DEF Edge, PlanActions
<1>5. asked[x] \notin trail[PlanOf[x[1]]]
  BY <1>3, <1>4 DEF InTurn, PlanAlone, Edge
<1>. QED
  BY <1>1, <1>3, <1>4, <1>5 DEF Move

(* The drawing is followed as long as one tab decides and gives up nothing. *)
LEMMA InTurnStep ==
  ASSUME PagesTyped, PressesServed, TabsWait, InTurn, [PagesNext]_pagesVars
  PROVE  InTurn'
<1>. USE KindAssumption DEF plans, server, browser, page, logs, history
<1>1. SUFFICES ASSUME ~cut', Alone'
               PROVE  /\ \A y \in Presses : PressAlone(y)'
                      /\ \A p \in Plans : PlanAlone(p)'
  BY DEF InTurn
<1>2. ~cut /\ Alone
  <2>1. open' = open
    <3>1. ASSUME NEW t \in Tabs, PageStep(t) PROVE open' = open
      BY <3>1 DEF PageStep, Load, PressTransition, PressCreate, PressIntake, Send,
                  ReadLog, ShowLog, LoadFails, FinishRefresh
    <3>2. ASSUME NEW x \in Presses, PressStep(x) PROVE open' = open
      BY <3>2 DEF PressStep, ReadStatus, LandTransition, Store, Refuse,
                  HearTransition, HearRow, HearError, Lose
    <3>. QED
      BY <3>1, <3>2, StepIs DEF pagesVars
  <2>2. ~cut
    <3>1. ASSUME NEW t \in Tabs, PageStep(t) PROVE ~cut
      <4>1. CASE Load(t)
        BY <1>1, <4>1 DEF Load
      <4>2. CASE ~Load(t)
        BY <1>1, <3>1, <4>2
           DEF PageStep, PressTransition, PressCreate, PressIntake, Send, ReadLog,
               ShowLog, LoadFails, FinishRefresh
      <4>. QED
        BY <4>1, <4>2
    <3>2. ASSUME NEW x \in Presses, PressStep(x) PROVE ~cut
      <4>1. CASE Lose(x)
        BY <1>1, <4>1 DEF Lose
      <4>2. CASE ~Lose(x)
        BY <1>1, <3>2, <4>2
           DEF PressStep, ReadStatus, LandTransition, Store, Refuse, HearTransition,
               HearRow, HearError
      <4>. QED
        BY <4>1, <4>2
    <3>. QED
      BY <1>1, <3>1, <3>2, StepIs DEF pagesVars
  <2>. QED
    BY <1>1, <2>1, <2>2 DEF Alone
<1>3. \A y \in Presses : PressAlone(y)
  BY <1>2 DEF InTurn
<1>4. \A p \in Plans : PlanAlone(p)
  BY <1>2 DEF InTurn
<1>5. ASSUME NEW t \in Tabs, PageStep(t)
      PROVE  /\ \A y \in Presses : PressAlone(y)'
             /\ \A p \in Plans : PlanAlone(p)'
  <2>1. state' = state /\ trail' = trail
    BY <1>5 DEF PageStep, Load, PressTransition, PressCreate, PressIntake, Send,
                ReadLog, ShowLog, LoadFails, FinishRefresh
  <2>2. ASSUME NEW y \in Presses PROVE PressAlone(y)'
    <3>. USE DEF PressAlone, Underway, PagesTyped
    <3>1. PressAlone(y) /\ y[1] \in Tabs
      BY <1>3, PressIs
    <3>2. ASSUME Load(t) PROVE PressAlone(y)'
      <4>1. Underway(y) => y \notin awaited[t]
        BY <1>1, <3>2 DEF Load
      <4>. QED
        BY <3>1, <3>2, <4>1 DEF Load
    <3>3. ASSUME NEW action, Send(t, action) PROVE PressAlone(y)'
      <4>. DEFINE x == <<t, presses[t] + 1>>
      <4>1. /\ at' = [at EXCEPT ![x] = "sent"]
            /\ awaited' = [awaited EXCEPT ![t] = @ \cup {x}]
            /\ x[1] = t /\ read' = read
        BY <3>3 DEF Send
      <4>. HIDE DEF x
      <4>. QED
        BY <2>1, <3>1, <4>1
    <3>4. ASSUME ReadLog(t) \/ ShowLog(t) \/ LoadFails(t) PROVE PressAlone(y)'
      BY <3>1, <3>4 DEF ReadLog, ShowLog, LoadFails, FinishRefresh
    <3>. QED
      BY <1>5, <3>2, <3>3, <3>4
         DEF PageStep, PressTransition, PressCreate, PressIntake
  <2>3. ASSUME NEW p \in Plans PROVE PlanAlone(p)'
    BY <1>4, <2>1 DEF PlanAlone
  <2>. QED
    BY <2>2, <2>3
<1>6. ASSUME NEW x \in Presses, PressStep(x), ~LandTransition(x)
      PROVE  /\ \A y \in Presses : PressAlone(y)'
             /\ \A p \in Plans : PlanAlone(p)'
  <2>1. state' = state /\ trail' = trail
    BY <1>6 DEF PressStep, ReadStatus, Store, Refuse, HearTransition, HearRow,
                HearError, Lose
  <2>2. ASSUME NEW y \in Presses PROVE PressAlone(y)'
    <3>. USE DEF PressAlone, Underway, PagesTyped
    <3>1. PressAlone(y) /\ y[1] \in Tabs /\ x[1] \in Tabs
      BY <1>3, PressIs
    <3>2. ASSUME ReadStatus(x) PROVE PressAlone(y)'
      BY <3>1, <3>2 DEF ReadStatus, Reply
    <3>3. ASSUME Store(x) \/ Refuse(x) PROVE PressAlone(y)'
      BY <3>1, <3>3 DEF Store, Refuse, Reply
    <3>4. ASSUME HearTransition(x) \/ HearRow(x) \/ HearError(x) \/ Lose(x)
          PROVE  PressAlone(y)'
      <4>1. ~Underway(x)
        BY <1>1, <3>4 DEF HearTransition, HearRow, HearError, Lose
      <4>2. awaited' = [awaited EXCEPT ![x[1]] = @ \ {x}] /\ at' = at /\ read' = read
        BY <3>4 DEF HearTransition, HearRow, HearError, Lose, Hear
      <4>. QED
        BY <2>1, <3>1, <4>1, <4>2
    <3>. QED
      BY <1>6, <3>2, <3>3, <3>4 DEF PressStep
  <2>3. ASSUME NEW p \in Plans PROVE PlanAlone(p)'
    BY <1>4, <2>1 DEF PlanAlone
  <2>. QED
    BY <2>2, <2>3
<1>7. ASSUME NEW x \in Presses, LandTransition(x)
      PROVE  /\ \A y \in Presses : PressAlone(y)'
             /\ \A p \in Plans : PlanAlone(p)'
  <2>1. /\ PlanOf[x[1]] \in Plans /\ asked[x] \in PlanActions
        /\ Move(PlanOf[x[1]], asked[x])
    BY <1>2, <1>7, LandsInTurn
  <2>2. ASSUME NEW y \in Presses PROVE PressAlone(y)'
    <3>1. at'[x] = "replied" /\ awaited' = awaited
      BY <1>7 DEF LandTransition, Reply, PagesTyped
    <3>2. y # x => at'[y] = at[y] /\ read'[y] = read[y]
      BY <1>7 DEF LandTransition, Reply, PagesTyped
    <3>3. y # x => at[y] # "read"
      BY <1>2, <1>7, OneUnderway DEF LandTransition
    <3>. QED
      BY <1>3, <3>1, <3>2, <3>3 DEF PressAlone, Underway
  <2>3. ASSUME NEW p \in Plans PROVE PlanAlone(p)'
    <3>1. PlanAlone(p)
      BY <1>4
    <3>. QED
      BY <2>1, <3>1 DEF PlanAlone, Move, Land, Target, Edge, PlanActions, PagesTyped
  <2>. QED
    BY <2>2, <2>3
<1>8. CASE UNCHANGED pagesVars
  BY <1>3, <1>4, <1>8 DEF pagesVars, PressAlone, PlanAlone, Underway
<1>. QED
  BY <1>5, <1>6, <1>7, <1>8, StepIs

-----------------------------------------------------------------------------
(* Every step preserves the invariant. *)
LEMMA PagesStep == PagesInv /\ [PagesNext]_pagesVars => PagesInv'
BY TypedStep, ServedStep, AnsweredStep, WaitsStep, LoadsStep, InformedStep,
   NotifiedStep, RowStep, InTurnStep
   DEF PagesInv

(* The inductive invariant holds of every behaviour. *)
THEOREM PagesInvariance == PagesSpec => []PagesInv
BY InitPagesInv, PagesStep, PTL DEF PagesSpec

(* The variables of the pages and of the server behind them keep their types. *)
THEOREM PagesTypeCorrect == PagesSpec => []PagesTyped
BY PagesInvariance, PTL DEF PagesInv

(* An idle approval page never shows a status older than it was told of. *)
THEOREM NeverOlder == PagesSpec => []ShownIsNotOlder
<1>1. PagesInv => ShownIsNotOlder
  <2>. SUFFICES ASSUME PagesInv, NEW t \in open, status[t] = "idle", log[t] # NoLog,
                       ~loadError[t]
                PROVE  log[t].version >= heard[t]
    BY DEF ShownIsNotOlder
  <2>1. t \in Tabs
    BY OpeningsAssumption DEF PagesInv, PagesTyped
  <2>2. get[t].at = "none"
    BY <2>1 DEF PagesInv, TabsLoad, TabLoads
  <2>3. heard[t] <= log[t].version
    BY <2>1, <2>2 DEF PagesInv, TabsInformed, TabInformed
  <2>. QED
    BY <2>1, <2>3 DEF PagesInv, PagesTyped, LogValues
<1>. QED
  BY <1>1, PagesInvariance, PTL

(* The notice of a terminal state stays true, unless transitions overlapped. *)
THEOREM NoticeAlwaysHolds == PagesSpec => []NoticeHolds
<1>1. PagesInv => NoticeHolds
  BY OpeningsAssumption DEF PagesInv, PagesTyped, TabsNotified, TabNotified, NoticeHolds
<1>. QED
  BY <1>1, PagesInvariance, PTL

(* A page shows the row of its last press, or none. *)
THEOREM RowAlwaysOfLastPress == PagesSpec => []RowIsOfLastPress
<1>1. PagesInv => RowIsOfLastPress
  BY OpeningsAssumption DEF PagesInv, PagesTyped, TabsRow, TabRow, RowIsOfLastPress
<1>. QED
  BY <1>1, PagesInvariance, PTL

(* Alone, and giving up no POST, a user takes the plan along the drawing:    *)
(* each transition lands on the status it has read.                          *)
THEOREM MachineAlone == PagesSpec => MachineWhenAlone
<1>1. PagesInv /\ [PagesNext]_pagesVars =>
        [cut' \/ ~Alone \/ MachineNext]_machineVars
  <2>. SUFFICES ASSUME PagesInv, [PagesNext]_pagesVars, ~cut', Alone
                PROVE  MachineNext \/ UNCHANGED machineVars
    BY DEF PagesInv
  <2>. USE DEF plans, server, browser, page, logs, history, machineVars
  <2>1. ASSUME NEW t \in Tabs, PageStep(t) PROVE UNCHANGED machineVars
    BY <2>1 DEF PageStep, Load, PressTransition, PressCreate, PressIntake, Send,
                ReadLog, ShowLog, LoadFails, FinishRefresh
  <2>2. ASSUME NEW x \in Presses, PressStep(x), ~LandTransition(x)
        PROVE  UNCHANGED machineVars
    BY <2>2 DEF PressStep, ReadStatus, Store, Refuse, HearTransition, HearRow,
                HearError, Lose
  <2>3. ASSUME NEW x \in Presses, LandTransition(x) PROVE MachineNext
    <3>1. ~cut
      BY <2>3 DEF LandTransition
    <3>. QED
      BY <2>3, <3>1, LandsInTurn DEF PagesInv, MachineNext
  <2>4. CASE UNCHANGED pagesVars
    BY <2>4 DEF pagesVars
  <2>. QED
    BY <2>1, <2>2, <2>3, <2>4, StepIs DEF PagesInv
<1>. QED
  BY <1>1, PagesInvariance, PTL DEF PagesSpec, MachineWhenAlone

-----------------------------------------------------------------------------
(***************************************************************************)
(* What PressEnds needs besides fairness: a page whose button is disabled  *)
(* waits for something that is on its way, and a transition that has read  *)
(* its plan may land, whatever has become of the plan since.               *)
(***************************************************************************)

(* The guards of ReadLog, ShowLog and LoadFails, of Refuse, which may answer *)
(* whatever is underway, and of Deliver, joined.                             *)
MayProgress(t) ==
  \/ get[t].at # "none"
  \/ \E n \in 1..MaxPresses[t] :
       \/ Underway(<<t, n>>)
       \/ at[<<t, n>>] = "replied" /\ <<t, n>> \in awaited[t]

(* A disabled button waits for the log or for its press, on an open page. *)
TabPends(t) ==
  /\ status[t] # "closed" => t \in open
  /\ status[t] = "submitting" => get[t].at # "none" \/ LastPress(t) \in awaited[t]
(* What is waited for was sent. *)
PressSent(x) == x \in awaited[x[1]] => at[x] # "unsent"
(* A plan leaves its draft by a submission, *)
PlanSubmitted(p) ==
  /\ state[p] # "absent"
  /\ state[p] # "draft" => "submit" \in trail[p]
(* and who has read that may decide on it for good. *)
PressMayLand(x) ==
  at[x] = "read" => asked[x] = "submit" \/ "submit" \in trail[PlanOf[x[1]]]

PendingInv ==
  /\ \A t \in Tabs : TabPends(t)
  /\ \A x \in Presses : PressSent(x) /\ PressMayLand(x)
  /\ \A p \in Plans : PlanSubmitted(p)

(* Whatever a button that is disabled waits for, somebody can go on with. *)
ButtonsComeBack ==
  \A t \in Tabs : status[t] = "submitting" => t \in open /\ MayProgress(t)

(* The UPDATE of a transition that has read its plan is not refused. *)
ReadsMayLand ==
  \A x \in Presses :
    at[x] = "read" =>
      /\ state[PlanOf[x[1]]] # "absent"
      /\ asked[x] = "submit" \/ "submit" \in trail[PlanOf[x[1]]]

LEMMA InitPending == PagesInit => PendingInv
<1>. SUFFICES ASSUME PagesInit PROVE PendingInv
  OBVIOUS
<1>1. ASSUME NEW t \in Tabs PROVE TabPends(t)
  BY DEF PagesInit, TabPends
<1>2. ASSUME NEW x \in Presses PROVE PressSent(x) /\ PressMayLand(x)
  BY PressIs DEF PagesInit, PressSent, PressMayLand
<1>3. ASSUME NEW p \in Plans PROVE PlanSubmitted(p)
  BY DEF PagesInit, PlanSubmitted
<1>. QED
  BY <1>1, <1>2, <1>3 DEF PendingInv

(* Pages begin to wait when they send, and stop when they are answered. *)
LEMMA PendsStep ==
  ASSUME PagesTyped, TabsWait, PendingInv, [PagesNext]_pagesVars, NEW u \in Tabs
  PROVE  TabPends(u)'
<1>. USE DEF plans, server, browser, page, logs, history, TabPends, PagesTyped, LastPress
<1>1. ASSUME NEW t \in Tabs, t \in open, PageStep(t) PROVE TabPends(u)'
  <2>1. TabPends(u)
    BY DEF PendingInv
  <2>2. ASSUME Load(t) PROVE TabPends(u)'
    BY <1>1, <2>1, <2>2 DEF Load
  <2>3. ASSUME NEW action, Send(t, action) PROVE TabPends(u)'
    <3>1. open' = open
      BY <2>3 DEF Send
    <3>. QED
      BY <1>1, <2>1, <2>3, <3>1, SendWaits
  <2>4. ASSUME ReadLog(t) \/ ShowLog(t) \/ LoadFails(t) PROVE TabPends(u)'
    BY <1>1, <2>1, <2>4 DEF ReadLog, ShowLog, LoadFails, FinishRefresh, GetAt
  <2>. QED
    BY <1>1, <2>2, <2>3, <2>4 DEF PageStep, PressTransition, PressCreate, PressIntake
<1>2. ASSUME NEW x \in Presses, x[1] \in open, PressStep(x) PROVE TabPends(u)'
  <2>1. TabPends(u) /\ x[1] \in Tabs
    BY PressIs DEF PendingInv
  <2>2. ASSUME ReadStatus(x) \/ LandTransition(x) \/ Store(x) \/ Refuse(x)
        PROVE  TabPends(u)'
    BY <2>1, <2>2 DEF ReadStatus, LandTransition, Store, Refuse
  <2>3. ASSUME HearTransition(x) PROVE TabPends(u)'
    BY <2>1, <2>3 DEF HearTransition, Hear, GetAt
  <2>4. ASSUME HearRow(x) \/ HearError(x) \/ Lose(x) PROVE TabPends(u)'
    BY <1>2, <2>1, <2>4 DEF HearRow, HearError, Lose, Hear
  <2>. QED
    BY <1>2, <2>2, <2>3, <2>4 DEF PressStep
<1>3. CASE UNCHANGED pagesVars
  BY <1>3 DEF pagesVars, PendingInv
<1>. QED
  BY <1>1, <1>2, <1>3, StepIs

(* Once sent, a press is never unsent. *)
LEMMA SentStep ==
  ASSUME PagesTyped, PendingInv, [PagesNext]_pagesVars, NEW y \in Presses
  PROVE  PressSent(y)'
<1>. USE DEF plans, server, browser, page, logs, history, PressSent, PagesTyped
<1>0. PressSent(y) /\ y[1] \in Tabs
  BY PressIs DEF PendingInv
<1>1. ASSUME NEW t \in Tabs, PageStep(t) PROVE PressSent(y)'
  <2>1. ASSUME Load(t) PROVE PressSent(y)'
    BY <1>0, <2>1 DEF Load
  <2>2. ASSUME NEW action, Send(t, action) PROVE PressSent(y)'
    <3>1. PICK x \in Presses : /\ x = <<t, presses[t] + 1>>
                               /\ at' = [at EXCEPT ![x] = "sent"]
                               /\ awaited' = [awaited EXCEPT ![t] = @ \cup {x}]
      BY <2>2, NewPress DEF Send
    <3>. QED
      BY <1>0, <3>1
  <2>3. ASSUME ReadLog(t) \/ ShowLog(t) \/ LoadFails(t) PROVE PressSent(y)'
    BY <1>0, <2>3 DEF ReadLog, ShowLog, LoadFails, FinishRefresh
  <2>. QED
    BY <1>1, <2>1, <2>2, <2>3 DEF PageStep, PressTransition, PressCreate, PressIntake
<1>2. ASSUME NEW x \in Presses, PressStep(x) PROVE PressSent(y)'
  <2>1. ASSUME ReadStatus(x) \/ LandTransition(x) \/ Store(x) \/ Refuse(x)
        PROVE  PressSent(y)'
    BY <1>0, <2>1 DEF ReadStatus, LandTransition, Store, Refuse, Reply, Underway
  <2>2. ASSUME HearTransition(x) \/ HearRow(x) \/ HearError(x) \/ Lose(x)
        PROVE  PressSent(y)'
    BY <1>0, <2>2, PressIs DEF HearTransition, HearRow, HearError, Lose, Hear
  <2>. QED
    BY <1>2, <2>1, <2>2 DEF PressStep
<1>3. CASE UNCHANGED pagesVars
  BY <1>0, <1>3 DEF pagesVars
<1>. QED
  BY <1>1, <1>2, <1>3, StepIs

(* A submission stays in the trail, and precedes whatever needs it. *)
LEMMA SubmittedStep ==
  ASSUME PagesTyped, PressesServed, PendingInv, [PagesNext]_pagesVars
  PROVE  /\ \A p \in Plans : PlanSubmitted(p)'
         /\ \A y \in Presses : PressMayLand(y)'
<1>. USE DEF plans, server, browser, page, logs, history, PlanSubmitted, PressMayLand,
             PagesTyped
<1>0. ASSUME NEW y \in Presses
      PROVE  PressMayLand(y) /\ PlanOf[y[1]] \in Plans /\ PlanSubmitted(PlanOf[y[1]])
  BY PressIs, KindAssumption DEF PendingInv
<1>1. ASSUME NEW t \in Tabs, PageStep(t)
      PROVE  /\ \A p \in Plans : PlanSubmitted(p)'
             /\ \A y \in Presses : PressMayLand(y)'
  <2>1. UNCHANGED <<state, trail>>
    BY <1>1 DEF PageStep, Load, PressTransition, PressCreate, PressIntake, Send,
                ReadLog, ShowLog, LoadFails, FinishRefresh
  <2>2. ASSUME NEW action, Send(t, action), NEW y \in Presses PROVE PressMayLand(y)'
    <3>1. PICK x \in Presses : /\ at' = [at EXCEPT ![x] = "sent"]
                               /\ asked' = [asked EXCEPT ![x] = action]
      BY <2>2, NewPress DEF Send
    <3>. QED
      BY <1>0, <2>1, <3>1
  <2>3. ASSUME Load(t) \/ ReadLog(t) \/ ShowLog(t) \/ LoadFails(t), NEW y \in Presses
        PROVE  PressMayLand(y)'
    BY <1>0, <2>1, <2>3 DEF Load, ReadLog, ShowLog, LoadFails, FinishRefresh
  <2>4. ASSUME NEW p \in Plans PROVE PlanSubmitted(p)'
    BY <2>1 DEF PendingInv
  <2>. QED
    BY <1>1, <2>2, <2>3, <2>4 DEF PageStep, PressTransition, PressCreate, PressIntake
<1>2. ASSUME NEW x \in Presses, PressStep(x)
      PROVE  /\ \A p \in Plans : PlanSubmitted(p)'
             /\ \A y \in Presses : PressMayLand(y)'
  <2>1. ASSUME LandTransition(x)
        PROVE  /\ \A p \in Plans : PlanSubmitted(p)'
               /\ \A y \in Presses : PressMayLand(y)'
    <3>1. asked[x] \in PlanActions
      BY <2>1 DEF LandTransition, PressesServed, PressServed, Edge, PlanActions
    <3>2. /\ state' = [state EXCEPT ![PlanOf[x[1]]] = Target(asked[x])]
          /\ trail' = [trail EXCEPT ![PlanOf[x[1]]] = @ \cup {asked[x]}]
          /\ asked[x] = "submit" \/ "submit" \in trail[PlanOf[x[1]]]
          /\ at' = [at EXCEPT ![x] = "replied"] /\ asked' = asked
      BY <2>1 DEF LandTransition, LateMove, Land, Reply
    <3>3. ASSUME NEW p \in Plans PROVE PlanSubmitted(p)'
      <4>1. PlanSubmitted(p)
        BY DEF PendingInv
      <4>. QED
        BY <1>0, <3>1, <3>2, <4>1 DEF Target
    <3>4. ASSUME NEW y \in Presses PROVE PressMayLand(y)'
      BY <1>0, <3>2
    <3>. QED
      BY <3>3, <3>4
  <2>2. ASSUME ~LandTransition(x) PROVE UNCHANGED <<state, trail, asked>>
    BY <1>2, <2>2 DEF PressStep, ReadStatus, Store, Refuse, HearTransition, HearRow,
                      HearError, Lose
  <2>3. ASSUME ReadStatus(x), NEW y \in Presses PROVE PressMayLand(y)'
    <3>1. ~LandTransition(x)
      BY <2>3 DEF ReadStatus, LandTransition
    <3>2. CASE Edge(state[PlanOf[x[1]]], asked[x])
      BY <1>0, <2>2, <2>3, <3>1, <3>2 DEF ReadStatus, Edge
    <3>3. CASE ~Edge(state[PlanOf[x[1]]], asked[x])
      BY <1>0, <2>2, <2>3, <3>1, <3>3 DEF ReadStatus, Reply
    <3>. QED
      BY <3>2, <3>3
  <2>4. ASSUME Store(x) \/ Refuse(x) \/ HearTransition(x) \/ HearRow(x) \/ HearError(x)
               \/ Lose(x), ~LandTransition(x), NEW y \in Presses
        PROVE  PressMayLand(y)'
    <3>1. at' = at \/ at' = [at EXCEPT ![x] = "replied"]
      BY <2>4 DEF Store, Refuse, HearTransition, HearRow, HearError, Lose, Reply
    <3>. QED
      BY <1>0, <2>2, <2>4, <3>1
  <2>5. ASSUME ~LandTransition(x), NEW p \in Plans PROVE PlanSubmitted(p)'
    BY <2>2, <2>5 DEF PendingInv
  <2>. QED
    BY <1>2, <2>1, <2>3, <2>4, <2>5 DEF PressStep
<1>3. CASE UNCHANGED pagesVars
  BY <1>3 DEF pagesVars, PendingInv
<1>. QED
  BY <1>1, <1>2, <1>3, StepIs

(* The invariant that keeps pages and transitions going. *)
LEMMA PendingInvariance == PagesSpec => []PendingInv
<1>1. PagesInv /\ PendingInv /\ [PagesNext]_pagesVars => PendingInv'
  BY PendsStep, SentStep, SubmittedStep DEF PagesInv, PendingInv
<1>. QED
  BY <1>1, InitPending, PagesInvariance, PTL DEF PagesSpec

(* A button that is disabled waits for something that is on its way, however *)
(* the answers of a page's presses, its refreshes and the failures of both   *)
(* follow each other: no page is left "submitting" with nothing to come.     *)
(* This is what PressEnds needs besides fairness.                            *)
THEOREM ButtonsAlwaysComeBack == PagesSpec => []ButtonsComeBack
<1>1. PagesInv /\ PendingInv => ButtonsComeBack
  <2>. SUFFICES ASSUME PagesInv, PendingInv, NEW t \in Tabs, status[t] = "submitting",
                       get[t].at = "none"
                PROVE  \E n \in 1..MaxPresses[t] :
                         \/ Underway(<<t, n>>)
                         \/ at[<<t, n>>] = "replied" /\ <<t, n>> \in awaited[t]
    BY DEF ButtonsComeBack, MayProgress, PendingInv, TabPends
  <2>1. LastPress(t) \in awaited[t]
    BY DEF PendingInv, TabPends
  <2>2. LastPress(t) \in Presses
    BY <2>1 DEF PagesInv, PagesTyped
  <2>3. presses[t] \in 1..MaxPresses[t] /\ LastPress(t)[1] = t
    BY <2>2, PressIs DEF LastPress
  <2>4. at[LastPress(t)] \in {"sent", "read", "replied"}
    BY <2>1, <2>2, <2>3 DEF PendingInv, PressSent, PagesInv, PagesTyped
  <2>. QED
    BY <2>1, <2>3, <2>4 DEF LastPress, Underway
<1>. QED
  BY <1>1, PendingInvariance, PagesInvariance, PTL

(* A transition that has read a status which allows it can land, whatever    *)
(* has landed in between: the server behind the pages never waits, and the   *)
(* abstract plans it moves (Overlapped) do not hold it up.                   *)
THEOREM ReadsAlwaysLand == PagesSpec => []ReadsMayLand
<1>1. PagesTyped /\ PendingInv => ReadsMayLand
  BY PressIs, KindAssumption
     DEF PendingInv, PlanSubmitted, PressMayLand, ReadsMayLand, PagesTyped
<1>. QED
  BY <1>1, PendingInvariance, PagesTypeCorrect, PTL

=============================================================================
