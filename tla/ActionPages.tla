----------------------------- MODULE ActionPages -----------------------------
(***************************************************************************)
(* The pages of apps/web whose buttons POST, each open in a browser tab.   *)
(*                                                                         *)
(* The approval page loads the log of its plan, enables the buttons that   *)
(* its status allows, and loads the log again after each POST.  The other  *)
(* ones, which create an intake, a link, a finding, a plan or an export,   *)
(* share one skeleton: press, wait, show the row or an error.  All but the *)
(* intake page disable their button meanwhile.                             *)
(*                                                                         *)
(* A fetch that fails in the browser tells nothing of the server, which    *)
(* may still be working on it.  What the server makes of two overlapping   *)
(* transitions is Overlapped of PlanStateMachine; all tabs of the approval *)
(* page are on one plan of it, and all tabs of the link page on one intake. *)
(***************************************************************************)
EXTENDS PlanStateMachine, Naturals

CONSTANTS
  Tabs,
  KindOf,      \* which page a tab has open
  PlanOf,      \* the plan of an approval page
  Openings,    \* the sets of tabs a user may have open
  MaxPresses,  \* bound on the presses of a tab's buttons
  MaxVisits    \* bound on how often a tab loads its page

Kinds == {"approve", "create", "repo", "intake"}
ASSUME KindAssumption == KindOf \in [Tabs -> Kinds] /\ PlanOf \in [Tabs -> Plans]
ASSUME OpeningsAssumption == Openings \subseteq SUBSET Tabs
ASSUME PressesAssumption ==
  MaxPresses \in [Tabs -> Nat] /\ MaxVisits \in [Tabs -> Nat]

VARIABLES
  open,      \* the tabs that are open
  \* the server
  version,   \* version[p]: how many transitions of plan p have landed
  stored,    \* the presses whose row is stored
  at,        \* at[x]: how far the server is with press x
  asked,     \* the action that press x of an approval page asks for
  read,      \* the status its transaction has read, while it is open
  reply,     \* the answer to x, until the page has it
  \* the pages
  visits, presses,
  status,    \* "submitting" while the button says so; for an approval page, pending
  awaited,   \* the presses a tab waits for
  row,       \* the press whose row a tab shows, 0: none
  log,       \* the status an approval page shows, and its version
  loadError,
  get,       \* the GET of the log: where it is, and what it has read
  \* history
  heard,     \* the newest version a tab was answered about
  raced,     \* a transition has landed on a status it had not read
  cut        \* a tab gave up a POST that the server had not answered

plans   == <<state, trail, version>>
server  == <<stored, at, asked, read>>
browser == <<open, visits, presses>>
page    == <<status, awaited, row>>
logs    == <<log, loadError, get>>
history == <<heard, raced, cut>>
pagesVars == <<state, trail, open, version, stored, at, asked, read, reply, visits,
               presses, status, awaited, row, log, loadError, get, heard, raced, cut>>

Approval(t)  == KindOf[t] = "approve"
Presses      == UNION {{t} \X (1..MaxPresses[t]) : t \in Tabs}
LastPress(t) == <<t, presses[t]>>
NoLog        == [status |-> "none", version |-> 0]
NoReply      == [code |-> "none", asOf |-> 0]
GetAt(label, l) == [at |-> label, log |-> l]

PagesInit ==
  /\ state = [p \in Plans |-> "draft"]
  /\ trail = [p \in Plans |-> {}]
  /\ open \in Openings
  /\ version = [p \in Plans |-> 0]
  /\ stored = {}
  /\ at = [x \in Presses |-> "unsent"]
  /\ asked = [x \in Presses |-> "none"]
  /\ read = [x \in Presses |-> "none"]
  /\ reply = [x \in Presses |-> NoReply]
  /\ visits = [t \in Tabs |-> 0]
  /\ presses = [t \in Tabs |-> 0]
  /\ status = [t \in Tabs |-> "closed"]
  /\ awaited = [t \in Tabs |-> {}]
  /\ row = [t \in Tabs |-> 0]
  /\ log = [t \in Tabs |-> NoLog]
  /\ loadError = [t \in Tabs |-> FALSE]
  /\ get = [t \in Tabs |-> GetAt("none", NoLog)]
  /\ heard = [t \in Tabs |-> 0]
  /\ raced = FALSE
  /\ cut = FALSE

-----------------------------------------------------------------------------
(* The pages. *)

(* What the server has not answered yet. *)
Underway(x) == at[x] \in {"sent", "read"}

(* The page is opened, or loaded again: its state is new, its effect loads  *)
(* the log, and nothing hears the answers to what it has sent.              *)
Load(t) ==
  /\ visits[t] < MaxVisits[t]
  /\ visits' = [visits EXCEPT ![t] = @ + 1]
  /\ status' = [status EXCEPT ![t] = "idle"]
  /\ cut' = (cut \/ \E x \in awaited[t] : Underway(x))
  /\ awaited' = [awaited EXCEPT ![t] = {}]
  /\ reply' = [x \in Presses |-> IF x \in awaited[t] THEN NoReply ELSE reply[x]]
  /\ row' = [row EXCEPT ![t] = 0]
  /\ log' = [log EXCEPT ![t] = NoLog]
  /\ loadError' = [loadError EXCEPT ![t] = FALSE]
  /\ get' = [get EXCEPT ![t] = GetAt(IF Approval(t) THEN "sent" ELSE "none", NoLog)]
  /\ UNCHANGED <<plans, server, open, presses, heard, raced>>

Send(t, action) ==
  LET x == <<t, presses[t] + 1>>
  IN /\ presses[t] < MaxPresses[t]
     /\ presses' = [presses EXCEPT ![t] = @ + 1]
     /\ at' = [at EXCEPT ![x] = "sent"]
     /\ asked' = [asked EXCEPT ![x] = action]
     /\ status' = [status EXCEPT ![t] = "submitting"]
     /\ awaited' = [awaited EXCEPT ![t] = @ \cup {x}]
     /\ UNCHANGED <<plans, logs, history, open, stored, read, reply, visits>>

(* Mutant: the buttons are not disabled while one is pending. *)
PressTransitionAnytime(t, action) ==
  /\ Approval(t) /\ status[t] # "closed"
  /\ Edge(log[t].status, action)
  /\ Send(t, action)
  /\ UNCHANGED row

(* canSubmit, canApprove and canReject are the edges that leave the status *)
(* of the log; no log, no button.                                          *)
PressTransition(t, action) ==
  /\ Approval(t) /\ status[t] = "idle"
  /\ Edge(log[t].status, action)
  /\ Send(t, action)
  /\ UNCHANGED row

(* Mutant: the button is not disabled. *)
PressCreateAnytime(t) ==
  /\ KindOf[t] \in {"create", "repo"} /\ status[t] # "closed"
  /\ Send(t, "create")
  /\ row' = [row EXCEPT ![t] = 0]

(* Run RCA, Generate plan, Export, Link repository. *)
PressCreate(t) ==
  /\ KindOf[t] \in {"create", "repo"} /\ status[t] \notin {"closed", "submitting"}
  /\ Send(t, "create")
  /\ row' = [row EXCEPT ![t] = 0]

(* Submit sample intake: of a run named after the millisecond, and so a row  *)
(* of its own; the link to the last intake stays.                            *)
PressIntake(t) ==
  /\ KindOf[t] = "intake" /\ status[t] # "closed"
  /\ Send(t, "create")
  /\ UNCHANGED row

-----------------------------------------------------------------------------
(* The server. *)

(* The answer to x, which is about version v of the plan. *)
Reply(x, c, v) ==
  /\ at' = [at EXCEPT ![x] = "replied"]
  /\ read' = [read EXCEPT ![x] = "none"]
  /\ reply' = [reply EXCEPT ![x] = IF x \in awaited[x[1]] THEN [code |-> c, asOf |-> v] ELSE @]

(* A transition reads the status, and is refused (409) if it does not allow it, *)
ReadStatus(x) ==
  LET p == PlanOf[x[1]]
  IN /\ Approval(x[1]) /\ at[x] = "sent"
     /\ IF Edge(state[p], asked[x])
        THEN /\ at' = [at EXCEPT ![x] = "read"]
             /\ read' = [read EXCEPT ![x] = state[p]]
             /\ UNCHANGED reply
        ELSE Reply(x, "conflict", version[p])
     /\ UNCHANGED <<plans, browser, page, logs, history, stored, asked>>

(* or lands; the acknowledgement of its COMMIT may be lost (500). *)
LandTransition(x) ==
  LET p == PlanOf[x[1]]
  IN /\ at[x] = "read"
     /\ LateMove(p, asked[x])
     /\ version' = [version EXCEPT ![p] = @ + 1]
     /\ raced' = (raced \/ state[p] # read[x])
     /\ \E c \in {"ok", "failed"} : Reply(x, c, version[p] + 1)
     /\ UNCHANGED <<browser, page, logs, stored, asked, heard, cut>>

(* A row is stored; for a link, only the first one. *)
Store(x) ==
  /\ ~Approval(x[1]) /\ at[x] = "sent"
  /\ KindOf[x[1]] = "repo" => \A y \in stored : KindOf[y[1]] # "repo"
  /\ stored' = stored \cup {x}
  /\ \E c \in {"ok", "failed"} : Reply(x, c, 0)
  /\ UNCHANGED <<plans, browser, page, logs, history, asked>>

(* Anything else: the request is refused or fails, and leaves nothing. *)
Refuse(x) ==
  /\ Underway(x)
  /\ Reply(x, "failed", 0)
  /\ UNCHANGED <<plans, browser, page, logs, history, stored, asked>>

-----------------------------------------------------------------------------
(* The answers. *)

Hear(x) ==
  /\ x \in awaited[x[1]]
  /\ awaited' = [awaited EXCEPT ![x[1]] = @ \ {x}]
  /\ reply' = [reply EXCEPT ![x] = NoReply]

(* Mutant: the log is loaded again only if the transition succeeded. *)
HearTransitionIfOk(x) ==
  LET t == x[1]
  IN /\ Approval(t) /\ at[x] = "replied"
     /\ Hear(x)
     /\ IF reply[x].code = "ok"
        THEN /\ get' = [get EXCEPT ![t] = GetAt("sent", NoLog)]
             /\ loadError' = [loadError EXCEPT ![t] = FALSE]
             /\ UNCHANGED status
        ELSE status' = [status EXCEPT ![t] = "idle"] /\ UNCHANGED <<get, loadError>>
     /\ heard' = [heard EXCEPT ![t] = IF reply[x].asOf > @ THEN reply[x].asOf ELSE @]
     /\ UNCHANGED <<plans, server, browser, row, log, raced, cut>>

(* A transition is answered, well or not: refresh(). *)
HearTransition(x) ==
  LET t == x[1]
  IN /\ Approval(t) /\ at[x] = "replied"
     /\ Hear(x)
     /\ get' = [get EXCEPT ![t] = GetAt("sent", NoLog)]
     /\ loadError' = [loadError EXCEPT ![t] = FALSE]
     /\ heard' = [heard EXCEPT ![t] = IF reply[x].asOf > @ THEN reply[x].asOf ELSE @]
     /\ UNCHANGED <<plans, server, browser, status, row, log, raced, cut>>

(* A created row is shown, *)
HearRow(x) ==
  /\ ~Approval(x[1]) /\ at[x] = "replied" /\ reply[x].code = "ok"
  /\ Hear(x)
  /\ row' = [row EXCEPT ![x[1]] = x[2]]
  /\ status' = [status EXCEPT ![x[1]] = "done"]
  /\ UNCHANGED <<plans, server, browser, logs, history>>

(* or the error. *)
HearError(x) ==
  /\ ~Approval(x[1]) /\ at[x] = "replied" /\ reply[x].code # "ok"
  /\ Hear(x)
  /\ status' = [status EXCEPT ![x[1]] = "error"]
  /\ UNCHANGED <<plans, server, browser, logs, history, row>>

(* Mutant: the catch block shows the error and sets nothing else. *)
LosePending(x) ==
  /\ Hear(x)
  /\ cut' = (cut \/ Underway(x))
  /\ UNCHANGED <<plans, server, browser, logs, status, row, heard, raced>>

(* The fetch fails, whatever the server does: an error is shown, the button *)
(* is enabled, and the approval page keeps the log it has.                  *)
Lose(x) ==
  /\ Hear(x)
  /\ status' = [status EXCEPT ![x[1]] = IF Approval(x[1]) THEN "idle" ELSE "error"]
  /\ cut' = (cut \/ Underway(x))
  /\ UNCHANGED <<plans, server, browser, logs, row, heard, raced>>

(* refresh(): the server reads the log, *)
ReadLog(t) ==
  LET p == PlanOf[t]
  IN /\ get[t].at = "sent"
     /\ get' = [get EXCEPT ![t] = GetAt("read", [status |-> state[p], version |-> version[p]])]
     /\ UNCHANGED <<plans, server, browser, page, history, reply, log, loadError>>

FinishRefresh(t) ==
  /\ get' = [get EXCEPT ![t] = GetAt("none", NoLog)]
  /\ status' = [status EXCEPT ![t] = "idle"]
  /\ UNCHANGED <<plans, server, browser, history, reply, awaited, row>>

(* Mutant: an optimistic page, which shows where its last transition leads. *)
ShowLogOptimistic(t) ==
  /\ get[t].at = "read"
  /\ log' = [log EXCEPT ![t] =
               IF presses[t] > 0 THEN [get[t].log EXCEPT !.status = Target(asked[LastPress(t)])]
               ELSE get[t].log]
  /\ FinishRefresh(t)
  /\ UNCHANGED loadError

(* and the page shows it; after a transition, the buttons are released. *)
ShowLog(t) ==
  /\ get[t].at = "read"
  /\ log' = [log EXCEPT ![t] = get[t].log]
  /\ FinishRefresh(t)
  /\ UNCHANGED loadError

(* The GET is refused, and the page has no log any more, or is lost, and it *)
(* keeps the old one.                                                       *)
LoadFails(t) ==
  /\ get[t].at # "none"
  /\ log' = [log EXCEPT ![t] = NoLog] \/ UNCHANGED log
  /\ loadError' = [loadError EXCEPT ![t] = TRUE]
  /\ FinishRefresh(t)

-----------------------------------------------------------------------------
Serve(x)  == ReadStatus(x) \/ LandTransition(x) \/ Store(x) \/ Refuse(x)
Deliver(x) == HearTransition(x) \/ HearRow(x) \/ HearError(x)
Refresh(t) == ReadLog(t) \/ ShowLog(t) \/ LoadFails(t)
Progress(t) == Refresh(t) \/ \E n \in 1..MaxPresses[t] : Serve(<<t, n>>) \/ Deliver(<<t, n>>)

PagesNext ==
  \/ \E t \in open :
       \/ Load(t) \/ PressCreate(t) \/ PressIntake(t) \/ Progress(t)
       \/ \E action \in PlanActions : PressTransition(t, action)
       \/ \E n \in 1..MaxPresses[t] : Lose(<<t, n>>)

PagesSpec == PagesInit /\ [][PagesNext]_pagesVars

(* The server answers every request: what the modules of its routes show,   *)
(* but for an export whose object store never answers; and the browser      *)
(* delivers every answer, or an error.                                      *)
FairSpec ==
  /\ PagesSpec
  /\ \A t \in Tabs : WF_pagesVars(Progress(t))

-----------------------------------------------------------------------------
(* A user with one tab, who is answered whatever is pressed, takes the plan  *)
(* along the drawing in packages/shared, though the server would let two     *)
(* transitions overlap: the disabled buttons and the awaited refresh.        *)
Alone == \A t, u \in open : Approval(t) /\ Approval(u) => t = u
MachineWhenAlone == [][cut' \/ ~Alone \/ MachineNext]_machineVars

(* The status an idle page shows is not older than what it was told of its   *)
(* transitions, in this visit or an earlier one: after a refusal too, it     *)
(* shows what refused it, unless it says that the log could not be loaded.   *)
ShownIsNotOlder ==
  \A t \in open :
    Approval(t) /\ status[t] = "idle" /\ log[t] # NoLog /\ ~loadError[t] =>
      log[t].version >= heard[t]

(* "This plan is in a terminal state; no further transitions are allowed":   *)
(* true of the plan for as long as a page says so, if no two transitions     *)
(* have overlapped in the server.                                            *)
NoticeHolds ==
  \A t \in open :
    ~raced /\ log[t].status \in {"approved", "rejected"} => state[PlanOf[t]] = log[t].status

(* A page shows the row of the button's last press or none, whatever earlier *)
(* presses left in the server; it says "done" exactly when it shows a row.   *)
(* The intake page is never disabled and may show any row that is stored.    *)
RowIsOfLastPress ==
  \A t \in open :
    /\ row[t] # 0 => <<t, row[t]>> \in stored
    /\ KindOf[t] \in {"create", "repo"} =>
         /\ row[t] \in {0, presses[t]}
         /\ status[t] = "done" <=> row[t] # 0

(* Every press ends: the button is enabled again. *)
PressEnds ==
  \A t \in Tabs : status[t] = "submitting" ~> status[t] # "submitting"
=============================================================================
