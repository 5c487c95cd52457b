--------------------------- MODULE RepoLinkProofs ---------------------------
(***************************************************************************)
(* Proofs about RepoLink and the pool it runs on, for any number of        *)
(* requests, connections, tenants and intakes, and bodies of any length.   *)
(*                                                                         *)
(* What a connection is for Postgres follows from where its user is; so    *)
(* the tenant it is set to is its user's while rows are read, and it is    *)
(* clean when it is released.  The holder of the unique entry of an intake *)
(* is alone, and a committed link never changes.                           *)
(***************************************************************************)
EXTENDS RepoLink, TLAPS

(* A connection is where its user has brought it. *)
ConnFollows(c) ==
  /\ user[c] = Nobody => tx[c] \in {"closed", "none"} /\ scope[c] = Nobody
  /\ user[c] # Nobody =>
       /\ pc[user[c]] \in InPool
       /\ \A d \in Conns : user[d] = user[c] => d = c
       /\ pc[user[c]] \in {"connected", "committed"} => tx[c] = "none"
       /\ pc[user[c]] = "ended" => tx[c] \in {"none", "broken"}
       /\ pc[user[c]] = "failing" => tx[c] \in {"aborted", "broken"}
       /\ pc[user[c]] \in {"begun", "scoped", "found", "free", "writing", "decided"} =>
            tx[c] = "open"
       /\ pc[user[c]] \in {"scoped", "found", "free", "writing", "decided"} =>
            scope[c] = Tenant(user[c])
       /\ tx[c] \in {"none", "broken"} => scope[c] = Nobody

(* A link is whole, of its intake's tenant, and its POST past the COMMIT. *)
LinkSound(i) ==
  link[i] # Nobody =>
    /\ Target(link[i]) = i /\ Kind(link[i]) = "link"
    /\ Tenant(link[i]) = Owner[i]
    /\ captured[link[i]] = ShasOf(Commits(link[i])) /\ ~Repeats(Commits(link[i]))
    /\ pc[link[i]] \in {"committed", "failing", "ended", "done"}

(* What a request knows on its way to the COMMIT. *)
DraftFollows(r) ==
  /\ pc[r] \in {"begun", "scoped", "found", "free", "writing", "decided"} => Kind(r) # "health"
  /\ pc[r] \in {"found", "free", "writing"} => Tenant(r) = Owner[Target(r)]
  /\ pc[r] \in {"free", "writing"} => Kind(r) = "link"
  /\ pc[r] = "found" /\ Kind(r) = "show" =>
       found[r] = link[Target(r)] /\ found[r] # Nobody
  /\ pc[r] = "writing" =>
       /\ verdict[r] = 201 /\ link[Target(r)] = Nobody
       /\ \A q \in Requests : Holder(q, Target(r)) => q = r
  /\ pc[r] \in {"idle", "waiting", "connected", "begun", "scoped", "found", "free"} =>
       wrote[r] = 0
  /\ wrote[r] <= Len(Commits(r))
  /\ \A j, k \in 1..wrote[r] : j # k => Lower[Commits(r)[j]] # Lower[Commits(r)[k]]
  /\ pc[r] # "done" => reply[r] = 0

(* What the answer "code" to r says of the tables. *)
Tells(r, code) ==
  /\ Kind(r) = "link" =>
       /\ code = 201 => link[Target(r)] = r /\ ~Repeats(Commits(r))
       /\ code = 409 => /\ link[Target(r)] # r
                        /\ link[Target(r)] # Nobody \/ Repeats(Commits(r))
       /\ code \in {400, 401, 404, 422} => link[Target(r)] # r
  /\ Kind(r) = "show" /\ code = 200 =>
       /\ found[r] = link[Target(r)] /\ found[r] # Nobody
       /\ shown[r] = ShasOf(Commits(found[r]))
  /\ Kind(r) # "health" /\ code \in {200, 201, 409} => Tenant(r) = Owner[Target(r)]

Underway == {"decided", "committed", "failing", "ended"}

DownIsIdle   == ~up => \A r \in Requests : pc[r] \in {"idle", "done"}
ConnsFollow  == \A c \in Conns : ConnFollows(c)
LinksSound   == \A i \in Intakes : LinkSound(i)
OthersEmpty  == \A r \in Requests : link[Target(r)] # r => captured[r] = {}
DraftsFollow == \A r \in Requests : DraftFollows(r)
RepliesTrue  == \A r \in Requests : Tells(r, reply[r])
(* A verdict is true from when it is reached until it is sent. *)
VerdictsTrue == \A r \in Requests : pc[r] \in Underway => Tells(r, verdict[r])

IInv == /\ TypeOK /\ DownIsIdle /\ ConnsFollow /\ LinksSound /\ OthersEmpty
        /\ DraftsFollow /\ RepliesTrue /\ VerdictsTrue

-----------------------------------------------------------------------------
LEMMA JobTypes ==
  ASSUME TypeOK, NEW r \in Requests
  PROVE  /\ Tenant(r) \in Tenants /\ Target(r) \in Intakes
         /\ Commits(r) \in Seq(Shas) /\ Len(Commits(r)) \in Nat
<1>1. job \in [Requests -> Job]
  BY JobsAssumption DEF TypeOK
<1>2. job[r] \in Job
  BY <1>1
<1>3. Tenant(r) \in Tenants /\ Target(r) \in Intakes /\ Commits(r) \in Seq(Shas)
  BY <1>2 DEF Job, Tenant, Target, Commits
<1>. QED
  BY <1>3

LEMMA InitIInv == Init => IInv
<1>. SUFFICES ASSUME Init PROVE IInv
  OBVIOUS
<1>1. TypeOK
  BY DEF Init, PoolInit, TypeOK, PoolTypeOK, TxStates, PCs
<1>2. ASSUME NEW c \in Conns PROVE ConnFollows(c)
  BY DEF Init, PoolInit, ConnFollows
<1>3. ASSUME NEW i \in Intakes PROVE LinkSound(i)
  BY DEF Init, LinkSound
<1>4. ASSUME NEW r \in Requests PROVE link[Target(r)] # r => captured[r] = {}
  BY DEF Init
<1>5. ASSUME NEW r \in Requests PROVE DraftFollows(r)
  <2>1. Target(r) \in Intakes /\ Len(Commits(r)) \in Nat
    BY <1>1, JobTypes
  <2>2. pc[r] = "idle" /\ wrote[r] = 0 /\ reply[r] = 0
    BY DEF Init
  <2>. QED
    BY <2>1, <2>2 DEF DraftFollows
<1>6. ASSUME NEW r \in Requests PROVE Tells(r, reply[r])
  BY DEF Init, Tells
<1>7. ASSUME NEW r \in Requests PROVE pc[r] \notin Underway
  BY DEF Init, Underway
<1>8. DownIsIdle
  BY DEF Init, DownIsIdle
<1>. QED
  BY <1>1, <1>2, <1>3, <1>4, <1>5, <1>6, <1>7, <1>8
  DEF IInv, ConnsFollow, LinksSound, OthersEmpty, DraftsFollow, RepliesTrue, VerdictsTrue

(* No step changes what was asked for. *)
LEMMA JobsKept ==
  ASSUME [Next]_vars
  PROVE  job' = job
<1>1. ASSUME NEW r \in Requests, Refuse(r) \/ Connect(r) \/ NotConnected(r) \/ Fail(r)
      PROVE  job' = job
  BY <1>1 DEF Refuse, Connect, NotConnected, Fail
<1>2. ASSUME NEW r \in Requests, Step(r)
      PROVE  job' = job
  BY <1>2 DEF Step, Connected, Begin, SetTenant, Ping, FindIntake, FindLink, InsertLink,
       InsertCommit, UniqueViolation, ShowLink, ShowCommits, Commit, Rollback, Answer
<1>3. ASSUME Crash
      PROVE  job' = job
  BY <1>3 DEF Crash
<1>. QED
  BY <1>1, <1>2, <1>3 DEF Next, vars

(* Types. *)
LEMMA TypeNext ==
  ASSUME TypeOK, LinksSound, DraftsFollow, [Next]_vars
  PROVE  TypeOK'
<1>. USE DEF TypeOK, pool, tables, work, PoolTypeOK, TxStates, PCs, InPool, Goto, Decide
<1>. DEFINE PoolRest == /\ user' \in [Conns -> Requests \cup {Nobody}]
                        /\ tx' \in [Conns -> TxStates]
                        /\ scope' \in [Conns -> Tenants \cup {Nobody}]
            Rest == /\ PoolRest
                    /\ link' \in [Intakes -> Requests \cup {Nobody}]
                    /\ captured' \in [Requests -> SUBSET Shas]
                    /\ pc' \in [Requests -> PCs]
                    /\ wrote' \in [Requests -> Nat]
                    /\ verdict' \in [Requests -> {0, 200, 201, 404, 409, 500}]
                    /\ found' \in [Requests -> Requests \cup {Nobody}]
                    /\ shown' \in [Requests -> SUBSET Shas]
                    /\ reply' \in [Requests -> {0, 200, 201, 400, 401, 404, 409, 422, 500}]
<1>1. ASSUME NEW r \in Requests, Refuse(r) \/ Connect(r) \/ NotConnected(r)
      PROVE  Rest
  BY <1>1 DEF Refuse, Connect, NotConnected
<1>2. ASSUME NEW r \in Requests, Connected(r) \/ Begin(r)
      PROVE  Rest
  BY <1>2 DEF Connected, Begin, CheckOut, BeginTx
<1>3. ASSUME NEW r \in Requests, SetTenant(r) \/ Ping(r)
      PROVE  Rest
  <2>1. Tenant(r) \in Tenants
    BY JobTypes
  <2>. QED
    BY <1>3, <2>1 DEF SetTenant, Ping, SetScope
<1>4. ASSUME NEW r \in Requests, FindIntake(r) \/ FindLink(r) \/ InsertLink(r)
      PROVE  Rest
  BY <1>4 DEF FindIntake, FindLink, InsertLink
<1>5. ASSUME NEW r \in Requests, InsertCommit(r)
      PROVE  Rest
  BY <1>5 DEF InsertCommit
<1>6. ASSUME NEW r \in Requests, UniqueViolation(r)
      PROVE  Rest
  BY <1>6 DEF UniqueViolation, AbortTx
<1>7. ASSUME NEW r \in Requests, ShowLink(r)
      PROVE  Rest
  <2>1. link[Target(r)] \in Requests \cup {Nobody}
    BY JobTypes
  <2>. QED
    BY <1>7, <2>1 DEF ShowLink
<1>8. ASSUME NEW r \in Requests, ShowCommits(r)
      PROVE  Rest
  <2>1. found[r] \in Requests
    BY <1>8 DEF ShowCommits, DraftsFollow, DraftFollows
  <2>. QED
    BY <1>8, <2>1 DEF ShowCommits
<1>9. ASSUME NEW r \in Requests, Commit(r)
      PROVE  Rest
  <2>1. Commits(r) \in Seq(Shas) /\ Len(Commits(r)) \in Nat /\ Target(r) \in Intakes
    BY JobTypes
  <2>2. wrote[r] \in Nat /\ wrote[r] <= Len(Commits(r))
    BY DEF DraftsFollow, DraftFollows
  <2>3. ASSUME NEW k \in 1..wrote[r] PROVE Lower[Commits(r)[k]] \in Shas
    BY <2>1, <2>2, LowerAssumption
  <2>4. Written(r) \subseteq Shas
    BY <2>3 DEF Written
  <2>5. link' \in [Intakes -> Requests \cup {Nobody}] /\ captured' \in [Requests -> SUBSET Shas]
    <3>1. \/ /\ link' = [link EXCEPT ![Target(r)] = r]
             /\ captured' = [captured EXCEPT ![r] = Written(r)]
          \/ UNCHANGED <<link, captured>>
      BY <1>9 DEF Commit, Publish
    <3>2. link' \in [Intakes -> Requests \cup {Nobody}]
      BY <2>1, <3>1
    <3>3. Written(r) \in SUBSET Shas
      BY <2>4
    <3>4. captured \in [Requests -> SUBSET Shas]
      OBVIOUS
    <3>5. captured' \in [Requests -> SUBSET Shas]
      BY ONLY <3>1, <3>3, <3>4
    <3>. QED
      BY <3>2, <3>5
  <2>6. PoolRest
    BY <1>9 DEF Commit, CommitTx, EndTx
  <2>7. pc' \in [Requests -> PCs] /\ verdict' \in [Requests -> {0, 200, 201, 404, 409, 500}]
    <3>1. Goto(r, "committed") \/ Goto(r, "failing")
      BY <1>9 DEF Commit
    <3>2. UNCHANGED verdict \/ verdict' = [verdict EXCEPT ![r] = 500]
      BY <1>9 DEF Commit
    <3>. QED
      BY <3>1, <3>2
  <2>8. UNCHANGED <<job, work, reply>>
    BY <1>9 DEF Commit
  <2>. QED
    BY <2>5, <2>6, <2>7, <2>8
<1>10. ASSUME NEW r \in Requests, Fail(r) \/ Rollback(r)
       PROVE  Rest
  BY <1>10 DEF Fail, AbortTx, BreakConn, Rollback, RollbackTx, EndTx
<1>11. ASSUME NEW r \in Requests, Answer(r)
       PROVE  Rest
  BY <1>11 DEF Answer, Release
<1>12. ASSUME Startup \/ CloseIdle, UNCHANGED <<tables, job, pc, work, verdict, reply>>
       PROVE  Rest
  BY <1>12 DEF Startup, CloseIdle
<1>13. ASSUME Crash
       PROVE  Rest
  BY <1>13, NobodyAssumption DEF Crash, Die, InFlight
<1>14. ASSUME UNCHANGED vars
       PROVE  Rest
  BY <1>14 DEF vars
<1>15. Rest
  BY <1>1, <1>2, <1>3, <1>4, <1>5, <1>6, <1>7, <1>8, <1>9, <1>10, <1>11, <1>12, <1>13, <1>14
  DEF Next, Step
<1>16. up' \in BOOLEAN
  <2>1. ASSUME NEW r \in Requests, Refuse(r) \/ Connect(r) \/ NotConnected(r) \/ Fail(r)
        PROVE  up' = up
    BY <2>1 DEF Refuse, Connect, NotConnected, Fail, AbortTx, BreakConn
  <2>2. ASSUME NEW r \in Requests, Step(r)
        PROVE  up' = up
    BY <2>2 DEF Step, Connected, Begin, SetTenant, Ping, FindIntake, FindLink, InsertLink,
         InsertCommit, UniqueViolation, ShowLink, ShowCommits, Commit, Rollback, Answer,
         CheckOut, BeginTx, SetScope, AbortTx, CommitTx, RollbackTx, Release
  <2>3. up' = TRUE \/ up' = FALSE \/ up' = up
    BY <2>1, <2>2 DEF Next, Startup, CloseIdle, Crash, Die, vars
  <2>4. up \in BOOLEAN
    OBVIOUS
  <2>. QED
    BY ONLY <2>3, <2>4
<1>17. job' \in Jobs
  BY JobsKept
<1>. QED
  BY <1>15, <1>16, <1>17, Zenon

(* Nobody is served while the API is down. *)
LEMMA DownNext ==
  ASSUME TypeOK, DownIsIdle, [Next]_vars
  PROVE  DownIsIdle'
<1>0. pc \in [Requests -> PCs]
  BY DEF TypeOK
<1>. USE <1>0 DEF DownIsIdle, pool, Goto, Decide, InPool, PCs, InFlight
<1>1. ASSUME NEW r \in Requests, Refuse(r) \/ Connect(r)
      PROVE  DownIsIdle'
  BY <1>1 DEF Refuse, Connect
<1>2. ASSUME NEW r \in Requests, NotConnected(r) \/ Fail(r) \/ Step(r)
      PROVE  up /\ up' = up
  BY <1>2 DEF NotConnected, Fail, Step, Connected, Begin, SetTenant, Ping, FindIntake,
       FindLink, InsertLink, InsertCommit, UniqueViolation, ShowLink, ShowCommits, Commit,
       Complete, Rollback, Answer, CheckOut, BeginTx, SetScope, AbortTx, BreakConn,
       CommitTx, RollbackTx, Release
<1>3. ASSUME Startup
      PROVE  DownIsIdle'
  BY <1>3 DEF Startup
<1>4. ASSUME CloseIdle, UNCHANGED pc
      PROVE  DownIsIdle'
  BY <1>4 DEF CloseIdle
<1>5. ASSUME Crash
      PROVE  DownIsIdle'
  BY <1>5 DEF Crash
<1>6. ASSUME UNCHANGED vars
      PROVE  DownIsIdle'
  BY <1>6 DEF vars
<1>. QED
  BY <1>1, <1>2, <1>3, <1>4, <1>5, <1>6 DEF Next

(* Only its user changes a connection, and only while it moves on. *)
LEMMA ConnsFollowNext ==
  ASSUME TypeOK, DownIsIdle, ConnsFollow, DraftsFollow, [Next]_vars
  PROVE  ConnsFollow'
<1>. SUFFICES ASSUME NEW c \in Conns PROVE ConnFollows(c)'
  BY DEF ConnsFollow
<1>0. /\ user \in [Conns -> Requests \cup {Nobody}] /\ tx \in [Conns -> TxStates]
      /\ scope \in [Conns -> Tenants \cup {Nobody}] /\ pc \in [Requests -> PCs]
  BY DEF TypeOK, PoolTypeOK
<1>. USE <1>0, NobodyAssumption
     DEF ConnsFollow, ConnFollows, pool, Goto, Decide, Holds, InPool, Tenant
<1>1. ASSUME NEW r \in Requests, Refuse(r) \/ Connect(r) \/ NotConnected(r)
      PROVE  ConnFollows(c)'
  BY <1>1 DEF Refuse, Connect, NotConnected
<1>2. ASSUME NEW r \in Requests, Connected(r)
      PROVE  ConnFollows(c)'
  BY <1>2 DEF Connected, CheckOut, Idle
<1>3. ASSUME NEW r \in Requests, Begin(r) \/ SetTenant(r)
      PROVE  ConnFollows(c)'
  BY <1>3 DEF Begin, SetTenant, BeginTx, SetScope
<1>4. ASSUME NEW r \in Requests, Ping(r) \/ FindIntake(r) \/ FindLink(r) \/ InsertLink(r)
      PROVE  ConnFollows(c)'
  BY <1>4 DEF Ping, FindIntake, FindLink, InsertLink
<1>5. ASSUME NEW r \in Requests, InsertCommit(r) \/ ShowLink(r) \/ ShowCommits(r)
      PROVE  ConnFollows(c)'
  BY <1>5 DEF InsertCommit, ShowLink, ShowCommits
<1>6. ASSUME NEW r \in Requests, UniqueViolation(r)
      PROVE  ConnFollows(c)'
  BY <1>6 DEF UniqueViolation, AbortTx
<1>7. ASSUME NEW r \in Requests, Commit(r)
      PROVE  ConnFollows(c)'
  BY <1>7 DEF Commit, Complete, CommitTx, EndTx
<1>8. ASSUME NEW r \in Requests, Fail(r)
      PROVE  ConnFollows(c)'
  <2>1. DraftFollows(r)
    BY DEF DraftsFollow
  <2>2. CASE AbortTx(r)
    BY <1>8, <2>1, <2>2 DEF Fail, AbortTx, DraftFollows, Kind
  <2>3. CASE BreakConn(r)
    BY <1>8, <2>3 DEF Fail, BreakConn, EndTx
  <2>. QED
    BY <1>8, <2>2, <2>3 DEF Fail
<1>9. ASSUME NEW r \in Requests, Rollback(r)
      PROVE  ConnFollows(c)'
  BY <1>9 DEF Rollback, RollbackTx, EndTx
<1>10. ASSUME NEW r \in Requests, Answer(r)
       PROVE  ConnFollows(c)'
  BY <1>10 DEF Answer, Release
<1>11. ASSUME Startup \/ CloseIdle, UNCHANGED <<tables, job, pc, work, verdict, reply>>
       PROVE  ConnFollows(c)'
  BY <1>11 DEF Startup, CloseIdle, Idle, DownIsIdle, tables
<1>12. ASSUME Crash
       PROVE  ConnFollows(c)'
  BY <1>12 DEF Crash, Die
<1>13. ASSUME UNCHANGED vars
       PROVE  ConnFollows(c)'
  BY <1>13 DEF vars
<1>. QED
  BY <1>1, <1>2, <1>3, <1>4, <1>5, <1>6, <1>7, <1>8, <1>9, <1>10, <1>11, <1>12, <1>13
  DEF Next, Step

(* A body all of which is written has no commit twice. *)
LEMMA WholeBody ==
  ASSUME TypeOK, NEW r \in Requests, DraftFollows(r), wrote[r] = Len(Commits(r))
  PROVE  Written(r) = ShasOf(Commits(r)) /\ ~Repeats(Commits(r))
<1>1. Commits(r) \in Seq(Shas) /\ Len(Commits(r)) \in Nat
  BY JobTypes
<1>2. DOMAIN Commits(r) = 1..wrote[r]
  BY <1>1
<1>3. \A j, k \in 1..wrote[r] : j # k => Lower[Commits(r)[j]] # Lower[Commits(r)[k]]
  BY DEF DraftFollows
<1>. QED
  BY <1>2, <1>3 DEF Written, ShasOf, Repeats

(* A commit that is refused as a duplicate is one of the body's own. *)
LEMMA RepeatedBody ==
  ASSUME TypeOK, NEW r \in Requests, wrote[r] < Len(Commits(r)), NextSha(r) \in Written(r)
  PROVE  Repeats(Commits(r))
<1>1. Commits(r) \in Seq(Shas) /\ Len(Commits(r)) \in Nat /\ wrote[r] \in Nat
  BY JobTypes DEF TypeOK
<1>2. PICK k \in 1..wrote[r] : Lower[Commits(r)[wrote[r] + 1]] = Lower[Commits(r)[k]]
  BY DEF NextSha, Written
<1>3. k \in DOMAIN Commits(r) /\ wrote[r] + 1 \in DOMAIN Commits(r) /\ k # wrote[r] + 1
  BY <1>1
<1>. QED
  BY <1>2, <1>3 DEF Repeats

(* What is asked for is read in the next state as in this one. *)
LEMMA AsksKept ==
  ASSUME [Next]_vars
  PROVE  /\ \A r : Kind(r)' = Kind(r)
         /\ \A r : Tenant(r)' = Tenant(r)
         /\ \A r : Target(r)' = Target(r)
         /\ \A r : Commits(r)' = Commits(r)
BY JobsKept DEF Kind, Tenant, Target, Commits

(* The tables change by the COMMIT of a complete body and by nothing else. *)
LEMMA Publishes ==
  ASSUME TypeOK, [Next]_vars
  PROVE  \/ UNCHANGED <<link, captured>>
         \/ \E r \in Requests :
              /\ Complete(r) /\ Commit(r)
              /\ link' = [link EXCEPT ![Target(r)] = r]
              /\ captured' = [captured EXCEPT ![r] = Written(r)]
<1>. USE DEF tables, pool
<1>1. ASSUME NEW r \in Requests, Refuse(r) \/ Connect(r) \/ NotConnected(r) \/ Fail(r)
      PROVE  UNCHANGED <<link, captured>>
  BY <1>1 DEF Refuse, Connect, NotConnected, Fail
<1>2. ASSUME NEW r \in Requests, Step(r)
      PROVE  Commit(r) \/ UNCHANGED <<link, captured>>
  BY <1>2 DEF Step, Connected, Begin, SetTenant, Ping, FindIntake, FindLink, InsertLink,
       InsertCommit, UniqueViolation, ShowLink, ShowCommits, Rollback, Answer
<1>3. ASSUME NEW r \in Requests, Commit(r)
      PROVE  \/ UNCHANGED <<link, captured>>
             \/ /\ Complete(r)
                /\ link' = [link EXCEPT ![Target(r)] = r]
                /\ captured' = [captured EXCEPT ![r] = Written(r)]
  BY <1>3 DEF Commit, Publish, Complete
<1>4. ASSUME Crash
      PROVE  UNCHANGED <<link, captured>>
  BY <1>4 DEF Crash
<1>. QED
  BY <1>1, <1>2, <1>3, <1>4 DEF Next, vars

Past == {"committed", "failing", "ended", "done"}

(* Nobody comes back from behind the COMMIT. *)
LEMMA PastKept ==
  ASSUME TypeOK, [Next]_vars, NEW q \in Requests, pc[q] \in Past
  PROVE  pc'[q] \in Past
<1>. USE DEF TypeOK, Past, Goto, Decide, InPool, InFlight
<1>1. ASSUME NEW r \in Requests, Refuse(r) \/ Connect(r) \/ NotConnected(r) \/ Fail(r)
      PROVE  pc'[q] \in Past
  BY <1>1 DEF Refuse, Connect, NotConnected, Fail
<1>2. ASSUME NEW r \in Requests, Connected(r) \/ Begin(r) \/ SetTenant(r) \/ Ping(r)
      PROVE  pc'[q] \in Past
  BY <1>2 DEF Connected, Begin, SetTenant, Ping
<1>3. ASSUME NEW r \in Requests, FindIntake(r) \/ FindLink(r) \/ InsertLink(r) \/ InsertCommit(r)
      PROVE  pc'[q] \in Past
  BY <1>3 DEF FindIntake, FindLink, InsertLink, InsertCommit
<1>4. ASSUME NEW r \in Requests, UniqueViolation(r) \/ ShowLink(r) \/ ShowCommits(r)
      PROVE  pc'[q] \in Past
  BY <1>4 DEF UniqueViolation, ShowLink, ShowCommits
<1>5. ASSUME NEW r \in Requests, Commit(r) \/ Rollback(r) \/ Answer(r)
      PROVE  pc'[q] \in Past
  <2>1. Goto(r, "committed") \/ Goto(r, "failing") \/ Goto(r, "ended") \/ Goto(r, "done")
    BY <1>5 DEF Commit, Rollback, Answer
  <2>. QED
    BY <2>1
<1>6. ASSUME Crash
      PROVE  pc'[q] \in Past
  BY <1>6 DEF Crash
<1>7. ASSUME UNCHANGED pc
      PROVE  pc'[q] \in Past
  BY <1>7
<1>. QED
  BY <1>1, <1>2, <1>3, <1>4, <1>5, <1>6, <1>7 DEF Next, Step, vars

(* A committed link is never touched again. *)
LEMMA LinksNext ==
  ASSUME TypeOK, LinksSound, OthersEmpty, DraftsFollow, [Next]_vars
  PROVE  LinksSound' /\ OthersEmpty'
<1>0. /\ link \in [Intakes -> Requests \cup {Nobody}] /\ captured \in [Requests -> SUBSET Shas]
      /\ pc \in [Requests -> PCs]
  BY DEF TypeOK
<1>1. CASE UNCHANGED <<link, captured>>
  <2>1. ASSUME NEW i \in Intakes, link[i] # Nobody PROVE pc'[link[i]] \in Past
    <3>1. link[i] \in Requests /\ pc[link[i]] \in Past
      BY <1>0, <2>1 DEF LinksSound, LinkSound, Past
    <3>. QED
      BY <3>1, PastKept
  <2>2. ASSUME NEW i \in Intakes PROVE LinkSound(i)'
    <3>. SUFFICES ASSUME link[i] # Nobody PROVE LinkSound(i)'
      BY <1>1 DEF LinkSound
    <3>1. LinkSound(i)
      BY DEF LinksSound
    <3>2. pc'[link[i]] \in Past
      BY <2>1
    <3>. QED
      BY <1>1, <3>1, <3>2, AsksKept DEF LinkSound, Past
  <2>3. ASSUME NEW r \in Requests, link'[Target(r)'] # r PROVE captured'[r] = {}
    BY <1>1, <2>3, AsksKept DEF OthersEmpty
  <2>. QED
    BY <2>2, <2>3 DEF LinksSound, OthersEmpty
<1>2. ASSUME NEW r \in Requests, Complete(r), Commit(r),
             link' = [link EXCEPT ![Target(r)] = r],
             captured' = [captured EXCEPT ![r] = Written(r)]
      PROVE  LinksSound' /\ OthersEmpty'
  <2>1. /\ Target(r) \in Intakes /\ Kind(r) = "link" /\ Tenant(r) = Owner[Target(r)]
        /\ link[Target(r)] = Nobody /\ pc[r] = "writing"
    BY <1>2, JobTypes DEF DraftsFollow, DraftFollows, Complete
  <2>2. Written(r) = ShasOf(Commits(r)) /\ ~Repeats(Commits(r))
    BY <1>2, WholeBody DEF Complete, DraftsFollow
  <2>3. pc'[r] \in Past
    BY <1>0, <1>2 DEF Commit, Goto, Decide, Past
  <2>4. ASSUME NEW i \in Intakes, i = Target(r) PROVE LinkSound(i)'
    BY <1>0, <1>2, <2>1, <2>2, <2>3, <2>4, AsksKept DEF LinkSound, Past
  <2>5. ASSUME NEW i \in Intakes, i # Target(r) PROVE LinkSound(i)'
    <3>1. link'[i] = link[i] /\ LinkSound(i)
      BY <1>0, <1>2, <2>5 DEF LinksSound
    <3>. SUFFICES ASSUME link[i] # Nobody PROVE LinkSound(i)'
      BY <3>1 DEF LinkSound
    <3>2. link[i] \in Requests /\ link[i] # r /\ pc[link[i]] \in Past
      BY <1>0, <2>5, <3>1 DEF LinkSound, Past
    <3>3. captured'[link[i]] = captured[link[i]]
      BY <1>0, <1>2, <3>2
    <3>4. pc'[link[i]] \in Past
      BY <3>2, PastKept
    <3>. QED
      BY <3>1, <3>3, <3>4, AsksKept DEF LinkSound, Past
  <2>6. ASSUME NEW q \in Requests, link'[Target(q)'] # q PROVE captured'[q] = {}
    <3>1. Target(q) \in Intakes /\ Target(q)' = Target(q)
      BY JobTypes, AsksKept
    <3>2. q # r
      BY <1>0, <1>2, <2>1, <2>6, <3>1
    <3>3. link[Target(q)] # q
      BY <1>0, <1>2, <2>1, <2>6, <3>1, NobodyAssumption
    <3>. QED
      BY <1>0, <1>2, <3>2, <3>3 DEF OthersEmpty
  <2>7. \A i \in Intakes : LinkSound(i)'
    BY <2>4, <2>5
  <2>. QED
    BY <2>6, <2>7 DEF LinksSound, OthersEmpty
<1>. QED
  BY <1>1, <1>2, Publishes

(* Rows are read by the tenant whose they are. *)
LEMMA ReadByTenant ==
  ASSUME TypeOK, ConnsFollow, NEW r \in Requests, NEW t \in Tenants, Readable(r, t),
         pc[r] \in {"scoped", "found"}
  PROVE  Tenant(r) = t
<1>1. PICK c \in Conns : user[c] = r /\ scope[c] = t
  BY DEF Readable, Holds
<1>. QED
  BY <1>1, NobodyAssumption DEF ConnsFollow, ConnFollows

(* A link that a request sees is of its own tenant, and so is the intake. *)
LEMMA SeenLink ==
  ASSUME TypeOK, ConnsFollow, LinksSound, NEW r \in Requests, LinkSeen(r),
         pc[r] \in {"scoped", "found"}
  PROVE  link[Target(r)] # Nobody /\ Tenant(r) = Owner[Target(r)]
<1>1. Target(r) \in Intakes /\ link[Target(r)] # Nobody
  BY JobTypes DEF LinkSeen
<1>2. link[Target(r)] \in Requests
  BY <1>1 DEF TypeOK
<1>3. Tenant(link[Target(r)]) \in Tenants
  BY <1>2, JobTypes
<1>4. Tenant(r) = Tenant(link[Target(r)])
  BY <1>3, ReadByTenant DEF LinkSeen
<1>. QED
  BY <1>1, <1>4 DEF LinksSound, LinkSound

(* On the way to the COMMIT nobody else takes the intake. *)
LEMMA DraftsNext ==
  ASSUME TypeOK, ConnsFollow, LinksSound, DraftsFollow, [Next]_vars
  PROVE  DraftsFollow'
<1>. SUFFICES ASSUME NEW q \in Requests PROVE DraftFollows(q)'
  BY DEF DraftsFollow
<1>0. /\ link \in [Intakes -> Requests \cup {Nobody}] /\ pc \in [Requests -> PCs]
      /\ wrote \in [Requests -> Nat] /\ found \in [Requests -> Requests \cup {Nobody}]
      /\ verdict \in [Requests -> {0, 200, 201, 404, 409, 500}]
      /\ reply \in [Requests -> {0, 200, 201, 400, 401, 404, 409, 422, 500}]
      /\ DraftFollows(q) /\ Target(q) \in Intakes
      /\ Commits(q) \in Seq(Shas) /\ Len(Commits(q)) \in Nat
  BY JobTypes DEF TypeOK, DraftsFollow
<1>a. /\ Kind(q)' = Kind(q) /\ Tenant(q)' = Tenant(q) /\ Target(q)' = Target(q)
      /\ Commits(q)' = Commits(q)
      /\ \A p \in Requests : Target(p)' = Target(p)
  BY AsksKept
<1>. USE <1>0, <1>a DEF DraftFollows, Holder, tables, work, Goto, Decide, InPool
<1>1. ASSUME NEW r \in Requests, Refuse(r) \/ Connect(r) \/ NotConnected(r) \/ Fail(r)
      PROVE  DraftFollows(q)'
  BY <1>1 DEF Refuse, Connect, NotConnected, Fail
<1>2. ASSUME NEW r \in Requests, Connected(r) \/ Begin(r) \/ SetTenant(r) \/ Ping(r)
      PROVE  DraftFollows(q)'
  BY <1>2 DEF Connected, Begin, SetTenant, Ping
<1>3. ASSUME NEW r \in Requests, FindIntake(r)
      PROVE  DraftFollows(q)'
  <2>1. Owner[Target(r)] \in Tenants
    BY JobTypes, OwnerAssumption
  <2>2. IntakeSeen(r) => Tenant(r) = Owner[Target(r)]
    BY <1>3, <2>1, ReadByTenant DEF IntakeSeen, FindIntake
  <2>. QED
    BY <1>3, <2>2 DEF FindIntake
<1>4. ASSUME NEW r \in Requests, FindLink(r) \/ InsertLink(r)
      PROVE  DraftFollows(q)'
  BY <1>4 DEF FindLink, InsertLink
<1>5. ASSUME NEW r \in Requests, InsertCommit(r)
      PROVE  DraftFollows(q)'
  <2>1. CASE q = r
    <3>1. wrote'[q] = wrote[q] + 1 /\ wrote'[q] <= Len(Commits(q)) /\ pc'[q] = "writing"
      BY <1>5, <2>1 DEF InsertCommit
    <3>a. ASSUME NEW k \in 1..wrote[q]
          PROVE  Lower[Commits(q)[wrote[q] + 1]] # Lower[Commits(q)[k]]
      BY <1>5, <2>1 DEF InsertCommit, NextSha, Written
    <3>2. ASSUME NEW j \in 1..wrote'[q], NEW k \in 1..wrote'[q], j # k
          PROVE  Lower[Commits(q)[j]] # Lower[Commits(q)[k]]
      <4>1. wrote[q] \in Nat /\ j \in 1..wrote[q] + 1 /\ k \in 1..wrote[q] + 1
        BY <3>1
      <4>2. CASE j \in 1..wrote[q] /\ k \in 1..wrote[q]
        BY <3>2, <4>2
      <4>3. CASE j = wrote[q] + 1 /\ k \in 1..wrote[q]
        BY <3>a, <4>3
      <4>4. CASE k = wrote[q] + 1 /\ j \in 1..wrote[q]
        BY <3>a, <4>4
      <4>. QED
        BY <3>2, <4>1, <4>2, <4>3, <4>4
    <3>. QED
      BY <1>5, <2>1, <3>1, <3>2 DEF InsertCommit
  <2>2. CASE q # r
    BY <1>5, <2>2 DEF InsertCommit
  <2>. QED
    BY <2>1, <2>2
<1>6. ASSUME NEW r \in Requests, UniqueViolation(r)
      PROVE  DraftFollows(q)'
  BY <1>6 DEF UniqueViolation
<1>7. ASSUME NEW r \in Requests, ShowLink(r)
      PROVE  DraftFollows(q)'
  <2>1. LinkSeen(r) => link[Target(r)] # Nobody /\ Tenant(r) = Owner[Target(r)]
    BY <1>7, SeenLink DEF ShowLink
  <2>. QED
    BY <1>7, <2>1 DEF ShowLink
<1>8. ASSUME NEW r \in Requests, ShowCommits(r)
      PROVE  DraftFollows(q)'
  BY <1>8 DEF ShowCommits
<1>9. ASSUME NEW r \in Requests, Commit(r)
      PROVE  DraftFollows(q)'
  <2>1. \/ Goto(r, "committed") /\ UNCHANGED verdict
        \/ Decide(r, 500, "failing")
    BY <1>9 DEF Commit
  <2>0. pc[r] # "done"
    BY <1>9 DEF Commit, Complete
  <2>2. UNCHANGED <<work, reply>> /\ (UNCHANGED link \/ link' = [link EXCEPT ![Target(r)] = r])
    BY <1>9 DEF Commit, Publish
  <2>3. CASE q = r
    BY <2>0, <2>1, <2>2, <2>3
  <2>4. CASE q # r /\ UNCHANGED link
    BY <2>1, <2>2, <2>4
  <2>5. CASE q # r /\ ~UNCHANGED link
    <3>1. pc[r] = "writing" /\ link[Target(r)] = Nobody
      BY <1>9, <2>5 DEF Commit, Publish, DraftsFollow
    <3>2. pc[q] = "writing" => Target(q) # Target(r)
      BY <2>5, <3>1
    <3>. QED
      BY <2>1, <2>2, <2>5, <3>1, <3>2
  <2>. QED
    BY <2>3, <2>4, <2>5
<1>10. ASSUME NEW r \in Requests, Rollback(r) \/ Answer(r)
       PROVE  DraftFollows(q)'
  BY <1>10 DEF Rollback, Answer
<1>11. ASSUME Crash
       PROVE  DraftFollows(q)'
  BY <1>11 DEF Crash, InFlight
<1>12. ASSUME UNCHANGED <<tables, job, pc, work, verdict, reply>>
       PROVE  DraftFollows(q)'
  BY <1>12
<1>. QED
  BY <1>1, <1>2, <1>3, <1>4, <1>5, <1>6, <1>7, <1>8, <1>9, <1>10, <1>11, <1>12
  DEF Next, Step, vars

(* Nobody's link is replaced, or becomes another's by a COMMIT of its own. *)
LEMMA LinkKept ==
  ASSUME TypeOK, DraftsFollow, [Next]_vars, NEW q \in Requests
  PROVE  /\ link[Target(q)] # Nobody => link'[Target(q)] = link[Target(q)]
         /\ pc[q] # "writing" => (link'[Target(q)] = q <=> link[Target(q)] = q)
<1>0. link \in [Intakes -> Requests \cup {Nobody}] /\ Target(q) \in Intakes
  BY JobTypes DEF TypeOK
<1>1. ASSUME NEW r \in Requests, Complete(r), link' = [link EXCEPT ![Target(r)] = r]
      PROVE  /\ link[Target(q)] # Nobody => link'[Target(q)] = link[Target(q)]
             /\ pc[q] # "writing" => (link'[Target(q)] = q <=> link[Target(q)] = q)
  <2>1. link[Target(r)] = Nobody /\ pc[r] = "writing"
    BY <1>1 DEF DraftsFollow, DraftFollows, Complete
  <2>. QED
    BY <1>0, <1>1, <2>1, NobodyAssumption
<1>. QED
  BY <1>1, Publishes

(* What a GET has read stays read. *)
LEMMA ReadKept ==
  ASSUME TypeOK, [Next]_vars, NEW q \in Requests, pc[q] \notin {"scoped", "found"}
  PROVE  found'[q] = found[q] /\ shown'[q] = shown[q]
<1>. USE DEF work, TypeOK
<1>1. ASSUME NEW r \in Requests, Refuse(r) \/ Connect(r) \/ NotConnected(r) \/ Fail(r)
      PROVE  UNCHANGED <<found, shown>>
  BY <1>1 DEF Refuse, Connect, NotConnected, Fail
<1>2. ASSUME NEW r \in Requests, Step(r)
      PROVE  ShowLink(r) \/ ShowCommits(r) \/ UNCHANGED <<found, shown>>
  BY <1>2 DEF Step, Connected, Begin, SetTenant, Ping, FindIntake, FindLink, InsertLink,
       InsertCommit, UniqueViolation, Commit, Rollback, Answer
<1>3. ASSUME NEW r \in Requests, ShowLink(r) \/ ShowCommits(r)
      PROVE  found'[q] = found[q] /\ shown'[q] = shown[q]
  BY <1>3 DEF ShowLink, ShowCommits
<1>4. ASSUME Crash
      PROVE  UNCHANGED <<found, shown>>
  BY <1>4 DEF Crash
<1>. QED
  BY <1>1, <1>2, <1>3, <1>4 DEF Next, vars

(* What was true to say stays true, once the request has decided. *)
LEMMA TellsKept ==
  ASSUME TypeOK, DraftsFollow, [Next]_vars, NEW q \in Requests, NEW code,
         pc[q] \in Underway \cup {"done"}, Tells(q, code)
  PROVE  Tells(q, code)'
<1>1. /\ link[Target(q)] # Nobody => link'[Target(q)] = link[Target(q)]
      /\ link'[Target(q)] = q <=> link[Target(q)] = q
  BY LinkKept DEF Underway
<1>2. found'[q] = found[q] /\ shown'[q] = shown[q]
  BY ReadKept DEF Underway
<1>3. /\ Kind(q)' = Kind(q) /\ Tenant(q)' = Tenant(q) /\ Target(q)' = Target(q)
      /\ Commits(q)' = Commits(q)
  BY AsksKept
<1>4. Commits(found[q])' = Commits(found[q])
  BY <1>2, JobsKept DEF Commits
<1>. QED
  BY <1>1, <1>2, <1>3, <1>4 DEF Tells

(* A request that has no link yet may refuse. *)
LEMMA NotYetLinked ==
  ASSUME TypeOK, LinksSound, NEW q \in Requests, pc[q] \notin Past
  PROVE  link[Target(q)] # q
<1>1. Target(q) \in Intakes
  BY JobTypes
<1>. QED
  BY <1>1, NobodyAssumption DEF LinksSound, LinkSound, Past

LEMMA RepliesNext ==
  ASSUME TypeOK, LinksSound, DraftsFollow, RepliesTrue, VerdictsTrue, [Next]_vars
  PROVE  RepliesTrue'
<1>. SUFFICES ASSUME NEW q \in Requests PROVE Tells(q, reply[q])'
  BY DEF RepliesTrue
<1>0. /\ pc \in [Requests -> PCs]
      /\ reply \in [Requests -> {0, 200, 201, 400, 401, 404, 409, 422, 500}]
  BY DEF TypeOK
<1>1. ASSUME NEW code, reply'[q] = code, Tells(q, code)' PROVE Tells(q, reply[q])'
  BY <1>1 DEF Tells
<1>2. CASE reply'[q] = reply[q]
  <2>1. PICK code : code = reply[q]
    OBVIOUS
  <2>2. CASE code = 0
    <3>1. Tells(q, code)'
      BY <2>2 DEF Tells
    <3>. QED
      BY <1>1, <1>2, <2>1, <3>1
  <2>3. CASE code # 0
    <3>1. pc[q] = "done"
      BY <2>1, <2>3 DEF DraftsFollow, DraftFollows
    <3>2. Tells(q, code)
      BY <2>1 DEF RepliesTrue
    <3>3. Tells(q, code)'
      BY <3>1, <3>2, TellsKept
    <3>. QED
      BY <1>1, <1>2, <2>1, <3>3
  <2>. QED
    BY <2>2, <2>3
<1>3. ASSUME Refuse(q)
      PROVE  Tells(q, reply[q])'
  <2>1. pc[q] = "idle" /\ Kind(q) # "health"
    BY <1>3 DEF Refuse
  <2>2. link[Target(q)] # q
    BY <2>1, NotYetLinked DEF Past
  <2>3. PICK code \in {400, 401, 422} : reply' = [reply EXCEPT ![q] = code]
    BY <1>3 DEF Refuse
  <2>4. Tells(q, code)
    BY <2>2, <2>3 DEF Tells
  <2>5. Tells(q, code)'
    BY <1>3, <2>4 DEF Refuse, Tells, tables, work, Kind, Target, Tenant, Commits
  <2>. QED
    BY <1>0, <1>1, <2>3, <2>5
<1>4. ASSUME NotConnected(q)
      PROVE  Tells(q, reply[q])'
  <2>1. reply'[q] = 500
    BY <1>0, <1>4 DEF NotConnected
  <2>. QED
    BY <2>1 DEF Tells
<1>5. ASSUME Answer(q)
      PROVE  Tells(q, reply[q])'
  <2>1. PICK code : code = verdict[q]
    OBVIOUS
  <2>2. reply'[q] = code /\ pc[q] \in Underway
    BY <1>0, <1>5, <2>1 DEF Answer, Underway
  <2>3. Tells(q, code)
    BY <2>1, <2>2 DEF VerdictsTrue
  <2>4. Tells(q, code)'
    BY <2>2, <2>3, TellsKept
  <2>. QED
    BY <1>1, <2>2, <2>4
<1>6. ASSUME NEW r \in Requests, Refuse(r) \/ NotConnected(r) \/ Answer(r), r # q
      PROVE  reply'[q] = reply[q]
  BY <1>0, <1>6 DEF Refuse, NotConnected, Answer
<1>7. ASSUME NEW r \in Requests, Connect(r) \/ Fail(r) \/ Step(r), ~Answer(r)
      PROVE  reply' = reply
  BY <1>7 DEF Connect, Fail, Step, Connected, Begin, SetTenant, Ping, FindIntake, FindLink,
       InsertLink, InsertCommit, UniqueViolation, ShowLink, ShowCommits, Commit, Rollback
<1>8. ASSUME Crash
      PROVE  reply' = reply
  BY <1>8 DEF Crash
<1>. QED
  BY <1>2, <1>3, <1>4, <1>5, <1>6, <1>7, <1>8 DEF Next, vars, Step

LEMMA VerdictsNext ==
  ASSUME TypeOK, ConnsFollow, LinksSound, DraftsFollow, VerdictsTrue, [Next]_vars
  PROVE  VerdictsTrue'
<1>. SUFFICES ASSUME NEW q \in Requests, pc'[q] \in Underway PROVE Tells(q, verdict[q])'
  BY DEF VerdictsTrue
<1>0. /\ pc \in [Requests -> PCs] /\ verdict \in [Requests -> {0, 200, 201, 404, 409, 500}]
      /\ DraftFollows(q) /\ Target(q) \in Intakes
      /\ shown \in [Requests -> SUBSET Shas] /\ found \in [Requests -> Requests \cup {Nobody}]
      /\ link \in [Intakes -> Requests \cup {Nobody}] 
  BY JobTypes DEF TypeOK, DraftsFollow
<1>1. ASSUME NEW code, verdict'[q] = code, Tells(q, code)' PROVE Tells(q, verdict[q])'
  BY <1>1 DEF Tells
<1>. USE DEF Goto, Decide
<1>2. ASSUME pc[q] \in Underway, verdict'[q] = verdict[q]
      PROVE  Tells(q, verdict[q])'
  <2>1. PICK code : code = verdict[q]
    OBVIOUS
  <2>2. Tells(q, code)
    BY <1>2, <2>1 DEF VerdictsTrue
  <2>3. Tells(q, code)'
    BY <1>2, <2>2, TellsKept
  <2>. QED
    BY <1>1, <1>2, <2>1, <2>3
<1>3. ASSUME verdict'[q] = 500
      PROVE  Tells(q, verdict[q])'
  BY <1>3 DEF Tells
<1>4. ASSUME Ping(q)
      PROVE  Tells(q, verdict[q])'
  BY <1>0, <1>4 DEF Ping, Tells, Kind
<1>5. ASSUME NEW code, UNCHANGED <<link, found, job>>, Tells(q, code), code # 200
      PROVE  Tells(q, code)'
  BY <1>5 DEF Tells, Kind, Target, Tenant, Commits
<1>6. ASSUME FindIntake(q) \/ FindLink(q) \/ UniqueViolation(q)
      PROVE  Tells(q, verdict[q])'
  <2>1. /\ pc[q] \notin Past /\ UNCHANGED <<link, found, job>>
        /\ verdict'[q] \in {404, 409}
    BY <1>0, <1>6 DEF FindIntake, FindLink, UniqueViolation, Past, Underway, tables, work
  <2>2. link[Target(q)] # q
    BY <2>1, NotYetLinked
  <2>3. verdict'[q] = 404 => Tells(q, 404)
    BY <2>2 DEF Tells
  <2>4. FindLink(q) /\ verdict'[q] = 409 =>
          link[Target(q)] # Nobody /\ Tenant(q) = Owner[Target(q)]
    BY <1>0, SeenLink DEF FindLink, DraftFollows, Underway
  <2>5. UniqueViolation(q) =>
          /\ link[Target(q)] # Nobody \/ Repeats(Commits(q))
          /\ Tenant(q) = Owner[Target(q)]
    BY <1>0, RepeatedBody DEF UniqueViolation, DraftFollows
  <2>6. verdict'[q] = 409 => Tells(q, 409)
    BY <1>0, <1>6, <2>2, <2>4, <2>5 DEF FindIntake, Tells, Underway
  <2>. QED
    BY <1>1, <1>5, <2>1, <2>3, <2>6
<1>7. ASSUME ShowLink(q)
      PROVE  Tells(q, verdict[q])'
  <2>1. verdict'[q] = 404 /\ Kind(q) = "show" /\ job' = job
    BY <1>0, <1>7 DEF ShowLink, Underway
  <2>. QED
    BY <2>1 DEF Tells, Kind
<1>8. ASSUME ShowCommits(q)
      PROVE  Tells(q, verdict[q])'
  <2>1. /\ verdict'[q] = 200 /\ Kind(q) = "show" /\ shown'[q] = captured[found[q]]
        /\ UNCHANGED <<link, found, job>>
    BY <1>0, <1>8 DEF ShowCommits, tables
  <2>2. found[q] = link[Target(q)] /\ found[q] # Nobody /\ Tenant(q) = Owner[Target(q)]
    BY <1>0, <1>8 DEF ShowCommits, DraftFollows
  <2>3. captured[found[q]] = ShasOf(Commits(found[q]))
    BY <1>0, <2>2 DEF LinksSound, LinkSound
  <2>. QED
    BY <2>1, <2>2, <2>3 DEF Tells, Kind, Target, Tenant, Commits
<1>9. ASSUME Commit(q)
      PROVE  Tells(q, verdict[q])'
  <2>0. UNCHANGED verdict \/ verdict' = [verdict EXCEPT ![q] = 500]
    BY <1>9 DEF Commit
  <2>1. CASE pc[q] = "decided"
    BY <1>0, <1>2, <1>3, <2>0, <2>1 DEF Underway
  <2>2. CASE Complete(q)
    <3>1. /\ link' = [link EXCEPT ![Target(q)] = q] /\ job' = job
      BY <1>9, <2>2 DEF Commit, Publish, Complete
    <3>a. verdict'[q] \in {201, 500}
      BY <1>0, <2>0, <2>2 DEF Complete, DraftFollows
    <3>2. ~Repeats(Commits(q)) /\ Tenant(q) = Owner[Target(q)] /\ Kind(q) = "link"
      BY <1>0, <2>2, WholeBody DEF Complete, DraftFollows
    <3>. QED
      BY <1>0, <3>1, <3>a, <3>2 DEF Tells, Kind, Target, Tenant, Commits
  <2>. QED
    BY <1>9, <2>1, <2>2 DEF Commit
<1>10. ASSUME Fail(q)
       PROVE  Tells(q, verdict[q])'
  BY <1>0, <1>3, <1>10 DEF Fail
<1>11. ASSUME Rollback(q) \/ Answer(q)
       PROVE  pc[q] \in Underway /\ verdict'[q] = verdict[q]
  BY <1>11 DEF Rollback, Answer, Underway
<1>12. ASSUME Refuse(q) \/ Connect(q) \/ NotConnected(q) \/ Connected(q) \/ Begin(q)
       PROVE  pc'[q] \notin Underway
  BY <1>0, <1>12 DEF Refuse, Connect, NotConnected, Connected, Begin, Underway
<1>13. ASSUME SetTenant(q) \/ InsertLink(q) \/ InsertCommit(q)
       PROVE  pc'[q] \notin Underway
  BY <1>0, <1>13 DEF SetTenant, InsertLink, InsertCommit, Underway
<1>14. ASSUME NEW r \in Requests, r # q,
              Refuse(r) \/ Connect(r) \/ NotConnected(r) \/ Fail(r) \/ Step(r)
       PROVE  pc'[q] = pc[q] /\ verdict'[q] = verdict[q]
  <2>1. ASSUME Refuse(r) \/ Connect(r) \/ NotConnected(r) \/ Fail(r)
        PROVE  pc'[q] = pc[q] /\ verdict'[q] = verdict[q]
    BY <1>0, <1>14, <2>1 DEF Refuse, Connect, NotConnected, Fail
  <2>2. ASSUME Connected(r) \/ Begin(r) \/ SetTenant(r) \/ Ping(r) \/ FindIntake(r) \/ FindLink(r)
        PROVE  pc'[q] = pc[q] /\ verdict'[q] = verdict[q]
    BY <1>0, <1>14, <2>2 DEF Connected, Begin, SetTenant, Ping, FindIntake, FindLink
  <2>3. ASSUME InsertLink(r) \/ InsertCommit(r) \/ UniqueViolation(r) \/ ShowLink(r)
        PROVE  pc'[q] = pc[q] /\ verdict'[q] = verdict[q]
    BY <1>0, <1>14, <2>3 DEF InsertLink, InsertCommit, UniqueViolation, ShowLink
  <2>4. ASSUME ShowCommits(r) \/ Rollback(r) \/ Answer(r)
        PROVE  pc'[q] = pc[q] /\ verdict'[q] = verdict[q]
    BY <1>0, <1>14, <2>4 DEF ShowCommits, Rollback, Answer
  <2>5. ASSUME Commit(r)
        PROVE  pc'[q] = pc[q] /\ verdict'[q] = verdict[q]
    <3>1. \/ Goto(r, "committed") /\ UNCHANGED verdict
          \/ Decide(r, 500, "failing")
      BY <2>5 DEF Commit
    <3>. QED
      BY <1>0, <1>14, <3>1
  <2>. QED
    BY <1>14, <2>1, <2>2, <2>3, <2>4, <2>5 DEF Step
<1>15. ASSUME Crash
       PROVE  pc[q] \in Underway => pc'[q] \notin Underway
  BY <1>0, <1>15 DEF Crash, Underway, InFlight, InPool
<1>16. ASSUME Crash
       PROVE  pc'[q] = pc[q] \/ pc'[q] = "done"
  BY <1>0, <1>16 DEF Crash
<1>17. ASSUME UNCHANGED <<pc, verdict>>
       PROVE  pc'[q] = pc[q] /\ verdict'[q] = verdict[q]
  BY <1>17
<1>18. "done" \notin Underway
  BY DEF Underway
<1>. QED
  BY <1>2, <1>4, <1>6, <1>7, <1>8, <1>9, <1>10, <1>11, <1>12, <1>13, <1>14, <1>15, <1>16,
     <1>17, <1>18
  DEF Next, Step, vars

-----------------------------------------------------------------------------
(* IInv is inductive. *)
THEOREM Invariant == Spec => []IInv
<1>1. IInv /\ [Next]_vars => IInv'
  BY TypeNext, DownNext, ConnsFollowNext, LinksNext, DraftsNext, RepliesNext, VerdictsNext
  DEF IInv
<1>. QED
  BY <1>1, InitIInv, PTL DEF Spec

(* The variables of the route and of the pool keep their types. *)
THEOREM TypeCorrect == Spec => []TypeOK
BY Invariant, PTL DEF IInv

(* A connection is checked out by exactly one request that is being served, *)
(* or clean, whichever way each transaction ended (withTenant).             *)
THEOREM ConnectionsAlwaysReturned == Spec => []ConnectionsReturned
<1>1. IInv => ConnectionsReturned
  <2>. SUFFICES ASSUME IInv, NEW c \in Conns
                PROVE  IF user[c] = Nobody
                       THEN tx[c] \in {"closed", "none"} /\ scope[c] = Nobody
                       ELSE /\ pc[user[c]] \in InPool
                            /\ \A d \in Conns : user[d] = user[c] => d = c
    BY Zenon DEF ConnectionsReturned
  <2>. QED
    BY DEF IInv, ConnsFollow, ConnFollows
<1>. QED
  BY <1>1, Invariant, PTL

(* At every moment a committed link has all the commits its POST sent. *)
THEOREM LinksWhole == Spec => []OneWholeLink
<1>1. IInv => OneWholeLink
  <2>1. ASSUME IInv, NEW i \in Intakes, link[i] # Nobody PROVE Target(link[i]) = i
    BY <2>1 DEF IInv, LinksSound, LinkSound
  <2>2. ASSUME IInv, NEW i \in Intakes, link[i] # Nobody
        PROVE  captured[link[i]] = ShasOf(Commits(link[i]))
    BY <2>2 DEF IInv, LinksSound, LinkSound
  <2>3. ASSUME IInv PROVE OthersEmpty
    BY <2>3 DEF IInv
  <2>. QED
    BY <2>1, <2>2, <2>3, Zenon DEF OneWholeLink, OthersEmpty
<1>. QED
  BY <1>1, Invariant, PTL

(* A GET shows a link with the commits its POST sent. *)
THEOREM ShownWhole == Spec => []GetShowsWhole
<1>1. IInv => GetShowsWhole
  <2>. SUFFICES ASSUME IInv, NEW g \in Requests, Kind(g) = "show", reply[g] = 200
                PROVE  /\ found[g] = link[Target(g)] /\ found[g] # Nobody
                       /\ shown[g] = ShasOf(Commits(found[g]))
    BY Zenon DEF GetShowsWhole
  <2>. QED
    BY DEF IInv, RepliesTrue, Tells
<1>. QED
  BY <1>1, Invariant, PTL

(* What a POST is answered agrees with the tables, at once and ever after. *)
THEOREM AnswersTell == Spec => []AnswerTellsLink
<1>1. IInv => AnswerTellsLink
  <2>. SUFFICES ASSUME IInv, NEW r \in Requests, Kind(r) = "link"
                PROVE  /\ reply[r] = 201 => link[Target(r)] = r /\ ~Repeats(Commits(r))
                       /\ reply[r] = 409 => /\ link[Target(r)] # r
                                            /\ link[Target(r)] # Nobody \/ Repeats(Commits(r))
                       /\ reply[r] \in {400, 401, 404, 422} => link[Target(r)] # r
    BY Zenon DEF AnswerTellsLink
  <2>. QED
    BY DEF IInv, RepliesTrue, Tells
<1>. QED
  BY <1>1, Invariant, PTL

(* No answer and no row crosses from one tenant to another. *)
THEOREM TenantsStayApart == Spec => []TenantsApart
<1>1. IInv => TenantsApart
  <2>1. ASSUME IInv, NEW r \in Requests, Kind(r) # "health", reply[r] \in {200, 201, 409}
        PROVE  Tenant(r) = Owner[Target(r)]
    BY <2>1 DEF IInv, RepliesTrue, Tells
  <2>2. ASSUME IInv, NEW i \in Intakes, link[i] # Nobody PROVE Tenant(link[i]) = Owner[i]
    BY <2>2 DEF IInv, LinksSound, LinkSound
  <2>. QED
    BY <2>1, <2>2, Zenon DEF TenantsApart
<1>. QED
  BY <1>1, Invariant, PTL

-----------------------------------------------------------------------------
(* The refinement: the COMMIT of a complete body stores the entry of its     *)
(* intake, and an answer that names a link tells it.                         *)

(* No link is committed and nobody has been told of one. *)
LEMMA LedgerInit == Init => Ledger!OnceInit
<1>. SUFFICES ASSUME Init PROVE Ledger!OnceInit
  OBVIOUS
<1>1. \A i \in Intakes : LinkOf(i) = {}
  BY DEF Init, LinkOf
<1>2. ASSUME NEW r \in Requests PROVE Told(r) = {}
  <2>1. reply[r] = 0
    BY DEF Init
  <2>. QED
    BY <2>1 DEF Told
<1>. QED
  BY <1>1, <1>2 DEF Ledger!OnceInit

(* A step answers one request at most, with an error or with its verdict. *)
LEMMA AnswersOne ==
  ASSUME TypeOK, DraftsFollow, [Next]_vars
  PROVE  \/ UNCHANGED reply
         \/ \E r \in Requests :
              /\ pc[r] # "done" /\ UNCHANGED <<link, captured>>
              /\ \A q \in Requests \ {r} : reply'[q] = reply[q]
              /\ \/ reply'[r] \notin {200, 201}
                 \/ pc[r] \in Underway /\ reply'[r] = verdict[r]
<1>0. reply \in [Requests -> {0, 200, 201, 400, 401, 404, 409, 422, 500}]
  BY DEF TypeOK
<1>1. ASSUME NEW r \in Requests, Refuse(r) \/ NotConnected(r)
      PROVE  /\ pc[r] # "done" /\ UNCHANGED <<link, captured>>
             /\ \A q \in Requests \ {r} : reply'[q] = reply[q]
             /\ reply'[r] \notin {200, 201}
  BY <1>0, <1>1 DEF Refuse, NotConnected, tables
<1>2. ASSUME NEW r \in Requests, Answer(r)
      PROVE  /\ pc[r] # "done" /\ UNCHANGED <<link, captured>>
             /\ \A q \in Requests \ {r} : reply'[q] = reply[q]
             /\ pc[r] \in Underway /\ reply'[r] = verdict[r]
  BY <1>0, <1>2 DEF Answer, tables, Underway
<1>3. ASSUME NEW r \in Requests, Connect(r) \/ Fail(r)
      PROVE  UNCHANGED reply
  BY <1>3 DEF Connect, Fail
<1>4. ASSUME NEW r \in Requests, Step(r)
      PROVE  Answer(r) \/ UNCHANGED reply
  BY <1>4 DEF Step, Connected, Begin, SetTenant, Ping, FindIntake, FindLink, InsertLink,
       InsertCommit, UniqueViolation, ShowLink, ShowCommits, Commit, Rollback
<1>5. ASSUME Crash
      PROVE  UNCHANGED reply
  BY <1>5 DEF Crash
<1>. QED
  BY <1>1, <1>2, <1>3, <1>4, <1>5 DEF Next, vars

(* What was told is not taken back: a GET that is answered reads no more. *)
LEMMA ToldKept ==
  ASSUME IInv, [Next]_vars, NEW q \in Requests, reply'[q] = reply[q]
  PROVE  Told(q)' = Told(q)
<1>1. Whole(q)' = Whole(q) /\ Kind(q)' = Kind(q)
  BY AsksKept, JobsKept DEF Whole, ShasOf
<1>2. ASSUME reply[q] = 200 PROVE found'[q] = found[q] /\ shown'[q] = shown[q]
  <2>1. pc[q] = "done"
    BY <1>2 DEF IInv, DraftsFollow, DraftFollows
  <2>. QED
    BY <2>1, ReadKept DEF IInv
<1>. QED
  BY <1>1, <1>2 DEF Told

(* What one request is told changes the function of what all have been told. *)
LEMMA ToldToOne ==
  ASSUME NEW r \in Requests, NEW new, Told(r)' = new,
         \A p \in Requests \ {r} : Told(p)' = Told(p)
  PROVE  [p \in Requests |-> Told(p)]' = [[p \in Requests |-> Told(p)] EXCEPT ![r] = new]
<1>1. \A p \in Requests : Told(p)' = IF p = r THEN new ELSE Told(p)
  OBVIOUS
<1>. QED
  BY <1>1

LEMMA LinkOfOne ==
  ASSUME NEW i \in Intakes, NEW new, LinkOf(i)' = new,
         \A j \in Intakes \ {i} : LinkOf(j)' = LinkOf(j)
  PROVE  [j \in Intakes |-> LinkOf(j)]' = [[j \in Intakes |-> LinkOf(j)] EXCEPT ![i] = new]
<1>1. \A j \in Intakes : LinkOf(j)' = IF j = i THEN new ELSE LinkOf(j)
  OBVIOUS
<1>. QED
  BY <1>1

(* What is asked and what would be stored do not change. *)
LEMMA OffersKept ==
  ASSUME [Next]_vars
  PROVE  /\ [r \in Requests |-> Target(r)]' = [r \in Requests |-> Target(r)]
         /\ [r \in Requests |-> Whole(r)]' = [r \in Requests |-> Whole(r)]
<1>1. \A r \in Requests : Whole(r)' = Whole(r)
  BY AsksKept DEF Whole, ShasOf
<1>. QED
  BY <1>1, AsksKept

(* The COMMIT of a complete body is the abstract Store. *)
LEMMA CommitStores ==
  ASSUME IInv, [Next]_vars, NEW r \in Requests, Complete(r), UNCHANGED reply,
         link' = [link EXCEPT ![Target(r)] = r],
         captured' = [captured EXCEPT ![r] = Written(r)]
  PROVE  Ledger!Store(r)
<1>0. link \in [Intakes -> Requests \cup {Nobody}] /\ captured \in [Requests -> SUBSET Shas]
  BY DEF IInv, TypeOK
<1>1. PICK i0 \in Intakes : i0 = Target(r)
  BY JobTypes DEF IInv
<1>2. link[i0] = Nobody /\ pc[r] = "writing"
  BY <1>1 DEF IInv, DraftsFollow, DraftFollows, Complete
<1>3. Written(r) = ShasOf(Commits(r))
  BY WholeBody DEF IInv, DraftsFollow, Complete
<1>4. PICK new : new = Whole(r)
  OBVIOUS
<1>5. link'[i0] = r /\ captured'[r] = ShasOf(Commits(r)) /\ r # Nobody
  BY <1>0, <1>1, <1>3, NobodyAssumption
<1>6. LinkOf(i0) = {} /\ LinkOf(i0)' = {new}
  BY <1>2, <1>4, <1>5 DEF LinkOf, Whole
<1>7. ASSUME NEW j \in Intakes \ {i0} PROVE LinkOf(j)' = LinkOf(j)
  <2>1. link'[j] = link[j]
    BY <1>0, <1>1, <1>7
  <2>2. CASE link[j] = Nobody
    BY <2>1, <2>2 DEF LinkOf
  <2>3. CASE link[j] # Nobody
    <3>1. link[j] \in Requests /\ link[j] # r
      BY <1>0, <1>2, <1>7, <2>3 DEF IInv, LinksSound, LinkSound
    <3>2. captured'[link[j]] = captured[link[j]]
      BY <1>0, <3>1
    <3>. QED
      BY <2>1, <2>3, <3>2 DEF LinkOf
  <2>. QED
    BY <2>2, <2>3
<1>8. [j \in Intakes |-> LinkOf(j)]' = [[j \in Intakes |-> LinkOf(j)] EXCEPT ![i0] = {new}]
  BY <1>6, <1>7, LinkOfOne
<1>9. \A q \in Requests : Told(q)' = Told(q)
  BY ToldKept
<1>10. [q \in Requests |-> Told(q)]' = [q \in Requests |-> Told(q)]
  BY <1>9
<1>11. /\ [q \in Requests |-> Target(q)][r] = i0
       /\ [q \in Requests |-> Whole(q)][r] = new
       /\ [j \in Intakes |-> LinkOf(j)][i0] = {}
  BY <1>1, <1>4, <1>6
<1>. QED
  BY <1>8, <1>10, <1>11, OffersKept DEF Ledger!Store

(* What a request is told by a verdict of 200 or 201 is the entry. *)
LEMMA VerdictIsEntry ==
  ASSUME IInv, [Next]_vars, NEW r \in Requests, pc[r] \in Underway,
         UNCHANGED <<link, captured>>, reply'[r] = verdict[r]
  PROVE  Told(r)' = {} \/ (LinkOf(Target(r)) # {} /\ Told(r)' = LinkOf(Target(r)))
<1>1. Tells(r, verdict[r]) /\ Target(r) \in Intakes
  BY JobTypes DEF IInv, VerdictsTrue
<1>2. Whole(r)' = Whole(r) /\ Kind(r)' = Kind(r)
  BY AsksKept, JobsKept DEF Whole, ShasOf
<1>3. found'[r] = found[r] /\ shown'[r] = shown[r]
  BY ReadKept DEF IInv, Underway
<1>4. ASSUME link[Target(r)] # Nobody
      PROVE  LinkOf(Target(r)) = {Whole(link[Target(r)])}
  BY <1>1, <1>4 DEF LinkOf, Whole, IInv, LinksSound, LinkSound
<1>5. CASE Kind(r) = "link" /\ verdict[r] = 201
  <2>1. link[Target(r)] = r /\ r # Nobody
    BY <1>1, <1>5, NobodyAssumption DEF Tells
  <2>2. Told(r)' = {Whole(r)}
    BY <1>2, <1>5 DEF Told
  <2>. QED
    BY <1>4, <2>1, <2>2
<1>6. CASE Kind(r) = "show" /\ verdict[r] = 200
  <2>1. /\ found[r] = link[Target(r)] /\ found[r] # Nobody
        /\ shown[r] = ShasOf(Commits(found[r]))
    BY <1>1, <1>6 DEF Tells
  <2>2. Told(r)' = {Whole(found[r])}
    BY <1>2, <1>3, <1>6, <2>1 DEF Told, Whole
  <2>. QED
    BY <1>4, <2>1, <2>2
<1>7. CASE ~(Kind(r) = "link" /\ verdict[r] = 201) /\ ~(Kind(r) = "show" /\ verdict[r] = 200)
  BY <1>2, <1>7 DEF Told
<1>. QED
  BY <1>5, <1>6, <1>7

(* Every step of the routes is a step of the abstract table or none. *)
LEMMA LedgerNext == IInv /\ [Next]_vars => [Ledger!OnceNext]_(Ledger!onceVars)
<1>. SUFFICES ASSUME IInv, [Next]_vars PROVE Ledger!OnceNext \/ UNCHANGED Ledger!onceVars
  OBVIOUS
<1>1. CASE UNCHANGED <<link, captured>>
  <2>1. \A i \in Intakes : LinkOf(i)' = LinkOf(i)
    BY <1>1 DEF LinkOf
  <2>2. [i \in Intakes |-> LinkOf(i)]' = [i \in Intakes |-> LinkOf(i)]
    BY <2>1
  <2>3. ASSUME \A q \in Requests : Told(q)' = Told(q) PROVE UNCHANGED Ledger!onceVars
    <3>1. [q \in Requests |-> Told(q)]' = [q \in Requests |-> Told(q)]
      BY <2>3
    <3>. QED
      BY <2>2, <3>1, OffersKept DEF Ledger!onceVars
  <2>4. CASE UNCHANGED reply
    BY <2>3, <2>4, ToldKept
  <2>5. ASSUME NEW r \in Requests, pc[r] # "done",
               \A q \in Requests \ {r} : reply'[q] = reply[q],
               \/ reply'[r] \notin {200, 201}
               \/ pc[r] \in Underway /\ reply'[r] = verdict[r]
        PROVE  Ledger!OnceNext \/ UNCHANGED Ledger!onceVars
    <3>1. PICK i0 \in Intakes : i0 = Target(r)
      BY JobTypes DEF IInv
    <3>2. Told(r) = {}
      BY <2>5 DEF Told, IInv, DraftsFollow, DraftFollows
    <3>3. \A q \in Requests \ {r} : Told(q)' = Told(q)
      BY <2>5, ToldKept
    <3>4. reply'[r] \notin {200, 201} => Told(r)' = {}
      BY DEF Told
    <3>5. Told(r)' = {} \/ (LinkOf(i0) # {} /\ Told(r)' = LinkOf(i0))
      BY <1>1, <2>5, <3>1, <3>4, VerdictIsEntry
    <3>6. CASE Told(r)' = {}
      BY <2>3, <3>2, <3>3, <3>6
    <3>7. CASE LinkOf(i0) # {} /\ Told(r)' = LinkOf(i0)
      <4>1. PICK new : new = LinkOf(i0)
        OBVIOUS
      <4>2. [p \in Requests |-> Told(p)]' = [[p \in Requests |-> Told(p)] EXCEPT ![r] = new]
        BY <3>3, <3>7, <4>1, ToldToOne
      <4>3. /\ [q \in Requests |-> Target(q)][r] = i0
            /\ [q \in Requests |-> Told(q)][r] = {}
            /\ [j \in Intakes |-> LinkOf(j)][i0] = new /\ new # {}
        BY <3>1, <3>2, <3>7, <4>1
      <4>. QED
        BY <2>2, <4>2, <4>3, OffersKept DEF Ledger!OnceNext, Ledger!Tell
    <3>. QED
      BY <3>5, <3>6, <3>7
  <2>. QED
    BY <2>4, <2>5, AnswersOne DEF IInv
<1>2. ASSUME NEW r \in Requests, Complete(r), Commit(r),
             link' = [link EXCEPT ![Target(r)] = r],
             captured' = [captured EXCEPT ![r] = Written(r)]
      PROVE  Ledger!OnceNext
  <2>1. UNCHANGED reply
    BY <1>2 DEF Commit
  <2>. QED
    BY <1>2, <2>1, CommitStores DEF Ledger!OnceNext
<1>. QED
  BY <1>1, <1>2, Publishes DEF IInv

(* The links are a table with one entry per intake, for any requests: the    *)
(* link that is committed first is the only one, and the one that a 201 and  *)
(* every GET is about, with all of its commits.                              *)
THEOREM WriteOnceRefinement == Spec => ImplementsWriteOnce
BY LedgerInit, LedgerNext, Invariant, PTL DEF Spec, ImplementsWriteOnce, Ledger!OnceSpec

-----------------------------------------------------------------------------
(***************************************************************************)
(* Nobody is stuck.  A request on its way holds a connection, which is in  *)
(* the state its next statement needs; only the INSERT of a link waits,    *)
(* for an uncommitted link of its intake, whose request waits for nothing; *)
(* and a request without a connection waits only while all of them are     *)
(* with requests on their way.                                             *)
(***************************************************************************)

HoldsOne(r)       == \E c \in Conns : Holds(r, c)
HoldsIn(r, state) == \E c \in Conns : Holds(r, c) /\ tx[c] = state

(* The guards of the actions of Step, joined. *)
MayStep(r) ==
  \/ pc[r] = "waiting" /\ \E c \in Conns : Idle(c) \/ tx[c] = "closed"
  \/ pc[r] = "connected" /\ Kind(r) # "health" /\ HoldsIn(r, "none")
  \/ pc[r] = "connected" /\ Kind(r) = "health"
  \/ pc[r] = "begun" /\ HoldsIn(r, "open")
  \/ pc[r] \in {"scoped", "found"} /\ Kind(r) \in {"link", "show"}
  \/ /\ pc[r] = "free"
     /\ \A q \in Requests : ~Holder(q, Target(r))
     /\ link[Target(r)] = Nobody \/ HoldsIn(r, "open")
  \/ /\ pc[r] = "writing" /\ wrote[r] < Len(Commits(r))
     /\ NextSha(r) \notin Written(r) \/ HoldsIn(r, "open")
  \/ (pc[r] = "decided" \/ Complete(r)) /\ HoldsIn(r, "open")
  \/ pc[r] \in {"failing", "committed", "ended"} /\ HoldsOne(r)

WaitsForLink(r, q) == pc[r] = "free" /\ q # r /\ Holder(q, Target(r))

(* What a request waits for is always on its way. *)
NobodyStuck ==
  \A r \in Requests :
    /\ pc[r] \in InPool =>
         MayStep(r) \/ \E q \in Requests : WaitsForLink(r, q) /\ MayStep(q)
    /\ pc[r] = "waiting" =>
         \/ MayStep(r)
         \/ Conns # {} /\ \A c \in Conns :
                            user[c] \in Requests /\ pc[user[c]] \in InPool

(* A request on its way keeps its connection, and a pool that has started *)
(* has connections.                                                       *)
ConnKept(r) == pc[r] \in InPool => HoldsOne(r)
PoolKept    == /\ \A r \in Requests : ConnKept(r)
               /\ up => Conns # {}

(* A connection is given to one request, taken from one, or all are gone. *)
LEMMA PoolKeptNext ==
  ASSUME TypeOK, ConnsFollow, PoolKept, [Next]_vars
  PROVE  PoolKept'
<1>0. /\ user \in [Conns -> Requests \cup {Nobody}] /\ tx \in [Conns -> TxStates]
      /\ pc \in [Requests -> PCs]
  BY DEF TypeOK, PoolTypeOK
<1>1. ASSUME NEW r \in Requests PROVE ConnKept(r)'
  <2>. USE <1>0, NobodyAssumption
       DEF PoolKept, ConnKept, HoldsOne, Holds, pool, Goto, Decide, InPool
  <2>1. ASSUME NEW q \in Requests, Refuse(q) \/ Connect(q) \/ NotConnected(q)
        PROVE  ConnKept(r)'
    BY <2>1 DEF Refuse, Connect, NotConnected
  <2>2. ASSUME NEW q \in Requests, Connected(q) PROVE ConnKept(r)'
    <3>1. PICK c \in Conns : /\ Idle(c) \/ tx[c] = "closed"
                             /\ user' = [user EXCEPT ![c] = q]
      BY <2>2 DEF Connected, CheckOut
    <3>2. ConnFollows(c)
      BY DEF ConnsFollow
    <3>3. user[c] = Nobody
      BY <3>1, <3>2 DEF Idle, ConnFollows
    <3>4. pc' = [pc EXCEPT ![q] = "connected"]
      BY <2>2 DEF Connected
    <3>. QED
      BY <3>1, <3>3, <3>4
  <2>3. ASSUME NEW q \in Requests,
               \/ Begin(q) \/ SetTenant(q) \/ Ping(q) \/ FindIntake(q) \/ FindLink(q)
               \/ InsertLink(q) \/ InsertCommit(q) \/ UniqueViolation(q)
               \/ ShowLink(q) \/ ShowCommits(q) \/ Commit(q) \/ Rollback(q) \/ Fail(q)
        PROVE  ConnKept(r)'
    <3>1. user' = user
      BY <2>3 DEF Begin, BeginTx, SetTenant, SetScope, Ping, FindIntake, FindLink,
           InsertLink, InsertCommit, UniqueViolation, AbortTx, ShowLink, ShowCommits,
           Commit, CommitTx, Rollback, RollbackTx, Fail, BreakConn
    <3>2. pc[q] \in InPool /\ \A p \in Requests : p # q => pc'[p] = pc[p]
      BY <2>3 DEF Begin, SetTenant, Ping, FindIntake, FindLink, InsertLink, InsertCommit,
           UniqueViolation, ShowLink, ShowCommits, Commit, Complete, Rollback, Fail
    <3>. QED
      BY <3>1, <3>2
  <2>4. ASSUME NEW q \in Requests, Answer(q) PROVE ConnKept(r)'
    <3>1. PICK c \in Conns : user[c] = q /\ user' = [user EXCEPT ![c] = Nobody]
      BY <2>4 DEF Answer, Release
    <3>2. pc' = [pc EXCEPT ![q] = "done"]
      BY <2>4 DEF Answer
    <3>. QED
      BY <3>1, <3>2
  <2>5. ASSUME Startup \/ CloseIdle, UNCHANGED pc PROVE ConnKept(r)'
    BY <2>5 DEF Startup, CloseIdle
  <2>6. ASSUME Crash PROVE ConnKept(r)'
    BY <2>6 DEF Crash, InFlight
  <2>7. CASE UNCHANGED vars
    BY <2>7 DEF vars
  <2>. QED
    BY <2>1, <2>2, <2>3, <2>4, <2>5, <2>6, <2>7 DEF Next, Step
<1>2. up' => up \/ Startup
  <2>1. ASSUME NEW q \in Requests, Refuse(q) \/ Connect(q) \/ NotConnected(q) \/ Fail(q)
        PROVE  up' = up
    BY <2>1 DEF Refuse, Connect, NotConnected, Fail, AbortTx, BreakConn, pool
  <2>2. ASSUME NEW q \in Requests, Step(q)
        PROVE  up' = up
    BY <2>2 DEF Step, Connected, Begin, SetTenant, Ping, FindIntake, FindLink, InsertLink,
         InsertCommit, UniqueViolation, ShowLink, ShowCommits, Commit, Rollback, Answer,
         CheckOut, BeginTx, SetScope, AbortTx, CommitTx, RollbackTx, Release, pool
  <2>. QED
    BY <2>1, <2>2 DEF Next, CloseIdle, Crash, Die, vars
<1>3. up' => Conns # {}
  BY <1>2 DEF PoolKept, Startup
<1>. QED
  BY <1>1, <1>3 DEF PoolKept

(* The request that is to write a link, or to answer, is not held up. *)
LEMMA WriterMayStep ==
  ASSUME IInv, PoolKept, NEW r \in Requests, pc[r] = "writing"
  PROVE  MayStep(r)
<1>1. PICK c \in Conns : user[c] = r
  BY DEF PoolKept, ConnKept, HoldsOne, Holds, InPool
<1>2. ConnFollows(c) /\ DraftFollows(r)
  BY DEF IInv, ConnsFollow, DraftsFollow
<1>3. HoldsIn(r, "open")
  BY <1>1, <1>2, NobodyAssumption DEF ConnFollows, HoldsIn, Holds
<1>4. wrote[r] \in Nat /\ Len(Commits(r)) \in Nat
  BY JobTypes DEF IInv, TypeOK
<1>5. wrote[r] < Len(Commits(r)) \/ wrote[r] = Len(Commits(r))
  BY <1>2, <1>4 DEF DraftFollows
<1>. QED
  BY <1>3, <1>5 DEF MayStep, Complete

(* Every request on its way can go on, or waits for the link of another that *)
(* can; and one that waits for a connection finds one, or all are with       *)
(* requests on their way.  So neither the pool of db.ts nor the unique index *)
(* on repo_links can deadlock, although the INSERT waits with a connection   *)
(* in its hands, whatever fails or dies.  This is what EveryRequestEnds      *)
(* needs besides fairness.                                                   *)
THEOREM NobodyIsStuck == Spec => []NobodyStuck
<1>1. Init => PoolKept
  BY DEF Init, PoolInit, PoolKept, ConnKept, InPool
<1>2. IInv /\ PoolKept => NobodyStuck
  <2>. SUFFICES ASSUME IInv, PoolKept, NEW r \in Requests
       PROVE  /\ pc[r] \in InPool =>
                   MayStep(r) \/ \E q \in Requests : WaitsForLink(r, q) /\ MayStep(q)
              /\ pc[r] = "waiting" =>
                   \/ MayStep(r)
                   \/ Conns # {} /\ \A c \in Conns :
                                      user[c] \in Requests /\ pc[user[c]] \in InPool
    BY DEF NobodyStuck
  <2>1. ASSUME pc[r] \in InPool, ~MayStep(r)
        PROVE  \E q \in Requests : WaitsForLink(r, q) /\ MayStep(q)
    <3>1. PICK c \in Conns : user[c] = r
      BY <2>1 DEF PoolKept, ConnKept, HoldsOne, Holds
    <3>2. ConnFollows(c) /\ DraftFollows(r)
      BY DEF IInv, ConnsFollow, DraftsFollow
    <3>3. Kind(r) \in {"link", "show", "health"}
      BY JobsAssumption DEF IInv, TypeOK, Job, Kinds, Kind
    <3>4. pc[r] # "writing"
      BY <2>1, WriterMayStep
    <3>5. pc[r] = "free"
      BY <2>1, <3>1, <3>2, <3>3, <3>4, NobodyAssumption
      DEF InPool, ConnFollows, DraftFollows, MayStep, HoldsOne, HoldsIn, Holds
    <3>6. HoldsIn(r, "open")
      BY <3>1, <3>2, <3>5, NobodyAssumption DEF ConnFollows, HoldsIn, Holds
    <3>7. PICK q \in Requests : Holder(q, Target(r))
      BY <2>1, <3>5, <3>6 DEF MayStep
    <3>8. WaitsForLink(r, q)
      BY <3>5, <3>7 DEF WaitsForLink, Holder
    <3>9. MayStep(q)
      BY <3>7, WriterMayStep DEF Holder
    <3>. QED
      BY <3>8, <3>9
  <2>2. ASSUME pc[r] = "waiting", ~MayStep(r)
        PROVE  Conns # {} /\ \A c \in Conns :
                               user[c] \in Requests /\ pc[user[c]] \in InPool
    <3>1. Conns # {}
      BY <2>2 DEF IInv, DownIsIdle, PoolKept
    <3>2. ASSUME NEW c \in Conns
          PROVE  user[c] \in Requests /\ pc[user[c]] \in InPool
      <4>1. ~Idle(c) /\ tx[c] # "closed"
        BY <2>2 DEF MayStep
      <4>2. ConnFollows(c) /\ user[c] \in Requests \cup {Nobody}
        BY DEF IInv, ConnsFollow, TypeOK, PoolTypeOK
      <4>. QED
        BY <4>1, <4>2 DEF ConnFollows, Idle
    <3>. QED
      BY <3>1, <3>2
  <2>. QED
    BY <2>1, <2>2
<1>. QED
  BY <1>1, <1>2, PoolKeptNext, Invariant, PTL DEF Spec, IInv

=============================================================================
