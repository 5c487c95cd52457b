------------------------------ MODULE RepoLink ------------------------------
(***************************************************************************)
(* POST /intake/:id/link-repo and GET /intake/:id/repo                     *)
(* (apps/api/src/routes/repo-link.ts), with GET /health, on the pool they  *)
(* share (TenantPool).                                                     *)
(*                                                                         *)
(* A POST looks for the intake and for an existing link, inserts the link, *)
(* and then its commits one by one, their SHAs in lower case.  Two unique  *)
(* constraints can refuse it: one link per intake, for which an INSERT     *)
(* waits until an uncommitted holder has ended, and one commit per link    *)
(* and SHA.  Both are the same SQLSTATE 23505.                             *)
(*                                                                         *)
(* A POST creates at most one link, so it names the link.                  *)
(***************************************************************************)
EXTENDS TenantPool, Naturals, Sequences

CONSTANTS
  Intakes,
  Owner,      \* the tenant of each intake
  Shas,       \* commit SHAs as clients spell them
  Lower,      \* and in lower case
  Jobs        \* what the requests, each served once, ask for: functions

Kinds == {"link", "show", "health"}
Job   == [kind : Kinds, tenant : Tenants, intake : Intakes, commits : Seq(Shas)]

ASSUME OwnerAssumption == Owner \in [Intakes -> Tenants]
ASSUME LowerAssumption == Lower \in [Shas -> Shas]
ASSUME JobsAssumption == \A j \in Jobs : j \in [Requests -> Job]
ASSUME NobodyAssumption == Nobody \notin Requests \cup Tenants

VARIABLES
  link,      \* committed repo_links: the link of each intake
  captured,  \* committed repo_commits: the SHAs of each link
  job,       \* what each request asks for
  pc,        \* where it is
  wrote,     \* how many commits its transaction has inserted
  verdict,   \* the status it will be answered
  found, shown,   \* the link a GET has read, and its SHAs
  reply      \* the HTTP status of the answer, for health its db field
             \* (200: ok, 500: down); 0: none

tables == <<link, captured>>
work   == <<wrote, found, shown>>
vars   == <<up, user, tx, scope, link, captured, job, pc, wrote, verdict,
            found, shown, reply>>

InPool == {"connected", "begun", "scoped", "found", "free", "writing",
           "decided", "committed", "failing", "ended"}
PCs    == {"idle", "waiting", "done"} \cup InPool
InFlight(r) == pc[r] \in InPool \cup {"waiting"}

Kind(r)    == job[r].kind
Tenant(r)  == job[r].tenant
Target(r)  == job[r].intake
Commits(r) == job[r].commits
ShasOf(s)  == {Lower[s[k]] : k \in DOMAIN s}

Goto(r, label) == pc' = [pc EXCEPT ![r] = label]
Decide(r, code, label) ==
  /\ verdict' = [verdict EXCEPT ![r] = code]
  /\ Goto(r, label)

(* Mutant: RLS enabled but not forced: the owner of the table sees all. *)
ReadableByOwner(r, tenant) == \E c \in Conns : Holds(r, c) /\ tx[c] = "open"

(* The policies: rows of the tenant the transaction is set to. *)
Readable(r, tenant) ==
  \E c \in Conns : Holds(r, c) /\ tx[c] = "open" /\ scope[c] = tenant

IntakeSeen(r) == Readable(r, Owner[Target(r)])
LinkSeen(r) ==
  link[Target(r)] # Nobody /\ Readable(r, Tenant(link[Target(r)]))

Init ==
  /\ PoolInit
  /\ link = [i \in Intakes |-> Nobody]
  /\ captured = [r \in Requests |-> {}]
  /\ job \in Jobs
  /\ pc = [r \in Requests |-> "idle"]
  /\ wrote = [r \in Requests |-> 0]
  /\ verdict = [r \in Requests |-> 0]
  /\ found = [r \in Requests |-> Nobody]
  /\ shown = [r \in Requests |-> {}]
  /\ reply = [r \in Requests |-> 0]

-----------------------------------------------------------------------------
(* Without a tenant (401), with a malformed id (400) or body (422). *)
Refuse(r) ==
  /\ up /\ pc[r] = "idle" /\ Kind(r) # "health"
  /\ \E code \in IF Kind(r) = "link" THEN {400, 401, 422} ELSE {400, 401} :
       reply' = [reply EXCEPT ![r] = code]
  /\ Goto(r, "done")
  /\ UNCHANGED <<pool, tables, job, work, verdict>>

(* pool.connect(), *)
Connect(r) ==
  /\ up /\ pc[r] = "idle"
  /\ Goto(r, "waiting")
  /\ UNCHANGED <<pool, tables, job, work, verdict, reply>>

(* which is answered with a connection, *)
Connected(r) ==
  /\ pc[r] = "waiting"
  /\ CheckOut(r)
  /\ Goto(r, "connected")
  /\ UNCHANGED <<tables, job, work, verdict, reply>>

(* or fails, after connectionTimeoutMillis at the latest: there is nothing *)
(* to release, and the request is answered 500.                            *)
NotConnected(r) ==
  /\ pc[r] = "waiting"
  /\ Goto(r, "done")
  /\ reply' = [reply EXCEPT ![r] = 500]
  /\ UNCHANGED <<pool, tables, job, work, verdict>>

Begin(r) ==
  /\ pc[r] = "connected" /\ Kind(r) # "health"
  /\ BeginTx(r)
  /\ Goto(r, "begun")
  /\ UNCHANGED <<tables, job, work, verdict, reply>>

SetTenant(r) ==
  /\ pc[r] = "begun"
  /\ SetScope(r, Tenant(r))
  /\ Goto(r, "scoped")
  /\ UNCHANGED <<tables, job, work, verdict, reply>>

(* health: SELECT 1, outside of any transaction. *)
Ping(r) ==
  /\ pc[r] = "connected" /\ Kind(r) = "health"
  /\ Decide(r, 200, "ended")
  /\ UNCHANGED <<pool, tables, job, work, reply>>

-----------------------------------------------------------------------------
(* SELECT ... FROM intake_meta: 404 intake_not_found, *)
FindIntake(r) ==
  /\ pc[r] = "scoped" /\ Kind(r) = "link"
  /\ IF IntakeSeen(r) THEN Goto(r, "found") /\ UNCHANGED verdict
                      ELSE Decide(r, 404, "decided")
  /\ UNCHANGED <<pool, tables, job, work, reply>>

(* SELECT ... FROM repo_links: 409 repo_already_linked. *)
FindLink(r) ==
  /\ pc[r] = "found" /\ Kind(r) = "link"
  /\ IF LinkSeen(r) THEN Decide(r, 409, "decided")
                    ELSE Goto(r, "free") /\ UNCHANGED verdict
  /\ UNCHANGED <<pool, tables, job, work, reply>>

(* An uncommitted link of the intake, which another INSERT has to wait for. *)
Holder(q, i) == pc[q] = "writing" /\ Target(q) = i

(* Mutant: a lookup is all that keeps a second link out. *)
InsertLinkUnindexed(r) ==
  /\ pc[r] = "free"
  /\ Decide(r, 201, "writing")
  /\ UNCHANGED <<pool, tables, job, work, reply>>

(* INSERT INTO repo_links. *)
InsertLink(r) ==
  /\ pc[r] = "free"
  /\ \A q \in Requests : ~Holder(q, Target(r))
  /\ link[Target(r)] = Nobody
  /\ Decide(r, 201, "writing")
  /\ UNCHANGED <<pool, tables, job, work, reply>>

(* INSERT INTO repo_commits, commit after commit. *)
NextSha(r) == Lower[Commits(r)[wrote[r] + 1]]
Written(r) == {Lower[Commits(r)[k]] : k \in 1..wrote[r]}

InsertCommit(r) ==
  /\ pc[r] = "writing" /\ wrote[r] < Len(Commits(r))
  /\ NextSha(r) \notin Written(r)
  /\ wrote' = [wrote EXCEPT ![r] = @ + 1]
  /\ UNCHANGED <<pool, tables, job, pc, verdict, found, shown, reply>>

(* Either constraint is violated; the catch block of the route will take *)
(* both for the race on the first.                                       *)
UniqueViolation(r) ==
  /\ \/ /\ pc[r] = "free"
        /\ \A q \in Requests : ~Holder(q, Target(r))
        /\ link[Target(r)] # Nobody
     \/ /\ pc[r] = "writing" /\ wrote[r] < Len(Commits(r))
        /\ NextSha(r) \in Written(r)
  /\ AbortTx(r)
  /\ Decide(r, 409, "failing")
  /\ UNCHANGED <<tables, job, work, reply>>

(* GET, first statement: the link, or 404 repo_link_not_found. *)
ShowLink(r) ==
  /\ pc[r] = "scoped" /\ Kind(r) = "show"
  /\ IF LinkSeen(r)
     THEN /\ found' = [found EXCEPT ![r] = link[Target(r)]]
          /\ Goto(r, "found")
          /\ UNCHANGED verdict
     ELSE Decide(r, 404, "decided") /\ UNCHANGED found
  /\ UNCHANGED <<pool, tables, job, wrote, shown, reply>>

(* GET, second statement, on a snapshot of its own: its commits. *)
ShowCommits(r) ==
  /\ pc[r] = "found" /\ Kind(r) = "show"
  /\ shown' = [shown EXCEPT ![r] = captured[found[r]]]
  /\ Decide(r, 200, "decided")
  /\ UNCHANGED <<pool, tables, job, wrote, found, reply>>

-----------------------------------------------------------------------------
(* Mutant: the loop is not awaited. *)
CompleteUnawaited(r) == pc[r] = "writing"

Complete(r) == pc[r] = "writing" /\ wrote[r] = Len(Commits(r))

(* The rows of the transaction become visible at once. *)
Publish(r) ==
  IF pc[r] = "writing"
  THEN /\ link' = [link EXCEPT ![Target(r)] = r]
       /\ captured' = [captured EXCEPT ![r] = Written(r)]
  ELSE UNCHANGED tables

(* COMMIT; if its acknowledgement is lost, withTenant throws: 500. *)
Commit(r) ==
  /\ pc[r] = "decided" \/ Complete(r)
  /\ Publish(r)
  /\ \/ CommitTx(r, TRUE) /\ Goto(r, "committed") /\ UNCHANGED verdict
     \/ CommitTx(r, FALSE) /\ Decide(r, 500, "failing")
  /\ UNCHANGED <<job, work, reply>>

(* Mutant: the catch block does not throw on. *)
FailSwallowed(r) ==
  /\ pc[r] \in InPool \ {"committed", "failing", "ended"}
  /\ AbortTx(r) \/ BreakConn(r)
  /\ Goto(r, IF Kind(r) = "health" THEN "ended" ELSE "failing")
  /\ UNCHANGED <<tables, job, work, verdict, reply>>

(* Any statement may fail, or its connection break: withTenant's catch, or, *)
(* for health, its finally.                                                 *)
Fail(r) ==
  /\ pc[r] \in InPool \ {"committed", "failing", "ended"}
  /\ AbortTx(r) \/ BreakConn(r)
  /\ Decide(r, 500, IF Kind(r) = "health" THEN "ended" ELSE "failing")
  /\ UNCHANGED <<tables, job, work, reply>>

Rollback(r) ==
  /\ pc[r] = "failing"
  /\ RollbackTx(r)
  /\ Goto(r, "ended")
  /\ UNCHANGED <<tables, job, work, verdict, reply>>

(* The connection is released, and the request answered. *)
Answer(r) ==
  /\ pc[r] \in {"committed", "ended"}
  /\ Release(r)
  /\ reply' = [reply EXCEPT ![r] = verdict[r]]
  /\ Goto(r, "done")
  /\ UNCHANGED <<tables, job, work, verdict>>

(* The API dies: nobody is answered, what was not committed is not. *)
Crash ==
  /\ Die
  /\ pc' = [r \in Requests |-> IF InFlight(r) THEN "done" ELSE pc[r]]
  /\ UNCHANGED <<tables, job, work, verdict, reply>>

Step(r) ==
  \/ Connected(r) \/ Begin(r) \/ SetTenant(r) \/ Ping(r)
  \/ FindIntake(r) \/ FindLink(r) \/ InsertLink(r) \/ InsertCommit(r)
  \/ UniqueViolation(r) \/ ShowLink(r) \/ ShowCommits(r)
  \/ Commit(r) \/ Rollback(r) \/ Answer(r)

Next ==
  \/ (Startup \/ CloseIdle) /\ UNCHANGED <<tables, job, pc, work, verdict, reply>>
  \/ \E r \in Requests :
       Refuse(r) \/ Connect(r) \/ NotConnected(r) \/ Step(r) \/ Fail(r)
  \/ Crash

Spec == Init /\ [][Next]_vars

(* Nothing in withTenant waits for the client.  The 5 s of NotConnected are *)
(* not fair: a request need not fail to end.                                *)
FairSpec == Spec /\ \A r \in Requests : WF_vars(Step(r))

-----------------------------------------------------------------------------
TypeOK ==
  /\ PoolTypeOK
  /\ link \in [Intakes -> Requests \cup {Nobody}]
  /\ captured \in [Requests -> SUBSET Shas]
  /\ job \in Jobs
  /\ pc \in [Requests -> PCs]
  /\ wrote \in [Requests -> Nat]
  /\ verdict \in [Requests -> {0, 200, 201, 404, 409, 500}]
  /\ found \in [Requests -> Requests \cup {Nobody}]
  /\ shown \in [Requests -> SUBSET Shas]
  /\ reply \in [Requests -> {0, 200, 201, 400, 401, 404, 409, 422, 500}]

(* No connection is lost to the pool and none is shared: each one that is  *)
(* checked out belongs to a request that is being served, which has no     *)
(* other; and whoever is next finds no transaction and no tenant on it,    *)
(* however the last user's transaction ended (the finally of withTenant).  *)
ConnectionsReturned ==
  \A c \in Conns :
    IF user[c] = Nobody
    THEN tx[c] \in {"closed", "none"} /\ scope[c] = Nobody
    ELSE /\ pc[user[c]] \in InPool
         /\ \A d \in Conns : user[d] = user[c] => d = c

(* The link of an intake was sent by its tenant, and has each of the commits *)
(* that were sent with it; a POST that is not the link left no commits.      *)
OneWholeLink ==
  /\ \A i \in Intakes :
       link[i] # Nobody =>
         /\ Target(link[i]) = i
         /\ captured[link[i]] = ShasOf(Commits(link[i]))
  /\ \A r \in Requests : link[Target(r)] # r => captured[r] = {}

(* A GET shows a link with all of its commits, although it reads them on two *)
(* snapshots while links are written.                                        *)
GetShowsWhole ==
  \A g \in Requests :
    Kind(g) = "show" /\ reply[g] = 200 =>
      /\ found[g] = link[Target(g)] /\ found[g] # Nobody
      /\ shown[g] = ShasOf(Commits(found[g]))

(* The links as a table with one entry per intake: the link whose COMMIT is  *)
(* first, with the commits of its body, is the only one for good; a 201 is   *)
(* that link, and a GET that answers 200 shows that link with all of its     *)
(* commits, though it reads them on two snapshots while links are written.   *)
Whole(r)  == <<r, ShasOf(Commits(r))>>
LinkOf(i) == IF link[i] = Nobody THEN {} ELSE {<<link[i], captured[link[i]]>>}
Told(r) ==
  IF Kind(r) = "link" /\ reply[r] = 201 THEN {Whole(r)}
  ELSE IF Kind(r) = "show" /\ reply[r] = 200 THEN {<<found[r], shown[r]>>}
  ELSE {}
Ledger == INSTANCE WriteOnce WITH
  Keys <- Intakes, Clients <- Requests,
  key   <- [r \in Requests |-> Target(r)],
  offer <- [r \in Requests |-> Whole(r)],
  entry <- [i \in Intakes |-> LinkOf(i)],
  told  <- [r \in Requests |-> Told(r)]
ImplementsWriteOnce == Ledger!OnceSpec

Repeats(s) == \E j, k \in DOMAIN s : j # k /\ Lower[s[j]] = Lower[s[k]]

(* What a POST is told agrees with the tables: 201 is the link, with as many *)
(* commits as were sent; 409 leaves no link of its own, and means that the   *)
(* intake has one, unless the body repeats a commit; 404 and 4xx leave none. *)
AnswerTellsLink ==
  \A r \in Requests :
    Kind(r) = "link" =>
      /\ reply[r] = 201 => link[Target(r)] = r /\ ~Repeats(Commits(r))
      /\ reply[r] = 409 => /\ link[Target(r)] # r
                           /\ link[Target(r)] # Nobody \/ Repeats(Commits(r))
      /\ reply[r] \in {400, 401, 404, 422} => link[Target(r)] # r

(* A request that is told anything of an intake is of the intake's tenant,   *)
(* and so is every link, though all tenants share the connections, on which  *)
(* the tenant of a row is looked up.                                         *)
TenantsApart ==
  /\ \A r \in Requests :
       Kind(r) # "health" /\ reply[r] \in {200, 201, 409} =>
         Tenant(r) = Owner[Target(r)]
  /\ \A i \in Intakes : link[i] # Nobody => Tenant(link[i]) = Owner[i]

(* Every request that asks for a connection ends: connections come back, and *)
(* so do the index entries that INSERTs wait for while they hold one.        *)
EveryRequestEnds ==
  \A r \in Requests : pc[r] = "waiting" ~> pc[r] = "done"
=============================================================================
