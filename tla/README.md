# MendoraCI in TLA+

Specifications of the MendoraCI control plane: what its API does to the
database, the object store, the Bob CLI and its clients when requests overlap,
fail, are retried or are cut off by a crash. The modules are checked with TLC
on small instances, and the invariants that matter most are proved with TLAPS
for every value of the constants.

Paths below are relative to the repository's root; `routes/`, `lib/` and
`db/migrations/` stand for `apps/api/src/routes/` and so on. `PROJECT.json`
maps every definition to the lines it models.

## 1. The system

A CI system (or the web page) POSTs a failure artefact; the API masks secrets
and stores an **intake**. Bob, an external CLI, is asked for a root-cause
analysis (**finding**), then for a **repair plan**, which a person submits and
approves or rejects. An approved plan can be exported with its history as an
**evidence** ZIP into an object store. Five list endpoints page through the
tables, and a Next.js application drives all of it.

One Fastify process serves every request. Handlers share no memory; they meet
in Postgres (READ COMMITTED, row-level security by tenant), in the S3 bucket
and in the Bob processes they spawn. Handlers interleave at every `await`.

| Component | State | Operations | Hard behaviour | What makes it correct |
|---|---|---|---|---|
| Approval workflow, `routes/approval.ts` | `repair_plans.status`, `current_approval_id`, `approvals` | submit, approve, reject, audit log | status is read without a lock, then overwritten under one; lost acknowledgement of a COMMIT; crash between INSERT and UPDATE | the state machine of `packages/shared/src/approval.ts`; status and audit log agree; answers agree with both |
| Intake, `routes/intake.ts` | `raw_intake`, `intake_meta`, `idempotency_keys` with a partial unique index | POST; GET | two POSTs of one run; retry after a lost answer; the 24 h window and an index with a fixed date | one intake per run; three rows or none; answers name one intake |
| Evidence export, `routes/evidence-export.ts`, `lib/s3.ts` | `evidence_exports`, the bucket | POST, GET | two stores without a common transaction; four reads on four snapshots; failed clean-up | a linked row has its object; a bundle explains its approval; nothing finished is lost |
| RCA, `routes/rca.ts`; repair plan, `routes/repair-plan.ts` | `rca_findings`, `rca_evidence`, `repair_plans`, `repair_steps` | POST, GET each | two transactions around a call of up to a minute; loops of INSERTs; newer findings in between | rows with all of their details; a plan follows a stored finding; answers agree with the tables |
| Bob client, `lib/bob.ts` | a promise, a timer, a child process and its output per call | `runRca`, `runRepairPlan` | timer, `error`, `close` and `data` in any order; chunks; SIGKILL; stdin | settled once, on the whole output, always; no child left |
| Lists, `routes/*-list.ts`, `lib/cursor.ts` | none; the cursor travels with the client | five GETs | rows committed late, changed, deleted between pages; microseconds cut to milliseconds | nothing repeated or out of order; what is skipped |
| Transactions and pool, `lib/db.ts` | ten connections, each with a transaction and a tenant | `withTenant`, the check at startup | ROLLBACK on a broken connection; pool exhausted; a connection used by one tenant after another | every connection comes back, and clean |
| Repository link, `routes/repo-link.ts` | `repo_links`, `repo_commits` | POST, GET | unique violations of two kinds, one answer, in an aborted transaction; two snapshots | one link per intake, with its commits; answers agree with the tables; tenants apart |
| Web lists, five `page.tsx` | filter, cursors, rows, selection | filter, Next, Prev, select, retry, refresh | answers out of order | what is shown belongs to what was asked |
| Web forms, six `page.tsx` | status, response or log, error | submit, approve, reject; create an intake, a link, a finding, a plan, an export | status read earlier; a lost answer to a POST that happened; a page loaded again | shown is not older than told; the row of the last press; buttons come back |
| Mask policy, `packages/mask-policy` | none | `applyMask` | a pure function of a text | not modelled |
| Health, `routes/health.ts` | none | GET | takes a connection of the same pool, outside of `withTenant` | gives it back |
| Tenant header, error handler, bootstrap, shared zod schemas, dashboard | none | pure functions of a request; five GETs shown as they come | none | none stated |

Calls: routes call `withTenant` and, for analyses, Bob; the evidence export
calls the object store. Shared state: the approval workflow writes the plans
the repair-plan route creates, the evidence export reads both and the findings
of RCA, and the lists read all tables. Callbacks: only those of Bob's child
process.

## 2. Modules

| Module | Models | Built on |
|---|---|---|
| `PlanStateMachine` | abstract: the drawing in `packages/shared/src/approval.ts` (`Machine`), and what remains of it when requests overlap (`Overlapped`) | |
| `WriteOnce` | abstract: a table with a unique key, whose first entry is the only one and the one everybody is told | |
| `ApprovalWorkflow` | `routes/approval.ts`, statement by statement | implements `PlanStateMachine` |
| `IntakeIdempotency` | POST and GET of `routes/intake.ts`, the unique index, the tenant hook | implements `WriteOnce`, a key per CI run |
| `EvidenceExport` | `routes/evidence-export.ts` over Postgres and S3 | plans move as `PlanStateMachine!OverlappedNext` |
| `BobPromise` | abstract: the promise a route awaits | |
| `BobCall` | `callRealBobGeneric` of `lib/bob.ts` and the mock | implements `BobPromise` |
| `AnalysisPipeline` | POST and GET of `routes/rca.ts` and `routes/repair-plan.ts` | `BobPromise` |
| `CursorPagination` | the five list endpoints and `lib/cursor.ts`, with a client that walks | |
| `TenantPool` | the pool and `withTenant` of `lib/db.ts`, connection by connection | |
| `RepoLink` | `routes/repo-link.ts` and `routes/health.ts` | extends `TenantPool`; implements `WriteOnce`, a key per intake |
| `ListPage` | what the five list pages of the web application share | cursors as `CursorPagination` shows them |
| `ActionPages` | the six pages of the web application that POST, in tabs, with the server behind them | plans move as `PlanStateMachine!Overlapped` |
| `MC...` | instances for TLC: small sets, symmetry | |
| `...Proofs` | theorems and their proofs | the module of the same name; `WebPagesProofs` both `ListPage` and `ActionPages` |

Two seams are compositional. `EvidenceExport` and `ActionPages` take plans that
move as `Overlapped` allows; that the approval workflow does so is the property
`ImplementsOverlapped` and the theorem `OverlappedRefinement`. Likewise
`AnalysisPipeline` knows of Bob what `BobPromise` says, and that `lib/bob.ts`
keeps it is `ImplementsPromise` and `PromiseRefinement`. `Diagnose` of
`EvidenceExport`, `CreatePlan` of `ApprovalWorkflow` and `Draft` of
`PlanStateMachine` are the COMMITs of `AnalysisPipeline`.

### How state and actions correspond to the code

* **A request is served once** and creates at most one row (or object), so the
  request names the row: the columns of row `r` are the variables at `r`. A
  retry by a client is another request.
* **A statement is a step.** `pc` says which statement of the handler is next.
  A SELECT reads what is committed at that step, since READ COMMITTED takes a
  snapshot per statement. What a transaction writes stays invisible until
  `Commit`, which publishes it at once; so uncommitted rows are not in the
  tables but in `pc`. A ROLLBACK drops them.
* **Locks.** A row lock (`lock` of `ApprovalWorkflow`) and an entry of a unique
  index (`Holders` of `IntakeIdempotency`) block other writers until the holder
  ends. The key-share locks which the INSERTs of children take on their parents
  do not conflict with an UPDATE of non-key columns and are left out.
* **Time.** `created_at` is NOW(), the start of the transaction. The clock moves
  with each transaction; microseconds make equal times unlikely and no property
  relies on a tie, except in `CursorPagination`, where clock and ties are the
  subject.
* **Failures.** `Fail`: a statement fails or its connection drops; `withTenant`
  rolls back and the error handler answers 500. `Respond` may answer 500 too:
  the COMMIT happened and its acknowledgement is lost; likewise `DropRow` of the
  evidence export, with the row gone. `Crash`: the process
  dies, nobody is answered, Postgres rolls back. A COMMIT in flight at that
  moment is a `Commit` before the crash, or none.
* **Tenants.** Row-level security confines a request to its tenant. `RepoLink`
  models how: `Readable` evaluates the policy of the migrations on the
  connection the statement runs on. The other modules model one tenant, except
  that a CI run of `IntakeIdempotency` carries one.
* **Connections.** `TenantPool` has the slots of the pool: who has checked one
  out, what its transaction is, which tenant is set on it. `RepoLink` is written
  on its operations (`CheckOut`, `BeginTx`, `SetScope`, `CommitTx`, `AbortTx`,
  `RollbackTx`, `Release`), one per line of `withTenant`. The other routes use
  the same function, and their modules leave the pool out.
* **Data** no step depends on (texts, actors, notes, sizes, digests) is left
  out; a validation is the choice whether the request is refused.

`BobCall`: `promise`, `timer` and `got` are `settled`, `timer` and `stdout` of
the closure; `child`, `printed` and `out` are the child's. `Close` waits for the
exit and for the end of stdout, as Node's 'close' does. `Decode` models
`chunk.toString('utf8')` on half a character, `Parses` the regular expression
with `JSON.parse`. `CursorPagination`: a list is told by whether the verdict of
its filter on a row can change and whether rows can be deleted; `Ms` is
`Date.toISOString`; `Slice` with `Fetch` is `LIMIT limit + 1` and `slice`.

`ListPage`: the five pages repeat the same hooks, and the map points to one or
another of them. An action is what the user or the network does, with the
effects React runs before the next event: a new filter fetches with the old
cursor and, once the effect has reset it, without one (`Wanted`). Rows stand for
the request they answer (`shown`), a selection for the pages its rows are from.
`late` and `hasty` are history: the newest fetch was answered before an older
one; the user acted on rows while something was in flight. The debounced text
is part of the filter; React's StrictMode, which runs effects twice, is a
development mode and left out.

`RepoLink`: a POST creates at most one link, so `link[i]` is the request whose
link intake `i` has, and `captured` are the SHAs of that link. An INSERT that
finds an uncommitted link of the intake waits (`Holder`); the second constraint
concerns only the request's own INSERTs. `verdict` is what the callback of
`withTenant` returned or threw, `reply` what the client got.

`ActionPages`: a tab is a page and its presses, and `<<t, n>>` is the n-th press
of tab `t`. `status` is `submitting` while the buttons of the page say so
(`pending` of the approval page, `uploading` of the intake page) and `done` for
`linked` and `submitted`. The server is reduced to what the pages can tell
apart: a transition reads the status and lands later, another request stores a
row or does not, and either may be answered with an error although it happened.
A fetch that fails (`Lose`) and a page that is loaded again (`Load`) do not stop
the server. `version` numbers the transitions of a plan; `heard`, `raced` and
`cut` are history: the newest version a tab was answered about; a transition
landed on a status it had not read; a tab gave up a POST the server was still
working on.

## 3. Runs

| Run | Instance | Shows |
|---|---|---|
| `approval_overlap` | 3 requests, 1 plan, `Overlap = TRUE` | tables consistent, answers agree with the audit log, implements `Overlapped`, nobody waits for ever |
| `approval_serial` | 4 requests, 1 plan, `Overlap = FALSE` | implements `Machine`, so terminal is final; the sorted log is a walk through it |
| `approval_terminal` (violation) | as `approval_overlap` | an approved plan becomes rejected |
| `intake_races` | 3 POSTs, 2 runs of 2 tenants, window 1 of 3 clock values, faults | implements `WriteOnce`: one intake per run for good, named by all answers; intakes whole; no deadlock on the index |
| `intake_reingest` (violation) | 2 POSTs, no fault | after the window the POST answers 500 for ever |
| `evidence_stores` | 2 exports, 1 GET, 2 plans, faults | bundles explain their approval, keys name objects, answers agree with the table, GETs are fresh |
| `bob_callbacks` | 2 calls; prose, an object with a split character, two objects | whole answers, settled once and always, no child left |
| `analysis_races` | 3 POSTs and a GET; two findings and a plan, or one and two | rows whole, plans based on stored findings, GETs whole and fresh |
| `cursor_walk` | 4 rows, 2 milliseconds of 2 microseconds, limits 1 and 2, all five lists | nothing repeated; only the cursor's millisecond is skipped |
| `list_pages` | 2 filters, a list of 4 pages, 3 fetches in flight, 3 cursors on the stack | settles on what is asked for, Prev retraces Next, selections stay on their page |
| `repo_links` | 3 requests, 2 connections, 2 tenants, 1 intake, 3 spellings of 2 SHAs; four mixes of POSTs, GETs and a health check | connections come back clean, one whole link, implements `WriteOnce`, answers agree, tenants apart, every request ends |
| `action_pages` | two tabs of the approval page on one plan; one with three presses; a page that creates; two that link one intake; the intake page | the drawing is kept by one answered tab; shown is not older than told; terminal notices hold; rows are of the last press; presses end |

**Bounds.** Requests are few because each interaction needs few: two writers of
one row and a third to meet what they left; four where a whole walk (submit,
decide, and two that must be refused) is wanted. One plan suffices for the
approval workflow, as requests of different plans share nothing; the evidence
export needs two, for the newer to hide the older one. `MaxItems = 2` lets a
loop be cut off at its start, in its middle and before its end. `Window` and
`MaxClock` put requests inside the window, at its end and after it. Two rows in
the same millisecond, with the cursor between them, need `PerMs = 2` and three
rows; the fourth comes from an earlier transaction that commits late.
Three fetches are the two of a filter change and one more that
overtakes or is overtaken; a list of four pages has a page to skip.
Two connections for three requests make one wait for the others, and make a
connection pass from one tenant to another; the mixes of `RepoLink` are the
combinations in which requests of one intake can meet (three POSTs, one with a
repeated SHA; another tenant's POST or GET; a GET between the INSERTs; health).
Two spellings of one SHA and a second SHA are enough for a loop that is cut off
and for a duplicate. Tabs of pages that do not share a row share nothing, so
`Openings` lists the combinations that do; three presses are a walk through the
machine, or an answer that is overtaken twice.
`MaxClock`, `MaxTime`, `MaxItems`, `MaxFlight`, `MaxStack`, `MaxPresses` and `MaxVisits` bound counters; the
proofs are free of all bounds. `Kinds` is restricted to those two mixes because GETs and plans need a
finding to be of interest.

**Deadlock** is checked for the list pages only, where a user can always act.
The other runs have `CHECK_DEADLOCK FALSE`: requests are one-shot, so every
behaviour ends. That nobody waits for ever is what the
liveness properties say.

**Fairness.** `FairSpec` of the routes has weak fairness of `Step(r)`, the
statements of a request in flight: `withTenant` ends every transaction it
begins, by COMMIT or ROLLBACK, nothing in a handler waits for its client, and a
waiting statement proceeds when the lock is released. Weak fairness is enough
because a request is never overtaken twice by the same one. Failures, crashes
and the beginnings of requests are not fair. In `BobCall` only `TimerFires` and
`Killed` are: an armed timer fires and SIGKILL kills; of the CLI nothing is
assumed. In `RepoLink` the failure after 5 s is not fair: requests end because
connections come back, not because they give up. In `ActionPages` weak fairness
of `Progress(t)` is that the server answers, which the modules of the routes
show (an export apart), and that the browser delivers an answer or an error. No liveness is claimed of an evidence export: the S3 client has no
request timeout (`lib/s3.ts:48`), so nothing bounds an upload.

**`Overlap = FALSE`** is a discipline of the clients (nobody sends a transition
of a plan while another is in flight), not something the code enforces. It is
there to say what the state machine of the shared package is worth: exactly
then it holds.

## 4. Findings

The violation runs show disagreements with what the repository says of itself;
`PROJECT.json` quotes the lines.

* Two overlapping decisions both answer 200, and an approved plan becomes
  rejected: `performTransition` reads without FOR UPDATE and the UPDATE does
  not repeat the condition on the status.
* After 24 h a run cannot be ingested again, ever: the WHERE of the unique index
  compares with a fixed date and expired rows are never deleted.

Observed while modelling, without a run of their own:

* A GET of an evidence export returns 200 with a link to the key `pending`,
  which names no object, between the INSERT and the UPDATE, and for ever after a
  crash in between (`GetLatest` takes the newest row whatever its key, as
  `routes/evidence-export.ts:434` does). To see it, check
  `\A g \in Readers : key[g] # "pending"` in `EvidenceStores.cfg`.
* A list skips the rows of the cursor's millisecond, although `lib/cursor.ts:15`
  says that pagination "never skips or repeats". `MissedOnlyInCursorMs` says
  that it skips no others; `\A r \in steady : Passed(r) => r \in earlier \cup page`
  is violated under `CursorWalk.cfg`.
* A link whose body repeats a commit, in any spelling of the SHA, is refused with
  409 "this intake already has a repo link" though it has none
  (`AnswerTellsLink` has the case). The message of the other 409 says "unlink
  first to replace", and there is no endpoint that unlinks.
* The policies compare `tenant_id::text` with the header as it was sent: a
  tenant spelt in upper case passes the hook and sees no rows.
* The approval page whose first GET fails says "loading…" until it is loaded
  again. A POST that was lost enables its buttons while the server works on: the
  next press can overlap it, so one user with one tab can leave the drawing
  (`MachineWhenAlone` fails without `cut'`).
* The button of the intake page is never disabled, and the status of an earlier
  press can overwrite the later one's. Two presses in a millisecond have the
  same `run_id`, and so the same intake.
* The loser of two simultaneous POSTs of a run gets 500, not a replay
  (`UniqueViolation`), although the comment at `routes/intake.ts:101` is about
  avoiding that race.
* A list page whose fetches are overtaken settles on the rows of an older
  filter: `SettledShowsCurrent` fails without `~late`. An error of an older
  fetch stays over the newer rows. A refresh, or a shared link, loses its
  cursor: the effect of line 163 of the page resets it on mount, although
  `lib/list-utils.ts:4-5` says both "just work". A second click on Next while
  the page loads leaves a dead click of Prev.
* `${provider}:${run_id}:${attempt_id}` is not escaped (`routes/intake.ts:99`):
  different runs can share a key. `DedupeKey` models it.
* With overlapping transitions an audit entry can be dated before the
  submission it needed (`created_at` is the start of the transaction).
* An upload whose answer is lost leaves an object no row names.
* The finding in a bundle's `rca.json` need not be the one its plan is made
  from: both are read as the newest.
* The regular expression of `lib/bob.ts:162` is greedy: two objects, or a brace
  in trailing prose, are refused, while the comment at line 85 says the first
  object is taken. `spawn` can throw, and stdin can fail without a listener,
  although line 87 says that all failures are typed errors. Chunks are decoded
  one by one.

## 5. Proofs

Eight modules of theorems, for any constants that satisfy the modules' ASSUMEs
(sets of actors are disjoint, null values are not members, bounds are natural
numbers; the last date in the index's WHERE lies in the past). Each module
proves `Spec => []IInv` for an inductive invariant and draws the properties
from it.

* **ApprovalWorkflowProofs.** Committed rows never change; every status a
  request has read was set by a committed row (`PriorWritten`); only rows of
  `TRANSITIONS` are written (`RowsLegal`). Without `PriorWritten` nothing
  relates a stale `prior` to the tables. It yields `StatusPinned`,
  `ReplyTellsAudit`, `LogCoversStatus`, `EveryDecisionSubmitted` and
  `ImplementsOverlapped`. A second invariant, under `Overlap = FALSE`, says that
  a transition under way still reads the current status; it yields
  `ImplementsMachine`, `AuditWalk` and `TerminalIsFinal`.
* **IntakeIdempotencyProofs.** The SELECT protects nothing. The holder of an
  index entry is alone (`OneHolder`) and found no committed row
  (`HolderAlone`), and no row ever leaves the index (`AlwaysIndexed`). So the
  COMMIT is `Store` of `WriteOnce` and a 200 or 201 is its `Tell`
  (`WriteOnceRefinement`); `OneIntakePerKey` follows.
* **EvidenceExportProofs.** Trails only grow, so the approvals read after the
  status contain its submission and approval; what the stores hold follows the
  program counter (`RowsFollow`). The row of an answered export is never deleted
  (`AnswerTellsRow`), and a GET takes the newest of one snapshot: so it is fresh.
* **BobCallProofs.** The timer is armed exactly while the promise is pending,
  so whoever settles finds it pending: that is the refinement. `stdout` is,
  position by position, what the child printed (`DataAppends`), and complete
  when 'close' is emitted. What decoding chunk by chunk does is
  `OnlyHalvesGarbled`: a chunk that ends within a character replaces its first
  half, and the next chunk the second, so no first half waits at the end of
  `stdout`; nothing but halves is replaced.
* **AnalysisPipelineProofs.** A row and its details are committed together and
  never change, so two snapshots agree on them; the clock moves with each row,
  so a plan is later than its basis.
* **CursorPaginationProofs.** Everything shown is at or before the cursor
  (`ShownBehindCursor`), and a steady row is shown, beyond the cursor, or cut
  off in the millisecond of some cursor (`SteadyAccounted`). `MsBetween` is the
  arithmetic of truncation, `SliceNewer` that a page is the newest part.
* **RepoLinkProofs.** A connection's transaction and tenant follow the program
  counter of the one request that holds it (`ConnsFollow`), which is what makes
  the answers of the policies right (`Readable`) and the next user's connection
  clean. An uncommitted link excludes another one of its intake until it ends
  (`DraftsFollow`), and a committed link never changes (`LinksSound`,
  `OthersEmpty`), so two snapshots agree on it. `VerdictsTrue` says of a verdict
  what `AnswerTellsLink` and `TenantsApart` say of the answer it becomes.
* **WebPagesProofs.** `ListPage`: the newest request in flight is the current
  one (`NewestIsCurrent`), so the last answer is (`SettledDeeper`); a user who
  waits has one request in flight past the first page (`OneAtATime`), so Next
  leads deeper and the stack ascends (`StackAscends`). `ActionPages`
  (`PagesInv`): a page that disables its buttons waits for its last press and
  for nothing else (`TabsWait`), so an answer that arrives is that press's and
  a row that is shown is too (`TabsRow`). What a tab has heard of is either on
  its screen or on its way there (`TabsInformed`), since the log is loaded again
  before the buttons are enabled (`TabsLoad`). While no press was cut off, a tab
  that is alone has one transition in the server, and what that has read is
  still the status when it lands (`InTurn`).

**Nobody is stuck.** Liveness itself is only model-checked (below), but a
request that never ends without anybody being unfair is a matter of safety, and
proved for any number of actors. `MayStep(r)` joins the guards of the actions of
`Step(r)`, conjunct by conjunct, so that it is true exactly where `Step(r)` is
enabled; `MayProgress(t)` does so for the pages.

* `ApprovalWorkflow`: the lock of a row is held by the one transaction between
  its UPDATE and its end (`LockFollows`: COMMIT, ROLLBACK and the death of the
  process all give it up), which waits for nothing; so a request in flight can
  step or waits for a transition of its plan that can.
* `RepoLink`: the INSERT of a link waits with a connection in its hands, so pool
  and index could wait for each other. A request on its way keeps its connection
  (`PoolKept`), in the state its next statement needs (`ConnsFollow`), and who
  holds the index entry needs nothing more (`WriterMayStep`); who has no
  connection finds one, or all are with requests on their way.
* `AnalysisPipeline`: a route that awaits Bob has a promise that is pending or
  settled (`PromiseFollows`), never one that was lost or never made; the newest
  finding exists if there is any (`NewestExists`).
* `BobCall`: a pending call has its timer (`TimerGuardsPending`), and a settled
  one no child that runs on unkilled (`NoChildRunsOn`).
* `ActionPages`: a disabled button waits for a log or a press that is on its way
  (`ButtonsComeBack`), and whatever a transition has read, it may still land
  (`ReadsMayLand`).

In `IntakeIdempotency` this is read off the guards: who waits for an index entry
waits for a request that is about to commit. `EvidenceExport` claims no end, as
nothing bounds an upload.

Only model-checked: liveness (`EveryRequestEnds`, `EveryCallEnds`,
`NoChildOutlivesItsCall`, `PressEnds`), since fairness and ENABLED are out of the
prover's reach. Every other property of a passing run is a theorem. Proved, and
not a property of a passing run, besides the above: `TypeOK` of each module that
has theorems (`PagesTyped` of `ActionPages`); `EveryDecisionSubmitted`, which
follows from `ImplementsOverlapped`; `TerminalIsFinal` without overlap, which
follows from `ImplementsMachine`; `OneIntakePerKey` and `GetShowsWhole` of
`RepoLink`, which follow from `ImplementsWriteOnce`; `LinkedForever` of
`EvidenceExport`, `TimerGuardsPending` and `GarbledWhole` of `BobCall` and
`AnswerTellsRow` of `AnalysisPipeline`.

## 6. Not modelled, and plan

Written in this order: the approval workflow, intake, evidence export, Bob with
the analyses, the lists, the list pages, the pool with the repository link, the
forms of the web application. The safety properties of all of them are proved, and that nobody is stuck in them.

Left out for good:

* The mask policy: a pure function, twelve regular expressions and an entropy
  threshold over text. A model that tells its cases apart would be those
  expressions again. That a failure of it stops an intake is `MaskBlocked`.
* The dashboard: five GETs, each shown as it comes, and nothing relates them.
* The bootstrap (registration of plugins, configuration), zod schemas (shapes of
  data), layout and wording of the web pages, presigned URLs (local arithmetic),
  Redis (configured, never used), scripts and documents. `isBucketReachable` of
  `lib/s3.ts` has no caller.
