-------------------------- MODULE IntakeIdempotency -------------------------
(***************************************************************************)
(* POST /v1/intake and GET /v1/intake/:id: apps/api/src/routes/intake.ts   *)
(* with the tables of the migration 1747500000000.                         *)
(*                                                                         *)
(* A request that passes its checks looks for an active row of             *)
(* idempotency_keys for its CI run and answers with that row's intake; it  *)
(* otherwise inserts raw_intake, intake_meta and idempotency_keys in one   *)
(* transaction.  The unique index on (tenant_id, dedupe_key) is what keeps *)
(* two transactions that both found nothing from both committing: the      *)
(* second INSERT waits for the first transaction and then fails with       *)
(* 23505, which no handler maps, so the client gets a 500.                 *)
(*                                                                         *)
(* A request creates at most one intake (randomUUID), so the request names *)
(* the intake and its three rows.                                          *)
(***************************************************************************)
EXTENDS Naturals, Sequences

CONSTANTS
  Requests,      \* the POSTs the API receives, each served once
  Runs,          \* CI runs: [tenant, run_id, attempt_id], ids as sequences
  NoIntake,      \* no intake
  Window,        \* IDEMPOTENCY_WINDOW_SECONDS, in ticks of the clock
  IndexedFrom,   \* the date in the WHERE of idempotency_keys_active_uq
  MaxClock,      \* bound on the clock, for TLC
  Faults         \* TRUE: statements fail, connections drop, the API dies

ASSUME NoIntakeAssumption == NoIntake \notin Requests
ASSUME TimeAssumption ==
  /\ Window \in Nat /\ IndexedFrom \in Nat /\ MaxClock \in Nat
  /\ IndexedFrom < Window    \* the API runs after that date
ASSUME FaultsAssumption == Faults \in BOOLEAN

VARIABLES
  raw, meta, keys,   \* committed rows of the three tables
  clock,             \* the database clock
  pc, run, began,    \* where the request is, what it sent, its NOW()
  reply, answer,     \* HTTP status (0: none) and intake_id of the response
  got                \* the status of the GET of that intake by its client

tables == <<raw, meta, keys>>
vars == <<raw, meta, keys, clock, pc, run, began, reply, answer, got>>

InTx == {"begun", "fresh", "written", "keyed"}
PCs  == {"idle", "committed", "done"} \cup InTx
InFlight(r) == pc[r] \in InTx \cup {"committed"}

(* The template literal `${provider}:${run_id}:${attempt_id}`; neither part *)
(* is escaped.  The index and the SELECT pair it with the tenant.           *)
DedupeKey(job) == <<job.tenant, job.run_id \o <<":">> \o job.attempt_id>>

SameKey(q, r)   == DedupeKey(run[q]) = DedupeKey(run[r])
ExpiresAt(q)    == began[q] + Window

(* Mutant: rows leave the index when they expire. *)
IndexedNow(q)   == ExpiresAt(q) > clock
Indexed(q)      == ExpiresAt(q) > IndexedFrom

Finish(r, code, intake) ==
  /\ pc' = [pc EXCEPT ![r] = "done"]
  /\ reply' = [reply EXCEPT ![r] = code]
  /\ answer' = [answer EXCEPT ![r] = intake]

Init ==
  /\ raw = {} /\ meta = {} /\ keys = {}
  /\ clock = 0
  /\ pc = [r \in Requests |-> "idle"]
  /\ run \in [Requests -> Runs]
  /\ began = [r \in Requests |-> 0]
  /\ reply = [r \in Requests |-> 0]
  /\ answer = [r \in Requests |-> NoIntake]
  /\ got = [r \in Requests |-> 0]

-----------------------------------------------------------------------------
Tick ==
  /\ clock < MaxClock
  /\ clock' = clock + 1
  /\ UNCHANGED <<tables, pc, run, began, reply, answer, got>>

(* The preHandler hook of every route: no tenant, no handler. *)
Unauthorized(r) ==
  /\ pc[r] = "idle"
  /\ Finish(r, 401, NoIntake)
  /\ UNCHANGED <<tables, clock, run, began, got>>

(* Refused before any transaction: no Idempotency-Key (400), schema (422), *)
(* over 50 MB (413).                                                       *)
Refuse(r) ==
  /\ pc[r] = "idle"
  /\ \E code \in {400, 413, 422} : Finish(r, code, NoIntake)
  /\ UNCHANGED <<tables, clock, run, began, got>>

(* The mask engine fails: MaskBlockedError, 500, and nothing is stored. *)
MaskBlocked(r) ==
  /\ pc[r] = "idle"
  /\ Faults
  /\ Finish(r, 500, NoIntake)
  /\ UNCHANGED <<tables, clock, run, began, got>>

(* The artifact is masked and withTenant begins; NOW() is this moment. *)
Begin(r) ==
  /\ pc[r] = "idle"
  /\ pc' = [pc EXCEPT ![r] = "begun"]
  /\ began' = [began EXCEPT ![r] = clock]
  /\ UNCHANGED <<tables, clock, run, reply, answer, got>>

Active(r) == {q \in keys \cap meta : SameKey(q, r) /\ ExpiresAt(q) > began[r]}

(* SELECT ... expires_at > NOW(): an active row is replayed with a 200. *)
Replay(r) ==
  /\ pc[r] = "begun"
  /\ \E q \in Active(r) : Finish(r, 200, q)
  /\ UNCHANGED <<tables, clock, run, began, got>>

FoundNone(r) ==
  /\ pc[r] = "begun"
  /\ Active(r) = {}
  /\ pc' = [pc EXCEPT ![r] = "fresh"]
  /\ UNCHANGED <<tables, clock, run, began, reply, answer, got>>

(* Mutant: the first INSERT runs outside of the transaction. *)
InsertIntakeAutocommit(r) ==
  /\ pc[r] = "fresh"
  /\ raw' = raw \cup {r}
  /\ pc' = [pc EXCEPT ![r] = "written"]
  /\ UNCHANGED <<meta, keys, clock, run, began, reply, answer, got>>

(* INSERT INTO raw_intake, intake_meta: fresh ids, nothing to wait for. *)
InsertIntake(r) ==
  /\ pc[r] = "fresh"
  /\ pc' = [pc EXCEPT ![r] = "written"]
  /\ UNCHANGED <<tables, clock, run, began, reply, answer, got>>

(* Rows of the unique index that conflict with r, committed and not. *)
Conflicts(r) == {q \in keys : SameKey(q, r) /\ Indexed(q) /\ Indexed(r)}
Holders(r)   == {q \in Requests \ {r} :
                   pc[q] = "keyed" /\ SameKey(q, r) /\ Indexed(q) /\ Indexed(r)}

(* Mutant: no unique index. *)
InsertKeyUnindexed(r) ==
  /\ pc[r] = "written"
  /\ pc' = [pc EXCEPT ![r] = "keyed"]
  /\ UNCHANGED <<tables, clock, run, began, reply, answer, got>>

(* INSERT INTO idempotency_keys: waits while an open transaction holds the *)
(* key, as only its end decides whether there is a conflict.               *)
InsertKey(r) ==
  /\ pc[r] = "written"
  /\ Holders(r) = {} /\ Conflicts(r) = {}
  /\ pc' = [pc EXCEPT ![r] = "keyed"]
  /\ UNCHANGED <<tables, clock, run, began, reply, answer, got>>

(* Mutant: after the ROLLBACK the route looks for the winner's row again. *)
UniqueViolationRetried(r) ==
  /\ pc[r] = "written"
  /\ Conflicts(r) # {}
  /\ pc' = [pc EXCEPT ![r] = "begun"]
  /\ UNCHANGED <<tables, clock, run, began, reply, answer, got>>

(* 23505: ROLLBACK, and errorHandler turns the pg error into a 500. *)
UniqueViolation(r) ==
  /\ pc[r] = "written"
  /\ Conflicts(r) # {}
  /\ Finish(r, 500, NoIntake)
  /\ UNCHANGED <<tables, clock, run, began, got>>

Commit(r) ==
  /\ pc[r] = "keyed"
  /\ raw' = raw \cup {r} /\ meta' = meta \cup {r} /\ keys' = keys \cup {r}
  /\ pc' = [pc EXCEPT ![r] = "committed"]
  /\ UNCHANGED <<clock, run, began, reply, answer, got>>

(* 201, unless the acknowledgement of the COMMIT is lost. *)
Respond(r) ==
  /\ pc[r] = "committed"
  /\ Finish(r, 201, r) \/ (Faults /\ Finish(r, 500, NoIntake))
  /\ UNCHANGED <<tables, clock, run, began, got>>

(* A statement fails or its connection drops: ROLLBACK, 500. *)
Fail(r) ==
  /\ Faults
  /\ pc[r] \in InTx
  /\ Finish(r, 500, NoIntake)
  /\ UNCHANGED <<tables, clock, run, began, got>>

(* The API dies: what was not committed is rolled back, nobody is answered. *)
Crash ==
  /\ Faults
  /\ \E r \in Requests : InFlight(r)
  /\ pc' = [r \in Requests |-> IF InFlight(r) THEN "done" ELSE pc[r]]
  /\ UNCHANGED <<tables, clock, run, began, reply, answer, got>>

(* intake_meta JOIN raw_intake, under the row-level security of the tenant. *)
Visible(tenant) == {q \in meta \cap raw : run[q].tenant = tenant}

(* GET /intake/:id of the intake the client was told of, at any later time. *)
Get(r) ==
  /\ reply[r] \in {200, 201}
  /\ got[r] = 0
  /\ \/ answer[r] \in Visible(run[r].tenant) /\ got' = [got EXCEPT ![r] = 200]
     \/ answer[r] \notin Visible(run[r].tenant) /\ got' = [got EXCEPT ![r] = 404]
     \/ Faults /\ got' = [got EXCEPT ![r] = 500]
  /\ UNCHANGED <<tables, clock, pc, run, began, reply, answer>>

Step(r) ==
  \/ Replay(r) \/ FoundNone(r) \/ InsertIntake(r) \/ InsertKey(r)
  \/ UniqueViolation(r) \/ Commit(r) \/ Respond(r)

Next ==
  \/ Tick
  \/ \E r \in Requests :
       \/ Unauthorized(r) \/ Refuse(r) \/ MaskBlocked(r) \/ Begin(r) \/ Step(r)
       \/ Fail(r) \/ Get(r)
  \/ Crash

Spec == Init /\ [][Next]_vars

(* withTenant ends every transaction; the statements of a request run. *)
FairSpec == Spec /\ \A r \in Requests : WF_vars(Step(r))

-----------------------------------------------------------------------------
TypeOK ==
  /\ raw \in SUBSET Requests /\ meta \in SUBSET Requests /\ keys \in SUBSET Requests
  /\ clock \in Nat
  /\ pc \in [Requests -> PCs]
  /\ run \in [Requests -> Runs]
  /\ began \in [Requests -> Nat]
  /\ reply \in [Requests -> {0, 200, 201, 400, 401, 413, 422, 500}]
  /\ answer \in [Requests -> Requests \cup {NoIntake}]
  /\ got \in [Requests -> {0, 200, 404, 500}]

(* TEST-001-A, "0 duplicates": however POSTs of a run race, fail or are     *)
(* retried, before or after the window, at most one intake of it is stored. *)
OneIntakePerKey ==
  \A q, r \in meta : SameKey(q, r) => q = r

(* Idempotency as one table with one entry per CI run: the intake that is    *)
(* stored first is the only one, for good, and every POST of the run that    *)
(* succeeds, created (201) or replayed (200), is answered with it; no answer *)
(* names an intake that is not stored yet, or never will be.                 *)
RunKeys == {DedupeKey(job) : job \in Runs}
IntakesOf(k) == {q \in meta : DedupeKey(run[q]) = k}
Told(r) == IF reply[r] \in {200, 201} THEN {answer[r]} ELSE {}
Ledger == INSTANCE WriteOnce WITH
  Keys <- RunKeys, Clients <- Requests,
  key   <- [r \in Requests |-> DedupeKey(run[r])],
  offer <- [r \in Requests |-> r],
  entry <- [k \in RunKeys |-> IntakesOf(k)],
  told  <- [r \in Requests |-> Told(r)]
ImplementsWriteOnce == Ledger!OnceSpec

(* An intake is stored whole or not at all: no crash or failed statement *)
(* leaves one of its three rows without the others.                      *)
WholeIntake == raw = meta /\ meta = keys

(* Idempotency as a client sees it: any two POSTs of one run that succeed, *)
(* created or replayed, name the same intake, that intake is stored, and   *)
(* the client's GET of it never says that there is none.                   *)
AnswersAgree ==
  /\ \A q, r \in Requests :
       reply[q] \in {200, 201} /\ reply[r] \in {200, 201} /\ run[q] = run[r] =>
         answer[q] = answer[r] /\ answer[q] \in meta
  /\ \A r \in Requests : got[r] # 404

(* Every request that begins ends: POSTs that wait for each other's index *)
(* entry never deadlock, and a failed one gives its entry up.             *)
EveryRequestEnds == \A r \in Requests : pc[r] = "begun" ~> pc[r] = "done"

(* docs/MendoraCI_APIContractSpec.md: dedupe within 24h.  With no fault, a *)
(* POST fails only if the run was already ingested within the window.      *)
ReingestAfterWindow ==
  \A r \in Requests :
    reply[r] = 500 =>
      \E q \in Requests \ {r} : SameKey(q, r) /\ ExpiresAt(q) > began[r]
=============================================================================
