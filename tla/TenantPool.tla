----------------------------- MODULE TenantPool -----------------------------
(***************************************************************************)
(* The connection pool and the transactions of apps/api/src/lib/db.ts.     *)
(*                                                                         *)
(* Every request that touches a tenant's data checks a connection out of   *)
(* one bounded pool, opens a transaction, sets app.tenant_id in it, which  *)
(* row-level security compares with the rows, and returns the connection   *)
(* whatever happened.  The next user of the connection must find nothing   *)
(* of it.  RepoLink is written on these steps.                              *)
(*                                                                         *)
(* A connection that broke is dropped by pg when it is released, as it can *)
(* no longer be queried.  Which of the waiting requests is next, pg        *)
(* decides; here any of them may be.                                       *)
(***************************************************************************)
CONSTANTS
  Requests,  \* who checks connections out
  Conns,     \* the slots of the pool, "max" of them
  Tenants,
  Nobody     \* no user, no tenant

VARIABLES
  up,      \* the API is running
  user,    \* user[c]: who has checked connection c out
  tx,      \* tx[c]: what c is, for Postgres
  scope    \* scope[c]: app.tenant_id on c

pool == <<up, user, tx, scope>>

(* "closed": the slot has no connection; "none": no transaction is open;    *)
(* "aborted": a statement failed, and Postgres waits for the ROLLBACK.      *)
TxStates == {"closed", "none", "open", "aborted", "broken"}

Holds(r, c) == user[c] = r
Idle(c)     == user[c] = Nobody /\ tx[c] = "none"

PoolInit ==
  /\ up = FALSE
  /\ user = [c \in Conns |-> Nobody]
  /\ tx = [c \in Conns |-> "closed"]
  /\ scope = [c \in Conns |-> Nobody]

(* The check at startup leaves its connection in the pool. *)
Startup ==
  /\ ~up
  /\ up' = TRUE
  /\ \E c \in Conns : tx' = [tx EXCEPT ![c] = "none"]
  /\ UNCHANGED <<user, scope>>

(* pool.connect() is answered: an idle connection, or a new one. *)
CheckOut(r) ==
  /\ \E c \in Conns :
       /\ Idle(c) \/ (tx[c] = "closed" /\ \A d \in Conns : ~Idle(d))
       /\ user' = [user EXCEPT ![c] = r]
       /\ tx' = [tx EXCEPT ![c] = "none"]
  /\ UNCHANGED <<up, scope>>

BeginTx(r) ==
  /\ \E c \in Conns :
       /\ Holds(r, c) /\ tx[c] = "none"
       /\ tx' = [tx EXCEPT ![c] = "open"]
  /\ UNCHANGED <<up, user, scope>>

(* set_config('app.tenant_id', t, true). *)
SetScope(r, t) ==
  /\ \E c \in Conns :
       /\ Holds(r, c) /\ tx[c] = "open"
       /\ scope' = [scope EXCEPT ![c] = t]
  /\ UNCHANGED <<up, user, tx>>

(* Mutant: set_config(..., false), a setting of the session. *)
EndTxUnscoped(c, to) ==
  /\ tx' = [tx EXCEPT ![c] = to]
  /\ UNCHANGED scope

(* A transaction takes its setting with it, however it ends. *)
EndTx(c, to) ==
  /\ tx' = [tx EXCEPT ![c] = to]
  /\ scope' = [scope EXCEPT ![c] = Nobody]

(* COMMIT; the connection may break before the acknowledgement arrives. *)
CommitTx(r, acknowledged) ==
  /\ \E c \in Conns :
       /\ Holds(r, c) /\ tx[c] = "open"
       /\ EndTx(c, IF acknowledged THEN "none" ELSE "broken")
  /\ UNCHANGED <<up, user>>

(* A statement fails and Postgres aborts the transaction, *)
AbortTx(r) ==
  /\ \E c \in Conns :
       /\ Holds(r, c) /\ tx[c] = "open"
       /\ tx' = [tx EXCEPT ![c] = "aborted"]
  /\ UNCHANGED <<up, user, scope>>

(* or the connection breaks under it, and with it the transaction ends.  If *)
(* pg ends the process instead, that is Die.                                *)
BreakConn(r) ==
  /\ \E c \in Conns :
       /\ Holds(r, c) /\ tx[c] \in {"none", "open"}
       /\ EndTx(c, "broken")
  /\ UNCHANGED <<up, user>>

(* The ROLLBACK of the catch block.  On a broken connection it fails, and it *)
(* may break one that was whole; .catch(() => {}) swallows both.             *)
RollbackTx(r) ==
  /\ \E c \in Conns, to \in {"none", "broken"} :
       /\ Holds(r, c)
       /\ tx[c] = "broken" => to = "broken"
       /\ EndTx(c, to)
  /\ UNCHANGED <<up, user>>

(* Mutant: a connection that broke is not released. *)
ReleaseUnbroken(r) ==
  /\ \E c \in Conns :
       /\ Holds(r, c)
       /\ user' = [user EXCEPT ![c] = IF tx[c] = "broken" THEN @ ELSE Nobody]
  /\ UNCHANGED <<up, tx, scope>>

(* The finally block: client.release(). *)
Release(r) ==
  /\ \E c \in Conns :
       /\ Holds(r, c)
       /\ user' = [user EXCEPT ![c] = Nobody]
       /\ tx' = [tx EXCEPT ![c] = IF @ = "broken" THEN "closed" ELSE @]
  /\ UNCHANGED <<up, scope>>

(* idleTimeoutMillis. *)
CloseIdle ==
  /\ \E c \in Conns : Idle(c) /\ tx' = [tx EXCEPT ![c] = "closed"]
  /\ UNCHANGED <<up, user, scope>>

(* The process ends; one cause is an idle connection that Postgres closes: *)
(* nobody listens to the pool's 'error' event.  Postgres rolls back.       *)
Die ==
  /\ up
  /\ up' = FALSE
  /\ user' = [c \in Conns |-> Nobody]
  /\ tx' = [c \in Conns |-> "closed"]
  /\ scope' = [c \in Conns |-> Nobody]

PoolTypeOK ==
  /\ up \in BOOLEAN
  /\ user \in [Conns -> Requests \cup {Nobody}]
  /\ tx \in [Conns -> TxStates]
  /\ scope \in [Conns -> Tenants \cup {Nobody}]
=============================================================================
