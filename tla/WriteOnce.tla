------------------------------ MODULE WriteOnce ------------------------------
(***************************************************************************)
(* What a table with a unique constraint promises the clients of its       *)
(* routes.  There is at most one entry for a key; the first client to      *)
(* store one decides what it is, for good and as a whole; whoever is told  *)
(* an entry of its key, the one that stored it, one that came too late or  *)
(* one that only asks, is told that one.                                   *)
(*                                                                         *)
(* A client may be refused, fail or never hear of an entry it stored: then *)
(* it is told nothing.  IntakeIdempotency implements this for the intakes  *)
(* of a CI run, and RepoLink for the link of an intake with its commits.   *)
(***************************************************************************)
CONSTANTS Keys, Clients

VARIABLES
  key,     \* the key each client asks about
  offer,   \* what it would store
  entry,   \* entry[k]: the set of what is stored for k
  told     \* told[r]: the set of what client r has been told

onceVars == <<key, offer, entry, told>>

OnceInit ==
  /\ entry = [k \in Keys |-> {}]
  /\ told = [r \in Clients |-> {}]

Store(r) ==
  /\ entry[key[r]] = {}
  /\ entry' = [entry EXCEPT ![key[r]] = {offer[r]}]
  /\ UNCHANGED <<key, offer, told>>

Tell(r) ==
  /\ told[r] = {} /\ entry[key[r]] # {}
  /\ told' = [told EXCEPT ![r] = entry[key[r]]]
  /\ UNCHANGED <<key, offer, entry>>

OnceNext == \E r \in Clients : Store(r) \/ Tell(r)
OnceSpec == OnceInit /\ [][OnceNext]_onceVars
=============================================================================
