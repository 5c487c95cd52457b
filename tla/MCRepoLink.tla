----------------------------- MODULE MCRepoLink -----------------------------
(***************************************************************************)
(* RepoLink with three requests and two connections: three POSTs that race *)
(* for one intake; POSTs of two tenants and a GET; a POST, a GET and the   *)
(* health check.  "A" and "a" are one SHA in two spellings.                *)
(***************************************************************************)
EXTENDS RepoLink

CONSTANTS r1, r2, r3, t1, t2, i1

OneOwner  == [i \in Intakes |-> t1]
LowerCase == [s \in Shas |-> IF s = "A" THEN "a" ELSE s]

Ask(kind, tenant, commits) ==
  [kind |-> kind, tenant |-> tenant, intake |-> i1, commits |-> commits]
Three(x, y, z) ==
  [r \in Requests |-> IF r = r1 THEN x ELSE IF r = r2 THEN y ELSE z]

Mixes ==
  LET post(commits) == Ask("link", t1, commits)
      get           == Ask("show", t1, <<>>)
  IN {Three(post(<<"a", "b">>), post(<<"a", "A">>), post(<<>>)),
      Three(post(<<"A", "b">>), Ask("link", t2, <<"a">>), get),
      Three(post(<<"a">>), Ask("show", t2, <<>>), get),
      Three(post(<<"A">>), get, Ask("health", t1, <<>>))}
=============================================================================
