------------------------------ MODULE MCTeamAccess ------------------------------
(***************************************************************************)
(* One environment with a tenant, an ODS of it and two organisations, the  *)
(* second of which is below the first, above it, beside it, or gone.       *)
(***************************************************************************)
EXTENDS TeamAccess, TLC

CONSTANTS e1, t1, o1, d1, d2, reader, full

MCEnvOf    == (t1 :> e1)
MCTenantOf == (o1 :> t1)
MCOdsOf    == (d1 :> o1) @@ (d2 :> o1)

MCInitRole == (reader :> Minimum \cup {"vendor:read"}) @@ (full :> Privilege)

\* Beside those, a role that is too little for an organisation.
MCRoleSets == {MCInitRole[reader], Privilege, {"env:read"}}

\* On SQL Server, also an ODS, in which two roots are too many.
MCInitRows ==
  [e \in Engine |-> IF e = "mssql" THEN {(d2 :> full), (o1 :> full)} ELSE {(d2 :> full)}]

\* All else is the same on both.
MCMaxChanges == [e \in Engine |-> IF e = "mssql" THEN 1 ELSE 2]

MCMaxOutages == [e \in Engine |-> 1]

MCNoOutages == [e \in Engine |-> 0]

MCInitTree == (d1 :> Root) @@ (d2 :> d1)

MCTrees ==
  {(d1 :> Root), MCInitTree, (d1 :> d2) @@ (d2 :> Root), (d1 :> Root) @@ (d2 :> Root)}

=============================================================================
