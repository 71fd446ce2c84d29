--------------------------- MODULE MCEnvironmentSync ---------------------------
(***************************************************************************)
(* Two tenants, two addresses: one Admin API has both tenants, the other   *)
(* one of them, or none.  One execution at a time meets every mishap; two  *)
(* that overlap meet one of them.                                          *)
(***************************************************************************)
EXTENDS EnvironmentSync, TLC

CONSTANTS n1, n2, u1, u2, s1, s2

MCInitApis == {(u1 :> {n1, n2}) @@ (u2 :> {n1}), (u1 :> {n1, n2}) @@ (u2 :> {})}

Only(c, u, o, S) == [changes |-> c, updates |-> u, outages |-> o, syncs |-> S]

MCBudgets ==
  {Only(1, 1, 1, {s1}), Only(1, 0, 0, {s1, s2}), Only(0, 1, 0, {s1, s2}),
   Only(0, 0, 1, {s1, s2})}

=============================================================================
