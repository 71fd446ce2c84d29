----------------------------- MODULE MCApplications -----------------------------
(* Two organisations at one ODS, one of them at another ODS too. *)
EXTENDS Applications, TLC

CONSTANTS o1, o2, x, y

MCInitEdorgs == {<<o1, x>>, <<o1, y>>, <<o2, x>>}

MCAsk ==
  {[orgs |-> {x, y}, ods |-> {o1}, provider |-> TRUE],
   [orgs |-> {x, y}, ods |-> {o2}, provider |-> FALSE],
   [orgs |-> {x}, ods |-> {o1}, provider |-> TRUE]}

MCAskStores == {{o2}, {o1, o2}}

MCControl == {Ods \X Org, {<<o1, x>>, <<o2, x>>, <<o2, y>>}}

\* Two requests at a time and nothing fails, or one with two mishaps.
MCBudgets == {[requests |-> 2, mishaps |-> 0], [requests |-> 1, mishaps |-> 2]}

Symmetry == Permutations(Req)

=============================================================================
