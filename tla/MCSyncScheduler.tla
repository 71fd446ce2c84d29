--------------------------- MODULE MCSyncScheduler ---------------------------
(* SyncScheduler on small instances: see the .cfg files for the sizes. *)
EXTENDS SyncScheduler, TLC

CONSTANTS e1, e2

JustE1 == {e1}
JustE2 == {e2}
NoEnvs == {}

Symmetry == Permutations(JobId)

=============================================================================
