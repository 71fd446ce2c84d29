----------------------------- MODULE MCJobQueue ------------------------------
(* JobQueue on small instances: see the .cfg files for the sizes. *)
EXTENDS JobQueue, TLC

CONSTANT k1

\* A scheduled sync (keyed by its environment, it expires), a manual one (no
\* key) and a job of a queue that has no handler.
MCQueue  == {"sbe-sync", "unknown"}
MCWorker == {"sbe-sync"}
Scheduled == [name |-> "sbe-sync", key |-> k1, expires |-> TRUE]

Unhandled  == [name |-> "unknown", key |-> NoKey, expires |-> FALSE]
MCKey     == {k1}
AllRequests  == {Scheduled, Unhandled}

Symmetry == Permutations(Instance) \cup Permutations(JobId)

=============================================================================
