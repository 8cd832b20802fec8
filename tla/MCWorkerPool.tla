---------------------------- MODULE MCWorkerPool ----------------------------
(* WorkerPool on small sets of workers, tasks and callers of Stop. *)
EXTENDS WorkerPool, TLC

CONSTANTS w1, w2, t1, t2, t3, s1, s2

MCWorkers == {w1, w2}
MCTasks3 == {t1, t2, t3}
MCTasks2 == {t1, t2}
MCModes == {"LIGHT", "SOFT", "HARD"}

\* Not of the tasks: one of them is signalled.
Symmetry == Permutations(MCWorkers)
=============================================================================
