-------------------------- MODULE MCTaskLifecycle --------------------------
(* Small instances of TaskLifecycle for TLC. *)
EXTENDS TaskLifecycle, TLC

CONSTANTS k1, k2, w1, w2, w3

WorkerSymmetry == Permutations(Worker)
============================================================================
