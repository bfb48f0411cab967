--------------------------- MODULE MCWorkerLedger ---------------------------
(* WorkerLedger with two authorities of two tickets and three sessions.      *)
EXTENDS WorkerLedger, TLC

AssignmentSymmetry == Permutations(Assignment)
=============================================================================
