--------------------------- MODULE MCQueueWorker ---------------------------
(* The worker for TLC: two interchangeable worker slots.                   *)
EXTENDS QueueWorker, TLC

Symmetry == Permutations(Workers)
=============================================================================
