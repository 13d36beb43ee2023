---------------------------- MODULE MCJobWorker -----------------------------
(* JobWorker for TLC.  Symmetry is used by the safety runs only. *)
EXTENDS JobWorker, TLC

Symmetry == Permutations(Job) \cup Permutations(Token) \cup Permutations(Worker)
=============================================================================
