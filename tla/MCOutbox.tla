------------------------------ MODULE MCOutbox ------------------------------
(* OutboxDispatch for TLC.  Symmetry is used by the safety run only. *)
EXTENDS OutboxDispatch, TLC

Symmetry == Permutations(Grant)
=============================================================================
