------------------------------- MODULE MCDlq --------------------------------
EXTENDS DlqReprocess, TLC

(* Tokens and requests are interchangeable. *)
Symmetry == Permutations(Token) \cup Permutations(Process)
=============================================================================
