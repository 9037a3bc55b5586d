---------------------------- MODULE MCClientTable ----------------------------
(* The instance of ClientTable that TLC checks. *)
EXTENDS ClientTable, TLC

Symmetry == Permutations(Conn)
=============================================================================
