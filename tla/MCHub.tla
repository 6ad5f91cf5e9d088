------------------------------- MODULE MCHub -------------------------------
(* Hub on small instances. *)
EXTENDS Hub, TLC

Symmetry == Permutations(Conns)
=============================================================================
