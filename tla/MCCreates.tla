------------------------------ MODULE MCCreates ------------------------------
(* Small instances of Creates. *)
EXTENDS Creates, TLC

CONSTANTS c1, c2, c3, l1, m1, x1, y1

Symmetry == Permutations(Call)
=============================================================================
