---------------------------- MODULE MCLeadAssign ----------------------------
(* Small instances of LeadAssign. *)
EXTENDS LeadAssign, TLC

CONSTANTS c1, c2, c3, c4, u1, u2, u3

Symmetry == Permutations(Call) \cup Permutations(User)
=============================================================================
