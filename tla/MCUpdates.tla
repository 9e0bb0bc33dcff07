------------------------------ MODULE MCUpdates ------------------------------
(* Small instances of Updates. *)
EXTENDS Updates, TLC

CONSTANTS c1, c2, c3, s1, s2, k1, u1

\* s1 is configured, s2 is not.
OneInactive == [k \in {k1} |-> [id |-> s1, code |-> k1, active |-> FALSE]]
OneActive == [k \in {k1} |-> [id |-> s1, code |-> k1, active |-> TRUE]]

Symmetry == Permutations(Call)
=============================================================================
