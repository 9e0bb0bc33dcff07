------------------------------ MODULE MCSearch ------------------------------
(* A small instance of Search. *)
EXTENDS Search

SomeRows == {[key |-> 1, fits |-> TRUE, owned |-> TRUE], [key |-> 2, fits |-> TRUE, owned |-> FALSE],
             [key |-> 1, fits |-> FALSE, owned |-> TRUE]}
=============================================================================
