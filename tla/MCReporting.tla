---------------------------- MODULE MCReporting ----------------------------
(* Small instances of Reporting. *)
EXTENDS Reporting

CONSTANTS r1, r2, p1, p2
=============================================================================
