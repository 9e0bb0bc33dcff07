--------------------------- MODULE MCLeaveRequests ---------------------------
(* Small instances of LeaveRequests. *)
EXTENDS LeaveRequests, TLC

CONSTANTS c1, c2, c3, c4, h1, h2, r1

TwoDays == {1, 2}
AllOps == Op
CallSymmetry == Permutations(Call)
=============================================================================
