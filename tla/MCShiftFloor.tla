---------------------------- MODULE MCShiftFloor ----------------------------
(* Small instances of ShiftFloor for TLC. *)
EXTENDS ShiftFloor, TLC

CONSTANTS e1, e2, a1, a2, a3, o1, c1, c2

MCEmployees == {e1, e2}
MCAssignmentIds == {a1, a2, a3}
MCOrders == {o1}
MCHours == {4, 8}
MCClerks == {c1, c2}

\* Nothing singles out an employee, a row id or a clerk.
MCSymmetry == Permutations(MCEmployees) \cup Permutations(MCAssignmentIds)
              \cup Permutations(MCClerks)
=============================================================================
