---------------------------- MODULE MCShiftScreen ----------------------------
(* Small instances of ShiftScreen for TLC. *)
EXTENDS ShiftScreen, TLC

CONSTANTS r1, r2, k1, k2

MCRows == {r1, r2}
MCTeam == {r1, r2}
MCHours == {0, 8}
MCSlots == {k1, k2}

\* The rows and the slots are interchangeable.
MCSymmetry == Permutations(MCRows) \cup Permutations(MCSlots)
=============================================================================
