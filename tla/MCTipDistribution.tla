-------------------------- MODULE MCTipDistribution --------------------------
(* Small instances of TipDistribution for TLC. *)
EXTENDS TipDistribution, TLC

CONSTANTS e1, e2, a1, a2, a3, o1, c1, m1, m2

TwoEmployees == {e1, e2}
TwoAssignments == {a1, a2}
ThreeAssignments == {a1, a2, a3}
OneOrder == {o1}
OneHour == {8}
OneClerk == {c1}
TwoManagers == {m1, m2}
OneManager == {m1}
ZeroOrOne == {0, 1}

MCSymmetry == Permutations(TwoEmployees) \cup Permutations(ThreeAssignments)
              \cup Permutations(TwoManagers)
=============================================================================
