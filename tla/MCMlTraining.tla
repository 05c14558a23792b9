---------------------------- MODULE MCMlTraining ----------------------------
(* Small instances of MlTraining for TLC. *)
EXTENDS MlTraining, TLC

CONSTANTS j1, j2, i1, i2, k1, k2

OneJob == {j1}
TwoJobs == {j1, j2}
OneInstance == {i1}
TwoInstances == {i1, i2}
TwoCalls == {k1, k2}

\* The versions of two jobs of one and two employees tell apart the order they were learned.
OneAndTwo == [j \in TwoJobs |-> IF j = j1 THEN 1 ELSE 2]
One == [j \in OneJob |-> 1]

CallSymmetry == Permutations(TwoCalls) \cup Permutations(TwoInstances)
=============================================================================
