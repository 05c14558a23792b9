---------------------------- MODULE MCActionInbox ----------------------------
(* Small instances of ActionInbox for TLC. *)
EXTENDS ActionInbox, TLC

CONSTANTS d1, m1, m2, s1, s2

MCDisputeIds == {d1}
MCManagers == {m1, m2}
MCSweeps == {s1, s2}

\* Nothing singles out a manager or a refresh.
MCSymmetry == Permutations(MCManagers) \cup Permutations(MCSweeps)
==============================================================================
