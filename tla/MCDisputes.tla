----------------------------- MODULE MCDisputes -----------------------------
(* Small instances of Disputes for TLC. *)
EXTENDS Disputes, TLC

CONSTANTS r1, a1, a2, d1, d2, m1, m2, q1, q2

MCRows == {r1}
MCAmounts == {a1, a2}
MCDisputeIds == {d1, d2}
MCReviewers == {m1, m2}
MCRequests == {q1, q2}

\* Nothing singles out an amount, a dispute, a manager or a request.
MCSymmetry == Permutations(MCAmounts) \cup Permutations(MCDisputeIds) \cup Permutations(MCReviewers)
              \cup Permutations(MCRequests)
=============================================================================
