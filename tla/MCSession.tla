----------------------------- MODULE MCSession ------------------------------
(* Small instances of Session for TLC. *)
EXTENDS Session, TLC

CONSTANTS t1, t2, c1, c2

MCTabs == {t1, t2}
MCCalls == {c1, c2}

\* Nothing singles out a tab or a call.
MCSymmetry == Permutations(MCTabs) \cup Permutations(MCCalls)
=============================================================================
