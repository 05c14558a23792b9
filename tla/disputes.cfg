\* Two requests of an employee and two managers on two disputes of one share.
CONSTANTS
    r1 = r1
    a1 = a1
    a2 = a2
    d1 = d1
    d2 = d2
    m1 = m1
    m2 = m2
    q1 = q1
    q2 = q2
    None = None
    Rows <- MCRows
    Amounts <- MCAmounts
    DisputeIds <- MCDisputeIds
    Reviewers <- MCReviewers
    Outcomes = {"EXPLAINED"}
    Requests <- MCRequests
SYMMETRY MCSymmetry
SPECIFICATION DisputesSpec
INVARIANTS
    DisputesSafe
PROPERTIES
    EndedForGood
CHECK_DEADLOCK FALSE
