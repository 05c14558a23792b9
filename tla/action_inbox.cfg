\* Two refreshes and two managers on the items of one shift, its pool and a dispute.
CONSTANTS
    d1 = d1
    m1 = m1
    m2 = m2
    s1 = s1
    s2 = s2
    None = None
    DisputeIds <- MCDisputeIds
    Managers <- MCManagers
    Sweeps <- MCSweeps
SYMMETRY MCSymmetry
SPECIFICATION Spec
INVARIANTS
    InboxSafe
PROPERTIES
    AnsweredOnce
CHECK_DEADLOCK FALSE
