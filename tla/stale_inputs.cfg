\* Sales and hours move between phase 1 and phase 3 of a distribution.
CONSTANTS
    e1 = e1
    e2 = e2
    a1 = a1
    a2 = a2
    a3 = a3
    o1 = o1
    c1 = c1
    m1 = m1
    m2 = m2
    Nobody = Nobody
    NoRow = NoRow
    NoAmount = NoAmount
    Employees <- TwoEmployees
    AssignmentIds <- TwoAssignments
    Orders <- OneOrder
    Hours <- OneHour
    Clerks <- OneClerk
    Managers <- OneManager
    Cents <- ZeroOrOne
SYMMETRY MCSymmetry
SPECIFICATION Spec
PROPERTY InputsCurrentAtPersist
CHECK_DEADLOCK FALSE
