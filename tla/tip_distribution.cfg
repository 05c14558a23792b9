\* Two manager requests, one floor request, two employees, totals of 1 and 2 cents; no orders.
CONSTANTS
    e1 = e1
    e2 = e2
    a1 = a1
    a2 = a2
    a3 = a3
    o1 = o1
    c1 = c1
    m1 = m1
    m2 = m2
    Nobody = Nobody
    NoRow = NoRow
    NoAmount = NoAmount
    Employees <- TwoEmployees
    AssignmentIds <- TwoAssignments
    Orders = {}
    Hours = {4, 8}
    Clerks <- OneClerk
    Managers <- TwoManagers
    Cents <- ZeroOrOne
SYMMETRY MCSymmetry
SPECIFICATION Spec
INVARIANTS
    TypeOK
    Conservation
    AdjustedAsAWhole
    TrainedOnMlOnly
PROPERTIES
    AuditTrail
    ImplementsLedger
CHECK_DEADLOCK FALSE
