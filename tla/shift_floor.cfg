\* Every overlap of two floor requests on one shift.
CONSTANTS
    e1 = e1
    e2 = e2
    a1 = a1
    a2 = a2
    a3 = a3
    o1 = o1
    c1 = c1
    c2 = c2
    Nobody = Nobody
    Employees <- MCEmployees
    AssignmentIds <- MCAssignmentIds
    Orders <- MCOrders
    Hours <- MCHours
    Clerks <- MCClerks
SYMMETRY MCSymmetry
SPECIFICATION FloorSpec
INVARIANTS
    FloorTypeOK
    OneActiveAssignment
    OrdersComeFromStaff
PROPERTIES
    RemovedForGood
CHECK_DEADLOCK FALSE
