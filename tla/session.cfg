\* Two tabs of one browser and two calls; one login, one fault, two pairs of tokens expire.
CONSTANTS
    t1 = t1
    t2 = t2
    c1 = c1
    c2 = c2
    Tabs <- MCTabs
    Calls <- MCCalls
    MaxSigns = 1
    MaxFaults = 1
    MaxSpent = 2
SYMMETRY MCSymmetry
SPECIFICATION Spec
INVARIANTS
    SessionSafe
    SessionSurvives
    LogoutHolds
PROPERTIES
    CallsSurvive
CHECK_DEADLOCK FALSE
