\* One instance of the service, two jobs, two crashes or store failures.
CONSTANTS
    j1 = j1
    j2 = j2
    i1 = i1
    i2 = i2
    k1 = k1
    k2 = k2
    None = None
    Calls <- TwoCalls
    Jobs <- TwoJobs
    Size <- OneAndTwo
    Instances <- OneInstance
    Attempts = 2
    Tries = 2
    MaxFaults = 2
SYMMETRY CallSymmetry
SPECIFICATION Spec
INVARIANTS
    StoreSafe
    FeedbackKept
    RepeatsNeedFaults
PROPERTY RecordsKept
CHECK_DEADLOCK FALSE
