\* Two instances of the service on one store, one job.
CONSTANTS
    j1 = j1
    j2 = j2
    i1 = i1
    i2 = i2
    k1 = k1
    k2 = k2
    None = None
    Calls <- TwoCalls
    Jobs <- OneJob
    Size <- One
    Instances <- TwoInstances
    Attempts = 2
    Tries = 1
    MaxFaults = 1
SPECIFICATION FairSpec
PROPERTIES
    NobodyWaitsForGood
CHECK_DEADLOCK FALSE
