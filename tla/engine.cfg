\* Every pool of up to 8 cents among three employees; a team of two with every answer of
\* the ML service to it.
CONSTANTS
    e1 = e1
    e2 = e2
    x = x
    Ids <- ThreeIds
    Pools <- SmallPools
    Percents <- SmallPercents
    Weights <- SmallWeights
    Minimums <- SmallMinimums
    Team <- MCTeam
    Stranger <- x
    Roles <- MCRoles
    Eligible <- MCEligible
    Bases <- MCBases
    Sales <- MCSales
    Bonuses <- MCBonuses
    BonusUnit = 2
    ShiftHours <- MCShiftHours
    MlWeights <- MCMlWeights
    ShareUnit = 3
    Tolerance = 1
    Rounding = 1
SPECIFICATION EngineSpec
INVARIANTS
    AllocationSafe
    FairShares
    
    FairWeights
PROPERTY Returns
CHECK_DEADLOCK FALSE
