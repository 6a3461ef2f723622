SPECIFICATION FairSpec
CONSTANTS
    Loops = {c1, c2, c3}
    Budget = 3
    MaxBytes = 4
INVARIANTS
    CountersMatch
    BudgetExceededByGrowthOnly
    HeadDoesNotFit
PROPERTIES
    GrantedInArrivalOrder
    WaitEnds
