SPECIFICATION LiveSpec
CONSTANTS
    Operator = {o1, o2}
    NoOne = NoOne
    NoPlan = NoPlan
    NRows = 4
    NInstants = 3
    cheap = cheap
    dear = dear
    Amount = {cheap, dear}
    Legacy <- Lanes
    Catalogue <- Prices
    Orphan = {2, 3}
    MaxPlans = 2
    MaxAttempts = 3
    MaxChanges = 2
INVARIANTS TypeOK ConsumedPlanIsStale SupersededOnce
PROPERTIES PlanRepairs ImplementsLedger LockReleased
CHECK_DEADLOCK FALSE
