SPECIFICATION RedeployedSpec
CONSTANTS
    Worker = {w1}
    Plan = {p1}
    NoPlan = NoPlan
    NJobs = 3
    MaxAttempts = 2
    MaxCrashes = 1
    SlowJobs = FALSE
    w1 = w1
    p1 = p1
INVARIANT MealsMatchList
INVARIANT ReadyPlanHasMeals
PROPERTY JobSettles
PROPERTY PlanSettles
