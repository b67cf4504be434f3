SPECIFICATION Spec
CONSTANTS
    Worker = {w1, w2}
    Plan = {p1}
    NoPlan = NoPlan
    NJobs = 3
    MaxAttempts = 2
    MaxCrashes = 0
    SlowJobs = FALSE
    w1 = w1
    w2 = w2
    p1 = p1
INVARIANT ReadyPlanHasMeals
