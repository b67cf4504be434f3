SPECIFICATION Spec
CONSTANTS
    Worker = {w1}
    Plan = {p1}
    NoPlan = NoPlan
    NJobs = 2
    MaxAttempts = 2
    MaxCrashes = 0
    SlowJobs = FALSE
    w1 = w1
    p1 = p1
PROPERTY MealRegenerationKeepsMeals
