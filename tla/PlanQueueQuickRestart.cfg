SPECIFICATION LiveSpec
CONSTANTS
    Worker = {w1}
    Plan = {p1}
    NoPlan = NoPlan
    NJobs = 1
    MaxAttempts = 2
    MaxCrashes = 1
    SlowJobs = FALSE
    w1 = w1
    p1 = p1
PROPERTY AbandonedJobRecovered
