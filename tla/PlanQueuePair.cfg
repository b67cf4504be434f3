SPECIFICATION Spec
CONSTANTS
    Worker = {w1, w2}
    Plan = {p1}
    NoPlan = NoPlan
    NJobs = 3
    MaxAttempts = 2
    MaxCrashes = 1
    SlowJobs = FALSE
    w1 = w1
    w2 = w2
    p1 = p1
INVARIANT TypeOK
INVARIANT OneProcessorPerJob
INVARIANT RunFollowsJob
INVARIANT GeneratingPlanHasWork
INVARIANT AttemptsBounded
PROPERTY ImplementsBoard
