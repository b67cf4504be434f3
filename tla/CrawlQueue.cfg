SPECIFICATION RedeployedSpec
CONSTANTS
    Worker = {w1, w2}
    Retailer = {r1}
    NoRetailer = NoRetailer
    Registered = {r1}
    NRuns = 2
    MaxAttempts = 2
    Limit = 1
    MaxEvents = 2
    SlowStart = FALSE
    w1 = w1
    w2 = w2
    r1 = r1
INVARIANT TypeOK
INVARIANT InFlightBounded
INVARIANT AttemptsBounded
PROPERTY SharedOnlyByLateWrites
PROPERTY MisleadingOnlyByLateRetry
PROPERTY JobSettles
