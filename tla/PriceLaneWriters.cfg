SPECIFICATION LiveSpec
CONSTANTS
    Run = {r1, r2, r3}
    Discovery = {r2, r3}
    Operator = {}
    NoRun = NoRun
    milk = milk
    bread = bread
    Lane = {milk, bread}
    cheap = cheap
    dear = dear
    Amount = {cheap, dear}
    NInstants = 3
    Catalogue <- Barrier
    NoFact = NoFact
    MaxProducts = 2
    MaxRollbacks = 0
INVARIANTS TypeOK LaneInvariants NoDuplicateOccurrences
PROPERTIES ImplementsTimeline LanesReleased
CHECK_DEADLOCK FALSE
