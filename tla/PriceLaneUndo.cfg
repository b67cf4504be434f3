SPECIFICATION Spec
CONSTANTS
    Run = {r1, r2, r3}
    Discovery = {}
    Operator = {op}
    NoRun = NoRun
    milk = milk
    bread = bread
    Lane = {milk}
    cheap = cheap
    dear = dear
    Amount = {cheap, dear}
    NInstants = 3
    Catalogue <- ThreeInstants
    NoFact = NoFact
    MaxProducts = 2
    MaxRollbacks = 1
SYMMETRY Runs
INVARIANT LaneInvariants
CHECK_DEADLOCK FALSE
