SPECIFICATION ReconnectingSpec
CONSTANTS
    Item = {i1}
    NTaps = 2
    NPosts = 2
    MaxCloses = 1
    i1 = i1
INVARIANT Converges
INVARIANT OneRequestPerTap
PROPERTY QueueDrains
