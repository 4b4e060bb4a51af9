SPECIFICATION Spec
CONSTANTS
    GroupBits = 4
    VarintBits = 6
    VarlongBits = 9
    MAX_VARNUM_LEN = 3
    MaxLeft = 1
    Samples <- MCSamples
INVARIANTS TypeOK RoundTrip AsPeer PrefixFails
PROPERTY StackIrrelevant
CHECK_DEADLOCK FALSE
