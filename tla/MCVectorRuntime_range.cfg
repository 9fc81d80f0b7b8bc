SPECIFICATION RuntimeSpec
CONSTANTS
    MaxInt = 63
    Ints = {0, 1, 63}
    Ops = {}
    Functions = {"vector_range"}
    Gaps = {0, 2}
    MinBlock = 6
    MaxSize = 13
    MaxCalls = 2
INVARIANT
    RangeHoldsInterval
