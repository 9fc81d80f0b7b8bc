SPECIFICATION RuntimeSpec
CONSTANTS
    MaxInt = 31
    Ints = {1, 16}
    Ops = {}
    Functions = {"vector_range"}
    Gaps = {0, 2}
    MinBlock = 6
    MaxSize = 31
    MaxCalls = 2
INVARIANT
    VectorsDisjoint
