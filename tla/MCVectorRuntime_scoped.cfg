SPECIFICATION FairRuntimeSpec
CONSTANTS
    MaxInt = 63
    Ints = {0,1,3}
    Ops = {"add"}
    Functions = {"vector_range","vector_index_vector","generator", "filter","print_vector"}
    Gaps = {0}
    MinBlock = 6
    MaxSize = 13
    MaxCalls = 3
INVARIANTS
    FilterStaysInside
PROPERTIES
    VectorsNeverChange
    ImplementsVectorSpec
    CallsReturn
