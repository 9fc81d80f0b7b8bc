SPECIFICATION RuntimeSpec
CONSTANTS
    MaxInt = 63
    Ints <- IndexInts
    Ops = {"div","sub","less_than"}
    Functions = {"vector_range","int_to_vector","vector_index_vector", "print_vector"}
    Gaps = {0, 2}
    MinBlock = 6
    MaxSize = 15
    MaxCalls = 3
INVARIANTS
    RuntimeTypeOK
    VectorsDisjoint
    ElementsAreInts
    OperandsMatched
PROPERTIES
    ImplementsVectorSpec
