SPECIFICATION MCSpec
CONSTANTS
    Name = {a}
    Literal = {"0", "2"}
    IntLiteral = {"0", "2"}
    Kinds = {"PRINT", "INT", "ID", "GENERATOR", "FILTER", "ARITH", "BOOL", "DOTS", "INDEX", "DECL"}
    MaxNodes = 10
    MaxOperands = 2
    MaxDepth = 6
    LoweringMayFail = FALSE
    OutputMayFail = FALSE
    MaxInt = 7
    IntOf <- LiteralValue
    ArithOp = "div"
    BoolOp = "less_than"
    Leftovers = {0, 1}
    StackSlots = 5
    MaxLines = 3
    Fuel = 3
    Budget <- OneOfEach
    VariableTypes = {"vector"}
INVARIANTS
    StackGrowsInLoopsOnly
    OutputIsTheMeaning
    JunkReadsAreInTheSource
