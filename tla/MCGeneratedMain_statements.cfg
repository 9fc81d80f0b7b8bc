SPECIFICATION MCSpec
CONSTANTS
    Name = {a}
    Literal = {"0", "1"}
    IntLiteral = {"0", "1"}
    Kinds = {"DECL", "ASSIGN", "PRINT", "LOOP", "IF", "INT", "ID"}
    MaxNodes = 11
    MaxOperands = 1
    MaxDepth = 6
    LoweringMayFail = FALSE
    OutputMayFail = FALSE
    MaxInt = 7
    IntOf <- LiteralValue
    ArithOp = "add"
    BoolOp = "less_than"
    Leftovers = {0, 1}
    StackSlots = 5
    MaxLines = 3
    Fuel = 3
    Budget <- LoopAndIf
    VariableTypes = {"int"}
INVARIANTS
    MainTypeOK
    StackGrowsInLoopsOnly
    OutputIsTheMeaning
    JunkReadsAreInTheSource
    ReboundOnlyByLaterDeclaration
PROPERTY
    MeaningfulProgramsEnd
