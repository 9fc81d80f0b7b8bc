SPECIFICATION CompilerSpec
CONSTANTS
    Name = {a}
    Literal = {one, huge}
    IntLiteral = {one}
    Kinds = {"DECL", "PRINT", "LOOP", "INT", "ID", "GENERATOR", "FILTER", "ARITH", "BOOL", "DOTS", "INDEX"}
    MaxNodes = 8
    MaxOperands = 2
    MaxDepth = 6
    LoweringMayFail = TRUE
    OutputMayFail = FALSE
INVARIANT
    ScopedBodyIsInt
