SPECIFICATION DefRefSpec
CONSTANTS
    Name = {a, b}
    Literal = {one}
    Kinds = {"DECL", "ASSIGN", "PRINT", "IF", "LOOP", "INT", "ID", "GENERATOR", "INDEX"}
    MaxNodes = 8
    MaxOperands = 2
    MaxDepth = 6
INVARIANTS
    TypeOK
    ScopesNested
    UseAfterDeclaration
    DeclarationsTakeEffect
    ResolveIsTheWalk
