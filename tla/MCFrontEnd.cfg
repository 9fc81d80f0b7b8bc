SPECIFICATION FrontEndSpec
CONSTANTS
    Name = {a}
    Identifier = {a}
    Literal = {n}
    Number = {n}
    Keyword = {"int", "vector"}
    Alternatives = {"ID", "PAREN", "INDEX", "DOTS", "FILTER", "DECL", "ASSIGN", "PRINT", "IF", "LOOP"}
    MaxContexts = 4
    MaxDamage = 2
    Kinds = {"ID", "INT", "INDEX", "DOTS", "ARITH", "BOOL", "GENERATOR", "FILTER", "DECL", "ASSIGN", "PRINT", "IF", "LOOP"}
    MaxNodes = 99
    MaxOperands = 99
    MaxDepth = 99
INVARIANTS
    NodesFormATree
    BuildsTheAst
PROPERTIES
    BuiltTreesAreWalked
