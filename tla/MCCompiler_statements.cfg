SPECIFICATION CompilerSpec
CONSTANTS
    Name = {a, b}
    Literal = {one, huge}
    IntLiteral = {one}
    Kinds = {"DECL", "ASSIGN", "PRINT", "IF", "LOOP", "INT", "ID"}
    MaxNodes = 8
    MaxOperands = 1
    MaxDepth = 6
    LoweringMayFail = TRUE
    OutputMayFail = TRUE
INVARIANTS
    CodeGenTypeOK
    ScopesAligned
    ReboundOnlyByLaterDeclaration
    StorageUnlessShadowedLater
    VerifiesUnlessFilterBodyIsVector
    OutputIsAccountedFor
    ErrorKeepsOldOutput
    CrashesAreKnown
PROPERTY
    EmittedCodeIsFinal
