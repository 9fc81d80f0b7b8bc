------------------------------- MODULE DefRef -------------------------------
(***************************************************************************)
(* AstVisitor::DefRef (src/src/AstVisitor.cpp:48-337): the first walk over *)
(* the AST.  It builds the scopes, resolves names and checks types; an     *)
(* error is a std::runtime_error that nothing catches.                     *)
(*                                                                         *)
(* The program is not fixed in advance.  The walk is depth first and reads *)
(* a node once, so a node is chosen when it is visited: a behaviour of     *)
(* this module is the walk over one program, and all programs of up to     *)
(* about MaxNodes nodes are walked.  "ast" is the list of the visits, in   *)
(* order, with what the walk stored in the nodes; CodeGen replays it.      *)
(*                                                                         *)
(* The C++ recursion is the stack "calls"; the types that the visited      *)
(* children of unfinished EXPR nodes were given with SetReference are the  *)
(* stack "refs".                                                           *)
(***************************************************************************)
EXTENDS Scope

CONSTANTS
    Literal,        \* texts of INT tokens
    Kinds,          \* the kinds of AST nodes the programs of a run contain
    MaxNodes,       \* bound: no new node is started once ast is this long
    MaxOperands,    \* bound: pending operands of one expression
    MaxDepth        \* bound: nesting of blocks and of scoped expressions

Ops == {"ARITH", "BOOL", "DOTS", "INDEX"}     \* operation groups, 311-333
ScopedOps == {"GENERATOR", "FILTER"}
Conditionals == {"IF", "LOOP"}
Statements == {"DECL", "ASSIGN", "PRINT"} \cup Conditionals
Leaves == {"INT", "ID"}
NodeKinds == Ops \cup ScopedOps \cup Statements \cup Leaves

ASSUME DefRefAssumption ==
    /\ Kinds \subseteq NodeKinds
    /\ MaxNodes \in Nat /\ MaxOperands \in Nat /\ MaxDepth \in Nat

NoText == "none"

\* Visits in the middle and at the end of a node.
BodyOf(kind) == IF kind = "IF" THEN "IF_BODY" ELSE "LOOP_BODY"
EndOf(kind) == CASE kind = "IF" -> "IF_END" [] kind = "LOOP" -> "LOOP_END"
                 [] kind = "GENERATOR" -> "GENERATOR_END" [] kind = "FILTER" -> "FILTER_END"

VARIABLES
    ast,            \* visits so far: <<node, text, scope, bound, refs>> records
    scopes,         \* every scope constructed
    current_scope,  \* AstWalker::current_scope
    calls,          \* Visit... functions that have not returned
    refs,           \* types of the visited operands
    status          \* "visiting", "validated" or "rejected" (threw)

defref_vars == <<ast, scopes, current_scope, calls, refs, status>>

----------------------------------------------------------------------------
\* Sequences as stacks.
Top(stack) == stack[Len(stack)]
Pop(stack) == SubSeq(stack, 1, Len(stack) - 1)

\* A Visit... function that was called: on which node, the scope of that node, how
\* many refs there were before its children, the type of a condition it has visited.
Call(visit, text) ==
    [visit |-> visit, text |-> text, scope |-> current_scope, base |-> Len(refs), type |-> "int"]

InCall(visits) == calls # <<>> /\ Top(calls).visit \in visits

\* One visit: the node, its text, the scope it is given (SetScope), the scope of
\* the symbol it stands for (0: none) and the types read from its children.
Visited(node, text, bound, types) ==
    Append(ast, [node |-> node, text |-> text, scope |-> current_scope,
                 bound |-> bound, refs |-> types])

Throw == /\ status' = "rejected"
         /\ UNCHANGED <<ast, scopes, current_scope, calls, refs>>

\* Bounds: only nodes that start something are limited.
MayStart(kind) == kind \in Kinds /\ Len(ast) < MaxNodes
MayNest == Len(calls) < MaxDepth

\* DefRef::GetBuiltInTypeData
GetBuiltInTypeData(type) == ResolvedSymbol(scopes, current_scope, type).type

----------------------------------------------------------------------------
\* VisitBLOCK, the root of the tree: the global scope with the built in types.
EnterFile ==
    /\ status = "visiting" /\ calls = <<>>
    /\ LET global == NewScope(scopes, NoScope)
           typed  == Define(Define(global, 1, "int", BuiltInTypeSymbol("int")),
                            1, "vector", BuiltInTypeSymbol("vector"))
       IN  /\ scopes' = typed
           /\ current_scope' = 1
           /\ ast' = Append(ast, [node |-> "BLOCK", text |-> NoText, scope |-> 1,
                                  bound |-> 0, refs |-> <<>>])
    /\ calls' = <<[Call("BLOCK", NoText) EXCEPT !.scope = 1]>>
    /\ UNCHANGED <<refs, status>>

\* VisitIF_BLOCK and VisitLOOP_BLOCK go from child 0, the condition, to child 1,
\* whose VisitBLOCK opens a local scope.  The condition keeps its type for the
\* check that comes after both children.
EnterBody(kind) ==
    /\ status = "visiting" /\ InCall({kind})
    /\ Len(refs) = Top(calls).base + 1
    /\ scopes' = NewScope(scopes, current_scope)
    /\ current_scope' = Len(scopes) + 1
    /\ ast' = Visited(BodyOf(kind), NoText, 0, <<Top(refs)>>) \o
              <<[node |-> "BLOCK", text |-> NoText, scope |-> Len(scopes) + 1,
                 bound |-> 0, refs |-> <<>>]>>
    /\ refs' = Pop(refs)
    /\ calls' = Pop(calls) \o
                <<[Top(calls) EXCEPT !.visit = BodyOf(kind), !.type = Top(refs)],
                  [Call("BLOCK", NoText) EXCEPT !.scope = Len(scopes) + 1, !.base = Len(refs) - 1]>>
    /\ UNCHANGED status

\* The end of VisitBLOCK; the end of the root block is the end of the walk.
LeaveBlock ==
    /\ status = "visiting" /\ InCall({"BLOCK"})
    /\ ast' = Visited("BLOCK_END", NoText, 0, <<>>)
    /\ current_scope' = GetEnclosingScope(scopes, current_scope)
    /\ calls' = Pop(calls)
    /\ status' = IF Len(calls) = 1 THEN "validated" ELSE status
    /\ UNCHANGED <<scopes, refs>>

\* The end of VisitIF_BLOCK and VisitLOOP_BLOCK.
EndConditional(kind) ==
    /\ status = "visiting" /\ InCall({BodyOf(kind)})
    /\ IF Top(calls).type # "int"
       THEN Throw
       ELSE /\ ast' = Visited(EndOf(kind), NoText, 0, <<>>)
            /\ calls' = Pop(calls)
            /\ UNCHANGED <<scopes, current_scope, refs, status>>

----------------------------------------------------------------------------
\* The name is in current_scope's own map (129-132).
NeverDeclaredTwice(name) == FALSE       \* mutant: the check is dropped
DeclaredTwice(name) == Declares(scopes, current_scope, name)

\* VisitDECL: the symbol is defined before the initializer is visited.
VisitDECL(name, type, initialized) ==
    /\ status = "visiting" /\ InCall({"BLOCK"}) /\ MayStart("DECL")
    /\ IF \/ Resolve(scopes, current_scope, type) = NoScope
          \/ ResolvedSymbol(scopes, current_scope, type).kind # "BuiltInTypeSymbol"
          \/ DeclaredTwice(name)
       THEN Throw
       ELSE /\ scopes' = Define(scopes, current_scope, name,
                                VarSymbol(GetBuiltInTypeData(type)))
            /\ ast' = Visited("DECL", name, current_scope, <<type>>)
            /\ calls' = IF initialized THEN Append(calls, Call("ASSIGN", name)) ELSE calls
            /\ UNCHANGED <<current_scope, refs, status>>

\* VisitASSIGN, VisitPRINT, VisitIF_BLOCK and VisitLOOP_BLOCK start with their
\* expression.  (CodeGen makes a loop's blocks before the condition: the visit of
\* LOOP is listed here.)
BeginStatement(kind, name) ==
    /\ status = "visiting" /\ InCall({"BLOCK"}) /\ MayStart(kind)
    /\ kind = "ASSIGN" <=> name \in Name
    /\ kind \in Conditionals => MayNest
    /\ calls' = Append(calls, Call(kind, name))
    /\ ast' = IF kind = "LOOP" THEN Visited("LOOP", NoText, 0, <<>>) ELSE ast
    /\ UNCHANGED <<scopes, current_scope, refs, status>>

\* VisitASSIGN after VisitEXPR.
EndASSIGN ==
    /\ status = "visiting" /\ InCall({"ASSIGN"}) /\ Len(refs) = Top(calls).base + 1
    /\ LET name  == Top(calls).text
           bound == Resolve(scopes, current_scope, name)
       IN  IF bound = NoScope \/ Top(refs) # ResolvedSymbol(scopes, current_scope, name).type
           THEN Throw
           ELSE /\ ast' = Visited("ASSIGN", name, bound, <<Top(refs)>>)
                /\ refs' = Pop(refs)
                /\ calls' = Pop(calls)
                /\ UNCHANGED <<scopes, current_scope, status>>

\* VisitPRINT after its child.
EndPRINT ==
    /\ status = "visiting" /\ InCall({"PRINT"}) /\ Len(refs) = Top(calls).base + 1
    /\ ast' = Visited("PRINT", NoText, 0, <<Top(refs)>>)
    /\ refs' = Pop(refs)
    /\ calls' = Pop(calls)
    /\ UNCHANGED <<scopes, current_scope, status>>

----------------------------------------------------------------------------
\* VisitEXPR.
InExpr == InCall({"ASSIGN", "PRINT"} \cup Conditionals \cup ScopedOps)
Operands == Len(refs) - Top(calls).base
MayStartLeaf(kind) ==
    /\ kind \in Kinds
    /\ Operands = 0 \/ (Operands < MaxOperands /\ Len(ast) < MaxNodes)

\* Case INT of a node with one child.
VisitINT(text) ==
    /\ status = "visiting" /\ InExpr /\ MayStartLeaf("INT")
    /\ refs' = Append(refs, GetBuiltInTypeData("int"))
    /\ ast' = Visited("INT", text, 0, <<>>)
    /\ UNCHANGED <<scopes, current_scope, calls, status>>

\* Case ID of a node with one child.
VisitID(name) ==
    /\ status = "visiting" /\ InExpr /\ MayStartLeaf("ID")
    /\ LET bound == Resolve(scopes, current_scope, name)
       IN  IF bound = NoScope
           THEN Throw
           ELSE /\ refs' = Append(refs, ResolvedSymbol(scopes, current_scope, name).type)
                /\ ast' = Visited("ID", name, bound, <<>>)
                /\ UNCHANGED <<scopes, current_scope, calls, status>>

\* The reference a binary node is given, and the operand types it accepts.
OpType(op, left, right) ==
    CASE op = "ARITH" -> IF left = right THEN left ELSE GetBuiltInTypeData("vector")
      [] op = "BOOL"  -> IF "vector" \in {left, right} THEN GetBuiltInTypeData("vector")
                                                       ELSE GetBuiltInTypeData("int")
      [] op = "DOTS"  -> GetBuiltInTypeData("vector")
      [] op = "INDEX" -> IF right = "int" THEN GetBuiltInTypeData("int")
                                          ELSE GetBuiltInTypeData("vector")
OpAccepts(op, left, right) ==
    /\ op = "DOTS" => left = "int" /\ right = "int"
    /\ op = "INDEX" => left = "vector"

VisitOp(op) ==
    /\ status = "visiting" /\ InExpr /\ op \in Kinds /\ Operands >= 2
    /\ LET left  == refs[Len(refs) - 1]
           right == Top(refs)
       IN  IF ~OpAccepts(op, left, right)
           THEN Throw
           ELSE /\ refs' = Append(Pop(Pop(refs)), OpType(op, left, right))
                /\ ast' = Visited(op, NoText, 0, <<left, right>>)
                /\ UNCHANGED <<scopes, current_scope, calls, status>>

\* A generator or filter between its first and its last child: the domain must be
\* a vector; the iterator is an int variable in a scope of its own.
EnterScoped(op, name) ==
    /\ status = "visiting" /\ InExpr /\ MayStart(op) /\ MayNest /\ Operands >= 1
    /\ IF Top(refs) # "vector"
       THEN Throw
       ELSE LET opened == NewScope(scopes, current_scope)
                type   == ResolvedSymbol(opened, Len(opened), "int").type
            IN  /\ scopes' = Define(opened, Len(opened), name, VarSymbol(type))
                /\ current_scope' = Len(opened)
                /\ ast' = Append(ast, [node |-> op, text |-> name, scope |-> Len(opened),
                                       bound |-> Len(opened), refs |-> <<Top(refs)>>])
                /\ refs' = Pop(refs)
                /\ calls' = Append(calls, [Call(op, name) EXCEPT !.scope = Len(opened), !.base = Len(refs) - 1])
                /\ UNCHANGED status

\* ... and after its last child, whose type is not looked at.
LeaveScoped(op) ==
    /\ status = "visiting" /\ InCall({op}) /\ Len(refs) = Top(calls).base + 1
    /\ ast' = Visited(EndOf(op), Top(calls).text, 0, <<Top(refs)>>)
    /\ current_scope' = GetEnclosingScope(scopes, current_scope)
    /\ refs' = Append(Pop(refs),
                      ResolvedSymbol(scopes, GetEnclosingScope(scopes, current_scope), "vector").type)
    /\ calls' = Pop(calls)
    /\ UNCHANGED <<scopes, status>>

----------------------------------------------------------------------------
DefRefInit ==
    /\ ast = <<>> /\ scopes = <<>> /\ current_scope = NoScope
    /\ calls = <<>> /\ refs = <<>> /\ status = "visiting"

VisitStatement ==
    \/ \E n \in Name, t \in Type, initialized \in BOOLEAN : VisitDECL(n, t, initialized)
    \/ \E k \in Statements \ {"DECL"}, n \in Name \cup {NoText} : BeginStatement(k, n)
    \/ EndASSIGN
    \/ EndPRINT

VisitEXPR ==
    \/ \E v \in Literal : VisitINT(v)
    \/ \E n \in Name : VisitID(n)
    \/ \E op \in Ops : VisitOp(op)
    \/ \E op \in ScopedOps, n \in Name : EnterScoped(op, n)
    \/ \E op \in ScopedOps : LeaveScoped(op)

VisitBlocks ==
    \/ EnterFile
    \/ \E k \in Conditionals : EnterBody(k)
    \/ LeaveBlock
    \/ \E k \in Conditionals : EndConditional(k)

DefRefNext == VisitBlocks \/ VisitStatement \/ VisitEXPR

\* The walk returned or threw; the process does what main.cpp says next.
Returned == status # "visiting" /\ UNCHANGED defref_vars

DefRefSpec == DefRefInit /\ [][DefRefNext \/ Returned]_defref_vars

----------------------------------------------------------------------------
\* Types of the variables.
Text == Name \cup Literal \cup {NoText}
Visits == NodeKinds \cup {"BLOCK", "BLOCK_END", "IF_BODY", "IF_END", "LOOP_BODY", "LOOP_END",
                         "GENERATOR_END", "FILTER_END"}
Visit == [node: Visits, text: Text, scope: Nat, bound: Nat, refs: Seq(Type)]
CallRecord == [visit: Visits, text: Text, scope: Nat, base: Nat, type: Type]

(***************************************************************************)
(* TypeOK: every variable has its type, and while a node is visited        *)
(* current_scope is a scope that exists: DefRef calls Resolve and Define   *)
(* on it without looking (121, 136, 160, 179, 336).                        *)
(***************************************************************************)
TypeOK ==
    /\ ast \in Seq(Visit)
    /\ scopes \in Seq(ScopeRecord)
    /\ current_scope \in 0..Len(scopes)
    /\ calls \in Seq(CallRecord)
    /\ refs \in Seq(Type)
    /\ status \in {"visiting", "validated", "rejected"}
    /\ calls # <<>> => current_scope # NoScope

(***************************************************************************)
(* ScopesNested: current_scope is the scope that the innermost open block, *)
(* generator or filter constructed, and the scope around it is the one of  *)
(* the call around.  VisitBLOCK and VisitEXPR push and pop current_scope   *)
(* by hand (77-84, 219-237); a path that left one out would resolve all    *)
(* later names in the wrong scope.                                         *)
(***************************************************************************)
Opens(call) == call.visit \in {"BLOCK"} \cup ScopedOps
ScopeAround(i) == IF i = 1 THEN NoScope ELSE calls[i - 1].scope
ScopesNested ==
    /\ current_scope = IF calls = <<>> THEN NoScope ELSE Top(calls).scope
    /\ \A i \in DOMAIN calls :
          IF Opens(calls[i]) THEN /\ calls[i].scope \in DOMAIN scopes
                                  /\ scopes[calls[i].scope].enclosing = ScopeAround(i)
                             ELSE calls[i].scope = ScopeAround(i)

(***************************************************************************)
(* UseAfterDeclaration: what an identifier was resolved to is declared by  *)
(* a visit before it, in a scope that encloses the use, and of all such    *)
(* declarations of the name it is the nearest: the scopes of the others    *)
(* enclose its own.                                                        *)
(***************************************************************************)
Uses == {i \in DOMAIN ast : ast[i].node \in {"ID", "ASSIGN"}}
Declarations == {i \in DOMAIN ast : ast[i].node \in {"DECL"} \cup ScopedOps}
DeclaredBy(i) == {j \in Declarations : /\ j < i /\ ast[j].text = ast[i].text
                                        /\ ast[j].scope \in scopes[ast[i].scope].chain}
UseAfterDeclaration ==
    \A i \in Uses :
        /\ ast[i].bound \in scopes[ast[i].scope].chain
        /\ \E j \in DeclaredBy(i) : ast[j].scope = ast[i].bound
        /\ \A j \in DeclaredBy(i) : ast[j].scope \in scopes[ast[i].bound].chain

(***************************************************************************)
(* DeclarationsTakeEffect: the symbol that a declaration's node refers to  *)
(* is the one its scope holds under that name.  Define keeps an older      *)
(* symbol silently (Scope.cpp:6), so a second declaration must have been   *)
(* rejected (129-132), or CodeGen would give storage to a symbol that no   *)
(* lookup finds.                                                           *)
(***************************************************************************)
DeclaredType(visit) == IF visit.node = "DECL" THEN visit.refs[1] ELSE "int"
DeclarationsTakeEffect ==
    \A i \in Declarations :
        /\ Declares(scopes, ast[i].scope, ast[i].text)
        /\ scopes[ast[i].scope].symbols[ast[i].text] = VarSymbol(DeclaredType(ast[i]))
        /\ \A j \in Declarations :
              ast[i].scope = ast[j].scope /\ ast[i].text = ast[j].text => i = j

=============================================================================
