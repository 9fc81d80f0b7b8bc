------------------------------ MODULE CodeGen ------------------------------
(***************************************************************************)
(* AstVisitor::CodeGen (src/src/AstVisitor.cpp:342-800): the second walk   *)
(* over the AST, which DefRef has annotated.  It emits the body of "main"  *)
(* into MLIR blocks.                                                       *)
(*                                                                         *)
(* The walk visits the nodes in DefRef's order, so it is the replay of     *)
(* "ast"; "pos" is the next visit.  An operation is a record: what it      *)
(* does, the values it takes, the type of its result and the blocks it     *)
(* goes to.  The operations that step through one vector (a gep, a load    *)
(* and a store) are one record.  GeneratedMain executes what is emitted.   *)
(***************************************************************************)
EXTENDS DefRef

CONSTANT IntLiteral     \* the texts that std::stoi can convert to an int

ASSUME CodeGenAssumption == IntLiteral \subseteq Literal

VARIABLES
    pos,            \* index in ast of the visit to come
    cg_scope,       \* CodeGen's current_scope
    opperands,      \* CodeGen::opperands
    storage,        \* VarSymbol::value: symbol -> its alloca; absent: null
    blocks,         \* the blocks of main and of the regions nested in them
    ip,             \* the builder's insertion point
    locals,         \* C++ locals of the visits that have not returned
    codegen         \* "idle", "emitting", "generated", "crashed", "threw"

codegen_vars == <<pos, cg_scope, opperands, storage, blocks, ip, locals, codegen>>

Terminators == {"br", "cond_br", "return", "yield"}

\* A block is empty and is nested in the blocks "within".
Block(body, within) == [body |-> body, within |-> within]

\* An operation: the text of a constant or the kind of an operation on operands,
\* the values it takes, the blocks it branches to or has as its region.
Op(op, text, args, to) == [op |-> op, text |-> text, args |-> args, to |-> to]

\* The result of the n-th operation inserted at a point, of a vcalc type (an int is
\* an i32, a vector a pointer) or the address of a variable.
ResultAt(point, n, type) == [type |-> type, block |-> point.block, at |-> point.at + n]
Result(type) == ResultAt(ip, 1, type)

\* The induction variable of the scf.for whose region is block b.
InductionVar(b) == [type |-> "int", block |-> b, at |-> 0]

TopValue == Top(opperands)
ThisVisit == ast[pos]

\* Insert operations at a point of a block, and the insertion point after them.
InsertOps(bs, point, ops) ==
    [bs EXCEPT ![point.block].body =
        SubSeq(@, 1, point.at) \o ops \o SubSeq(@, point.at + 1, Len(@))]
After(point, ops) == [point EXCEPT !.at = @ + Len(ops)]
AfterFirstOf(b) == [block |-> b, at |-> 1]      \* mutant: one operation too far
StartOf(b) == [block |-> b, at |-> 0]

Emit(ops) == /\ blocks' = InsertOps(blocks, ip, ops)
             /\ ip' = After(ip, ops)

\* Terminate the current block with a branch, after adding empty blocks of main.
BranchTo(op, added) == InsertOps(blocks, ip, <<op>>) \o [i \in 1..added |-> Block(<<>>, {})]

Visiting(nodes) == codegen = "emitting" /\ pos <= Len(ast) /\ ThisVisit.node \in nodes
VisitAgain == pos' = pos                \* mutant: the node visits itself
Advance == pos' = pos + 1

\* opperands.pop() after opperands.top()
PeekOperand == opperands                \* mutant: not popped
PopOperand == Pop(opperands)

\* current_scope->GetEnclosingScope()
KeepCgScope == cg_scope                 \* mutant: not popped
LeaveCgScope == GetEnclosingScope(scopes, cg_scope)
CrashCodegen(how) ==
    /\ codegen' = how
    /\ UNCHANGED <<pos, cg_scope, opperands, storage, blocks, ip, locals>>

----------------------------------------------------------------------------
\* GenerateMlir up to Visit(root): emitModule (BackEnd.cpp:69-82) makes main, its
\* entry block and the constants one and zero.
const_one == [type |-> "int", block |-> 1, at |-> 1]
const_zero == [type |-> "int", block |-> 1, at |-> 2]
GenerateMlir ==
    /\ codegen = "idle" /\ status = "validated"
    /\ blocks' = <<Block(<<Op("one", NoText, <<>>, <<>>), Op("zero", NoText, <<>>, <<>>)>>, {})>>
    /\ ip' = [block |-> 1, at |-> 2]
    /\ pos' = 1
    /\ codegen' = "emitting"
    /\ UNCHANGED <<cg_scope, opperands, storage, locals>>

\* GenerateMlir after Visit(root).
GenReturn ==
    /\ codegen = "emitting" /\ pos = Len(ast) + 1
    /\ Emit(<<Op("return", NoText, <<const_zero>>, <<>>)>>)
    /\ codegen' = "generated"
    /\ UNCHANGED <<pos, cg_scope, opperands, storage, locals>>

\* VisitBLOCK.
GenBLOCK ==
    /\ Visiting({"BLOCK", "BLOCK_END"})
    /\ cg_scope' = IF ThisVisit.node = "BLOCK" THEN ThisVisit.scope
                   ELSE LeaveCgScope
    /\ Advance
    /\ UNCHANGED <<opperands, storage, blocks, ip, locals, codegen>>

\* icmp ne with zero, and cond_br on it.
CondBr(value, taken, otherwise) ==
    Op("cond_br", NoText, <<value, const_zero>>, <<taken, otherwise>>)
Br(target) == Op("br", NoText, <<>>, <<target>>)

\* VisitIF_BLOCK: after the condition the blocks are made, after the body the
\* builder moves on to the merge block.
GenIF_BLOCK ==
    /\ Visiting({"IF_BODY"})
    /\ LET if_block == Len(blocks) + 1
           merge    == Len(blocks) + 2
       IN  /\ blocks' = BranchTo(CondBr(TopValue, if_block, merge), 2)
           /\ ip' = StartOf(if_block)
           /\ locals' = Append(locals, [header |-> 0, body |-> if_block, merge |-> merge])
    /\ opperands' = PopOperand
    /\ Advance
    /\ UNCHANGED <<cg_scope, storage, codegen>>

ResumeInBody == StartOf(Top(locals).body)       \* mutant: back to a finished block
ResumeAtMerge == StartOf(Top(locals).merge)

\* mutant: an if body that falls off its end
GenEndIF_BLOCKWithoutBr ==
    /\ Visiting({"IF_END"})
    /\ ip' = ResumeAtMerge
    /\ locals' = Pop(locals)
    /\ Advance
    /\ UNCHANGED <<cg_scope, opperands, storage, blocks, codegen>>

GenEndIF_BLOCK ==
    /\ Visiting({"IF_END"})
    /\ blocks' = BranchTo(Br(Top(locals).merge), 0)
    /\ ip' = ResumeAtMerge
    /\ locals' = Pop(locals)
    /\ Advance
    /\ UNCHANGED <<cg_scope, opperands, storage, codegen>>

\* VisitLOOP_BLOCK: the condition is emitted in the header block.
GenLOOP_BLOCK ==
    /\ Visiting({"LOOP"})
    /\ LET header == Len(blocks) + 1
       IN  /\ blocks' = BranchTo(Br(header), 3)
           /\ ip' = StartOf(header)
           /\ locals' = Append(locals, [header |-> header, body |-> header + 1,
                                        merge |-> header + 2])
    /\ Advance
    /\ UNCHANGED <<cg_scope, opperands, storage, codegen>>

GenLoopBody ==
    /\ Visiting({"LOOP_BODY"})
    /\ blocks' = BranchTo(CondBr(TopValue, Top(locals).body, Top(locals).merge), 0)
    /\ ip' = StartOf(Top(locals).body)
    /\ opperands' = PopOperand
    /\ Advance
    /\ UNCHANGED <<cg_scope, storage, locals, codegen>>

\* mutant: back to the body, without the condition
GenEndLOOP_BLOCKToBody ==
    /\ Visiting({"LOOP_END"})
    /\ blocks' = BranchTo(Br(Top(locals).body), 0)
    /\ ip' = ResumeAtMerge
    /\ locals' = Pop(locals)
    /\ Advance
    /\ UNCHANGED <<cg_scope, opperands, storage, codegen>>

GenEndLOOP_BLOCK ==
    /\ Visiting({"LOOP_END"})
    /\ blocks' = BranchTo(Br(Top(locals).header), 0)
    /\ ip' = ResumeAtMerge
    /\ locals' = Pop(locals)
    /\ Advance
    /\ UNCHANGED <<cg_scope, opperands, storage, codegen>>

----------------------------------------------------------------------------
\* The symbol a name stands for in CodeGen's walk, when every scope is complete.
CgSymbol(name) == <<Resolve(scopes, cg_scope, name), name>>
NoStorage(symbol) == UNCHANGED storage          \* mutant: SetValue is forgotten
GiveStorage(symbol) ==
    storage' = [s \in DOMAIN storage \cup {symbol} |->
                   IF s = symbol THEN Result("address") ELSE storage[s]]
Alloca == Op("alloca", NoText, <<const_one>>, <<>>)

\* VisitDECL: storage for the symbol DefRef left in the node.  The initializer, if
\* there is one, is the ASSIGN that follows.
GenDECL ==
    /\ Visiting({"DECL"})
    /\ GiveStorage(<<ThisVisit.scope, ThisVisit.text>>)
    /\ Emit(<<Alloca>>)
    /\ Advance
    /\ UNCHANGED <<cg_scope, opperands, locals, codegen>>

\* mutant: an assignment makes new storage
GenASSIGNAllocates ==
    /\ Visiting({"ASSIGN"})
    /\ GiveStorage(CgSymbol(ThisVisit.text))
    /\ Emit(<<Alloca, Op("store", NoText, <<TopValue, Result("address")>>, <<>>)>>)
    /\ opperands' = PopOperand
    /\ Advance
    /\ UNCHANGED <<cg_scope, locals, codegen>>

\* mutant: the value is popped but not stored
GenASSIGNWithoutStore ==
    /\ Visiting({"ASSIGN"})
    /\ opperands' = PopOperand
    /\ Advance
    /\ UNCHANGED <<cg_scope, storage, blocks, ip, locals, codegen>>

\* VisitASSIGN after its expression: a store to a null value crashes.
GenASSIGN ==
    /\ Visiting({"ASSIGN"})
    /\ LET symbol == CgSymbol(ThisVisit.text)
       IN  IF symbol \notin DOMAIN storage
           THEN CrashCodegen("crashed")
           ELSE /\ Emit(<<Op("store", NoText, <<TopValue, storage[symbol]>>, <<>>)>>)
                /\ opperands' = PopOperand
                /\ Advance
                /\ UNCHANGED <<cg_scope, storage, locals, codegen>>

\* VisitPRINT after its expression.
GenPRINT ==
    /\ Visiting({"PRINT"})
    /\ Emit(<<Op(IF ThisVisit.refs[1] = "int" THEN "printf" ELSE "print_vector",
                 NoText, <<TopValue>>, <<>>)>>)
    /\ opperands' = PopOperand
    /\ Advance
    /\ UNCHANGED <<cg_scope, storage, locals, codegen>>

\* mutant: the loaded value is not pushed
GenIDWithoutPush ==
    /\ Visiting({"ID"})
    /\ LET symbol == CgSymbol(ThisVisit.text)
           type   == ResolvedSymbol(scopes, cg_scope, ThisVisit.text).type
       IN  IF symbol \notin DOMAIN storage
           THEN CrashCodegen("crashed")
           ELSE /\ Emit(<<Op("load", type, <<storage[symbol]>>, <<>>)>>)
                /\ Advance
                /\ UNCHANGED <<cg_scope, opperands, storage, locals, codegen>>

\* VisitID: a load from a null value crashes.
GenID ==
    /\ Visiting({"ID"})
    /\ LET symbol == CgSymbol(ThisVisit.text)
           type   == ResolvedSymbol(scopes, cg_scope, ThisVisit.text).type
       IN  IF symbol \notin DOMAIN storage
           THEN CrashCodegen("crashed")
           ELSE /\ Emit(<<Op("load", type, <<storage[symbol]>>, <<>>)>>)
                /\ opperands' = Append(opperands, Result(type))
                /\ Advance
                /\ UNCHANGED <<cg_scope, storage, locals, codegen>>

\* VisitINT: std::stoi throws std::out_of_range.
GenINT ==
    /\ Visiting({"INT"})
    /\ IF ThisVisit.text \notin IntLiteral
       THEN CrashCodegen("threw")
       ELSE /\ Emit(<<Op("constant", ThisVisit.text, <<>>, <<>>)>>)
            /\ opperands' = Append(opperands, Result("int"))
            /\ Advance
            /\ UNCHANGED <<cg_scope, storage, locals, codegen>>

----------------------------------------------------------------------------
\* The operations of VisitEXPR that call a function of the back end.  The choice
\* is made on the references DefRef left in the children (refs): the callee, ...
VectorCallee(op, l, r) == "vector_op"           \* mutant: one callee for all
Callee(op, l, r) ==
    CASE op = "DOTS"  -> "vector_range"
      [] op = "INDEX" -> IF r = "int" THEN "vector_index" ELSE "vector_index_vector"
      [] OTHER        -> IF l = "int" /\ r = "int" THEN "int_op" ELSE "vector_op"

\* ... the type it returns and the calls: an int beside a vector is promoted to the
\* size the vector has.
Returns(callee) == IF callee \in {"int_op", "vector_index"} THEN "int" ELSE "vector"

\* mutant: the promoted operand is always the right one
CallsRightPromoted(op, l, r, left, right) ==
    LET int      == IF l = "int" THEN left ELSE right
        vector   == IF l = "int" THEN right ELSE left
        promoted == ResultAt(ip, 2, "vector")
    IN  IF op \in {"ARITH", "BOOL"} /\ l # r
        THEN <<Op("size", NoText, <<vector>>, <<>>),
               Op("int_to_vector", NoText, <<Result("int"), int>>, <<>>),
               Op(Callee(op, l, r), op, <<vector, promoted>>, <<>>)>>
        ELSE <<Op(Callee(op, l, r), op, <<left, right>>, <<>>)>>

Calls(op, l, r, left, right) ==
    LET int      == IF l = "int" THEN left ELSE right
        vector   == IF l = "int" THEN right ELSE left
        promoted == ResultAt(ip, 2, "vector")
    IN  IF op \in {"ARITH", "BOOL"} /\ l # r
        THEN <<Op("size", NoText, <<vector>>, <<>>),
               Op("int_to_vector", NoText, <<Result("int"), int>>, <<>>),
               Op(Callee(op, l, r), op, IF l = "int" THEN <<promoted, vector>>
                                                     ELSE <<vector, promoted>>, <<>>)>>
        ELSE <<Op(Callee(op, l, r), op, <<left, right>>, <<>>)>>

GenOp ==
    /\ Visiting(Ops)
    /\ LET r_opperand == TopValue
           l_opperand == opperands[Len(opperands) - 1]
           op  == ThisVisit.node
           l   == ThisVisit.refs[1]
           r   == ThisVisit.refs[2]
           ops == Calls(op, l, r, l_opperand, r_opperand)
       IN  /\ Emit(ops)
           /\ opperands' = Append(Pop(Pop(opperands)),
                                  ResultAt(ip, Len(ops), Returns(Callee(op, l, r))))
    /\ Advance
    /\ UNCHANGED <<cg_scope, storage, locals, codegen>>

\* The result of a generator or filter is pushed (557).
WithoutResult(result) == PopOperand             \* mutant: "generator not pushing"
WithResult(result) == Append(PopOperand, result)

\* mutant: the size of a filter's result is not set to zero
AheadWithoutReset(node, domain, region) ==
    LET size == ResultAt(ip, 2, "int")
    IN  <<Alloca,
          Op("size", NoText, <<domain>>, <<>>),
          Op("new_vector", NoText, <<size>>, <<>>),
          Op("for", NoText, <<const_zero, size, const_one>>, <<region>>)>>

\* The iterator's alloca, the result's allocation (GenerateVectorTypePtr) and, for
\* a filter, its size zero; the scf.for over the size of the domain.
AheadOfLoop(node, domain, region) ==
    LET size   == ResultAt(ip, 2, "int")
        result == ResultAt(ip, 3, "vector")
    IN  <<Alloca,
          Op("size", NoText, <<domain>>, <<>>),
          Op("new_vector", NoText, <<size>>, <<>>)>> \o
        (IF node = "FILTER" THEN <<Op("empty", NoText, <<result, const_zero>>, <<>>)>> ELSE <<>>) \o
        <<Op("for", NoText, <<const_zero, size, const_one>>, <<region>>)>>

\* mutant: the element is not stored into the iterator
LoadElementOnly(domain, region) ==
    <<Op("vector_index", NoText, <<domain, InductionVar(region)>>, <<>>)>>

\* mutant: storage for each element
SetFreshIterator(domain, region) ==
    <<Op("vector_index", NoText, <<domain, InductionVar(region)>>, <<>>), Alloca,
      Op("store", NoText, <<ResultAt(StartOf(region), 1, "int"), Result("address")>>, <<>>)>>

\* The loop's first operations: the iterator becomes the element.
SetIterator(domain, region) ==
    <<Op("vector_index", NoText, <<domain, InductionVar(region)>>, <<>>),
      Op("store", NoText, <<ResultAt(StartOf(region), 1, "int"), Result("address")>>, <<>>)>>

\* VisitEXPR of a generator or filter, from the visit of its domain to that of its
\* body: the body block of the loop ends with a yield the builder stays in front of.
GenScoped ==
    /\ Visiting(ScopedOps)
    /\ LET region == Len(blocks) + 1
           ahead  == AheadOfLoop(ThisVisit.node, TopValue, region)
           inside == SetIterator(TopValue, region)
           body   == Block(<<Op("yield", NoText, <<>>, <<>>)>>, blocks[ip.block].within \cup {ip.block})
       IN  /\ blocks' = InsertOps(Append(InsertOps(blocks, ip, ahead), body),
                                  StartOf(region), inside)
           /\ ip' = After(StartOf(region), inside)
           /\ locals' = Append(locals, [save   |-> After(ip, ahead),
                                        result |-> ResultAt(ip, 3, "vector"),
                                        region |-> region])
    /\ GiveStorage(<<ThisVisit.scope, ThisVisit.text>>)
    /\ cg_scope' = ThisVisit.scope
    /\ opperands' = PopOperand
    /\ Advance
    /\ UNCHANGED codegen

\* ... and after its body.  The filter keeps the element in an scf.if on the body's
\* value; the generator stores that value.
GenEndScoped ==
    /\ Visiting({"GENERATOR_END", "FILTER_END"})
    /\ LET local == Top(locals)
           kept  == Len(blocks) + 1
           elem  == ResultAt(StartOf(local.region), 1, "int")
           keep  == Block(<<Op("keep", NoText, <<local.result, elem, const_one>>, <<>>),
                           Op("yield", NoText, <<>>, <<>>)>>,
                         blocks[ip.block].within \cup {ip.block})
       IN  /\ blocks' =
                IF ThisVisit.node = "FILTER_END"
                THEN Append(InsertOps(blocks, ip, <<Op("if", NoText, <<TopValue, const_zero>>, <<kept>>)>>), keep)
                ELSE InsertOps(blocks, ip,
                         <<Op("put", NoText, <<local.result, InductionVar(local.region), TopValue>>, <<>>)>>)
           /\ ip' = local.save
           /\ opperands' = WithResult(local.result)
    /\ locals' = Pop(locals)
    /\ cg_scope' = LeaveCgScope
    /\ Advance
    /\ UNCHANGED <<storage, codegen>>

----------------------------------------------------------------------------
CodeGenInit ==
    /\ pos = 1 /\ cg_scope = NoScope /\ opperands = <<>> /\ storage = <<>>
    /\ blocks = <<>> /\ ip = [block |-> 1, at |-> 0] /\ locals = <<>>
    /\ codegen = "idle"

CodeGenNext ==
    /\ UNCHANGED defref_vars
    /\ \/ GenerateMlir \/ GenReturn
       \/ GenBLOCK
       \/ GenIF_BLOCK \/ GenEndIF_BLOCK
       \/ GenLOOP_BLOCK \/ GenLoopBody \/ GenEndLOOP_BLOCK
       \/ GenDECL \/ GenASSIGN \/ GenPRINT
       \/ GenID \/ GenINT \/ GenOp
       \/ GenScoped \/ GenEndScoped

----------------------------------------------------------------------------
(***************************************************************************)
(* mlir::verify, as far as it looks at what CodeGen emits.  It is external *)
(* code: a block of main or of a region ends with its one terminator, a    *)
(* value is defined in a block that dominates its uses or, in a region,    *)
(* around it, and operations get operands of the types they take.          *)
(***************************************************************************)
Blocks == DOMAIN blocks
FunctionBlocks == {b \in Blocks : blocks[b].within = {}}

WellTerminated(b) ==
    /\ blocks[b].body # <<>>
    /\ \A i \in DOMAIN blocks[b].body :
          blocks[b].body[i].op \in Terminators <=> i = Len(blocks[b].body)

\* The blocks of main that b branches to.
Successors(b) == {t \in FunctionBlocks : \E i \in DOMAIN Top(blocks[b].body).to :
                                             Top(blocks[b].body).to[i] = t}

\* d dominates u when some set of blocks without u has the entry block (unless d
\* is the entry) and all successors, but d, of its members.
Dominates(d, u) ==
    \/ d = u
    \/ \E X \in SUBSET (FunctionBlocks \ {d, u}) :
          /\ d # 1 => 1 \in X
          /\ \A b \in X : Successors(b) \subseteq X \cup {d}

\* Block b of "bs" is in the operation's region.
Regional == {"for", "if"}
InRegion(bs, op, b) == /\ op.op \in Regional
                       /\ \E k \in DOMAIN op.to : op.to[k] \in {b} \cup bs[b].within

\* The value, of a block around b, comes before the operation that has b in its region.
ComesBefore(bs, value, b) ==
    \A n \in DOMAIN bs[value.block].body :
        InRegion(bs, bs[value.block].body[n], b) => value.at < n

\* The value was computed when the i-th operation of block b uses it.
Visible(value, b, i) ==
    IF value.block = b THEN value.at < i
    ELSE \/ value.block \in blocks[b].within /\ ComesBefore(blocks, value, b)
         \/ \E f \in FunctionBlocks \cap ({b} \cup blocks[b].within) :
                f # value.block /\ Dominates(value.block, f)

\* The LLVM types of the operands; "any" where the verifier does not compare: what
\* is stored, what a function with variable arguments is called with.
LLVMType(value) == IF value.type = "int" THEN "i32" ELSE "ptr"
Signature ==
    [alloca |-> <<"i32">>, load |-> <<"ptr">>, store |-> <<"any", "ptr">>,
     cond_br |-> <<"i32", "i32">>, return |-> <<"i32">>,
     for |-> <<"i32", "i32", "i32">>, if |-> <<"i32", "i32">>,
     size |-> <<"ptr">>, new_vector |-> <<"i32">>, empty |-> <<"ptr", "i32">>,
     put |-> <<"ptr", "i32", "any">>, keep |-> <<"ptr", "i32", "i32">>,
     int_op |-> <<"i32", "i32">>, vector_op |-> <<"ptr", "ptr">>,
     int_to_vector |-> <<"i32", "i32">>, vector_range |-> <<"i32", "i32">>,
     vector_index |-> <<"ptr", "i32">>, vector_index_vector |-> <<"ptr", "ptr">>,
     printf |-> <<"any">>, print_vector |-> <<"ptr">>]

OperandsFit(op) ==
    \A k \in DOMAIN op.args : Signature[op.op][k] \in {"any", LLVMType(op.args[k])}

Verifies ==
    /\ \A b \in Blocks : WellTerminated(b)
    /\ \A b \in Blocks : \A i \in DOMAIN blocks[b].body :
          LET op == blocks[b].body[i]
          IN  OperandsFit(op) /\ \A k \in DOMAIN op.args : Visible(op.args[k], b, i)

----------------------------------------------------------------------------
(***************************************************************************)
(* CodeGenTypeOK: the variables have their types, and a visit that takes   *)
(* operands finds as many as it pops (std::stack::top and pop of an empty  *)
(* stack are undefined).                                                   *)
(***************************************************************************)
Consumes == {"IF_BODY", "LOOP_BODY", "ASSIGN", "PRINT", "GENERATOR_END", "FILTER_END"}
            \cup Ops \cup ScopedOps
CodeGenTypeOK ==
    /\ pos \in 1..(Len(ast) + 1)
    /\ cg_scope \in 0..Len(scopes)
    /\ opperands \in Seq([type: Type, block: Blocks, at: Nat])
    /\ Visiting(Consumes) => Len(opperands) >= (IF ThisVisit.node \in Ops THEN 2 ELSE 1)
    /\ DOMAIN storage \subseteq (DOMAIN scopes) \X Name
    /\ {storage[s] : s \in DOMAIN storage} \subseteq [type: {"address"}, block: Blocks, at: Nat]
    /\ \A b \in Blocks : blocks[b].within \subseteq Blocks
    /\ codegen # "idle" => ip.block \in Blocks /\ ip.at \in 0..Len(blocks[ip.block].body)
    /\ codegen \in {"idle", "emitting", "generated", "crashed", "threw"}

(***************************************************************************)
(* ScopesAligned: CodeGen keeps its own current_scope, from the scopes     *)
(* DefRef left in BLOCK and iterator nodes and from GetEnclosingScope.  At *)
(* every visit it is the scope DefRef was in at that visit.                *)
(***************************************************************************)
ScopeAtVisit(i) ==      \* the scope before a visit that changes it
    IF ast[i].node \in {"BLOCK"} \cup ScopedOps THEN scopes[ast[i].scope].enclosing
    ELSE ast[i].scope
ScopesAligned ==
    codegen = "emitting" =>
        cg_scope = IF pos <= Len(ast) THEN ScopeAtVisit(pos) ELSE NoScope

(***************************************************************************)
(* OperandsMatchReferences: the value on top of "opperands" has the type   *)
(* DefRef computed for the expression it is the value of, wherever a visit *)
(* consumes it.  The callee of an operation is chosen by the reference,    *)
(* its argument is the value: they must agree.                             *)
(***************************************************************************)
OperandsMatchReferences ==
    Visiting(Consumes) =>
        LET n == Len(ThisVisit.refs)
        IN  /\ Len(opperands) >= n
            /\ \A i \in 1..n :
                  opperands[Len(opperands) - n + i].type = ThisVisit.refs[i]

(***************************************************************************)
(* NoOperandLeftOver: every value an expression pushes is popped by its    *)
(* statement (a generator or filter once did not push, see the comment at  *)
(* AstVisitor.cpp:442).                                                    *)
(***************************************************************************)
NoOperandLeftOver ==
    /\ Visiting({"BLOCK", "BLOCK_END", "DECL", "LOOP"}) => opperands = <<>>
    /\ codegen = "generated" => opperands = <<>> /\ locals = <<>>

(***************************************************************************)
(* ReboundOnlyByLaterDeclaration: the scopes are complete when CodeGen     *)
(* resolves and were filling up when DefRef did.  The two answers differ   *)
(* exactly where a block around the use, but inside the variable's, has a  *)
(* declaration of the name further down.                                   *)
(***************************************************************************)
CgBound(i) == Resolve(scopes, ast[i].scope, ast[i].text)
ShadowedLater(i) ==
    \E j \in DOMAIN ast :
        /\ j > i /\ ast[j].node = "DECL" /\ ast[j].text = ast[i].text
        /\ ast[j].scope \in scopes[ast[i].scope].chain
        /\ ast[j].scope > ast[i].bound
ReboundOnlyByLaterDeclaration ==
    status = "validated" => \A i \in Uses : CgBound(i) # ast[i].bound <=> ShadowedLater(i)

(***************************************************************************)
(* StorageUnlessShadowedLater: when CodeGen loads from or stores to a      *)
(* variable it has storage, unless a later declaration of the same block   *)
(* shadows the variable: a program without that pattern never reaches a    *)
(* null value.                                                             *)
(***************************************************************************)
HasStorage == CgSymbol(ThisVisit.text) \in DOMAIN storage
StorageUnlessShadowedLater ==
    Visiting({"ID", "ASSIGN"}) => (HasStorage <=> ~ShadowedLater(pos))

(***************************************************************************)
(* BoundVariablesHaveStorage: DefRef accepted the program ("Scope Tree     *)
(* Built and Types Validated", main.cpp:43), so CodeGen finds storage for  *)
(* each variable it reads or writes.                                       *)
(***************************************************************************)
BoundVariablesHaveStorage == Visiting({"ID", "ASSIGN"}) => HasStorage

(***************************************************************************)
(* VerifiesUnlessFilterBodyIsVector: the module CodeGen generates for a    *)
(* validated program verifies, whatever the nesting of blocks, loops and   *)
(* scoped expressions, except where the body of a filter is a vector.      *)
(***************************************************************************)
VectorFilter == \E i \in DOMAIN ast : ast[i].node = "FILTER_END" /\ ast[i].refs = <<"vector">>
VerifiesUnlessFilterBodyIsVector ==
    codegen = "generated" => (Verifies <=> ~VectorFilter)

(***************************************************************************)
(* ScopedBodyIsInt: "left child vector, right child int"                   *)
(* (AstVisitor.cpp:474) of a generator or filter.                          *)
(***************************************************************************)
ScopedBodyIsInt ==
    Visiting({"GENERATOR_END", "FILTER_END"}) => TopValue.type = "int"

(***************************************************************************)
(* EmittedCodeIsFinal: the walk only adds operations in front of a         *)
(* terminator or at the end of a block without one: it never emits into a  *)
(* block it has left, and gives a block its successors once.               *)
(***************************************************************************)
Closed(bs, b) == bs[b].body # <<>> /\ Top(bs[b].body).op \in Terminators \ {"yield"}
EmittedCodeIsFinal ==
    [][\A b \in Blocks : Closed(blocks, b) => blocks'[b] = blocks[b]]_codegen_vars
=============================================================================
