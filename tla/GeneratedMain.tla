--------------------------- MODULE GeneratedMain ---------------------------
(***************************************************************************)
(* The program that vcalc writes: when the compiler has returned 0, "main" *)
(* runs.  This module executes the operations that CodeGen emitted into    *)
(* "blocks", one at a time: registers, the stack that alloca grows,        *)
(* branches between the blocks of main, the regions of scf.for and scf.if. *)
(*                                                                         *)
(* An operation of LLVM or scf is external; which operations there are, in *)
(* which block and on which operands, is CodeGen's.  The functions on      *)
(* vectors are taken by value: VectorRuntime shows that they are.          *)
(***************************************************************************)
EXTENDS Compiler, Vectors

CONSTANTS
    IntOf,          \* what std::stoi makes of a literal
    ArithOp,        \* the operation that the ARITH nodes of the program stand for,
    BoolOp,         \* and that of the BOOL nodes
    Leftovers,      \* ints that a slot of the stack may hold from before
    StackSlots,     \* slots of main's stack
    MaxLines        \* bound: lines printed

ASSUME GeneratedMainAssumption ==
    /\ IntOf \in [IntLiteral -> MachineInt]
    /\ ArithOp \in ArithmeticOps /\ BoolOp \in BooleanOps
    /\ Leftovers \subseteq MachineInt /\ Leftovers # {}
    /\ StackSlots \in Nat /\ MaxLines \in Nat

VARIABLES
    pc,         \* the operation to execute: its block and its place there
    regs,       \* results of operations, by the place of the operation
    stack,      \* slots of executed allocas: <<>>, or <<x>> once x was stored
    loops,      \* the scf regions that are running
    out,        \* the lines printed
    junk,       \* history: a slot was loaded before it was stored to
    run         \* "no", "running", and then "returned", "trapped" (a division),
                \* "overflow" (of the stack), "undefined" or "cut" (by MaxLines)

machine_vars == <<pc, regs, stack, loops, out, junk, run>>
main_run_vars == <<compiler_vars, machine_vars>>

ThisOp == blocks[pc.block].body[pc.at]
Operand(k) == LET value == ThisOp.args[k] IN regs[<<value.block, value.at>>]
Executing(ops) == run = "running" /\ ThisOp.op \in ops

NextOp == pc' = [pc EXCEPT !.at = @ + 1]
GoToSecond(b) == pc' = [block |-> b, at |-> 2]      \* mutant: one operation too far
GoTo(b) == pc' = [block |-> b, at |-> 1]
Written(place, x) == [p \in DOMAIN regs \cup {place} |-> IF p = place THEN x ELSE regs[p]]
Give(x) == regs' = Written(<<pc.block, pc.at>>, x)
Halt(how) == run' = how /\ UNCHANGED <<pc, regs, stack, loops, out, junk>>

----------------------------------------------------------------------------
\* The dumped module is run, where all of it is in the file.
StartMain ==
    /\ ended = "return 0" /\ output = "llvm" /\ run = "no"
    /\ run' = "running"
    /\ GoTo(1)
    /\ UNCHANGED <<regs, stack, loops, out, junk>>

\* A variable or an iterator gets a slot; slots are given back when main returns.
ExecAlloca ==
    /\ Executing({"alloca"})
    /\ IF Len(stack) = StackSlots
       THEN Halt("overflow")
       ELSE /\ stack' = Append(stack, <<>>)
            /\ Give(Len(stack) + 1)
            /\ NextOp
            /\ UNCHANGED <<loops, out, junk, run>>

ExecStore ==
    /\ Executing({"store"})
    /\ stack' = [stack EXCEPT ![Operand(2)] = <<Operand(1)>>]
    /\ NextOp
    /\ UNCHANGED <<regs, loops, out, junk, run>>

\* An int that was never stored is any int; where a vector that was never stored
\* points to is not modelled.
ExecLoad ==
    /\ Executing({"load"})
    /\ LET slot == stack[Operand(1)]
       IN  IF slot = <<>> /\ ThisOp.text = "vector"
           THEN Halt("undefined")
           ELSE /\ \E x \in (IF slot = <<>> THEN Leftovers ELSE {slot[1]}) : Give(x)
                /\ junk' = (junk \/ slot = <<>>)
                /\ NextOp
                /\ UNCHANGED <<stack, loops, out, run>>

\* vector_range, whose size wraps.
RangeOf(n, m) == [i \in 1..(IF m < n THEN 0 ELSE Wrap(Wrap(m - n) + 1)) |-> Wrap(n + i - 1)]

\* What the operations without effect return.
Operator == IF ThisOp.text = "ARITH" THEN ArithOp ELSE BoolOp
ResultOf(op) ==
    CASE op = "one"  -> 1
      [] op = "zero" -> 0
      [] op = "constant"            -> IntOf[ThisOp.text]
      [] op = "size"                -> Len(Operand(1))
      [] op = "new_vector"          -> Repeat(Operand(1), Junk)
      [] op = "int_to_vector"       -> Repeat(Operand(1), Operand(2))
      [] op = "int_op"              -> IntOperation(Operator, Operand(1), Operand(2))
      [] op = "vector_op"           -> Zip(Operator, Operand(1), Operand(2))
      [] op = "vector_range"        -> RangeOf(Operand(1), Operand(2))
      [] op = "vector_index"        -> At(Operand(1), Operand(2) + 1, 0)
      [] op = "vector_index_vector" -> IndexBy(Operand(1), Operand(2))

DivisionTraps ==
    \/ ThisOp.op = "int_op" /\ Undefined(Operator, Operand(1), Operand(2))
    \/ ThisOp.op = "vector_op" /\ ZipUndefined(Operator, Operand(1), Operand(2))

Computations == {"one", "zero", "constant", "size", "new_vector", "int_to_vector", "int_op",
                 "vector_op", "vector_range", "vector_index", "vector_index_vector"}
ExecComputation ==
    /\ Executing(Computations)
    /\ IF DivisionTraps
       THEN Halt("trapped")
       ELSE Give(ResultOf(ThisOp.op)) /\ NextOp /\ UNCHANGED <<stack, loops, out, junk, run>>

\* What a generator and a filter do to the vector they are building.
ExecUpdate ==
    /\ Executing({"empty", "put", "keep"})
    /\ IF ThisOp.op = "put" /\ ThisOp.args[3].type = "vector"
       THEN Halt("undefined")       \* a pointer, stored over two elements
       ELSE /\ LET result == ThisOp.args[1]
               IN  regs' = [regs EXCEPT ![<<result.block, result.at>>] =
                       CASE ThisOp.op = "empty" -> <<>>
                         [] ThisOp.op = "put"   -> [@ EXCEPT ![Operand(2) + 1] = Operand(3)]
                         [] ThisOp.op = "keep"  -> Append(@, Operand(2))]
            /\ NextOp
            /\ UNCHANGED <<stack, loops, out, junk, run>>

\* printf and print_vector.
ExecPrint ==
    /\ Executing({"printf", "print_vector"})
    /\ IF Len(out) = MaxLines
       THEN Halt("cut")
       ELSE /\ out' = Append(out, IF ThisOp.op = "printf" THEN <<"int", Operand(1)>>
                                                          ELSE <<"vector", Line(Operand(1))>>)
            /\ NextOp
            /\ UNCHANGED <<regs, stack, loops, junk, run>>

----------------------------------------------------------------------------
\* br, cond_br and return.
ExecBranch ==
    /\ Executing({"br", "cond_br"})
    /\ GoTo(IF ThisOp.op = "cond_br" /\ Operand(1) = Operand(2) THEN ThisOp.to[2] ELSE ThisOp.to[1])
    /\ UNCHANGED <<regs, stack, loops, out, junk, run>>

ExecReturn == Executing({"return"}) /\ Halt("returned")

\* scf.for runs its region for each int from its first operand up to its second,
\* scf.if runs it once or not at all.
ExecRegion ==
    /\ Executing({"for", "if"})
    /\ LET region == ThisOp.to[1]
           from   == IF ThisOp.op = "for" THEN Operand(1) ELSE 0
           size   == IF ThisOp.op = "for" THEN Operand(2)
                     ELSE IF Operand(1) # Operand(2) THEN 1 ELSE 0
       IN  IF from < size
           THEN /\ loops' = Append(loops, [region |-> region, size |-> size,
                                           resume |-> [pc EXCEPT !.at = @ + 1]])
                /\ regs' = Written(<<region, 0>>, from)
                /\ GoTo(region)
           ELSE NextOp /\ UNCHANGED <<loops, regs>>
    /\ UNCHANGED <<stack, out, junk, run>>

\* mutant: the induction variable is not increased
ExecYieldAgain ==
    /\ Executing({"yield"})
    /\ IF regs[<<Top(loops).region, 0>>] + 1 < Top(loops).size
       THEN GoTo(Top(loops).region) /\ UNCHANGED loops
       ELSE pc' = Top(loops).resume /\ loops' = Pop(loops)
    /\ UNCHANGED <<regs, stack, out, junk, run>>

ExecYield ==
    /\ Executing({"yield"})
    /\ LET iv == <<Top(loops).region, 0>>
       IN  IF regs[iv] + 1 < Top(loops).size
           THEN regs' = [regs EXCEPT ![iv] = @ + 1] /\ GoTo(Top(loops).region) /\ UNCHANGED loops
           ELSE pc' = Top(loops).resume /\ loops' = Pop(loops) /\ UNCHANGED regs
    /\ UNCHANGED <<stack, out, junk, run>>

----------------------------------------------------------------------------
MainInit ==
    /\ CompilerInit
    /\ pc = [block |-> 1, at |-> 1] /\ regs = <<>> /\ stack = <<>> /\ loops = <<>>
    /\ out = <<>> /\ junk = FALSE /\ run = "no"

\* The process of the compiled program.
Execute ==
    /\ UNCHANGED compiler_vars
    /\ \/ StartMain
       \/ ExecAlloca \/ ExecStore \/ ExecLoad
       \/ ExecComputation \/ ExecUpdate \/ ExecPrint
       \/ ExecBranch \/ ExecReturn \/ ExecRegion \/ ExecYield

Compile == CompilerNext /\ UNCHANGED machine_vars

\* There is no program to run, or its run is over.
MainOver == /\ main = "ended"
            /\ run = "no" => ended # "return 0" \/ output # "llvm"
            /\ run # "running"
            /\ UNCHANGED main_run_vars

MainSpec == MainInit /\ [][Compile \/ Execute \/ MainOver]_main_run_vars

----------------------------------------------------------------------------
(***************************************************************************)
(* MainTypeOK: the machine is at an operation that exists, in a region     *)
(* exactly when the regions around it are running, and every operand of    *)
(* the operation has been computed: what mlir::verify concludes from       *)
(* dominance.                                                              *)
(***************************************************************************)
MainTypeOK ==
    /\ run \in {"no", "running", "returned", "trapped", "overflow", "undefined", "cut"}
    /\ Len(stack) <= StackSlots /\ \A slot \in DOMAIN stack : Len(stack[slot]) <= 1
    /\ Len(out) <= MaxLines
    /\ run = "running" =>
          /\ pc.block \in Blocks /\ pc.at \in DOMAIN blocks[pc.block].body
          /\ Len(loops) = Cardinality(blocks[pc.block].within)
          /\ \A k \in DOMAIN ThisOp.args :
                <<ThisOp.args[k].block, ThisOp.args[k].at>> \in DOMAIN regs

(***************************************************************************)
(* StackGrowsInLoopsOnly: allocas stay where the declaration or the scoped *)
(* expression is (420, 480), so a run may need more slots than there are   *)
(* variables, without bound, but only where one of them is in a loop or in *)
(* the body of a scoped expression.                                        *)
(***************************************************************************)
OpenAt(i, first, last) ==
    Cardinality({j \in 1..(i - 1) : ast[j].node = first}) >
    Cardinality({j \in 1..(i - 1) : ast[j].node = last})
DeclaredInLoop ==
    \E i \in Declarations : \/ OpenAt(i, "LOOP", "LOOP_END")
                            \/ \E op \in ScopedOps : OpenAt(i, op, EndOf(op))
StackGrowsInLoopsOnly ==
    (Len(stack) > Cardinality(Declarations) \/ run = "overflow") =>
        DeclaredInLoop \/ Cardinality(Declarations) > StackSlots
=============================================================================
