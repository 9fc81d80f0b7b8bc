--------------------------- MODULE VectorRuntime ---------------------------
(***************************************************************************)
(* The functions on vectors that vcalc generates (src/src/BackEnd.cpp) and *)
(* the loops of generators and filters (src/src/AstVisitor.cpp:474-563),   *)
(* at the level of the 32 bit words they load and store.                   *)
(*                                                                         *)
(* A vector is a pointer v to the word that holds its size.  Its elements  *)
(* are the words from v + 1 on: Generate (907-913), vector_index and the   *)
(* loops of AstVisitor.cpp all step one int from v.  GenerateVectorTypePtr *)
(* allocates a header of eight bytes and then an array, and stores the     *)
(* array's address one vector_type (16 bytes, with its padding) from v:    *)
(* in the words v + 4 and v + 5, which are elements.  The array itself is  *)
(* never used; it reserves the words that the elements spill into.         *)
(*                                                                         *)
(* malloc is external: addresses increase, a block is at least MinBlock    *)
(* words and at least what was asked for, and nothing is ever freed.       *)
(***************************************************************************)
EXTENDS MachineInt, Sequences

CONSTANTS
    Ints,       \* the ints that calls pass and bodies return
    Ops,        \* the binary operations on vectors the program uses
    Functions,  \* the other functions it uses
    Gaps,       \* words malloc may leave between two blocks
    MinBlock,   \* words of malloc's smallest block: 24 bytes with glibc
    MaxSize,    \* bound: elements of a vector
    MaxCalls    \* bound: calls of a run, in all and nested

Scoped == {"generator", "filter"}
OtherFunctions == Scoped \cup {"vector_range", "int_to_vector", "vector_index_vector", "print_vector"}

ASSUME RuntimeAssumption ==
    /\ Ints \subseteq MachineInt
    /\ Ops \subseteq IntOps
    /\ Functions \subseteq OtherFunctions
    /\ Gaps \subseteq Nat
    /\ MinBlock \in Nat /\ MinBlock >= 6
    /\ MaxSize \in Nat /\ MaxCalls \in Nat

VARIABLES
    mem,        \* words that were stored to
    brk,        \* malloc's next free word
    allocs,     \* history: every vector allocated: its address, its array's, its size
    vectors,    \* history: the vectors calls of the program returned
    frames,     \* the calls that have not returned
    line,       \* what print_vector wrote since it wrote "["
    out,        \* the lines that are complete
    calls       \* number of calls made

vars == <<mem, brk, allocs, vectors, frames, line, out, calls>>

Top(s) == s[Len(s)]
Pop(s) == SubSeq(s, 1, Len(s) - 1)
Frame == Top(frames)
SetFrame(f) == frames' = Append(Pop(frames), f)

----------------------------------------------------------------------------
\* Memory.
Load(a) == IF a \in DOMAIN mem THEN mem[a] ELSE Junk
Stored(m, a, x) == [w \in DOMAIN m \cup {a} |-> IF w = a THEN x ELSE m[w]]
Store(a, x) == mem' = Stored(mem, a, x)
Size(v) == Load(v)
ElementAddr(v, i) == v + 1 + i
Element(v, i) == Load(ElementAddr(v, i))

Maximum(x, y) == IF x < y THEN y ELSE x

\* mutant: one is not taken off
VectorIndexOneMore(v, index) ==
    IF index < 0 \/ Size(v) < index THEN 0 ELSE Element(v, index)

\* The vector function vector_index: 0 outside the bounds.  The size is compared
\* after one was taken off it.
VectorIndex(v, index) ==
    IF index < 0 \/ Wrap(Size(v) - 1) < index THEN 0 ELSE Element(v, index)

\* GenerateVectorTypePtr: two blocks, the array's address, the size.  The byte
\* count is an i32 that malloc takes as unsigned.
ArrayWordsUnscaled(size) == (size % (2 * (MaxInt + 1))) \div 4     \* mutant: no "* 4"
ArrayWords(size) == ((4 * size) % (2 * (MaxInt + 1))) \div 4
GenerateVectorTypePtr(f, size, first) ==
    \E g, h \in Gaps :
        LET v     == brk + g
            array == v + MinBlock + h
        IN  /\ mem' = Stored(Stored(Stored(mem, v + 4, Pointer), v + 5, Pointer), v, first)
            /\ brk' = array + Maximum(MinBlock, ArrayWords(size))
            /\ allocs' = Append(allocs, [addr |-> v, array |-> array, size |-> size])
            /\ SetFrame([f EXCEPT !.dst = v, !.size = size, !.i = 0, !.at = "loop"])

----------------------------------------------------------------------------
\* A call: the function, the arguments as the program names them (an int, or a
\* position in vectors), the registers lhs, rhs, dst, size, i and elem, and the
\* values a generator's or filter's body has returned.
NewFrame(op, args, lhs, rhs, at) ==
    [op |-> op, args |-> args, lhs |-> lhs, rhs |-> rhs, at |-> at,
     dst |-> 0, size |-> 0, i |-> 0, elem |-> 0, body |-> <<>>]

\* The program calls from main or from the body of a generator or filter.
MayCall(function) ==
    /\ calls < MaxCalls
    /\ function \in Ops \cup Functions
    /\ frames # <<>> => Frame.at = "body"
Called(f) == /\ frames' = Append(frames, f)
             /\ calls' = calls + 1
             /\ UNCHANGED <<mem, brk, allocs, vectors, line, out>>

CallRange(n, m) ==
    MayCall("vector_range") /\ Called(NewFrame("vector_range", <<n, m>>, n, m, "alloc"))

\* An int beside a vector is promoted to the vector's size.
CallIntToVector(k, x) ==
    /\ MayCall("int_to_vector")
    /\ LET size == Size(vectors[k])
       IN  Called(NewFrame("int_to_vector", <<size, x>>, size, x, "alloc"))

CallOp(op, k, l) ==
    MayCall(op) /\ Called(NewFrame(op, <<k, l>>, vectors[k], vectors[l], "match_lhs"))

CallIndexVector(k, l) ==
    /\ MayCall("vector_index_vector")
    /\ Called(NewFrame("vector_index_vector", <<k, l>>, vectors[k], vectors[l], "alloc"))

CallScoped(op, k) == MayCall(op) /\ Called(NewFrame(op, <<k>>, vectors[k], 0, "alloc"))

\* print_vector, a statement: "[" and the loop over the size it loads.
CallPrint(k) ==
    /\ MayCall("print_vector") /\ frames = <<>>
    /\ Called([NewFrame("print_vector", <<k>>, vectors[k], 0, "loop") EXCEPT
                   !.size = Size(vectors[k])])

----------------------------------------------------------------------------
\* CreateVectorOperationFunction: match_vector_size first extends the left operand
\* to the size of the right one, then the right one to that of the new left one;
\* it returns its argument when that is not the smaller one.
MatchLhs ==
    /\ frames # <<>> /\ Frame.at = "match_lhs"
    /\ frames' = IF Size(Frame.lhs) < Size(Frame.rhs)
                 THEN Append(frames, NewFrame("increase_vector_size", <<Size(Frame.rhs), 0>>,
                                              Frame.lhs, 0, "alloc"))
                 ELSE Append(Pop(frames), [Frame EXCEPT !.at = "match_rhs"])
    /\ UNCHANGED <<mem, brk, allocs, vectors, line, out, calls>>

AlwaysOne(op) == 1          \* mutant
DefaultValue(op) == IF op = "div" THEN 1 ELSE 0
MatchRhs ==
    /\ frames # <<>> /\ Frame.at = "match_rhs"
    /\ frames' = IF Size(Frame.rhs) < Size(Frame.lhs)
                 THEN Append(frames, NewFrame("increase_vector_size",
                                              <<Size(Frame.lhs), DefaultValue(Frame.op)>>,
                                              Frame.rhs, 0, "alloc"))
                 ELSE Append(Pop(frames), [Frame EXCEPT !.at = "alloc"])
    /\ UNCHANGED <<mem, brk, allocs, vectors, line, out, calls>>

\* The size of the vector a function allocates.
ResultSize(f) ==
    CASE f.op = "vector_range" -> IF f.args[2] < f.args[1] THEN 0
                                  ELSE Wrap(Wrap(f.args[2] - f.args[1]) + 1)
      [] f.op \in {"int_to_vector", "increase_vector_size"} -> f.args[1]
      [] f.op = "vector_index_vector" -> Size(f.rhs)
      [] OTHER -> Size(f.lhs)

\* A filter's result starts empty, in an allocation as large as its domain.
FullAtFirst(f) == ResultSize(f)     \* mutant: the size of a filter's result is not reset
FirstSize(f) == IF f.op = "filter" THEN 0 ELSE ResultSize(f)

Allocate ==
    /\ frames # <<>> /\ Frame.at = "alloc"
    /\ ResultSize(Frame) <= MaxSize
    /\ GenerateVectorTypePtr(Frame, ResultSize(Frame), FirstSize(Frame))
    /\ UNCHANGED <<vectors, line, out, calls>>

----------------------------------------------------------------------------
\* mutant: cond_copy_arr without its test of the old size
CopyValueUnchecked(f) == Element(f.lhs, f.i)

\* cond_copy_arr: the old element, or the default value behind the old size.
CopyValue(f) == IF f.i < Size(f.lhs) THEN Element(f.lhs, f.i) ELSE f.args[2]

\* The value a loop stores in element i (the LoopFuncs and the body of
\* the loop of vector_index_vector).
LoopValue(f) ==
    CASE f.op = "vector_range"         -> Wrap(f.args[1] + f.i)
      [] f.op = "int_to_vector"        -> f.args[2]
      [] f.op = "increase_vector_size" -> CopyValue(f)
      [] f.op = "vector_index_vector"  -> VectorIndex(f.lhs, VectorIndex(f.rhs, f.i))
      [] OTHER -> IntOperation(f.op, Element(f.lhs, f.i), Element(f.rhs, f.i))

InLoop == frames # <<>> /\ Frame.at = "loop" /\ Frame.i < Frame.size

DivisionUndefined ==
    /\ InLoop /\ Frame.op \in Ops
    /\ Undefined(Frame.op, Element(Frame.lhs, Frame.i), Element(Frame.rhs, Frame.i))

NotIncremented == UNCHANGED frames              \* mutant: the induction variable stays
Incremented == SetFrame([Frame EXCEPT !.i = @ + 1])

\* One iteration.  A division without a result ends the program.
Iterate ==
    /\ InLoop /\ Frame.op \notin Scoped \cup {"print_vector"}
    /\ ~DivisionUndefined
    /\ Store(ElementAddr(Frame.dst, Frame.i), LoopValue(Frame))
    /\ Incremented
    /\ UNCHANGED <<brk, allocs, vectors, line, out, calls>>

\* A generator or filter loads the element (into the iterator) and runs its body.
EnterBody ==
    /\ InLoop /\ Frame.op \in Scoped
    /\ SetFrame([Frame EXCEPT !.at = "body", !.elem = VectorIndex(Frame.lhs, Frame.i)])
    /\ UNCHANGED <<mem, brk, allocs, vectors, line, out, calls>>

InScopedBody(op) == frames # <<>> /\ Frame.at = "body" /\ Frame.op = op
NextElement(x) == SetFrame([Frame EXCEPT !.i = @ + 1, !.at = "loop", !.body = Append(@, x)])

\* mutant: the element is stored, not the value of the body
GeneratorBodyLost(x) ==
    /\ InScopedBody("generator")
    /\ Store(ElementAddr(Frame.dst, Frame.i), Frame.elem)
    /\ NextElement(x)
    /\ UNCHANGED <<brk, allocs, vectors, line, out, calls>>

\* mutant: the values go into the domain
GeneratorInPlace(x) ==
    /\ InScopedBody("generator")
    /\ Store(ElementAddr(Frame.lhs, Frame.i), x)
    /\ NextElement(x)
    /\ UNCHANGED <<brk, allocs, vectors, line, out, calls>>

GeneratorBody(x) ==
    /\ InScopedBody("generator")
    /\ Store(ElementAddr(Frame.dst, Frame.i), x)
    /\ NextElement(x)
    /\ UNCHANGED <<brk, allocs, vectors, line, out, calls>>

\* The filter counts the elements it keeps in the result's size.
FilterBody(x) ==
    /\ InScopedBody("filter")
    /\ IF x # 0
       THEN mem' = Stored(Stored(mem, ElementAddr(Frame.dst, Size(Frame.dst)), Frame.elem),
                          Frame.dst, Wrap(Size(Frame.dst) + 1))
       ELSE UNCHANGED mem
    /\ NextElement(x)
    /\ UNCHANGED <<brk, allocs, vectors, line, out, calls>>

\* One element, and a space unless it was the last one (cond_print_space).
PrintElement ==
    /\ InLoop /\ Frame.op = "print_vector"
    /\ line' = line \o <<Element(Frame.lhs, Frame.i)>> \o
               (IF Wrap(Frame.i + 1) # Frame.size THEN <<Space>> ELSE <<>>)
    /\ Incremented
    /\ UNCHANGED <<mem, brk, allocs, vectors, out, calls>>

----------------------------------------------------------------------------
LoopDone == frames # <<>> /\ Frame.at = "loop" /\ ~(Frame.i < Frame.size)

\* The program gets the vector.
Return ==
    /\ LoopDone /\ Frame.op \notin {"increase_vector_size", "print_vector"}
    /\ vectors' = Append(vectors, Frame.dst)
    /\ frames' = Pop(frames)
    /\ UNCHANGED <<mem, brk, allocs, line, out, calls>>

\* mutant: the extended vector is dropped, the operation goes on with the old one
ResumeWithOld(caller) ==
    [caller EXCEPT !.at = IF caller.at = "match_lhs" THEN "match_rhs" ELSE "alloc"]

\* The register that takes the result of match_vector_size.
Resume(caller) ==
    IF caller.at = "match_lhs" THEN [caller EXCEPT !.lhs = Frame.dst, !.at = "match_rhs"]
                               ELSE [caller EXCEPT !.rhs = Frame.dst, !.at = "alloc"]

\* match_vector_size hands the new vector to the operation, which goes on.
ReturnIncreased ==
    /\ LoopDone /\ Frame.op = "increase_vector_size"
    /\ frames' = Append(Pop(Pop(frames)), Resume(Top(Pop(frames))))
    /\ UNCHANGED <<mem, brk, allocs, vectors, line, out, calls>>

\* print_vector ends the line.
ReturnPrinted ==
    /\ LoopDone /\ Frame.op = "print_vector"
    /\ out' = Append(out, line)
    /\ line' = <<>>
    /\ frames' = Pop(frames)
    /\ UNCHANGED <<mem, brk, allocs, vectors, calls>>

Init ==
    /\ mem = <<>> /\ brk = 1 /\ allocs = <<>> /\ vectors = <<>> /\ frames = <<>>
    /\ line = <<>> /\ out = <<>> /\ calls = 0

Call ==
    \/ \E n, m \in Ints : CallRange(n, m)
    \/ \E k \in DOMAIN vectors, x \in Ints : CallIntToVector(k, x)
    \/ \E op \in Ops, k, l \in DOMAIN vectors : CallOp(op, k, l)
    \/ \E k, l \in DOMAIN vectors : CallIndexVector(k, l)
    \/ \E op \in Scoped, k \in DOMAIN vectors : CallScoped(op, k)
    \/ \E k \in DOMAIN vectors : CallPrint(k)

Body == \E x \in Ints : GeneratorBody(x) \/ FilterBody(x)

Next ==
    \/ Call \/ MatchLhs \/ MatchRhs \/ Allocate
    \/ Iterate \/ EnterBody \/ Body \/ PrintElement
    \/ Return \/ ReturnIncreased \/ ReturnPrinted

\* The program is between two calls, where it may end; or it divided by zero; or
\* it asked for a vector beyond the bound MaxSize.
Stopped ==
    \/ frames = <<>>
    \/ DivisionUndefined
    \/ frames # <<>> /\ Frame.at = "alloc" /\ ResultSize(Frame) > MaxSize

RuntimeSpec == Init /\ [][Next \/ (Stopped /\ UNCHANGED vars)]_vars

\* The steps of the functions, and the evaluation of a body.  The generated
\* program is one thread that nothing suspends.
Step ==
    \/ MatchLhs \/ MatchRhs \/ Allocate \/ Iterate \/ EnterBody \/ Body \/ PrintElement
    \/ Return \/ ReturnIncreased \/ ReturnPrinted
FairRuntimeSpec == RuntimeSpec /\ WF_vars(Step)

----------------------------------------------------------------------------
Contents(v) == [i \in 1..Maximum(0, Size(v)) |-> Element(v, i - 1)]

\* The byte counts so far have not wrapped: every array has a word for each element.
\* Beyond that, the memory of a vector is that of others (the run byte_count).
Fits(size) == 4 * size <= 2 * MaxInt + 1
BytesFit == \A k \in DOMAIN allocs : Fits(allocs[k].size)

\* The ranges the program asks for are that small: less than 2^30 ints.
RangesNarrow ==
    \A k \in DOMAIN frames :
        frames[k].op = "vector_range" => Fits(frames[k].args[2] - frames[k].args[1] + 1)

\* A range of 2^31 ints has the size MinInt, from which vector_index takes one and
\* gets MaxInt: every index is inside the bounds of that vector.
SizeWrapped == \E k \in DOMAIN allocs : allocs[k].size = MinInt
Loaded == IF SizeWrapped THEN Int ELSE MachineInt

FunctionNames == IntOps \cup OtherFunctions \cup {"increase_vector_size"}
FrameRecord ==
    [op: FunctionNames, args: Seq(Int), lhs: Int, rhs: Int,
     at: {"match_lhs", "match_rhs", "alloc", "loop", "body"},
     dst: Nat, size: MachineInt, i: Nat, elem: Loaded, body: Seq(MachineInt)]

(***************************************************************************)
(* RuntimeTypeOK: the variables have their types; what a word is given, a  *)
(* loop loads or a line shows is always an int that was stored, never what *)
(* an uninitialized word holds, until a size has wrapped.                  *)
(***************************************************************************)
RuntimeTypeOK ==
    /\ DOMAIN mem \subseteq Nat
    /\ \A w \in DOMAIN mem : mem[w] \in Loaded \cup {Pointer}
    /\ brk \in Nat
    /\ allocs \in Seq([addr: Nat, array: Nat, size: MachineInt])
    /\ vectors \in Seq(Nat)
    /\ frames \in Seq(FrameRecord)
    /\ line \in Seq(Loaded \cup {Space})
    /\ out \in Seq(Seq(Loaded \cup {Space}))
    /\ calls \in 0..MaxCalls

(***************************************************************************)
(* VectorsDisjoint: the words of a vector (its size, its elements, the     *)
(* pointer of its header) end before the next vector begins, although the  *)
(* elements are not where the array was allocated: the header's block and  *)
(* the array's block together are large enough, as "Allocate space for     *)
(* int32 arr" (BackEnd.cpp:546) says, until a byte count wraps.            *)
(***************************************************************************)
LastWord(a) == a.addr + Maximum(5, a.size)
VectorsDisjoint ==
    /\ \A k \in DOMAIN allocs : LastWord(allocs[k]) < brk
    /\ \A k, l \in DOMAIN allocs : k < l => LastWord(allocs[k]) < allocs[l].addr

(***************************************************************************)
(* VectorsNeverChange: once a call returned a vector, no step changes its  *)
(* size or an element, whatever is allocated and stored later; assignments *)
(* copy the pointer (VisitASSIGN), so a change would show through every    *)
(* variable that shares it.                                                *)
(***************************************************************************)
VectorsNeverChange ==
    [][\A k \in DOMAIN vectors :
          /\ Size(vectors[k])' = Size(vectors[k])
          /\ \A i \in 0..(Size(vectors[k]) - 1) :
                Element(vectors[k], i)' = Element(vectors[k], i)]_vars

(***************************************************************************)
(* ElementsAreInts: every element of a returned vector was stored, and     *)
(* after the header's pointer was: no uninitialized word and no half of an *)
(* address is ever an element, until a size has wrapped.                   *)
(***************************************************************************)
ElementsAreInts ==
    ~SizeWrapped => \A k \in DOMAIN vectors : \A i \in 0..(Size(vectors[k]) - 1) :
        Element(vectors[k], i) \in MachineInt

(***************************************************************************)
(* FilterStaysInside: the number of elements a filter has kept is at most  *)
(* the number it has looked at, so it stores inside the allocation made    *)
(* for its domain's size, and a body that runs meanwhile does not see or   *)
(* change the count.                                                       *)
(***************************************************************************)
FilterStaysInside ==
    \A k \in DOMAIN frames :
        frames[k].op = "filter" /\ frames[k].dst # 0 =>
            Size(frames[k].dst) \in 0..frames[k].i /\ frames[k].i <= Maximum(0, frames[k].size)

(***************************************************************************)
(* OperandsMatched: when an operation on vectors allocates its result and  *)
(* while it loops, both operands have the size of the result.              *)
(***************************************************************************)
OperandsMatched ==
    \A k \in DOMAIN frames :
        frames[k].op \in Ops /\ frames[k].at \in {"alloc", "loop"} =>
            /\ Size(frames[k].lhs) = Size(frames[k].rhs)
            /\ frames[k].at = "loop" => frames[k].size = Size(frames[k].lhs)

(***************************************************************************)
(* CallsReturn: every call returns, unless it divides by zero (or the      *)
(* model's bound on sizes stops it).                                       *)
(***************************************************************************)
CallsReturn == (frames # <<>>) ~> Stopped

(***************************************************************************)
(* RangeHoldsInterval: "creates a vector with values between arg0 and      *)
(* arg1" (BackEnd.cpp:582): the size of a range is the number of ints in   *)
(* the interval.                                                           *)
(***************************************************************************)
RangeHoldsInterval ==
    \A k \in DOMAIN frames :
        frames[k].op = "vector_range" /\ frames[k].at = "loop" =>
            frames[k].size = Maximum(0, frames[k].args[2] - frames[k].args[1] + 1)

=============================================================================
