------------------------ MODULE VectorRuntime_proofs ------------------------
(***************************************************************************)
(* Proofs about VectorRuntime, for every width, bound and choice of calls. *)
(*                                                                         *)
(* VectorsDisjoint is about what GenerateVectorTypePtr allocates.  Only    *)
(* Allocate changes brk and allocs; what it needs to know of the rest of   *)
(* the state is that the size it is given is an int, and that size comes   *)
(* from arguments of a call or was loaded from memory.  The invariant of   *)
(* the first part, DisjointInv, is therefore the typing of what memory and *)
(* the calls hold.                                                         *)
(*                                                                         *)
(* The second part is about what is in the blocks.  Its invariant OwnerInv *)
(* says who may write to which of them: a vector is being built by one     *)
(* call, or it is complete, and only complete ones are handed around.      *)
(*                                                                         *)
(* Both parts need that no byte count has wrapped, BytesFit: from then on  *)
(* vectors overlap (the run MCVectorRuntime_byte_count).  The theorems say *)
(* so; what does not depend on it, the typing of the state, is TypedInv.   *)
(***************************************************************************)
EXTENDS VectorRuntime, SequenceTheorems, TLAPS

USE RuntimeAssumption, MachineIntAssumption

\* The functions that keep a size and a value, or two bounds, in their arguments.
IntArgs == {"vector_range", "int_to_vector", "increase_vector_size"}

Places == {"match_lhs", "match_rhs", "alloc", "loop", "body"}

AnyFrame ==
    [op: Ops \cup OtherFunctions \cup {"increase_vector_size"}, args: Seq(Int),
     lhs: Int, rhs: Int, at: Places, dst: Nat, size: Int, i: Nat, elem: Int, body: Seq(Int)]

IntFrame == {f \in AnyFrame : f.op \in IntArgs => Len(f.args) = 2}

\* An increase_vector_size was called by an operation, which is below it.
GoodFrames(fs) ==
    /\ fs \in Seq(IntFrame)
    /\ fs # <<>> => fs[1].op # "increase_vector_size"

GoodMemory(m) == DOMAIN m \subseteq Int /\ \A w \in DOMAIN m : m[w] \in Int

\* The part of the invariant that types the state.
HoldsInts == GoodMemory(mem) /\ GoodFrames(frames) /\ vectors \in Seq(Nat)

Allocation == [addr: Nat, array: Nat, size: Int]
Allocated == brk \in Nat /\ allocs \in Seq(Allocation)

TypedInv == HoldsInts /\ Allocated

DisjointInv == HoldsInts /\ Allocated /\ VectorsDisjoint

----------------------------------------------------------------------------
(* What a 32 bit word can hold. *)

\* Wrap is total on the integers and keeps to the ints of the machine
\* (LLVM's add, sub and mul in BackEnd.cpp:265-293).
LEMMA WrapIsMachineInt == ASSUME NEW x \in Int PROVE Wrap(x) \in MachineInt
<1> DEFINE w == 2 * (MaxInt + 1)
<1>1. w \in Nat /\ w > 0
  OBVIOUS
<1>2. (x + MaxInt + 1) % w \in 0..(w - 1)
  BY <1>1
<1> QED
  BY <1>1, <1>2 DEF Wrap, MachineInt, MinInt

\* An operation with a result returns an int.
LEMMA IntOperationIsInt ==
    ASSUME NEW op \in IntOps, NEW x \in Int, NEW y \in Int, ~Undefined(op, x, y)
    PROVE  IntOperation(op, x, y) \in Int
<1>1. \A z \in Int : Wrap(z) \in Int
  BY WrapIsMachineInt DEF MachineInt, MinInt
<1>2. ASSUME op = "div" PROVE Quotient(x, y) \in Int
  <2>1. y # 0
    BY <1>2 DEF Undefined
  <2>2. Abs(x) \in Int /\ Abs(y) \in Nat /\ Abs(y) > 0
    BY <2>1 DEF Abs
  <2>3. Abs(x) \div Abs(y) \in Int
    BY <2>2
  <2> QED
    BY <2>3 DEF Quotient
<1>3. CASE op = "div"
  BY <1>2, <1>3 DEF IntOperation, BoolToInt
<1>4. CASE op \in {"add", "sub", "mul"}
  <2>1. x + y \in Int /\ x - y \in Int /\ x * y \in Int
    OBVIOUS
  <2> QED
    BY <1>1, <1>4, <2>1 DEF IntOperation, BoolToInt
<1>5. CASE op \in BooleanOps
  BY <1>5 DEF IntOperation, BooleanOps, BoolToInt
<1> QED
  BY <1>3, <1>4, <1>5 DEF IntOps, ArithmeticOps

\* Loading yields an int, stored or not.
LEMMA LoadIsInt ==
    ASSUME GoodMemory(mem)
    PROVE  /\ \A a \in Int : Load(a) \in Int
           /\ \A a \in Int : Size(a) \in Int
           /\ \A a, i \in Int : Element(a, i) \in Int
           /\ \A a, i \in Int : VectorIndex(a, i) \in Int
<1>1. \A a \in Int : Load(a) \in Int
  BY DEF GoodMemory, Load, Junk
<1> QED
  BY <1>1 DEF Size, Element, ElementAddr, VectorIndex

\* Storing an int keeps memory a table of ints.
LEMMA StoredIsGood ==
    ASSUME NEW m, GoodMemory(m), NEW a \in Int, NEW x \in Int
    PROVE  GoodMemory(Stored(m, a, x))
  BY DEF GoodMemory, Stored

----------------------------------------------------------------------------
(* The stack of calls. *)

LEMMA TopAndPop ==
    ASSUME NEW S, NEW s \in Seq(S), s # <<>>
    PROVE  /\ Len(s) \in Nat \ {0}
           /\ Top(s) = s[Len(s)] /\ Top(s) \in S
           /\ Pop(s) \in Seq(S) /\ Len(Pop(s)) = Len(s) - 1
           /\ \A i \in 1..(Len(s) - 1) : Pop(s)[i] = s[i]
<1> HIDE RuntimeAssumption, MachineIntAssumption
<1>1. Len(s) \in Nat \ {0} /\ Len(s) \in 1..Len(s)
  OBVIOUS
<1>2. Top(s) = s[Len(s)] /\ Top(s) \in S
  BY <1>1 DEF Top
<1> DEFINE n == Len(s) - 1
<1>3. n \in Nat /\ \A i \in 1..n : s[i] \in S
  BY <1>1
<1>4. Pop(s) = SubSeq(s, 1, n)
  BY DEF Pop
<1> HIDE DEF n
<1>5. /\ SubSeq(s, 1, n) \in Seq(S)
      /\ Len(SubSeq(s, 1, n)) = IF 1 <= n THEN n - 1 + 1 ELSE 0
      /\ \A i \in 1..(n - 1 + 1) : SubSeq(s, 1, n)[i] = s[1 + i - 1]
  BY <1>3, SubSeqProperties
<1>6. Len(Pop(s)) = n /\ \A i \in 1..n : Pop(s)[i] = s[i]
  BY <1>3, <1>4, <1>5
<1> QED
  BY <1>1, <1>2, <1>4, <1>5, <1>6 DEF n

\* The frame on top changes its registers.
LEMMA ReplacedTop ==
    ASSUME NEW fs, GoodFrames(fs), fs # <<>>, NEW f \in IntFrame, f.op = Top(fs).op
    PROVE  GoodFrames(Append(Pop(fs), f))
<1>1. fs \in Seq(IntFrame)
  BY DEF GoodFrames
<1>2. Append(Pop(fs), f) \in Seq(IntFrame) /\ Append(Pop(fs), f) # <<>>
  <2>1. Pop(fs) \in Seq(IntFrame)
    BY <1>1, TopAndPop
  <2> QED
    BY <2>1
<1>3. Append(Pop(fs), f)[1].op = fs[1].op
  <2>1. CASE Len(fs) = 1
    BY <1>1, <2>1, TopAndPop
  <2>2. CASE Len(fs) # 1
    BY <1>1, <2>2, TopAndPop
  <2> QED
    BY <2>1, <2>2
<1> QED
  BY <1>2, <1>3 DEF GoodFrames

LEMMA PushedFrame ==
    ASSUME NEW fs, GoodFrames(fs), NEW f \in IntFrame,
           fs # <<>> \/ f.op # "increase_vector_size"
    PROVE  GoodFrames(Append(fs, f))
  BY DEF GoodFrames

LEMMA PoppedFrame ==
    ASSUME NEW fs, GoodFrames(fs), fs # <<>>
    PROVE  GoodFrames(Pop(fs))
  BY TopAndPop DEF GoodFrames

LEMMA NewFrameIsIntFrame ==
    ASSUME NEW op \in Ops \cup OtherFunctions \cup {"increase_vector_size"},
           NEW args \in Seq(Int), op \in IntArgs => Len(args) = 2,
           NEW lhs \in Int, NEW rhs \in Int, NEW at \in Places
    PROVE  NewFrame(op, args, lhs, rhs, at) \in IntFrame
  BY DEF NewFrame, IntFrame, AnyFrame

\* A frame whose induction variable or body changes.
LEMMA ChangedFrame ==
    ASSUME NEW f \in IntFrame
    PROVE  /\ [f EXCEPT !.i = @ + 1] \in IntFrame
           /\ [f EXCEPT !.i = @ + 1].op = f.op
           /\ \A x \in Int :
                 LET g == [f EXCEPT !.i = @ + 1, !.at = "loop", !.body = Append(@, x)]
                 IN  g \in IntFrame /\ g.op = f.op
           /\ \A v \in Int : /\ [f EXCEPT !.lhs = v, !.at = "match_rhs"] \in IntFrame
                            /\ [f EXCEPT !.rhs = v, !.at = "alloc"] \in IntFrame
                            /\ [f EXCEPT !.lhs = v, !.at = "match_rhs"].op = f.op
                            /\ [f EXCEPT !.rhs = v, !.at = "alloc"].op = f.op
<1>1. f \in AnyFrame /\ f.i + 1 \in Nat
  BY DEF IntFrame, AnyFrame
<1>2. [f EXCEPT !.i = @ + 1] \in IntFrame /\ [f EXCEPT !.i = @ + 1].op = f.op
  BY <1>1 DEF IntFrame, AnyFrame
<1>3. ASSUME NEW x \in Int
      PROVE  LET g == [f EXCEPT !.i = @ + 1, !.at = "loop", !.body = Append(@, x)]
             IN  g \in IntFrame /\ g.op = f.op
  <2>1. Append(f.body, x) \in Seq(Int)
    BY <1>1 DEF AnyFrame
  <2> QED
    BY <1>1, <2>1 DEF IntFrame, AnyFrame, Places
<1>4. ASSUME NEW v \in Int
      PROVE  /\ [f EXCEPT !.lhs = v, !.at = "match_rhs"] \in IntFrame
             /\ [f EXCEPT !.rhs = v, !.at = "alloc"] \in IntFrame
             /\ [f EXCEPT !.lhs = v, !.at = "match_rhs"].op = f.op
             /\ [f EXCEPT !.rhs = v, !.at = "alloc"].op = f.op
  BY <1>1 DEF IntFrame, AnyFrame, Places
<1> QED
  BY <1>2, <1>3, <1>4

----------------------------------------------------------------------------
(* Every step keeps the typing. *)

\* The registers of the running call, and of a call with some registers changed.
LEMMA RunningFrame ==
    ASSUME GoodFrames(frames), frames # <<>>
    PROVE  Frame \in IntFrame
  BY TopAndPop DEF GoodFrames, Frame

LEMMA CalledKeepsTyping ==
    ASSUME HoldsInts, NEW f \in IntFrame, f.op # "increase_vector_size", Called(f)
    PROVE  HoldsInts'
<1>1. GoodFrames(frames')
  BY PushedFrame DEF HoldsInts, Called
<1> QED
  BY <1>1 DEF HoldsInts, Called

LEMMA CallKeepsTyping == ASSUME HoldsInts, Call PROVE HoldsInts'
<1> USE DEF Places, OtherFunctions, Scoped, IntArgs, MayCall
<1>1. Ints \subseteq Int /\ \A k \in DOMAIN vectors : vectors[k] \in Int
  BY DEF HoldsInts, MachineInt, MinInt
<1>2. ASSUME NEW n \in Ints, NEW m \in Ints, CallRange(n, m) PROVE HoldsInts'
  <2>1. n \in Int /\ m \in Int /\ <<n, m>> \in Seq(Int) /\ Len(<<n, m>>) = 2
    BY <1>1
  <2>2. NewFrame("vector_range", <<n, m>>, n, m, "alloc") \in IntFrame
    BY <2>1, NewFrameIsIntFrame
  <2> QED
    BY <1>2, <2>2, CalledKeepsTyping DEF CallRange, NewFrame
<1>3. ASSUME NEW k \in DOMAIN vectors, NEW x \in Ints, CallIntToVector(k, x) PROVE HoldsInts'
  <2>1. Size(vectors[k]) \in Int
    BY <1>1, LoadIsInt DEF HoldsInts
  <2>2. x \in Int /\ <<Size(vectors[k]), x>> \in Seq(Int) /\ Len(<<Size(vectors[k]), x>>) = 2
    BY <1>1, <2>1
  <2>3. NewFrame("int_to_vector", <<Size(vectors[k]), x>>, Size(vectors[k]), x, "alloc") \in IntFrame
    BY <2>1, <2>2, NewFrameIsIntFrame
  <2> QED
    BY <1>3, <2>3, CalledKeepsTyping DEF CallIntToVector, NewFrame
<1>4. ASSUME NEW op \in Ops, NEW k \in DOMAIN vectors, NEW l \in DOMAIN vectors, CallOp(op, k, l)
      PROVE  HoldsInts'
  <2>1. op \notin IntArgs /\ op # "increase_vector_size"
    BY DEF IntOps, ArithmeticOps, BooleanOps
  <2>2. k \in Int /\ l \in Int
    BY DEF HoldsInts
  <2>3. vectors[k] \in Int /\ vectors[l] \in Int /\ <<k, l>> \in Seq(Int)
    BY <1>1, <2>2
  <2>4. NewFrame(op, <<k, l>>, vectors[k], vectors[l], "match_lhs") \in IntFrame
    BY <2>1, <2>3, NewFrameIsIntFrame
  <2> QED
    BY <1>4, <2>1, <2>4, CalledKeepsTyping DEF CallOp, NewFrame
<1>5. ASSUME NEW k \in DOMAIN vectors, NEW l \in DOMAIN vectors, CallIndexVector(k, l)
      PROVE  HoldsInts'
  <2>1. k \in Int /\ l \in Int
    BY DEF HoldsInts
  <2>2. vectors[k] \in Int /\ vectors[l] \in Int /\ <<k, l>> \in Seq(Int)
    BY <1>1, <2>1
  <2>3. NewFrame("vector_index_vector", <<k, l>>, vectors[k], vectors[l], "alloc") \in IntFrame
    BY <2>2, NewFrameIsIntFrame
  <2> QED
    BY <1>5, <2>3, CalledKeepsTyping DEF CallIndexVector, NewFrame
<1>6. ASSUME NEW op \in Scoped, NEW k \in DOMAIN vectors, CallScoped(op, k) PROVE HoldsInts'
  <2>1. k \in Int
    BY DEF HoldsInts
  <2>2. vectors[k] \in Int /\ <<k>> \in Seq(Int)
    BY <1>1, <2>1
  <2>3. op \notin IntArgs /\ op # "increase_vector_size" /\ 0 \in Int
    OBVIOUS
  <2>4. NewFrame(op, <<k>>, vectors[k], 0, "alloc") \in IntFrame
    BY <2>2, <2>3, NewFrameIsIntFrame
  <2> QED
    BY <1>6, <2>4, CalledKeepsTyping DEF CallScoped, NewFrame
<1>7. ASSUME NEW k \in DOMAIN vectors, CallPrint(k) PROVE HoldsInts'
  <2> DEFINE f == NewFrame("print_vector", <<k>>, vectors[k], 0, "loop")
  <2>1. k \in Int
    BY DEF HoldsInts
  <2>2. vectors[k] \in Int /\ <<k>> \in Seq(Int)
    BY <1>1, <2>1
  <2>3. f \in IntFrame
    <3>1. "print_vector" \notin IntArgs /\ 0 \in Int /\ "print_vector" \in OtherFunctions
      OBVIOUS
    <3> QED
      BY <2>2, <3>1, NewFrameIsIntFrame
  <2>4. Size(vectors[k]) \in Int
    BY <1>1, LoadIsInt DEF HoldsInts
  <2>5. [f EXCEPT !.size = Size(vectors[k])] \in IntFrame /\ f.op = "print_vector"
    BY <2>3, <2>4 DEF IntFrame, AnyFrame, NewFrame
  <2> QED
    BY <1>7, <2>5, CalledKeepsTyping DEF CallPrint, IntFrame, AnyFrame
<1> QED
  BY <1>2, <1>3, <1>4, <1>5, <1>6, <1>7 DEF Call

\* What a loop stores is an int.
LEMMA LoopValueIsInt ==
    ASSUME HoldsInts, InLoop, Frame.op \notin Scoped \cup {"print_vector"}, ~DivisionUndefined
    PROVE  LoopValue(Frame) \in Int
<1>1. Frame \in IntFrame
  BY RunningFrame DEF HoldsInts, InLoop
<1>2. Frame \in AnyFrame /\ (Frame.op \in IntArgs => Frame.args[1] \in Int /\ Frame.args[2] \in Int)
  BY <1>1 DEF IntFrame, AnyFrame
<1>3. GoodMemory(mem)
  BY DEF HoldsInts
<1>4. CASE Frame.op = "vector_range"
  <2>1. Frame.args[1] + Frame.i \in Int
    BY <1>2, <1>4 DEF IntArgs, AnyFrame
  <2> QED
    BY <1>4, <2>1, WrapIsMachineInt DEF LoopValue, MachineInt, MinInt
<1>5. CASE Frame.op = "int_to_vector"
  BY <1>2, <1>5 DEF LoopValue, IntArgs
<1>6. CASE Frame.op = "increase_vector_size"
  <2>1. CopyValue(Frame) \in Int
    BY <1>2, <1>3, <1>6, LoadIsInt DEF CopyValue, IntArgs, AnyFrame
  <2> QED
    BY <1>6, <2>1 DEF LoopValue
<1>7. CASE Frame.op = "vector_index_vector"
  <2>1. VectorIndex(Frame.rhs, Frame.i) \in Int
    BY <1>2, <1>3, LoadIsInt DEF AnyFrame
  <2>2. VectorIndex(Frame.lhs, VectorIndex(Frame.rhs, Frame.i)) \in Int
    BY <1>2, <1>3, <2>1, LoadIsInt DEF AnyFrame
  <2> QED
    BY <1>7, <2>2 DEF LoopValue
<1>8. CASE Frame.op \in Ops
  <2>1. Element(Frame.lhs, Frame.i) \in Int /\ Element(Frame.rhs, Frame.i) \in Int
    BY <1>2, <1>3, LoadIsInt DEF AnyFrame
  <2>2. ~Undefined(Frame.op, Element(Frame.lhs, Frame.i), Element(Frame.rhs, Frame.i))
    BY <1>8 DEF DivisionUndefined
  <2>3. IntOperation(Frame.op, Element(Frame.lhs, Frame.i), Element(Frame.rhs, Frame.i)) \in Int
    BY <1>8, <2>1, <2>2, IntOperationIsInt
  <2>4. Frame.op \notin {"vector_range", "int_to_vector", "increase_vector_size", "vector_index_vector"}
    BY <1>8 DEF IntOps, ArithmeticOps, BooleanOps
  <2> QED
    BY <2>3, <2>4 DEF LoopValue
<1> QED
  BY <1>2, <1>4, <1>5, <1>6, <1>7, <1>8 DEF AnyFrame, OtherFunctions, Scoped

\* A running call whose size, element or stage of operation changes.
LEMMA SetFrameKeepsTyping ==
    ASSUME HoldsInts, frames # <<>>, NEW f \in IntFrame, f.op = Frame.op, SetFrame(f)
    PROVE  GoodFrames(frames')
  BY ReplacedTop DEF HoldsInts, SetFrame, Frame

LEMMA MatchKeepsTyping == ASSUME HoldsInts, MatchLhs \/ MatchRhs PROVE HoldsInts'
<1>1. Frame \in IntFrame /\ frames # <<>>
  BY RunningFrame DEF HoldsInts, MatchLhs, MatchRhs
<1>2. Frame.lhs \in Int /\ Frame.rhs \in Int
  BY <1>1 DEF IntFrame, AnyFrame
<1>3. Size(Frame.lhs) \in Int /\ Size(Frame.rhs) \in Int
  BY <1>2, LoadIsInt DEF HoldsInts
<1>4. ASSUME NEW size \in Int, NEW x \in Int, NEW v \in Int
      PROVE  GoodFrames(Append(frames, NewFrame("increase_vector_size", <<size, x>>, v, 0, "alloc")))
  <2>1. NewFrame("increase_vector_size", <<size, x>>, v, 0, "alloc") \in IntFrame
    <3>1. <<size, x>> \in Seq(Int) /\ Len(<<size, x>>) = 2 /\ 0 \in Int
      OBVIOUS
    <3> QED
      BY <3>1, NewFrameIsIntFrame DEF Places
  <2> QED
    BY <1>1, <2>1, PushedFrame DEF HoldsInts
<1>5. ASSUME NEW at \in Places PROVE GoodFrames(Append(Pop(frames), [Frame EXCEPT !.at = at]))
  <2>1. [Frame EXCEPT !.at = at] \in IntFrame /\ [Frame EXCEPT !.at = at].op = Frame.op
    BY <1>1 DEF IntFrame, AnyFrame
  <2> QED
    BY <1>1, <2>1, ReplacedTop DEF HoldsInts, Frame
<1>6. DefaultValue(Frame.op) \in Int
  BY DEF DefaultValue
<1>7. GoodFrames(frames')
  <2>1. CASE MatchLhs
    BY <1>2, <1>3, <1>4, <1>5, <2>1 DEF MatchLhs, Places
  <2>2. CASE MatchRhs
    BY <1>2, <1>3, <1>4, <1>5, <1>6, <2>2 DEF MatchRhs, Places
  <2> QED
    BY <2>1, <2>2
<1> QED
  BY <1>7 DEF HoldsInts, MatchLhs, MatchRhs

LEMMA ResultSizeIsInt ==
    ASSUME HoldsInts, frames # <<>>
    PROVE  ResultSize(Frame) \in Int
<1>1. Frame \in AnyFrame /\ (Frame.op \in IntArgs => Frame.args[1] \in Int /\ Frame.args[2] \in Int)
  BY RunningFrame DEF HoldsInts, IntFrame, AnyFrame
<1>2. Size(Frame.lhs) \in Int /\ Size(Frame.rhs) \in Int
  BY <1>1, LoadIsInt DEF HoldsInts, AnyFrame
<1>3. CASE Frame.op = "vector_range"
  <2>1. Wrap(Frame.args[2] - Frame.args[1]) \in Int
    <3>1. Frame.args[2] - Frame.args[1] \in Int
      BY <1>1, <1>3 DEF IntArgs
    <3> QED
      BY <3>1, WrapIsMachineInt DEF MachineInt, MinInt
  <2>2. Wrap(Wrap(Frame.args[2] - Frame.args[1]) + 1) \in Int
    BY <2>1, WrapIsMachineInt DEF MachineInt, MinInt
  <2> QED
    BY <1>3, <2>2 DEF ResultSize
<1>4. CASE Frame.op \in {"int_to_vector", "increase_vector_size"}
  BY <1>1, <1>4 DEF ResultSize, IntArgs
<1>5. CASE Frame.op \notin IntArgs
  BY <1>2, <1>5 DEF ResultSize, IntArgs
<1> QED
  BY <1>3, <1>4, <1>5 DEF IntArgs

\* What an allocation makes of brk, and of memory.
LEMMA AllocateEffect ==
    ASSUME HoldsInts, Allocated, Allocate
    PROVE  /\ HoldsInts'
           /\ \E a \in Allocation :
                 /\ allocs' = Append(allocs, a)
                 /\ a.addr >= brk /\ a.array >= a.addr + MinBlock
                 /\ brk' = a.array + Maximum(MinBlock, ArrayWords(a.size))
<1> DEFINE size  == ResultSize(Frame)
           first == FirstSize(Frame)
<1>1. frames # <<>> /\ size \in Int /\ first \in Int
  BY ResultSizeIsInt DEF Allocate, FirstSize
<1>2. PICK g \in Gaps, h \in Gaps :
        LET v     == brk + g
            array == v + MinBlock + h
        IN  /\ mem' = Stored(Stored(Stored(mem, v + 4, Pointer), v + 5, Pointer), v, first)
            /\ brk' = array + Maximum(MinBlock, ArrayWords(size))
            /\ allocs' = Append(allocs, [addr |-> v, array |-> array, size |-> size])
            /\ SetFrame([Frame EXCEPT !.dst = v, !.size = size, !.i = 0, !.at = "loop"])
  BY DEF Allocate, GenerateVectorTypePtr
<1> DEFINE v == brk + g
           array == v + MinBlock + h
           f == [Frame EXCEPT !.dst = v, !.size = size, !.i = 0, !.at = "loop"]
<1>3. v \in Nat /\ array \in Nat /\ v >= brk /\ array >= v + MinBlock
  BY DEF Allocated
<1>4. GoodMemory(mem')
  <2>1. Pointer \in Int
    BY DEF Pointer
  <2>2. GoodMemory(Stored(mem, v + 4, Pointer))
    BY <1>3, <2>1, StoredIsGood DEF HoldsInts
  <2>3. GoodMemory(Stored(Stored(mem, v + 4, Pointer), v + 5, Pointer))
    BY <1>3, <2>1, <2>2, StoredIsGood
  <2> HIDE DEF first
  <2> QED
    BY <1>1, <1>2, <1>3, <2>3, StoredIsGood
<1>5. GoodFrames(frames')
  <2>1. Frame \in IntFrame
    BY <1>1, RunningFrame DEF HoldsInts
  <2> HIDE DEF size
  <2>2. f \in IntFrame /\ f.op = Frame.op
    BY <1>1, <1>3, <2>1 DEF IntFrame, AnyFrame, Places
  <2> HIDE DEF f
  <2> QED
    BY <1>1, <1>2, <2>2, SetFrameKeepsTyping DEF f, v, size
<1>6. HoldsInts'
  BY <1>4, <1>5 DEF Allocate, HoldsInts
<1> HIDE DEF size
<1>7. [addr |-> v, array |-> array, size |-> size] \in Allocation
  BY <1>1, <1>3 DEF Allocation
<1> QED
  BY <1>1, <1>2, <1>3, <1>6, <1>7

LEMMA LoopKeepsTyping == ASSUME HoldsInts, Iterate \/ EnterBody \/ PrintElement PROVE HoldsInts'
<1>1. Frame \in IntFrame /\ frames # <<>>
  BY RunningFrame DEF HoldsInts, Iterate, EnterBody, PrintElement, InLoop
<1>2. Frame.i \in Nat /\ Frame.dst \in Nat /\ Frame.lhs \in Int
  BY <1>1 DEF IntFrame, AnyFrame
<1>3. ASSUME Incremented PROVE GoodFrames(frames')
  <2> DEFINE f == [Frame EXCEPT !.i = @ + 1]
  <2>1. f \in IntFrame /\ f.op = Frame.op
    BY <1>1, ChangedFrame
  <2>2. SetFrame(f)
    BY <1>3 DEF Incremented
  <2> HIDE DEF f
  <2> QED
    BY <1>1, <2>1, <2>2, SetFrameKeepsTyping
<1>4. CASE Iterate
  <2>1. LoopValue(Frame) \in Int /\ ElementAddr(Frame.dst, Frame.i) \in Int
    BY <1>2, <1>4, LoopValueIsInt DEF Iterate, ElementAddr
  <2>2. GoodMemory(mem')
    BY <1>4, <2>1, StoredIsGood DEF Iterate, Store, HoldsInts
  <2> QED
    BY <1>3, <1>4, <2>2 DEF Iterate, HoldsInts
<1>5. CASE EnterBody
  <2> DEFINE elem == VectorIndex(Frame.lhs, Frame.i)
             f == [Frame EXCEPT !.at = "body", !.elem = elem]
  <2>1. elem \in Int
    <3>1. GoodMemory(mem) /\ Frame.i \in Int
      BY <1>2 DEF HoldsInts
    <3> QED
      BY <1>2, <3>1, LoadIsInt
  <2> HIDE DEF elem
  <2>2. f \in IntFrame /\ f.op = Frame.op
    BY <1>1, <2>1 DEF IntFrame, AnyFrame, Places
  <2>3. SetFrame(f)
    BY <1>5 DEF EnterBody, elem
  <2> HIDE DEF f
  <2>4. GoodFrames(frames')
    BY <1>1, <2>2, <2>3, SetFrameKeepsTyping
  <2> QED
    BY <1>5, <2>4 DEF EnterBody, HoldsInts
<1>6. CASE PrintElement
  BY <1>3, <1>6 DEF PrintElement, HoldsInts
<1> QED
  BY <1>4, <1>5, <1>6

LEMMA BodyKeepsTyping == ASSUME HoldsInts, Body PROVE HoldsInts'
<1>1. PICK x \in Ints : GeneratorBody(x) \/ FilterBody(x)
  BY DEF Body
<1>2. x \in Int
  BY DEF MachineInt, MinInt
<1>3. Frame \in IntFrame /\ frames # <<>>
  BY <1>1, RunningFrame DEF HoldsInts, GeneratorBody, FilterBody, InScopedBody
<1>4. Frame.i \in Nat /\ Frame.dst \in Nat /\ Frame.elem \in Int
  BY <1>3 DEF IntFrame, AnyFrame
<1>5. GoodFrames(frames')
  <2> DEFINE f == [Frame EXCEPT !.i = @ + 1, !.at = "loop", !.body = Append(@, x)]
  <2>1. f \in IntFrame /\ f.op = Frame.op
    BY <1>2, <1>3, ChangedFrame
  <2>2. SetFrame(f)
    BY <1>1 DEF GeneratorBody, FilterBody, NextElement
  <2> HIDE DEF f
  <2> QED
    BY <1>3, <2>1, <2>2, SetFrameKeepsTyping
<1>6. GoodMemory(mem')
  <2>1. CASE GeneratorBody(x)
    <3>1. ElementAddr(Frame.dst, Frame.i) \in Int
      BY <1>4 DEF ElementAddr
    <3> QED
      BY <1>2, <2>1, <3>1, StoredIsGood DEF GeneratorBody, Store, HoldsInts
  <2>2. CASE FilterBody(x)
    <3> DEFINE size == Size(Frame.dst)
               kept == Stored(mem, ElementAddr(Frame.dst, size), Frame.elem)
    <3>1. size \in Int
      <4>1. GoodMemory(mem) /\ Frame.dst \in Int
        BY <1>4 DEF HoldsInts
      <4> QED
        BY <4>1, LoadIsInt
    <3>2. ElementAddr(Frame.dst, size) \in Int /\ Wrap(size + 1) \in Int
      BY <1>4, <3>1, WrapIsMachineInt DEF ElementAddr, MachineInt, MinInt
    <3>3. GoodMemory(kept)
      BY <1>4, <3>2, StoredIsGood DEF HoldsInts
    <3> HIDE DEF kept
    <3>4. GoodMemory(Stored(kept, Frame.dst, Wrap(size + 1)))
      BY <1>4, <3>2, <3>3, StoredIsGood
    <3> QED
      BY <2>2, <3>4 DEF FilterBody, HoldsInts, kept
  <2> QED
    BY <1>1, <2>1, <2>2
<1> QED
  BY <1>1, <1>5, <1>6 DEF GeneratorBody, FilterBody, HoldsInts

LEMMA ReturnKeepsTyping ==
    ASSUME HoldsInts, Return \/ ReturnIncreased \/ ReturnPrinted
    PROVE  HoldsInts'
<1>1. Frame \in IntFrame /\ frames # <<>>
  BY RunningFrame DEF HoldsInts, Return, ReturnIncreased, ReturnPrinted, LoopDone
<1>2. Frame.dst \in Nat /\ GoodFrames(Pop(frames))
  BY <1>1, PoppedFrame DEF HoldsInts, IntFrame, AnyFrame
<1>3. CASE Return
  BY <1>2, <1>3 DEF Return, HoldsInts
<1>4. CASE ReturnPrinted
  BY <1>2, <1>4 DEF ReturnPrinted, HoldsInts
<1>5. CASE ReturnIncreased
  <2> DEFINE below == Pop(frames)
             caller == Top(below)
  <2>1. below # <<>>
    <3>1. Frame.op = "increase_vector_size" /\ frames[1].op # "increase_vector_size"
      BY <1>1, <1>5 DEF ReturnIncreased, HoldsInts, GoodFrames
    <3>2. Len(frames) # 1
      BY <1>1, <3>1 DEF Frame, Top
    <3>3. frames \in Seq(IntFrame)
      BY DEF HoldsInts, GoodFrames
    <3>4. Len(frames) \in Nat \ {0} /\ Len(Pop(frames)) = Len(frames) - 1
      BY <1>1, <3>3, TopAndPop
    <3>5. Len(Pop(frames)) # 0
      BY <3>2, <3>4
    <3> QED
      BY <3>5
  <2>2. caller \in IntFrame
    BY <1>2, <2>1, TopAndPop DEF GoodFrames
  <2>3. Resume(caller) \in IntFrame /\ Resume(caller).op = caller.op
    <3> HIDE DEF caller
    <3>1. Frame.dst \in Int
      BY <1>2
    <3> QED
      BY <2>2, <3>1, ChangedFrame DEF Resume
  <2>4. GoodFrames(Append(Pop(below), Resume(caller)))
    BY <1>2, <2>1, <2>3, ReplacedTop
  <2> QED
    BY <1>5, <2>4 DEF ReturnIncreased, HoldsInts
<1> QED
  BY <1>3, <1>4, <1>5

----------------------------------------------------------------------------
(* The blocks. *)

\* Where the byte count of GenerateVectorTypePtr does not wrap the array has a word for
\* each element (BackEnd.cpp:542-548).
LEMMA ArrayIsLargeEnough ==
    ASSUME NEW size \in Int
    PROVE  ArrayWords(size) \in Nat /\ (size >= 0 /\ Fits(size) => ArrayWords(size) = size)
<1> DEFINE w == 2 * (MaxInt + 1)
<1>1. w \in Nat /\ w > 0
  OBVIOUS
<1>2. (4 * size) % w \in 0..(w - 1)
  BY <1>1
<1>3. ArrayWords(size) \in Nat
  BY <1>2 DEF ArrayWords
<1>4. ASSUME size >= 0, Fits(size) PROVE ArrayWords(size) = size
  <2>1. 4 * size \in 0..(w - 1)
    BY <1>4 DEF Fits
  <2>2. (4 * size) % w = 4 * size
    BY <1>1, <2>1
  <2>3. (4 * size) \div 4 = size
    BY <1>4
  <2> QED
    BY <2>2, <2>3 DEF ArrayWords
<1> QED
  BY <1>3, <1>4

LEMMA AllocateKeepsTyping == ASSUME TypedInv, Allocate PROVE TypedInv'
<1>1. PICK a \in Allocation :
        /\ allocs' = Append(allocs, a)
        /\ brk' = a.array + Maximum(MinBlock, ArrayWords(a.size))
  BY AllocateEffect DEF TypedInv
<1>2. a.array \in Nat /\ a.size \in Int
  BY DEF Allocation
<1>3. brk' \in Nat
  <2>1. ArrayWords(a.size) \in Nat
    BY <1>2, ArrayIsLargeEnough
  <2> QED
    BY <1>1, <1>2, <2>1 DEF Maximum
<1> QED
  BY <1>1, <1>3, AllocateEffect DEF TypedInv, Allocated

\* A new vector is behind all others and ends before the next free word.
LEMMA AllocateKeepsDisjoint ==
    ASSUME DisjointInv, Allocate, BytesFit'
    PROVE  Allocated' /\ VectorsDisjoint'
<1>1. PICK a \in Allocation :
        /\ allocs' = Append(allocs, a)
        /\ a.addr >= brk /\ a.array >= a.addr + MinBlock
        /\ brk' = a.array + Maximum(MinBlock, ArrayWords(a.size))
  BY AllocateEffect DEF DisjointInv
<1>2. a.addr \in Nat /\ a.array \in Nat /\ a.size \in Int
  BY DEF Allocation
<1>3. ArrayWords(a.size) \in Nat /\ (a.size >= 0 => ArrayWords(a.size) = a.size)
  <2>1. Len(allocs) + 1 \in DOMAIN allocs' /\ allocs'[Len(allocs) + 1] = a
    BY <1>1 DEF DisjointInv, Allocated
  <2>2. Fits(a.size)
    BY <2>1 DEF BytesFit, Fits
  <2> QED
    BY <1>2, <2>2, ArrayIsLargeEnough
<1>4. LastWord(a) < brk' /\ brk <= a.addr /\ a.addr < brk' /\ brk' \in Nat
  <2>1. Maximum(MinBlock, ArrayWords(a.size)) \in Nat
    BY <1>3 DEF Maximum
  <2>2. Maximum(MinBlock, ArrayWords(a.size)) >= MinBlock
    BY <1>3 DEF Maximum
  <2>3. brk' >= a.addr + MinBlock + Maximum(MinBlock, ArrayWords(a.size)) /\ brk' \in Nat
    BY <1>1, <1>2, <2>1
  <2>4. CASE a.size <= 5
    <3>1. LastWord(a) = a.addr + 5
      BY <1>2, <2>4 DEF LastWord, Maximum
    <3> QED
      BY <1>1, <1>2, <2>1, <2>2, <2>3, <3>1 DEF DisjointInv, Allocated
  <2>5. CASE a.size > 5
    <3>1. LastWord(a) = a.addr + a.size
      BY <1>2, <2>5 DEF LastWord, Maximum
    <3>2. Maximum(MinBlock, ArrayWords(a.size)) >= a.size
      BY <1>2, <1>3, <2>5 DEF Maximum
    <3> QED
      BY <1>1, <1>2, <2>1, <2>2, <2>3, <3>1, <3>2 DEF DisjointInv, Allocated
  <2> QED
    BY <1>2, <2>4, <2>5
<1>5. Allocated'
  BY <1>1, <1>4 DEF DisjointInv, Allocated
<1>6. DOMAIN allocs' = 1..(Len(allocs) + 1) /\ Len(allocs) \in Nat
  BY <1>1 DEF DisjointInv, Allocated
<1>7. \A k \in DOMAIN allocs : allocs'[k] = allocs[k] /\ LastWord(allocs[k]) \in Int
  <2> SUFFICES ASSUME NEW k \in DOMAIN allocs
               PROVE  allocs'[k] = allocs[k] /\ LastWord(allocs[k]) \in Int
    OBVIOUS
  <2>1. allocs \in Seq(Allocation)
    BY DEF DisjointInv, Allocated
  <2>2. allocs'[k] = allocs[k] /\ allocs[k] \in Allocation
    BY <1>1, <2>1
  <2>3. allocs[k].addr \in Int /\ allocs[k].size \in Int
    BY <2>2 DEF Allocation
  <2> QED
    BY <2>2, <2>3 DEF LastWord, Maximum
<1>8. allocs'[Len(allocs) + 1] = a
  BY <1>1 DEF DisjointInv, Allocated
<1>9. DOMAIN allocs = 1..Len(allocs)
  BY DEF DisjointInv, Allocated
<1>10. \A k \in DOMAIN allocs : LastWord(allocs[k]) < brk
  BY DEF DisjointInv, VectorsDisjoint
<1>11. LastWord(a) \in Int /\ brk \in Nat
  BY <1>2 DEF LastWord, Maximum, DisjointInv, Allocated
<1>12. \A k \in DOMAIN allocs' : LastWord(allocs'[k]) < brk'
  BY <1>4, <1>6, <1>7, <1>8, <1>9, <1>10, <1>11, <1>2
<1>13. ASSUME NEW k \in DOMAIN allocs', NEW l \in DOMAIN allocs', k < l
       PROVE  LastWord(allocs'[k]) < allocs'[l].addr
  <2>1. k \in DOMAIN allocs
    BY <1>6, <1>9, <1>13
  <2>2. CASE l = Len(allocs) + 1
    BY <1>2, <1>4, <1>7, <1>8, <1>10, <1>11, <2>1, <2>2
  <2>3. CASE l \in DOMAIN allocs
    BY <1>7, <1>13, <2>1, <2>3 DEF DisjointInv, VectorsDisjoint
  <2> QED
    BY <1>6, <1>9, <2>2, <2>3
<1> QED
  BY <1>5, <1>12, <1>13 DEF VectorsDisjoint, LastWord

----------------------------------------------------------------------------
\* DisjointInv is inductive.
LEMMA DisjointInvInit == Init => DisjointInv
<1> SUFFICES ASSUME Init PROVE DisjointInv
  OBVIOUS
<1>1. GoodMemory(mem) /\ GoodFrames(frames) /\ vectors \in Seq(Nat)
  BY DEF Init, GoodMemory, GoodFrames
<1>2. Allocated /\ VectorsDisjoint
  BY DEF Init, Allocated, VectorsDisjoint
<1> QED
  BY <1>1, <1>2 DEF DisjointInv, HoldsInts

\* What a step other than Allocate leaves alone.
LEMMA TypedStep ==
    ASSUME TypedInv, [Next \/ (Stopped /\ UNCHANGED vars)]_vars
    PROVE  TypedInv' /\ (Allocate \/ UNCHANGED <<brk, allocs>>)
<1>1. HoldsInts
  BY DEF TypedInv
<1>2. ASSUME HoldsInts', UNCHANGED <<brk, allocs>> PROVE TypedInv'
  BY <1>2 DEF TypedInv, Allocated
<1>3. CASE Call
  <2>1. UNCHANGED <<brk, allocs>>
    BY <1>3 DEF Call, CallRange, CallIntToVector, CallOp, CallIndexVector, CallScoped,
                CallPrint, Called
  <2> QED
    BY <1>1, <1>2, <1>3, <2>1, CallKeepsTyping
<1>4. CASE MatchLhs \/ MatchRhs
  BY <1>1, <1>2, <1>4, MatchKeepsTyping DEF MatchLhs, MatchRhs
<1>5. CASE Allocate
  BY <1>5, AllocateKeepsTyping
<1>6. CASE Iterate \/ EnterBody \/ PrintElement
  BY <1>1, <1>2, <1>6, LoopKeepsTyping DEF Iterate, EnterBody, PrintElement
<1>7. CASE Body
  <2>1. UNCHANGED <<brk, allocs>>
    BY <1>7 DEF Body, GeneratorBody, FilterBody
  <2> QED
    BY <1>1, <1>2, <1>7, <2>1, BodyKeepsTyping
<1>8. CASE Return \/ ReturnIncreased \/ ReturnPrinted
  BY <1>1, <1>2, <1>8, ReturnKeepsTyping DEF Return, ReturnIncreased, ReturnPrinted
<1>9. CASE UNCHANGED vars
  <2>1. HoldsInts'
    BY <1>1, <1>9 DEF vars, HoldsInts, GoodFrames, GoodMemory
  <2> QED
    BY <1>2, <1>9, <2>1 DEF vars
<1> QED
  BY <1>3, <1>4, <1>5, <1>6, <1>7, <1>8, <1>9 DEF Next

\* Allocations are never forgotten: byte counts that fit after a step did before.
LEMMA FittedBefore ==
    ASSUME TypedInv, [Next \/ (Stopped /\ UNCHANGED vars)]_vars, BytesFit'
    PROVE  BytesFit
<1>1. CASE Allocate
  <2>1. PICK a \in Allocation : allocs' = Append(allocs, a)
    BY <1>1, AllocateEffect DEF TypedInv
  <2>2. allocs \in Seq(Allocation)
    BY DEF TypedInv, Allocated
  <2>3. \A k \in DOMAIN allocs : k \in DOMAIN allocs' /\ allocs'[k] = allocs[k]
    BY <2>1, <2>2
  <2> QED
    BY <2>3 DEF BytesFit, Fits
<1>2. CASE UNCHANGED <<brk, allocs>>
  BY <1>2 DEF BytesFit, Fits
<1> QED
  BY <1>1, <1>2, TypedStep

LEMMA DisjointInvStep ==
    ASSUME DisjointInv, [Next \/ (Stopped /\ UNCHANGED vars)]_vars, BytesFit'
    PROVE  DisjointInv'
<1>1. TypedInv /\ TypedInv'
  BY TypedStep DEF DisjointInv, TypedInv
<1>2. CASE Allocate
  BY <1>1, <1>2, AllocateKeepsDisjoint DEF DisjointInv, TypedInv
<1>3. CASE UNCHANGED <<brk, allocs>>
  BY <1>1, <1>3 DEF DisjointInv, TypedInv, VectorsDisjoint, LastWord
<1> QED
  BY <1>1, <1>2, <1>3, TypedStep

LEMMA TypedInvInit == Init => TypedInv
  BY DisjointInvInit DEF DisjointInv, TypedInv

LEMMA DisjointWhileBytesFit ==
    /\ TypedInv /\ (BytesFit => DisjointInv) /\ [Next \/ (Stopped /\ UNCHANGED vars)]_vars
          => (TypedInv /\ (BytesFit => DisjointInv))'
    /\ Init => TypedInv /\ (BytesFit => DisjointInv)
  BY TypedInvInit, DisjointInvInit, TypedStep, FittedBefore, DisjointInvStep

\* The words of different vectors never overlap, and malloc's next block is behind
\* all of them, until a byte count wraps (GenerateVectorTypePtr, BackEnd.cpp:531-558).
THEOREM VectorsAreDisjoint == RuntimeSpec => [](BytesFit => VectorsDisjoint)
<1>1. DisjointInv => VectorsDisjoint
  BY DEF DisjointInv
<1> QED
  BY <1>1, DisjointWhileBytesFit, PTL DEF RuntimeSpec


----------------------------------------------------------------------------
(***************************************************************************)
(* Who owns a vector.  Every vector that was allocated is either being     *)
(* built, by the one call whose dst it is, or complete.  The program and   *)
(* the operand registers of the calls hold complete vectors only, and a    *)
(* step stores only into the vector that the running call builds, or       *)
(* behind malloc's next free word.  What a call knows of its operands      *)
(* therefore stays true while the calls of its body run.                   *)
(*                                                                         *)
(* The parts of the invariant take memory, m, the allocations S and the    *)
(* complete vectors G among them as arguments, so that a lemma can relate  *)
(* the values before a step to those after it.                             *)
(***************************************************************************)
Word(m, a) == IF a \in DOMAIN m THEN m[a] ELSE Junk
Allocations == {allocs[k] : k \in DOMAIN allocs}
Wraps(S) == \E a \in S : a.size = MinInt
LoadedFrom(S) == IF Wraps(S) THEN Int ELSE MachineInt
IsVector(G, v) == \E a \in G : a.addr = v

\* The first n elements of v were stored.
Holds(m, S, v, n) == ~Wraps(S) => \A i \in 0..(n - 1) : Word(m, v + 1 + i) \in MachineInt

\* The size is the one that was allocated, or a filter counted the elements.
Complete(m, S, a) ==
    /\ Word(m, a.addr) \in {a.size} \cup 0..Maximum(0, a.size)
    /\ Holds(m, S, a.addr, Word(m, a.addr))

\* The operands of a call are complete vectors.
WithLhs == Ops \cup Scoped \cup {"vector_index_vector", "print_vector", "increase_vector_size"}
WithRhs == Ops \cup {"vector_index_vector"}
OperandsOK(G, f) ==
    /\ f.op \in WithLhs => IsVector(G, f.lhs)
    /\ f.op \in WithRhs => IsVector(G, f.rhs)

\* Where a call is and what it knows of the sizes of its operands.
StageOK(m, f) ==
    /\ f.at \in {"match_lhs", "match_rhs"} => f.op \in Ops
    /\ f.at = "body" => f.op \in Scoped
    /\ f.op = "print_vector" => f.at = "loop"
    /\ f.at = "match_rhs" => Word(m, f.rhs) <= Word(m, f.lhs)
    /\ f.op \in Ops /\ f.at \in {"alloc", "loop"} => Word(m, f.lhs) = Word(m, f.rhs)
    /\ f.at \in {"loop", "body"} =>
          /\ f.op \in Ops \cup Scoped \cup {"print_vector"} => f.size = Word(m, f.lhs)
          /\ f.op = "vector_index_vector" => f.size = Word(m, f.rhs)
          /\ f.op = "increase_vector_size" => f.size = f.args[1]

\* The vector a call is building: how much of it is there.
Building(f) == f.at \in {"loop", "body"} /\ f.op # "print_vector"
Filled(m, f) == IF f.op = "filter" THEN Word(m, f.dst) ELSE f.i
BuildsOK(m, S, f) ==
    /\ \E a \in S : a.addr = f.dst /\ a.size = f.size
    /\ f.i <= Maximum(0, f.size)
    /\ f.at = "body" => f.i < f.size
    /\ Word(m, f.dst) \in IF f.op = "filter" THEN 0..f.i ELSE {f.size}
    /\ Holds(m, S, f.dst, Filled(m, f))

\* The registers.
RegistersOK(S, f) ==
    /\ f.size \in MachineInt /\ f.elem \in LoadedFrom(S) /\ f.body \in Seq(MachineInt)
    /\ f.op \in IntArgs => f.args[1] \in MachineInt /\ f.args[2] \in MachineInt

FrameOK(m, S, G, f) ==
    /\ OperandsOK(G, f)
    /\ StageOK(m, f)
    /\ IF Building(f) THEN BuildsOK(m, S, f) ELSE f.dst = 0
    /\ RegistersOK(S, f)

\* A call and its caller: the program calls from a body, and an operation that
\* extends an operand waits for it with the size of the other one.
CalledBy(m, caller, f) ==
    IF f.op = "increase_vector_size"
    THEN \/ caller.at = "match_lhs" /\ f.args[1] = Word(m, caller.rhs)
         \/ caller.at = "match_rhs" /\ f.args[1] = Word(m, caller.lhs)
    ELSE caller.at = "body"

StackOK(m, S, G, fs) ==
    /\ \A j \in DOMAIN fs : FrameOK(m, S, G, fs[j])
    /\ \A j \in DOMAIN fs : j > 1 => CalledBy(m, fs[j - 1], fs[j])
    /\ \A j, k \in DOMAIN fs : j < k /\ fs[k].dst # 0 => fs[j].dst # fs[k].dst
    /\ \A a \in G : \A j \in DOMAIN fs : fs[j].dst # a.addr

Owned(m, S, G, fs, vs) ==
    /\ G \subseteq S
    /\ \A a \in G : Complete(m, S, a)
    /\ \A k \in DOMAIN vs : IsVector(G, vs[k])
    /\ StackOK(m, S, G, fs)

\* The blocks: none is at address 0, and two do not overlap.
BlocksOK(S, b) ==
    /\ b \in Nat /\ b > 0
    /\ \A a \in S : a.addr \in Nat /\ a.addr > 0 /\ a.size \in MachineInt /\ LastWord(a) < b
    /\ \A a, c \in S : a = c \/ LastWord(a) < c.addr \/ LastWord(c) < a.addr

WordsOK(m, S) ==
    /\ DOMAIN m \subseteq Nat
    /\ \A w \in DOMAIN m : m[w] \in LoadedFrom(S) \cup {Pointer}

LinesOK(S, l, o) == l \in Seq(LoadedFrom(S) \cup {Space}) /\ o \in Seq(Seq(LoadedFrom(S) \cup {Space}))

OwnedInv == \E G \in SUBSET Allocations : Owned(mem, Allocations, G, frames, vectors)

OwnerInv ==
    /\ DisjointInv
    /\ BlocksOK(Allocations, brk)
    /\ WordsOK(mem, Allocations)
    /\ LinesOK(Allocations, line, out)
    /\ calls \in 0..MaxCalls
    /\ OwnedInv

\* The words of the vectors in S, but for the one at address d, are the same.
Same(m, m2, S, d) ==
    \A a \in S : a.addr # d =>
        \A w \in a.addr..(a.addr + Maximum(0, a.size)) : Word(m2, w) = Word(m, w)

\* A step that changes no vector of S but the one at d, which is not complete.
Elsewhere(m, m2, S, S2, b, G, G2, d) ==
    /\ S \subseteq S2 /\ BlocksOK(S, b)
    /\ G \subseteq S /\ G \subseteq G2
    /\ Same(m, m2, S, d) /\ \A a \in G : a.addr # d

----------------------------------------------------------------------------
(* Words. *)

LEMMA WordStored ==
    ASSUME NEW m, NEW a, NEW x, NEW b
    PROVE  Word(Stored(m, a, x), b) = IF b = a THEN x ELSE Word(m, b)
  BY DEF Word, Stored

LEMMA WordIsInt ==
    ASSUME NEW m, NEW S, WordsOK(m, S), NEW a
    PROVE  Word(m, a) \in Int
  BY DEF Word, WordsOK, LoadedFrom, MachineInt, MinInt, Junk, Pointer

\* What may be loaded only grows with the allocations.
LEMMA LoadedGrows ==
    ASSUME NEW S, NEW S2, S \subseteq S2
    PROVE  /\ MachineInt \subseteq LoadedFrom(S)
           /\ LoadedFrom(S) \subseteq LoadedFrom(S2)
           /\ LoadedFrom(S2) \subseteq Int
           /\ \A m, v, n : Holds(m, S, v, n) => Holds(m, S2, v, n)
  BY DEF LoadedFrom, Wraps, Holds, MachineInt, MinInt

LEMMA StoredWordsOK ==
    ASSUME NEW m, NEW S, NEW S2, WordsOK(m, S), S \subseteq S2,
           NEW a \in Nat, NEW x \in LoadedFrom(S2) \cup {Pointer}
    PROVE  WordsOK(Stored(m, a, x), S2)
<1>1. LoadedFrom(S) \subseteq LoadedFrom(S2)
  BY LoadedGrows
<1> QED
  BY <1>1 DEF WordsOK, Stored

\* Wrap changes no int.
LEMMA WrapOfInt == ASSUME NEW x \in MachineInt PROVE Wrap(x) = x
<1> DEFINE w == 2 * (MaxInt + 1)
<1>1. x + MaxInt + 1 \in 0..(w - 1) /\ x \in Int /\ w \in Nat /\ w > 0
  BY DEF MachineInt, MinInt
<1>2. (x + MaxInt + 1) % w = x + MaxInt + 1
  BY <1>1
<1> QED
  BY <1>1, <1>2 DEF Wrap

\* An operation on ints that has a result returns an int of the machine.
LEMMA IntOperationInRange ==
    ASSUME NEW op \in IntOps, NEW x \in MachineInt, NEW y \in MachineInt, ~Undefined(op, x, y)
    PROVE  IntOperation(op, x, y) \in MachineInt
<1>1. x \in Int /\ y \in Int
  BY DEF MachineInt, MinInt
<1>2. CASE op = "div"
  <2>1. y # 0 /\ ~(x = MinInt /\ y = -1)
    BY <1>2 DEF Undefined
  <2> DEFINE n == Abs(x)
             d == Abs(y)
             q == n \div d
  <2>2. n \in 0..(MaxInt + 1) /\ d \in Nat /\ d > 0 /\ (n = MaxInt + 1 => x = MinInt)
    BY <1>1, <2>1 DEF Abs, MachineInt, MinInt
  <2>3. q \in Nat /\ q <= n /\ (d > 1 /\ n > 0 => q < n)
    <3> HIDE DEF n, d
    <3>1. n \in Nat
      BY <2>2
    <3>2. q \in Nat
      BY <2>2, <3>1
    <3>3. q * d <= n
      BY <2>2, <3>1
    <3>4. q <= q * d
      BY <2>2, <3>2
    <3>5. d > 1 /\ q > 0 => q < q * d
      BY <2>2, <3>2
    <3> HIDE DEF q
    <3>6. q * d \in Int
      BY <2>2, <3>2
    <3>7. q <= n
      BY <3>1, <3>2, <3>3, <3>4, <3>6
    <3>8. d > 1 /\ n > 0 => q < n
      BY <3>1, <3>2, <3>3, <3>5, <3>6
    <3> QED
      BY <3>2, <3>7, <3>8
  <2>4. IntOperation(op, x, y) = IF (x < 0) = (y < 0) THEN q ELSE -q
    BY <1>2 DEF IntOperation, Quotient
  <2>5. (x < 0) = (y < 0) => q <= MaxInt
    <3>1. n = MaxInt + 1 /\ (x < 0) = (y < 0) => d > 1
      BY <1>1, <2>1, <2>2 DEF Abs, MinInt
    <3> HIDE DEF n, d, q
    <3> QED
      BY <2>2, <2>3, <3>1
  <2> HIDE DEF n, d, q
  <2>6. (IF (x < 0) = (y < 0) THEN q ELSE -q) \in MachineInt
    BY <2>2, <2>3, <2>5 DEF MachineInt, MinInt
  <2> QED
    BY <2>4, <2>6
<1>3. CASE op \in {"add", "sub", "mul"}
  <2>1. x + y \in Int /\ x - y \in Int /\ x * y \in Int
    BY <1>1
  <2>2. Wrap(x + y) \in MachineInt /\ Wrap(x - y) \in MachineInt /\ Wrap(x * y) \in MachineInt
    BY <2>1, WrapIsMachineInt
  <2> QED
    BY <1>3, <2>2 DEF IntOperation
<1>4. CASE op \in BooleanOps
  <2>1. 0 \in MachineInt /\ 1 \in MachineInt
    BY DEF MachineInt, MinInt
  <2> QED
    BY <1>4, <2>1 DEF IntOperation, BooleanOps, BoolToInt
<1> QED
  BY <1>2, <1>3, <1>4 DEF IntOps, ArithmeticOps

----------------------------------------------------------------------------
(* Complete vectors. *)

\* What loading from a complete vector yields: its size is an int, and an index the
\* vector function vector_index accepts, or a loop below the size, gets an element.
LEMMA CompleteVector ==
    ASSUME NEW m, NEW S, NEW a \in S, NEW b, BlocksOK(S, b), WordsOK(m, S), Complete(m, S, a)
    PROVE  /\ a.addr \in Nat /\ a.addr > 0
           /\ Word(m, a.addr) \in MachineInt
           /\ Word(m, a.addr) <= Maximum(0, a.size)
           /\ ~Wraps(S) => Word(m, a.addr) # MinInt
           /\ \A i \in 0..(Word(m, a.addr) - 1) : Word(m, a.addr + 1 + i) \in LoadedFrom(S)
<1>1. a.addr \in Nat /\ a.addr > 0 /\ a.size \in MachineInt
  BY DEF BlocksOK
<1>2. Word(m, a.addr) \in {a.size} \cup 0..Maximum(0, a.size)
  BY DEF Complete
<1>3. Word(m, a.addr) \in MachineInt /\ Word(m, a.addr) <= Maximum(0, a.size)
  BY <1>1, <1>2 DEF MachineInt, MinInt, Maximum
<1>4. ~Wraps(S) => Word(m, a.addr) # MinInt
  BY <1>1, <1>2 DEF Wraps, MachineInt, MinInt, Maximum
<1>5. \A i \in 0..(Word(m, a.addr) - 1) : Word(m, a.addr + 1 + i) \in LoadedFrom(S)
  <2>1. CASE Wraps(S)
    BY <2>1, WordIsInt DEF LoadedFrom
  <2>2. CASE ~Wraps(S)
    BY <2>2 DEF Complete, Holds, LoadedFrom
  <2> QED
    BY <2>1, <2>2
<1> QED
  BY <1>1, <1>3, <1>4, <1>5

LEMMA IndexOfComplete ==
    ASSUME NEW S, NEW a \in S, NEW b, BlocksOK(S, b), WordsOK(mem, S), Complete(mem, S, a),
           NEW i \in Int
    PROVE  VectorIndex(a.addr, i) \in LoadedFrom(S)
<1> DEFINE n == Word(mem, a.addr)
<1>1. n \in MachineInt /\ (~Wraps(S) => n # MinInt)
      /\ \A j \in 0..(n - 1) : Word(mem, a.addr + 1 + j) \in LoadedFrom(S)
  BY CompleteVector
<1>2. Size(a.addr) = n /\ Element(a.addr, i) = Word(mem, a.addr + 1 + i)
  BY DEF Size, Load, Word, Element, ElementAddr
<1>3. CASE Wraps(S)
  BY <1>2, <1>3, WordIsInt DEF LoadedFrom, VectorIndex
<1>4. CASE ~Wraps(S)
  <2> HIDE DEF n
  <2>1. n \in Int /\ n - 1 \in MachineInt /\ 0 \in MachineInt
    BY <1>1, <1>4 DEF MachineInt, MinInt
  <2>2. Wrap(n - 1) = n - 1
    BY <2>1, WrapOfInt
  <2>3. ~(i < 0 \/ n - 1 < i) => Word(mem, a.addr + 1 + i) \in LoadedFrom(S)
    BY <1>1, <2>1
  <2> QED
    BY <1>2, <1>4, <2>1, <2>2, <2>3 DEF VectorIndex, LoadedFrom
<1> QED
  BY <1>3, <1>4


----------------------------------------------------------------------------
(* What a step elsewhere in memory leaves as it was. *)

\* The size and the elements of a vector that is not the one stored into.
LEMMA VectorKept ==
    ASSUME NEW m, NEW m2, NEW S, NEW S2, NEW b, NEW G, NEW G2, NEW d,
           Elsewhere(m, m2, S, S2, b, G, G2, d), NEW a \in S, a.addr # d
    PROVE  /\ Word(m2, a.addr) = Word(m, a.addr)
           /\ \A n \in Int : n <= Maximum(0, a.size) /\ Holds(m, S, a.addr, n)
                                => Holds(m2, S2, a.addr, n)
           /\ Complete(m, S, a) => Complete(m2, S2, a)
<1>1. a.addr \in Nat /\ a.size \in Int
  BY DEF Elsewhere, BlocksOK, MachineInt, MinInt
<1>2. Maximum(0, a.size) \in Nat
  BY <1>1 DEF Maximum
<1>3. \A w \in a.addr..(a.addr + Maximum(0, a.size)) : Word(m2, w) = Word(m, w)
  BY DEF Elsewhere, Same
<1>4. Word(m2, a.addr) = Word(m, a.addr)
  BY <1>1, <1>2, <1>3
<1>5. ASSUME NEW n \in Int, n <= Maximum(0, a.size), Holds(m, S, a.addr, n)
      PROVE  Holds(m2, S2, a.addr, n)
  <2>1. \A i \in 0..(n - 1) : a.addr + 1 + i \in a.addr..(a.addr + Maximum(0, a.size))
    BY <1>1, <1>2, <1>5
  <2>2. Wraps(S) => Wraps(S2)
    BY DEF Elsewhere, Wraps
  <2> QED
    BY <1>3, <1>5, <2>1, <2>2 DEF Holds
<1>6. ASSUME Complete(m, S, a) PROVE Complete(m2, S2, a)
  <2>1. Word(m, a.addr) \in Int /\ Word(m, a.addr) <= Maximum(0, a.size)
    BY <1>1, <1>2, <1>6 DEF Complete, Maximum
  <2> QED
    BY <1>4, <1>5, <1>6, <2>1 DEF Complete
<1> QED
  BY <1>4, <1>5, <1>6

\* A call whose own vector is not the one stored into.
LEMMA FrameKept ==
    ASSUME NEW m, NEW m2, NEW S, NEW S2, NEW b, NEW G, NEW G2, NEW d,
           Elsewhere(m, m2, S, S2, b, G, G2, d),
           NEW f \in IntFrame, FrameOK(m, S, G, f), f.dst = 0 \/ f.dst # d
    PROVE  /\ FrameOK(m2, S2, G2, f)
           /\ f.op \in WithLhs => Word(m2, f.lhs) = Word(m, f.lhs)
           /\ f.op \in WithRhs => Word(m2, f.rhs) = Word(m, f.rhs)
<1>1. ASSUME NEW v, IsVector(G, v) PROVE IsVector(G2, v) /\ Word(m2, v) = Word(m, v)
  <2>1. PICK a \in G : a.addr = v
    BY <1>1 DEF IsVector
  <2>2. a \in S /\ a.addr # d /\ a \in G2
    BY DEF Elsewhere
  <2>3. Word(m2, a.addr) = Word(m, a.addr)
    BY <2>2, VectorKept
  <2> QED
    BY <2>1, <2>2, <2>3 DEF IsVector
<1>2. f.op \in WithLhs => Word(m2, f.lhs) = Word(m, f.lhs)
  BY <1>1 DEF FrameOK, OperandsOK
<1>3. f.op \in WithRhs => Word(m2, f.rhs) = Word(m, f.rhs)
  BY <1>1 DEF FrameOK, OperandsOK
<1>4. OperandsOK(G2, f)
  BY <1>1 DEF FrameOK, OperandsOK
<1>5. StageOK(m2, f)
  BY <1>2, <1>3 DEF FrameOK, StageOK, WithLhs, WithRhs
<1>6. ASSUME Building(f) PROVE BuildsOK(m2, S2, f)
  <2>1. BuildsOK(m, S, f)
    BY <1>6 DEF FrameOK
  <2>2. PICK a \in S : a.addr = f.dst /\ a.size = f.size
    BY <2>1 DEF BuildsOK
  <2>3. a.addr # d
    BY <2>2 DEF BlocksOK, Elsewhere
  <2>4. Word(m2, f.dst) = Word(m, f.dst)
    <3>1. Word(m2, a.addr) = Word(m, a.addr)
      BY <2>3, VectorKept
    <3> QED
      BY <2>2, <3>1
  <2>5. Filled(m, f) \in Int /\ Filled(m, f) <= Maximum(0, f.size)
    <3>1. f.i \in Nat /\ f.size \in Int
      BY DEF IntFrame, AnyFrame
    <3> QED
      BY <2>1, <3>1 DEF BuildsOK, Filled, Maximum
  <2>6. Holds(m2, S2, f.dst, Filled(m, f))
    <3>1. Holds(m, S, a.addr, Filled(m, f)) /\ Filled(m, f) <= Maximum(0, a.size)
      BY <2>1, <2>2, <2>5 DEF BuildsOK
    <3>2. Holds(m2, S2, a.addr, Filled(m, f))
      BY <2>3, <2>5, <3>1, VectorKept
    <3> QED
      BY <2>2, <3>2
  <2>7. \E c \in S2 : c.addr = f.dst /\ c.size = f.size
    BY <2>2 DEF Elsewhere
  <2> QED
    BY <2>1, <2>4, <2>6, <2>7 DEF BuildsOK, Filled
<1>7. RegistersOK(S2, f)
  BY LoadedGrows DEF FrameOK, RegistersOK, Elsewhere
<1> QED
  BY <1>2, <1>3, <1>4, <1>5, <1>6, <1>7 DEF FrameOK

\* The calls below the running one.
LEMMA StackKept ==
    ASSUME NEW m, NEW m2, NEW S, NEW S2, NEW b, NEW G, NEW G2, NEW d,
           Elsewhere(m, m2, S, S2, b, G, G2, d),
           NEW fs \in Seq(IntFrame), StackOK(m, S, G, fs),
           \A j \in DOMAIN fs : fs[j].dst = 0 \/ fs[j].dst # d,
           \A a \in G2 : \A j \in DOMAIN fs : fs[j].dst # a.addr
    PROVE  StackOK(m2, S2, G2, fs)
<1>1. ASSUME NEW j \in DOMAIN fs
      PROVE  /\ FrameOK(m2, S2, G2, fs[j])
             /\ fs[j].op \in WithLhs => Word(m2, fs[j].lhs) = Word(m, fs[j].lhs)
             /\ fs[j].op \in WithRhs => Word(m2, fs[j].rhs) = Word(m, fs[j].rhs)
  <2>1. FrameOK(m, S, G, fs[j]) /\ (fs[j].dst = 0 \/ fs[j].dst # d)
    BY DEF StackOK
  <2>2. fs[j] \in IntFrame
    OBVIOUS
  <2> QED
    BY <2>1, <2>2, FrameKept
<1>2. ASSUME NEW j \in DOMAIN fs, j > 1 PROVE CalledBy(m2, fs[j - 1], fs[j])
  <2>1. CalledBy(m, fs[j - 1], fs[j]) /\ j - 1 \in DOMAIN fs
    BY <1>2 DEF StackOK
  <2>2. StageOK(m, fs[j - 1])
    BY <2>1 DEF StackOK, FrameOK
  <2>3. fs[j - 1].at \in {"match_lhs", "match_rhs"} => fs[j - 1].op \in WithLhs \cap WithRhs
    BY <2>2 DEF StageOK, WithLhs, WithRhs
  <2> QED
    BY <1>1, <2>1, <2>3 DEF CalledBy
<1> QED
  BY <1>1, <1>2 DEF StackOK

\* The complete vectors.
LEMMA CompleteKept ==
    ASSUME NEW m, NEW m2, NEW S, NEW S2, NEW b, NEW G, NEW G2, NEW d,
           Elsewhere(m, m2, S, S2, b, G, G2, d),
           \A a \in G : Complete(m, S, a)
    PROVE  \A a \in G : Complete(m2, S2, a)
<1> SUFFICES ASSUME NEW a \in G PROVE Complete(m2, S2, a)
  OBVIOUS
<1>1. a \in S /\ a.addr # d
  BY DEF Elsewhere
<1> QED
  BY <1>1, VectorKept

----------------------------------------------------------------------------
(* The stack. *)

LEMMA StackPopped ==
    ASSUME NEW m, NEW S, NEW G, NEW fs \in Seq(IntFrame), StackOK(m, S, G, fs), fs # <<>>
    PROVE  /\ StackOK(m, S, G, Pop(fs))
           /\ FrameOK(m, S, G, Top(fs))
           /\ Pop(fs) # <<>> => CalledBy(m, Top(Pop(fs)), Top(fs))
           /\ Top(fs).dst # 0 => \A j \in DOMAIN Pop(fs) : Pop(fs)[j].dst # Top(fs).dst
           /\ \A a \in G : Top(fs).dst # a.addr
<1> DEFINE n == Len(fs)
<1>1. n \in Nat /\ n > 0 /\ Len(Pop(fs)) = n - 1 /\ Top(fs) = fs[n] /\ Pop(fs) \in Seq(IntFrame)
      /\ \A i \in 1..(n - 1) : Pop(fs)[i] = fs[i]
  BY TopAndPop
<1>2. DOMAIN fs = 1..n /\ DOMAIN Pop(fs) = 1..(n - 1)
  BY <1>1
<1> HIDE DEF n
<1>3. \A j \in 1..n : FrameOK(m, S, G, fs[j])
  BY <1>2 DEF StackOK
<1>4. \A j \in 1..n : j > 1 => CalledBy(m, fs[j - 1], fs[j])
  BY <1>2 DEF StackOK
<1>5. \A j, k \in 1..n : j < k /\ fs[k].dst # 0 => fs[j].dst # fs[k].dst
  BY <1>2 DEF StackOK
<1>6. \A a \in G : \A j \in 1..n : fs[j].dst # a.addr
  BY <1>2 DEF StackOK
<1>7. StackOK(m, S, G, Pop(fs))
  <2>1. \A j \in 1..(n - 1) : FrameOK(m, S, G, Pop(fs)[j])
    BY <1>1, <1>3
  <2>2. ASSUME NEW j \in 1..(n - 1), j > 1 PROVE CalledBy(m, Pop(fs)[j - 1], Pop(fs)[j])
    BY <1>1, <1>4, <2>2
  <2>3. ASSUME NEW j \in 1..(n - 1), NEW k \in 1..(n - 1), j < k, Pop(fs)[k].dst # 0
        PROVE  Pop(fs)[j].dst # Pop(fs)[k].dst
    BY <1>1, <1>5, <2>3
  <2>4. \A a \in G : \A j \in 1..(n - 1) : Pop(fs)[j].dst # a.addr
    BY <1>1, <1>6
  <2> QED
    BY <1>2, <2>1, <2>2, <2>3, <2>4 DEF StackOK
<1>8. ASSUME Pop(fs) # <<>> PROVE CalledBy(m, Top(Pop(fs)), Top(fs))
  <2>1. Len(Pop(fs)) # 0
    BY <1>1, <1>8
  <2>2. n > 1 /\ Top(Pop(fs)) = fs[n - 1]
    BY <1>1, <2>1 DEF Top
  <2> QED
    BY <1>1, <1>4, <2>2
<1>9. ASSUME Top(fs).dst # 0, NEW j \in DOMAIN Pop(fs) PROVE Pop(fs)[j].dst # Top(fs).dst
  BY <1>1, <1>2, <1>5, <1>9
<1> QED
  BY <1>1, <1>3, <1>6, <1>7, <1>8, <1>9

LEMMA StackPushed ==
    ASSUME NEW m, NEW S, NEW G, NEW fs \in Seq(IntFrame), StackOK(m, S, G, fs),
           NEW f \in IntFrame, FrameOK(m, S, G, f),
           fs # <<>> => CalledBy(m, Top(fs), f),
           f.dst # 0 => \A j \in DOMAIN fs : fs[j].dst # f.dst,
           \A a \in G : f.dst # a.addr
    PROVE  StackOK(m, S, G, Append(fs, f))
<1> DEFINE n == Len(fs)
           gs == Append(fs, f)
<1>1. n \in Nat /\ DOMAIN fs = 1..n /\ DOMAIN gs = 1..(n + 1) /\ gs[n + 1] = f
      /\ \A i \in 1..n : gs[i] = fs[i]
  OBVIOUS
<1>2. n > 0 => fs # <<>> /\ Top(fs) = fs[n]
  BY DEF Top
<1> HIDE DEF n, gs
<1>3. \A j \in 1..n : FrameOK(m, S, G, fs[j])
  BY <1>1 DEF StackOK
<1>4. \A j \in 1..n : j > 1 => CalledBy(m, fs[j - 1], fs[j])
  BY <1>1 DEF StackOK
<1>5. \A j, k \in 1..n : j < k /\ fs[k].dst # 0 => fs[j].dst # fs[k].dst
  BY <1>1 DEF StackOK
<1>6. \A a \in G : \A j \in 1..n : fs[j].dst # a.addr
  BY <1>1 DEF StackOK
<1>7. \A j \in 1..(n + 1) : FrameOK(m, S, G, gs[j])
  BY <1>1, <1>3
<1>8. ASSUME NEW j \in 1..(n + 1), j > 1 PROVE CalledBy(m, gs[j - 1], gs[j])
  <2>1. CASE j = n + 1
    BY <1>1, <1>2, <1>8, <2>1
  <2>2. CASE j # n + 1
    BY <1>1, <1>4, <1>8, <2>2
  <2> QED
    BY <2>1, <2>2
<1>9. ASSUME NEW j \in 1..(n + 1), NEW k \in 1..(n + 1), j < k, gs[k].dst # 0
      PROVE  gs[j].dst # gs[k].dst
  <2>1. CASE k = n + 1
    BY <1>1, <1>9, <2>1
  <2>2. CASE k # n + 1
    BY <1>1, <1>5, <1>9, <2>2
  <2> QED
    BY <2>1, <2>2
<1>10. \A a \in G : \A j \in 1..(n + 1) : gs[j].dst # a.addr
  BY <1>1, <1>6
<1>11. StackOK(m, S, G, gs)
  BY <1>1, <1>7, <1>8, <1>9, <1>10 DEF StackOK
<1> QED
  BY <1>11 DEF gs


----------------------------------------------------------------------------
(* Steps of the stack of calls and the vectors they own. *)

\* A step that stores nothing.
LEMMA NothingStored ==
    ASSUME NEW m, NEW S, NEW b, BlocksOK(S, b), NEW G, NEW G2, G \subseteq S, G \subseteq G2
    PROVE  Elsewhere(m, m, S, S, b, G, G2, 0)
  BY DEF Elsewhere, Same, BlocksOK

\* A call is made.
LEMMA OwnedPushed ==
    ASSUME NEW m, NEW S, NEW b, BlocksOK(S, b), NEW G, NEW fs \in Seq(IntFrame), NEW vs,
           Owned(m, S, G, fs, vs),
           NEW f \in IntFrame, FrameOK(m, S, G, f), f.dst = 0,
           fs # <<>> => CalledBy(m, Top(fs), f)
    PROVE  Owned(m, S, G, Append(fs, f), vs)
<1>1. StackOK(m, S, G, fs) /\ \A a \in G : f.dst # a.addr
  BY DEF Owned, BlocksOK
<1>2. StackOK(m, S, G, Append(fs, f))
  BY <1>1, StackPushed
<1> QED
  BY <1>2 DEF Owned

\* The running call changes its registers, and maybe stores into the vector it builds.
LEMMA OwnedReplaced ==
    ASSUME NEW m, NEW m2, NEW S, NEW S2, NEW b, NEW G, NEW d,
           Elsewhere(m, m2, S, S2, b, G, G, d),
           NEW fs \in Seq(IntFrame), fs # <<>>, NEW vs, Owned(m, S, G, fs, vs),
           d = 0 \/ d = Top(fs).dst,
           NEW f \in IntFrame, FrameOK(m2, S2, G, f),
           f.op = Top(fs).op, f.args = Top(fs).args,
           \/ f.dst = Top(fs).dst
           \/ f.dst \notin {fs[j].dst : j \in DOMAIN fs} \cup {a.addr : a \in G}
    PROVE  Owned(m2, S2, G, Append(Pop(fs), f), vs)
<1> DEFINE below == Pop(fs)
           top == Top(fs)
<1>1. StackOK(m, S, G, fs)
  BY DEF Owned
<1>2. /\ StackOK(m, S, G, below)
      /\ below # <<>> => CalledBy(m, Top(below), top)
      /\ top.dst # 0 => \A j \in DOMAIN below : below[j].dst # top.dst
      /\ \A a \in G : top.dst # a.addr
  BY <1>1, StackPopped
<1>3. below \in Seq(IntFrame) /\ \A j \in DOMAIN below : j \in DOMAIN fs /\ below[j] = fs[j]
  BY TopAndPop
<1> HIDE DEF below, top
<1>4. \A j \in DOMAIN below : below[j].dst = 0 \/ below[j].dst # d
  BY <1>2 DEF top
<1>5. \A a \in G : \A j \in DOMAIN below : below[j].dst # a.addr
  BY <1>2 DEF StackOK
<1>6. StackOK(m2, S2, G, below)
  BY <1>2, <1>3, <1>4, <1>5, StackKept
<1>7. ASSUME below # <<>> PROVE CalledBy(m2, Top(below), f)
  <2> DEFINE caller == Top(below)
  <2>1. caller \in IntFrame /\ CalledBy(m, caller, top)
    BY <1>2, <1>3, <1>7, TopAndPop
  <2>2. FrameOK(m, S, G, caller) /\ (caller.dst = 0 \/ caller.dst # d)
    <3>1. Len(below) \in DOMAIN below
      BY <1>3, <1>7, TopAndPop
    <3> QED
      BY <1>2, <1>4, <3>1 DEF StackOK, Top
  <2> HIDE DEF caller
  <2>3. /\ caller.op \in WithLhs => Word(m2, caller.lhs) = Word(m, caller.lhs)
        /\ caller.op \in WithRhs => Word(m2, caller.rhs) = Word(m, caller.rhs)
    BY <2>1, <2>2, FrameKept
  <2>4. caller.at \in {"match_lhs", "match_rhs"} => caller.op \in WithLhs \cap WithRhs
    BY <2>2 DEF FrameOK, StageOK, WithLhs, WithRhs
  <2>5. CalledBy(m2, caller, f)
    BY <2>1, <2>3, <2>4 DEF CalledBy, top
  <2> QED
    BY <2>5 DEF caller
<1>8. f.dst # 0 => \A j \in DOMAIN below : below[j].dst # f.dst
  BY <1>2, <1>3 DEF top
<1>9. \A a \in G : f.dst # a.addr
  BY <1>2 DEF top
<1>10. StackOK(m2, S2, G, Append(below, f))
  BY <1>3, <1>6, <1>7, <1>8, <1>9, StackPushed
<1>11. \A a \in G : Complete(m2, S2, a)
  BY CompleteKept DEF Owned
<1> QED
  BY <1>10, <1>11 DEF Owned, Elsewhere, below

\* The running call returns: what it built is complete.
LEMMA OwnedPopped ==
    ASSUME NEW m, NEW S, NEW b, BlocksOK(S, b), NEW G,
           NEW fs \in Seq(IntFrame), fs # <<>>, NEW vs, Owned(m, S, G, fs, vs),
           NEW a \in S, a.addr = Top(fs).dst, Complete(m, S, a)
    PROVE  /\ Owned(m, S, G \cup {a}, Pop(fs), vs)
           /\ IsVector(G \cup {a}, Top(fs).dst)
<1> DEFINE below == Pop(fs)
           H == G \cup {a}
<1>1. StackOK(m, S, G, fs) /\ G \subseteq S
  BY DEF Owned
<1>2. a.addr # 0
  BY DEF BlocksOK
<1>3. /\ StackOK(m, S, G, below)
      /\ \A j \in DOMAIN below : below[j].dst # a.addr
  BY <1>1, <1>2, StackPopped
<1>4. below \in Seq(IntFrame) /\ Elsewhere(m, m, S, S, b, G, H, 0)
  BY <1>1, TopAndPop, NothingStored
<1> HIDE DEF below, H
<1>5. \A c \in H : \A j \in DOMAIN below : below[j].dst # c.addr
  BY <1>3 DEF StackOK, H
<1>6. \A j \in DOMAIN below : below[j].dst = 0 \/ below[j].dst # 0
  OBVIOUS
<1>7. StackOK(m, S, H, below)
  BY <1>3, <1>4, <1>5, <1>6, StackKept
<1>8. \A k \in DOMAIN vs : IsVector(H, vs[k])
  BY DEF Owned, IsVector, H
<1>9. H \subseteq S /\ \A c \in H : Complete(m, S, c)
  BY <1>1 DEF Owned, H
<1>10. Owned(m, S, H, below, vs)
  BY <1>7, <1>8, <1>9 DEF Owned
<1>11. IsVector(H, Top(fs).dst)
  BY DEF IsVector, H
<1> QED
  BY <1>10, <1>11 DEF below, H

\* A loop that is done has stored every element.
LEMMA LoopCompletes ==
    ASSUME NEW m, NEW S, NEW b, BlocksOK(S, b), NEW G, NEW f \in IntFrame, FrameOK(m, S, G, f),
           f.at = "loop", f.op # "print_vector", ~(f.i < f.size)
    PROVE  /\ \E a \in S : a.addr = f.dst /\ Complete(m, S, a)
           /\ f.op # "filter" => Word(m, f.dst) = f.size
<1>1. BuildsOK(m, S, f)
  BY DEF FrameOK, Building
<1>2. PICK a \in S : a.addr = f.dst /\ a.size = f.size
  BY <1>1 DEF BuildsOK
<1>3. f.i \in Nat /\ f.size \in Int /\ f.i <= Maximum(0, f.size)
  BY <1>1 DEF IntFrame, AnyFrame, BuildsOK
<1>4. CASE f.op = "filter"
  <2>1. Word(m, f.dst) \in 0..f.i /\ Holds(m, S, f.dst, Word(m, f.dst))
    BY <1>1, <1>4 DEF BuildsOK, Filled
  <2>2. Word(m, f.dst) \in 0..Maximum(0, f.size)
    BY <1>3, <2>1 DEF Maximum
  <2>3. Complete(m, S, a)
    BY <1>2, <2>1, <2>2 DEF Complete
  <2> QED
    BY <1>2, <1>4, <2>3
<1>5. CASE f.op # "filter"
  <2>1. Word(m, f.dst) = f.size /\ Holds(m, S, f.dst, f.i)
    BY <1>1, <1>5 DEF BuildsOK, Filled
  <2>2. f.i = f.size \/ f.size < 0
    BY <1>3 DEF Maximum
  <2>3. Holds(m, S, f.dst, f.size)
    BY <1>3, <2>1, <2>2 DEF Holds
  <2>4. Complete(m, S, a)
    BY <1>2, <2>1, <2>3 DEF Complete
  <2> QED
    BY <1>2, <2>1, <2>4
<1> QED
  BY <1>4, <1>5


----------------------------------------------------------------------------
(* Calls. *)

\* Loading from a vector that a call or the program holds.
LEMMA GivenVector ==
    ASSUME NEW S, NEW b, BlocksOK(S, b), WordsOK(mem, S), NEW G, G \subseteq S,
           \A a \in G : Complete(mem, S, a), NEW v, IsVector(G, v)
    PROVE  /\ v \in Nat /\ v > 0
           /\ Size(v) = Word(mem, v) /\ Size(v) \in MachineInt
           /\ \A i \in Int : VectorIndex(v, i) \in LoadedFrom(S)
           /\ \A i \in 0..(Size(v) - 1) : Element(v, i) \in LoadedFrom(S)
<1>1. PICK a \in G : a.addr = v
  BY DEF IsVector
<1>2. a \in S /\ Complete(mem, S, a)
  BY <1>1
<1>3. \A x : Load(x) = Word(mem, x)
  BY DEF Load, Word
<1>4. v \in Nat /\ v > 0 /\ Word(mem, v) \in MachineInt
      /\ \A i \in 0..(Word(mem, v) - 1) : Word(mem, v + 1 + i) \in LoadedFrom(S)
  BY <1>1, <1>2, CompleteVector
<1>5. \A i \in Int : VectorIndex(v, i) \in LoadedFrom(S)
  BY <1>1, <1>2, IndexOfComplete
<1> QED
  BY <1>3, <1>4, <1>5 DEF Size, Element, ElementAddr

\* The running call.
LEMMA RunningOK ==
    ASSUME OwnerInv, NEW G, Owned(mem, Allocations, G, frames, vectors)
    PROVE  /\ frames \in Seq(IntFrame)
           /\ G \subseteq Allocations /\ \A a \in G : Complete(mem, Allocations, a)
           /\ frames # <<>> => /\ Frame \in IntFrame
                               /\ FrameOK(mem, Allocations, G, Frame)
                               /\ \A a \in G : Frame.dst # a.addr
<1>1. frames \in Seq(IntFrame) /\ StackOK(mem, Allocations, G, frames)
  BY DEF OwnerInv, DisjointInv, HoldsInts, GoodFrames, Owned
<1>2. ASSUME frames # <<>>
      PROVE  /\ Frame \in IntFrame /\ FrameOK(mem, Allocations, G, Frame)
             /\ \A a \in G : Frame.dst # a.addr
  <2>1. Frame \in IntFrame
    BY <1>1, <1>2, TopAndPop DEF Frame
  <2>2. FrameOK(mem, Allocations, G, Frame) /\ \A a \in G : Frame.dst # a.addr
    BY <1>1, <1>2, StackPopped DEF Frame
  <2> QED
    BY <2>1, <2>2
<1> QED
  BY <1>1, <1>2 DEF Owned

\* What a call passes.
ArgumentsOK(G, op, args, lhs, rhs, at) ==
    /\ op \in Ops \cup OtherFunctions \cup {"increase_vector_size"} /\ op # "print_vector"
    /\ args \in Seq(Int) /\ lhs \in Int /\ rhs \in Int
    /\ at = IF op \in Ops THEN "match_lhs" ELSE "alloc"
    /\ op \in IntArgs => /\ Len(args) = 2
                         /\ args[1] \in MachineInt /\ args[2] \in MachineInt
    /\ op \in WithLhs => IsVector(G, lhs)
    /\ op \in WithRhs => IsVector(G, rhs)

\* The frame of a call before it has allocated.
LEMMA NewFrameOK ==
    ASSUME NEW m, NEW S, NEW G, NEW op, NEW args, NEW lhs, NEW rhs, NEW at,
           ArgumentsOK(G, op, args, lhs, rhs, at)
    PROVE  LET f == NewFrame(op, args, lhs, rhs, at)
           IN  f \in IntFrame /\ FrameOK(m, S, G, f) /\ f.dst = 0 /\ f.op = op
<1> DEFINE f == NewFrame(op, args, lhs, rhs, at)
<1>1. /\ f.op = op /\ f.args = args /\ f.lhs = lhs /\ f.rhs = rhs /\ f.at = at
      /\ f.dst = 0 /\ f.size = 0 /\ f.elem = 0 /\ f.body = <<>>
  BY DEF NewFrame
<1>2. f \in IntFrame
  BY NewFrameIsIntFrame DEF Places, ArgumentsOK
<1> HIDE DEF f
<1>3. OperandsOK(G, f)
  BY <1>1 DEF OperandsOK, ArgumentsOK
<1>4. StageOK(m, f)
  BY <1>1 DEF StageOK, ArgumentsOK
<1>5. ~Building(f)
  BY <1>1 DEF Building, ArgumentsOK
<1>6. RegistersOK(S, f)
  <2>1. 0 \in MachineInt /\ MachineInt \subseteq LoadedFrom(S) /\ <<>> \in Seq(MachineInt)
    BY LoadedGrows DEF MachineInt, MinInt
  <2> QED
    BY <1>1, <2>1 DEF RegistersOK, ArgumentsOK
<1>7. FrameOK(m, S, G, f)
  BY <1>1, <1>3, <1>4, <1>5, <1>6 DEF FrameOK
<1> QED
  BY <1>1, <1>2, <1>7 DEF f

LEMMA CalledKeepsOwners ==
    ASSUME OwnerInv, NEW f \in IntFrame, f.dst = 0, f.op # "increase_vector_size",
           calls < MaxCalls, frames # <<>> => Frame.at = "body", Called(f),
           NEW G \in SUBSET Allocations, Owned(mem, Allocations, G, frames, vectors),
           FrameOK(mem, Allocations, G, f)
    PROVE  OwnedInv' /\ calls' \in 0..MaxCalls
<1>1. frames \in Seq(IntFrame) /\ BlocksOK(Allocations, brk)
  BY RunningOK DEF OwnerInv
<1>2. frames # <<>> => CalledBy(mem, Top(frames), f)
  BY DEF CalledBy, Frame
<1>3. Owned(mem, Allocations, G, Append(frames, f), vectors)
  BY <1>1, <1>2, OwnedPushed
<1>4. mem' = mem /\ allocs' = allocs /\ vectors' = vectors /\ frames' = Append(frames, f)
      /\ calls' = calls + 1
  BY DEF Called
<1>5. Allocations' = Allocations
  BY <1>4 DEF Allocations
<1>6. OwnedInv'
  BY <1>3, <1>4, <1>5 DEF OwnedInv
<1> QED
  BY <1>4, <1>6 DEF OwnerInv

LEMMA CallKeepsOwners == ASSUME OwnerInv, Call PROVE OwnedInv' /\ calls' \in 0..MaxCalls
<1> DEFINE S == Allocations
<1>1. PICK G \in SUBSET S : Owned(mem, S, G, frames, vectors)
  BY DEF OwnerInv, OwnedInv
<1>2. ASSUME NEW k \in DOMAIN vectors
      PROVE  /\ k \in Int /\ IsVector(G, vectors[k]) /\ vectors[k] \in Int
             /\ Size(vectors[k]) \in MachineInt /\ Size(vectors[k]) = Word(mem, vectors[k])
             /\ Size(vectors[k]) \in Int
  <2>1. IsVector(G, vectors[k])
    BY <1>1 DEF Owned
  <2>2. BlocksOK(S, brk) /\ WordsOK(mem, S) /\ G \subseteq S /\ \A a \in G : Complete(mem, S, a)
    BY <1>1, RunningOK DEF OwnerInv
  <2>3. /\ vectors[k] \in Nat /\ Size(vectors[k]) = Word(mem, vectors[k])
        /\ Size(vectors[k]) \in MachineInt
    BY <2>1, <2>2, GivenVector
  <2>4. k \in Int
    BY DEF OwnerInv, DisjointInv, HoldsInts
  <2> QED
    BY <2>1, <2>3, <2>4 DEF MachineInt, MinInt
<1>3. Ints \subseteq Int /\ Ints \subseteq MachineInt
  BY DEF MachineInt, MinInt
<1>4. Ops \cap (OtherFunctions \cup {"increase_vector_size"}) = {}
  BY DEF IntOps, ArithmeticOps, BooleanOps, OtherFunctions, Scoped
<1> HIDE DEF S
<1>5. ASSUME NEW f \in IntFrame, f.dst = 0, f.op # "increase_vector_size",
             FrameOK(mem, S, G, f), NEW op, MayCall(op), Called(f)
      PROVE  OwnedInv' /\ calls' \in 0..MaxCalls
  BY <1>1, <1>5, CalledKeepsOwners DEF MayCall, S
<1>6. ASSUME NEW n \in Ints, NEW m \in Ints, CallRange(n, m)
      PROVE  OwnedInv' /\ calls' \in 0..MaxCalls
  <2> DEFINE f == NewFrame("vector_range", <<n, m>>, n, m, "alloc")
  <2>1. <<n, m>> \in Seq(Int) /\ n \in Int /\ m \in Int /\ n \in MachineInt /\ m \in MachineInt
    BY <1>3
  <2>2. /\ "vector_range" \in OtherFunctions /\ "vector_range" \notin WithLhs \cup WithRhs \cup Ops
        /\ "vector_range" # "print_vector" /\ "vector_range" # "increase_vector_size"
    BY <1>4 DEF OtherFunctions, WithLhs, WithRhs, Scoped
  <2>3. f \in IntFrame /\ FrameOK(mem, S, G, f) /\ f.dst = 0 /\ f.op = "vector_range"
    <3>1. ArgumentsOK(G, "vector_range", <<n, m>>, n, m, "alloc")
      BY <2>1, <2>2 DEF ArgumentsOK
    <3> QED
      BY <3>1, NewFrameOK
  <2>4. MayCall("vector_range") /\ Called(f)
    BY <1>6 DEF CallRange
  <2> HIDE DEF f
  <2> QED
    BY <1>5, <2>2, <2>3, <2>4
<1>7. ASSUME NEW k \in DOMAIN vectors, NEW x \in Ints, CallIntToVector(k, x)
      PROVE  OwnedInv' /\ calls' \in 0..MaxCalls
  <2> DEFINE n == Size(vectors[k])
             f == NewFrame("int_to_vector", <<n, x>>, n, x, "alloc")
  <2>1. n \in Int /\ n \in MachineInt /\ x \in Int /\ x \in MachineInt
    BY <1>2, <1>3
  <2>2. /\ "int_to_vector" \in OtherFunctions /\ "int_to_vector" \notin WithLhs \cup WithRhs \cup Ops
        /\ "int_to_vector" # "print_vector" /\ "int_to_vector" # "increase_vector_size"
    BY <1>4 DEF OtherFunctions, WithLhs, WithRhs, Scoped
  <2>3. MayCall("int_to_vector") /\ Called(f)
    BY <1>7 DEF CallIntToVector
  <2> HIDE DEF n
  <2>4. <<n, x>> \in Seq(Int)
    BY <2>1
  <2>5. f \in IntFrame /\ FrameOK(mem, S, G, f) /\ f.dst = 0 /\ f.op = "int_to_vector"
    <3>1. ArgumentsOK(G, "int_to_vector", <<n, x>>, n, x, "alloc")
      BY <2>1, <2>2, <2>4 DEF ArgumentsOK
    <3> QED
      BY <3>1, NewFrameOK
  <2> HIDE DEF f
  <2> QED
    BY <1>5, <2>2, <2>3, <2>5
<1>8. ASSUME NEW op \in Ops, NEW k \in DOMAIN vectors, NEW l \in DOMAIN vectors, CallOp(op, k, l)
      PROVE  OwnedInv' /\ calls' \in 0..MaxCalls
  <2> DEFINE f == NewFrame(op, <<k, l>>, vectors[k], vectors[l], "match_lhs")
  <2>1. k \in Int /\ l \in Int /\ vectors[k] \in Int /\ vectors[l] \in Int
        /\ IsVector(G, vectors[k]) /\ IsVector(G, vectors[l]) /\ <<k, l>> \in Seq(Int)
    BY <1>2
  <2>2. op \notin IntArgs /\ op # "print_vector" /\ op # "increase_vector_size"
    BY <1>4 DEF IntArgs, OtherFunctions
  <2>3. f \in IntFrame /\ FrameOK(mem, S, G, f) /\ f.dst = 0 /\ f.op = op
    <3>1. ArgumentsOK(G, op, <<k, l>>, vectors[k], vectors[l], "match_lhs")
      BY <2>1, <2>2 DEF ArgumentsOK
    <3> QED
      BY <3>1, NewFrameOK
  <2>4. MayCall(op) /\ Called(f)
    BY <1>8 DEF CallOp
  <2> HIDE DEF f
  <2> QED
    BY <1>5, <2>2, <2>3, <2>4
<1>9. ASSUME NEW k \in DOMAIN vectors, NEW l \in DOMAIN vectors, CallIndexVector(k, l)
      PROVE  OwnedInv' /\ calls' \in 0..MaxCalls
  <2> DEFINE f == NewFrame("vector_index_vector", <<k, l>>, vectors[k], vectors[l], "alloc")
  <2>1. k \in Int /\ l \in Int /\ vectors[k] \in Int /\ vectors[l] \in Int
        /\ IsVector(G, vectors[k]) /\ IsVector(G, vectors[l]) /\ <<k, l>> \in Seq(Int)
    BY <1>2
  <2>2. /\ "vector_index_vector" \in OtherFunctions /\ "vector_index_vector" \notin IntArgs \cup Ops
        /\ "vector_index_vector" # "print_vector" /\ "vector_index_vector" # "increase_vector_size"
    BY <1>4 DEF IntArgs, OtherFunctions
  <2>3. f \in IntFrame /\ FrameOK(mem, S, G, f) /\ f.dst = 0 /\ f.op = "vector_index_vector"
    <3>1. ArgumentsOK(G, "vector_index_vector", <<k, l>>, vectors[k], vectors[l], "alloc")
      BY <2>1, <2>2 DEF ArgumentsOK
    <3> QED
      BY <3>1, NewFrameOK
  <2>4. MayCall("vector_index_vector") /\ Called(f)
    BY <1>9 DEF CallIndexVector
  <2> HIDE DEF f
  <2> QED
    BY <1>5, <2>2, <2>3, <2>4
<1>10. ASSUME NEW op \in Scoped, NEW k \in DOMAIN vectors, CallScoped(op, k)
       PROVE  OwnedInv' /\ calls' \in 0..MaxCalls
  <2> DEFINE f == NewFrame(op, <<k>>, vectors[k], 0, "alloc")
  <2>1. k \in Int /\ vectors[k] \in Int /\ 0 \in Int /\ IsVector(G, vectors[k])
    BY <1>2
  <2>2. /\ op \in OtherFunctions /\ op \notin IntArgs \cup Ops \cup WithRhs
        /\ op # "print_vector" /\ op # "increase_vector_size"
    BY <1>4 DEF IntArgs, OtherFunctions, Scoped, WithRhs
  <2>3. <<k>> \in Seq(Int)
    BY <2>1
  <2>4. f \in IntFrame /\ FrameOK(mem, S, G, f) /\ f.dst = 0 /\ f.op = op
    <3>1. ArgumentsOK(G, op, <<k>>, vectors[k], 0, "alloc")
      BY <2>1, <2>2, <2>3 DEF ArgumentsOK
    <3> QED
      BY <3>1, NewFrameOK
  <2>5. MayCall(op) /\ Called(f)
    BY <1>10 DEF CallScoped
  <2> HIDE DEF f
  <2> QED
    BY <1>5, <2>2, <2>4, <2>5
<1>11. ASSUME NEW k \in DOMAIN vectors, CallPrint(k)
       PROVE  OwnedInv' /\ calls' \in 0..MaxCalls
  <2> DEFINE g == NewFrame("print_vector", <<k>>, vectors[k], 0, "loop")
             n == Size(vectors[k])
             f == [g EXCEPT !.size = n]
  <2>1. k \in Int /\ vectors[k] \in Int /\ 0 \in Int /\ IsVector(G, vectors[k])
        /\ n \in MachineInt /\ n = Word(mem, vectors[k]) /\ n \in Int
    BY <1>2
  <2>2. /\ "print_vector" \in OtherFunctions /\ "print_vector" \notin IntArgs \cup Ops \cup WithRhs
        /\ "print_vector" # "increase_vector_size" /\ "print_vector" \notin Scoped
    BY <1>4 DEF IntArgs, OtherFunctions, Scoped, WithRhs
  <2>3. <<k>> \in Seq(Int)
    BY <2>1
  <2>4. g \in IntFrame
    BY <2>1, <2>2, <2>3, NewFrameIsIntFrame DEF Places
  <2>5. MayCall("print_vector") /\ Called(f)
    BY <1>11 DEF CallPrint
  <2> HIDE DEF n
  <2>6. /\ f.op = "print_vector" /\ f.lhs = vectors[k] /\ f.at = "loop" /\ f.dst = 0
        /\ f.size = n /\ f.elem = 0 /\ f.body = <<>> /\ f \in IntFrame
    BY <2>1, <2>4 DEF NewFrame, IntFrame, AnyFrame
  <2> HIDE DEF f, g
  <2>7. OperandsOK(G, f) /\ ~Building(f)
    BY <2>1, <2>2, <2>6 DEF OperandsOK, Building
  <2>8. StageOK(mem, f)
    BY <2>1, <2>2, <2>6 DEF StageOK
  <2>9. RegistersOK(S, f)
    <3>1. 0 \in MachineInt /\ MachineInt \subseteq LoadedFrom(S) /\ <<>> \in Seq(MachineInt)
      BY LoadedGrows DEF MachineInt, MinInt
    <3> QED
      BY <2>1, <2>2, <2>6, <3>1 DEF RegistersOK
  <2>10. FrameOK(mem, S, G, f)
    BY <2>6, <2>7, <2>8, <2>9 DEF FrameOK
  <2> QED
    BY <1>5, <2>2, <2>5, <2>6, <2>10
<1> QED
  BY <1>6, <1>7, <1>8, <1>9, <1>10, <1>11 DEF Call


----------------------------------------------------------------------------
(* Operations on vectors extend the shorter operand (match_vector_size,    *)
(* called by CreateVectorOperationFunction).                               *)

\* The next stage of an operation, with the sizes it has made sure of.
LEMMA OperationGoesOn ==
    ASSUME NEW m, NEW S, NEW G, NEW f \in IntFrame, FrameOK(m, S, G, f),
           f.at \in {"match_lhs", "match_rhs"},
           NEW g \in IntFrame, g.op = f.op, g.args = f.args, g.dst = f.dst, g.size = f.size,
           g.elem = f.elem, g.body = f.body, IsVector(G, g.lhs), IsVector(G, g.rhs),
           \/ g.at = "match_rhs" /\ Word(m, g.rhs) <= Word(m, g.lhs)
           \/ g.at = "alloc" /\ Word(m, g.lhs) = Word(m, g.rhs)
    PROVE  FrameOK(m, S, G, g)
<1>1. StageOK(m, f) /\ RegistersOK(S, f) /\ ~Building(f) /\ f.dst = 0
  BY DEF FrameOK, Building
<1>2. OperandsOK(G, g)
  BY DEF OperandsOK
<1>3. g.op \in Ops
  BY <1>1 DEF StageOK
<1>4. g.op # "print_vector"
  BY <1>3 DEF IntOps, ArithmeticOps, BooleanOps
<1>5. StageOK(m, g)
  BY <1>3, <1>4 DEF StageOK
<1>6. ~Building(g)
  BY DEF Building
<1>7. RegistersOK(S, g)
  BY <1>1 DEF RegistersOK
<1> QED
  BY <1>1, <1>2, <1>5, <1>6, <1>7 DEF FrameOK

\* The stages in which an operation waits for increase_vector_size.
LEMMA WaitingOperation ==
    ASSUME NEW m, NEW S, NEW G, NEW f, FrameOK(m, S, G, f),
           f.at \in {"match_lhs", "match_rhs"}
    PROVE  /\ f.op \in Ops /\ IsVector(G, f.lhs) /\ IsVector(G, f.rhs) /\ f.dst = 0
           /\ f.at = "match_rhs" => Word(m, f.rhs) <= Word(m, f.lhs)
<1>1. f.op \in Ops /\ (f.at = "match_rhs" => Word(m, f.rhs) <= Word(m, f.lhs))
  BY DEF FrameOK, StageOK
<1>2. f.dst = 0
  BY DEF FrameOK, Building
<1>3. IsVector(G, f.lhs) /\ IsVector(G, f.rhs)
  BY <1>1 DEF FrameOK, OperandsOK, WithLhs, WithRhs
<1> QED
  BY <1>1, <1>2, <1>3

LEMMA MatchKeepsOwners == ASSUME OwnerInv, MatchLhs \/ MatchRhs PROVE OwnedInv'
<1> DEFINE S == Allocations
<1>1. PICK G \in SUBSET S : Owned(mem, S, G, frames, vectors)
  BY DEF OwnerInv, OwnedInv
<1>2. frames # <<>> /\ Frame.at \in {"match_lhs", "match_rhs"}
  BY DEF MatchLhs, MatchRhs
<1>3. /\ frames \in Seq(IntFrame) /\ Frame \in IntFrame /\ FrameOK(mem, S, G, Frame)
      /\ G \subseteq S /\ \A a \in G : Complete(mem, S, a)
  BY <1>1, <1>2, RunningOK
<1>4. BlocksOK(S, brk) /\ WordsOK(mem, S)
  BY DEF OwnerInv
<1>5. mem' = mem /\ Allocations' = S /\ vectors' = vectors
  BY DEF MatchLhs, MatchRhs, Allocations
<1> HIDE DEF S
<1>6. /\ Frame.op \in Ops /\ IsVector(G, Frame.lhs) /\ IsVector(G, Frame.rhs)
      /\ Frame.at = "match_rhs" => Word(mem, Frame.rhs) <= Word(mem, Frame.lhs)
  BY <1>2, <1>3, WaitingOperation
<1>7. ASSUME NEW v, IsVector(G, v)
      PROVE  v \in Int /\ Size(v) = Word(mem, v) /\ Size(v) \in MachineInt
  <2>1. v \in Nat
    BY <1>3, <1>4, <1>7, GivenVector
  <2>2. Size(v) = Word(mem, v) /\ Size(v) \in MachineInt
    BY <1>3, <1>4, <1>7, GivenVector
  <2> QED
    BY <2>1, <2>2
<1>8. /\ Size(Frame.lhs) = Word(mem, Frame.lhs) /\ Size(Frame.lhs) \in MachineInt
      /\ Size(Frame.rhs) = Word(mem, Frame.rhs) /\ Size(Frame.rhs) \in MachineInt
      /\ Frame.lhs \in Int /\ Frame.rhs \in Int
  BY <1>6, <1>7
<1>9. ASSUME NEW n \in MachineInt, NEW x \in {0, 1}, NEW v \in Int, IsVector(G, v),
             \/ Frame.at = "match_lhs" /\ n = Word(mem, Frame.rhs)
             \/ Frame.at = "match_rhs" /\ n = Word(mem, Frame.lhs),
             frames' = Append(frames, NewFrame("increase_vector_size", <<n, x>>, v, 0, "alloc"))
      PROVE  OwnedInv'
  <2> DEFINE f == NewFrame("increase_vector_size", <<n, x>>, v, 0, "alloc")
  <2>1. n \in Int /\ x \in Int /\ x \in MachineInt /\ 0 \in Int
    BY DEF MachineInt, MinInt
  <2>2. "increase_vector_size" \notin Ops \cup WithRhs /\ "increase_vector_size" # "print_vector"
    BY DEF IntOps, ArithmeticOps, BooleanOps, WithRhs
  <2>3. f \in IntFrame /\ FrameOK(mem, S, G, f) /\ f.dst = 0 /\ f.op = "increase_vector_size"
    <3>1. <<n, x>> \in Seq(Int) /\ Len(<<n, x>>) = 2 /\ <<n, x>>[1] = n /\ <<n, x>>[2] = x
      BY <2>1
    <3>2. ArgumentsOK(G, "increase_vector_size", <<n, x>>, v, 0, "alloc")
      BY <1>9, <2>1, <2>2, <3>1 DEF ArgumentsOK
    <3> QED
      BY <3>2, NewFrameOK
  <2>4. f.args[1] = n
    BY DEF NewFrame
  <2>5. frames' = Append(frames, f)
    BY <1>9
  <2> HIDE DEF f
  <2>6. CalledBy(mem, Top(frames), f)
    BY <1>9, <2>3, <2>4 DEF CalledBy, Frame
  <2>7. Owned(mem, S, G, Append(frames, f), vectors)
    BY <1>1, <1>3, <1>4, <2>3, <2>6, OwnedPushed
  <2> QED
    BY <1>1, <1>5, <2>5, <2>7 DEF OwnedInv
<1>10. ASSUME NEW at \in {"match_rhs", "alloc"},
              \/ at = "match_rhs" /\ Word(mem, Frame.rhs) <= Word(mem, Frame.lhs)
              \/ at = "alloc" /\ Word(mem, Frame.lhs) = Word(mem, Frame.rhs),
              frames' = Append(Pop(frames), [Frame EXCEPT !.at = at])
       PROVE  OwnedInv'
  <2> DEFINE f == [Frame EXCEPT !.at = at]
  <2>1. /\ f \in IntFrame /\ f.op = Frame.op /\ f.args = Frame.args /\ f.dst = Frame.dst
        /\ f.size = Frame.size /\ f.elem = Frame.elem /\ f.body = Frame.body
        /\ f.lhs = Frame.lhs /\ f.rhs = Frame.rhs /\ f.at = at
    BY <1>3 DEF IntFrame, AnyFrame, Places
  <2>2. frames' = Append(Pop(frames), f)
    BY <1>10
  <2> HIDE DEF f
  <2>3. FrameOK(mem, S, G, f)
    BY <1>2, <1>3, <1>6, <1>10, <2>1, OperationGoesOn
  <2>4. Elsewhere(mem, mem, S, S, brk, G, G, 0)
    BY <1>3, <1>4, NothingStored
  <2>5. Owned(mem, S, G, Append(Pop(frames), f), vectors)
    BY <1>1, <1>2, <1>3, <2>1, <2>3, <2>4, OwnedReplaced DEF Frame
  <2> QED
    BY <1>1, <1>5, <2>2, <2>5 DEF OwnedInv
<1>11. CASE MatchLhs
  <2>1. CASE Size(Frame.lhs) < Size(Frame.rhs)
    BY <1>6, <1>7, <1>8, <1>9, <1>11, <2>1 DEF MatchLhs
  <2>2. CASE ~(Size(Frame.lhs) < Size(Frame.rhs))
    <3>1. Word(mem, Frame.rhs) <= Word(mem, Frame.lhs)
      BY <1>7, <1>8, <2>2 DEF MachineInt, MinInt
    <3> QED
      BY <1>10, <1>11, <2>2, <3>1 DEF MatchLhs
  <2> QED
    BY <2>1, <2>2
<1>12. CASE MatchRhs
  <2>1. CASE Size(Frame.rhs) < Size(Frame.lhs)
    <3>1. DefaultValue(Frame.op) \in {0, 1}
      BY DEF DefaultValue
    <3> QED
      BY <1>6, <1>7, <1>8, <1>9, <1>12, <2>1, <3>1 DEF MatchRhs
  <2>2. CASE ~(Size(Frame.rhs) < Size(Frame.lhs))
    <3>1. Word(mem, Frame.lhs) = Word(mem, Frame.rhs)
      BY <1>6, <1>7, <1>8, <1>12, <2>2 DEF MachineInt, MinInt, MatchRhs
    <3> QED
      BY <1>10, <1>12, <2>2, <3>1 DEF MatchRhs
  <2> QED
    BY <2>1, <2>2
<1> QED
  BY <1>11, <1>12

----------------------------------------------------------------------------
(* Returns. *)

LEMMA ReturnKeepsOwners ==
    ASSUME OwnerInv, Return \/ ReturnIncreased \/ ReturnPrinted
    PROVE  OwnedInv'
<1> DEFINE S == Allocations
<1>1. PICK G \in SUBSET S : Owned(mem, S, G, frames, vectors)
  BY DEF OwnerInv, OwnedInv
<1>2. frames # <<>> /\ Frame.at = "loop" /\ ~(Frame.i < Frame.size)
  BY DEF Return, ReturnIncreased, ReturnPrinted, LoopDone
<1>3. /\ frames \in Seq(IntFrame) /\ Frame \in IntFrame /\ FrameOK(mem, S, G, Frame)
      /\ G \subseteq S /\ \A a \in G : Complete(mem, S, a)
  BY <1>1, <1>2, RunningOK
<1>4. BlocksOK(S, brk) /\ WordsOK(mem, S)
  BY DEF OwnerInv
<1>5. mem' = mem /\ Allocations' = S
  BY DEF Return, ReturnIncreased, ReturnPrinted, Allocations
<1> HIDE DEF S
<1>6. ASSUME Frame.op # "print_vector"
      PROVE  \E a \in S :
                /\ Owned(mem, S, G \cup {a}, Pop(frames), vectors)
                /\ IsVector(G \cup {a}, Frame.dst)
                /\ Frame.op # "filter" => Word(mem, Frame.dst) = Frame.size
  <2>1. PICK a \in S : a.addr = Frame.dst /\ Complete(mem, S, a)
    BY <1>2, <1>3, <1>4, <1>6, LoopCompletes
  <2>2. Frame.op # "filter" => Word(mem, Frame.dst) = Frame.size
    BY <1>2, <1>3, <1>4, <1>6, LoopCompletes
  <2>3. a.addr = Top(frames).dst
    BY <2>1 DEF Frame
  <2>4. /\ Owned(mem, S, G \cup {a}, Pop(frames), vectors)
        /\ IsVector(G \cup {a}, Top(frames).dst)
    BY <1>1, <1>2, <1>3, <1>4, <2>1, <2>3, OwnedPopped
  <2> QED
    BY <2>2, <2>4 DEF Frame
<1>7. CASE Return
  <2>1. Frame.op # "print_vector" /\ vectors' = Append(vectors, Frame.dst) /\ frames' = Pop(frames)
    BY <1>7 DEF Return
  <2>2. PICK a \in S : /\ Owned(mem, S, G \cup {a}, Pop(frames), vectors)
                       /\ IsVector(G \cup {a}, Frame.dst)
    BY <1>6, <2>1
  <2>3. vectors \in Seq(Nat)
    BY DEF OwnerInv, DisjointInv, HoldsInts
  <2>4. \A k \in DOMAIN vectors' : IsVector(G \cup {a}, vectors'[k])
    <3> SUFFICES ASSUME NEW k \in DOMAIN vectors' PROVE IsVector(G \cup {a}, vectors'[k])
      OBVIOUS
    <3>1. (k \in DOMAIN vectors /\ vectors'[k] = vectors[k]) \/ vectors'[k] = Frame.dst
      BY <2>1, <2>3
    <3> QED
      BY <2>2, <3>1 DEF Owned
  <2>5. Owned(mem, S, G \cup {a}, frames', vectors')
    BY <2>1, <2>2, <2>4 DEF Owned
  <2> QED
    BY <1>3, <1>5, <2>5 DEF OwnedInv
<1>8. CASE ReturnPrinted
  <2>1. StackOK(mem, S, G, Pop(frames))
    BY <1>1, <1>2, <1>3, StackPopped DEF Owned
  <2>2. Owned(mem, S, G, frames', vectors')
    BY <1>1, <1>8, <2>1 DEF Owned, ReturnPrinted
  <2> QED
    BY <1>1, <1>5, <2>2 DEF OwnedInv
<1>9. CASE ReturnIncreased
  <2> DEFINE below == Pop(frames)
             caller == Top(below)
             g == Resume(caller)
  <2>1. Frame.op = "increase_vector_size" /\ vectors' = vectors
        /\ frames' = Append(Pop(below), g)
    BY <1>9 DEF ReturnIncreased
  <2>2. below # <<>>
    <3>1. frames[1].op # "increase_vector_size"
      BY <1>2 DEF OwnerInv, DisjointInv, HoldsInts, GoodFrames
    <3>2. Len(frames) # 1 /\ Len(frames) \in Nat \ {0} /\ Len(below) = Len(frames) - 1
      BY <1>2, <1>3, <2>1, <3>1, TopAndPop DEF Frame, Top
    <3>3. Len(below) # 0
      BY <3>2
    <3> QED
      BY <3>3
  <2>3. PICK a \in S : /\ Owned(mem, S, G \cup {a}, below, vectors)
                       /\ IsVector(G \cup {a}, Frame.dst)
                       /\ Word(mem, Frame.dst) = Frame.size
    <3>1. Frame.op # "print_vector" /\ Frame.op # "filter"
      BY <2>1
    <3> QED
      BY <1>6, <3>1
  <2> DEFINE H == G \cup {a}
  <2>4. CalledBy(mem, caller, Frame) /\ below \in Seq(IntFrame)
    BY <1>1, <1>2, <1>3, <2>2, StackPopped, TopAndPop DEF Owned, Frame
  <2>5. Frame.size = Frame.args[1]
    BY <1>2, <1>3, <2>1 DEF FrameOK, StageOK
  <2> HIDE DEF below, H
  <2>6. StackOK(mem, S, H, below) /\ H \subseteq S
    BY <2>3 DEF Owned, H
  <2>7. caller \in IntFrame /\ FrameOK(mem, S, H, caller)
    BY <2>2, <2>4, <2>6, StackPopped, TopAndPop
  <2> HIDE DEF caller
  <2>8. /\ caller.at \in {"match_lhs", "match_rhs"}
        /\ caller.at = "match_lhs" => Frame.args[1] = Word(mem, caller.rhs)
        /\ caller.at = "match_rhs" => Frame.args[1] = Word(mem, caller.lhs)
    BY <2>1, <2>4 DEF CalledBy
  <2>9. IsVector(H, caller.lhs) /\ IsVector(H, caller.rhs) /\ IsVector(H, Frame.dst)
    BY <2>3, <2>7, <2>8, WaitingOperation DEF H
  <2>10. /\ g \in IntFrame /\ g.op = caller.op /\ g.args = caller.args /\ g.dst = caller.dst
         /\ g.size = caller.size /\ g.elem = caller.elem /\ g.body = caller.body
         /\ caller.at = "match_lhs" => /\ g.lhs = Frame.dst /\ g.rhs = caller.rhs
                                       /\ g.at = "match_rhs"
         /\ caller.at = "match_rhs" => /\ g.lhs = caller.lhs /\ g.rhs = Frame.dst
                                       /\ g.at = "alloc"
    <3>1. Frame.dst \in Int
      BY <1>3 DEF IntFrame, AnyFrame
    <3>2. g \in IntFrame
      BY <2>7, <3>1, ChangedFrame DEF Resume
    <3>3. caller \in AnyFrame
      BY <2>7 DEF IntFrame
    <3> QED
      BY <2>8, <3>2, <3>3 DEF AnyFrame, Resume
  <2> HIDE DEF g
  <2>11. Frame.size \in Int
    BY <1>3 DEF IntFrame, AnyFrame
  <2>12. FrameOK(mem, S, H, g)
    <3>1. IsVector(H, g.lhs) /\ IsVector(H, g.rhs)
      BY <2>8, <2>9, <2>10
    <3>2. \/ g.at = "match_rhs" /\ Word(mem, g.rhs) <= Word(mem, g.lhs)
          \/ g.at = "alloc" /\ Word(mem, g.lhs) = Word(mem, g.rhs)
      BY <2>3, <2>5, <2>8, <2>10, <2>11
    <3> QED
      BY <2>7, <2>8, <2>10, <3>1, <3>2, OperationGoesOn
  <2>13. Elsewhere(mem, mem, S, S, brk, H, H, 0)
    BY <1>4, <2>6, NothingStored
  <2>14. Owned(mem, S, H, below, vectors)
    BY <2>3 DEF H
  <2>15. Owned(mem, S, H, Append(Pop(below), g), vectors)
    BY <2>2, <2>4, <2>10, <2>12, <2>13, <2>14, OwnedReplaced DEF caller
  <2> QED
    BY <1>5, <2>1, <2>6, <2>15 DEF OwnedInv
<1> QED
  BY <1>7, <1>8, <1>9


----------------------------------------------------------------------------
(* Allocation (GenerateVectorTypePtr). *)

LEMMA BlocksGrow ==
    ASSUME NEW S, NEW b, BlocksOK(S, b), NEW a, a.addr \in Nat, a.addr >= b,
           a.size \in MachineInt, NEW c \in Nat, LastWord(a) < c
    PROVE  BlocksOK(S \cup {a}, c)
<1>1. b \in Nat /\ b > 0
  BY DEF BlocksOK
<1>2. LastWord(a) \in Int /\ LastWord(a) >= a.addr /\ a.addr > 0
  BY <1>1 DEF LastWord, Maximum, MachineInt, MinInt
<1>3. \A e \in S : /\ e.addr \in Nat /\ e.addr > 0 /\ e.size \in MachineInt
                   /\ LastWord(e) < b /\ LastWord(e) \in Int
  BY DEF BlocksOK, LastWord, Maximum, MachineInt, MinInt
<1>4. \A e \in S \cup {a} : e.addr \in Nat /\ e.addr > 0 /\ e.size \in MachineInt /\ LastWord(e) < c
  BY <1>1, <1>2, <1>3
<1>5. \A e \in S : LastWord(e) < a.addr
  BY <1>1, <1>3
<1>6. \A e, f \in S : e = f \/ LastWord(e) < f.addr \/ LastWord(f) < e.addr
  BY DEF BlocksOK
<1>7. \A e, f \in S \cup {a} : e = f \/ LastWord(e) < f.addr \/ LastWord(f) < e.addr
  BY <1>5, <1>6
<1>8. c > 0
  BY <1>2
<1> QED
  BY <1>4, <1>7, <1>8 DEF BlocksOK

\* The size of the result is an int, and for an operation on vectors that of both operands.
LEMMA ResultSizeOK ==
    ASSUME NEW S, NEW b, BlocksOK(S, b), WordsOK(mem, S), NEW G, G \subseteq S,
           \A a \in G : Complete(mem, S, a), NEW f \in IntFrame, FrameOK(mem, S, G, f),
           f.op # "print_vector"
    PROVE  /\ ResultSize(f) \in MachineInt
           /\ f.op \in Ops \cup Scoped => ResultSize(f) = Word(mem, f.lhs)
           /\ f.op = "vector_index_vector" => ResultSize(f) = Word(mem, f.rhs)
           /\ f.op = "increase_vector_size" => ResultSize(f) = f.args[1]
<1>1. \A v : IsVector(G, v) => Size(v) = Word(mem, v) /\ Size(v) \in MachineInt
  BY GivenVector
<1>2. Ops \cap (OtherFunctions \cup {"increase_vector_size"}) = {}
  BY DEF IntOps, ArithmeticOps, BooleanOps, OtherFunctions, Scoped
<1>3. f.op \in Ops \cup OtherFunctions \cup {"increase_vector_size"}
  BY DEF IntFrame, AnyFrame
<1>4. OperandsOK(G, f) /\ RegistersOK(S, f)
  BY DEF FrameOK
<1>5. CASE f.op = "vector_range"
  <2>1. f.args[1] \in MachineInt /\ f.args[2] \in MachineInt
    BY <1>4, <1>5 DEF RegistersOK, IntArgs
  <2>2. f.args[2] - f.args[1] \in Int
    BY <2>1 DEF MachineInt, MinInt
  <2>3. Wrap(f.args[2] - f.args[1]) \in Int
    BY <2>2, WrapIsMachineInt DEF MachineInt, MinInt
  <2>4. Wrap(Wrap(f.args[2] - f.args[1]) + 1) \in MachineInt
    BY <2>3, WrapIsMachineInt
  <2>5. ResultSize(f) \in MachineInt
    BY <1>5, <2>4 DEF ResultSize, MachineInt, MinInt
  <2> QED
    BY <1>2, <1>5, <2>5 DEF OtherFunctions, Scoped
<1>6. CASE f.op \in {"int_to_vector", "increase_vector_size"}
  BY <1>2, <1>4, <1>6 DEF ResultSize, RegistersOK, IntArgs, OtherFunctions, Scoped
<1>7. CASE f.op = "vector_index_vector"
  <2>1. ResultSize(f) = Size(f.rhs) /\ IsVector(G, f.rhs)
    BY <1>4, <1>7 DEF ResultSize, OperandsOK, WithRhs
  <2> QED
    BY <1>1, <1>2, <1>7, <2>1 DEF OtherFunctions, Scoped
<1>8. CASE f.op \in Ops \cup Scoped
  <2>1. f.op \notin {"vector_range", "int_to_vector", "increase_vector_size", "vector_index_vector"}
    BY <1>2, <1>8 DEF OtherFunctions, Scoped
  <2>2. ResultSize(f) = Size(f.lhs) /\ IsVector(G, f.lhs)
    BY <1>4, <1>8, <2>1 DEF ResultSize, OperandsOK, WithLhs
  <2> QED
    BY <1>1, <2>1, <2>2
<1> QED
  BY <1>3, <1>5, <1>6, <1>7, <1>8 DEF OtherFunctions, Scoped

\* The operands of a call are not the vector that is stored into.
LEMMA OperandsKept ==
    ASSUME NEW m, NEW m2, NEW S, NEW S2, NEW b, NEW G, NEW G2, NEW d,
           Elsewhere(m, m2, S, S2, b, G, G2, d), NEW f, OperandsOK(G, f)
    PROVE  /\ f.op \in WithLhs => Word(m2, f.lhs) = Word(m, f.lhs)
           /\ f.op \in WithRhs => Word(m2, f.rhs) = Word(m, f.rhs)
<1>1. ASSUME NEW v, IsVector(G, v) PROVE Word(m2, v) = Word(m, v)
  <2>1. PICK a \in G : a.addr = v
    BY <1>1 DEF IsVector
  <2>2. a \in S /\ a.addr # d
    BY DEF Elsewhere
  <2>3. Word(m2, a.addr) = Word(m, a.addr)
    BY <2>2, VectorKept
  <2> QED
    BY <2>1, <2>3
<1> QED
  BY <1>1 DEF OperandsOK

\* A call that builds its vector, with the vector as it now is.
LEMMA BuildingFrame ==
    ASSUME NEW m, NEW m2, NEW S, NEW S2, NEW b, NEW G, NEW d,
           Elsewhere(m, m2, S, S2, b, G, G, d),
           NEW f, FrameOK(m, S, G, f), f.op # "print_vector",
           NEW g, g.op = f.op, g.args = f.args, g.lhs = f.lhs, g.rhs = f.rhs,
           g.at \in {"loop", "body"}, g.at = "body" => g.op \in Scoped,
           g.size \in MachineInt, g.elem \in LoadedFrom(S2), g.body \in Seq(MachineInt),
           \/ f.at \in {"loop", "body"} /\ g.size = f.size
           \/ /\ f.at = "alloc"
              /\ f.op \in Ops \cup Scoped => g.size = Word(m, f.lhs)
              /\ f.op = "vector_index_vector" => g.size = Word(m, f.rhs)
              /\ f.op = "increase_vector_size" => g.size = f.args[1],
           BuildsOK(m2, S2, g)
    PROVE  FrameOK(m2, S2, G, g)
<1>1. OperandsOK(G, f) /\ StageOK(m, f) /\ RegistersOK(S, f)
  BY DEF FrameOK
<1>2. Ops \cap (OtherFunctions \cup {"increase_vector_size"}) = {}
  BY DEF IntOps, ArithmeticOps, BooleanOps, OtherFunctions, Scoped
<1>3. /\ f.op \in WithLhs => Word(m2, f.lhs) = Word(m, f.lhs)
      /\ f.op \in WithRhs => Word(m2, f.rhs) = Word(m, f.rhs)
  BY <1>1, OperandsKept
<1>4. OperandsOK(G, g)
  BY <1>1 DEF OperandsOK
<1>5. g.op \in Ops => Word(m2, g.lhs) = Word(m2, g.rhs)
  <2> SUFFICES ASSUME g.op \in Ops PROVE Word(m2, g.lhs) = Word(m2, g.rhs)
    OBVIOUS
  <2>1. f.at \in {"alloc", "loop"}
    BY <1>1, <1>2 DEF StageOK, OtherFunctions
  <2>2. Word(m, f.lhs) = Word(m, f.rhs)
    BY <1>1, <2>1 DEF StageOK
  <2> QED
    BY <1>3, <2>2 DEF WithLhs, WithRhs
<1>6. g.op \in Ops \cup Scoped => g.size = Word(m2, g.lhs)
  <2>1. f.op \in Ops \cup Scoped => g.size = Word(m, f.lhs)
    BY <1>1 DEF StageOK
  <2> QED
    BY <1>3, <2>1 DEF WithLhs
<1>7. g.op = "vector_index_vector" => g.size = Word(m2, g.rhs)
  <2>1. f.op = "vector_index_vector" => g.size = Word(m, f.rhs)
    BY <1>1 DEF StageOK
  <2> QED
    BY <1>3, <2>1 DEF WithRhs
<1>8. g.op = "increase_vector_size" => g.size = g.args[1]
  BY <1>1 DEF StageOK
<1>9. StageOK(m2, g)
  BY <1>5, <1>6, <1>7, <1>8 DEF StageOK
<1>10. RegistersOK(S2, g)
  BY <1>1 DEF RegistersOK
<1>11. Building(g)
  BY DEF Building
<1> QED
  BY <1>4, <1>9, <1>10, <1>11 DEF FrameOK

ElementsOf(s) == {s[k] : k \in DOMAIN s}

LEMMA AppendedElements ==
    ASSUME NEW R, NEW s \in Seq(R), NEW x
    PROVE  ElementsOf(Append(s, x)) = ElementsOf(s) \cup {x}
<1> DEFINE t == Append(s, x)
<1>1. DOMAIN t = DOMAIN s \cup {Len(s) + 1} /\ Len(s) + 1 \notin DOMAIN s
  OBVIOUS
<1>2. t[Len(s) + 1] = x /\ \A k \in DOMAIN s : t[k] = s[k]
  OBVIOUS
<1> HIDE DEF t
<1>3. ElementsOf(t) = ElementsOf(s) \cup {x}
  BY <1>1, <1>2 DEF ElementsOf
<1> QED
  BY <1>3 DEF t

LEMMA AllocateKeepsOwners ==
    ASSUME OwnerInv, Allocate, BytesFit'
    PROVE  /\ OwnedInv'
           /\ BlocksOK(Allocations', brk')
           /\ WordsOK(mem', Allocations')
           /\ Allocations \subseteq Allocations'
           /\ \A d : Same(mem, mem', Allocations, d)
<1> DEFINE S == Allocations
           size  == ResultSize(Frame)
           first == FirstSize(Frame)
<1>1. PICK G \in SUBSET S : Owned(mem, S, G, frames, vectors)
  BY DEF OwnerInv, OwnedInv
<1>2. frames # <<>> /\ Frame.at = "alloc" /\ vectors' = vectors
  BY DEF Allocate
<1>3. /\ frames \in Seq(IntFrame) /\ Frame \in IntFrame /\ FrameOK(mem, S, G, Frame)
      /\ G \subseteq S /\ \A a \in G : Complete(mem, S, a)
  BY <1>1, <1>2, RunningOK
<1>4. BlocksOK(S, brk) /\ WordsOK(mem, S) /\ Allocated
  BY DEF OwnerInv, DisjointInv
<1>5. Frame.op # "print_vector" /\ Frame.dst = 0
  BY <1>2, <1>3 DEF FrameOK, StageOK, Building
<1>6. /\ size \in MachineInt
      /\ Frame.op \in Ops \cup Scoped => size = Word(mem, Frame.lhs)
      /\ Frame.op = "vector_index_vector" => size = Word(mem, Frame.rhs)
      /\ Frame.op = "increase_vector_size" => size = Frame.args[1]
  BY <1>3, <1>4, <1>5, ResultSizeOK
<1>7. PICK g \in Gaps, h \in Gaps :
        LET v     == brk + g
            array == v + MinBlock + h
        IN  /\ mem' = Stored(Stored(Stored(mem, v + 4, Pointer), v + 5, Pointer), v, first)
            /\ brk' = array + Maximum(MinBlock, ArrayWords(size))
            /\ allocs' = Append(allocs, [addr |-> v, array |-> array, size |-> size])
            /\ SetFrame([Frame EXCEPT !.dst = v, !.size = size, !.i = 0, !.at = "loop"])
  BY DEF Allocate, GenerateVectorTypePtr
<1> DEFINE v == brk + g
           array == v + MinBlock + h
           a == [addr |-> v, array |-> array, size |-> size]
           f == [Frame EXCEPT !.dst = v, !.size = size, !.i = 0, !.at = "loop"]
           S2 == S \cup {a}
<1>8. v \in Nat /\ v >= brk /\ brk \in Nat /\ brk > 0
  BY <1>4 DEF BlocksOK
<1>9. first = IF Frame.op = "filter" THEN 0 ELSE size
  BY DEF FirstSize
<1>10. allocs' = Append(allocs, a) /\ frames' = Append(Pop(frames), f)
  BY <1>7 DEF SetFrame
<1>11. Allocations' = S2
  <2>1. Allocations' = ElementsOf(Append(allocs, a)) /\ Allocations = ElementsOf(allocs)
    BY <1>10 DEF Allocations, ElementsOf
  <2>2. allocs \in Seq(Allocation)
    BY <1>4 DEF Allocated
  <2> HIDE DEF a
  <2>3. ElementsOf(Append(allocs, a)) = ElementsOf(allocs) \cup {a}
    BY <2>2, AppendedElements
  <2> QED
    BY <2>1, <2>3
<1>12. mem' = Stored(Stored(Stored(mem, v + 4, Pointer), v + 5, Pointer), v, first)
  BY <1>7
<1>13. a.addr = v /\ a.size = size
  OBVIOUS
<1>14. Allocated' /\ VectorsDisjoint'
  BY AllocateKeepsDisjoint DEF OwnerInv
<1> HIDE DEF S, size, first, v, array, a
<1>15. LastWord(a) < brk' /\ brk' \in Nat
  <2>1. Len(allocs) + 1 \in DOMAIN allocs' /\ allocs'[Len(allocs) + 1] = a
    BY <1>4, <1>10 DEF Allocated
  <2> QED
    BY <1>14, <2>1 DEF VectorsDisjoint, Allocated, LastWord
<1>16. BlocksOK(S2, brk')
  BY <1>4, <1>6, <1>8, <1>13, <1>15, BlocksGrow
<1>17. WordsOK(mem', S2)
  <2>1. first \in LoadedFrom(S2)
    <3>1. 0 \in MachineInt
      BY DEF MachineInt, MinInt
    <3> QED
      BY <1>6, <1>9, <3>1, LoadedGrows
  <2>2. v + 4 \in Nat /\ v + 5 \in Nat /\ S \subseteq S2 /\ S2 \subseteq S2
    BY <1>8
  <2> HIDE DEF S2
  <2>3. WordsOK(Stored(mem, v + 4, Pointer), S2)
    BY <1>4, <2>2, StoredWordsOK
  <2>4. WordsOK(Stored(Stored(mem, v + 4, Pointer), v + 5, Pointer), S2)
    BY <2>2, <2>3, StoredWordsOK
  <2> QED
    BY <1>8, <1>12, <2>1, <2>2, <2>4, StoredWordsOK
<1>18. \A w : w # v /\ w # v + 4 /\ w # v + 5 => Word(mem', w) = Word(mem, w)
  BY <1>12, WordStored
<1>19. Word(mem', v) = first
  BY <1>12, WordStored
<1>20. ASSUME NEW d PROVE Same(mem, mem', S, d)
  <2> SUFFICES ASSUME NEW c \in S, NEW w \in c.addr..(c.addr + Maximum(0, c.size))
               PROVE  Word(mem', w) = Word(mem, w)
    BY DEF Same
  <2>1. c.addr \in Nat /\ c.size \in Int /\ LastWord(c) < brk
    BY <1>4 DEF BlocksOK, MachineInt, MinInt
  <2>2. w <= LastWord(c) /\ w \in Int /\ LastWord(c) \in Int
    BY <2>1 DEF LastWord, Maximum
  <2>3. w < v
    BY <1>8, <2>1, <2>2
  <2> QED
    BY <1>8, <1>18, <2>2, <2>3
<1>21. Elsewhere(mem, mem', S, S2, brk, G, G, 0)
  BY <1>3, <1>4, <1>20 DEF Elsewhere, BlocksOK
<1>22. /\ f \in IntFrame /\ f.op = Frame.op /\ f.args = Frame.args /\ f.lhs = Frame.lhs
       /\ f.rhs = Frame.rhs /\ f.dst = v /\ f.size = size /\ f.i = 0 /\ f.at = "loop"
       /\ f.elem = Frame.elem /\ f.body = Frame.body
  <2>1. size \in Int
    BY <1>6 DEF MachineInt, MinInt
  <2> QED
    BY <1>3, <1>8, <2>1 DEF IntFrame, AnyFrame, Places
<1> HIDE DEF f
<1>23. BuildsOK(mem', S2, f)
  <2>1. \E c \in S2 : c.addr = f.dst /\ c.size = f.size
    BY <1>13, <1>22
  <2>2. f.i <= Maximum(0, f.size) /\ f.at # "body"
    BY <1>6, <1>22 DEF Maximum, MachineInt, MinInt
  <2>3. Word(mem', f.dst) \in IF f.op = "filter" THEN 0..f.i ELSE {f.size}
    BY <1>9, <1>19, <1>22
  <2>4. Filled(mem', f) = 0
    BY <1>9, <1>19, <1>22 DEF Filled
  <2>5. Holds(mem', S2, f.dst, 0)
    BY DEF Holds
  <2> QED
    BY <2>1, <2>2, <2>3, <2>4, <2>5 DEF BuildsOK
<1>24. Frame.elem \in LoadedFrom(S2) /\ Frame.body \in Seq(MachineInt)
  BY <1>3, LoadedGrows DEF FrameOK, RegistersOK
<1>25. FrameOK(mem', S2, G, f)
  BY <1>2, <1>3, <1>5, <1>6, <1>21, <1>22, <1>23, <1>24, BuildingFrame
<1>26. v \notin {frames[j].dst : j \in DOMAIN frames} \cup {c.addr : c \in G}
  <2>1. \A c \in S : c.addr \in Nat /\ c.addr < v
    <3>1. \A c \in S : c.addr \in Nat /\ c.addr <= LastWord(c) /\ LastWord(c) \in Int /\ LastWord(c) < brk
      BY <1>4 DEF BlocksOK, LastWord, Maximum, MachineInt, MinInt
    <3> QED
      BY <1>8, <3>1
  <2>2. ASSUME NEW j \in DOMAIN frames PROVE frames[j].dst # v
    <3>1. FrameOK(mem, S, G, frames[j])
      BY <1>1 DEF Owned, StackOK
    <3>2. frames[j].dst = 0 \/ \E c \in S : c.addr = frames[j].dst
      BY <3>1 DEF FrameOK, BuildsOK
    <3> QED
      BY <1>8, <2>1, <3>2
  <2> QED
    BY <1>3, <2>1, <2>2
<1>27. Owned(mem', S2, G, Append(Pop(frames), f), vectors)
  BY <1>1, <1>2, <1>3, <1>21, <1>22, <1>25, <1>26, OwnedReplaced DEF Frame
<1>28. OwnedInv'
  <2>1. G \in SUBSET S2
    BY <1>3
  <2> QED
    BY <1>2, <1>10, <1>11, <1>27, <2>1 DEF OwnedInv
<1> QED
  BY <1>11, <1>16, <1>17, <1>20, <1>28 DEF S


----------------------------------------------------------------------------
(* Loops: an element is stored inside the block of the running call.       *)

\* Only words of the vector at d change.
StoresInBlock(m, m2, S, d) ==
    \A a \in S : a.addr = d =>
        \A w \in Int : w < a.addr \/ w > LastWord(a) => Word(m2, w) = Word(m, w)

\* Stores inside the block of one vector leave the others.
LEMMA OwnBlock ==
    ASSUME NEW m, NEW m2, NEW S, NEW b, BlocksOK(S, b), NEW G, G \subseteq S,
           NEW a \in S, \A c \in G : c.addr # a.addr, StoresInBlock(m, m2, S, a.addr)
    PROVE  Elsewhere(m, m2, S, S, b, G, G, a.addr)
<1>1. ASSUME NEW c \in S, c.addr # a.addr, NEW w \in c.addr..(c.addr + Maximum(0, c.size))
      PROVE  Word(m2, w) = Word(m, w)
  <2>1. LastWord(a) < c.addr \/ LastWord(c) < a.addr
    BY <1>1 DEF BlocksOK
  <2>2. /\ c.addr \in Nat /\ a.addr \in Nat /\ c.size \in Int /\ a.size \in Int
        /\ LastWord(c) = c.addr + Maximum(5, c.size)
        /\ LastWord(a) = a.addr + Maximum(5, a.size)
    BY DEF BlocksOK, LastWord, MachineInt, MinInt
  <2>3. w < a.addr \/ w > LastWord(a)
    BY <2>1, <2>2 DEF Maximum
  <2>4. w \in Int
    BY <2>2 DEF Maximum
  <2> QED
    BY <2>3, <2>4 DEF StoresInBlock
<1> QED
  BY <1>1 DEF Elsewhere, Same

\* The running call stores into its vector and goes on.
LEMMA BuildingStep ==
    ASSUME OwnerInv, frames # <<>>, Frame.op # "print_vector", Frame.at \in {"loop", "body"},
           NEW G \in SUBSET Allocations, Owned(mem, Allocations, G, frames, vectors),
           StoresInBlock(mem, mem', Allocations, Frame.dst),
           NEW g \in IntFrame, g.op = Frame.op, g.args = Frame.args, g.lhs = Frame.lhs,
           g.rhs = Frame.rhs, g.dst = Frame.dst, g.size = Frame.size,
           g.at \in {"loop", "body"}, g.at = "body" => g.op \in Scoped,
           g.elem \in LoadedFrom(Allocations), g.body \in Seq(MachineInt),
           BuildsOK(mem', Allocations, g),
           frames' = Append(Pop(frames), g), vectors' = vectors, allocs' = allocs
    PROVE  OwnedInv' /\ Elsewhere(mem, mem', Allocations, Allocations, brk, G, G, Frame.dst)
<1> DEFINE S == Allocations
<1>1. /\ frames \in Seq(IntFrame) /\ Frame \in IntFrame /\ FrameOK(mem, S, G, Frame)
      /\ G \subseteq S
  BY RunningOK
<1>2. BlocksOK(S, brk)
  BY DEF OwnerInv
<1>3. Allocations' = S
  BY DEF Allocations
<1>4. Building(Frame)
  BY DEF Building
<1>5. PICK a \in S : a.addr = Frame.dst
  BY <1>1, <1>4 DEF FrameOK, BuildsOK
<1>6. \A c \in G : c.addr # a.addr
  <2>1. \A c \in G : Frame.dst # c.addr
    BY RunningOK
  <2> QED
    BY <1>5, <2>1
<1>7. StoresInBlock(mem, mem', S, a.addr)
  BY <1>5
<1> HIDE DEF S
<1>8. Elsewhere(mem, mem', S, S, brk, G, G, Frame.dst)
  <2>1. Elsewhere(mem, mem', S, S, brk, G, G, a.addr)
    BY <1>1, <1>2, <1>6, <1>7, OwnBlock
  <2> QED
    BY <1>5, <2>1
<1>9. FrameOK(mem', S, G, g)
  <2>1. Frame.size \in MachineInt /\ g.elem \in LoadedFrom(S)
    BY <1>1 DEF FrameOK, RegistersOK, S
  <2>2. BuildsOK(mem', S, g)
    BY DEF S
  <2> QED
    BY <1>1, <1>8, <2>1, <2>2, BuildingFrame
<1>10. Owned(mem, S, G, frames, vectors)
  BY DEF S
<1>11. Owned(mem', S, G, Append(Pop(frames), g), vectors)
  BY <1>1, <1>8, <1>9, <1>10, OwnedReplaced DEF Frame
<1>12. OwnedInv'
  BY <1>1, <1>3, <1>11 DEF OwnedInv
<1> QED
  BY <1>8, <1>12 DEF S

\* What a call of the runtime stores in an element was loaded or computed from ints.
LEMMA LoopValueIsLoaded ==
    ASSUME OwnerInv, InLoop, Frame.op \notin Scoped \cup {"print_vector"}, ~DivisionUndefined
    PROVE  LoopValue(Frame) \in LoadedFrom(Allocations)
<1> DEFINE S == Allocations
<1>1. PICK G \in SUBSET S : Owned(mem, S, G, frames, vectors)
  BY DEF OwnerInv, OwnedInv
<1>2. frames # <<>> /\ Frame.at = "loop" /\ Frame.i < Frame.size
  BY DEF InLoop
<1>3. /\ Frame \in IntFrame /\ FrameOK(mem, S, G, Frame)
      /\ G \subseteq S /\ \A a \in G : Complete(mem, S, a)
  BY <1>1, <1>2, RunningOK
<1>4. BlocksOK(S, brk) /\ WordsOK(mem, S) /\ HoldsInts
  BY DEF OwnerInv, DisjointInv
<1>5. CASE Wraps(S)
  <2>1. LoopValue(Frame) \in Int
    BY <1>4, LoopValueIsInt
  <2> QED
    BY <1>5, <2>1 DEF LoadedFrom
<1>6. CASE ~Wraps(S)
  <2> HIDE DEF S
  <2>1. LoadedFrom(S) = MachineInt
    BY <1>6 DEF LoadedFrom
  <2>2. ASSUME NEW v, IsVector(G, v)
        PROVE  /\ Size(v) = Word(mem, v) /\ Size(v) \in MachineInt
               /\ \A i \in Int : VectorIndex(v, i) \in MachineInt
               /\ \A i \in 0..(Size(v) - 1) : Element(v, i) \in MachineInt
    BY <1>3, <1>4, <2>1, <2>2, GivenVector
  <2>3. OperandsOK(G, Frame) /\ StageOK(mem, Frame) /\ RegistersOK(S, Frame)
    BY <1>3 DEF FrameOK
  <2>4. Frame.i \in Nat /\ Frame.op \in Ops \cup OtherFunctions \cup {"increase_vector_size"}
    BY <1>3 DEF IntFrame, AnyFrame
  <2>5. Frame.op \in IntArgs => Frame.args[1] \in MachineInt /\ Frame.args[2] \in MachineInt
    BY <2>3 DEF RegistersOK
  <2>6. CASE Frame.op = "vector_range"
    <3>1. Frame.args[1] + Frame.i \in Int
      BY <2>4, <2>5, <2>6 DEF IntArgs, MachineInt, MinInt
    <3> QED
      BY <2>1, <2>6, <3>1, WrapIsMachineInt DEF LoopValue, S
  <2>7. CASE Frame.op = "int_to_vector"
    BY <2>1, <2>5, <2>7 DEF LoopValue, IntArgs, S
  <2>8. CASE Frame.op = "increase_vector_size"
    <3>1. IsVector(G, Frame.lhs)
      BY <2>3, <2>8 DEF OperandsOK, WithLhs
    <3>2. Frame.i < Size(Frame.lhs) => Element(Frame.lhs, Frame.i) \in MachineInt
      <4>1. Size(Frame.lhs) \in MachineInt
        BY <2>2, <3>1
      <4>2. Frame.i < Size(Frame.lhs) => Frame.i \in 0..(Size(Frame.lhs) - 1)
        BY <2>4, <4>1 DEF MachineInt, MinInt
      <4>3. \A i \in 0..(Size(Frame.lhs) - 1) : Element(Frame.lhs, i) \in MachineInt
        BY <2>2, <3>1
      <4> QED
        BY <4>2, <4>3
    <3>3. CopyValue(Frame) \in MachineInt
      BY <2>5, <2>8, <3>2 DEF CopyValue, IntArgs
    <3> QED
      BY <2>1, <2>8, <3>3 DEF LoopValue, S
  <2>9. CASE Frame.op = "vector_index_vector"
    <3>1. IsVector(G, Frame.lhs) /\ IsVector(G, Frame.rhs)
      BY <2>3, <2>9 DEF OperandsOK, WithLhs, WithRhs
    <3>2. VectorIndex(Frame.rhs, Frame.i) \in Int
      BY <2>2, <2>4, <3>1 DEF MachineInt, MinInt
    <3>3. VectorIndex(Frame.lhs, VectorIndex(Frame.rhs, Frame.i)) \in MachineInt
      BY <2>2, <3>1, <3>2
    <3> QED
      BY <2>1, <2>9, <3>3 DEF LoopValue, S
  <2>10. CASE Frame.op \in Ops
    <3>1. IsVector(G, Frame.lhs) /\ IsVector(G, Frame.rhs)
      BY <2>3, <2>10 DEF OperandsOK, WithLhs, WithRhs
    <3>2. Frame.size = Size(Frame.lhs) /\ Frame.size = Size(Frame.rhs)
      BY <1>2, <2>2, <2>3, <2>10, <3>1 DEF StageOK
    <3>3. Frame.i \in 0..(Size(Frame.lhs) - 1) /\ Frame.i \in 0..(Size(Frame.rhs) - 1)
      <4>1. Frame.size \in Int
        BY <1>3 DEF IntFrame, AnyFrame
      <4> QED
        BY <1>2, <2>4, <3>2, <4>1
    <3>4. Element(Frame.lhs, Frame.i) \in MachineInt /\ Element(Frame.rhs, Frame.i) \in MachineInt
      BY <2>2, <3>1, <3>3
    <3>5. ~Undefined(Frame.op, Element(Frame.lhs, Frame.i), Element(Frame.rhs, Frame.i))
      BY <2>10 DEF DivisionUndefined
    <3>6. IntOperation(Frame.op, Element(Frame.lhs, Frame.i), Element(Frame.rhs, Frame.i))
             \in MachineInt
      BY <2>10, <3>4, <3>5, IntOperationInRange
    <3>7. Frame.op \notin {"vector_range", "int_to_vector", "increase_vector_size",
                           "vector_index_vector"}
      BY <2>10 DEF IntOps, ArithmeticOps, BooleanOps
    <3> QED
      BY <2>1, <3>6, <3>7 DEF LoopValue, S
  <2> QED
    BY <2>4, <2>6, <2>7, <2>8, <2>9, <2>10 DEF OtherFunctions, Scoped
<1> QED
  BY <1>5, <1>6

\* What a loop of the runtime or a generator's body stores is in the vector's block.
LEMMA ElementStored ==
    ASSUME NEW m, NEW S, NEW b, BlocksOK(S, b), NEW f, f \in IntFrame, BuildsOK(m, S, f),
           f.op # "filter", f.i < f.size, NEW x \in LoadedFrom(S), NEW m2,
           m2 = Stored(m, f.dst + 1 + f.i, x),
           NEW g, g.op = f.op, g.dst = f.dst, g.size = f.size, g.i = f.i + 1, g.at = "loop"
    PROVE  /\ StoresInBlock(m, m2, S, f.dst)
           /\ BuildsOK(m2, S, g)
           /\ f.dst + 1 + f.i \in Nat
<1> DEFINE e == f.dst + 1 + f.i
<1>1. f.dst \in Nat /\ f.i \in Nat /\ f.size \in Int
  BY DEF IntFrame, AnyFrame
<1>2. \A w : w # e => Word(m2, w) = Word(m, w)
  BY WordStored
<1>3. Word(m2, e) = x
  BY WordStored
<1>4. e \in Nat /\ e # f.dst
  BY <1>1
<1> HIDE DEF e
<1>5. PICK a \in S : a.addr = f.dst /\ a.size = f.size
  BY DEF BuildsOK
<1>6. LastWord(a) >= e
  BY <1>1, <1>5 DEF LastWord, Maximum, e
<1>7. \A c \in S : c.addr = f.dst => c = a
  <2> SUFFICES ASSUME NEW c \in S, c.addr = f.dst PROVE c = a
    OBVIOUS
  <2>1. c = a \/ LastWord(c) < a.addr \/ LastWord(a) < c.addr
    BY DEF BlocksOK
  <2>2. LastWord(c) >= c.addr /\ LastWord(a) >= a.addr /\ LastWord(c) \in Int /\ LastWord(a) \in Int
        /\ c.addr \in Nat /\ a.addr \in Nat
    BY DEF BlocksOK, LastWord, Maximum, MachineInt, MinInt
  <2> QED
    BY <1>5, <2>1, <2>2
<1>8. ASSUME NEW c \in S, c.addr = f.dst, NEW w \in Int, w < c.addr \/ w > LastWord(c)
      PROVE  Word(m2, w) = Word(m, w)
  <2>1. LastWord(c) >= e /\ LastWord(c) \in Int
    BY <1>6, <1>7, <1>8 DEF BlocksOK, LastWord, Maximum, MachineInt, MinInt
  <2>2. c.addr < e
    BY <1>1, <1>8 DEF e
  <2>3. w # e
    BY <1>1, <1>4, <1>8, <2>1, <2>2
  <2> QED
    BY <1>2, <2>3
<1>9. BuildsOK(m2, S, g)
  <2>1. g.i <= Maximum(0, g.size)
    BY <1>1 DEF Maximum
  <2>2. Word(m2, g.dst) = g.size
    BY <1>2, <1>4 DEF BuildsOK
  <2>3. Holds(m2, S, g.dst, g.i)
    <3> SUFFICES ASSUME ~Wraps(S), NEW j \in 0..(f.i)
                 PROVE  Word(m2, f.dst + 1 + j) \in MachineInt
      BY <1>1 DEF Holds
    <3>1. CASE j = f.i
      BY <1>3, <3>1 DEF e, LoadedFrom
    <3>2. CASE j # f.i
      <4>1. j \in 0..(f.i - 1) /\ f.dst + 1 + j # e
        BY <1>1, <3>2 DEF e
      <4>2. Holds(m, S, f.dst, f.i)
        BY DEF BuildsOK, Filled
      <4> QED
        BY <1>2, <4>1, <4>2 DEF Holds
    <3> QED
      BY <3>1, <3>2
  <2> QED
    BY <1>5, <2>1, <2>2, <2>3 DEF BuildsOK, Filled
<1>10. StoresInBlock(m, m2, S, f.dst)
  BY <1>8 DEF StoresInBlock
<1>11. f.dst + 1 + f.i \in Nat
  BY <1>4 DEF e
<1> QED
  BY <1>9, <1>10, <1>11

\* A filter stores an element it keeps behind those it has kept, and counts it.
LEMMA ElementKept ==
    ASSUME NEW m, NEW S, NEW b, BlocksOK(S, b), NEW f, f \in IntFrame, BuildsOK(m, S, f),
           f.op = "filter", f.i < f.size, f.size \in MachineInt,
           NEW x \in LoadedFrom(S), NEW m2, NEW kept \in BOOLEAN,
           m2 = IF kept
                THEN Stored(Stored(m, f.dst + 1 + Word(m, f.dst), x), f.dst,
                            Wrap(Word(m, f.dst) + 1))
                ELSE m,
           NEW g, g.op = f.op, g.dst = f.dst, g.size = f.size, g.i = f.i + 1, g.at = "loop"
    PROVE  /\ StoresInBlock(m, m2, S, f.dst)
           /\ BuildsOK(m2, S, g)
           /\ f.dst + 1 + Word(m, f.dst) \in Nat
           /\ Wrap(Word(m, f.dst) + 1) \in MachineInt
<1> DEFINE n == Word(m, f.dst)
           e == f.dst + 1 + n
<1>1. f.dst \in Nat /\ f.i \in Nat /\ f.size \in Int
  BY DEF IntFrame, AnyFrame
<1>2. n \in 0..f.i
  BY DEF BuildsOK
<1>3. e \in Nat /\ e > f.dst /\ n \in Nat /\ n <= f.i
  BY <1>1, <1>2
<1>4. n + 1 \in MachineInt /\ Wrap(n + 1) = n + 1
  <2> HIDE DEF n
  <2>1. n + 1 \in MachineInt
    BY <1>1, <1>3 DEF MachineInt, MinInt
  <2> QED
    BY <2>1, WrapOfInt
<1>5. \A w : w # e /\ w # f.dst => Word(m2, w) = Word(m, w)
  BY WordStored
<1>6. kept => Word(m2, e) = x /\ Word(m2, f.dst) = n + 1
  BY <1>1, <1>3, <1>4, WordStored
<1>7. ~kept => m2 = m
  OBVIOUS
<1> HIDE DEF n, e
<1>8. PICK a \in S : a.addr = f.dst /\ a.size = f.size
  BY DEF BuildsOK
<1>9. LastWord(a) >= e
  BY <1>1, <1>3, <1>8 DEF LastWord, Maximum, e
<1>10. \A c \in S : c.addr = f.dst => c = a
  <2> SUFFICES ASSUME NEW c \in S, c.addr = f.dst PROVE c = a
    OBVIOUS
  <2>1. c = a \/ LastWord(c) < a.addr \/ LastWord(a) < c.addr
    BY DEF BlocksOK
  <2>2. LastWord(c) >= c.addr /\ LastWord(a) >= a.addr /\ LastWord(c) \in Int /\ LastWord(a) \in Int
        /\ c.addr \in Nat /\ a.addr \in Nat
    BY DEF BlocksOK, LastWord, Maximum, MachineInt, MinInt
  <2> QED
    BY <1>8, <2>1, <2>2
<1>11. ASSUME NEW c \in S, c.addr = f.dst, NEW w \in Int, w < c.addr \/ w > LastWord(c)
       PROVE  Word(m2, w) = Word(m, w)
  <2>1. LastWord(c) >= e /\ LastWord(c) \in Int
    BY <1>9, <1>10, <1>11 DEF BlocksOK, LastWord, Maximum, MachineInt, MinInt
  <2>2. w # e /\ w # f.dst
    BY <1>1, <1>3, <1>11, <2>1
  <2> QED
    BY <1>5, <2>2
<1>12. BuildsOK(m2, S, g)
  <2> DEFINE n2 == Word(m2, f.dst)
  <2>1. g.i <= Maximum(0, g.size)
    BY <1>1 DEF Maximum
  <2>2. n2 = IF kept THEN n + 1 ELSE n
    BY <1>6, <1>7 DEF n
  <2>3. n2 \in 0..g.i
    BY <1>1, <1>3, <2>2
  <2> HIDE DEF n2
  <2>4. Holds(m2, S, f.dst, n2)
    <3> SUFFICES ASSUME ~Wraps(S), NEW j \in 0..(n2 - 1)
                 PROVE  Word(m2, f.dst + 1 + j) \in MachineInt
      BY DEF Holds
    <3>1. CASE kept /\ j = n
      BY <1>6, <3>1 DEF e, LoadedFrom
    <3>2. CASE ~(kept /\ j = n)
      <4>1. j \in 0..(n - 1)
        BY <1>3, <2>2, <3>2
      <4>2. f.dst + 1 + j # e /\ f.dst + 1 + j # f.dst
        BY <1>1, <1>3, <4>1 DEF e
      <4>3. Holds(m, S, f.dst, n)
        BY DEF BuildsOK, Filled, n
      <4>4. Word(m, f.dst + 1 + j) \in MachineInt
        BY <4>1, <4>3 DEF Holds
      <4> QED
        BY <1>5, <4>2, <4>4
    <3> QED
      BY <3>1, <3>2
  <2> QED
    BY <1>8, <2>1, <2>3, <2>4 DEF BuildsOK, Filled, n2
<1>13. StoresInBlock(m, m2, S, f.dst)
  BY <1>11 DEF StoresInBlock
<1>14. f.dst + 1 + Word(m, f.dst) \in Nat /\ Wrap(Word(m, f.dst) + 1) \in MachineInt
  BY <1>3, <1>4 DEF e, n
<1> QED
  BY <1>12, <1>13, <1>14


----------------------------------------------------------------------------
(* The vectors the program holds. *)

\* What VectorsNeverChange says of a step.
VectorsSame ==
    \A k \in DOMAIN vectors :
        /\ Size(vectors[k])' = Size(vectors[k])
        /\ \A i \in 0..(Size(vectors[k]) - 1) :
              Element(vectors[k], i)' = Element(vectors[k], i)

LEMMA StoresElsewhere ==
    ASSUME NEW S, NEW S2, NEW b, NEW G, NEW G2, NEW d, Elsewhere(mem, mem', S, S2, b, G, G2, d),
           WordsOK(mem, S), Owned(mem, S, G, frames, vectors),
           \A k \in DOMAIN vectors : vectors'[k] = vectors[k]
    PROVE  VectorsSame
<1> SUFFICES ASSUME NEW k \in DOMAIN vectors
             PROVE  /\ Size(vectors[k])' = Size(vectors[k])
                    /\ \A i \in 0..(Size(vectors[k]) - 1) :
                          Element(vectors[k], i)' = Element(vectors[k], i)
  BY DEF VectorsSame
<1> DEFINE v == vectors[k]
<1>1. PICK a \in G : a.addr = v
  BY DEF Owned, IsVector
<1>2. a \in S /\ a.addr # d /\ BlocksOK(S, b) /\ Complete(mem, S, a)
  BY DEF Elsewhere, Owned
<1>3. /\ a.addr \in Nat /\ Word(mem, a.addr) \in MachineInt
      /\ Word(mem, a.addr) <= Maximum(0, a.size)
  BY <1>2, CompleteVector
<1>4. \A w \in a.addr..(a.addr + Maximum(0, a.size)) : Word(mem', w) = Word(mem, w)
  BY <1>2 DEF Elsewhere, Same
<1>5. a.size \in Int
  BY <1>2 DEF BlocksOK, MachineInt, MinInt
<1> HIDE DEF v
<1>6. Word(mem', v) = Word(mem, v)
  BY <1>1, <1>3, <1>4, <1>5 DEF Maximum
<1>7. ASSUME NEW i \in 0..(Word(mem, v) - 1) PROVE Word(mem', v + 1 + i) = Word(mem, v + 1 + i)
  <2>1. Word(mem, v) \in Int /\ Word(mem, v) <= Maximum(0, a.size)
    BY <1>1, <1>3 DEF MachineInt, MinInt
  <2>2. i \in Int /\ 0 <= i /\ i < Maximum(0, a.size)
    BY <1>5, <2>1 DEF Maximum
  <2>3. v + 1 + i \in a.addr..(a.addr + Maximum(0, a.size))
    BY <1>1, <1>3, <1>5, <2>2 DEF Maximum
  <2> QED
    BY <1>4, <2>3
<1>8. vectors'[k] = v
  BY DEF v
<1>9. Size(v) = Word(mem, v) /\ Size(vectors[k])' = Word(mem', v)
  BY <1>8 DEF Size, Load, Word
<1>10. ASSUME NEW i
       PROVE  Element(v, i) = Word(mem, v + 1 + i) /\ Element(vectors[k], i)' = Word(mem', v + 1 + i)
  BY <1>8 DEF Element, ElementAddr, Load, Word
<1>11. Size(vectors[k])' = Size(v)
  BY <1>6, <1>9
<1>12. \A i \in 0..(Size(v) - 1) : Element(vectors[k], i)' = Element(v, i)
  BY <1>7, <1>9, <1>10
<1> QED
  BY <1>11, <1>12 DEF v

\* A step that stores nothing and at most appends to the vectors.
LEMMA NothingChanges ==
    ASSUME mem' = mem, \A k \in DOMAIN vectors : vectors'[k] = vectors[k]
    PROVE  VectorsSame
  BY DEF VectorsSame, Size, Element, ElementAddr, Load

LEMMA LoopKeepsOwners ==
    ASSUME OwnerInv, Iterate \/ EnterBody
    PROVE  /\ OwnedInv' /\ WordsOK(mem', Allocations) /\ VectorsSame
           /\ StoresInBlock(mem, mem', Allocations, Frame.dst)
<1> DEFINE S == Allocations
<1>1. PICK G \in SUBSET S : Owned(mem, S, G, frames, vectors)
  BY DEF OwnerInv, OwnedInv
<1>2. /\ frames # <<>> /\ Frame.at = "loop" /\ Frame.i < Frame.size
      /\ Frame.op # "print_vector"
      /\ vectors' = vectors /\ allocs' = allocs
  BY DEF Iterate, EnterBody, InLoop, Scoped
<1>3. /\ frames \in Seq(IntFrame) /\ Frame \in IntFrame /\ FrameOK(mem, S, G, Frame)
      /\ G \subseteq S /\ \A a \in G : Complete(mem, S, a)
  BY <1>1, <1>2, RunningOK
<1>4. BlocksOK(S, brk) /\ WordsOK(mem, S) /\ \A k \in DOMAIN vectors : vectors'[k] = vectors[k]
  BY <1>2 DEF OwnerInv
<1>5. BuildsOK(mem, S, Frame) /\ RegistersOK(S, Frame)
  BY <1>2, <1>3 DEF FrameOK, Building
<1>6. Frame \in AnyFrame /\ Frame.i \in Nat /\ Frame.dst \in Nat
  BY <1>3 DEF IntFrame, AnyFrame
<1>7. CASE Iterate
  <2> DEFINE g == [Frame EXCEPT !.i = @ + 1]
             x == LoopValue(Frame)
  <2>1. Frame.op \notin Scoped \cup {"print_vector"} /\ Frame.op # "filter"
    BY <1>7 DEF Iterate, Scoped
  <2>2. x \in LoadedFrom(S)
    BY <1>7, LoopValueIsLoaded DEF Iterate
  <2>3. mem' = Stored(mem, Frame.dst + 1 + Frame.i, x) /\ frames' = Append(Pop(frames), g)
    BY <1>7 DEF Iterate, Store, ElementAddr, Incremented, SetFrame
  <2> HIDE DEF x
  <2>4. /\ g \in IntFrame /\ g.op = Frame.op /\ g.args = Frame.args /\ g.lhs = Frame.lhs
        /\ g.rhs = Frame.rhs /\ g.dst = Frame.dst /\ g.size = Frame.size /\ g.i = Frame.i + 1
        /\ g.at = "loop" /\ g.elem = Frame.elem /\ g.body = Frame.body
    <3>1. g \in IntFrame
      BY <1>3, ChangedFrame
    <3> QED
      BY <1>2, <1>6, <3>1 DEF AnyFrame
  <2> HIDE DEF g, S
  <2>5. /\ StoresInBlock(mem, mem', S, Frame.dst) /\ BuildsOK(mem', S, g)
        /\ Frame.dst + 1 + Frame.i \in Nat
    BY <1>2, <1>3, <1>4, <1>5, <2>1, <2>2, <2>3, <2>4, ElementStored
  <2>6. g.elem \in LoadedFrom(S) /\ g.body \in Seq(MachineInt)
    BY <1>5, <2>4 DEF RegistersOK
  <2>7. OwnedInv' /\ Elsewhere(mem, mem', S, S, brk, G, G, Frame.dst)
    BY <1>1, <1>2, <2>3, <2>4, <2>5, <2>6, BuildingStep DEF S
  <2>8. VectorsSame
    BY <1>1, <1>4, <2>7, StoresElsewhere
  <2>9. WordsOK(mem', S)
    BY <1>4, <2>2, <2>3, <2>5, StoredWordsOK
  <2> QED
    BY <2>5, <2>7, <2>8, <2>9 DEF S
<1>8. CASE EnterBody
  <2> DEFINE e == VectorIndex(Frame.lhs, Frame.i)
             g == [Frame EXCEPT !.at = "body", !.elem = e]
  <2>1. Frame.op \in Scoped /\ mem' = mem /\ frames' = Append(Pop(frames), g)
    BY <1>8 DEF EnterBody, SetFrame
  <2>2. e \in LoadedFrom(S)
    <3>1. IsVector(G, Frame.lhs)
      BY <1>3, <2>1 DEF FrameOK, OperandsOK, WithLhs
    <3> HIDE DEF S
    <3>2. \A i \in Int : VectorIndex(Frame.lhs, i) \in LoadedFrom(S)
      BY <1>3, <1>4, <3>1, GivenVector
    <3> QED
      BY <1>6, <3>2
  <2>3. e \in Int
    BY <2>2, LoadedGrows
  <2> HIDE DEF e
  <2>4. /\ g \in IntFrame /\ g.op = Frame.op /\ g.args = Frame.args /\ g.lhs = Frame.lhs
        /\ g.rhs = Frame.rhs /\ g.dst = Frame.dst /\ g.size = Frame.size /\ g.i = Frame.i
        /\ g.at = "body" /\ g.elem = e /\ g.body = Frame.body
    BY <1>3, <1>6, <2>3 DEF IntFrame, AnyFrame, Places
  <2> HIDE DEF g
  <2>5. BuildsOK(mem', S, g)
    BY <1>2, <1>5, <2>1, <2>4 DEF BuildsOK, Filled
  <2>6. g.elem \in LoadedFrom(S) /\ g.body \in Seq(MachineInt)
    BY <1>5, <2>2, <2>4 DEF RegistersOK
  <2>7. StoresInBlock(mem, mem', S, Frame.dst)
    BY <2>1 DEF StoresInBlock
  <2>8. OwnedInv'
    BY <1>1, <1>2, <2>1, <2>4, <2>5, <2>6, <2>7, BuildingStep
  <2>9. VectorsSame
    BY <1>4, <2>1, NothingChanges
  <2> QED
    BY <1>4, <2>1, <2>7, <2>8, <2>9
<1> QED
  BY <1>7, <1>8

LEMMA BodyKeepsOwners ==
    ASSUME OwnerInv, Body
    PROVE  /\ OwnedInv' /\ WordsOK(mem', Allocations) /\ VectorsSame
           /\ StoresInBlock(mem, mem', Allocations, Frame.dst)
<1> DEFINE S == Allocations
<1>1. PICK G \in SUBSET S : Owned(mem, S, G, frames, vectors)
  BY DEF OwnerInv, OwnedInv
<1>2. PICK x \in Ints : GeneratorBody(x) \/ FilterBody(x)
  BY DEF Body
<1>3. /\ frames # <<>> /\ Frame.at = "body" /\ Frame.op \in Scoped
      /\ Frame.op # "print_vector"
      /\ vectors' = vectors /\ allocs' = allocs
  BY <1>2 DEF GeneratorBody, FilterBody, InScopedBody, Scoped
<1>4. /\ frames \in Seq(IntFrame) /\ Frame \in IntFrame /\ FrameOK(mem, S, G, Frame)
      /\ G \subseteq S /\ \A a \in G : Complete(mem, S, a)
  BY <1>1, <1>3, RunningOK
<1>5. BlocksOK(S, brk) /\ WordsOK(mem, S) /\ \A k \in DOMAIN vectors : vectors'[k] = vectors[k]
  BY <1>3 DEF OwnerInv
<1>6. BuildsOK(mem, S, Frame) /\ RegistersOK(S, Frame)
  BY <1>3, <1>4 DEF FrameOK, Building
<1>7. Frame \in AnyFrame /\ Frame.i \in Nat /\ Frame.dst \in Nat /\ Frame.i < Frame.size
  BY <1>3, <1>4, <1>6 DEF IntFrame, AnyFrame, BuildsOK
<1>8. x \in MachineInt /\ x \in Int
  BY DEF MachineInt, MinInt
<1> DEFINE g == [Frame EXCEPT !.i = @ + 1, !.at = "loop", !.body = Append(@, x)]
<1>9. frames' = Append(Pop(frames), g)
  BY <1>2 DEF GeneratorBody, FilterBody, NextElement, SetFrame
<1>10. /\ g \in IntFrame /\ g.op = Frame.op /\ g.args = Frame.args /\ g.lhs = Frame.lhs
       /\ g.rhs = Frame.rhs /\ g.dst = Frame.dst /\ g.size = Frame.size /\ g.i = Frame.i + 1
       /\ g.at = "loop" /\ g.elem = Frame.elem /\ g.body = Append(Frame.body, x)
  <2>1. g \in IntFrame
    BY <1>4, <1>8, ChangedFrame
  <2> QED
    BY <1>7, <2>1 DEF AnyFrame
<1> HIDE DEF g, S
<1>11. Frame.elem \in LoadedFrom(S) /\ Frame.body \in Seq(MachineInt) /\ Frame.size \in MachineInt
  BY <1>6 DEF RegistersOK
<1>12. g.elem \in LoadedFrom(S) /\ g.body \in Seq(MachineInt)
  BY <1>8, <1>10, <1>11
<1>13. ASSUME StoresInBlock(mem, mem', S, Frame.dst), BuildsOK(mem', S, g), WordsOK(mem', S)
       PROVE  /\ OwnedInv' /\ WordsOK(mem', Allocations) /\ VectorsSame
              /\ StoresInBlock(mem, mem', Allocations, Frame.dst)
  <2>1. OwnedInv' /\ Elsewhere(mem, mem', S, S, brk, G, G, Frame.dst)
    BY <1>1, <1>3, <1>9, <1>10, <1>12, <1>13, BuildingStep DEF S
  <2>2. VectorsSame
    BY <1>1, <1>5, <2>1, StoresElsewhere
  <2> QED
    BY <1>13, <2>1, <2>2 DEF S
<1>14. CASE GeneratorBody(x)
  <2>1. Frame.op # "filter" /\ mem' = Stored(mem, Frame.dst + 1 + Frame.i, x)
    BY <1>14 DEF GeneratorBody, InScopedBody, Store, ElementAddr
  <2>2. x \in LoadedFrom(S)
    BY <1>8, LoadedGrows
  <2>3. /\ StoresInBlock(mem, mem', S, Frame.dst) /\ BuildsOK(mem', S, g)
        /\ Frame.dst + 1 + Frame.i \in Nat
    BY <1>4, <1>5, <1>6, <1>7, <1>10, <2>1, <2>2, ElementStored
  <2>4. WordsOK(mem', S)
    BY <1>5, <2>1, <2>2, <2>3, StoredWordsOK
  <2> QED
    BY <1>13, <2>3, <2>4
<1>15. CASE FilterBody(x)
  <2> DEFINE n == Word(mem, Frame.dst)
             kept == x # 0
             after == Stored(mem, Frame.dst + 1 + n, Frame.elem)
  <2>1. Frame.op = "filter"
    BY <1>15 DEF FilterBody, InScopedBody
  <2>2. Size(Frame.dst) = n
    BY DEF Size, Load, Word
  <2>3. mem' = IF kept THEN Stored(after, Frame.dst, Wrap(n + 1)) ELSE mem
    BY <1>15, <2>2 DEF FilterBody, ElementAddr
  <2>4. kept \in BOOLEAN
    OBVIOUS
  <2> HIDE DEF kept
  <2>5. /\ StoresInBlock(mem, mem', S, Frame.dst) /\ BuildsOK(mem', S, g)
        /\ Frame.dst + 1 + n \in Nat /\ Wrap(n + 1) \in MachineInt
    BY <1>4, <1>5, <1>6, <1>7, <1>10, <1>11, <2>1, <2>3, <2>4, ElementKept
  <2> HIDE DEF n
  <2>6. WordsOK(mem', S)
    <3>1. WordsOK(after, S)
      BY <1>5, <1>11, <2>5, StoredWordsOK
    <3> HIDE DEF after
    <3>2. Wrap(n + 1) \in LoadedFrom(S)
      BY <2>5, LoadedGrows
    <3>3. WordsOK(Stored(after, Frame.dst, Wrap(n + 1)), S)
      BY <1>7, <3>1, <3>2, StoredWordsOK
    <3> QED
      BY <1>5, <2>3, <3>3
  <2> QED
    BY <1>13, <2>5, <2>6
<1> QED
  BY <1>2, <1>14, <1>15

\* print_vector changes its induction variable only; what it prints was loaded from
\* an element.
LEMMA PrintKeepsOwners ==
    ASSUME OwnerInv, PrintElement
    PROVE  OwnedInv' /\ LinesOK(Allocations, line', out)
<1> DEFINE S == Allocations
<1>1. PICK G \in SUBSET S : Owned(mem, S, G, frames, vectors)
  BY DEF OwnerInv, OwnedInv
<1>2. /\ frames # <<>> /\ Frame.at = "loop" /\ Frame.i < Frame.size
      /\ Frame.op = "print_vector" /\ mem' = mem /\ vectors' = vectors /\ Allocations' = S
  BY DEF PrintElement, InLoop, Allocations
<1>3. /\ frames \in Seq(IntFrame) /\ Frame \in IntFrame /\ FrameOK(mem, S, G, Frame)
      /\ G \subseteq S /\ \A a \in G : Complete(mem, S, a)
  BY <1>1, <1>2, RunningOK
<1>4. BlocksOK(S, brk) /\ WordsOK(mem, S) /\ LinesOK(S, line, out)
  BY DEF OwnerInv
<1>5. Frame \in AnyFrame /\ Frame.i \in Nat
  BY <1>3 DEF IntFrame, AnyFrame
<1> DEFINE g == [Frame EXCEPT !.i = @ + 1]
<1>6. frames' = Append(Pop(frames), g)
  BY DEF PrintElement, Incremented, SetFrame
<1>7. /\ g \in IntFrame /\ g.op = Frame.op /\ g.args = Frame.args /\ g.lhs = Frame.lhs
      /\ g.rhs = Frame.rhs /\ g.dst = Frame.dst /\ g.size = Frame.size
      /\ g.at = Frame.at /\ g.elem = Frame.elem /\ g.body = Frame.body
  <2>1. g \in IntFrame
    BY <1>3, ChangedFrame
  <2> QED
    BY <1>5, <2>1 DEF AnyFrame
<1> HIDE DEF g, S
<1>8. FrameOK(mem, S, G, g)
  <2>1. OperandsOK(G, g)
    BY <1>3, <1>7 DEF FrameOK, OperandsOK
  <2>2. StageOK(mem, g)
    BY <1>3, <1>7 DEF FrameOK, StageOK
  <2>3. ~Building(g) /\ g.dst = 0
    BY <1>2, <1>3, <1>7 DEF FrameOK, Building
  <2>4. RegistersOK(S, g)
    BY <1>3, <1>7 DEF FrameOK, RegistersOK
  <2> QED
    BY <2>1, <2>2, <2>3, <2>4 DEF FrameOK
<1>9. Elsewhere(mem, mem, S, S, brk, G, G, 0)
  BY <1>3, <1>4, NothingStored
<1>10. Owned(mem, S, G, Append(Pop(frames), g), vectors)
  BY <1>1, <1>2, <1>3, <1>7, <1>8, <1>9, OwnedReplaced DEF Frame
<1>11. OwnedInv'
  BY <1>2, <1>3, <1>6, <1>10 DEF OwnedInv
<1>12. Element(Frame.lhs, Frame.i) \in LoadedFrom(S)
  <2>1. IsVector(G, Frame.lhs) /\ Frame.size = Word(mem, Frame.lhs)
    BY <1>2, <1>3 DEF FrameOK, OperandsOK, StageOK, WithLhs
  <2>2. /\ Size(Frame.lhs) = Word(mem, Frame.lhs)
        /\ \A i \in 0..(Size(Frame.lhs) - 1) : Element(Frame.lhs, i) \in LoadedFrom(S)
    BY <1>3, <1>4, <2>1, GivenVector
  <2>3. Frame.size \in Int
    BY <1>3 DEF IntFrame, AnyFrame
  <2>4. Frame.i \in 0..(Size(Frame.lhs) - 1)
    BY <1>2, <1>5, <2>1, <2>2, <2>3
  <2> QED
    BY <2>2, <2>4
<1>13. LinesOK(S, line', out)
  <2> DEFINE T == LoadedFrom(S) \cup {Space}
             x == Element(Frame.lhs, Frame.i)
             after == IF Wrap(Frame.i + 1) # Frame.size THEN <<Space>> ELSE <<>>
  <2>1. line' = line \o <<x>> \o after
    BY DEF PrintElement
  <2>2. line \in Seq(T) /\ out \in Seq(Seq(T)) /\ x \in T /\ Space \in T
    BY <1>4, <1>12 DEF LinesOK
  <2> HIDE DEF T, x
  <2>3. <<x>> \in Seq(T) /\ after \in Seq(T)
    BY <2>2
  <2> HIDE DEF after
  <2>4. line' \in Seq(T)
    BY <2>1, <2>2, <2>3
  <2> QED
    BY <2>2, <2>4 DEF LinesOK, T
<1> QED
  BY <1>11, <1>13 DEF S


----------------------------------------------------------------------------
\* OwnerInv is inductive.

LEMMA LinesGrow ==
    ASSUME NEW S, NEW S2, S \subseteq S2, NEW l, NEW o, LinesOK(S, l, o)
    PROVE  LinesOK(S2, l, o)
<1> DEFINE T == LoadedFrom(S) \cup {Space}
           T2 == LoadedFrom(S2) \cup {Space}
<1>1. T \subseteq T2
  BY LoadedGrows
<1>2. l \in Seq(T) /\ o \in Seq(Seq(T))
  BY DEF LinesOK
<1> HIDE DEF T, T2
<1>3. \A s \in Seq(T) : s \in Seq(T2)
  BY <1>1
<1>4. l \in Seq(T2) /\ o \in Seq(Seq(T2))
  BY <1>2, <1>3
<1> QED
  BY <1>4 DEF LinesOK, T2

LEMMA OwnerInvInit == Init => OwnerInv
<1> SUFFICES ASSUME Init PROVE OwnerInv
  OBVIOUS
<1>1. DisjointInv
  BY DisjointInvInit
<1>2. Allocations = {} /\ mem = <<>> /\ frames = <<>> /\ vectors = <<>> /\ brk = 1 /\ calls = 0
      /\ line = <<>> /\ out = <<>>
  BY DEF Init, Allocations
<1>3. BlocksOK(Allocations, brk)
  BY <1>2 DEF BlocksOK
<1>4. WordsOK(mem, Allocations)
  BY <1>2 DEF WordsOK
<1>5. LinesOK(Allocations, line, out)
  BY <1>2 DEF LinesOK
<1>6. StackOK(mem, {}, {}, <<>>)
  BY DEF StackOK
<1>7. Owned(mem, {}, {}, frames, vectors)
  BY <1>2, <1>6 DEF Owned
<1>8. OwnedInv
  BY <1>2, <1>7 DEF OwnedInv
<1>9. calls \in 0..MaxCalls
  BY <1>2
<1> QED
  BY <1>1, <1>3, <1>4, <1>5, <1>8, <1>9 DEF OwnerInv

LEMMA OwnerInvStep ==
    ASSUME OwnerInv, [Next \/ (Stopped /\ UNCHANGED vars)]_vars, BytesFit'
    PROVE  OwnerInv' /\ [VectorsSame]_vars
<1>1. DisjointInv'
  BY DisjointInvStep DEF OwnerInv
<1>2. /\ BlocksOK(Allocations, brk) /\ WordsOK(mem, Allocations)
      /\ LinesOK(Allocations, line, out) /\ calls \in 0..MaxCalls /\ OwnedInv
  BY DEF OwnerInv
<1>3. vectors \in Seq(Nat)
  BY DEF OwnerInv, DisjointInv, HoldsInts
<1>4. ASSUME UNCHANGED <<brk, allocs>>, WordsOK(mem', Allocations),
             LinesOK(Allocations, line', out'), calls' \in 0..MaxCalls, OwnedInv'
      PROVE  OwnerInv'
  <2>1. Allocations' = Allocations /\ brk' = brk
    BY <1>4 DEF Allocations
  <2> QED
    BY <1>1, <1>2, <1>4, <2>1 DEF OwnerInv
<1>5. CASE Call
  <2>1. UNCHANGED <<mem, brk, allocs, vectors, line, out>>
    BY <1>5 DEF Call, CallRange, CallIntToVector, CallOp, CallIndexVector, CallScoped,
                CallPrint, Called
  <2>2. OwnedInv' /\ calls' \in 0..MaxCalls
    BY <1>5, CallKeepsOwners
  <2>3. VectorsSame
    BY <2>1, NothingChanges
  <2> QED
    BY <1>2, <1>4, <2>1, <2>2, <2>3
<1>6. CASE MatchLhs \/ MatchRhs
  <2>1. UNCHANGED <<mem, brk, allocs, vectors, line, out, calls>>
    BY <1>6 DEF MatchLhs, MatchRhs
  <2>2. OwnedInv'
    BY <1>6, MatchKeepsOwners
  <2>3. VectorsSame
    BY <2>1, NothingChanges
  <2> QED
    BY <1>2, <1>4, <2>1, <2>2, <2>3
<1>7. CASE Allocate
  <2>1. /\ OwnedInv' /\ BlocksOK(Allocations', brk') /\ WordsOK(mem', Allocations')
        /\ Allocations \subseteq Allocations' /\ \A d : Same(mem, mem', Allocations, d)
    BY <1>7, AllocateKeepsOwners
  <2>2. UNCHANGED <<vectors, line, out, calls>>
    BY <1>7 DEF Allocate
  <2>3. LinesOK(Allocations', line', out')
    BY <1>2, <2>1, <2>2, LinesGrow
  <2>4. VectorsSame
    <3>1. PICK G \in SUBSET Allocations : Owned(mem, Allocations, G, frames, vectors)
      BY <1>2 DEF OwnedInv
    <3>2. \A a \in G : a.addr # 0
      BY <1>2 DEF BlocksOK
    <3>3. Elsewhere(mem, mem', Allocations, Allocations, brk, G, G, 0)
      BY <1>2, <2>1, <3>2 DEF Elsewhere
    <3> QED
      BY <1>2, <2>2, <3>1, <3>3, StoresElsewhere
  <2>5. OwnerInv'
    BY <1>1, <1>2, <2>1, <2>2, <2>3 DEF OwnerInv
  <2> QED
    BY <2>4, <2>5
<1>8. CASE Iterate \/ EnterBody
  <2>1. UNCHANGED <<brk, allocs, vectors, line, out, calls>>
    BY <1>8 DEF Iterate, EnterBody
  <2>2. OwnedInv' /\ WordsOK(mem', Allocations) /\ VectorsSame
    BY <1>8, LoopKeepsOwners
  <2> QED
    BY <1>2, <1>4, <2>1, <2>2
<1>9. CASE Body
  <2>1. UNCHANGED <<brk, allocs, vectors, line, out, calls>>
    BY <1>9 DEF Body, GeneratorBody, FilterBody
  <2>2. OwnedInv' /\ WordsOK(mem', Allocations) /\ VectorsSame
    BY <1>9, BodyKeepsOwners
  <2> QED
    BY <1>2, <1>4, <2>1, <2>2
<1>10. CASE PrintElement
  <2>1. UNCHANGED <<mem, brk, allocs, vectors, out, calls>>
    BY <1>10 DEF PrintElement
  <2>2. OwnedInv' /\ LinesOK(Allocations, line', out)
    BY <1>10, PrintKeepsOwners
  <2>3. VectorsSame
    BY <2>1, NothingChanges
  <2> QED
    BY <1>2, <1>4, <2>1, <2>2, <2>3
<1>11. CASE Return \/ ReturnIncreased \/ ReturnPrinted
  <2>1. UNCHANGED <<mem, brk, allocs, calls>>
    BY <1>11 DEF Return, ReturnIncreased, ReturnPrinted
  <2>2. OwnedInv'
    BY <1>11, ReturnKeepsOwners
  <2>3. \A k \in DOMAIN vectors : vectors'[k] = vectors[k]
    BY <1>3, <1>11 DEF Return, ReturnIncreased, ReturnPrinted
  <2>4. VectorsSame
    BY <2>1, <2>3, NothingChanges
  <2>5. LinesOK(Allocations, line', out')
    <3>1. CASE ReturnPrinted
      <4> DEFINE T == LoadedFrom(Allocations) \cup {Space}
      <4>1. line \in Seq(T) /\ out \in Seq(Seq(T))
        BY <1>2 DEF LinesOK
      <4> HIDE DEF T
      <4>2. line' \in Seq(T) /\ out' \in Seq(Seq(T))
        BY <3>1, <4>1 DEF ReturnPrinted
      <4> QED
        BY <4>2 DEF LinesOK, T
    <3>2. CASE Return \/ ReturnIncreased
      BY <1>2, <3>2 DEF Return, ReturnIncreased
    <3> QED
      BY <1>11, <3>1, <3>2
  <2> QED
    BY <1>2, <1>4, <2>1, <2>2, <2>4, <2>5
<1>12. CASE UNCHANGED vars
  <2>1. UNCHANGED <<mem, brk, allocs, vectors, frames, line, out, calls>>
    BY <1>12 DEF vars
  <2>2. OwnedInv'
    BY <1>2, <2>1 DEF OwnedInv, Allocations
  <2> QED
    BY <1>2, <1>4, <1>12, <2>1, <2>2
<1> QED
  BY <1>5, <1>6, <1>7, <1>8, <1>9, <1>10, <1>11, <1>12 DEF Next

----------------------------------------------------------------------------
(* What follows. *)

LEMMA LoadedIs ==
    /\ SizeWrapped <=> Wraps(Allocations)
    /\ Loaded = LoadedFrom(Allocations)
  BY DEF SizeWrapped, Wraps, Allocations, Loaded, LoadedFrom

LEMMA OwnerInvTypes == OwnerInv => RuntimeTypeOK
<1> SUFFICES ASSUME OwnerInv PROVE RuntimeTypeOK
  OBVIOUS
<1>1. PICK G \in SUBSET Allocations : Owned(mem, Allocations, G, frames, vectors)
  BY DEF OwnerInv, OwnedInv
<1>2. DOMAIN mem \subseteq Nat /\ \A w \in DOMAIN mem : mem[w] \in Loaded \cup {Pointer}
  BY LoadedIs DEF OwnerInv, WordsOK
<1>3. brk \in Nat /\ vectors \in Seq(Nat) /\ calls \in 0..MaxCalls
  BY DEF OwnerInv, BlocksOK, DisjointInv, HoldsInts
<1>4. allocs \in Seq([addr: Nat, array: Nat, size: MachineInt])
  <2>1. allocs \in Seq(Allocation) /\ BlocksOK(Allocations, brk)
    BY DEF OwnerInv, DisjointInv, Allocated
  <2> DEFINE R == [addr: Nat, array: Nat, size: MachineInt]
  <2>2. ASSUME NEW k \in DOMAIN allocs PROVE allocs[k] \in R
    <3>1. allocs[k] \in Allocation
      BY <2>1
    <3>2. allocs[k].size \in MachineInt
      BY <2>1 DEF BlocksOK, Allocations
    <3> QED
      BY <3>1, <3>2 DEF Allocation
  <2> HIDE DEF R
  <2>3. allocs \in Seq(R)
    BY <2>1, <2>2
  <2> QED
    BY <2>3 DEF R
<1>5. frames \in Seq(FrameRecord)
  <2>1. frames \in Seq(IntFrame)
    BY <1>1, RunningOK
  <2>2. \A j \in DOMAIN frames : frames[j] \in FrameRecord
    <3> SUFFICES ASSUME NEW j \in DOMAIN frames PROVE frames[j] \in FrameRecord
      OBVIOUS
    <3> DEFINE f == frames[j]
    <3>1. f \in AnyFrame
      BY <2>1 DEF IntFrame
    <3>2. FrameOK(mem, Allocations, G, f)
      BY <1>1 DEF Owned, StackOK
    <3> HIDE DEF f
    <3>3. f.size \in MachineInt /\ f.elem \in Loaded /\ f.body \in Seq(MachineInt)
      BY <3>2, LoadedIs DEF FrameOK, RegistersOK
    <3>4. f.op \in FunctionNames
      BY <3>1 DEF AnyFrame, FunctionNames
    <3>5. f \in FrameRecord
      BY <3>1, <3>3, <3>4 DEF AnyFrame, FrameRecord, Places
    <3> QED
      BY <3>5 DEF f
  <2> QED
    BY <2>1, <2>2
<1>6. line \in Seq(Loaded \cup {Space}) /\ out \in Seq(Seq(Loaded \cup {Space}))
  BY LoadedIs DEF OwnerInv, LinesOK
<1> QED
  BY <1>2, <1>3, <1>4, <1>5, <1>6 DEF RuntimeTypeOK

LEMMA OwnerInvChanges ==
    OwnerInv /\ [Next \/ (Stopped /\ UNCHANGED vars)]_vars /\ BytesFit' => OwnerInv' /\ [VectorsSame]_vars
  BY OwnerInvStep

LEMMA OwnedWhileBytesFit ==
    /\ TypedInv /\ (BytesFit => OwnerInv) /\ [Next \/ (Stopped /\ UNCHANGED vars)]_vars
          => (TypedInv /\ (BytesFit => OwnerInv))'
    /\ Init => TypedInv /\ (BytesFit => OwnerInv)
  BY TypedInvInit, OwnerInvInit, TypedStep, FittedBefore, OwnerInvStep

\* The variables keep their types; in particular no word that was never stored, and no
\* half of an address, is loaded into a register, stored or printed until a size wraps.
THEOREM RuntimeTyped == RuntimeSpec => [](BytesFit => RuntimeTypeOK)
  BY OwnerInvTypes, OwnedWhileBytesFit, PTL DEF RuntimeSpec

\* The elements of the vectors that the program holds are ints that were stored
\* (the loops of BackEnd.cpp:562-912 and of generators and filters).
THEOREM RuntimeElementsAreInts == RuntimeSpec => [](BytesFit => ElementsAreInts)
<1>1. OwnerInv => ElementsAreInts
  <2> SUFFICES ASSUME OwnerInv, ~SizeWrapped, NEW k \in DOMAIN vectors
               PROVE  \A i \in 0..(Size(vectors[k]) - 1) : Element(vectors[k], i) \in MachineInt
    BY DEF ElementsAreInts
  <2>1. PICK G \in SUBSET Allocations : Owned(mem, Allocations, G, frames, vectors)
    BY DEF OwnerInv, OwnedInv
  <2>2. IsVector(G, vectors[k]) /\ \A a \in G : Complete(mem, Allocations, a)
    BY <2>1 DEF Owned
  <2>3. BlocksOK(Allocations, brk) /\ WordsOK(mem, Allocations)
    BY DEF OwnerInv
  <2>4. LoadedFrom(Allocations) = MachineInt
    BY LoadedIs DEF LoadedFrom
  <2> QED
    BY <2>1, <2>2, <2>3, <2>4, GivenVector
<1> QED
  BY <1>1, OwnedWhileBytesFit, PTL DEF RuntimeSpec

\* A filter stores inside the block of its result, whatever its body calls meanwhile
\* (VisitFILTER, AstVisitor.cpp:522-563).
THEOREM RuntimeFilterStaysInside == RuntimeSpec => [](BytesFit => FilterStaysInside)
<1>1. OwnerInv => FilterStaysInside
  <2> SUFFICES ASSUME OwnerInv, NEW k \in DOMAIN frames, frames[k].op = "filter", frames[k].dst # 0
               PROVE  Size(frames[k].dst) \in 0..frames[k].i
                      /\ frames[k].i <= Maximum(0, frames[k].size)
    BY DEF FilterStaysInside
  <2>1. PICK G \in SUBSET Allocations : Owned(mem, Allocations, G, frames, vectors)
    BY DEF OwnerInv, OwnedInv
  <2>2. FrameOK(mem, Allocations, G, frames[k])
    BY <2>1 DEF Owned, StackOK
  <2>3. BuildsOK(mem, Allocations, frames[k])
    BY <2>2 DEF FrameOK
  <2> QED
    BY <2>3 DEF BuildsOK, Size, Load, Word
<1> QED
  BY <1>1, OwnedWhileBytesFit, PTL DEF RuntimeSpec

\* An operation on vectors loops over two operands of the size of its result
\* (CreateVectorOperationFunction and match_vector_size).
THEOREM RuntimeOperandsMatched == RuntimeSpec => [](BytesFit => OperandsMatched)
<1>1. OwnerInv => OperandsMatched
  <2> SUFFICES ASSUME OwnerInv, NEW k \in DOMAIN frames, frames[k].op \in Ops,
                      frames[k].at \in {"alloc", "loop"}
               PROVE  /\ Size(frames[k].lhs) = Size(frames[k].rhs)
                      /\ frames[k].at = "loop" => frames[k].size = Size(frames[k].lhs)
    BY DEF OperandsMatched
  <2>1. PICK G \in SUBSET Allocations : Owned(mem, Allocations, G, frames, vectors)
    BY DEF OwnerInv, OwnedInv
  <2>2. StageOK(mem, frames[k])
    BY <2>1 DEF Owned, StackOK, FrameOK
  <2> QED
    BY <2>2 DEF StageOK, Size, Load, Word
<1> QED
  BY <1>1, OwnedWhileBytesFit, PTL DEF RuntimeSpec

\* Values share vectors (VisitASSIGN copies the pointer), and none of them is ever
\* written to again.
THEOREM RuntimeVectorsNeverChange == RuntimeSpec /\ []BytesFit => VectorsNeverChange
<1>1. [VectorsSame]_vars <=> [\A k \in DOMAIN vectors :
          /\ Size(vectors[k])' = Size(vectors[k])
          /\ \A i \in 0..(Size(vectors[k]) - 1) :
                Element(vectors[k], i)' = Element(vectors[k], i)]_vars
  BY DEF VectorsSame
<1> QED
  BY <1>1, OwnerInvInit, OwnerInvChanges, PTL DEF RuntimeSpec, VectorsNeverChange

=============================================================================
