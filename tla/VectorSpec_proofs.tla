-------------------------- MODULE VectorSpec_proofs --------------------------
(***************************************************************************)
(* The runtime implements VectorSpec: every step of the generated          *)
(* functions is a step of the abstract program on values, or changes       *)
(* nothing it can see.                                                     *)
(*                                                                         *)
(* MeaningInv adds to OwnerInv (who owns which words) what the words mean: *)
(* the operands of a call are the vectors it was made with, the left or    *)
(* right one possibly padded to the size of the other; a vector that is    *)
(* being built holds a prefix of the result, in a filter what the values   *)
(* of its body have kept so far; the line holds a prefix of the printed    *)
(* vector. A step of the running call stores one more element of the       *)
(* result and, by ownership, leaves the values of the program alone. When  *)
(* a loop is done the prefix is the result, and Return is SpecReturn.      *)
(*                                                                         *)
(* Two things the proof has to say itself. KeptOf is a recursive function: *)
(* its equation on sequences of every length comes from Induction, which   *)
(* is proved with finite sets. And the runtime is right only as long as    *)
(* neither the size of a range nor a byte count wraps: RangeHoldsInterval  *)
(* and BytesFit are hypotheses, false in the runs MCVectorRuntime_range    *)
(* and MCVectorRuntime_byte_count, and the last theorems derive both for   *)
(* every behaviour in which no range of 2^30 ints or more is asked for.    *)
(***************************************************************************)
EXTENDS MCVectorRuntime, VectorRuntime_proofs, FiniteSetTheorems

USE RuntimeAssumption, MachineIntAssumption

----------------------------------------------------------------------------
\* Induction on the natural numbers: a step that kept a set of them closed under the
\* successor, and did not reach some n, would map the numbers below n one to one into
\* themselves without reaching 0.
LEMMA Induction ==
    ASSUME NEW U, 0 \in U, \A n \in Nat : n \in U => n + 1 \in U
    PROVE  \A n \in Nat : n \in U
<1> SUFFICES ASSUME NEW n \in Nat, n \notin U PROVE FALSE
  OBVIOUS
<1> DEFINE below == {m \in 0..n : \A k \in 0..m : k \in U}
           next == [m \in below |-> m + 1]
<1>1. IsFiniteSet(below)
  <2>1. IsFiniteSet(0..n)
    BY FS_Interval
  <2>2. below \in SUBSET (0..n)
    OBVIOUS
  <2> HIDE DEF below
  <2> QED
    BY <2>1, <2>2, FS_Subset
<1>2. 0 \in below
  OBVIOUS
<1>3. \A m \in below : m + 1 \in below
  OBVIOUS
<1>4. \A m \in below : m \in Nat
  OBVIOUS
<1> HIDE DEF below
<1>5. next \in Injection(below, below)
  BY <1>3, <1>4 DEF Injection, IsInjective
<1>6. next \in Surjection(below, below)
  BY <1>1, <1>5, FS_Injection
<1>7. PICK m \in below : next[m] = 0
  BY <1>2, <1>6 DEF Surjection
<1> QED
  BY <1>4, <1>7

----------------------------------------------------------------------------
(* What a filter keeps (KeptOf), element by element. *)

NextKept(v, body, kept, k) ==
    IF body[k] = 0 THEN kept[k - 1] ELSE Append(kept[k - 1], v[k])
Keeps(v, body, kept, n) ==
    kept = [k \in 0..n |-> IF k = 0 THEN <<>> ELSE NextKept(v, body, kept, k)]

LEMMA KeepsExists ==
    ASSUME NEW v, NEW body
    PROVE  \A n \in Nat : \E kept : Keeps(v, body, kept, n)
<1> DEFINE U == {n \in Nat : \E kept : Keeps(v, body, kept, n)}
<1>1. 0 \in U
  <2> DEFINE kept == [k \in 0..0 |-> <<>>]
  <2>1. Keeps(v, body, kept, 0)
    BY DEF Keeps
  <2> QED
    BY <2>1
<1>2. ASSUME NEW n \in Nat, n \in U PROVE n + 1 \in U
  <2>1. PICK kept : Keeps(v, body, kept, n)
    BY <1>2
  <2> DEFINE more == [k \in 0..(n + 1) |-> IF k = n + 1 THEN NextKept(v, body, kept, k)
                                          ELSE kept[k]]
  <2>2. \A k \in 0..n : kept[k] = IF k = 0 THEN <<>> ELSE NextKept(v, body, kept, k)
    BY <2>1 DEF Keeps
  <2>3. \A k \in 0..n : more[k] = kept[k]
    OBVIOUS
  <2>4. \A k \in 1..(n + 1) : NextKept(v, body, more, k) = NextKept(v, body, kept, k)
    <3> SUFFICES ASSUME NEW k \in 1..(n + 1)
                 PROVE  NextKept(v, body, more, k) = NextKept(v, body, kept, k)
      OBVIOUS
    <3>1. k - 1 \in 0..n
      OBVIOUS
    <3>2. more[k - 1] = kept[k - 1]
      BY <2>3, <3>1
    <3> HIDE DEF more
    <3> QED
      BY <3>2 DEF NextKept
  <2>5. \A k \in 0..(n + 1) : more[k] = IF k = 0 THEN <<>> ELSE NextKept(v, body, more, k)
    <3> SUFFICES ASSUME NEW k \in 0..(n + 1)
                 PROVE  more[k] = IF k = 0 THEN <<>> ELSE NextKept(v, body, more, k)
      OBVIOUS
    <3>1. CASE k = n + 1
      <4>1. more[k] = NextKept(v, body, kept, k) /\ k \in 1..(n + 1) /\ k # 0
        BY <3>1
      <4> HIDE DEF more
      <4> QED
        BY <2>4, <4>1
    <3>2. CASE k # n + 1
      <4>1. k \in 0..n /\ (k = 0 \/ k \in 1..(n + 1))
        BY <3>2
      <4> HIDE DEF more
      <4> QED
        BY <2>2, <2>3, <2>4, <4>1
    <3> QED
      BY <3>1, <3>2
  <2>6. more = [k \in 0..(n + 1) |-> more[k]]
    OBVIOUS
  <2> HIDE DEF more
  <2>7. Keeps(v, body, more, n + 1)
    BY <2>5, <2>6 DEF Keeps
  <2> QED
    BY <2>7
<1> HIDE DEF U
<1>3. \A n \in Nat : n \in U
  BY <1>1, <1>2, Induction
<1> QED
  BY <1>3 DEF U

\* What is kept of the first elements depends on them only.
LEMMA KeepsAgree ==
    ASSUME NEW v, NEW body, NEW kept, NEW n \in Nat, Keeps(v, body, kept, n),
           NEW longer, NEW more, NEW m \in Nat, Keeps(v, longer, more, m), n <= m,
           \A k \in 1..n : longer[k] = body[k]
    PROVE  kept[n] = more[n]
<1> DEFINE U == {k \in Nat : k <= n => kept[k] = more[k]}
<1>1. \A k \in 0..n : kept[k] = IF k = 0 THEN <<>> ELSE NextKept(v, body, kept, k)
  BY DEF Keeps
<1>2. \A k \in 0..m : more[k] = IF k = 0 THEN <<>> ELSE NextKept(v, longer, more, k)
  BY DEF Keeps
<1>3. 0 \in U
  BY <1>1, <1>2
<1>4. ASSUME NEW k \in Nat, k \in U PROVE k + 1 \in U
  <2> SUFFICES ASSUME k + 1 <= n PROVE kept[k + 1] = more[k + 1]
    OBVIOUS
  <2>1. kept[k] = more[k] /\ (k + 1) - 1 = k /\ k + 1 # 0 /\ k + 1 \in 0..n /\ k + 1 \in 0..m
        /\ k + 1 \in 1..n
    BY <1>4
  <2>2. longer[k + 1] = body[k + 1]
    BY <2>1
  <2> HIDE DEF U
  <2> QED
    BY <1>1, <1>2, <2>1, <2>2 DEF NextKept
<1> HIDE DEF U
<1>5. n \in U
  BY <1>3, <1>4, Induction
<1> QED
  BY <1>5 DEF U

LEMMA KeptOfIs ==
    ASSUME NEW v, NEW body \in Seq(Int)
    PROVE  \E kept : Keeps(v, body, kept, Len(body)) /\ Abstract!KeptOf(v, body) = kept[Len(body)]
<1> DEFINE n == Len(body)
           chosen == CHOOSE kept : Keeps(v, body, kept, n)
<1>1. n \in Nat
  OBVIOUS
<1>2. \E kept : Keeps(v, body, kept, n)
  BY <1>1, KeepsExists
<1>3. Keeps(v, body, chosen, n)
  BY <1>2
<1>4. Abstract!KeptOf(v, body) = chosen[n]
  BY DEF Abstract!KeptOf, Keeps, NextKept
<1> QED
  BY <1>3, <1>4

\* One element more.
LEMMA KeptOfAppend ==
    ASSUME NEW v, NEW body \in Seq(Int), NEW x \in Int
    PROVE  Abstract!KeptOf(v, Append(body, x)) =
               IF x = 0 THEN Abstract!KeptOf(v, body)
               ELSE Append(Abstract!KeptOf(v, body), v[Len(body) + 1])
<1> DEFINE n == Len(body)
           longer == Append(body, x)
<1>1. /\ n \in Nat /\ longer \in Seq(Int) /\ Len(longer) = n + 1
      /\ \A k \in 1..n : longer[k] = body[k]
      /\ longer[n + 1] = x
  OBVIOUS
<1> HIDE DEF longer
<1>2. PICK kept : Keeps(v, body, kept, n) /\ Abstract!KeptOf(v, body) = kept[n]
  BY KeptOfIs
<1>3. PICK more : Keeps(v, longer, more, n + 1) /\ Abstract!KeptOf(v, longer) = more[n + 1]
  BY <1>1, KeptOfIs
<1> HIDE DEF n
<1>4. kept[n] = more[n]
  BY <1>1, <1>2, <1>3, KeepsAgree
<1>5. more[n + 1] = NextKept(v, longer, more, n + 1)
  <2>1. n + 1 \in 0..(n + 1) /\ n + 1 # 0
    BY <1>1
  <2> QED
    BY <1>3, <2>1 DEF Keeps
<1>6. (n + 1) - 1 = n
  BY <1>1
<1>7. more[n + 1] = IF x = 0 THEN kept[n] ELSE Append(kept[n], v[n + 1])
  BY <1>1, <1>4, <1>5, <1>6 DEF NextKept
<1> QED
  BY <1>2, <1>3, <1>7 DEF n, longer

LEMMA KeptOfNothing ==
    ASSUME NEW v
    PROVE  Abstract!KeptOf(v, <<>>) = <<>>
<1>1. <<>> \in Seq(Int) /\ Len(<<>>) = 0
  OBVIOUS
<1>2. PICK kept : Keeps(v, <<>>, kept, 0) /\ Abstract!KeptOf(v, <<>>) = kept[0]
  BY <1>1, KeptOfIs
<1> QED
  BY <1>2 DEF Keeps

----------------------------------------------------------------------------
(* The value of a vector. *)

ValueIn(m, v) == [i \in 1..Maximum(0, Word(m, v)) |-> Word(m, v + i)]

\* No size has wrapped; the runs of vector_range that would are left out below.
NonNegative(S) == \A a \in S : a.size >= 0

\* The vectors of G, complete ones, and those of the program.
World(m, S, b, G, vs) ==
    /\ BlocksOK(S, b) /\ WordsOK(m, S) /\ NonNegative(S)
    /\ G \subseteq S /\ \A a \in G : Complete(m, S, a)
    /\ \A k \in DOMAIN vs : IsVector(G, vs[k])

LEMMA ValueIsSeq ==
    ASSUME NEW m, NEW S, WordsOK(m, S), NEW v
    PROVE  /\ ValueIn(m, v) \in Seq(Int)
           /\ Len(ValueIn(m, v)) = Maximum(0, Word(m, v))
           /\ \A i \in 1..Maximum(0, Word(m, v)) : ValueIn(m, v)[i] = Word(m, v + i)
<1>1. \A a : Word(m, a) \in Int
  BY WordIsInt
<1>2. Maximum(0, Word(m, v)) \in Nat
  BY <1>1 DEF Maximum
<1> QED
  BY <1>1, <1>2 DEF ValueIn

LEMMA VectorValue ==
    ASSUME NEW m, NEW S, NEW b, NEW G, NEW vs, World(m, S, b, G, vs), NEW v, IsVector(G, v)
    PROVE  /\ v \in Nat /\ v > 0
           /\ Word(m, v) \in Nat /\ Word(m, v) \in MachineInt
           /\ ValueIn(m, v) \in Seq(Int) /\ Len(ValueIn(m, v)) = Word(m, v)
           /\ \A i \in 1..Word(m, v) : ValueIn(m, v)[i] = Word(m, v + i)
<1>1. PICK a \in G : a.addr = v
  BY DEF IsVector
<1>2. BlocksOK(S, b) /\ WordsOK(m, S) /\ a \in S /\ Complete(m, S, a) /\ a.size >= 0
  BY DEF World, NonNegative
<1>3. v \in Nat /\ v > 0 /\ Word(m, v) \in MachineInt
  BY <1>1, <1>2, CompleteVector
<1>4. a.size \in Int
  BY <1>2 DEF BlocksOK, MachineInt, MinInt
<1>5. Word(m, v) \in Nat
  BY <1>1, <1>2, <1>4 DEF Complete, Maximum
<1>6. Maximum(0, Word(m, v)) = Word(m, v)
  BY <1>5 DEF Maximum
<1> QED
  BY <1>2, <1>3, <1>5, <1>6, ValueIsSeq

\* vector_index is the abstract one.
LEMMA IndexIsAt ==
    ASSUME NEW S, NEW b, NEW G, NEW vs, World(mem, S, b, G, vs), NEW v, IsVector(G, v),
           NEW x \in Int
    PROVE  /\ VectorIndex(v, x) = Abstract!At(ValueIn(mem, v), x + 1, 0)
           /\ x \in 0..(Word(mem, v) - 1) =>
                 /\ VectorIndex(v, x) = ValueIn(mem, v)[x + 1]
                 /\ Element(v, x) = ValueIn(mem, v)[x + 1]
           /\ Size(v) = Word(mem, v)
<1> DEFINE n == Word(mem, v)
           value == ValueIn(mem, v)
<1>1. /\ v \in Nat /\ n \in Nat /\ n \in MachineInt /\ Len(value) = n
      /\ \A i \in 1..n : value[i] = Word(mem, v + i)
  BY VectorValue
<1>2. Size(v) = n
  BY DEF Size, Load, Word
<1>3. Element(v, x) = Word(mem, v + (x + 1))
  <2>1. v + 1 + x = v + (x + 1)
    BY <1>1
  <2> QED
    BY <2>1 DEF Element, ElementAddr, Load, Word
<1> HIDE DEF n, value
<1>4. Wrap(n - 1) = n - 1
  <2>1. n - 1 \in MachineInt
    BY <1>1 DEF MachineInt, MinInt
  <2> QED
    BY <2>1, WrapOfInt
<1>5. VectorIndex(v, x) = IF x < 0 \/ n - 1 < x THEN 0 ELSE Element(v, x)
  BY <1>2, <1>4 DEF VectorIndex
<1>6. ASSUME x \in 0..(n - 1) PROVE VectorIndex(v, x) = value[x + 1] /\ Element(v, x) = value[x + 1]
  <2>1. x + 1 \in 1..n /\ ~(x < 0) /\ ~(n - 1 < x)
    BY <1>1, <1>6
  <2>2. value[x + 1] = Word(mem, v + (x + 1))
    BY <1>1, <2>1
  <2> QED
    BY <1>3, <1>5, <2>1, <2>2
<1>7. VectorIndex(v, x) = Abstract!At(value, x + 1, 0)
  <2>1. CASE x \in 0..(n - 1)
    <3>1. x + 1 \in 1..Len(value)
      BY <1>1, <2>1
    <3> QED
      BY <1>6, <2>1, <3>1 DEF Abstract!At
  <2>2. CASE x \notin 0..(n - 1)
    <3>1. x + 1 \notin 1..Len(value) /\ (x < 0 \/ n - 1 < x)
      BY <1>1, <2>2
    <3> QED
      BY <1>5, <3>1 DEF Abstract!At
  <2> QED
    BY <2>1, <2>2
<1> QED
  BY <1>2, <1>6, <1>7 DEF n, value

\* A complete vector keeps its value.
LEMMA ValueKept ==
    ASSUME NEW m, NEW m2, NEW S, NEW S2, NEW b, NEW G, NEW G2, NEW d, NEW vs,
           Elsewhere(m, m2, S, S2, b, G, G2, d), World(m, S, b, G, vs),
           NEW v, IsVector(G, v)
    PROVE  Word(m2, v) = Word(m, v) /\ ValueIn(m2, v) = ValueIn(m, v)
<1>1. PICK a \in G : a.addr = v
  BY DEF IsVector
<1>2. BlocksOK(S, b) /\ WordsOK(m, S) /\ a \in S /\ Complete(m, S, a) /\ a.size >= 0
  BY DEF World, NonNegative
<1>3. v \in Nat /\ Word(m, v) \in Nat
  BY VectorValue
<1>4. a.size \in Int /\ Word(m, v) <= Maximum(0, a.size)
  <2>1. Word(m, v) <= Maximum(0, a.size)
    BY <1>1, <1>2, CompleteVector
  <2> QED
    BY <1>2, <2>1 DEF BlocksOK, MachineInt, MinInt
<1>5. \A w \in v..(v + Maximum(0, a.size)) : Word(m2, w) = Word(m, w)
  BY <1>1, <1>2 DEF Elsewhere, Same
<1>6. Maximum(0, a.size) \in Nat
  BY <1>4 DEF Maximum
<1>7. Word(m2, v) = Word(m, v)
  BY <1>3, <1>5, <1>6
<1>8. \A i \in 1..Maximum(0, Word(m, v)) : Word(m2, v + i) = Word(m, v + i)
  <2> SUFFICES ASSUME NEW i \in 1..Maximum(0, Word(m, v)) PROVE Word(m2, v + i) = Word(m, v + i)
    OBVIOUS
  <2>1. v + i \in v..(v + Maximum(0, a.size))
    BY <1>3, <1>4, <1>6 DEF Maximum
  <2> QED
    BY <1>5, <2>1
<1> QED
  BY <1>7, <1>8 DEF ValueIn

----------------------------------------------------------------------------
(* What the registers of a call mean: the vectors the program named, and   *)
(* the part of the result that is done.                                    *)

Named == WithLhs \ {"increase_vector_size"}

ArgumentsNamed(vs, f) ==
    /\ f.op \in Named => f.args[1] \in DOMAIN vs
    /\ f.op \in WithRhs => f.args[2] \in DOMAIN vs
    /\ f.op \in {"int_to_vector", "increase_vector_size"} => f.args[1] >= 0

\* An operand, extended.
Padded(v, n, x) == [i \in 1..n |-> Abstract!At(v, i, x)]

\* The operands lhs and rhs of a call are the vectors left and right of the program;
\* those of an operation are padded one after the other.
OperandsMean(f, lhs, rhs, left, right) ==
    /\ f.op \in Named \ Ops => lhs = left
    /\ f.op = "vector_index_vector" => rhs = right
    /\ f.op \in Ops =>
          /\ lhs = IF f.at = "match_lhs" THEN left
                   ELSE Padded(left, Abstract!Longer(left, right), 0)
          /\ rhs = IF f.at \in {"match_lhs", "match_rhs"} THEN right
                   ELSE Padded(right, Abstract!Longer(left, right), Abstract!Padding(f.op))

\* A body has been evaluated for the elements the loop has passed.
BodyMeans(f) ==
    IF f.op \in Scoped /\ f.at \in {"loop", "body"} THEN Len(f.body) = f.i ELSE f.body = <<>>

\* Element j of the result.
Expected(f, lhs, rhs, j) ==
    CASE f.op = "vector_range"         -> f.args[1] + j - 1
      [] f.op = "int_to_vector"        -> f.args[2]
      [] f.op = "increase_vector_size" -> Abstract!At(lhs, j, f.args[2])
      [] f.op = "vector_index_vector"  -> Abstract!At(lhs, rhs[j] + 1, 0)
      [] f.op = "generator"            -> f.body[j]
      [] OTHER -> IntOperation(f.op, lhs[j], rhs[j])

ResultMeans(m, f, lhs, rhs) ==
    /\ f.op = "int_to_vector" => f.size = f.args[1]
    /\ IF f.op = "filter"
       THEN /\ ValueIn(m, f.dst) = Abstract!KeptOf(lhs, f.body)
            /\ f.at = "body" => f.elem = lhs[f.i + 1]
       ELSE \A j \in 1..f.i : Word(m, f.dst + j) = Expected(f, lhs, rhs, j)
    /\ f.op \in Ops => \A j \in 1..f.i : ~Undefined(f.op, lhs[j], rhs[j])

FrameMeans(m, vs, f) ==
    /\ ArgumentsNamed(vs, f)
    /\ OperandsMean(f, ValueIn(m, f.lhs), ValueIn(m, f.rhs),
                    ValueIn(m, vs[f.args[1]]), ValueIn(m, vs[f.args[2]]))
    /\ BodyMeans(f)
    /\ Building(f) => ResultMeans(m, f, ValueIn(m, f.lhs), ValueIn(m, f.rhs))

FramesMean(m, vs, fs) == \A j \in DOMAIN fs : FrameMeans(m, vs, fs[j])

\* An increase_vector_size extends the operand that its caller waits for.
Extends(m, caller, f) ==
    /\ Word(m, f.lhs) <= f.args[1]
    /\ caller.at = "match_lhs" =>
          ValueIn(m, f.lhs) = ValueIn(m, caller.lhs) /\ f.args[2] = 0
    /\ caller.at = "match_rhs" =>
          ValueIn(m, f.lhs) = ValueIn(m, caller.rhs) /\ f.args[2] = Abstract!Padding(caller.op)
ExtendsMeans(m, fs) == Increasing(fs) => Extends(m, Top(Pop(fs)), Top(fs))

\* What print_vector has written when i elements of v are done.
Printed(v, i) ==
    [k \in 1..(IF i = 0 THEN 0 ELSE IF i = Len(v) THEN 2 * i - 1 ELSE 2 * i) |->
        IF k % 2 = 1 THEN v[(k + 1) \div 2] ELSE Space]
LineMeans(m, fs, l) ==
    IF fs # <<>> /\ Top(fs).op = "print_vector"
    THEN Top(fs).i <= Len(ValueIn(m, Top(fs).lhs)) /\ l = Printed(ValueIn(m, Top(fs).lhs), Top(fs).i)
    ELSE l = <<>>

Meant(m, vs, fs, l) == FramesMean(m, vs, fs) /\ ExtendsMeans(m, fs) /\ LineMeans(m, fs, l)

MeaningInv == OwnerInv /\ NonNegative(Allocations) /\ Meant(mem, vectors, frames, line)

----------------------------------------------------------------------------
(* Steps that store elsewhere keep the meaning of a call. *)

LEMMA Kinds ==
    /\ Ops \cap (OtherFunctions \cup {"increase_vector_size"}) = {}
    /\ Named = Ops \cup Scoped \cup {"vector_index_vector", "print_vector"}
    /\ \A f \in IntFrame : f.op \in Ops \cup OtherFunctions \cup {"increase_vector_size"}
  BY DEF IntOps, ArithmeticOps, BooleanOps, OtherFunctions, Scoped, Named, WithLhs, IntFrame,
         AnyFrame

\* Operands that a call does not have do not matter.
LEMMA ResultKept ==
    ASSUME NEW m, NEW m2, NEW f \in IntFrame, f.op # "print_vector", NEW lhs, NEW rhs, NEW lhs2, NEW rhs2,
           f.op \in WithLhs => lhs2 = lhs, f.op \in WithRhs => rhs2 = rhs,
           ResultMeans(m, f, lhs, rhs),
           f.op = "filter" => ValueIn(m2, f.dst) = ValueIn(m, f.dst),
           f.op # "filter" => \A j \in 1..f.i : Word(m2, f.dst + j) = Word(m, f.dst + j)
    PROVE  ResultMeans(m2, f, lhs2, rhs2)
<1>1. /\ f.op \in WithLhs => lhs2 = lhs
      /\ f.op \in WithRhs => rhs2 = rhs
      /\ f.op \in Ops \cup {"vector_index_vector"} => lhs2 = lhs /\ rhs2 = rhs
      /\ f.op = "filter" => lhs2 = lhs
  BY DEF WithLhs, WithRhs, Scoped
<1>2. f.op # "filter" => \A j : Expected(f, lhs2, rhs2, j) = Expected(f, lhs, rhs, j)
  <2>1. CASE f.op \in {"vector_range", "int_to_vector", "generator"}
    BY <2>1 DEF Expected
  <2>2. CASE f.op = "increase_vector_size"
    BY <1>1, <2>2 DEF Expected, WithLhs
  <2>3. CASE f.op \in Ops \cup {"vector_index_vector"}
    BY <1>1, <2>3 DEF Expected
  <2> QED
    BY <2>1, <2>2, <2>3, Kinds DEF OtherFunctions, Scoped
<1> QED
  BY <1>2, <1>1 DEF ResultMeans

\* Steps that store elsewhere keep the operands of a call.
LEMMA OperandsMeanKept ==
    ASSUME NEW m, NEW m2, NEW S, NEW S2, NEW b, NEW G, NEW G2, NEW d, NEW vs,
           Elsewhere(m, m2, S, S2, b, G, G2, d), World(m, S, b, G, vs),
           NEW vs2, \A k \in DOMAIN vs : k \in DOMAIN vs2 /\ vs2[k] = vs[k],
           NEW f, OperandsOK(G, f), ArgumentsNamed(vs, f),
           OperandsMean(f, ValueIn(m, f.lhs), ValueIn(m, f.rhs),
                        ValueIn(m, vs[f.args[1]]), ValueIn(m, vs[f.args[2]]))
    PROVE  /\ f.op \in WithLhs => ValueIn(m2, f.lhs) = ValueIn(m, f.lhs)
           /\ f.op \in WithRhs => ValueIn(m2, f.rhs) = ValueIn(m, f.rhs)
           /\ OperandsMean(f, ValueIn(m2, f.lhs), ValueIn(m2, f.rhs),
                           ValueIn(m2, vs2[f.args[1]]), ValueIn(m2, vs2[f.args[2]]))
<1>1. \A v : IsVector(G, v) => ValueIn(m2, v) = ValueIn(m, v)
  BY ValueKept
<1>2. /\ f.op \in WithLhs => ValueIn(m2, f.lhs) = ValueIn(m, f.lhs)
      /\ f.op \in WithRhs => ValueIn(m2, f.rhs) = ValueIn(m, f.rhs)
  BY <1>1 DEF OperandsOK
<1>3. /\ f.op \in Named => ValueIn(m2, vs2[f.args[1]]) = ValueIn(m, vs[f.args[1]])
      /\ f.op \in WithRhs => ValueIn(m2, vs2[f.args[2]]) = ValueIn(m, vs[f.args[2]])
  BY <1>1 DEF ArgumentsNamed, World
<1>4. CASE f.op \in Ops \cup {"vector_index_vector"}
  <2>1. f.op \in WithLhs /\ f.op \in WithRhs /\ f.op \in Named
    BY <1>4, Kinds DEF WithLhs, WithRhs
  <2> QED
    BY <1>2, <1>3, <2>1
<1>5. CASE f.op \notin Ops \cup {"vector_index_vector"}
  <2>1. f.op \in Named => f.op \in WithLhs
    BY DEF Named
  <2> QED
    BY <1>2, <1>3, <1>5, <2>1 DEF OperandsMean
<1> QED
  BY <1>2, <1>4, <1>5

\* Steps that store elsewhere keep what a call has done.
LEMMA MeaningKept ==
    ASSUME NEW m, NEW m2, NEW S, NEW S2, NEW b, NEW G, NEW G2, NEW d, NEW vs,
           Elsewhere(m, m2, S, S2, b, G, G2, d), World(m, S, b, G, vs),
           NEW vs2, \A k \in DOMAIN vs : k \in DOMAIN vs2 /\ vs2[k] = vs[k],
           NEW f \in IntFrame, FrameOK(m, S, G, f), f.dst = 0 \/ f.dst # d,
           FrameMeans(m, vs, f)
    PROVE  FrameMeans(m2, vs2, f)
<1>1. OperandsOK(G, f) /\ ArgumentsNamed(vs, f)
      /\ OperandsMean(f, ValueIn(m, f.lhs), ValueIn(m, f.rhs),
                      ValueIn(m, vs[f.args[1]]), ValueIn(m, vs[f.args[2]]))
  BY DEF FrameOK, FrameMeans
<1>2. /\ f.op \in WithLhs => ValueIn(m2, f.lhs) = ValueIn(m, f.lhs)
      /\ f.op \in WithRhs => ValueIn(m2, f.rhs) = ValueIn(m, f.rhs)
  BY <1>1, OperandsMeanKept
<1>3. ArgumentsNamed(vs2, f)
  BY DEF FrameMeans, ArgumentsNamed
<1>4. OperandsMean(f, ValueIn(m2, f.lhs), ValueIn(m2, f.rhs),
                   ValueIn(m2, vs2[f.args[1]]), ValueIn(m2, vs2[f.args[2]]))
  BY <1>1, OperandsMeanKept
<1>5. ASSUME Building(f)
      PROVE  ResultMeans(m2, f, ValueIn(m2, f.lhs), ValueIn(m2, f.rhs))
  <2>1. PICK a \in S : a.addr = f.dst /\ a.size = f.size
    BY <1>5 DEF FrameOK, BuildsOK
  <2>2. /\ f.i <= Maximum(0, f.size) /\ f.op # "print_vector"
        /\ f.op = "filter" => Word(m, f.dst) \in 0..f.i
    BY <1>5 DEF FrameOK, BuildsOK, Building
  <2>3. f.i \in Nat /\ f.size \in Int /\ f.dst \in Nat
    BY DEF IntFrame, AnyFrame
  <2>4. f.dst # 0
    BY <2>1 DEF World, BlocksOK
  <2>5. \A w \in f.dst..(f.dst + Maximum(0, f.size)) : Word(m2, w) = Word(m, w)
    BY <2>1, <2>4 DEF Elsewhere, Same
  <2>6. \A j \in 0..f.i : Word(m2, f.dst + j) = Word(m, f.dst + j)
    <3> SUFFICES ASSUME NEW j \in 0..f.i PROVE Word(m2, f.dst + j) = Word(m, f.dst + j)
      OBVIOUS
    <3>1. f.dst + j \in f.dst..(f.dst + Maximum(0, f.size))
      BY <2>2, <2>3 DEF Maximum
    <3> QED
      BY <2>5, <3>1
  <2>7. f.op = "filter" => ValueIn(m2, f.dst) = ValueIn(m, f.dst)
    <3> SUFFICES ASSUME f.op = "filter" PROVE ValueIn(m2, f.dst) = ValueIn(m, f.dst)
      OBVIOUS
    <3>1. Word(m2, f.dst + 0) = Word(m, f.dst + 0) /\ f.dst + 0 = f.dst
      BY <2>3, <2>6
    <3>2. \A j \in 1..Maximum(0, Word(m, f.dst)) : j \in 0..f.i
      BY <2>2, <2>3 DEF Maximum
    <3> QED
      BY <2>6, <3>1, <3>2 DEF ValueIn
  <2>8. ResultMeans(m, f, ValueIn(m, f.lhs), ValueIn(m, f.rhs))
    BY <1>5 DEF FrameMeans
  <2>9. \A j \in 1..f.i : Word(m2, f.dst + j) = Word(m, f.dst + j)
    BY <2>6
  <2> QED
    BY <1>2, <2>2, <2>7, <2>8, <2>9, ResultKept
<1>6. BodyMeans(f)
  BY DEF FrameMeans
<1> QED
  BY <1>3, <1>4, <1>5, <1>6 DEF FrameMeans

\* The same for the calls of a stack.
LEMMA FramesKept ==
    ASSUME NEW m, NEW m2, NEW S, NEW S2, NEW b, NEW G, NEW G2, NEW d, NEW vs,
           Elsewhere(m, m2, S, S2, b, G, G2, d), World(m, S, b, G, vs),
           NEW vs2, \A k \in DOMAIN vs : k \in DOMAIN vs2 /\ vs2[k] = vs[k],
           NEW fs \in Seq(IntFrame), StackOK(m, S, G, fs),
           \A j \in DOMAIN fs : fs[j].dst = 0 \/ fs[j].dst # d,
           FramesMean(m, vs, fs)
    PROVE  FramesMean(m2, vs2, fs)
<1> SUFFICES ASSUME NEW j \in DOMAIN fs PROVE FrameMeans(m2, vs2, fs[j])
  BY DEF FramesMean
<1>1. fs[j] \in IntFrame /\ FrameOK(m, S, G, fs[j]) /\ FrameMeans(m, vs, fs[j])
  BY DEF StackOK, FramesMean
<1> QED
  BY <1>1, MeaningKept

LEMMA FramesPushed ==
    ASSUME NEW m, NEW vs, NEW fs \in Seq(IntFrame), FramesMean(m, vs, fs),
           NEW f \in IntFrame, FrameMeans(m, vs, f)
    PROVE  FramesMean(m, vs, Append(fs, f))
<1> DEFINE t == Append(fs, f)
<1>1. \A j \in DOMAIN t : (j \in DOMAIN fs /\ t[j] = fs[j]) \/ t[j] = f
  OBVIOUS
<1> HIDE DEF t
<1>2. FramesMean(m, vs, t)
  BY <1>1 DEF FramesMean
<1> QED
  BY <1>2 DEF t

LEMMA FramesPopped ==
    ASSUME NEW m, NEW vs, NEW fs \in Seq(IntFrame), fs # <<>>, FramesMean(m, vs, fs)
    PROVE  FramesMean(m, vs, Pop(fs)) /\ FrameMeans(m, vs, Top(fs))
<1>1. \A j \in DOMAIN Pop(fs) : j \in DOMAIN fs /\ Pop(fs)[j] = fs[j]
  BY TopAndPop
<1>2. Top(fs) = fs[Len(fs)] /\ Len(fs) \in DOMAIN fs
  <2>1. Len(fs) \in Nat \ {0} /\ Top(fs) = fs[Len(fs)]
    BY TopAndPop
  <2> QED
    BY <2>1
<1> QED
  BY <1>1, <1>2 DEF FramesMean

\* The running call has stored into its vector, or nobody has stored.
LEMMA FramesReplaced ==
    ASSUME NEW m, NEW m2, NEW S, NEW S2, NEW b, NEW G, NEW G2, NEW d, NEW vs,
           Elsewhere(m, m2, S, S2, b, G, G2, d), World(m, S, b, G, vs),
           NEW vs2, \A k \in DOMAIN vs : k \in DOMAIN vs2 /\ vs2[k] = vs[k],
           NEW fs \in Seq(IntFrame), fs # <<>>, StackOK(m, S, G, fs), d = 0 \/ d = Top(fs).dst,
           FramesMean(m, vs, fs)
    PROVE  /\ FramesMean(m2, vs2, Pop(fs))
           /\ \A f \in IntFrame : FrameMeans(m2, vs2, f) => FramesMean(m2, vs2, Append(Pop(fs), f))
<1>1. Pop(fs) \in Seq(IntFrame)
  BY TopAndPop
<1>2. StackOK(m, S, G, Pop(fs)) /\ FramesMean(m, vs, Pop(fs))
  BY StackPopped, FramesPopped
<1>3. \A j \in DOMAIN Pop(fs) : Pop(fs)[j].dst = 0 \/ Pop(fs)[j].dst # d
  BY StackPopped
<1>4. FramesMean(m2, vs2, Pop(fs))
  BY <1>1, <1>2, <1>3, FramesKept
<1> QED
  BY <1>1, <1>4, FramesPushed

----------------------------------------------------------------------------
(* The pending calls of VectorSpec. *)

PendingCalls ==
    [op: Ops \cup OtherFunctions \cup {"increase_vector_size"}, args: Seq(Int), body: Seq(Int)]

LEMMA PendingIs ==
    ASSUME NEW fs \in Seq(IntFrame), ~Increasing(fs)
    PROVE  /\ Pending(fs) \in Seq(PendingCalls) /\ Len(Pending(fs)) = Len(fs)
           /\ \A k \in 1..Len(fs) : Pending(fs)[k] = PendingOf(fs[k])
<1>1. ProgramCalls(fs) = fs
  BY DEF ProgramCalls
<1>2. \A k \in 1..Len(fs) : PendingOf(fs[k]) \in PendingCalls
  <2>1. \A f \in IntFrame : PendingOf(f) \in PendingCalls
    BY DEF PendingOf, PendingCalls, IntFrame, AnyFrame
  <2> HIDE DEF PendingCalls, PendingOf
  <2> QED
    BY <2>1
<1>3. Pending(fs) = [k \in 1..Len(fs) |-> PendingOf(fs[k])]
  BY <1>1 DEF Pending
<1> QED
  BY <1>2, <1>3

LEMMA PendingPushed ==
    ASSUME NEW fs \in Seq(IntFrame), ~Increasing(fs), NEW f \in IntFrame
    PROVE  Pending(Append(fs, f)) = IF f.op = "increase_vector_size" THEN Pending(fs)
                                    ELSE Append(Pending(fs), PendingOf(f))
<1> DEFINE t == Append(fs, f)
<1>1. /\ t \in Seq(IntFrame) /\ t # <<>> /\ Len(t) = Len(fs) + 1 /\ t[Len(t)] = f
      /\ \A k \in 1..Len(fs) : t[k] = fs[k]
  OBVIOUS
<1>2. Pop(t) = fs
  BY DEF Pop
<1> HIDE DEF t
<1>3. Top(t) = f
  BY <1>1 DEF Top
<1>4. CASE f.op = "increase_vector_size"
  <2>1. ProgramCalls(t) = fs /\ ProgramCalls(fs) = fs
    BY <1>1, <1>2, <1>3, <1>4 DEF ProgramCalls, Increasing
  <2> QED
    BY <1>4, <2>1 DEF Pending, t
<1>5. CASE f.op # "increase_vector_size"
  <2>1. ~Increasing(t)
    BY <1>3, <1>5 DEF Increasing
  <2>2. /\ Pending(t) \in Seq(PendingCalls) /\ Len(Pending(t)) = Len(fs) + 1
        /\ \A k \in 1..(Len(fs) + 1) : Pending(t)[k] = PendingOf(t[k])
    BY <1>1, <2>1, PendingIs
  <2>3. /\ Pending(fs) \in Seq(PendingCalls) /\ Len(Pending(fs)) = Len(fs)
        /\ \A k \in 1..Len(fs) : Pending(fs)[k] = PendingOf(fs[k])
    BY PendingIs
  <2> DEFINE p == Append(Pending(fs), PendingOf(f))
  <2>4. PendingOf(f) \in PendingCalls
    BY DEF PendingOf, PendingCalls, IntFrame, AnyFrame
  <2>5. /\ p \in Seq(PendingCalls) /\ Len(p) = Len(fs) + 1 /\ p[Len(fs) + 1] = PendingOf(f)
        /\ \A k \in 1..Len(fs) : p[k] = PendingOf(fs[k])
    BY <2>3, <2>4
  <2> HIDE DEF p
  <2>6. \A k \in 1..(Len(fs) + 1) : p[k] = Pending(t)[k]
    BY <1>1, <2>2, <2>5
  <2>7. p = Pending(t)
    BY <2>2, <2>5, <2>6
  <2> QED
    BY <1>5, <2>7 DEF p, t
<1> QED
  BY <1>4, <1>5

LEMMA PendingTop ==
    ASSUME NEW fs \in Seq(IntFrame), fs # <<>>, ~Increasing(fs), ~Increasing(Pop(fs))
    PROVE  /\ Pending(fs) # <<>>
           /\ Abstract!Top(Pending(fs)) = PendingOf(Top(fs))
           /\ Abstract!Pop(Pending(fs)) = Pending(Pop(fs))
<1>1. /\ Len(fs) \in Nat \ {0} /\ Top(fs) = fs[Len(fs)] /\ Pop(fs) \in Seq(IntFrame)
      /\ Len(Pop(fs)) = Len(fs) - 1 /\ \A i \in 1..(Len(fs) - 1) : Pop(fs)[i] = fs[i]
  <2>1. /\ Len(fs) \in Nat \ {0} /\ Top(fs) = fs[Len(fs)] /\ Pop(fs) \in Seq(IntFrame)
        /\ Len(Pop(fs)) = Len(fs) - 1
    BY TopAndPop
  <2>2. \A i \in 1..(Len(fs) - 1) : Pop(fs)[i] = fs[i]
    BY TopAndPop
  <2> QED
    BY <2>1, <2>2
<1>2. /\ Pending(fs) \in Seq(PendingCalls) /\ Len(Pending(fs)) = Len(fs)
      /\ \A k \in 1..Len(fs) : Pending(fs)[k] = PendingOf(fs[k])
  BY PendingIs
<1>3. /\ Pending(Pop(fs)) \in Seq(PendingCalls) /\ Len(Pending(Pop(fs))) = Len(fs) - 1
      /\ \A k \in 1..(Len(fs) - 1) : Pending(Pop(fs))[k] = PendingOf(fs[k])
  BY <1>1, PendingIs
<1>4. Pending(fs) # <<>> /\ Abstract!Top(Pending(fs)) = PendingOf(Top(fs))
  BY <1>1, <1>2 DEF Abstract!Top
<1> DEFINE p == Abstract!Pop(Pending(fs))
<1>5. /\ p \in Seq(PendingCalls) /\ Len(p) = Len(fs) - 1
      /\ \A k \in 1..(Len(fs) - 1) : p[k] = PendingOf(fs[k])
  BY <1>1, <1>2 DEF Abstract!Pop
<1> HIDE DEF p
<1>6. p = Pending(Pop(fs))
  BY <1>3, <1>5
<1> QED
  BY <1>4, <1>6 DEF p

\* Changes that VectorSpec does not see.
LEMMA PendingReplaced ==
    ASSUME NEW fs \in Seq(IntFrame), fs # <<>>, ~Increasing(Pop(fs)),
           NEW f \in IntFrame, f.op = Top(fs).op, f.args = Top(fs).args, f.body = Top(fs).body
    PROVE  Pending(Append(Pop(fs), f)) = Pending(fs)
<1>1. Pop(fs) \in Seq(IntFrame) /\ Top(fs) \in IntFrame
  BY TopAndPop
<1>2. PendingOf(f) = PendingOf(Top(fs))
  BY DEF PendingOf
<1>3. Append(Pop(fs), Top(fs)) = fs
  BY DEF Pop, Top
<1>4. Pending(fs) = IF Top(fs).op = "increase_vector_size" THEN Pending(Pop(fs))
                    ELSE Append(Pending(Pop(fs)), PendingOf(Top(fs)))
  BY <1>1, <1>3, PendingPushed
<1>5. Pending(Append(Pop(fs), f)) = IF f.op = "increase_vector_size" THEN Pending(Pop(fs))
                                    ELSE Append(Pending(Pop(fs)), PendingOf(f))
  BY <1>1, PendingPushed
<1> QED
  BY <1>2, <1>4, <1>5

\* What is below a call: an operation that waits for its operand, or a body.
LEMMA CallersOf ==
    ASSUME NEW m, NEW S, NEW G, NEW fs \in Seq(IntFrame), StackOK(m, S, G, fs), fs # <<>>
    PROVE  /\ ~Increasing(Pop(fs))
           /\ Pop(fs) # <<>> => Top(Pop(fs)).op \in Ops \cup Scoped
<1>1. Pop(fs) \in Seq(IntFrame) /\ StackOK(m, S, G, Pop(fs))
  BY TopAndPop, StackPopped
<1>2. ASSUME Pop(fs) # <<>> PROVE Top(Pop(fs)).op \in Ops \cup Scoped
  <2>1. CalledBy(m, Top(Pop(fs)), Top(fs))
    BY <1>2, StackPopped
  <2>2. StageOK(m, Top(Pop(fs)))
    <3>1. FrameOK(m, S, G, Top(Pop(fs)))
      BY <1>1, <1>2, StackPopped
    <3> QED
      BY <3>1 DEF FrameOK
  <2> QED
    BY <2>1, <2>2 DEF CalledBy, StageOK
<1> QED
  BY <1>2, Kinds DEF Increasing, Scoped

----------------------------------------------------------------------------
(* The values of VectorSpec. *)

LEMMA ValuesAre ==
    ASSUME vectors \in Seq(Nat)
    PROVE  Values = [k \in DOMAIN vectors |-> ValueIn(mem, vectors[k])]
<1> SUFFICES ASSUME NEW k \in DOMAIN vectors
             PROVE  Contents(vectors[k]) = ValueIn(mem, vectors[k])
  BY DEF Values
<1> DEFINE v == vectors[k]
<1>1. v \in Nat
  OBVIOUS
<1> HIDE DEF v
<1>2. \A i \in Int : v + 1 + (i - 1) = v + i
  BY <1>1
<1>3. Maximum(0, Size(v)) = Maximum(0, Word(mem, v))
  BY DEF Size, Load, Word
<1>4. \A i \in Int : Element(v, i - 1) = Word(mem, v + i)
  <2>1. \A i : Element(v, i - 1) = Word(mem, v + 1 + (i - 1))
    BY DEF Element, ElementAddr, Load, Word
  <2> QED
    BY <1>2, <2>1
<1>5. Contents(v) = ValueIn(mem, v)
  BY <1>3, <1>4 DEF Contents, ValueIn
<1> QED
  BY <1>5 DEF v

LEMMA ValuesNext ==
    ASSUME vectors' \in Seq(Nat)
    PROVE  Values' = [k \in DOMAIN vectors' |-> ValueIn(mem', vectors'[k])]
<1> SUFFICES ASSUME NEW k \in DOMAIN vectors'
             PROVE  [i \in 1..Maximum(0, Size(vectors[k])') |-> Element(vectors[k], i - 1)']
                    = ValueIn(mem', vectors'[k])
  BY DEF Values, Contents
<1> DEFINE v == vectors'[k]
<1>1. v \in Nat
  OBVIOUS
<1> HIDE DEF v
<1>2. \A i \in Int : v + 1 + (i - 1) = v + i
  BY <1>1
<1>3. Size(vectors[k])' = Word(mem', v)
  BY DEF Size, Load, Word, v
<1>4. \A i \in Int : Element(vectors[k], i - 1)' = Word(mem', v + i)
  <2>1. \A i : Element(vectors[k], i - 1)' = Word(mem', v + 1 + (i - 1))
    BY DEF Element, ElementAddr, Load, Word, v
  <2> QED
    BY <1>2, <2>1
<1> QED
  BY <1>3, <1>4 DEF ValueIn, v

\* The vectors of the program and what is on the stack.
LEMMA Situation ==
    ASSUME MeaningInv
    PROVE  /\ frames \in Seq(IntFrame) /\ vectors \in Seq(Nat)
           /\ \E G \in SUBSET Allocations :
                 /\ World(mem, Allocations, brk, G, vectors)
                 /\ Owned(mem, Allocations, G, frames, vectors)
                 /\ StackOK(mem, Allocations, G, frames)
           /\ FramesMean(mem, vectors, frames)
           /\ frames # <<>> => /\ Frame \in IntFrame /\ FrameMeans(mem, vectors, Frame)
                               /\ ~Increasing(Pop(frames))
<1>1. PICK G \in SUBSET Allocations : Owned(mem, Allocations, G, frames, vectors)
  BY DEF MeaningInv, OwnerInv, OwnedInv
<1>2. frames \in Seq(IntFrame) /\ vectors \in Seq(Nat)
  BY DEF MeaningInv, OwnerInv, DisjointInv, HoldsInts, GoodFrames
<1>3. World(mem, Allocations, brk, G, vectors) /\ StackOK(mem, Allocations, G, frames)
  BY <1>1 DEF MeaningInv, OwnerInv, Owned, World
<1>4. FramesMean(mem, vectors, frames)
  BY DEF MeaningInv, Meant
<1>5. ASSUME frames # <<>>
      PROVE  Frame \in IntFrame /\ FrameMeans(mem, vectors, Frame) /\ ~Increasing(Pop(frames))
  <2>1. Frame \in IntFrame
    BY <1>2, <1>5, TopAndPop DEF Frame
  <2>2. FrameMeans(mem, vectors, Frame)
    BY <1>2, <1>4, <1>5, FramesPopped DEF Frame
  <2>3. ~Increasing(Pop(frames))
    BY <1>2, <1>3, <1>5, CallersOf
  <2> QED
    BY <2>1, <2>2, <2>3
<1> QED
  BY <1>1, <1>2, <1>3, <1>4, <1>5

\* The program makes calls where VectorSpec does.
LEMMA InBodyIs ==
    ASSUME MeaningInv, frames # <<>> => Frame.at = "body"
    PROVE  Abstract!InBody /\ ~Increasing(frames)
<1>1. /\ frames \in Seq(IntFrame) /\ vectors \in Seq(Nat)
      /\ frames # <<>> => Frame \in IntFrame /\ FrameMeans(mem, vectors, Frame)
                          /\ ~Increasing(Pop(frames))
  BY Situation
<1>2. PICK G \in SUBSET Allocations : /\ World(mem, Allocations, brk, G, vectors)
                                      /\ StackOK(mem, Allocations, G, frames)
  BY Situation
<1>3. ASSUME frames # <<>>
      PROVE  FrameOK(mem, Allocations, G, Frame) /\ Frame.at = "body" /\ Frame.op \in Scoped
  <2>1. FrameOK(mem, Allocations, G, Frame)
    BY <1>1, <1>2, <1>3, StackPopped DEF Frame
  <2> QED
    BY <1>3, <2>1 DEF FrameOK, StageOK
<1>4. ~Increasing(frames)
  BY <1>3 DEF Increasing, Frame, Scoped
<1>5. CASE frames = <<>>
  <2>1. Pending(frames) = <<>>
    <3>1. Pending(frames) \in Seq(PendingCalls) /\ Len(Pending(frames)) = Len(frames)
      BY <1>1, <1>4, PendingIs
    <3> QED
      BY <1>5, <3>1
  <2> QED
    BY <1>4, <2>1 DEF Abstract!InBody
<1>6. CASE frames # <<>>
  <2> DEFINE p == Abstract!Top(Pending(frames))
  <2>1. p = PendingOf(Frame)
    BY <1>1, <1>4, <1>6, PendingTop DEF Frame
  <2>2. p.op = Frame.op /\ p.args = Frame.args /\ p.body = Frame.body
    BY <2>1 DEF PendingOf
  <2> HIDE DEF p
  <2>3. Building(Frame)
    BY <1>3, <1>6 DEF Building, Scoped
  <2>4. Frame.i < Frame.size /\ Frame.size = Word(mem, Frame.lhs) /\ IsVector(G, Frame.lhs)
    BY <1>3, <1>6, <2>3 DEF FrameOK, BuildsOK, StageOK, OperandsOK, WithLhs
  <2>5. Len(ValueIn(mem, Frame.lhs)) = Word(mem, Frame.lhs)
    BY <1>2, <2>4, VectorValue
  <2>6. Len(Frame.body) = Frame.i
    BY <1>1, <1>3, <1>6 DEF FrameMeans, BodyMeans
  <2>7. Frame.op \in Named \ Ops
    BY <1>3, <1>6, Kinds DEF OtherFunctions
  <2>8. Frame.args[1] \in DOMAIN vectors
        /\ ValueIn(mem, Frame.lhs) = ValueIn(mem, vectors[Frame.args[1]])
    BY <1>1, <1>6, <2>7 DEF FrameMeans, ArgumentsNamed, OperandsMean
  <2>9. Values[Frame.args[1]] = ValueIn(mem, Frame.lhs)
    BY <1>1, <2>8, ValuesAre
  <2>10. Len(p.body) < Len(Abstract!Domain(p))
    BY <2>2, <2>4, <2>5, <2>6, <2>9 DEF Abstract!Domain
  <2>11. p.op \in Abstract!Scoped
    BY <1>3, <1>6, <2>2 DEF Abstract!Scoped, Scoped
  <2> QED
    BY <1>4, <2>10, <2>11 DEF Abstract!InBody, p
<1> QED
  BY <1>5, <1>6

----------------------------------------------------------------------------
(* Calls. *)

LEMMA PendingNext == Pending(frames)' = Pending(frames')
  BY DEF Pending, ProgramCalls, Increasing, PendingOf, Top, Pop

LEMMA ValuesSame ==
    ASSUME vectors \in Seq(Nat), mem' = mem, vectors' = vectors
    PROVE  Values' = Values
<1>1. vectors' \in Seq(Nat)
  OBVIOUS
<1>2. Values' = [k \in DOMAIN vectors' |-> ValueIn(mem', vectors'[k])]
  BY <1>1, ValuesNext
<1> QED
  BY <1>2, ValuesAre

LEMMA CalledMeans ==
    ASSUME MeaningInv, OwnerInv', frames # <<>> => Frame.at = "body", NEW f, Called(f),
           f.op # "increase_vector_size", f.body = <<>>, f.op = "print_vector" => f.i = 0,
           FrameMeans(mem, vectors, f)
    PROVE  Meant(mem', vectors', frames', line') /\ Abstract!SpecCall(f.op, f.args)
<1>1. /\ frames \in Seq(IntFrame) /\ vectors \in Seq(Nat) /\ FramesMean(mem, vectors, frames)
      /\ frames' \in Seq(IntFrame)
  BY Situation DEF OwnerInv, DisjointInv, HoldsInts, GoodFrames
<1>2. /\ frames' = Append(frames, f) /\ mem' = mem /\ vectors' = vectors /\ line' = line
      /\ out' = out
  BY DEF Called
<1>3. f \in IntFrame /\ frames' # <<>> /\ Top(frames') = f
  BY <1>1, <1>2 DEF Top
<1>4. ~Increasing(frames) /\ Abstract!InBody
  BY InBodyIs
<1>5. FramesMean(mem', vectors', frames')
  BY <1>1, <1>2, <1>3, FramesPushed
<1>6. ExtendsMeans(mem', frames')
  BY <1>3 DEF ExtendsMeans, Increasing
<1>7. LineMeans(mem', frames', line')
  <2>1. line = <<>>
    <3>1. PICK G \in SUBSET Allocations : StackOK(mem, Allocations, G, frames)
      BY Situation
    <3>2. frames # <<>> => Frame.op \in Scoped
      <4>1. frames # <<>> => FrameOK(mem, Allocations, G, Frame)
        BY <1>1, <3>1, StackPopped DEF Frame
      <4> QED
        BY <4>1 DEF FrameOK, StageOK
    <3> QED
      BY <3>2 DEF MeaningInv, Meant, LineMeans, Frame, Scoped
  <2>2. Printed(ValueIn(mem, f.lhs), 0) = <<>>
    BY DEF Printed
  <2>3. Len(ValueIn(mem, f.lhs)) >= 0
    <3>1. WordsOK(mem, Allocations)
      BY DEF MeaningInv, OwnerInv
    <3>2. ValueIn(mem, f.lhs) \in Seq(Int)
      BY <3>1, ValueIsSeq
    <3> QED
      BY <3>2
  <2> QED
    BY <1>2, <1>3, <2>1, <2>2, <2>3 DEF LineMeans
<1>8. Pending(frames)' = Append(Pending(frames), [op |-> f.op, args |-> f.args, body |-> <<>>])
  <2>1. Pending(frames') = Append(Pending(frames), PendingOf(f))
    BY <1>1, <1>2, <1>3, <1>4, PendingPushed
  <2> QED
    BY <2>1, PendingNext DEF PendingOf
<1>9. Values' = Values
  BY <1>1, <1>2, ValuesSame
<1> QED
  BY <1>2, <1>4, <1>5, <1>6, <1>7, <1>8, <1>9 DEF Meant, Abstract!SpecCall

\* The calls of the program are those of VectorSpec.
LEMMA CallMeans ==
    ASSUME MeaningInv, OwnerInv', Call
    PROVE  Meant(mem', vectors', frames', line') /\ Abstract!SpecNext
<1>1. /\ vectors \in Seq(Nat)
      /\ \E G \in SUBSET Allocations : World(mem, Allocations, brk, G, vectors)
  BY Situation
<1>2. PICK G \in SUBSET Allocations : World(mem, Allocations, brk, G, vectors)
  BY <1>1
<1>3. ASSUME NEW k \in DOMAIN vectors
      PROVE  /\ Size(vectors[k]) \in Nat /\ k \in DOMAIN Values
             /\ Len(Values[k]) = Size(vectors[k])
  <2>1. IsVector(G, vectors[k])
    BY <1>2 DEF World
  <2>2. Word(mem, vectors[k]) \in Nat /\ Len(ValueIn(mem, vectors[k])) = Word(mem, vectors[k])
    BY <1>2, <2>1, VectorValue
  <2> QED
    BY <1>1, <2>2, ValuesAre DEF Size, Load, Word
<1>4. ASSUME NEW f, Called(f), frames # <<>> => Frame.at = "body", f.op # "increase_vector_size",
             f.body = <<>>, f.i = 0, FrameMeans(mem, vectors, f)
      PROVE  Meant(mem', vectors', frames', line') /\ Abstract!SpecCall(f.op, f.args)
  BY <1>4, CalledMeans
<1>5. ASSUME NEW n \in Ints, NEW m \in Ints, CallRange(n, m)
      PROVE  Meant(mem', vectors', frames', line') /\ Abstract!SpecNext
  <2> DEFINE f == NewFrame("vector_range", <<n, m>>, n, m, "alloc")
  <2>1. /\ f.op = "vector_range" /\ f.args = <<n, m>> /\ f.body = <<>> /\ f.i = 0
        /\ f.at = "alloc"
    BY DEF NewFrame
  <2>2. Called(f) /\ (frames # <<>> => Frame.at = "body")
    BY <1>5 DEF CallRange, MayCall
  <2> HIDE DEF f
  <2>3. FrameMeans(mem, vectors, f)
    BY <2>1, Kinds DEF FrameMeans, ArgumentsNamed, OperandsMean, BodyMeans, Building, WithRhs,
                       OtherFunctions, Scoped
  <2>4. Meant(mem', vectors', frames', line') /\ Abstract!SpecCall("vector_range", <<n, m>>)
    BY <1>4, <2>1, <2>2, <2>3
  <2> QED
    BY <2>4 DEF Abstract!SpecNext
<1>6. ASSUME NEW k \in DOMAIN vectors, NEW x \in Ints, CallIntToVector(k, x)
      PROVE  Meant(mem', vectors', frames', line') /\ Abstract!SpecNext
  <2> DEFINE n == Size(vectors[k])
             f == NewFrame("int_to_vector", <<n, x>>, n, x, "alloc")
  <2>1. /\ f.op = "int_to_vector" /\ f.args = <<n, x>> /\ f.body = <<>> /\ f.i = 0
        /\ f.at = "alloc"
    BY DEF NewFrame
  <2>2. Called(f) /\ (frames # <<>> => Frame.at = "body")
    BY <1>6 DEF CallIntToVector, MayCall
  <2>3. n \in Nat /\ n = Len(Values[k]) /\ k \in DOMAIN Values
    BY <1>3
  <2> HIDE DEF f, n
  <2>4. FrameMeans(mem, vectors, f)
    BY <2>1, <2>3, Kinds DEF FrameMeans, ArgumentsNamed, OperandsMean, BodyMeans, Building,
                             WithRhs, OtherFunctions, Scoped
  <2>5. Meant(mem', vectors', frames', line') /\ Abstract!SpecCall("int_to_vector", <<n, x>>)
    BY <1>4, <2>1, <2>2, <2>4
  <2> QED
    BY <2>3, <2>5 DEF Abstract!SpecNext
<1>7. ASSUME NEW op \in Ops, NEW k \in DOMAIN vectors, NEW l \in DOMAIN vectors, CallOp(op, k, l)
      PROVE  Meant(mem', vectors', frames', line') /\ Abstract!SpecNext
  <2> DEFINE f == NewFrame(op, <<k, l>>, vectors[k], vectors[l], "match_lhs")
  <2>1. /\ f.op = op /\ f.args = <<k, l>> /\ f.body = <<>> /\ f.i = 0
        /\ f.at = "match_lhs" /\ f.lhs = vectors[k] /\ f.rhs = vectors[l]
    BY DEF NewFrame
  <2>2. Called(f) /\ (frames # <<>> => Frame.at = "body")
    BY <1>7 DEF CallOp, MayCall
  <2>3. k \in DOMAIN Values /\ l \in DOMAIN Values
    BY <1>3
  <2> HIDE DEF f
  <2>4. op \notin OtherFunctions \cup {"increase_vector_size"}
    BY Kinds
  <2>5. FrameMeans(mem, vectors, f)
    BY <2>1, <2>4 DEF FrameMeans, ArgumentsNamed, OperandsMean, BodyMeans, Building,
                      OtherFunctions, Scoped
  <2>6. Meant(mem', vectors', frames', line') /\ Abstract!SpecCall(op, <<k, l>>)
    BY <1>4, <2>1, <2>2, <2>4, <2>5
  <2> QED
    BY <2>3, <2>6 DEF Abstract!SpecNext, Abstract!VectorArgs
<1>8. ASSUME NEW k \in DOMAIN vectors, NEW l \in DOMAIN vectors, CallIndexVector(k, l)
      PROVE  Meant(mem', vectors', frames', line') /\ Abstract!SpecNext
  <2> DEFINE f == NewFrame("vector_index_vector", <<k, l>>, vectors[k], vectors[l], "alloc")
  <2>1. /\ f.op = "vector_index_vector" /\ f.args = <<k, l>> /\ f.body = <<>> /\ f.i = 0
        /\ f.at = "alloc" /\ f.lhs = vectors[k] /\ f.rhs = vectors[l]
    BY DEF NewFrame
  <2>2. Called(f) /\ (frames # <<>> => Frame.at = "body")
    BY <1>8 DEF CallIndexVector, MayCall
  <2>3. k \in DOMAIN Values /\ l \in DOMAIN Values
    BY <1>3
  <2> HIDE DEF f
  <2>4. f.op \notin Ops
    BY <2>1, Kinds DEF OtherFunctions
  <2>5. FrameMeans(mem, vectors, f)
    BY <2>1, <2>4 DEF FrameMeans, ArgumentsNamed, OperandsMean, BodyMeans, Building, Scoped
  <2>6. Meant(mem', vectors', frames', line')
        /\ Abstract!SpecCall("vector_index_vector", <<k, l>>)
    BY <1>4, <2>1, <2>2, <2>5
  <2> QED
    BY <2>3, <2>6 DEF Abstract!SpecNext, Abstract!VectorArgs
<1>9. ASSUME NEW op \in Scoped, NEW k \in DOMAIN vectors, CallScoped(op, k)
      PROVE  Meant(mem', vectors', frames', line') /\ Abstract!SpecNext
  <2> DEFINE f == NewFrame(op, <<k>>, vectors[k], 0, "alloc")
  <2>1. /\ f.op = op /\ f.args = <<k>> /\ f.body = <<>> /\ f.i = 0
        /\ f.at = "alloc" /\ f.lhs = vectors[k]
    BY DEF NewFrame
  <2>2. Called(f) /\ (frames # <<>> => Frame.at = "body")
    BY <1>9 DEF CallScoped, MayCall
  <2>3. k \in DOMAIN Values
    BY <1>3
  <2> HIDE DEF f
  <2>4. f.op \notin Ops \cup WithRhs
    BY <2>1, Kinds DEF OtherFunctions, WithRhs, Scoped
  <2>5. FrameMeans(mem, vectors, f)
    BY <2>1, <2>4 DEF FrameMeans, ArgumentsNamed, OperandsMean, BodyMeans, Building, Scoped
  <2>6. Meant(mem', vectors', frames', line') /\ Abstract!SpecCall(op, <<k>>)
    BY <1>4, <2>1, <2>2, <2>5 DEF Scoped
  <2> QED
    BY <2>3, <2>6 DEF Abstract!SpecNext, Abstract!Scoped, Scoped
<1>10. ASSUME NEW k \in DOMAIN vectors, CallPrint(k)
       PROVE  Meant(mem', vectors', frames', line') /\ Abstract!SpecNext
  <2> DEFINE f == [NewFrame("print_vector", <<k>>, vectors[k], 0, "loop") EXCEPT
                       !.size = Size(vectors[k])]
  <2>1. /\ f.op = "print_vector" /\ f.args = <<k>> /\ f.body = <<>> /\ f.i = 0
        /\ f.at = "loop" /\ f.lhs = vectors[k]
    BY DEF NewFrame
  <2>2. Called(f) /\ (frames # <<>> => Frame.at = "body")
    BY <1>10 DEF CallPrint, MayCall
  <2>3. k \in DOMAIN Values
    BY <1>3
  <2> HIDE DEF f
  <2>4. f.op \notin Ops \cup WithRhs
    BY <2>1, Kinds DEF OtherFunctions, WithRhs
  <2>5. FrameMeans(mem, vectors, f)
    BY <2>1, <2>4 DEF FrameMeans, ArgumentsNamed, OperandsMean, BodyMeans, Building, Scoped
  <2>6. Meant(mem', vectors', frames', line') /\ Abstract!SpecCall("print_vector", <<k>>)
    BY <1>4, <2>1, <2>2, <2>5
  <2> QED
    BY <2>3, <2>6 DEF Abstract!SpecNext
<1> QED
  BY <1>5, <1>6, <1>7, <1>8, <1>9, <1>10 DEF Call

----------------------------------------------------------------------------
(* match_vector_size. *)

LEMMA PaddedIs ==
    ASSUME NEW v \in Seq(Int), NEW n \in Nat, NEW x \in Int
    PROVE  /\ Padded(v, n, x) \in Seq(Int) /\ Len(Padded(v, n, x)) = n
           /\ \A i \in 1..n : Padded(v, n, x)[i] = Abstract!At(v, i, x)
           /\ n = Len(v) => Padded(v, n, x) = v
<1>1. \A i \in 1..n : Abstract!At(v, i, x) \in Int
  BY DEF Abstract!At
<1>2. /\ Padded(v, n, x) \in Seq(Int) /\ Len(Padded(v, n, x)) = n
      /\ \A i \in 1..n : Padded(v, n, x)[i] = Abstract!At(v, i, x)
  BY <1>1 DEF Padded
<1>3. ASSUME n = Len(v) PROVE Padded(v, n, x) = v
  <2> DEFINE p == Padded(v, n, x)
  <2>1. \A i \in 1..n : Abstract!At(v, i, x) = v[i]
    BY <1>3 DEF Abstract!At
  <2>2. p \in Seq(Int) /\ Len(p) = Len(v) /\ \A i \in 1..Len(v) : p[i] = v[i]
    BY <1>2, <1>3, <2>1
  <2> HIDE DEF p
  <2>3. p = v
    BY <2>2
  <2> QED
    BY <2>3 DEF p
<1> QED
  BY <1>2, <1>3

\* The vectors that the program named.
LEMMA NamedValues ==
    ASSUME NEW m, NEW S, NEW b, NEW G, NEW vs, World(m, S, b, G, vs),
           NEW f \in IntFrame, ArgumentsNamed(vs, f)
    PROVE  /\ f.op \in Named => ValueIn(m, vs[f.args[1]]) \in Seq(Int)
           /\ f.op \in WithRhs => ValueIn(m, vs[f.args[2]]) \in Seq(Int)
<1>1. \A k \in DOMAIN vs : ValueIn(m, vs[k]) \in Seq(Int)
  BY ValueIsSeq DEF World
<1> QED
  BY <1>1 DEF ArgumentsNamed

LEMMA MatchMeans ==
    ASSUME MeaningInv, OwnerInv', MatchLhs \/ MatchRhs
    PROVE  Meant(mem', vectors', frames', line') /\ UNCHANGED Abstract!spec_vars
<1> DEFINE S == Allocations
<1>1. /\ frames # <<>> /\ Frame.at \in {"match_lhs", "match_rhs"}
      /\ mem' = mem /\ vectors' = vectors /\ line' = line /\ out' = out
  BY DEF MatchLhs, MatchRhs
<1>2. /\ frames \in Seq(IntFrame) /\ vectors \in Seq(Nat) /\ FramesMean(mem, vectors, frames)
      /\ Frame \in IntFrame /\ FrameMeans(mem, vectors, Frame) /\ ~Increasing(Pop(frames))
  BY <1>1, Situation
<1>3. PICK G \in SUBSET S : /\ World(mem, S, brk, G, vectors)
                            /\ StackOK(mem, S, G, frames)
  BY Situation
<1>4. FrameOK(mem, S, G, Frame)
  BY <1>1, <1>2, <1>3, StackPopped DEF Frame
<1>5. /\ Frame.op \in Ops /\ IsVector(G, Frame.lhs) /\ IsVector(G, Frame.rhs)
      /\ Frame.at = "match_rhs" => Word(mem, Frame.rhs) <= Word(mem, Frame.lhs)
  BY <1>1, <1>4, WaitingOperation
<1> DEFINE lhs == ValueIn(mem, Frame.lhs)
           rhs == ValueIn(mem, Frame.rhs)
           left == ValueIn(mem, vectors[Frame.args[1]])
           right == ValueIn(mem, vectors[Frame.args[2]])
           nl == Word(mem, Frame.lhs)
           nr == Word(mem, Frame.rhs)
<1>6. Frame.op \in Named /\ Frame.op \in WithRhs /\ Frame.op \notin OtherFunctions
      /\ Frame.op # "increase_vector_size"
  BY <1>5, Kinds DEF WithRhs
<1>7. lhs \in Seq(Int) /\ Len(lhs) = nl /\ nl \in Nat /\ Size(Frame.lhs) = nl
  BY <1>3, <1>5, VectorValue DEF Size, Load, Word
<1>8. rhs \in Seq(Int) /\ Len(rhs) = nr /\ nr \in Nat /\ Size(Frame.rhs) = nr
  BY <1>3, <1>5, VectorValue DEF Size, Load, Word
<1>9. left \in Seq(Int) /\ right \in Seq(Int)
  <2>1. ArgumentsNamed(vectors, Frame)
    BY <1>2 DEF FrameMeans
  <2> QED
    BY <1>2, <1>3, <1>6, <2>1, NamedValues
<1>10. OperandsMean(Frame, lhs, rhs, left, right) /\ ArgumentsNamed(vectors, Frame)
       /\ BodyMeans(Frame)
  BY <1>2 DEF FrameMeans
<1>11. line = <<>>
  BY <1>1, <1>6 DEF MeaningInv, Meant, LineMeans, Frame, OtherFunctions
<1>12. Values' = Values
  BY <1>1, <1>2, ValuesSame
<1> DEFINE n == Abstract!Longer(left, right)
<1>13. n \in Nat /\ n = IF Len(left) < Len(right) THEN Len(right) ELSE Len(left)
  BY <1>9 DEF Abstract!Longer
<1>14. ~Increasing(frames)
  BY <1>6 DEF Increasing, Frame
<1> HIDE DEF S, n, lhs, rhs, left, right
\* The operand is the smaller one, and is extended.
<1>15. ASSUME NEW size \in Nat, NEW x, NEW v,
              frames' = Append(frames, NewFrame("increase_vector_size", <<size, x>>, v, 0, "alloc")),
              Word(mem, v) <= size,
              Frame.at = "match_lhs" => v = Frame.lhs /\ x = 0,
              Frame.at = "match_rhs" => v = Frame.rhs /\ x = Abstract!Padding(Frame.op)
       PROVE  Meant(mem', vectors', frames', line') /\ UNCHANGED Abstract!spec_vars
  <2> DEFINE f == NewFrame("increase_vector_size", <<size, x>>, v, 0, "alloc")
  <2>1. /\ f.op = "increase_vector_size" /\ f.args = <<size, x>> /\ f.args[1] = size
        /\ f.args[2] = x /\ f.body = <<>> /\ f.at = "alloc" /\ f.lhs = v
    BY DEF NewFrame
  <2>2. frames' = Append(frames, f)
    BY <1>15
  <2> HIDE DEF f
  <2>3. /\ frames' \in Seq(IntFrame)
    BY DEF OwnerInv, DisjointInv, HoldsInts, GoodFrames
  <2>4. f \in IntFrame /\ frames' # <<>> /\ Top(frames') = f /\ Pop(frames') = frames
    BY <1>2, <2>2, <2>3 DEF Top, Pop
  <2>5. f.op \notin Ops \cup Named \cup WithRhs
    BY <2>1, Kinds DEF WithRhs, Scoped
  <2>6. FrameMeans(mem, vectors, f)
    BY <2>1, <2>5 DEF FrameMeans, ArgumentsNamed, OperandsMean, BodyMeans, Building, WithRhs
  <2>7. FramesMean(mem', vectors', frames')
    BY <1>1, <1>2, <2>2, <2>4, <2>6, FramesPushed
  <2>8. Extends(mem, Frame, f)
    BY <1>15, <2>1 DEF Extends
  <2>9. ExtendsMeans(mem', frames')
    BY <1>1, <2>4, <2>8 DEF ExtendsMeans, Frame
  <2>10. LineMeans(mem', frames', line')
    BY <1>1, <1>11, <2>1, <2>4 DEF LineMeans
  <2>11. Pending(frames') = Pending(frames)
    BY <1>2, <1>14, <2>1, <2>2, <2>4, PendingPushed
  <2> QED
    BY <1>1, <1>12, <2>7, <2>9, <2>10, <2>11, PendingNext DEF Meant, Abstract!spec_vars
\* The operation goes on with its operand.
<1>16. ASSUME NEW at \in {"match_rhs", "alloc"},
              frames' = Append(Pop(frames), [Frame EXCEPT !.at = at]),
              OperandsMean([Frame EXCEPT !.at = at], lhs, rhs, left, right)
       PROVE  Meant(mem', vectors', frames', line') /\ UNCHANGED Abstract!spec_vars
  <2> DEFINE g == [Frame EXCEPT !.at = at]
  <2>1. /\ g \in IntFrame /\ g.op = Frame.op /\ g.args = Frame.args /\ g.body = Frame.body
        /\ g.lhs = Frame.lhs /\ g.rhs = Frame.rhs /\ g.at = at
    BY <1>2 DEF IntFrame, AnyFrame, Places
  <2>2. frames' = Append(Pop(frames), g) /\ OperandsMean(g, lhs, rhs, left, right)
    BY <1>16
  <2> HIDE DEF g
  <2>3. FrameMeans(mem, vectors, g)
    BY <1>6, <1>10, <2>1, <2>2 DEF FrameMeans, ArgumentsNamed, BodyMeans, Building, lhs, rhs,
                                   left, right, OtherFunctions
  <2>4. BlocksOK(S, brk) /\ G \subseteq S
    BY <1>3 DEF World
  <2>5. Elsewhere(mem, mem, S, S, brk, G, G, 0)
    BY <2>4, NothingStored
  <2>6. \A k \in DOMAIN vectors : k \in DOMAIN vectors /\ vectors[k] = vectors[k]
    OBVIOUS
  <2>7. FramesMean(mem, vectors, Append(Pop(frames), g))
    BY <1>1, <1>2, <1>3, <2>1, <2>3, <2>5, <2>6, FramesReplaced
  <2>8. Pop(frames) \in Seq(IntFrame)
    BY <1>1, <1>2, TopAndPop
  <2>9. frames' # <<>> /\ Top(frames') = g
    BY <2>1, <2>2, <2>8 DEF Top
  <2>10. ExtendsMeans(mem', frames') /\ LineMeans(mem', frames', line')
    BY <1>1, <1>6, <1>11, <2>1, <2>9 DEF ExtendsMeans, LineMeans, Increasing, OtherFunctions
  <2>11. Pending(frames') = Pending(frames)
    BY <1>1, <1>2, <2>1, <2>2, PendingReplaced DEF Frame
  <2> QED
    BY <1>1, <1>12, <2>2, <2>7, <2>10, <2>11, PendingNext DEF Meant, Abstract!spec_vars
<1>17. CASE MatchLhs
  <2>1. Frame.at = "match_lhs" /\ lhs = left /\ rhs = right
    BY <1>5, <1>10, <1>17 DEF MatchLhs, OperandsMean
  <2>2. CASE nl < nr
    <3>1. frames' = Append(frames, NewFrame("increase_vector_size", <<nr, 0>>, Frame.lhs, 0, "alloc"))
      BY <1>7, <1>8, <1>17, <2>2 DEF MatchLhs
    <3>2. Word(mem, Frame.lhs) <= nr /\ nr \in Nat
      BY <1>7, <1>8, <2>2
    <3>3. Frame.at # "match_rhs"
      BY <2>1
    <3> HIDE DEF nr, nl
    <3> QED
      BY <1>15, <2>1, <3>1, <3>2, <3>3
  <2>3. CASE ~(nl < nr)
    <3>1. frames' = Append(Pop(frames), [Frame EXCEPT !.at = "match_rhs"])
      BY <1>7, <1>8, <1>17, <2>3 DEF MatchLhs
    <3>2. n = Len(left)
      BY <1>7, <1>8, <1>13, <2>1, <2>3
    <3>3. lhs = Padded(left, n, 0)
      <4>1. 0 \in Int
        OBVIOUS
      <4>2. n = Len(left) => Padded(left, n, 0) = left
        BY <1>9, <1>13, <4>1, PaddedIs
      <4> QED
        BY <2>1, <3>2, <4>2
    <3> DEFINE g == [Frame EXCEPT !.at = "match_rhs"]
    <3>4. g.op = Frame.op /\ g.at = "match_rhs"
      BY <1>2 DEF IntFrame, AnyFrame
    <3> HIDE DEF g
    <3>5. OperandsMean(g, lhs, rhs, left, right)
      BY <1>5, <1>6, <2>1, <3>3, <3>4 DEF OperandsMean, n, OtherFunctions
    <3> QED
      BY <1>16, <3>1, <3>5 DEF g
  <2> QED
    BY <2>2, <2>3
<1>18. CASE MatchRhs
  <2>1. Frame.at = "match_rhs" /\ lhs = Padded(left, n, 0) /\ rhs = right /\ nr <= nl
    BY <1>5, <1>10, <1>18 DEF MatchRhs, OperandsMean, n
  <2>2. nl = n
    <3>1. 0 \in Int /\ left \in Seq(Int) /\ n \in Nat
      BY <1>9, <1>13
    <3>2. Len(Padded(left, n, 0)) = n
      BY <3>1, PaddedIs
    <3> QED
      BY <1>7, <2>1, <3>2
  <2>3. CASE nr < nl
    <3>1. frames' = Append(frames, NewFrame("increase_vector_size", <<nl, DefaultValue(Frame.op)>>,
                                            Frame.rhs, 0, "alloc"))
      BY <1>7, <1>8, <1>18, <2>3 DEF MatchRhs
    <3>2. DefaultValue(Frame.op) = Abstract!Padding(Frame.op)
      BY DEF DefaultValue, Abstract!Padding
    <3> QED
      BY <1>7, <1>8, <1>15, <2>1, <2>3, <3>1, <3>2
  <2>4. CASE ~(nr < nl)
    <3>1. frames' = Append(Pop(frames), [Frame EXCEPT !.at = "alloc"])
      BY <1>7, <1>8, <1>18, <2>4 DEF MatchRhs
    <3>2. n = Len(right)
      BY <1>7, <1>8, <2>1, <2>2, <2>4
    <3>3. rhs = Padded(right, n, Abstract!Padding(Frame.op))
      <4>1. Abstract!Padding(Frame.op) \in Int
        BY DEF Abstract!Padding
      <4> QED
        BY <1>9, <1>13, <2>1, <3>2, <4>1, PaddedIs
    <3> DEFINE g == [Frame EXCEPT !.at = "alloc"]
    <3>4. g.op = Frame.op /\ g.at = "alloc"
      BY <1>2 DEF IntFrame, AnyFrame
    <3> HIDE DEF g
    <3>5. OperandsMean(g, lhs, rhs, left, right)
      BY <1>5, <1>6, <2>1, <3>3, <3>4 DEF OperandsMean, n, OtherFunctions
    <3> QED
      BY <1>16, <3>1, <3>5 DEF g
  <2> QED
    BY <2>3, <2>4
<1> QED
  BY <1>17, <1>18

----------------------------------------------------------------------------
(* Steps of the running call. *)

LEMMA ExtendsKept ==
    ASSUME NEW m, NEW m2, NEW S, NEW S2, NEW b, NEW G, NEW G2, NEW d, NEW vs,
           Elsewhere(m, m2, S, S2, b, G, G2, d), World(m, S, b, G, vs),
           NEW fs, GoodFrames(fs), fs # <<>>, StackOK(m, S, G, fs), ExtendsMeans(m, fs),
           NEW f \in IntFrame, f.op = Top(fs).op, f.args = Top(fs).args, f.lhs = Top(fs).lhs
    PROVE  ExtendsMeans(m2, Append(Pop(fs), f))
<1> DEFINE t == Append(Pop(fs), f)
           below == Pop(fs)
           caller == Top(below)
<1>1. fs \in Seq(IntFrame) /\ below \in Seq(IntFrame) /\ Len(below) = Len(fs) - 1
      /\ Len(fs) \in Nat \ {0} /\ Top(fs) = fs[Len(fs)]
  BY TopAndPop DEF GoodFrames
<1>2. Top(t) = f /\ Pop(t) = below
  BY <1>1 DEF Top, Pop
<1> SUFFICES ASSUME f.op = "increase_vector_size" PROVE Extends(m2, caller, f)
  BY <1>2 DEF ExtendsMeans, Increasing
<1>3. below # <<>>
  <2>1. Len(fs) # 1
    BY <1>1 DEF GoodFrames
  <2> QED
    BY <1>1, <2>1
<1>4. Extends(m, caller, Top(fs))
  BY DEF ExtendsMeans, Increasing
<1>5. FrameOK(m, S, G, Top(fs)) /\ FrameOK(m, S, G, caller)
  <2>1. StackOK(m, S, G, below) /\ FrameOK(m, S, G, Top(fs))
    BY <1>1, StackPopped
  <2> HIDE DEF below
  <2>2. FrameOK(m, S, G, Top(below))
    BY <1>1, <1>3, <2>1, StackPopped
  <2> QED
    BY <2>1, <2>2
<1> HIDE DEF caller, below, t
<1>6. IsVector(G, Top(fs).lhs)
  BY <1>5 DEF FrameOK, OperandsOK, WithLhs
<1>7. caller.at \in {"match_lhs", "match_rhs"} => IsVector(G, caller.lhs) /\ IsVector(G, caller.rhs)
  BY <1>5, WaitingOperation
<1>8. \A v : IsVector(G, v) => Word(m2, v) = Word(m, v) /\ ValueIn(m2, v) = ValueIn(m, v)
  BY ValueKept
<1> QED
  BY <1>4, <1>6, <1>7, <1>8 DEF Extends

\* The running call changes its registers, and stores into its vector or into none.
LEMMA RunningMeans ==
    ASSUME MeaningInv, frames # <<>>,
           NEW G, World(mem, Allocations, brk, G, vectors), StackOK(mem, Allocations, G, frames),
           NEW S2, NEW d, Elsewhere(mem, mem', Allocations, S2, brk, G, G, d),
           d = 0 \/ d = Frame.dst,
           NEW f \in IntFrame, f.op = Frame.op, f.args = Frame.args, f.lhs = Frame.lhs,
           f.op # "print_vector",
           frames' = Append(Pop(frames), f), vectors' = vectors, line' = line,
           FrameMeans(mem', vectors, f)
    PROVE  /\ Meant(mem', vectors', frames', line')
           /\ Values' = Values
           /\ f.body = Frame.body => Pending(frames)' = Pending(frames)
<1>1. /\ frames \in Seq(IntFrame) /\ vectors \in Seq(Nat) /\ FramesMean(mem, vectors, frames)
      /\ ~Increasing(Pop(frames)) /\ GoodFrames(frames)
  BY Situation DEF MeaningInv, OwnerInv, DisjointInv, HoldsInts
<1>2. \A k \in DOMAIN vectors : k \in DOMAIN vectors /\ vectors[k] = vectors[k]
  OBVIOUS
<1>3. FramesMean(mem', vectors', frames')
  BY <1>1, <1>2, FramesReplaced DEF Frame
<1>4. ExtendsMeans(mem', frames')
  BY <1>1, ExtendsKept DEF MeaningInv, Meant, Frame
<1>5. Top(frames') = f /\ frames' # <<>>
  <2>1. Pop(frames) \in Seq(IntFrame)
    BY <1>1, TopAndPop
  <2> QED
    BY <2>1 DEF Top
<1>6. LineMeans(mem', frames', line')
  BY <1>5 DEF MeaningInv, Meant, LineMeans, Frame
<1>7. Values' = Values
  <2>1. vectors' \in Seq(Nat)
    BY <1>1
  <2>2. Values' = [k \in DOMAIN vectors |-> ValueIn(mem', vectors[k])]
    BY <2>1, ValuesNext
  <2>3. \A k \in DOMAIN vectors : ValueIn(mem', vectors[k]) = ValueIn(mem, vectors[k])
    <3> SUFFICES ASSUME NEW k \in DOMAIN vectors
                 PROVE  ValueIn(mem', vectors[k]) = ValueIn(mem, vectors[k])
      OBVIOUS
    <3>1. IsVector(G, vectors[k])
      BY DEF World
    <3> QED
      BY <3>1, ValueKept
  <2> QED
    BY <1>1, <2>2, <2>3, ValuesAre
<1>8. ASSUME f.body = Frame.body PROVE Pending(frames)' = Pending(frames)
  <2>1. Pending(Append(Pop(frames), f)) = Pending(frames)
    BY <1>1, <1>8, PendingReplaced DEF Frame
  <2> QED
    BY <2>1, PendingNext
<1> QED
  BY <1>3, <1>4, <1>6, <1>7, <1>8 DEF Meant

----------------------------------------------------------------------------
(* Allocation. *)

\* The size that is allocated is that of the result.
LEMMA ResultSizeMeans ==
    ASSUME NEW G, World(mem, Allocations, brk, G, vectors),
           NEW f \in IntFrame, FrameOK(mem, Allocations, G, f), FrameMeans(mem, vectors, f),
           f.op \notin {"vector_range", "print_vector"}
    PROVE  ResultSize(f) >= 0 /\ (f.op = "int_to_vector" => ResultSize(f) = f.args[1])
<1>1. /\ f.op \in Ops \cup Scoped => ResultSize(f) = Word(mem, f.lhs)
      /\ f.op = "vector_index_vector" => ResultSize(f) = Word(mem, f.rhs)
      /\ f.op = "increase_vector_size" => ResultSize(f) = f.args[1]
  BY ResultSizeOK DEF World
<1>2. \A v : IsVector(G, v) => Word(mem, v) \in Nat
  BY VectorValue
<1>3. OperandsOK(G, f) /\ ArgumentsNamed(vectors, f)
  BY DEF FrameOK, FrameMeans
<1>4. f.op \in Ops \cup Scoped \cup {"vector_index_vector", "increase_vector_size", "int_to_vector"}
  BY Kinds DEF OtherFunctions
<1>5. f.op = "int_to_vector" => ResultSize(f) = f.args[1]
  BY DEF ResultSize
<1>6. CASE f.op \in Ops \cup Scoped
  BY <1>1, <1>2, <1>3, <1>5, <1>6 DEF OperandsOK, WithLhs
<1>7. CASE f.op = "vector_index_vector"
  BY <1>1, <1>2, <1>3, <1>7 DEF OperandsOK, WithRhs
<1>8. CASE f.op \in {"increase_vector_size", "int_to_vector"}
  BY <1>1, <1>3, <1>5, <1>8 DEF ArgumentsNamed
<1> QED
  BY <1>4, <1>6, <1>7, <1>8

LEMMA AllocateMeans ==
    ASSUME MeaningInv, OwnerInv', BytesFit', RangeHoldsInterval', Allocate
    PROVE  /\ NonNegative(Allocations')
           /\ Meant(mem', vectors', frames', line')
           /\ UNCHANGED Abstract!spec_vars
<1> DEFINE S == Allocations
           size == ResultSize(Frame)
<1>1. /\ frames # <<>> /\ Frame.at = "alloc" /\ vectors' = vectors /\ line' = line /\ out' = out
  BY DEF Allocate
<1>2. /\ frames \in Seq(IntFrame) /\ vectors \in Seq(Nat)
      /\ Frame \in IntFrame /\ FrameMeans(mem, vectors, Frame)
  BY <1>1, Situation
<1>3. PICK G \in SUBSET S : /\ World(mem, S, brk, G, vectors)
                            /\ StackOK(mem, S, G, frames)
  BY Situation
<1>4. FrameOK(mem, S, G, Frame)
  BY <1>1, <1>2, <1>3, StackPopped DEF Frame
<1>5. Frame.op # "print_vector" /\ Frame.dst = 0
  BY <1>1, <1>4 DEF FrameOK, StageOK, Building
<1>6. S \subseteq Allocations' /\ \A d : Same(mem, mem', S, d)
  BY AllocateKeepsOwners DEF MeaningInv
<1>7. Elsewhere(mem, mem', S, Allocations', brk, G, G, 0)
  BY <1>3, <1>6 DEF Elsewhere, World, BlocksOK
<1>8. \E v \in Nat : \E a :
        /\ Word(mem', v) = FirstSize(Frame)
        /\ allocs' = Append(allocs, a) /\ a.size = size
        /\ frames' = Append(Pop(frames), [Frame EXCEPT !.dst = v, !.size = size, !.i = 0,
                                                       !.at = "loop"])
  <2>1. PICK g \in Gaps, h \in Gaps :
          LET v     == brk + g
              array == v + MinBlock + h
          IN  /\ mem' = Stored(Stored(Stored(mem, v + 4, Pointer), v + 5, Pointer), v,
                               FirstSize(Frame))
              /\ brk' = array + Maximum(MinBlock, ArrayWords(size))
              /\ allocs' = Append(allocs, [addr |-> v, array |-> array, size |-> size])
              /\ SetFrame([Frame EXCEPT !.dst = v, !.size = size, !.i = 0, !.at = "loop"])
    BY DEF Allocate, GenerateVectorTypePtr
  <2> DEFINE v == brk + g
             a == [addr |-> v, array |-> v + MinBlock + h, size |-> size]
  <2>2. v \in Nat
    BY DEF MeaningInv, OwnerInv, BlocksOK
  <2>3. mem' = Stored(Stored(Stored(mem, v + 4, Pointer), v + 5, Pointer), v, FirstSize(Frame))
        /\ allocs' = Append(allocs, a) /\ a.size = size
    BY <2>1
  <2>4. frames' = Append(Pop(frames), [Frame EXCEPT !.dst = v, !.size = size, !.i = 0,
                                                   !.at = "loop"])
    BY <2>1 DEF SetFrame
  <2> HIDE DEF v, a, size
  <2>5. Word(mem', v) = FirstSize(Frame)
    BY <2>3, WordStored
  <2> QED
    BY <2>2, <2>3, <2>4, <2>5
<1>9. PICK v \in Nat : \E a :
        /\ Word(mem', v) = FirstSize(Frame)
        /\ allocs' = Append(allocs, a) /\ a.size = size
        /\ frames' = Append(Pop(frames), [Frame EXCEPT !.dst = v, !.size = size, !.i = 0,
                                                       !.at = "loop"])
  BY <1>8
<1>10. PICK a :
        /\ Word(mem', v) = FirstSize(Frame)
        /\ allocs' = Append(allocs, a) /\ a.size = size
        /\ frames' = Append(Pop(frames), [Frame EXCEPT !.dst = v, !.size = size, !.i = 0,
                                                       !.at = "loop"])
  BY <1>9
<1> DEFINE f == [Frame EXCEPT !.dst = v, !.size = size, !.i = 0, !.at = "loop"]
<1>11. size \in Int
  BY <1>1, ResultSizeIsInt DEF MeaningInv, OwnerInv, DisjointInv
<1>12. /\ f \in IntFrame /\ f.op = Frame.op /\ f.args = Frame.args /\ f.lhs = Frame.lhs
       /\ f.rhs = Frame.rhs /\ f.dst = v /\ f.size = size /\ f.i = 0 /\ f.at = "loop"
       /\ f.elem = Frame.elem /\ f.body = Frame.body
  BY <1>2, <1>11 DEF IntFrame, AnyFrame, Places
<1>13. frames' = Append(Pop(frames), f)
  BY <1>10
<1> HIDE DEF f, size
<1>14. Frame.op # "vector_range" =>
          size >= 0 /\ (Frame.op = "int_to_vector" => size = Frame.args[1])
  BY <1>2, <1>3, <1>4, <1>5, ResultSizeMeans DEF size
<1>15. size >= 0
  <2>1. CASE Frame.op = "vector_range"
    <3>1. Pop(frames) \in Seq(IntFrame)
      BY <1>1, <1>2, TopAndPop
    <3>2. \E k \in DOMAIN frames' : frames'[k] = f
      BY <1>12, <1>13, <3>1
    <3>3. f.size = Maximum(0, f.args[2] - f.args[1] + 1)
      BY <1>12, <2>1, <3>2 DEF RangeHoldsInterval
    <3>4. f.args[1] \in Int /\ f.args[2] \in Int
      BY <1>12, <2>1 DEF IntFrame, AnyFrame, IntArgs
    <3> QED
      BY <1>12, <3>3, <3>4 DEF Maximum
  <2> QED
    BY <1>14, <2>1
<1>16. NonNegative(Allocations')
  <2>1. allocs \in Seq(Allocation)
    BY DEF MeaningInv, OwnerInv, DisjointInv, Allocated
  <2>2. Allocations' = ElementsOf(allocs') /\ Allocations = ElementsOf(allocs)
    BY DEF Allocations, ElementsOf
  <2>3. ElementsOf(Append(allocs, a)) = ElementsOf(allocs) \cup {a}
    BY <2>1, AppendedElements
  <2> QED
    BY <1>10, <1>15, <2>2, <2>3 DEF NonNegative, MeaningInv
<1>17. FrameMeans(mem', vectors, Frame)
  <2>1. \A k \in DOMAIN vectors : k \in DOMAIN vectors /\ vectors[k] = vectors[k]
    OBVIOUS
  <2> QED
    BY <1>2, <1>3, <1>4, <1>5, <1>7, <2>1, MeaningKept
<1>18. FrameMeans(mem', vectors, f)
  <2> DEFINE lhs == ValueIn(mem', Frame.lhs)
             rhs == ValueIn(mem', Frame.rhs)
  <2>1. ArgumentsNamed(vectors, f)
    BY <1>12, <1>17 DEF FrameMeans, ArgumentsNamed
  <2>2. OperandsMean(f, ValueIn(mem', f.lhs), ValueIn(mem', f.rhs),
                     ValueIn(mem', vectors[f.args[1]]), ValueIn(mem', vectors[f.args[2]]))
    BY <1>1, <1>12, <1>17 DEF FrameMeans, OperandsMean
  <2>3. f.body = <<>>
    BY <1>1, <1>12, <1>17 DEF FrameMeans, BodyMeans
  <2>4. BodyMeans(f)
    BY <1>12, <2>3 DEF BodyMeans
  <2>5. f.op = "filter" => ValueIn(mem', f.dst) = <<>>
    BY <1>10, <1>12 DEF FirstSize, ValueIn, Maximum
  <2>6. ResultMeans(mem', f, ValueIn(mem', f.lhs), ValueIn(mem', f.rhs))
    BY <1>12, <1>14, <2>3, <2>5, KeptOfNothing DEF ResultMeans
  <2> QED
    BY <2>1, <2>2, <2>4, <2>6 DEF FrameMeans
<1>19. /\ Meant(mem', vectors', frames', line') /\ Values' = Values
       /\ Pending(frames)' = Pending(frames)
  BY <1>1, <1>3, <1>5, <1>7, <1>12, <1>13, <1>18, RunningMeans
<1> QED
  BY <1>1, <1>16, <1>19 DEF Abstract!spec_vars

----------------------------------------------------------------------------
(* Loops. *)

\* What the abstract operations share with the runtime's.
LEMMA SameOperation ==
    ASSUME NEW op, NEW x, NEW y
    PROVE  /\ Abstract!IntOperation(op, x, y) = IntOperation(op, x, y)
           /\ Abstract!Undefined(op, x, y) <=> Undefined(op, x, y)
<1>1. Abstract!Wrap(x + y) = Wrap(x + y) /\ Abstract!Wrap(x - y) = Wrap(x - y)
      /\ Abstract!Wrap(x * y) = Wrap(x * y)
  BY DEF Abstract!Wrap, Wrap
<1>2. Abstract!Quotient(x, y) = Quotient(x, y)
  BY DEF Abstract!Quotient, Quotient, Abstract!Abs, Abs
<1>3. \A c : Abstract!BoolToInt(c) = BoolToInt(c)
  BY DEF Abstract!BoolToInt, BoolToInt
<1> QED
  BY <1>1, <1>2, <1>3 DEF Abstract!IntOperation, IntOperation, Abstract!Undefined, Undefined,
                          Abstract!MinInt, MinInt

\* The running call is in its loop or its body.
LEMMA InLoopOrBody ==
    ASSUME MeaningInv, frames # <<>>, Frame.at \in {"loop", "body"}, Frame.op # "print_vector"
    PROVE  \E G \in SUBSET Allocations :
              /\ World(mem, Allocations, brk, G, vectors)
              /\ StackOK(mem, Allocations, G, frames)
              /\ FrameOK(mem, Allocations, G, Frame) /\ BuildsOK(mem, Allocations, Frame)
              /\ StoresInBlock(mem, mem', Allocations, Frame.dst) =>
                    Elsewhere(mem, mem', Allocations, Allocations, brk, G, G, Frame.dst)
<1> DEFINE S == Allocations
<1>1. frames \in Seq(IntFrame)
  BY Situation
<1>2. PICK G \in SUBSET S : /\ World(mem, S, brk, G, vectors)
                            /\ StackOK(mem, S, G, frames)
  BY Situation
<1>3. FrameOK(mem, S, G, Frame) /\ \A c \in G : Frame.dst # c.addr
  BY <1>1, <1>2, StackPopped DEF Frame
<1>4. BuildsOK(mem, S, Frame)
  BY <1>3 DEF FrameOK, Building
<1>5. ASSUME StoresInBlock(mem, mem', S, Frame.dst)
      PROVE  Elsewhere(mem, mem', S, S, brk, G, G, Frame.dst)
  <2>1. PICK a \in S : a.addr = Frame.dst
    BY <1>4 DEF BuildsOK
  <2>2. StoresInBlock(mem, mem', S, a.addr) /\ \A c \in G : c.addr # a.addr
    BY <1>3, <1>5, <2>1
  <2>3. BlocksOK(S, brk) /\ G \subseteq S
    BY <1>2 DEF World
  <2> HIDE DEF S
  <2>4. Elsewhere(mem, mem', S, S, brk, G, G, a.addr)
    BY <2>2, <2>3, OwnBlock
  <2> QED
    BY <2>1, <2>4
<1> QED
  BY <1>2, <1>3, <1>4, <1>5

\* A range holds the ints of its interval.
LEMMA RangeSize ==
    ASSUME MeaningInv, RangeHoldsInterval, frames # <<>>, Frame.op = "vector_range",
           Frame.at = "loop"
    PROVE  /\ Frame.args[1] \in MachineInt /\ Frame.args[2] \in MachineInt
           /\ Frame.size = Maximum(0, Frame.args[2] - Frame.args[1] + 1)
<1>1. frames \in Seq(IntFrame)
  BY Situation
<1>2. PICK G \in SUBSET Allocations : StackOK(mem, Allocations, G, frames)
  BY Situation
<1>3. FrameOK(mem, Allocations, G, Frame)
  BY <1>1, <1>2, StackPopped DEF Frame
<1>4. Frame.args[1] \in MachineInt /\ Frame.args[2] \in MachineInt
  BY <1>3 DEF FrameOK, RegistersOK, IntArgs
<1>5. Len(frames) \in DOMAIN frames /\ Frame = frames[Len(frames)]
  <2>1. Len(frames) \in Nat \ {0}
    BY <1>1
  <2> QED
    BY <2>1 DEF Frame, Top
<1> QED
  BY <1>4, <1>5 DEF RangeHoldsInterval

\* A loop stores the next element of the result.
LEMMA LoopValueIs ==
    ASSUME MeaningInv, RangeHoldsInterval, InLoop, Frame.op \notin Scoped \cup {"print_vector"}
    PROVE  /\ LoopValue(Frame) =
                  Expected(Frame, ValueIn(mem, Frame.lhs), ValueIn(mem, Frame.rhs), Frame.i + 1)
           /\ ~DivisionUndefined /\ Frame.op \in Ops =>
                 ~Undefined(Frame.op, ValueIn(mem, Frame.lhs)[Frame.i + 1],
                            ValueIn(mem, Frame.rhs)[Frame.i + 1])
<1> DEFINE S == Allocations
           lhs == ValueIn(mem, Frame.lhs)
           rhs == ValueIn(mem, Frame.rhs)
           i == Frame.i
<1>1. frames # <<>> /\ Frame.at = "loop" /\ i < Frame.size /\ Frame.op # "print_vector"
  BY DEF InLoop
<1>2. Frame \in IntFrame /\ i \in Nat /\ Frame.size \in Int
  BY <1>1, Situation DEF IntFrame, AnyFrame
<1>3. PICK G \in SUBSET S : /\ World(mem, S, brk, G, vectors)
                            /\ FrameOK(mem, S, G, Frame)
  BY <1>1, InLoopOrBody
<1>4. OperandsOK(G, Frame) /\ StageOK(mem, Frame) /\ RegistersOK(S, Frame)
  BY <1>3 DEF FrameOK
<1>5. Frame.op \in Ops \cup {"vector_range", "int_to_vector", "vector_index_vector",
                             "increase_vector_size"}
  BY <1>2, Kinds DEF OtherFunctions
<1>6. ASSUME NEW v, IsVector(G, v), NEW x \in Int
      PROVE  /\ VectorIndex(v, x) = Abstract!At(ValueIn(mem, v), x + 1, 0)
             /\ x \in 0..(Word(mem, v) - 1) =>
                   /\ VectorIndex(v, x) = ValueIn(mem, v)[x + 1]
                   /\ Element(v, x) = ValueIn(mem, v)[x + 1]
             /\ Size(v) = Word(mem, v)
  BY <1>3, <1>6, IndexIsAt
<1>7. \A v : IsVector(G, v) => /\ Word(mem, v) \in Nat /\ ValueIn(mem, v) \in Seq(Int)
                               /\ Len(ValueIn(mem, v)) = Word(mem, v)
  BY <1>3, VectorValue
<1> HIDE DEF S
<1>8. CASE Frame.op = "vector_range"
  <2>1. /\ Frame.args[1] \in MachineInt /\ Frame.args[2] \in MachineInt
        /\ Frame.size = Maximum(0, Frame.args[2] - Frame.args[1] + 1)
    BY <1>1, <1>8, RangeSize
  <2>2. Frame.args[1] + i \in MachineInt
    <3>1. \A a, b \in MachineInt : i < Maximum(0, b - a + 1) => a + i \in MachineInt
      BY <1>2 DEF Maximum, MachineInt, MinInt
    <3> QED
      BY <1>1, <2>1, <3>1
  <2>3. Wrap(Frame.args[1] + i) = Frame.args[1] + i
    BY <2>2, WrapOfInt
  <2>4. Frame.args[1] + (i + 1) - 1 = Frame.args[1] + i
    BY <1>2, <2>1 DEF MachineInt, MinInt
  <2>5. Frame.op \notin Ops
    BY <1>8, Kinds DEF OtherFunctions
  <2> QED
    BY <1>8, <2>3, <2>4, <2>5 DEF LoopValue, Expected
<1>9. CASE Frame.op = "int_to_vector"
  <2>1. Frame.op \notin Ops
    BY <1>9, Kinds DEF OtherFunctions
  <2> QED
    BY <1>9, <2>1 DEF LoopValue, Expected
<1>10. CASE Frame.op = "increase_vector_size"
  <2>1. IsVector(G, Frame.lhs) /\ Frame.op \notin Ops
    BY <1>4, <1>10, Kinds DEF OperandsOK, WithLhs
  <2>2. /\ Size(Frame.lhs) = Word(mem, Frame.lhs)
        /\ i \in 0..(Word(mem, Frame.lhs) - 1) => Element(Frame.lhs, i) = lhs[i + 1]
    BY <1>2, <1>6, <2>1
  <2>3. Len(lhs) = Word(mem, Frame.lhs) /\ Word(mem, Frame.lhs) \in Nat
    BY <1>7, <2>1
  <2> HIDE DEF lhs, i
  <2>4. CopyValue(Frame) = Abstract!At(lhs, i + 1, Frame.args[2])
    BY <1>2, <2>2, <2>3 DEF CopyValue, Abstract!At, i
  <2> QED
    BY <1>10, <2>1, <2>4 DEF LoopValue, Expected, lhs, i
<1>11. CASE Frame.op = "vector_index_vector"
  <2>1. IsVector(G, Frame.lhs) /\ IsVector(G, Frame.rhs) /\ Frame.op \notin Ops
    BY <1>4, <1>11, Kinds DEF OperandsOK, WithLhs, WithRhs, OtherFunctions
  <2>2. Frame.size = Word(mem, Frame.rhs)
    BY <1>1, <1>4, <1>11 DEF StageOK
  <2>3. VectorIndex(Frame.rhs, i) = rhs[i + 1]
    <3>1. i \in Int /\ i \in 0..(Word(mem, Frame.rhs) - 1)
      BY <1>1, <1>2, <2>2
    <3> QED
      BY <1>6, <2>1, <3>1
  <2>4. rhs[i + 1] \in Int
    <3>1. i + 1 \in 1..Len(rhs) /\ rhs \in Seq(Int)
      BY <1>1, <1>2, <1>7, <2>1, <2>2
    <3> HIDE DEF rhs, i
    <3> QED
      BY <3>1
  <2>5. VectorIndex(Frame.lhs, rhs[i + 1]) = Abstract!At(lhs, rhs[i + 1] + 1, 0)
    BY <1>6, <2>1, <2>4
  <2> QED
    BY <1>11, <2>1, <2>3, <2>5 DEF LoopValue, Expected
<1>12. CASE Frame.op \in Ops
  <2>1. IsVector(G, Frame.lhs) /\ IsVector(G, Frame.rhs)
    BY <1>4, <1>12 DEF OperandsOK, WithLhs, WithRhs
  <2>2. Frame.size = Word(mem, Frame.lhs) /\ Word(mem, Frame.lhs) = Word(mem, Frame.rhs)
    BY <1>1, <1>4, <1>12 DEF StageOK
  <2>3. i \in 0..(Word(mem, Frame.lhs) - 1) /\ i \in 0..(Word(mem, Frame.rhs) - 1)
    BY <1>1, <1>2, <2>2
  <2>4. Element(Frame.lhs, i) = lhs[i + 1] /\ Element(Frame.rhs, i) = rhs[i + 1]
    BY <1>2, <1>6, <2>1, <2>3
  <2>5. Frame.op \notin OtherFunctions \cup {"increase_vector_size"}
    BY <1>12, Kinds
  <2> HIDE DEF lhs, rhs, i
  <2>6. LoopValue(Frame) = Expected(Frame, lhs, rhs, i + 1)
    BY <2>4, <2>5 DEF LoopValue, Expected, OtherFunctions, Scoped, i
  <2>7. ~DivisionUndefined => ~Undefined(Frame.op, lhs[i + 1], rhs[i + 1])
    BY <1>12, <2>4 DEF DivisionUndefined, i
  <2> QED
    BY <2>6, <2>7 DEF lhs, rhs, i
<1> QED
  BY <1>5, <1>8, <1>9, <1>10, <1>11, <1>12

\* Element i of the result is stored, and the loop goes on.
StoresNext(m, m2, f, g, lhs, rhs, lhs2, rhs2) ==
    /\ f.op \notin {"filter", "print_vector"}
    /\ g.op = f.op /\ g.args = f.args /\ g.dst = f.dst /\ g.size = f.size /\ g.i = f.i + 1
    /\ m2 = Stored(m, f.dst + 1 + f.i, Expected(g, lhs2, rhs2, f.i + 1))
    /\ \A j \in 1..f.i : Expected(g, lhs2, rhs2, j) = Expected(f, lhs, rhs, j)
    /\ f.op \in Ops => /\ lhs2 = lhs /\ rhs2 = rhs
                       /\ ~Undefined(f.op, lhs[f.i + 1], rhs[f.i + 1])

LEMMA ElementMeans ==
    ASSUME NEW m, NEW m2, NEW f \in IntFrame, NEW g, NEW lhs, NEW rhs, NEW lhs2, NEW rhs2,
           ResultMeans(m, f, lhs, rhs), StoresNext(m, m2, f, g, lhs, rhs, lhs2, rhs2)
    PROVE  ResultMeans(m2, g, lhs2, rhs2)
<1> DEFINE x == Expected(g, lhs2, rhs2, f.i + 1)
<1>0. /\ f.op \notin {"filter", "print_vector"}
      /\ g.op = f.op /\ g.args = f.args /\ g.dst = f.dst /\ g.size = f.size /\ g.i = f.i + 1
      /\ m2 = Stored(m, f.dst + 1 + f.i, x)
      /\ \A j \in 1..f.i : Expected(g, lhs2, rhs2, j) = Expected(f, lhs, rhs, j)
      /\ f.op \in Ops => /\ lhs2 = lhs /\ rhs2 = rhs
                         /\ ~Undefined(f.op, lhs[f.i + 1], rhs[f.i + 1])
  BY DEF StoresNext
<1>1. f.i \in Nat /\ f.dst \in Nat
  BY DEF IntFrame, AnyFrame
<1>2. ASSUME NEW j \in 1..(f.i + 1) PROVE Word(m2, f.dst + j) = Expected(g, lhs2, rhs2, j)
  <2>1. Word(m2, f.dst + j) = IF f.dst + j = f.dst + 1 + f.i THEN x ELSE Word(m, f.dst + j)
    BY <1>0, WordStored
  <2>2. CASE j = f.i + 1
    BY <1>1, <2>1, <2>2
  <2>3. CASE j # f.i + 1
    <3>1. j \in 1..f.i /\ f.dst + j # f.dst + 1 + f.i
      BY <1>1, <2>3
    <3> QED
      BY <1>0, <2>1, <3>1 DEF ResultMeans
  <2> QED
    BY <2>2, <2>3
<1>3. ASSUME f.op \in Ops, NEW j \in 1..(f.i + 1) PROVE ~Undefined(f.op, lhs2[j], rhs2[j])
  <2>1. j = f.i + 1 \/ j \in 1..f.i
    BY <1>1
  <2> QED
    BY <1>0, <1>3, <2>1 DEF ResultMeans
<1>4. f.op = "int_to_vector" => f.size = f.args[1]
  BY DEF ResultMeans
<1> QED
  BY <1>0, <1>2, <1>3, <1>4 DEF ResultMeans

LEMMA ExpectedSame ==
    ASSUME NEW f \in IntFrame, f.op \notin {"filter", "print_vector"},
           NEW lhs, NEW rhs, NEW lhs2, NEW rhs2,
           f.op \in WithLhs => lhs2 = lhs, f.op \in WithRhs => rhs2 = rhs, NEW j
    PROVE  Expected(f, lhs2, rhs2, j) = Expected(f, lhs, rhs, j)
<1>1. CASE f.op \in {"vector_range", "int_to_vector", "generator"}
  BY <1>1 DEF Expected
<1>2. CASE f.op = "increase_vector_size"
  BY <1>2 DEF Expected, WithLhs
<1>3. CASE f.op \in Ops \cup {"vector_index_vector"}
  BY <1>3 DEF Expected, WithLhs, WithRhs
<1> QED
  BY <1>1, <1>2, <1>3, Kinds DEF OtherFunctions, Scoped

LEMMA IterateMeans ==
    ASSUME MeaningInv, RangeHoldsInterval, OwnerInv', Iterate
    PROVE  Meant(mem', vectors', frames', line') /\ UNCHANGED Abstract!spec_vars
<1> DEFINE S == Allocations
           x == LoopValue(Frame)
           g == [Frame EXCEPT !.i = @ + 1]
           lhs == ValueIn(mem, Frame.lhs)
           rhs == ValueIn(mem, Frame.rhs)
           lhs2 == ValueIn(mem', Frame.lhs)
           rhs2 == ValueIn(mem', Frame.rhs)
<1>1. /\ InLoop /\ frames # <<>> /\ Frame.at = "loop" /\ ~DivisionUndefined
      /\ Frame.op \notin Scoped \cup {"print_vector"}
      /\ Frame.op \notin {"filter", "print_vector"} /\ Frame.op # "print_vector"
      /\ mem' = Stored(mem, Frame.dst + 1 + Frame.i, x)
      /\ frames' = Append(Pop(frames), g) /\ vectors' = vectors /\ line' = line /\ out' = out
  BY DEF Iterate, InLoop, Store, ElementAddr, Incremented, SetFrame, Scoped
<1>2. Frame \in IntFrame /\ FrameMeans(mem, vectors, Frame)
  BY <1>1, Situation
<1>3. StoresInBlock(mem, mem', S, Frame.dst)
  BY LoopKeepsOwners DEF MeaningInv
<1>4. PICK G \in SUBSET S :
         /\ World(mem, S, brk, G, vectors) /\ StackOK(mem, S, G, frames)
         /\ FrameOK(mem, S, G, Frame)
         /\ Elsewhere(mem, mem', S, S, brk, G, G, Frame.dst)
  BY <1>1, <1>3, InLoopOrBody
<1>5. /\ g \in IntFrame /\ g.op = Frame.op /\ g.args = Frame.args /\ g.lhs = Frame.lhs
      /\ g.rhs = Frame.rhs /\ g.dst = Frame.dst /\ g.size = Frame.size /\ g.i = Frame.i + 1
      /\ g.at = "loop" /\ g.elem = Frame.elem /\ g.body = Frame.body
  <2>1. g \in IntFrame
    BY <1>2, ChangedFrame
  <2> QED
    BY <1>1, <1>2, <2>1 DEF IntFrame, AnyFrame
<1>6. /\ ArgumentsNamed(vectors, Frame) /\ BodyMeans(Frame) /\ OperandsOK(G, Frame)
      /\ OperandsMean(Frame, lhs, rhs, ValueIn(mem, vectors[Frame.args[1]]),
                      ValueIn(mem, vectors[Frame.args[2]]))
      /\ ResultMeans(mem, Frame, lhs, rhs)
  BY <1>1, <1>2, <1>4 DEF FrameMeans, Building, FrameOK
<1>7. /\ Frame.op \in WithLhs => lhs2 = lhs
      /\ Frame.op \in WithRhs => rhs2 = rhs
      /\ OperandsMean(Frame, lhs2, rhs2, ValueIn(mem', vectors[Frame.args[1]]),
                      ValueIn(mem', vectors[Frame.args[2]]))
  <2>1. \A k \in DOMAIN vectors : k \in DOMAIN vectors /\ vectors[k] = vectors[k]
    OBVIOUS
  <2> QED
    BY <1>4, <1>6, <2>1, OperandsMeanKept
<1>8. /\ x = Expected(Frame, lhs, rhs, Frame.i + 1)
      /\ Frame.op \in Ops => ~Undefined(Frame.op, lhs[Frame.i + 1], rhs[Frame.i + 1])
  BY <1>1, LoopValueIs
<1> HIDE DEF S, x, g, lhs, rhs, lhs2, rhs2
<1>9. \A j : Expected(g, lhs2, rhs2, j) = Expected(Frame, lhs, rhs, j)
  <2> SUFFICES ASSUME NEW j PROVE Expected(g, lhs2, rhs2, j) = Expected(Frame, lhs, rhs, j)
    OBVIOUS
  <2>1. Expected(Frame, lhs2, rhs2, j) = Expected(Frame, lhs, rhs, j)
    BY <1>1, <1>2, <1>7, ExpectedSame
  <2>2. Expected(g, lhs2, rhs2, j) = Expected(Frame, lhs2, rhs2, j)
    BY <1>5 DEF Expected
  <2> QED
    BY <2>1, <2>2
<1>10. ResultMeans(mem', g, lhs2, rhs2)
  <2>1. Frame.op \in Ops => /\ lhs2 = lhs /\ rhs2 = rhs
                            /\ ~Undefined(Frame.op, lhs[Frame.i + 1], rhs[Frame.i + 1])
    BY <1>7, <1>8 DEF WithLhs, WithRhs
  <2>2. StoresNext(mem, mem', Frame, g, lhs, rhs, lhs2, rhs2)
    BY <1>1, <1>5, <1>8, <1>9, <2>1 DEF StoresNext
  <2> QED
    BY <1>2, <1>6, <2>2, ElementMeans
<1>11. FrameMeans(mem', vectors, g)
  <2>1. ArgumentsNamed(vectors, g) /\ BodyMeans(g)
    BY <1>1, <1>5, <1>6 DEF ArgumentsNamed, BodyMeans
  <2>2. OperandsMean(g, lhs2, rhs2, ValueIn(mem', vectors[g.args[1]]),
                     ValueIn(mem', vectors[g.args[2]]))
    BY <1>1, <1>5, <1>7 DEF OperandsMean
  <2> QED
    BY <1>5, <1>10, <2>1, <2>2 DEF FrameMeans, lhs2, rhs2
<1>12. /\ Meant(mem', vectors', frames', line') /\ Values' = Values
       /\ Pending(frames)' = Pending(frames)
  BY <1>1, <1>4, <1>5, <1>11, RunningMeans DEF S
<1> QED
  BY <1>1, <1>12 DEF Abstract!spec_vars

\* A generator or filter loads the element for its body.
LEMMA EnterBodyMeans ==
    ASSUME MeaningInv, OwnerInv', EnterBody
    PROVE  Meant(mem', vectors', frames', line') /\ UNCHANGED Abstract!spec_vars
<1> DEFINE S == Allocations
           e == VectorIndex(Frame.lhs, Frame.i)
           g == [Frame EXCEPT !.at = "body", !.elem = e]
           lhs == ValueIn(mem, Frame.lhs)
           rhs == ValueIn(mem, Frame.rhs)
<1>1. /\ frames # <<>> /\ Frame.at = "loop" /\ Frame.i < Frame.size /\ Frame.op \in Scoped
      /\ Frame.op # "print_vector" /\ mem' = mem
      /\ frames' = Append(Pop(frames), g) /\ vectors' = vectors /\ line' = line /\ out' = out
  BY DEF EnterBody, InLoop, SetFrame, Scoped
<1>2. Frame \in IntFrame /\ FrameMeans(mem, vectors, Frame)
  BY <1>1, Situation
<1>3. StoresInBlock(mem, mem', S, Frame.dst)
  BY LoopKeepsOwners DEF MeaningInv
<1>4. PICK G \in SUBSET S :
         /\ World(mem, S, brk, G, vectors) /\ StackOK(mem, S, G, frames)
         /\ FrameOK(mem, S, G, Frame)
         /\ Elsewhere(mem, mem', S, S, brk, G, G, Frame.dst)
  BY <1>1, <1>3, InLoopOrBody
<1>5. Frame.i \in Nat /\ Frame.size \in Int
  BY <1>2 DEF IntFrame, AnyFrame
<1>6. IsVector(G, Frame.lhs) /\ Frame.size = Word(mem, Frame.lhs)
  BY <1>1, <1>4 DEF FrameOK, OperandsOK, StageOK, WithLhs
<1>7. e = lhs[Frame.i + 1]
  <2>1. Frame.i \in Int /\ Frame.i \in 0..(Word(mem, Frame.lhs) - 1)
    BY <1>1, <1>5, <1>6
  <2> QED
    BY <1>4, <1>6, <2>1, IndexIsAt
<1>8. e \in Int
  <2>1. /\ Frame.i + 1 \in 1..Len(lhs) /\ lhs \in Seq(Int)
    BY <1>1, <1>4, <1>5, <1>6, VectorValue
  <2> HIDE DEF e, lhs
  <2> QED
    BY <1>7, <2>1
<1> HIDE DEF e
<1>9. /\ g \in IntFrame /\ g.op = Frame.op /\ g.args = Frame.args /\ g.lhs = Frame.lhs
      /\ g.rhs = Frame.rhs /\ g.dst = Frame.dst /\ g.size = Frame.size /\ g.i = Frame.i
      /\ g.at = "body" /\ g.elem = e /\ g.body = Frame.body
  BY <1>2, <1>8 DEF IntFrame, AnyFrame, Places
<1>10. /\ ArgumentsNamed(vectors, Frame) /\ BodyMeans(Frame)
       /\ OperandsMean(Frame, lhs, rhs, ValueIn(mem, vectors[Frame.args[1]]),
                       ValueIn(mem, vectors[Frame.args[2]]))
       /\ ResultMeans(mem, Frame, lhs, rhs)
  BY <1>1, <1>2 DEF FrameMeans, Building
<1> HIDE DEF S, g, lhs, rhs
<1>11. Frame.op \notin Ops
  BY <1>1, Kinds DEF OtherFunctions
<1>12. ResultMeans(mem, g, lhs, rhs)
  <2>1. \A j : Expected(g, lhs, rhs, j) = Expected(Frame, lhs, rhs, j)
    BY <1>9 DEF Expected
  <2> QED
    BY <1>7, <1>9, <1>10, <1>11, <2>1 DEF ResultMeans
<1>13. FrameMeans(mem, vectors, g)
  <2>1. ArgumentsNamed(vectors, g) /\ BodyMeans(g)
    BY <1>1, <1>9, <1>10 DEF ArgumentsNamed, BodyMeans
  <2>2. OperandsMean(g, lhs, rhs, ValueIn(mem, vectors[g.args[1]]),
                     ValueIn(mem, vectors[g.args[2]]))
    BY <1>9, <1>10, <1>11 DEF OperandsMean
  <2> QED
    BY <1>9, <1>12, <2>1, <2>2 DEF FrameMeans, lhs, rhs
<1>14. /\ Meant(mem', vectors', frames', line') /\ Values' = Values
       /\ Pending(frames)' = Pending(frames)
  BY <1>1, <1>4, <1>9, <1>13, RunningMeans DEF S
<1> QED
  BY <1>1, <1>14 DEF Abstract!spec_vars

----------------------------------------------------------------------------
(* Bodies. *)

\* An element is stored behind the last one and counted.
LEMMA ElementAppended ==
    ASSUME NEW m, NEW S, WordsOK(m, S), NEW d \in Nat, NEW e \in Int, NEW m2,
           Word(m, d) \in Nat,
           m2 = Stored(Stored(m, d + 1 + Word(m, d), e), d, Word(m, d) + 1)
    PROVE  ValueIn(m2, d) = Append(ValueIn(m, d), e)
<1> DEFINE n == Word(m, d)
           value == ValueIn(m, d)
           longer == Append(value, e)
<1>1. n \in Nat /\ m2 = Stored(Stored(m, d + 1 + n, e), d, n + 1)
  OBVIOUS
<1>2. value \in Seq(Int) /\ Len(value) = n /\ \A i \in 1..n : value[i] = Word(m, d + i)
  <2>1. Maximum(0, Word(m, d)) = n
    BY DEF Maximum
  <2> QED
    BY <2>1, ValueIsSeq
<1> HIDE DEF n, value
<1>3. /\ longer \in Seq(Int) /\ Len(longer) = n + 1 /\ longer[n + 1] = e
      /\ \A i \in 1..n : longer[i] = value[i]
  BY <1>1, <1>2
<1> HIDE DEF longer
<1>4. \A w : Word(m2, w) = IF w = d THEN n + 1 ELSE IF w = d + 1 + n THEN e ELSE Word(m, w)
  BY <1>1, WordStored
<1>5. Word(m2, d) = n + 1 /\ Maximum(0, n + 1) = n + 1
  BY <1>1, <1>4 DEF Maximum
<1>6. \A i \in 1..(n + 1) : Word(m2, d + i) = longer[i]
  <2> SUFFICES ASSUME NEW i \in 1..(n + 1) PROVE Word(m2, d + i) = longer[i]
    OBVIOUS
  <2>1. CASE i = n + 1
    <3>1. d + i = d + 1 + n /\ d + i # d
      BY <1>1, <2>1
    <3> QED
      BY <1>3, <1>4, <2>1, <3>1
  <2>2. CASE i # n + 1
    <3>1. d + i # d + 1 + n /\ d + i # d /\ i \in 1..n
      BY <1>1, <2>2
    <3> QED
      BY <1>2, <1>3, <1>4, <3>1
  <2> QED
    BY <2>1, <2>2
<1>7. ValueIn(m2, d) = [i \in 1..(n + 1) |-> longer[i]]
  BY <1>5, <1>6 DEF ValueIn
<1>8. longer = [i \in 1..(n + 1) |-> longer[i]]
  BY <1>1, <1>3
<1> QED
  BY <1>7, <1>8 DEF longer, value

\* What the value x of a body does to the registers and to the result.
LEMMA BodyResult ==
    ASSUME MeaningInv, NEW x \in Ints, GeneratorBody(x) \/ FilterBody(x),
           NEW G, World(mem, Allocations, brk, G, vectors), BuildsOK(mem, Allocations, Frame),
           Frame \in IntFrame, FrameMeans(mem, vectors, Frame), RegistersOK(Allocations, Frame),
           NEW g, g.op = Frame.op, g.args = Frame.args, g.dst = Frame.dst, g.size = Frame.size,
           g.i = Frame.i + 1, g.at = "loop", g.body = Append(Frame.body, x), NEW rhs2
    PROVE  ResultMeans(mem', g, ValueIn(mem, Frame.lhs), rhs2)
<1> DEFINE lhs == ValueIn(mem, Frame.lhs)
           rhs == ValueIn(mem, Frame.rhs)
<1>1. Frame.at = "body" /\ Frame.op \in Scoped
  BY DEF GeneratorBody, FilterBody, InScopedBody, Scoped
<1>2. /\ Frame.i \in Nat /\ Frame.dst \in Nat /\ Frame.size \in MachineInt
      /\ Frame.size \in Int /\ Frame.body \in Seq(Int) /\ x \in Int
  BY DEF RegistersOK, IntFrame, AnyFrame, MachineInt, MinInt
<1>3. Len(Frame.body) = Frame.i /\ ResultMeans(mem, Frame, lhs, rhs)
  BY <1>1, Kinds DEF FrameMeans, BodyMeans, Building, Scoped
<1>4. Frame.op \notin Ops
  BY <1>1, Kinds DEF OtherFunctions
<1>5. /\ \A j \in 1..Frame.i : g.body[j] = Frame.body[j]
      /\ g.body[Frame.i + 1] = x
  BY <1>2, <1>3
<1> HIDE DEF lhs, rhs
<1>6. CASE GeneratorBody(x)
  <2>1. Frame.op = "generator" /\ mem' = Stored(mem, Frame.dst + 1 + Frame.i, x)
    BY <1>6 DEF GeneratorBody, InScopedBody, Store, ElementAddr
  <2>2. \A j : Expected(g, lhs, rhs2, j) = g.body[j] /\ Expected(Frame, lhs, rhs, j) = Frame.body[j]
    BY <2>1 DEF Expected
  <2>3. StoresNext(mem, mem', Frame, g, lhs, rhs, lhs, rhs2)
    BY <1>4, <1>5, <2>1, <2>2 DEF StoresNext
  <2> QED
    BY <1>3, <2>3, ElementMeans DEF lhs
<1>7. CASE FilterBody(x)
  <2> DEFINE n == Word(mem, Frame.dst)
  <2>1. /\ Frame.op = "filter" /\ Size(Frame.dst) = n
        /\ mem' = IF x # 0 THEN Stored(Stored(mem, Frame.dst + 1 + n, Frame.elem), Frame.dst,
                                       Wrap(n + 1))
                  ELSE mem
    BY <1>7 DEF FilterBody, InScopedBody, ElementAddr, Size, Load, Word
  <2>2. n \in 0..Frame.i /\ Frame.i < Frame.size
    BY <1>1, <2>1 DEF BuildsOK
  <2> HIDE DEF n
  <2>3. n \in Nat /\ n + 1 \in MachineInt
    BY <1>2, <2>2 DEF MachineInt, MinInt
  <2>4. Wrap(n + 1) = n + 1
    BY <2>3, WrapOfInt
  <2>5. ValueIn(mem, Frame.dst) = Abstract!KeptOf(lhs, Frame.body)
        /\ Frame.elem = lhs[Frame.i + 1]
    BY <1>1, <1>3, <2>1 DEF ResultMeans
  <2>6. Abstract!KeptOf(lhs, g.body) =
            IF x = 0 THEN Abstract!KeptOf(lhs, Frame.body)
            ELSE Append(Abstract!KeptOf(lhs, Frame.body), lhs[Len(Frame.body) + 1])
    BY <1>2, KeptOfAppend
  <2>7. ValueIn(mem', Frame.dst) = Abstract!KeptOf(lhs, g.body)
    <3>1. CASE x = 0
      BY <2>1, <2>5, <2>6, <3>1
    <3>2. CASE x # 0
      <4>1. WordsOK(mem, Allocations) /\ Frame.elem \in Int
        BY DEF World, IntFrame, AnyFrame
      <4>2. mem' = Stored(Stored(mem, Frame.dst + 1 + n, Frame.elem), Frame.dst, n + 1)
        BY <2>1, <2>4, <3>2
      <4>3. /\ Word(mem, Frame.dst) \in Nat
            /\ mem' = Stored(Stored(mem, Frame.dst + 1 + Word(mem, Frame.dst), Frame.elem),
                             Frame.dst, Word(mem, Frame.dst) + 1)
        BY <2>3, <4>2 DEF n
      <4>4. Frame.dst \in Nat
        BY <1>2
      <4>5. ValueIn(mem', Frame.dst) = Append(ValueIn(mem, Frame.dst), Frame.elem)
        BY <4>1, <4>3, <4>4, ElementAppended
      <4> QED
        BY <1>3, <2>5, <2>6, <3>2, <4>5
    <3> QED
      BY <3>1, <3>2
  <2> QED
    BY <1>4, <2>1, <2>7 DEF ResultMeans, lhs
<1> QED
  BY <1>6, <1>7

\* The value of a body is that of VectorSpec.
LEMMA EvaluatedMeans ==
    ASSUME MeaningInv, OwnerInv', Body
    PROVE  Meant(mem', vectors', frames', line') /\ Abstract!SpecNext
<1> DEFINE S == Allocations
<1>1. PICK x \in Ints : GeneratorBody(x) \/ FilterBody(x)
  BY DEF Body
<1> DEFINE g == [Frame EXCEPT !.i = @ + 1, !.at = "loop", !.body = Append(@, x)]
<1>2. /\ frames # <<>> /\ Frame.at = "body" /\ Frame.op \in Scoped /\ Frame.op # "print_vector"
      /\ frames' = Append(Pop(frames), g) /\ vectors' = vectors /\ line' = line /\ out' = out
  BY <1>1 DEF GeneratorBody, FilterBody, InScopedBody, NextElement, SetFrame, Scoped
<1>3. Frame \in IntFrame /\ FrameMeans(mem, vectors, Frame) /\ frames \in Seq(IntFrame)
      /\ ~Increasing(Pop(frames))
  BY <1>2, Situation
<1>4. StoresInBlock(mem, mem', S, Frame.dst)
  BY BodyKeepsOwners DEF MeaningInv
<1>5. PICK G \in SUBSET S :
         /\ World(mem, S, brk, G, vectors) /\ StackOK(mem, S, G, frames)
         /\ FrameOK(mem, S, G, Frame) /\ BuildsOK(mem, S, Frame)
         /\ Elsewhere(mem, mem', S, S, brk, G, G, Frame.dst)
  BY <1>2, <1>4, InLoopOrBody
<1>6. OperandsOK(G, Frame) /\ RegistersOK(S, Frame)
  BY <1>5 DEF FrameOK
<1>7. x \in Int
  BY DEF MachineInt, MinInt
<1>8. /\ g \in IntFrame /\ g.op = Frame.op /\ g.args = Frame.args /\ g.lhs = Frame.lhs
      /\ g.rhs = Frame.rhs /\ g.dst = Frame.dst /\ g.size = Frame.size /\ g.i = Frame.i + 1
      /\ g.at = "loop" /\ g.elem = Frame.elem /\ g.body = Append(Frame.body, x)
  <2>1. g \in IntFrame
    BY <1>3, <1>7, ChangedFrame
  <2> QED
    BY <1>3, <2>1 DEF IntFrame, AnyFrame
<1> HIDE DEF S, g
<1> DEFINE lhs == ValueIn(mem, Frame.lhs)
           rhs == ValueIn(mem, Frame.rhs)
           lhs2 == ValueIn(mem', Frame.lhs)
           rhs2 == ValueIn(mem', Frame.rhs)
<1>9. /\ ArgumentsNamed(vectors, Frame) /\ Len(Frame.body) = Frame.i
      /\ OperandsMean(Frame, lhs, rhs, ValueIn(mem, vectors[Frame.args[1]]),
                      ValueIn(mem, vectors[Frame.args[2]]))
  BY <1>2, <1>3 DEF FrameMeans, BodyMeans
<1>10. /\ Frame.op \in WithLhs => lhs2 = lhs
       /\ OperandsMean(Frame, lhs2, rhs2, ValueIn(mem', vectors[Frame.args[1]]),
                       ValueIn(mem', vectors[Frame.args[2]]))
  <2>1. \A k \in DOMAIN vectors : k \in DOMAIN vectors /\ vectors[k] = vectors[k]
    OBVIOUS
  <2> QED
    BY <1>5, <1>6, <1>9, <2>1, OperandsMeanKept
<1>11. lhs2 = lhs
  BY <1>2, <1>10 DEF WithLhs
<1>12. ResultMeans(mem', g, lhs, rhs2)
  BY <1>1, <1>3, <1>5, <1>6, <1>8, BodyResult DEF S
<1> HIDE DEF lhs, rhs, lhs2, rhs2
<1>13. Frame.op \notin Ops
  BY <1>2, Kinds DEF OtherFunctions
<1>14. FrameMeans(mem', vectors, g)
  <2>1. ArgumentsNamed(vectors, g)
    BY <1>8, <1>9 DEF ArgumentsNamed
  <2>2. BodyMeans(g)
    <3>1. Frame.body \in Seq(Int) /\ Frame.i \in Nat
      BY <1>3 DEF IntFrame, AnyFrame
    <3>2. Len(Append(Frame.body, x)) = Frame.i + 1
      BY <1>9, <3>1
    <3> QED
      BY <1>2, <1>8, <3>2 DEF BodyMeans
  <2>3. OperandsMean(g, lhs2, rhs2, ValueIn(mem', vectors[g.args[1]]),
                     ValueIn(mem', vectors[g.args[2]]))
    BY <1>8, <1>10, <1>13 DEF OperandsMean
  <2> QED
    BY <1>8, <1>11, <1>12, <2>1, <2>2, <2>3 DEF FrameMeans, lhs2, rhs2
<1>15. Meant(mem', vectors', frames', line') /\ Values' = Values
  BY <1>2, <1>5, <1>8, <1>14, RunningMeans DEF S
<1>16. Abstract!InBody /\ ~Increasing(frames)
  BY <1>2, InBodyIs
<1>17. /\ Pending(frames) # <<>>
       /\ Abstract!Top(Pending(frames)) = PendingOf(Frame)
       /\ Abstract!Pop(Pending(frames)) = Pending(Pop(frames))
  BY <1>2, <1>3, <1>16, PendingTop DEF Frame
<1>18. Pending(frames)' = Append(Pending(Pop(frames)), PendingOf(g))
  <2>1. Pop(frames) \in Seq(IntFrame)
    BY <1>2, <1>3, TopAndPop
  <2>2. g.op # "increase_vector_size"
    BY <1>2, <1>8 DEF Scoped
  <2>3. Pending(Append(Pop(frames), g)) = Append(Pending(Pop(frames)), PendingOf(g))
    BY <1>3, <1>8, <2>1, <2>2, PendingPushed
  <2> QED
    BY <1>2, <2>3, PendingNext
<1>19. PendingOf(g) = [PendingOf(Frame) EXCEPT !.body = Append(@, x)]
  <2> DEFINE b == Append(Frame.body, x)
  <2>1. g.op = Frame.op /\ g.args = Frame.args /\ g.body = b
    BY <1>8
  <2> HIDE DEF b
  <2>2. PendingOf(g) = [op |-> Frame.op, args |-> Frame.args, body |-> b]
    BY <2>1 DEF PendingOf
  <2>3. [PendingOf(Frame) EXCEPT !.body = b] = [op |-> Frame.op, args |-> Frame.args, body |-> b]
    BY DEF PendingOf
  <2>4. PendingOf(Frame).body = Frame.body
    BY DEF PendingOf
  <2> QED
    BY <2>2, <2>3, <2>4 DEF b
<1>20. Abstract!SpecBody(x)
  BY <1>2, <1>15, <1>16, <1>17, <1>18, <1>19 DEF Abstract!SpecBody
<1> QED
  BY <1>15, <1>20 DEF Abstract!SpecNext

----------------------------------------------------------------------------
(* Printing. *)

LEMMA PrintedNext ==
    ASSUME NEW v \in Seq(Int), NEW i \in Nat, i < Len(v)
    PROVE  Printed(v, i + 1) =
               Printed(v, i) \o <<v[i + 1]>> \o (IF i + 1 # Len(v) THEN <<Space>> ELSE <<>>)
<1> DEFINE n == Len(v)
           before == Printed(v, i)
           after == Printed(v, i + 1)
           most == before \o <<v[i + 1]>>
           all == most \o (IF i + 1 # n THEN <<Space>> ELSE <<>>)
<1>1. n \in Nat /\ Space \in Int /\ \A j \in 1..n : v[j] \in Int
  BY DEF Space
<1>2. before \in Seq(Int) /\ Len(before) = 2 * i
      /\ \A k \in 1..(2 * i) : before[k] = IF k % 2 = 1 THEN v[(k + 1) \div 2] ELSE Space
  <2>1. before = [k \in 1..(2 * i) |-> IF k % 2 = 1 THEN v[(k + 1) \div 2] ELSE Space]
    <3>1. (IF i = 0 THEN 0 ELSE IF i = Len(v) THEN 2 * i - 1 ELSE 2 * i) = 2 * i
      BY <1>1
    <3> QED
      BY <3>1 DEF Printed
  <2>2. \A k \in 1..(2 * i) : (k + 1) \div 2 \in 1..n
    BY <1>1
  <2> HIDE DEF before, n
  <2>3. \A k \in 1..(2 * i) : (IF k % 2 = 1 THEN v[(k + 1) \div 2] ELSE Space) \in Int
    BY <1>1, <2>2
  <2> QED
    BY <2>1, <2>3
<1> DEFINE m == IF i + 1 = n THEN 2 * i + 1 ELSE 2 * i + 2
<1>3. after = [k \in 1..m |-> IF k % 2 = 1 THEN v[(k + 1) \div 2] ELSE Space]
  <2>1. (IF i + 1 = 0 THEN 0 ELSE IF i + 1 = Len(v) THEN 2 * (i + 1) - 1 ELSE 2 * (i + 1)) = m
    BY <1>1
  <2> QED
    BY <2>1 DEF Printed
<1>4. v[i + 1] \in Int
  BY <1>1
<1> HIDE DEF before, after
<1>5. most \in Seq(Int) /\ Len(most) = 2 * i + 1 /\ most[2 * i + 1] = v[i + 1]
      /\ \A k \in 1..(2 * i) : most[k] = before[k]
  <2> DEFINE e == v[i + 1]
             l == 2 * i
  <2>1. e \in Int /\ l \in Nat /\ before \in Seq(Int) /\ Len(before) = l
    BY <1>2, <1>4
  <2> HIDE DEF e, l
  <2>2. before \o <<e>> = Append(before, e)
    BY <2>1
  <2>3. /\ Append(before, e) \in Seq(Int) /\ Len(Append(before, e)) = l + 1
        /\ Append(before, e)[l + 1] = e /\ \A k \in 1..l : Append(before, e)[k] = before[k]
    BY <2>1
  <2> QED
    BY <2>2, <2>3 DEF e, l
<1> HIDE DEF most
<1>6. (2 * i + 1) % 2 = 1 /\ ((2 * i + 1) + 1) \div 2 = i + 1 /\ (2 * i + 2) % 2 # 1
  OBVIOUS
<1>7. \A k \in 1..(2 * i + 1) : most[k] = IF k % 2 = 1 THEN v[(k + 1) \div 2] ELSE Space
  <2> SUFFICES ASSUME NEW k \in 1..(2 * i + 1)
               PROVE  most[k] = IF k % 2 = 1 THEN v[(k + 1) \div 2] ELSE Space
    OBVIOUS
  <2>1. CASE k = 2 * i + 1
    BY <1>5, <1>6, <2>1
  <2>2. CASE k # 2 * i + 1
    <3>1. k \in 1..(2 * i)
      BY <2>2
    <3> QED
      BY <1>2, <1>5, <3>1
  <2> QED
    BY <2>1, <2>2
<1>8. all \in Seq(Int) /\ Len(all) = m
      /\ \A k \in 1..m : all[k] = IF k % 2 = 1 THEN v[(k + 1) \div 2] ELSE Space
  <2>1. CASE i + 1 = n
    <3>1. all = most
      BY <1>5, <2>1
    <3>2. m = 2 * i + 1
      BY <2>1
    <3> HIDE DEF all, m
    <3> QED
      BY <1>5, <1>7, <3>1, <3>2
  <2>2. CASE i + 1 # n
    <3>1. all = most \o <<Space>>
      BY <2>2
    <3>2. m = 2 * i + 2
      BY <2>2
    <3> HIDE DEF all, m
    <3>3. all \in Seq(Int) /\ Len(all) = 2 * i + 2 /\ all[2 * i + 2] = Space
          /\ \A k \in 1..(2 * i + 1) : all[k] = most[k]
      BY <1>1, <1>5, <3>1
    <3>4. \A k \in 1..(2 * i + 2) : k = 2 * i + 2 \/ k \in 1..(2 * i + 1)
      OBVIOUS
    <3> QED
      BY <1>6, <1>7, <3>2, <3>3, <3>4
  <2> QED
    BY <2>1, <2>2
<1>9. all = [k \in 1..m |-> IF k % 2 = 1 THEN v[(k + 1) \div 2] ELSE Space]
  <2> HIDE DEF all, m
  <2>1. all = [k \in 1..m |-> all[k]]
    BY <1>8
  <2> QED
    BY <1>8, <2>1
<1> QED
  BY <1>3, <1>9 DEF after, before, most

\* What is printed is the line of VectorSpec.
LEMMA PrintedIs == \A v \in Seq(Int) : Printed(v, Len(v)) = Abstract!Line(v)
<1> SUFFICES ASSUME NEW v \in Seq(Int) PROVE Printed(v, Len(v)) = Abstract!Line(v)
  OBVIOUS
<1>1. v = <<>> <=> Len(v) = 0
  OBVIOUS
<1>2. (IF Len(v) = 0 THEN 0 ELSE IF Len(v) = Len(v) THEN 2 * Len(v) - 1 ELSE 2 * Len(v))
      = (IF v = <<>> THEN 0 ELSE 2 * Len(v) - 1)
  BY <1>1
<1> QED
  BY <1>2 DEF Printed, Abstract!Line, Abstract!Space, Space

\* The domain of a print_vector.
LEMMA Printing ==
    ASSUME MeaningInv, frames # <<>>, Frame.op = "print_vector"
    PROVE  /\ ValueIn(mem, Frame.lhs) \in Seq(Int) /\ Frame.i \in Nat
           /\ Frame.size \in MachineInt /\ Frame.size = Len(ValueIn(mem, Frame.lhs))
           /\ Frame.i \in Int /\ Frame.i <= Len(ValueIn(mem, Frame.lhs))
           /\ line = Printed(ValueIn(mem, Frame.lhs), Frame.i)
           /\ Element(Frame.lhs, Frame.i) = ValueIn(mem, Frame.lhs)[Frame.i + 1]
              \/ ~(Frame.i < Frame.size)
           /\ Values[Frame.args[1]] = ValueIn(mem, Frame.lhs)
<1> DEFINE lhs == ValueIn(mem, Frame.lhs)
<1>1. /\ frames \in Seq(IntFrame) /\ vectors \in Seq(Nat) /\ Frame \in IntFrame
      /\ FrameMeans(mem, vectors, Frame)
  BY Situation
<1>2. PICK G \in SUBSET Allocations : /\ World(mem, Allocations, brk, G, vectors)
                                      /\ StackOK(mem, Allocations, G, frames)
  BY Situation
<1>3. FrameOK(mem, Allocations, G, Frame)
  BY <1>1, <1>2, StackPopped DEF Frame
<1>4. IsVector(G, Frame.lhs) /\ Frame.size = Word(mem, Frame.lhs)
  BY <1>3 DEF FrameOK, OperandsOK, StageOK, WithLhs
<1>5. lhs \in Seq(Int) /\ Len(lhs) = Word(mem, Frame.lhs) /\ Word(mem, Frame.lhs) \in MachineInt
      /\ Word(mem, Frame.lhs) \in Nat
  BY <1>2, <1>4, VectorValue
<1>6. Frame.i \in Nat
  BY <1>1 DEF IntFrame, AnyFrame
<1>7. Frame.i <= Len(lhs) /\ line = Printed(lhs, Frame.i)
  BY DEF MeaningInv, Meant, LineMeans, Frame
<1>8. ASSUME Frame.i < Frame.size PROVE Element(Frame.lhs, Frame.i) = lhs[Frame.i + 1]
  <2>1. Frame.i \in Int /\ Frame.i \in 0..(Word(mem, Frame.lhs) - 1)
    BY <1>4, <1>5, <1>6, <1>8
  <2> QED
    BY <1>2, <1>4, <2>1, IndexIsAt
<1>9. Values[Frame.args[1]] = lhs
  <2>1. Frame.op \in Named \ Ops
    BY Kinds DEF OtherFunctions
  <2>2. Frame.args[1] \in DOMAIN vectors /\ lhs = ValueIn(mem, vectors[Frame.args[1]])
    BY <1>1, <2>1 DEF FrameMeans, ArgumentsNamed, OperandsMean
  <2> QED
    BY <1>1, <2>2, ValuesAre
<1> QED
  BY <1>4, <1>5, <1>6, <1>7, <1>8, <1>9

LEMMA PrintMeans ==
    ASSUME MeaningInv, OwnerInv', PrintElement
    PROVE  Meant(mem', vectors', frames', line') /\ UNCHANGED Abstract!spec_vars
<1> DEFINE S == Allocations
           g == [Frame EXCEPT !.i = @ + 1]
           lhs == ValueIn(mem, Frame.lhs)
<1>1. /\ frames # <<>> /\ Frame.at = "loop" /\ Frame.i < Frame.size
      /\ Frame.op = "print_vector"
      /\ line' = line \o <<Element(Frame.lhs, Frame.i)>> \o
                 (IF Wrap(Frame.i + 1) # Frame.size THEN <<Space>> ELSE <<>>)
      /\ frames' = Append(Pop(frames), g)
      /\ mem' = mem /\ vectors' = vectors /\ out' = out
  BY DEF PrintElement, InLoop, Incremented, SetFrame
<1>2. /\ frames \in Seq(IntFrame) /\ vectors \in Seq(Nat) /\ FramesMean(mem, vectors, frames)
      /\ Frame \in IntFrame /\ FrameMeans(mem, vectors, Frame) /\ ~Increasing(Pop(frames))
  BY <1>1, Situation
<1>3. PICK G \in SUBSET S : World(mem, S, brk, G, vectors) /\ StackOK(mem, S, G, frames)
  BY Situation
<1>4. /\ lhs \in Seq(Int) /\ Frame.i \in Nat /\ Frame.i \in Int
      /\ Frame.size \in MachineInt /\ Frame.size = Len(lhs) /\ Len(lhs) \in Nat
      /\ line = Printed(lhs, Frame.i)
      /\ Element(Frame.lhs, Frame.i) = lhs[Frame.i + 1]
  BY <1>1, Printing
<1>5. /\ g \in IntFrame /\ g.op = Frame.op /\ g.args = Frame.args /\ g.lhs = Frame.lhs
      /\ g.rhs = Frame.rhs /\ g.i = Frame.i + 1
      /\ g.at = "loop" /\ g.body = Frame.body
  <2>1. g \in IntFrame
    BY <1>2, ChangedFrame
  <2> QED
    BY <1>1, <1>2, <2>1 DEF IntFrame, AnyFrame
<1> HIDE DEF S, g, lhs
<1>6. Wrap(Frame.i + 1) = Frame.i + 1
  <2>1. \A j \in Nat : \A n \in MachineInt : j < n => j + 1 \in MachineInt
    BY DEF MachineInt, MinInt
  <2>2. Frame.i + 1 \in MachineInt
    BY <1>1, <1>4, <2>1
  <2> QED
    BY <2>2, WrapOfInt
<1>7. line' = Printed(lhs, Frame.i + 1)
  BY <1>1, <1>4, <1>6, PrintedNext
<1>8. FrameMeans(mem, vectors, g)
  <2>1. Frame.op \notin Ops
    BY <1>1, Kinds DEF OtherFunctions
  <2> QED
    BY <1>1, <1>2, <1>5, <2>1 DEF FrameMeans, ArgumentsNamed, OperandsMean, BodyMeans, Building,
                                  Scoped
<1>9. FramesMean(mem, vectors, Append(Pop(frames), g))
  <2>1. BlocksOK(S, brk) /\ G \subseteq S
    BY <1>3 DEF World
  <2>2. Elsewhere(mem, mem, S, S, brk, G, G, 0)
    BY <2>1, NothingStored
  <2>3. \A k \in DOMAIN vectors : k \in DOMAIN vectors /\ vectors[k] = vectors[k]
    OBVIOUS
  <2> QED
    BY <1>1, <1>2, <1>3, <1>5, <1>8, <2>2, <2>3, FramesReplaced
<1>10. frames' # <<>> /\ Top(frames') = g
  <2>1. Pop(frames) \in Seq(IntFrame) /\ frames' = Append(Pop(frames), g)
    BY <1>1, <1>2, TopAndPop
  <2>2. ASSUME NEW fs \in Seq(IntFrame) PROVE Append(fs, g) # <<>> /\ Top(Append(fs, g)) = g
    <3>1. Len(Append(fs, g)) = Len(fs) + 1 /\ Append(fs, g)[Len(fs) + 1] = g /\ Len(fs) \in Nat
      BY <1>5
    <3>2. Append(fs, g) # <<>>
      BY <1>5
    <3> QED
      BY <3>1, <3>2 DEF Top
  <2> QED
    BY <2>1, <2>2
<1>11. ExtendsMeans(mem', frames')
  BY <1>1, <1>5, <1>10 DEF ExtendsMeans, Increasing
<1>12. LineMeans(mem', frames', line')
  <2>1. Frame.i + 1 <= Len(lhs)
    BY <1>1, <1>4
  <2> QED
    BY <1>1, <1>5, <1>7, <1>10, <2>1 DEF LineMeans, lhs
<1>13. Pending(frames)' = Pending(frames)
  <2>1. Pending(Append(Pop(frames), g)) = Pending(frames)
    BY <1>1, <1>2, <1>5, PendingReplaced DEF Frame
  <2> QED
    BY <1>1, <2>1, PendingNext
<1>14. Values' = Values
  BY <1>1, <1>2, ValuesSame
<1> QED
  BY <1>1, <1>9, <1>11, <1>12, <1>13, <1>14 DEF Meant, Abstract!spec_vars

----------------------------------------------------------------------------
(* Returning. *)

\* The call on top goes, and its caller goes on.
LEMMA PoppedMeans ==
    ASSUME MeaningInv, frames # <<>>, Frame.op # "increase_vector_size",
           mem' = mem, frames' = Pop(frames), line' = <<>>,
           \A k \in DOMAIN vectors : k \in DOMAIN vectors' /\ vectors'[k] = vectors[k]
    PROVE  /\ Meant(mem', vectors', frames', line')
           /\ Pending(frames) # <<>> /\ Abstract!Top(Pending(frames)) = PendingOf(Frame)
           /\ Pending(frames)' = Abstract!Pop(Pending(frames))
<1> DEFINE S == Allocations
<1>1. /\ frames \in Seq(IntFrame) /\ FramesMean(mem, vectors, frames) /\ ~Increasing(Pop(frames))
      /\ ~Increasing(frames)
  BY Situation DEF Increasing, Frame
<1>2. PICK G \in SUBSET S : World(mem, S, brk, G, vectors) /\ StackOK(mem, S, G, frames)
  BY Situation
<1> HIDE DEF S
<1>3. FramesMean(mem, vectors', Pop(frames))
  <2>1. BlocksOK(S, brk) /\ G \subseteq S
    BY <1>2 DEF World
  <2>2. Elsewhere(mem, mem, S, S, brk, G, G, 0)
    BY <2>1, NothingStored
  <2> QED
    BY <1>1, <1>2, <2>2, FramesReplaced
<1>4. ExtendsMeans(mem, Pop(frames))
  BY <1>1 DEF ExtendsMeans
<1>5. LineMeans(mem, Pop(frames), <<>>)
  <2>1. Pop(frames) # <<>> => Top(Pop(frames)).op \in Ops \cup Scoped
    BY <1>1, <1>2, CallersOf
  <2>2. "print_vector" \notin Ops \cup Scoped
    BY Kinds DEF OtherFunctions, Scoped
  <2> QED
    BY <2>1, <2>2 DEF LineMeans
<1>6. /\ Pending(frames) # <<>> /\ Abstract!Top(Pending(frames)) = PendingOf(Frame)
      /\ Abstract!Pop(Pending(frames)) = Pending(Pop(frames))
  BY <1>1, PendingTop DEF Frame
<1> QED
  BY <1>3, <1>4, <1>5, <1>6, PendingNext DEF Meant

LEMMA ReturnPrintedMeans ==
    ASSUME MeaningInv, ReturnPrinted
    PROVE  Meant(mem', vectors', frames', line') /\ Abstract!SpecNext
<1> DEFINE lhs == ValueIn(mem, Frame.lhs)
<1>1. /\ frames # <<>> /\ ~(Frame.i < Frame.size) /\ Frame.op = "print_vector"
      /\ Frame.op # "increase_vector_size"
      /\ mem' = mem /\ vectors' = vectors /\ frames' = Pop(frames) /\ line' = <<>>
      /\ out' = Append(out, line)
  BY DEF ReturnPrinted, LoopDone
<1>2. /\ lhs \in Seq(Int) /\ Frame.i \in Nat /\ Frame.size = Len(lhs) /\ Frame.i <= Len(lhs)
      /\ line = Printed(lhs, Frame.i) /\ Values[Frame.args[1]] = lhs
  BY <1>1, Printing
<1> HIDE DEF lhs
<1>3. Frame.i = Len(lhs)
  BY <1>1, <1>2
<1>4. line = Abstract!Line(lhs)
  BY <1>2, <1>3, PrintedIs
<1>5. \A k \in DOMAIN vectors : k \in DOMAIN vectors' /\ vectors'[k] = vectors[k]
  BY <1>1
<1>6. /\ Meant(mem', vectors', frames', line')
      /\ Pending(frames) # <<>> /\ Abstract!Top(Pending(frames)) = PendingOf(Frame)
      /\ Pending(frames)' = Abstract!Pop(Pending(frames))
  BY <1>1, <1>5, PoppedMeans
<1>7. Values' = Values
  BY <1>1, Situation, ValuesSame
<1>8. PendingOf(Frame).op = "print_vector" /\ PendingOf(Frame).args = Frame.args
  BY <1>1 DEF PendingOf
<1>9. Abstract!SpecPrint
  BY <1>1, <1>2, <1>4, <1>6, <1>7, <1>8 DEF Abstract!SpecPrint, Abstract!Domain
<1> QED
  BY <1>6, <1>9 DEF Abstract!SpecNext

\* A loop that is done: the registers.
LEMMA LoopIsDone ==
    ASSUME MeaningInv, LoopDone, Frame.op # "print_vector"
    PROVE  /\ Frame \in IntFrame /\ FrameMeans(mem, vectors, Frame)
           /\ Frame.size \in Nat /\ Frame.i = Frame.size
           /\ Frame.op # "filter" => Word(mem, Frame.dst) = Frame.size
           /\ \E G \in SUBSET Allocations :
                 World(mem, Allocations, brk, G, vectors) /\ FrameOK(mem, Allocations, G, Frame)
<1>1. frames # <<>> /\ Frame.at = "loop" /\ ~(Frame.i < Frame.size)
      /\ Frame.at \in {"loop", "body"}
  BY DEF LoopDone
<1>2. Frame \in IntFrame /\ FrameMeans(mem, vectors, Frame)
  BY <1>1, Situation
<1>3. PICK G \in SUBSET Allocations :
         /\ World(mem, Allocations, brk, G, vectors) /\ FrameOK(mem, Allocations, G, Frame)
         /\ BuildsOK(mem, Allocations, Frame)
  BY <1>1, InLoopOrBody
<1>4. Frame.size \in Int /\ Frame.i \in Nat
  BY <1>2 DEF IntFrame, AnyFrame
<1>5. Frame.size >= 0
  BY <1>3 DEF BuildsOK, World, NonNegative
<1>6. Frame.i <= Maximum(0, Frame.size)
  BY <1>3 DEF BuildsOK
<1>7. Frame.size \in Nat /\ Frame.i = Frame.size
  BY <1>1, <1>4, <1>5, <1>6 DEF Maximum
<1>8. Frame.op # "filter" => Word(mem, Frame.dst) = Frame.size
  BY <1>3 DEF BuildsOK
<1> QED
  BY <1>2, <1>3, <1>7, <1>8

\* The result, unless it is a filter's, holds the elements that were stored.
LEMMA ResultIs ==
    ASSUME MeaningInv, LoopDone, Frame.op \notin {"print_vector", "filter"}
    PROVE  ValueIn(mem, Frame.dst) =
               [j \in 1..Frame.size |->
                   Expected(Frame, ValueIn(mem, Frame.lhs), ValueIn(mem, Frame.rhs), j)]
<1> DEFINE lhs == ValueIn(mem, Frame.lhs)
           rhs == ValueIn(mem, Frame.rhs)
<1>1. /\ FrameMeans(mem, vectors, Frame) /\ Frame.size \in Nat /\ Frame.i = Frame.size
      /\ Word(mem, Frame.dst) = Frame.size
  BY LoopIsDone
<1>2. ResultMeans(mem, Frame, lhs, rhs)
  BY <1>1 DEF FrameMeans, LoopDone, Building
<1> HIDE DEF lhs, rhs
<1>3. \A j \in 1..Frame.size : Word(mem, Frame.dst + j) = Expected(Frame, lhs, rhs, j)
  BY <1>1, <1>2 DEF ResultMeans
<1>4. Maximum(0, Word(mem, Frame.dst)) = Frame.size
  BY <1>1 DEF Maximum
<1>5. ValueIn(mem, Frame.dst) = [j \in 1..Frame.size |-> Expected(Frame, lhs, rhs, j)]
  BY <1>3, <1>4 DEF ValueIn
<1> QED
  BY <1>5 DEF lhs, rhs

\* What a call returns is what VectorSpec says, which depends on its arguments and on
\* the values of its body only.
LEMMA ReturnedIs ==
    ASSUME MeaningInv, RangeHoldsInterval, LoopDone,
           Frame.op \notin {"increase_vector_size", "print_vector"}
    PROVE  /\ Abstract!Returned(PendingOf(Frame)) = ValueIn(mem, Frame.dst)
           /\ Frame.op \in Scoped => Len(Frame.body) = Len(Values[Frame.args[1]])
           /\ Frame.op \in Ops =>
                 ~Abstract!ZipUndefined(Frame.op, Values[Frame.args[1]], Values[Frame.args[2]])
<1> DEFINE call == PendingOf(Frame)
           lhs == ValueIn(mem, Frame.lhs)
           rhs == ValueIn(mem, Frame.rhs)
           left == Values[Frame.args[1]]
           right == Values[Frame.args[2]]
           result == ValueIn(mem, Frame.dst)
           op == Frame.op
<1>1. /\ Frame \in IntFrame /\ FrameMeans(mem, vectors, Frame)
      /\ Frame.size \in Nat /\ Frame.i = Frame.size
  BY LoopIsDone
<1>2. PICK G \in SUBSET Allocations :
         World(mem, Allocations, brk, G, vectors) /\ FrameOK(mem, Allocations, G, Frame)
  BY LoopIsDone
<1>3. Frame.at = "loop" /\ frames # <<>> /\ Building(Frame)
  BY DEF LoopDone, Building
<1>4. /\ OperandsOK(G, Frame) /\ StageOK(mem, Frame) /\ ArgumentsNamed(vectors, Frame)
      /\ BodyMeans(Frame) /\ ResultMeans(mem, Frame, lhs, rhs)
  BY <1>1, <1>2, <1>3 DEF FrameOK, FrameMeans
<1>5. /\ op \in Named => left = ValueIn(mem, vectors[Frame.args[1]]) /\ left \in Seq(Int)
      /\ op \in WithRhs => right = ValueIn(mem, vectors[Frame.args[2]]) /\ right \in Seq(Int)
  <2>1. Values = [k \in DOMAIN vectors |-> ValueIn(mem, vectors[k])]
    BY Situation, ValuesAre
  <2>2. /\ op \in Named => left = ValueIn(mem, vectors[Frame.args[1]])
        /\ op \in WithRhs => right = ValueIn(mem, vectors[Frame.args[2]])
    BY <1>4, <2>1 DEF ArgumentsNamed
  <2> QED
    BY <1>1, <1>2, <1>4, <2>2, NamedValues
<1>6. /\ op \in WithLhs => /\ lhs \in Seq(Int) /\ Len(lhs) = Word(mem, Frame.lhs)
                           /\ Word(mem, Frame.lhs) \in Nat
      /\ op \in WithRhs => /\ rhs \in Seq(Int) /\ Len(rhs) = Word(mem, Frame.rhs)
                           /\ Word(mem, Frame.rhs) \in Nat
  BY <1>2, <1>4, VectorValue DEF OperandsOK
<1>7. op # "filter" => result = [j \in 1..Frame.size |-> Expected(Frame, lhs, rhs, j)]
  BY ResultIs
<1>8. call.op = op /\ call.args = Frame.args /\ call.body = Frame.body
  BY DEF PendingOf
<1>9. Abstract!Domain(call) = left
  BY <1>8 DEF Abstract!Domain
<1>10. /\ OperandsMean(Frame, lhs, rhs, ValueIn(mem, vectors[Frame.args[1]]),
                       ValueIn(mem, vectors[Frame.args[2]]))
  BY <1>1 DEF FrameMeans
<1>11. op \in Ops \cup Scoped \cup {"vector_range", "int_to_vector", "vector_index_vector"}
  BY <1>1, Kinds DEF OtherFunctions
<1> HIDE DEF call, lhs, rhs, left, right, result
<1>12. CASE op = "vector_range"
  <2>1. /\ Frame.args[1] \in Int /\ Frame.args[2] \in Int
        /\ Frame.size = IF Frame.args[2] < Frame.args[1] THEN 0
                        ELSE Frame.args[2] - Frame.args[1] + 1
    BY <1>3, <1>12, RangeSize DEF Maximum, MachineInt, MinInt
  <2>2. result = [j \in 1..Frame.size |-> Frame.args[1] + j - 1]
    BY <1>7, <1>12 DEF Expected
  <2>3. Abstract!Returned(call) = Abstract!Interval(Frame.args[1], Frame.args[2])
    BY <1>8, <1>12 DEF Abstract!Returned
  <2>4. op \notin Scoped /\ op \notin Ops
    BY <1>12, Kinds DEF OtherFunctions, Scoped
  <2> QED
    BY <2>1, <2>2, <2>3, <2>4 DEF Abstract!Interval, call, result
<1>13. CASE op = "int_to_vector"
  <2>1. Frame.size = Frame.args[1]
    BY <1>4, <1>13 DEF ResultMeans
  <2>2. result = [j \in 1..Frame.args[1] |-> Frame.args[2]]
    BY <1>7, <1>13, <2>1 DEF Expected
  <2>3. Abstract!Returned(call) = Abstract!Repeat(Frame.args[1], Frame.args[2])
    BY <1>8, <1>13 DEF Abstract!Returned
  <2>4. op \notin Scoped /\ op \notin Ops
    BY <1>13, Kinds DEF OtherFunctions, Scoped
  <2> QED
    BY <2>2, <2>3, <2>4 DEF Abstract!Repeat, call, result
<1>14. CASE op = "vector_index_vector"
  <2>1. op \in Named \ Ops /\ op \in WithRhs /\ op \notin Scoped
    BY <1>14, Kinds DEF OtherFunctions, WithRhs, Scoped
  <2>2. lhs = left /\ rhs = right
    BY <1>5, <1>10, <1>14, <2>1 DEF OperandsMean
  <2>3. Frame.size = Len(right)
    BY <1>3, <1>4, <1>6, <1>14, <2>1, <2>2 DEF StageOK
  <2>4. result = [j \in 1..Len(right) |-> Abstract!At(left, right[j] + 1, 0)]
    BY <1>7, <1>14, <2>2, <2>3 DEF Expected
  <2>5. Abstract!Returned(call) = Abstract!IndexBy(left, right)
    BY <1>8, <1>9, <1>14 DEF Abstract!Returned, right
  <2> QED
    BY <2>1, <2>4, <2>5 DEF Abstract!IndexBy, call, result
<1>15. CASE op \in Scoped
  <2>1. op \in Named \ Ops /\ op \in WithLhs
    BY <1>15, Kinds DEF OtherFunctions, WithLhs, Scoped
  <2>2. lhs = left
    BY <1>5, <1>10, <2>1 DEF OperandsMean
  <2>3. Frame.size = Len(left)
    BY <1>3, <1>4, <1>6, <1>15, <2>1, <2>2 DEF StageOK
  <2>4. Len(Frame.body) = Frame.size /\ Frame.body \in Seq(Int)
    BY <1>1, <1>3, <1>4, <1>15 DEF BodyMeans, IntFrame, AnyFrame
  <2>5. CASE op = "generator"
    <3>1. result = [j \in 1..Frame.size |-> Frame.body[j]]
      BY <1>7, <2>5 DEF Expected
    <3>2. Frame.body = [j \in 1..Frame.size |-> Frame.body[j]]
      BY <2>4
    <3>3. Abstract!Returned(call) = Frame.body
      BY <1>8, <2>5 DEF Abstract!Returned
    <3> QED
      BY <2>1, <2>3, <2>4, <3>1, <3>2, <3>3 DEF call, result, left
  <2>6. CASE op = "filter"
    <3>1. result = Abstract!KeptOf(left, Frame.body)
      BY <1>4, <2>2, <2>6 DEF ResultMeans, result
    <3>2. Abstract!Returned(call) = Abstract!KeptOf(left, Frame.body)
      BY <1>8, <1>9, <2>6 DEF Abstract!Returned
    <3> QED
      BY <2>1, <2>3, <2>4, <3>1, <3>2 DEF call, result, left
  <2> QED
    BY <1>15, <2>5, <2>6 DEF Scoped
<1>16. CASE op \in Ops
  <2> DEFINE n == Abstract!Longer(left, right)
             p == Abstract!Padding(op)
  <2>1. op \in Named /\ op \in WithLhs /\ op \in WithRhs
        /\ op \notin OtherFunctions /\ op \notin Scoped
    BY <1>16, Kinds DEF WithLhs, WithRhs, OtherFunctions
  <2>2. lhs = Padded(left, n, 0) /\ rhs = Padded(right, n, p)
    BY <1>3, <1>5, <1>10, <1>16, <2>1 DEF OperandsMean
  <2>3. left \in Seq(Int) /\ right \in Seq(Int)
    BY <1>5, <2>1
  <2>4. n \in Nat /\ p \in Int /\ 0 \in Int
    BY <2>3 DEF Abstract!Longer, Abstract!Padding
  <2> HIDE DEF n, p
  <2>5. Len(lhs) = n /\ \A j \in 1..n : lhs[j] = Abstract!At(left, j, 0)
    <3>1. Len(Padded(left, n, 0)) = n
          /\ \A j \in 1..n : Padded(left, n, 0)[j] = Abstract!At(left, j, 0)
      BY <2>3, <2>4, PaddedIs
    <3> QED
      BY <2>2, <3>1
  <2>6. \A j \in 1..n : rhs[j] = Abstract!At(right, j, p)
    <3>1. \A j \in 1..n : Padded(right, n, p)[j] = Abstract!At(right, j, p)
      BY <2>3, <2>4, PaddedIs
    <3> QED
      BY <2>2, <3>1
  <2>7. Frame.size = n
    BY <1>3, <1>4, <1>6, <1>16, <2>1, <2>5 DEF StageOK
  <2>8. \A j : Expected(Frame, lhs, rhs, j) = IntOperation(op, lhs[j], rhs[j])
    BY <1>16, Kinds DEF Expected, OtherFunctions, Scoped
  <2>9. result = [j \in 1..n |-> IntOperation(op, Abstract!At(left, j, 0), Abstract!At(right, j, p))]
    <3>1. op # "filter"
      BY <2>1 DEF OtherFunctions, Scoped
    <3> QED
      BY <1>7, <2>5, <2>6, <2>7, <2>8, <3>1
  <2>10. Abstract!Returned(call) = Abstract!Zip(op, left, right)
    <3>1. call.op \notin {"vector_range", "int_to_vector", "vector_index_vector", "generator",
                          "filter"}
      BY <1>8, <2>1 DEF OtherFunctions, Scoped
    <3> QED
      BY <1>8, <1>9, <3>1 DEF Abstract!Returned, right
  <2>11. Abstract!Zip(op, left, right) = result
    BY <2>9, SameOperation DEF Abstract!Zip, n, p
  <2>12. ~Abstract!ZipUndefined(op, left, right)
    <3>1. \A j \in 1..n : ~Undefined(op, lhs[j], rhs[j])
      BY <1>1, <1>4, <1>16, <2>7 DEF ResultMeans
    <3>2. \A j \in 1..n : ~Abstract!Undefined(op, Abstract!At(left, j, 0), Abstract!At(right, j, p))
      BY <2>5, <2>6, <3>1, SameOperation
    <3> QED
      BY <3>2 DEF Abstract!ZipUndefined, n, p
  <2> QED
    BY <2>1, <2>10, <2>11, <2>12 DEF call, result, left, right
<1> QED
  BY <1>11, <1>12, <1>13, <1>14, <1>15, <1>16

LEMMA ReturnMeans ==
    ASSUME MeaningInv, RangeHoldsInterval, OwnerInv', Return
    PROVE  Meant(mem', vectors', frames', line') /\ Abstract!SpecNext
<1> DEFINE r == ValueIn(mem, Frame.dst)
<1>1. /\ frames # <<>> /\ LoopDone /\ Frame.op \notin {"increase_vector_size", "print_vector"}
      /\ Frame.op # "increase_vector_size" /\ Frame.op # "print_vector"
      /\ mem' = mem /\ vectors' = Append(vectors, Frame.dst) /\ frames' = Pop(frames)
      /\ line' = line /\ out' = out
  BY DEF Return, LoopDone
<1>2. vectors \in Seq(Nat) /\ vectors' \in Seq(Nat)
  BY Situation DEF OwnerInv, DisjointInv, HoldsInts
<1>3. \A k \in DOMAIN vectors : k \in DOMAIN vectors' /\ vectors'[k] = vectors[k]
  BY <1>1, <1>2
<1>4. line' = <<>>
  BY <1>1 DEF MeaningInv, Meant, LineMeans, Frame
<1>5. /\ Meant(mem', vectors', frames', line')
      /\ Pending(frames) # <<>> /\ Abstract!Top(Pending(frames)) = PendingOf(Frame)
      /\ Pending(frames)' = Abstract!Pop(Pending(frames))
  BY <1>1, <1>3, <1>4, PoppedMeans
<1>6. Values' = Append(Values, r)
  <2> DEFINE n == Len(vectors)
             more == Append(Values, r)
  <2>1. /\ n \in Nat /\ DOMAIN vectors = 1..n /\ DOMAIN vectors' = 1..(n + 1)
        /\ vectors'[n + 1] = Frame.dst /\ \A k \in 1..n : vectors'[k] = vectors[k]
    BY <1>1, <1>2
  <2>2. WordsOK(mem, Allocations)
    BY DEF MeaningInv, OwnerInv
  <2>3. \A v : ValueIn(mem, v) \in Seq(Int)
    BY <2>2, ValueIsSeq
  <2> HIDE DEF n, r
  <2>4. Values = [k \in 1..n |-> ValueIn(mem, vectors[k])]
    BY <1>2, <2>1, ValuesAre
  <2>5. /\ Values \in Seq(Seq(Int)) /\ Len(Values) = n
        /\ \A k \in 1..n : Values[k] = ValueIn(mem, vectors[k])
    BY <2>1, <2>3, <2>4
  <2>6. r \in Seq(Int)
    BY <2>3 DEF r
  <2>7. /\ more \in Seq(Seq(Int)) /\ Len(more) = n + 1 /\ more[n + 1] = r
        /\ \A k \in 1..n : more[k] = Values[k]
    BY <2>5, <2>6
  <2> HIDE DEF more
  <2>8. Values' = [k \in 1..(n + 1) |-> ValueIn(mem, vectors'[k])]
    BY <1>1, <1>2, <2>1, ValuesNext
  <2>9. \A k \in 1..(n + 1) : more[k] = ValueIn(mem, vectors'[k])
    <3> SUFFICES ASSUME NEW k \in 1..(n + 1) PROVE more[k] = ValueIn(mem, vectors'[k])
      OBVIOUS
    <3>1. k = n + 1 \/ k \in 1..n
      BY <2>1
    <3> QED
      BY <2>1, <2>5, <2>7, <3>1 DEF r
  <2>10. more = [k \in 1..(n + 1) |-> more[k]]
    BY <2>1, <2>7
  <2> QED
    BY <2>8, <2>9, <2>10 DEF more
<1>7. /\ Abstract!Returned(PendingOf(Frame)) = r
      /\ Frame.op \in Scoped => Len(Frame.body) = Len(Values[Frame.args[1]])
      /\ Frame.op \in Ops =>
            ~Abstract!ZipUndefined(Frame.op, Values[Frame.args[1]], Values[Frame.args[2]])
  BY <1>1, ReturnedIs
<1> DEFINE p == PendingOf(Frame)
<1>8. p.op = Frame.op /\ p.args = Frame.args /\ p.body = Frame.body
  BY DEF PendingOf
<1> HIDE DEF p, r
<1>9. p.op # "print_vector"
  BY <1>1, <1>8
<1>10. p.op \in Abstract!Scoped => Len(p.body) = Len(Abstract!Domain(p))
  BY <1>7, <1>8 DEF Abstract!Scoped, Scoped, Abstract!Domain
<1>11. p.op \in Ops => ~Abstract!ZipUndefined(p.op, Abstract!Domain(p), Values[p.args[2]])
  BY <1>7, <1>8 DEF Abstract!Domain
<1>12. Abstract!Top(Pending(frames)) = p
  BY <1>5 DEF p
<1>13. Values' = Append(Values, Abstract!Returned(p))
  BY <1>6, <1>7 DEF p
<1>14. Abstract!SpecReturn
  BY <1>1, <1>5, <1>9, <1>10, <1>11, <1>12, <1>13 DEF Abstract!SpecReturn
<1> QED
  BY <1>5, <1>14 DEF Abstract!SpecNext

\* What match_vector_size returns is its argument, padded.
LEMMA IncreasedIs ==
    ASSUME MeaningInv, LoopDone, Frame.op = "increase_vector_size"
    PROVE  ValueIn(mem, Frame.dst) = Padded(ValueIn(mem, Frame.lhs), Frame.args[1], Frame.args[2])
<1>1. ValueIn(mem, Frame.dst) =
          [j \in 1..Frame.size |->
              Expected(Frame, ValueIn(mem, Frame.lhs), ValueIn(mem, Frame.rhs), j)]
  BY ResultIs
<1>2. PICK G \in SUBSET Allocations : FrameOK(mem, Allocations, G, Frame)
  BY LoopIsDone
<1>3. Frame.size = Frame.args[1]
  BY <1>2 DEF FrameOK, StageOK, LoopDone
<1> QED
  BY <1>1, <1>3 DEF Expected, Padded

LEMMA ReturnIncreasedMeans ==
    ASSUME MeaningInv, OwnerInv', ReturnIncreased
    PROVE  Meant(mem', vectors', frames', line') /\ UNCHANGED Abstract!spec_vars
<1> DEFINE S == Allocations
           below == Pop(frames)
           caller == Top(below)
           g == Resume(caller)
<1>1. /\ frames # <<>> /\ LoopDone /\ Frame.op = "increase_vector_size"
      /\ frames' = Append(Pop(below), g)
      /\ mem' = mem /\ vectors' = vectors /\ line' = line /\ out' = out
  BY DEF ReturnIncreased, LoopDone
<1>2. /\ frames \in Seq(IntFrame) /\ vectors \in Seq(Nat) /\ FramesMean(mem, vectors, frames)
      /\ Frame \in IntFrame /\ ~Increasing(below) /\ GoodFrames(frames)
  BY <1>1, Situation DEF MeaningInv, OwnerInv, DisjointInv, HoldsInts
<1>3. PICK G \in SUBSET S : World(mem, S, brk, G, vectors) /\ StackOK(mem, S, G, frames)
  BY Situation
<1>4. below \in Seq(IntFrame) /\ below # <<>>
  <2>1. frames[1].op # "increase_vector_size"
    BY <1>1, <1>2 DEF GoodFrames
  <2>2. /\ below \in Seq(IntFrame) /\ Len(below) = Len(frames) - 1 /\ Len(frames) \in Nat \ {0}
        /\ Frame = frames[Len(frames)]
    BY <1>1, <1>2, TopAndPop DEF Frame
  <2>3. Len(frames) # 1
    BY <1>1, <2>1, <2>2
  <2> QED
    BY <2>2, <2>3
<1> HIDE DEF below
<1>5. /\ StackOK(mem, S, G, below) /\ CalledBy(mem, caller, Frame)
      /\ FrameOK(mem, S, G, Frame)
  BY <1>1, <1>2, <1>3, <1>4, StackPopped DEF Frame, below
<1>6. FramesMean(mem, vectors, below)
  BY <1>1, <1>2, FramesPopped DEF below
<1>7. caller \in IntFrame /\ FrameOK(mem, S, G, caller) /\ FrameMeans(mem, vectors, caller)
  BY <1>4, <1>5, <1>6, TopAndPop, StackPopped, FramesPopped
<1>8. ~Increasing(Pop(below))
  BY <1>4, <1>5, CallersOf
<1>9. Extends(mem, caller, Frame)
  BY <1>1 DEF MeaningInv, Meant, ExtendsMeans, Increasing, Frame, below
<1> HIDE DEF S, caller
<1>10. caller.at \in {"match_lhs", "match_rhs"}
  BY <1>1, <1>5 DEF CalledBy
<1>11. caller.op \in Ops /\ IsVector(G, caller.lhs) /\ IsVector(G, caller.rhs)
  BY <1>7, <1>10, WaitingOperation
<1> DEFINE v == ValueIn(mem, Frame.lhs)
           w == ValueIn(mem, Frame.dst)
           lhs == ValueIn(mem, caller.lhs)
           rhs == ValueIn(mem, caller.rhs)
           left == ValueIn(mem, vectors[caller.args[1]])
           right == ValueIn(mem, vectors[caller.args[2]])
           n == Abstract!Longer(left, right)
           p == Abstract!Padding(caller.op)
<1>12. w = Padded(v, Frame.args[1], Frame.args[2])
  BY <1>1, IncreasedIs
<1>13. /\ v \in Seq(Int) /\ Len(v) = Word(mem, Frame.lhs)
       /\ lhs \in Seq(Int) /\ Len(lhs) = Word(mem, caller.lhs)
       /\ rhs \in Seq(Int) /\ Len(rhs) = Word(mem, caller.rhs)
  <2>1. IsVector(G, Frame.lhs)
    BY <1>1, <1>5 DEF FrameOK, OperandsOK, WithLhs
  <2>2. Len(v) = Word(mem, Frame.lhs) /\ v \in Seq(Int)
    BY <1>3, <2>1, VectorValue
  <2>3. Len(lhs) = Word(mem, caller.lhs) /\ lhs \in Seq(Int)
    BY <1>3, <1>11, VectorValue
  <2>4. Len(rhs) = Word(mem, caller.rhs) /\ rhs \in Seq(Int)
    BY <1>3, <1>11, VectorValue
  <2> QED
    BY <2>2, <2>3, <2>4
<1>14. /\ ArgumentsNamed(vectors, caller) /\ BodyMeans(caller)
       /\ OperandsMean(caller, lhs, rhs, left, right)
  BY <1>7 DEF FrameMeans
<1>15. caller.op \in Named /\ caller.op \in WithRhs /\ caller.op \notin OtherFunctions
       /\ caller.op # "increase_vector_size"
  BY <1>11, Kinds DEF WithRhs
<1>16. left \in Seq(Int) /\ right \in Seq(Int)
  BY <1>3, <1>7, <1>14, <1>15, NamedValues
<1>17. n \in Nat /\ n = IF Len(left) < Len(right) THEN Len(right) ELSE Len(left)
  BY <1>16 DEF Abstract!Longer
<1>18. /\ g \in IntFrame /\ g.op = caller.op /\ g.args = caller.args /\ g.body = caller.body
       /\ caller.at = "match_lhs" => g.at = "match_rhs" /\ g.lhs = Frame.dst /\ g.rhs = caller.rhs
       /\ caller.at = "match_rhs" => g.at = "alloc" /\ g.lhs = caller.lhs /\ g.rhs = Frame.dst
  <2>1. Frame.dst \in Int
    BY <1>2 DEF IntFrame, AnyFrame
  <2>2. g \in IntFrame
    BY <1>7, <2>1, ChangedFrame DEF Resume
  <2>3. caller \in AnyFrame
    BY <1>7 DEF IntFrame
  <2> QED
    BY <1>10, <2>2, <2>3 DEF Resume, AnyFrame
<1> HIDE DEF g, v, w, lhs, rhs, left, right, n, p
<1>19. OperandsMean(g, ValueIn(mem, g.lhs), ValueIn(mem, g.rhs), left, right)
  <2>1. CASE caller.at = "match_lhs"
    <3>1. lhs = left /\ rhs = right
      BY <1>11, <1>14, <2>1 DEF OperandsMean
    <3>2. v = lhs /\ Frame.args[2] = 0 /\ Word(mem, Frame.lhs) <= Frame.args[1]
      BY <1>9, <2>1 DEF Extends, v, lhs
    <3>3. Frame.args[1] = Len(right)
      BY <1>1, <1>5, <1>13, <2>1, <3>1 DEF CalledBy
    <3>4. n = Len(right)
      BY <1>13, <1>16, <1>17, <3>1, <3>2, <3>3
    <3>5. w = Padded(left, n, 0)
      BY <1>12, <3>1, <3>2, <3>3, <3>4
    <3>6. ValueIn(mem, g.lhs) = Padded(left, n, 0) /\ ValueIn(mem, g.rhs) = right
          /\ g.at = "match_rhs"
      BY <1>18, <2>1, <3>1, <3>5 DEF w, rhs
    <3> QED
      BY <1>11, <1>15, <1>18, <3>6 DEF OperandsMean, n, OtherFunctions
  <2>2. CASE caller.at = "match_rhs"
    <3>1. lhs = Padded(left, n, 0) /\ rhs = right
      BY <1>11, <1>14, <2>2 DEF OperandsMean, n
    <3>2. v = rhs /\ Frame.args[2] = p
      BY <1>9, <2>2 DEF Extends, v, rhs, p
    <3>3. Frame.args[1] = Len(lhs)
      BY <1>1, <1>5, <1>13, <2>2 DEF CalledBy
    <3>4. Len(Padded(left, n, 0)) = n
      <4>1. 0 \in Int /\ left \in Seq(Int) /\ n \in Nat
        BY <1>16, <1>17
      <4> QED
        BY <4>1, PaddedIs
    <3>5. w = Padded(right, n, p)
      BY <1>12, <3>1, <3>2, <3>3, <3>4
    <3>6. ValueIn(mem, g.lhs) = Padded(left, n, 0) /\ ValueIn(mem, g.rhs) = Padded(right, n, p)
          /\ g.at = "alloc"
      BY <1>18, <2>2, <3>1, <3>5 DEF w, lhs
    <3> QED
      BY <1>11, <1>15, <1>18, <3>6 DEF OperandsMean, n, p, OtherFunctions
  <2> QED
    BY <1>10, <2>1, <2>2
<1>20. FrameMeans(mem, vectors, g)
  <2>1. ArgumentsNamed(vectors, g)
    BY <1>14, <1>18 DEF ArgumentsNamed
  <2>2. g.at \in {"match_rhs", "alloc"}
    BY <1>10, <1>18
  <2>3. BodyMeans(g) /\ ~Building(g)
    BY <1>14, <1>15, <1>18, <2>2 DEF BodyMeans, Building, OtherFunctions
  <2> QED
    BY <1>18, <1>19, <2>1, <2>3 DEF FrameMeans, left, right
<1>21. FramesMean(mem, vectors, Append(Pop(below), g))
  <2>1. BlocksOK(S, brk) /\ G \subseteq S
    BY <1>3 DEF World
  <2>2. Elsewhere(mem, mem, S, S, brk, G, G, 0)
    BY <2>1, NothingStored
  <2>3. \A k \in DOMAIN vectors : k \in DOMAIN vectors /\ vectors[k] = vectors[k]
    OBVIOUS
  <2> QED
    BY <1>3, <1>4, <1>5, <1>6, <1>18, <1>20, <2>2, <2>3, FramesReplaced
<1>22. frames' # <<>> /\ Top(frames') = g
  <2>1. Pop(below) \in Seq(IntFrame)
    BY <1>4, TopAndPop
  <2> QED
    BY <1>1, <2>1 DEF Top
<1>23. ExtendsMeans(mem', frames')
  BY <1>15, <1>18, <1>22 DEF ExtendsMeans, Increasing
<1>24. LineMeans(mem', frames', line')
  <2>1. line = <<>>
    BY <1>1 DEF MeaningInv, Meant, LineMeans, Frame
  <2>2. g.op # "print_vector"
    BY <1>15, <1>18 DEF OtherFunctions
  <2> QED
    BY <1>1, <1>22, <2>1, <2>2 DEF LineMeans
<1>25. Pending(frames)' = Pending(frames)
  <2>1. ProgramCalls(frames) = below /\ ProgramCalls(below) = below
    BY <1>1, <1>2 DEF ProgramCalls, Increasing, Frame, below
  <2>2. Pending(frames) = Pending(below)
    BY <2>1 DEF Pending
  <2>3. Pending(Append(Pop(below), g)) = Pending(below)
    BY <1>4, <1>8, <1>18, PendingReplaced DEF caller
  <2> QED
    BY <1>1, <2>2, <2>3, PendingNext
<1>26. Values' = Values
  BY <1>1, <1>2, ValuesSame
<1> QED
  BY <1>1, <1>21, <1>23, <1>24, <1>25, <1>26 DEF Meant, Abstract!spec_vars

----------------------------------------------------------------------------
(* The refinement. *)

LEMMA MeaningInvInit == Init => MeaningInv /\ Abstract!SpecInit
<1> SUFFICES ASSUME Init PROVE MeaningInv /\ Abstract!SpecInit
  OBVIOUS
<1>1. /\ mem = <<>> /\ allocs = <<>> /\ vectors = <<>> /\ frames = <<>> /\ line = <<>>
      /\ out = <<>>
  BY DEF Init
<1>2. OwnerInv
  BY OwnerInvInit
<1>3. NonNegative(Allocations)
  BY <1>1 DEF NonNegative, Allocations
<1>4. Meant(mem, vectors, frames, line)
  BY <1>1 DEF Meant, FramesMean, ExtendsMeans, Increasing, LineMeans
<1>5. Values = <<>>
  BY <1>1 DEF Values
<1>6. Pending(frames) = <<>>
  BY <1>1 DEF Pending, ProgramCalls, Increasing
<1> QED
  BY <1>1, <1>2, <1>3, <1>4, <1>5, <1>6 DEF MeaningInv, Abstract!SpecInit

LEMMA MeaningInvStep ==
    MeaningInv /\ RangeHoldsInterval /\ RangeHoldsInterval' /\ BytesFit' /\ OwnerInv'
    /\ [Next \/ (Stopped /\ UNCHANGED vars)]_vars
        => MeaningInv' /\ [Abstract!SpecNext]_(Abstract!spec_vars)
<1> SUFFICES ASSUME MeaningInv, RangeHoldsInterval, RangeHoldsInterval', BytesFit', OwnerInv',
                    [Next \/ (Stopped /\ UNCHANGED vars)]_vars
             PROVE  MeaningInv' /\ [Abstract!SpecNext]_(Abstract!spec_vars)
  OBVIOUS
<1>1. NonNegative(Allocations)
  BY DEF MeaningInv
<1>2. ASSUME NonNegative(Allocations'), Meant(mem', vectors', frames', line')
      PROVE  MeaningInv'
  BY <1>2 DEF MeaningInv, Meant, NonNegative, FramesMean, FrameMeans, ExtendsMeans, LineMeans
<1>3. ASSUME allocs' = allocs PROVE NonNegative(Allocations')
  BY <1>1, <1>3 DEF Allocations
<1>4. CASE Call
  <2>1. allocs' = allocs
    BY <1>4 DEF Call, CallRange, CallIntToVector, CallOp, CallIndexVector, CallScoped, CallPrint,
                Called
  <2> QED
    BY <1>2, <1>3, <1>4, <2>1, CallMeans
<1>5. CASE MatchLhs \/ MatchRhs
  <2>1. allocs' = allocs
    BY <1>5 DEF MatchLhs, MatchRhs
  <2> QED
    BY <1>2, <1>3, <1>5, <2>1, MatchMeans
<1>6. CASE Allocate
  BY <1>2, <1>6, AllocateMeans
<1>7. CASE Iterate
  <2>1. allocs' = allocs
    BY <1>7 DEF Iterate
  <2> QED
    BY <1>2, <1>3, <1>7, <2>1, IterateMeans
<1>8. CASE EnterBody
  <2>1. allocs' = allocs
    BY <1>8 DEF EnterBody
  <2> QED
    BY <1>2, <1>3, <1>8, <2>1, EnterBodyMeans
<1>9. CASE Body
  <2>1. allocs' = allocs
    BY <1>9 DEF Body, GeneratorBody, FilterBody
  <2> QED
    BY <1>2, <1>3, <1>9, <2>1, EvaluatedMeans
<1>10. CASE PrintElement
  <2>1. allocs' = allocs
    BY <1>10 DEF PrintElement
  <2> QED
    BY <1>2, <1>3, <1>10, <2>1, PrintMeans
<1>11. CASE Return
  <2>1. allocs' = allocs
    BY <1>11 DEF Return
  <2> QED
    BY <1>2, <1>3, <1>11, <2>1, ReturnMeans
<1>12. CASE ReturnIncreased
  <2>1. allocs' = allocs
    BY <1>12 DEF ReturnIncreased
  <2> QED
    BY <1>2, <1>3, <1>12, <2>1, ReturnIncreasedMeans
<1>13. CASE ReturnPrinted
  <2>1. allocs' = allocs
    BY <1>13 DEF ReturnPrinted
  <2> QED
    BY <1>2, <1>3, <1>13, <2>1, ReturnPrintedMeans
<1>14. CASE UNCHANGED vars
  <2>1. /\ allocs' = allocs /\ mem' = mem /\ vectors' = vectors /\ frames' = frames
        /\ line' = line /\ out' = out
    BY <1>14 DEF vars
  <2>2. Meant(mem', vectors', frames', line')
    BY <2>1 DEF MeaningInv
  <2>3. Values' = Values
    BY <2>1, Situation, ValuesSame
  <2>4. Pending(frames)' = Pending(frames)
    BY <2>1, PendingNext
  <2> QED
    BY <1>2, <1>3, <2>1, <2>2, <2>3, <2>4 DEF Abstract!spec_vars
<1> QED
  BY <1>4, <1>5, <1>6, <1>7, <1>8, <1>9, <1>10, <1>11, <1>12, <1>13, <1>14 DEF Next

\* The refinement, while ranges hold their interval and no byte count wraps. The loads,
\* stores and loops of the generated functions (BackEnd.cpp:562-912) and of generators and
\* filters (AstVisitor.cpp:474-563) then implement operations on values. What a range does
\* not hold when its size wraps is what the run MCVectorRuntime_range shows, and how vectors
\* overlap when a byte count wraps is what MCVectorRuntime_byte_count shows.
THEOREM RuntimeImplementsVectorSpec ==
    RuntimeSpec /\ []RangeHoldsInterval /\ []BytesFit => ImplementsVectorSpec
<1>1. OwnerInv /\ BytesFit' /\ [Next \/ (Stopped /\ UNCHANGED vars)]_vars => OwnerInv'
  BY OwnerInvStep
<1>2. RuntimeSpec /\ []BytesFit => []OwnerInv
  BY <1>1, OwnerInvInit, PTL DEF RuntimeSpec
<1> QED
  BY <1>2, MeaningInvInit, MeaningInvStep, PTL
  DEF RuntimeSpec, ImplementsVectorSpec, Abstract!VectorSpec

----------------------------------------------------------------------------
(***************************************************************************)
(* When both hypotheses hold.  Sizes come from ranges: every other call    *)
(* allocates a vector as large as one there is, or smaller.  So it is      *)
(* enough that the ranges the program asks for are narrow.                 *)
(***************************************************************************)

\* The size that a range loops to, and the one that the other functions were given.
NarrowFrame(f) ==
    /\ f.op = "vector_range" /\ f.at = "loop" =>
          f.size = Maximum(0, f.args[2] - f.args[1] + 1)
    /\ f.op \in {"int_to_vector", "increase_vector_size"} => Fits(f.args[1])
NarrowFrames(fs) == \A k \in DOMAIN fs : NarrowFrame(fs[k])

NarrowInv == OwnerInv /\ BytesFit /\ NarrowFrames(frames)

LEMMA NarrowPushed ==
    ASSUME NEW fs \in Seq(IntFrame), NarrowFrames(fs), NEW f, NarrowFrame(f)
    PROVE  NarrowFrames(Append(fs, f))
<1> DEFINE t == Append(fs, f)
<1>1. \A j \in DOMAIN t : (j \in DOMAIN fs /\ t[j] = fs[j]) \/ t[j] = f
  OBVIOUS
<1> HIDE DEF t
<1>2. NarrowFrames(t)
  BY <1>1 DEF NarrowFrames
<1> QED
  BY <1>2 DEF t

LEMMA NarrowPopped ==
    ASSUME NEW fs \in Seq(IntFrame), fs # <<>>, NarrowFrames(fs)
    PROVE  /\ Pop(fs) \in Seq(IntFrame) /\ NarrowFrames(Pop(fs))
           /\ Top(fs) \in IntFrame /\ NarrowFrame(Top(fs))
           /\ \A g : NarrowFrame(g) => NarrowFrames(Append(Pop(fs), g))
<1>1. Pop(fs) \in Seq(IntFrame) /\ Top(fs) \in IntFrame
  BY TopAndPop
<1>2. \A j \in DOMAIN Pop(fs) : j \in DOMAIN fs /\ Pop(fs)[j] = fs[j]
  BY TopAndPop
<1>3. Top(fs) = fs[Len(fs)] /\ Len(fs) \in DOMAIN fs
  <2>1. Len(fs) \in Nat \ {0} /\ Top(fs) = fs[Len(fs)]
    BY TopAndPop
  <2> QED
    BY <2>1
<1>4. NarrowFrames(Pop(fs)) /\ NarrowFrame(Top(fs))
  BY <1>2, <1>3 DEF NarrowFrames
<1> QED
  BY <1>1, <1>4, NarrowPushed

\* No step changes the function, the arguments or, in a range's loop, the size.
LEMMA SameNarrow ==
    ASSUME NEW f \in IntFrame, NarrowFrame(f)
    PROVE  /\ NarrowFrame([f EXCEPT !.i = @ + 1])
           /\ \A at : at # "loop" => NarrowFrame([f EXCEPT !.at = at])
           /\ \A at, x : at # "loop" => /\ NarrowFrame([f EXCEPT !.lhs = x, !.at = at])
                                        /\ NarrowFrame([f EXCEPT !.rhs = x, !.at = at])
  BY DEF NarrowFrame, IntFrame, AnyFrame

\* The size of a narrow range does not wrap (BackEnd.cpp:609-610).
LEMMA NarrowSize ==
    ASSUME NEW n \in Int, NEW m \in Int, Fits(m - n + 1)
    PROVE  /\ (IF m < n THEN 0 ELSE Wrap(Wrap(m - n) + 1)) = Maximum(0, m - n + 1)
           /\ Fits(Maximum(0, m - n + 1))
<1>1. Fits(Maximum(0, m - n + 1))
  BY DEF Fits, Maximum
<1>2. CASE m < n
  BY <1>1, <1>2 DEF Maximum
<1>3. CASE ~(m < n)
  <2>1. m - n \in MachineInt /\ m - n + 1 \in MachineInt /\ m - n + 1 > 0
    BY <1>3 DEF Fits, MachineInt, MinInt
  <2>2. Wrap(m - n) = m - n /\ Wrap(m - n + 1) = m - n + 1
    BY <2>1, WrapOfInt
  <2> QED
    BY <1>1, <1>3, <2>1, <2>2 DEF Maximum
<1> QED
  BY <1>2, <1>3

\* A vector that a call was given is no larger than what was allocated for it.
LEMMA VectorFits ==
    ASSUME OwnerInv, BytesFit,
           NEW G \in SUBSET Allocations, \A a \in G : Complete(mem, Allocations, a),
           NEW v, IsVector(G, v)
    PROVE  Fits(Size(v))
<1>1. PICK a \in G : a.addr = v
  BY DEF IsVector
<1>2. a \in Allocations /\ a.size \in Int
  BY DEF OwnerInv, BlocksOK, MachineInt, MinInt
<1>3. Fits(a.size)
  BY <1>2 DEF Allocations, BytesFit, Fits
<1>4. Size(v) \in {a.size} \cup 0..Maximum(0, a.size)
  BY <1>1 DEF Complete, Word, Size, Load
<1> QED
  BY <1>2, <1>3, <1>4 DEF Fits, Maximum

\* The vectors of the program, and the operands of the running call.
LEMMA GivenVectorsFit ==
    ASSUME OwnerInv, BytesFit
    PROVE  /\ \A k \in DOMAIN vectors : Fits(Size(vectors[k]))
           /\ frames # <<>> /\ Frame.op \in WithLhs => Fits(Size(Frame.lhs))
           /\ frames # <<>> /\ Frame.op \in WithRhs => Fits(Size(Frame.rhs))
<1>1. PICK G \in SUBSET Allocations : Owned(mem, Allocations, G, frames, vectors)
  BY DEF OwnerInv, OwnedInv
<1>2. \A v : IsVector(G, v) => Fits(Size(v))
  BY <1>1, VectorFits DEF Owned
<1>3. \A k \in DOMAIN vectors : IsVector(G, vectors[k])
  BY <1>1 DEF Owned
<1>4. ASSUME frames # <<>> PROVE OperandsOK(G, Frame)
  <2>1. frames \in Seq(IntFrame)
    BY DEF OwnerInv, DisjointInv, HoldsInts, GoodFrames
  <2>2. Frame = frames[Len(frames)] /\ Len(frames) \in DOMAIN frames
    <3>1. Len(frames) \in Nat \ {0} /\ Top(frames) = frames[Len(frames)]
      BY <1>4, <2>1, TopAndPop
    <3> QED
      BY <2>1, <3>1 DEF Frame
  <2> QED
    BY <1>1, <2>2 DEF Owned, StackOK, FrameOK
<1> QED
  BY <1>2, <1>3, <1>4 DEF OperandsOK

\* A call is made with a size that fits.
LEMMA CallsAreNarrow ==
    ASSUME NarrowInv, Call
    PROVE  NarrowFrames(frames')
<1>1. frames \in Seq(IntFrame)
  BY DEF NarrowInv, OwnerInv, DisjointInv, HoldsInts, GoodFrames
<1>2. PICK f : frames' = Append(frames, f) /\ NarrowFrame(f)
  <2>1. ASSUME NEW f, frames' = Append(frames, f),
               f.op \notin {"int_to_vector", "increase_vector_size"},
               f.op = "vector_range" => f.at # "loop"
        PROVE  \E g : frames' = Append(frames, g) /\ NarrowFrame(g)
    BY <2>1 DEF NarrowFrame
  <2>2. CASE \E n, m \in Ints : CallRange(n, m)
    BY <2>1, <2>2 DEF CallRange, Called, NewFrame
  <2>3. CASE \E k \in DOMAIN vectors, x \in Ints : CallIntToVector(k, x)
    <3>1. PICK k \in DOMAIN vectors, x \in Ints : CallIntToVector(k, x)
      BY <2>3
    <3> DEFINE size == Size(vectors[k])
               f == NewFrame("int_to_vector", <<size, x>>, size, x, "alloc")
    <3>2. frames' = Append(frames, f)
      BY <3>1 DEF CallIntToVector, Called
    <3>3. Fits(size)
      BY GivenVectorsFit DEF NarrowInv
    <3>4. f.op = "int_to_vector" /\ f.args[1] = size
      BY DEF NewFrame
    <3> HIDE DEF f, size
    <3>5. NarrowFrame(f)
      BY <3>3, <3>4 DEF NarrowFrame
    <3> QED
      BY <3>2, <3>5
  <2>4. CASE \E op \in Ops, k, l \in DOMAIN vectors : CallOp(op, k, l)
    BY <2>1, <2>4 DEF CallOp, Called, NewFrame, IntOps, ArithmeticOps, BooleanOps
  <2>5. CASE \E k, l \in DOMAIN vectors : CallIndexVector(k, l)
    BY <2>1, <2>5 DEF CallIndexVector, Called, NewFrame
  <2>6. CASE \E op \in Scoped, k \in DOMAIN vectors : CallScoped(op, k)
    BY <2>1, <2>6 DEF CallScoped, Called, NewFrame, Scoped
  <2>7. CASE \E k \in DOMAIN vectors : CallPrint(k)
    <3>1. PICK k \in DOMAIN vectors : CallPrint(k)
      BY <2>7
    <3> DEFINE f == [NewFrame("print_vector", <<k>>, vectors[k], 0, "loop") EXCEPT
                         !.size = Size(vectors[k])]
    <3>2. frames' = Append(frames, f) /\ f.op = "print_vector"
      BY <3>1 DEF CallPrint, Called, NewFrame
    <3> HIDE DEF f
    <3> QED
      BY <2>1, <3>2
  <2> QED
    BY <2>2, <2>3, <2>4, <2>5, <2>6, <2>7 DEF Call
<1> QED
  BY <1>1, <1>2, NarrowPushed DEF NarrowInv

\* match_vector_size extends to the size of a vector.
LEMMA MatchIsNarrow ==
    ASSUME NarrowInv, MatchLhs \/ MatchRhs
    PROVE  NarrowFrames(frames')
<1>1. frames \in Seq(IntFrame) /\ frames # <<>>
  BY DEF NarrowInv, OwnerInv, DisjointInv, HoldsInts, GoodFrames, MatchLhs, MatchRhs
<1>2. /\ Frame \in IntFrame /\ NarrowFrame(Frame)
      /\ \A g : NarrowFrame(g) => NarrowFrames(Append(Pop(frames), g))
  BY <1>1, NarrowPopped DEF NarrowInv, Frame
<1>3. Frame.op \in Ops
  <2>1. PICK G \in SUBSET Allocations : Owned(mem, Allocations, G, frames, vectors)
    BY DEF NarrowInv, OwnerInv, OwnedInv
  <2>2. FrameOK(mem, Allocations, G, Frame)
    <3>1. Len(frames) \in Nat \ {0} /\ Top(frames) = frames[Len(frames)]
      BY <1>1, TopAndPop
    <3>2. Frame = frames[Len(frames)] /\ Len(frames) \in DOMAIN frames
      BY <1>1, <3>1 DEF Frame
    <3> QED
      BY <2>1, <3>2 DEF Owned, StackOK
  <2> QED
    BY <2>2 DEF FrameOK, StageOK, MatchLhs, MatchRhs
<1>4. Fits(Size(Frame.lhs)) /\ Fits(Size(Frame.rhs))
  BY <1>1, <1>3, GivenVectorsFit DEF NarrowInv, WithLhs, WithRhs
<1>5. ASSUME NEW size, NEW x, NEW v, Fits(size)
      PROVE  NarrowFrames(Append(frames, NewFrame("increase_vector_size", <<size, x>>, v, 0,
                                                  "alloc")))
  <2> DEFINE f == NewFrame("increase_vector_size", <<size, x>>, v, 0, "alloc")
  <2>1. f.op = "increase_vector_size" /\ f.args[1] = size
    BY DEF NewFrame
  <2> HIDE DEF f
  <2>2. NarrowFrame(f)
    BY <1>5, <2>1 DEF NarrowFrame
  <2>3. NarrowFrames(Append(frames, f))
    BY <1>1, <2>2, NarrowPushed DEF NarrowInv
  <2> QED
    BY <2>3 DEF f
<1>6. NarrowFrame([Frame EXCEPT !.at = "match_rhs"]) /\ NarrowFrame([Frame EXCEPT !.at = "alloc"])
  BY <1>2, SameNarrow
<1> QED
  BY <1>2, <1>4, <1>5, <1>6 DEF MatchLhs, MatchRhs

\* What is allocated is a narrow range, or as large as a vector that was given.
LEMMA AllocateIsNarrow ==
    ASSUME NarrowInv, RangesNarrow, Allocate
    PROVE  NarrowFrames(frames') /\ BytesFit'
<1> DEFINE size == ResultSize(Frame)
<1>1. frames \in Seq(IntFrame) /\ frames # <<>>
  BY DEF NarrowInv, OwnerInv, DisjointInv, HoldsInts, GoodFrames, Allocate
<1>2. /\ Frame \in IntFrame /\ NarrowFrame(Frame)
      /\ \A g : NarrowFrame(g) => NarrowFrames(Append(Pop(frames), g))
  BY <1>1, NarrowPopped DEF NarrowInv, Frame
<1>3. PICK a, v :
        /\ allocs' = Append(allocs, a) /\ a.size = size
        /\ SetFrame([Frame EXCEPT !.dst = v, !.size = size, !.i = 0, !.at = "loop"])
  BY DEF Allocate, GenerateVectorTypePtr
<1>4. Frame.op = "vector_range" =>
         size = Maximum(0, Frame.args[2] - Frame.args[1] + 1) /\ Fits(size)
  <2> SUFFICES ASSUME Frame.op = "vector_range"
               PROVE  size = Maximum(0, Frame.args[2] - Frame.args[1] + 1) /\ Fits(size)
    OBVIOUS
  <2>1. Frame.args[1] \in Int /\ Frame.args[2] \in Int
    BY <1>2 DEF IntFrame, AnyFrame, IntArgs
  <2>2. Fits(Frame.args[2] - Frame.args[1] + 1)
    <3>1. Len(frames) \in Nat \ {0} /\ Top(frames) = frames[Len(frames)]
      BY <1>1, TopAndPop
    <3>2. Frame = frames[Len(frames)] /\ Len(frames) \in DOMAIN frames
      BY <1>1, <3>1 DEF Frame
    <3> QED
      BY <3>2 DEF RangesNarrow
  <2>3. size = IF Frame.args[2] < Frame.args[1] THEN 0
               ELSE Wrap(Wrap(Frame.args[2] - Frame.args[1]) + 1)
    BY DEF ResultSize
  <2> HIDE DEF size
  <2> QED
    BY <2>1, <2>2, <2>3, NarrowSize
<1>5. Fits(size)
  <2>1. CASE Frame.op = "vector_range"
    BY <1>4, <2>1
  <2>2. CASE Frame.op \in {"int_to_vector", "increase_vector_size"}
    <3>1. size = Frame.args[1]
      BY <2>2 DEF ResultSize
    <3> QED
      BY <1>2, <2>2, <3>1 DEF NarrowFrame
  <2>3. CASE Frame.op = "vector_index_vector"
    <3>1. size = Size(Frame.rhs)
      BY <2>3 DEF ResultSize
    <3> QED
      BY <1>1, <2>3, <3>1, GivenVectorsFit DEF NarrowInv, WithRhs
  <2>4. CASE Frame.op \in Ops \cup Scoped
    <3>1. Frame.op \notin {"vector_range", "int_to_vector", "increase_vector_size",
                           "vector_index_vector"}
      BY <2>4 DEF IntOps, ArithmeticOps, BooleanOps, Scoped
    <3>2. size = Size(Frame.lhs)
      BY <3>1 DEF ResultSize
    <3> QED
      BY <1>1, <2>4, <3>2, GivenVectorsFit DEF NarrowInv, WithLhs
  <2>5. Frame.op # "print_vector"
    <3>1. PICK G \in SUBSET Allocations : Owned(mem, Allocations, G, frames, vectors)
      BY DEF NarrowInv, OwnerInv, OwnedInv
    <3>2. FrameOK(mem, Allocations, G, Frame)
      <4>1. Len(frames) \in Nat \ {0} /\ Top(frames) = frames[Len(frames)]
        BY <1>1, TopAndPop
      <4>2. Frame = frames[Len(frames)] /\ Len(frames) \in DOMAIN frames
        BY <1>1, <4>1 DEF Frame
      <4> QED
        BY <3>1, <4>2 DEF Owned, StackOK
    <3> QED
      BY <3>2 DEF FrameOK, StageOK, Allocate
  <2>6. Frame.op \in Ops \cup OtherFunctions \cup {"increase_vector_size"}
    BY <1>2 DEF IntFrame, AnyFrame
  <2> QED
    BY <2>1, <2>2, <2>3, <2>4, <2>5, <2>6 DEF OtherFunctions
<1> HIDE DEF size
<1>6. BytesFit'
  <2>1. allocs \in Seq(Allocation)
    BY DEF NarrowInv, OwnerInv, DisjointInv, Allocated
  <2>2. \A k \in DOMAIN allocs' : (k \in DOMAIN allocs /\ allocs'[k] = allocs[k]) \/ allocs'[k] = a
    BY <1>3, <2>1
  <2> QED
    BY <1>3, <1>5, <2>2 DEF NarrowInv, BytesFit, Fits
<1>7. NarrowFrames(frames')
  <2> DEFINE g == [Frame EXCEPT !.dst = v, !.size = size, !.i = 0, !.at = "loop"]
  <2>1. g.op = Frame.op /\ g.args = Frame.args /\ g.size = size
    BY <1>2 DEF IntFrame, AnyFrame
  <2>2. frames' = Append(Pop(frames), g)
    BY <1>3 DEF SetFrame
  <2> HIDE DEF g
  <2>3. NarrowFrame(g)
    BY <1>2, <1>4, <2>1 DEF NarrowFrame
  <2> QED
    BY <1>2, <2>2, <2>3
<1> QED
  BY <1>6, <1>7

LEMMA NarrowInvStep ==
    ASSUME NarrowInv, RangesNarrow, [Next \/ (Stopped /\ UNCHANGED vars)]_vars
    PROVE  NarrowInv'
<1>1. frames \in Seq(IntFrame) /\ NarrowFrames(frames)
  BY DEF NarrowInv, OwnerInv, DisjointInv, HoldsInts, GoodFrames
<1>2. ASSUME frames # <<>>
      PROVE  /\ Pop(frames) \in Seq(IntFrame) /\ NarrowFrames(Pop(frames))
             /\ Frame \in IntFrame /\ NarrowFrame(Frame)
             /\ \A g : NarrowFrame(g) => NarrowFrames(Append(Pop(frames), g))
  BY <1>1, <1>2, NarrowPopped DEF Frame
<1>3. BytesFit'
  <2>1. CASE Allocate
    BY <2>1, AllocateIsNarrow
  <2>2. CASE UNCHANGED <<brk, allocs>>
    BY <2>2 DEF NarrowInv, BytesFit, Fits
  <2> QED
    BY <2>1, <2>2, TypedStep DEF NarrowInv, OwnerInv, DisjointInv, TypedInv
<1>4. OwnerInv'
  BY <1>3, OwnerInvStep DEF NarrowInv
<1>5. NarrowFrames(frames')
  <2>1. CASE Call
    BY <2>1, CallsAreNarrow
  <2>2. CASE MatchLhs \/ MatchRhs
    BY <2>2, MatchIsNarrow
  <2>3. CASE Allocate
    BY <2>3, AllocateIsNarrow
  <2>4. CASE Iterate \/ PrintElement
    <3>1. frames # <<>> /\ frames' = Append(Pop(frames), [Frame EXCEPT !.i = @ + 1])
      BY <2>4 DEF Iterate, PrintElement, InLoop, Incremented, SetFrame
    <3> QED
      BY <1>2, <3>1, SameNarrow
  <2>5. CASE EnterBody \/ Body
    <3>1. PICK g : frames # <<>> /\ frames' = Append(Pop(frames), g) /\ g.op \in Scoped
      <4>1. CASE EnterBody
        <5>1. frames # <<>> /\ Frame.op \in Scoped
          BY <4>1 DEF EnterBody, InLoop
        <5> DEFINE g == [Frame EXCEPT !.at = "body", !.elem = VectorIndex(Frame.lhs, Frame.i)]
        <5>2. g.op = Frame.op
          BY <1>2, <5>1 DEF IntFrame, AnyFrame
        <5>3. frames' = Append(Pop(frames), g)
          BY <4>1 DEF EnterBody, SetFrame
        <5> QED
          BY <5>1, <5>2, <5>3
      <4>2. CASE Body
        <5>1. PICK x \in Ints : GeneratorBody(x) \/ FilterBody(x)
          BY <4>2 DEF Body
        <5>2. frames # <<>> /\ Frame.op \in Scoped
          BY <5>1 DEF GeneratorBody, FilterBody, InScopedBody, Scoped
        <5> DEFINE g == [Frame EXCEPT !.i = @ + 1, !.at = "loop", !.body = Append(@, x)]
        <5>3. g.op = Frame.op
          BY <1>2, <5>2 DEF IntFrame, AnyFrame
        <5>4. frames' = Append(Pop(frames), g)
          BY <5>1 DEF GeneratorBody, FilterBody, NextElement, SetFrame
        <5> QED
          BY <5>2, <5>3, <5>4
      <4> QED
        BY <2>5, <4>1, <4>2
    <3> QED
      BY <1>2, <3>1 DEF NarrowFrame, Scoped
  <2>6. CASE Return \/ ReturnPrinted
    BY <1>2, <2>6 DEF Return, ReturnPrinted, LoopDone
  <2>7. CASE ReturnIncreased
    <3>1. frames # <<>> /\ frames' = Append(Pop(Pop(frames)), Resume(Top(Pop(frames))))
      BY <2>7 DEF ReturnIncreased, LoopDone
    <3>2. Pop(frames) # <<>>
      <4>1. Frame.op = "increase_vector_size" /\ frames[1].op # "increase_vector_size"
        BY <2>7 DEF ReturnIncreased, LoopDone, NarrowInv, OwnerInv, DisjointInv, HoldsInts,
                    GoodFrames
      <4>2. Len(frames) # 1
        BY <3>1, <4>1 DEF Frame, Top
      <4>3. Len(frames) \in Nat \ {0} /\ Len(Pop(frames)) = Len(frames) - 1
        BY <1>1, <3>1, TopAndPop
      <4>4. Len(Pop(frames)) # 0
        BY <4>2, <4>3
      <4> QED
        BY <4>4
    <3>3. /\ Top(Pop(frames)) \in IntFrame /\ NarrowFrame(Top(Pop(frames)))
          /\ \A g : NarrowFrame(g) => NarrowFrames(Append(Pop(Pop(frames)), g))
      BY <1>2, <3>1, <3>2, NarrowPopped
    <3>4. NarrowFrame(Resume(Top(Pop(frames))))
      BY <3>3, SameNarrow DEF Resume
    <3> QED
      BY <3>1, <3>3, <3>4
  <2>8. CASE UNCHANGED vars
    BY <1>1, <2>8 DEF vars
  <2> QED
    BY <2>1, <2>2, <2>3, <2>4, <2>5, <2>6, <2>7, <2>8 DEF Next
<1>6. NarrowFrames(frames)'
  BY <1>5 DEF NarrowFrames, NarrowFrame, Fits
<1> QED
  BY <1>3, <1>4, <1>6 DEF NarrowInv

LEMMA NarrowInvHolds == RuntimeSpec /\ []RangesNarrow => []NarrowInv
<1>1. Init => NarrowInv
  <2>1. Init => BytesFit /\ NarrowFrames(frames)
    BY DEF Init, BytesFit, NarrowFrames
  <2> QED
    BY <2>1, OwnerInvInit DEF NarrowInv
<1>2. NarrowInv /\ RangesNarrow /\ [Next \/ (Stopped /\ UNCHANGED vars)]_vars => NarrowInv'
  BY NarrowInvStep
<1> QED
  BY <1>1, <1>2, PTL DEF RuntimeSpec

\* As long as the program asks for ranges of fewer than 2^30 ints (RangesNarrow), the
\* subtraction and the addition that compute their size (BackEnd.cpp:609-610) do not wrap,
\* whatever else it is given and computes. What this leaves out, bounds that are MaxInt or
\* more apart, is what the run MCVectorRuntime_range shows.
THEOREM NarrowRangesHoldInterval ==
    RuntimeSpec /\ []RangesNarrow => []RangeHoldsInterval
<1>1. NarrowInv => RangeHoldsInterval
  BY DEF NarrowInv, NarrowFrames, NarrowFrame, RangeHoldsInterval
<1> QED
  BY <1>1, NarrowInvHolds, PTL

\* In the same behaviours no byte count wraps (BackEnd.cpp:542-548): every other function
\* allocates as much as for a vector it was given.
THEOREM NarrowRangesFit ==
    RuntimeSpec /\ []RangesNarrow => []BytesFit
<1>1. NarrowInv => BytesFit
  BY DEF NarrowInv
<1> QED
  BY <1>1, NarrowInvHolds, PTL

\* In those behaviours the loads, stores and loops implement operations on values: of the
\* ints that calls pass and bodies return nothing is assumed but the bounds of ranges.
THEOREM NarrowRuntimeImplementsVectorSpec ==
    RuntimeSpec /\ []RangesNarrow => ImplementsVectorSpec
  BY NarrowRangesHoldInterval, NarrowRangesFit, RuntimeImplementsVectorSpec, PTL
=============================================================================
