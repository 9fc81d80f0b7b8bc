--------------------------- MODULE Verify_proofs ---------------------------
(***************************************************************************)
(* What CodeGen emits is what mlir::verify accepts: every value is         *)
(* computed, on every path, before it is used, and operations get operands *)
(* of their types unless a filter's body is a vector.                      *)
(***************************************************************************)
EXTENDS CodeGen_proofs

----------------------------------------------------------------------------
(* How blocks, operations and values hang together.  An argument is the     *)
(* result of an operation or the induction variable of a region; a region   *)
(* belongs to one operation, and nothing was computed behind that operation *)
(* in the blocks around while the region is added to; what branches and     *)
(* where it branches to are blocks of main.                                 *)

Element(l) == ResultAt(StartOf(l.region), 1, "int")

\* The operations with a result, and those with a region.
Giving == {"one", "zero", "constant", "alloca", "load", "size", "new_vector", "int_to_vector",
           "int_op", "vector_op", "vector_range", "vector_index", "vector_index_vector"}
Branches == {"br", "cond_br"}

\* A value is the induction variable of a region or the result of an operation.
Defines(bs, v) ==
    /\ v.block \in DOMAIN bs
    /\ IF v.at = 0 THEN bs[v.block].within # {}
                   ELSE /\ v.at \in DOMAIN bs[v.block].body
                        /\ bs[v.block].body[v.at].op \in Giving

ArgShape(bs, b, v) ==
    Defines(bs, v) /\ (v.block \in bs[b].within => ComesBefore(bs, v, b))
OpShape(bs, b, op) ==
    /\ \A k \in DOMAIN op.args : ArgShape(bs, b, op.args[k])
    /\ op.op \in Regional => /\ Len(op.to) = 1 /\ op.to[1] \in DOMAIN bs
                             /\ bs[op.to[1]].within = bs[b].within \cup {b}
    /\ op.op \in Branches => /\ bs[b].within = {}
                             /\ 1 \in DOMAIN op.to /\ (op.op = "cond_br" => 2 \in DOMAIN op.to)
                             /\ \A k \in DOMAIN op.to : /\ op.to[k] \in DOMAIN bs
                                                        /\ bs[op.to[k]].within = {}
    /\ op.op = "yield" <=> op.op \in Terminators /\ bs[b].within # {}
BlockShape(bs, b) == /\ \A d \in bs[b].within : d < b
                     /\ \A i \in DOMAIN bs[b].body : OpShape(bs, b, bs[b].body[i])
Shaped(bs) == \A b \in DOMAIN bs : BlockShape(bs, b)

\* Nothing was computed in the blocks around b since the region b is in was begun.
Newest(bs, b) ==
    \A h \in bs[b].within : \A i, j \in DOMAIN bs[h].body :
       InRegion(bs, bs[h].body[i], b) /\ i < j => bs[h].body[j].op \notin Giving

Scoping(l) == "save" \in DOMAIN l
Saves(ls, k) == {ls[j].save.block : j \in {i \in 1..k : Scoping(ls[i])}}
PlaceShape(bs, ls, k, b) == b \in DOMAIN bs /\ Newest(bs, b) /\ bs[b].within \subseteq Saves(ls, k)

\* A block of main.
Outer(bs, b) == b \in DOMAIN bs /\ bs[b].within = {}
LocalShape(bs, ls, k) ==
    IF Scoping(ls[k]) THEN /\ Defines(bs, ls[k].result) /\ Defines(bs, Element(ls[k]))
                           /\ Defines(bs, InductionVar(ls[k].region))
                           /\ PlaceShape(bs, ls, k - 1, ls[k].save.block)
                      ELSE ls[k].header # 0 => Outer(bs, ls[k].header)

ShapeInv ==
    /\ codegen \in {"emitting", "generated"} => Shaped(blocks)
    /\ codegen = "emitting" =>
          /\ Defines(blocks, const_one) /\ Defines(blocks, const_zero)
          /\ \A i \in DOMAIN opperands : Defines(blocks, opperands[i])
          /\ \A s \in DOMAIN storage : Defines(blocks, storage[s])
          /\ PlaceShape(blocks, locals, Len(locals), ip.block)
          /\ \A k \in DOMAIN locals : LocalShape(blocks, locals, k)

\* What a step does to the blocks: only block c gets operations, behind its first "at"
\* operations, and nothing but a yield was behind those; they have new regions.
NewRegion(bs, op) == op.op \in Regional => \A k \in DOMAIN op.to : op.to[k] \notin DOMAIN bs
Continues(bs, new, c, at) ==
    /\ c \in DOMAIN bs /\ DOMAIN bs \subseteq DOMAIN new
    /\ \A b \in DOMAIN bs : new[b].within = bs[b].within /\ (b # c => new[b] = bs[b])
    /\ \A i \in 1..at : /\ i \in DOMAIN bs[c].body /\ i \in DOMAIN new[c].body
                        /\ new[c].body[i] = bs[c].body[i]
    /\ \A i \in DOMAIN bs[c].body : i \in 1..at \/ bs[c].body[i].op \in Terminators
    /\ \A i \in DOMAIN new[c].body : i \in 1..at \/ NewRegion(bs, new[c].body[i])

LEMMA GivingIsNoTerminator == \A op : op \in Giving => op \notin Terminators /\ op \notin Regional
  BY DEF Giving, Terminators, Regional

LEMMA DefinesKept ==
    ASSUME NEW bs, NEW new, NEW c, NEW at, Continues(bs, new, c, at), NEW v, Defines(bs, v)
    PROVE  Defines(new, v)
<1>1. v.block \in DOMAIN bs /\ v.block \in DOMAIN new /\ new[v.block].within = bs[v.block].within
  BY DEF Defines, Continues
<1>2. CASE v.at = 0
  BY <1>1, <1>2 DEF Defines
<1>3. CASE v.at # 0 /\ v.block # c
  BY <1>1, <1>3 DEF Defines, Continues
<1>4. CASE v.at # 0 /\ v.block = c
  <2>1. v.at \in DOMAIN bs[c].body /\ bs[c].body[v.at].op \in Giving
    BY <1>4 DEF Defines
  <2>2. v.at \in 1..at
    BY <2>1, GivingIsNoTerminator DEF Continues
  <2> QED
    BY <1>1, <1>4, <2>1, <2>2 DEF Defines, Continues
<1> QED
  BY <1>2, <1>3, <1>4

LEMMA InRegionOld ==
    ASSUME NEW bs, NEW new, NEW c, NEW at, Continues(bs, new, c, at), NEW b \in DOMAIN bs,
           bs[b].within \subseteq DOMAIN bs, NEW op, InRegion(new, op, b)
    PROVE  InRegion(bs, op, b) /\ ~NewRegion(bs, op)
  BY DEF InRegion, Continues, NewRegion

LEMMA BeforeKept ==
    ASSUME NEW bs, NEW new, NEW c, NEW at, Continues(bs, new, c, at), NEW b \in DOMAIN bs,
           bs[b].within \subseteq DOMAIN bs, NEW v, v.block \in bs[b].within, ComesBefore(bs, v, b)
    PROVE  ComesBefore(new, v, b)
<1> DEFINE h == v.block
<1> SUFFICES ASSUME NEW n \in DOMAIN new[h].body, InRegion(new, new[h].body[n], b) PROVE v.at < n
  BY DEF ComesBefore
<1>1. InRegion(bs, new[h].body[n], b) /\ ~NewRegion(bs, new[h].body[n]) /\ h \in DOMAIN bs
  BY InRegionOld
<1>2. n \in DOMAIN bs[h].body /\ new[h].body[n] = bs[h].body[n]
  BY <1>1 DEF Continues
<1> QED
  BY <1>1, <1>2 DEF ComesBefore

LEMMA NewestKept ==
    ASSUME NEW bs, NEW new, NEW c, NEW at, Continues(bs, new, c, at), NEW b \in DOMAIN bs,
           bs[b].within \subseteq DOMAIN bs, c \notin bs[b].within, Newest(bs, b)
    PROVE  Newest(new, b)
<1>1. new[b].within = bs[b].within /\ \A h \in bs[b].within : new[h] = bs[h]
  BY DEF Continues
<1>2. \A op : InRegion(new, op, b) => InRegion(bs, op, b)
  BY InRegionOld
<1> QED
  BY <1>1, <1>2 DEF Newest

LEMMA OpShapeKept ==
    ASSUME NEW bs, NEW new, NEW c, NEW at, Continues(bs, new, c, at), NEW b \in DOMAIN bs,
           bs[b].within \subseteq DOMAIN bs, NEW op, OpShape(bs, b, op)
    PROVE  OpShape(new, b, op)
<1>1. new[b].within = bs[b].within /\ DOMAIN bs \subseteq DOMAIN new
      /\ \A d \in DOMAIN bs : new[d].within = bs[d].within
  BY DEF Continues
<1>2. ASSUME NEW k \in DOMAIN op.args PROVE ArgShape(new, b, op.args[k])
  <2>1. ArgShape(bs, b, op.args[k])
    BY DEF OpShape
  <2> QED
    BY <1>1, <2>1, DefinesKept, BeforeKept DEF ArgShape
<1> QED
  BY <1>1, <1>2 DEF OpShape

LEMMA ShapedKept ==
    ASSUME NEW bs, NEW new, NEW c, NEW at, Continues(bs, new, c, at), BlocksTyped(bs), Shaped(bs),
           \A i \in DOMAIN new[c].body : i \in 1..at \/ OpShape(new, c, new[c].body[i]),
           \A b \in DOMAIN new : b \in DOMAIN bs \/ BlockShape(new, b)
    PROVE  Shaped(new)
<1> SUFFICES ASSUME NEW b \in DOMAIN bs PROVE BlockShape(new, b)
  BY DEF Shaped
<1>1. BlockShape(bs, b) /\ bs[b].within \subseteq DOMAIN bs /\ new[b].within = bs[b].within
  BY DEF Shaped, BlocksTyped, Continues
<1>2. ASSUME NEW i \in DOMAIN new[b].body PROVE OpShape(new, b, new[b].body[i])
  <2>1. CASE b # c \/ i \in 1..at
    <3>1. i \in DOMAIN bs[b].body /\ new[b].body[i] = bs[b].body[i]
      BY <2>1 DEF Continues
    <3>2. OpShape(bs, b, bs[b].body[i])
      BY <1>1, <3>1 DEF BlockShape
    <3> QED
      BY <1>1, <3>1, <3>2, OpShapeKept
  <2> QED
    BY <2>1
<1> QED
  BY <1>1, <1>2 DEF BlockShape

\* A value that is there may be used where nothing was computed since.
LEMMA NewestIsBefore ==
    ASSUME NEW bs, BlocksTyped(bs), NEW b \in DOMAIN bs, Newest(bs, b), NEW v, Defines(bs, v)
    PROVE  ArgShape(bs, b, v)
<1> SUFFICES ASSUME v.block \in bs[b].within, NEW n \in DOMAIN bs[v.block].body,
                    InRegion(bs, bs[v.block].body[n], b)
             PROVE  v.at < n
  BY DEF ArgShape, ComesBefore
<1> DEFINE body == bs[v.block].body
<1>1. body \in Seq(Operation) /\ n \in Nat \ {0}
  <2>1. bs[v.block] \in BlockRecord
    BY DEF BlocksTyped, Defines
  <2> QED
    BY <2>1 DEF BlockRecord
<1>2. CASE v.at = 0
  BY <1>1, <1>2
<1>3. CASE v.at # 0
  <2>1. v.at \in DOMAIN body /\ body[v.at].op \in Giving /\ v.at \in Nat
    BY <1>1, <1>3 DEF Defines
  <2>2. v.at # n
    BY <2>1, GivingIsNoTerminator DEF InRegion
  <2>3. ~(n < v.at)
    BY <2>1 DEF Newest
  <2> QED
    BY <1>1, <2>1, <2>2, <2>3
<1> QED
  BY <1>2, <1>3

----------------------------------------------------------------------------
\* Operations are added at a place, and perhaps new blocks.
Placed(bs, p) ==
    /\ p.block \in DOMAIN bs /\ p.at \in 0..Len(bs[p.block].body)
    /\ \A i \in DOMAIN bs[p.block].body : i \in 1..p.at \/ bs[p.block].body[i].op \in Terminators
Added(bs, new, p, ops) ==
    /\ DOMAIN bs \subseteq DOMAIN new
    /\ \A b \in DOMAIN bs : b # p.block => new[b] = bs[b]
    /\ new[p.block].within = bs[p.block].within
    /\ Spliced(bs[p.block].body, p.at, ops, new[p.block].body)

LEMMA InsertAdds ==
    ASSUME NEW bs, BlocksTyped(bs), NEW p, Placed(bs, p), NEW ops \in Seq(Operation),
           NEW new, DOMAIN bs \subseteq DOMAIN new,
           \A b \in DOMAIN bs : new[b] = InsertOps(bs, p, ops)[b]
    PROVE  Added(bs, new, p, ops)
<1> DEFINE mid == InsertOps(bs, p, ops)
<1>1. /\ \A b \in DOMAIN bs : b # p.block => mid[b] = bs[b]
      /\ mid[p.block].within = bs[p.block].within
      /\ Spliced(bs[p.block].body, p.at, ops, mid[p.block].body)
  BY OpsInserted DEF Placed
<1> HIDE DEF mid
<1>2. \A b \in DOMAIN bs : new[b] = mid[b]
  BY DEF mid
<1> QED
  BY <1>1, <1>2 DEF Added, Placed

\* Where an operation of the new block comes from.
LEMMA AddedBody ==
    ASSUME NEW bs, BlocksTyped(bs), NEW p, Placed(bs, p), NEW ops \in Seq(Operation), NEW new,
           Added(bs, new, p, ops)
    PROVE  LET old == bs[p.block].body
               body == new[p.block].body
           IN  /\ \A i \in 1..p.at : i \in DOMAIN old /\ i \in DOMAIN body /\ body[i] = old[i]
               /\ \A j \in DOMAIN ops : p.at + j \in DOMAIN body /\ body[p.at + j] = ops[j]
               /\ \A i \in DOMAIN body : /\ i \in Nat
                                         /\ \/ i \in 1..p.at
                                            \/ \E j \in DOMAIN ops : i = p.at + j
                                            \/ /\ i > p.at + Len(ops)
                                               /\ \E j \in DOMAIN old : /\ j \notin 1..p.at
                                                                        /\ body[i] = old[j]
                                                                        /\ old[j].op \in Terminators
<1> DEFINE old == bs[p.block].body
           body == new[p.block].body
           at == p.at
<1>1. /\ old \in Seq(Operation) /\ at \in 0..Len(old) /\ body \in Seq(Operation)
      /\ Len(body) = Len(old) + Len(ops) /\ \A i \in 1..at : body[i] = old[i]
      /\ \A i \in 1..Len(ops) : body[at + i] = ops[i]
      /\ \A i \in (at + 1)..Len(old) : body[Len(ops) + i] = old[i]
      /\ \A i \in DOMAIN old : i \in 1..at \/ old[i].op \in Terminators
  <2>1. bs[p.block] \in BlockRecord
    BY DEF BlocksTyped, Placed
  <2> QED
    BY <2>1 DEF BlockRecord, Placed, Added, Spliced
<1> HIDE DEF old, body, at
<1> DEFINE m == Len(ops)
           n == Len(old)
<1>2. /\ m \in Nat /\ n \in Nat /\ DOMAIN old = 1..n /\ DOMAIN body = 1..(n + m) /\ DOMAIN ops = 1..m
      /\ Len(body) = n + m /\ at \in 0..n
  BY <1>1
<1>3. /\ \A i \in 1..m : body[at + i] = ops[i]
      /\ \A i \in (at + 1)..n : body[m + i] = old[i]
  BY <1>1
<1> HIDE DEF m, n
<1>4. \A i \in 1..at : i \in DOMAIN old /\ i \in DOMAIN body /\ body[i] = old[i]
  BY <1>1, <1>2
<1>5. \A j \in DOMAIN ops : at + j \in DOMAIN body /\ body[at + j] = ops[j]
  BY <1>2, <1>3
<1>6. ASSUME NEW i \in DOMAIN body, i \notin 1..at, \A j \in DOMAIN ops : i # at + j
      PROVE  /\ i > at + m
             /\ \E j \in DOMAIN old : /\ j \notin 1..at /\ body[i] = old[j] /\ old[j].op \in Terminators
  <2>1. i \in Nat /\ i > at + m /\ i <= n + m
    <3>0. i \in 1..(n + m) /\ \A j \in 1..m : i # at + j
      BY <1>2, <1>6
    <3>1. i \in 1..(n + m) /\ i > at /\ \A j \in 1..m : i # at + j
      <4>1. i \in Nat /\ i >= 1 /\ at \in Nat
        BY <1>2, <3>0
      <4> QED
        BY <1>6, <3>0, <4>1
    <3>2. i > at + m
      <4> SUFFICES ASSUME ~(i > at + m) PROVE FALSE
        OBVIOUS
      <4>1. i - at \in 1..m /\ i = at + (i - at)
        BY <1>2, <3>1
      <4> QED
        BY <3>1, <4>1
    <3> QED
      BY <1>2, <3>1, <3>2
  <2> DEFINE j == i - m
  <2>2. j \in (at + 1)..n /\ m + j = i /\ j \in DOMAIN old /\ j \notin 1..at
    BY <1>2, <2>1
  <2> HIDE DEF j
  <2>3. body[i] = old[j] /\ old[j].op \in Terminators
    BY <1>1, <1>3, <2>2
  <2> QED
    BY <2>1, <2>2, <2>3
<1>7. \A i \in DOMAIN body : i \in Nat
  BY <1>2
<1> QED
  BY <1>4, <1>5, <1>6, <1>7 DEF old, body, at, m

LEMMA AddedContinues ==
    ASSUME NEW bs, BlocksTyped(bs), NEW p, Placed(bs, p), NEW ops \in Seq(Operation), NEW new,
           Added(bs, new, p, ops), \A j \in DOMAIN ops : NewRegion(bs, ops[j])
    PROVE  Continues(bs, new, p.block, p.at)
<1> DEFINE old == bs[p.block].body
           body == new[p.block].body
           at == p.at
<1>1. /\ \A i \in 1..at : i \in DOMAIN old /\ i \in DOMAIN body /\ body[i] = old[i]
      /\ \A j \in DOMAIN ops : body[at + j] = ops[j]
      /\ \A i \in DOMAIN body : \/ i \in 1..at
                                \/ \E j \in DOMAIN ops : i = at + j
                                \/ \E j \in DOMAIN old : body[i] = old[j] /\ old[j].op \in Terminators
  BY AddedBody
<1>2. \A op : op.op \in Terminators => NewRegion(bs, op)
  BY DEF Terminators, Regional, NewRegion
<1>3. \A i \in DOMAIN body : i \in 1..at \/ NewRegion(bs, body[i])
  BY <1>1, <1>2
<1>4. \A i \in DOMAIN old : i \in 1..at \/ old[i].op \in Terminators
  BY DEF Placed
<1> HIDE DEF old, body, at
<1> QED
  BY <1>1, <1>3, <1>4 DEF Continues, Added, Placed, old, body, at

LEMMA AddedShaped ==
    ASSUME NEW bs, BlocksTyped(bs), Shaped(bs), NEW p, Placed(bs, p), NEW ops \in Seq(Operation), NEW new,
           Added(bs, new, p, ops), Continues(bs, new, p.block, p.at),
           \A j \in DOMAIN ops : OpShape(new, p.block, ops[j]),
           \A b \in DOMAIN new : b \in DOMAIN bs \/ BlockShape(new, b)
    PROVE  Shaped(new)
<1> DEFINE c == p.block
           old == bs[c].body
           body == new[c].body
<1>1. ASSUME NEW i \in DOMAIN body, i \notin 1..p.at PROVE OpShape(new, c, body[i])
  <2>1. \/ \E j \in DOMAIN ops : body[i] = ops[j]
        \/ \E j \in DOMAIN old : body[i] = old[j]
    BY <1>1, AddedBody
  <2>2. \A j \in DOMAIN old : OpShape(bs, c, old[j])
    BY DEF Shaped, BlockShape, Placed
  <2>3. c \in DOMAIN bs /\ bs[c].within \subseteq DOMAIN bs
    BY DEF Placed, BlocksTyped
  <2>4. \A j \in DOMAIN old : OpShape(new, c, old[j])
    BY <2>2, <2>3, OpShapeKept
  <2> QED
    BY <2>1, <2>4
<1> QED
  BY <1>1, ShapedKept

\* An operation that was added and has a result can be used from now on.
LEMMA AddedDefines ==
    ASSUME NEW bs, BlocksTyped(bs), NEW p, Placed(bs, p), NEW ops \in Seq(Operation), NEW new,
           Added(bs, new, p, ops), NEW j \in DOMAIN ops, ops[j].op \in Giving, NEW type
    PROVE  Defines(new, ResultAt(p, j, type))
<1>1. p.at + j \in DOMAIN new[p.block].body /\ new[p.block].body[p.at + j] = ops[j]
  BY AddedBody
<1>2. p.at + j # 0
  <2>1. p.at \in Nat /\ j \in Nat \ {0}
    BY DEF Placed
  <2> QED
    BY <2>1
<1>3. p.block \in DOMAIN new
  BY DEF Placed, Added
<1> QED
  BY <1>1, <1>2, <1>3 DEF Defines, ResultAt

\* Operations without a region that are not the last of a block.
Plain(op) == op.op \notin Terminators /\ op.op \notin Regional
Supplied(bs, op) == \A k \in DOMAIN op.args : Defines(bs, op.args[k])

LEMMA PlainShape ==
    ASSUME NEW bs, BlocksTyped(bs), NEW b \in DOMAIN bs, Newest(bs, b), NEW op, Plain(op), Supplied(bs, op)
    PROVE  OpShape(bs, b, op)
<1>1. \A k \in DOMAIN op.args : ArgShape(bs, b, op.args[k])
  BY NewestIsBefore DEF Supplied
<1>2. op.op \notin Branches /\ op.op # "yield"
  BY DEF Plain, Terminators, Branches
<1> QED
  BY <1>1, <1>2 DEF OpShape, Plain

LEMMA PlaceKept ==
    ASSUME NEW bs, NEW new, NEW c, NEW at, Continues(bs, new, c, at), BlocksTyped(bs), NEW ls, NEW k,
           c \notin Saves(ls, k), NEW b, PlaceShape(bs, ls, k, b)
    PROVE  PlaceShape(new, ls, k, b)
<1>1. b \in DOMAIN bs /\ bs[b].within \subseteq DOMAIN bs /\ c \notin bs[b].within /\ Newest(bs, b)
  BY DEF PlaceShape, BlocksTyped
<1>2. Newest(new, b)
  BY <1>1, NewestKept
<1> QED
  BY <1>1, <1>2 DEF PlaceShape, Continues

LEMMA OuterKept ==
    ASSUME NEW bs, NEW new, NEW c, NEW at, Continues(bs, new, c, at), NEW b, Outer(bs, b)
    PROVE  Outer(new, b)
  BY DEF Continues, Outer

LEMMA LocalKept ==
    ASSUME NEW bs, NEW new, NEW c, NEW at, Continues(bs, new, c, at), BlocksTyped(bs), NEW ls, NEW n \in Nat,
           c \notin Saves(ls, n), NEW k \in 1..n, LocalShape(bs, ls, k),
           NEW ls2, \A j \in 1..k : ls2[j] = ls[j]
    PROVE  LocalShape(new, ls2, k)
<1>1. k \in 1..k /\ ls2[k] = ls[k] /\ \A i \in 1..(k - 1) : i \in 1..k /\ i \in 1..n
  OBVIOUS
<1>2. Saves(ls, k - 1) \subseteq Saves(ls, n) /\ Saves(ls2, k - 1) = Saves(ls, k - 1)
  BY <1>1 DEF Saves
<1>3. CASE ~Scoping(ls[k])
  BY <1>1, <1>3, OuterKept DEF LocalShape
<1>4. CASE Scoping(ls[k])
  <2>1. PlaceShape(new, ls, k - 1, ls[k].save.block)
    BY <1>2, <1>4, PlaceKept DEF LocalShape
  <2>2. /\ Defines(new, ls[k].result) /\ Defines(new, Element(ls[k]))
        /\ Defines(new, InductionVar(ls[k].region))
    BY <1>4, DefinesKept DEF LocalShape
  <2> QED
    BY <1>1, <1>2, <1>4, <2>1, <2>2 DEF LocalShape, PlaceShape
<1> QED
  BY <1>3, <1>4

----------------------------------------------------------------------------
\* The place where CodeGen adds operations.
LEMMA EmittingPlaced ==
    ASSUME NEW bs, NEW p, NEW ls, NEW open, Emitting(bs, p, ls, open)
    PROVE  /\ BlocksTyped(bs) /\ Placed(bs, p) /\ p.block \notin Saves(ls, Len(ls))
           /\ bs[p.block].within = {} <=> ~Inside(open, Len(open))
<1> DEFINE body == bs[p.block].body
           inside == Inside(open, Len(open))
<1>1. /\ BlocksTyped(bs) /\ p \in [block: DOMAIN bs, at: Nat] /\ (bs[p.block].within # {} <=> inside)
      /\ p.at = Len(body) - (IF inside THEN 1 ELSE 0)
      /\ BlockOK(bs[p.block], TRUE)
  BY DEF Emitting, PlaceOK
<1>2. body \in Seq(Operation) /\ p.at \in Nat /\ p.block \in DOMAIN bs /\ Len(body) \in Nat
  <2>1. p \in [block: DOMAIN bs, at: Nat] /\ BlocksTyped(bs)
    BY <1>1
  <2>2. p.at \in Nat /\ p.block \in DOMAIN bs
    BY <2>1
  <2>3. bs[p.block] \in BlockRecord
    BY <2>1, <2>2 DEF BlocksTyped
  <2>4. body \in Seq(Operation)
    BY <2>3 DEF BlockRecord
  <2> HIDE DEF body
  <2> QED
    BY <2>2, <2>4
<1>3. Placed(bs, p)
  <2>1. CASE inside
    <3>1. Terminated(body) /\ p.at = Len(body) - 1
      BY <1>1, <2>1 DEF BlockOK
    <3>2. \A i \in DOMAIN body : i \in 1..p.at \/ i = Len(body)
      BY <1>2, <3>1
    <3>3. \A i \in DOMAIN body : i \in 1..p.at \/ body[i].op \in Terminators
      BY <3>1, <3>2 DEF Terminated
    <3>4. p.at \in 0..Len(body)
      BY <1>2, <3>1
    <3> HIDE DEF body
    <3> QED
      BY <1>2, <3>3, <3>4 DEF Placed, body
  <2>2. CASE ~inside
    <3>1. p.at = Len(body) /\ Len(body) \in Nat
      BY <1>1, <1>2, <2>2
    <3>2. \A i \in DOMAIN body : i \in 1..p.at
      BY <1>2, <3>1
    <3>3. p.at \in 0..Len(body)
      BY <1>2, <3>1
    <3> HIDE DEF body
    <3> QED
      BY <1>2, <3>2, <3>3 DEF Placed, body
  <2> QED
    BY <2>1, <2>2
<1>4. ASSUME NEW k \in 1..Len(ls), Scoping(ls[k]) PROVE ls[k].save.block # p.block
  <2>1. LocalOK(bs, ls[k], open[k], Inside(open, k - 1)) /\ k \in 1..Len(open)
    BY DEF Emitting, Locals
  <2>2. open[k] \in ScopedOps
    <3> SUFFICES ASSUME open[k] \notin ScopedOps PROVE FALSE
      OBVIOUS
    <3>1. ls[k] \in [header: Nat, body: Nat, merge: Nat]
      BY <2>1 DEF LocalOK
    <3> QED
      BY <1>4, <3>1 DEF Scoping
  <2>3. Pending(ls[k], open[k]) = {ls[k].save.block}
    BY <2>2 DEF Pending
  <2>4. ~Awaited(p.block, ls, open)
    BY DEF Emitting
  <2> QED
    BY <2>1, <2>3, <2>4 DEF Awaited
<1> QED
  BY <1>1, <1>3, <1>4 DEF Saves

\* What the invariants say there.
LEMMA ShapeHere ==
    ASSUME EmitInv, ShapeInv, codegen = "emitting"
    PROVE  /\ BlocksTyped(blocks) /\ Placed(blocks, ip) /\ ip.block \notin Saves(locals, Len(locals))
           /\ Shaped(blocks) /\ Newest(blocks, ip.block) /\ ip.block \notin blocks[ip.block].within
           /\ ip.block \in DOMAIN blocks /\ blocks[ip.block].within \subseteq DOMAIN blocks
           /\ DOMAIN locals = 1..Len(locals) /\ Len(locals) \in Nat
<1>1. PICK T : Traced(T) /\ Follows(T)
  BY DEF EmitInv
<1>2. Emitting(blocks, ip, locals, T[pos].open)
  BY <1>1 DEF Follows
<1>3. locals \in Seq(AnyLocal)
  BY <1>2 DEF Emitting, Locals
<1>4. BlocksTyped(blocks) /\ Placed(blocks, ip) /\ ip.block \notin Saves(locals, Len(locals))
  BY <1>2, EmittingPlaced
<1>5. Shaped(blocks) /\ Newest(blocks, ip.block) /\ ip.block \in DOMAIN blocks
  BY <1>4 DEF ShapeInv, PlaceShape, Placed
<1>6. ip.block \notin blocks[ip.block].within
  <2>1. \A d \in blocks[ip.block].within : d < ip.block
    BY <1>5 DEF Shaped, BlockShape
  <2>2. ip.block \in Nat
    BY <1>4, <1>5 DEF BlocksTyped
  <2> QED
    BY <2>1, <2>2
<1> QED
  BY <1>3, <1>4, <1>5, <1>6 DEF BlocksTyped

\* What is left for a visit to show: the values it leaves, and the locals above the
\* first n.
LEMMA ShapeNext ==
    ASSUME EmitInv, ShapeInv, codegen = "emitting", codegen' = "emitting",
           Continues(blocks, blocks', ip.block, ip.at), Shaped(blocks'),
           \A i \in DOMAIN opperands' : Defines(blocks', opperands'[i]),
           \A s \in DOMAIN storage' : Defines(blocks', storage'[s]),
           NEW n \in 0..Len(locals), \A k \in 1..n : locals'[k] = locals[k],
           \A k \in DOMAIN locals' : k \in 1..n \/ LocalShape(blocks', locals', k),
           PlaceShape(blocks', locals', Len(locals'), ip'.block)
    PROVE  ShapeInv'
<1>1. /\ BlocksTyped(blocks) /\ ip.block \notin Saves(locals, Len(locals))
      /\ DOMAIN locals = 1..Len(locals) /\ Len(locals) \in Nat
  BY ShapeHere
<1>2. Defines(blocks', const_one) /\ Defines(blocks', const_zero)
  BY DefinesKept DEF ShapeInv
<1>3. ASSUME NEW k \in 1..n PROVE LocalShape(blocks', locals', k)
  <2>1. k \in 1..Len(locals) /\ k \in DOMAIN locals /\ \A j \in 1..k : j \in 1..n
    BY <1>1
  <2>2. LocalShape(blocks, locals, k)
    BY <2>1 DEF ShapeInv
  <2> QED
    BY <1>1, <2>1, <2>2, LocalKept
<1>4. \A k \in DOMAIN locals' : LocalShape(blocks', locals', k)
  BY <1>3
<1>5. Defines(blocks, const_one)' /\ Defines(blocks, const_zero)'
  BY <1>2 DEF const_one, const_zero
<1> QED
  BY <1>4, <1>5 DEF ShapeInv

\* Operations without regions.
LEMMA PlainAdded ==
    ASSUME EmitInv, ShapeInv, codegen = "emitting", NEW ops \in Seq(Operation),
           \A j \in DOMAIN ops : Plain(ops[j]), Emit(ops)
    PROVE  /\ Added(blocks, blocks', ip, ops) /\ Continues(blocks, blocks', ip.block, ip.at)
           /\ BlocksTyped(blocks') /\ DOMAIN blocks' = DOMAIN blocks /\ Newest(blocks', ip.block)
           /\ \A v : Defines(blocks, v) => Defines(blocks', v)
           /\ \A j \in DOMAIN ops : ops[j].op \in Giving =>
                  \A type : Defines(blocks', ResultAt(ip, j, type))
<1>1. /\ BlocksTyped(blocks) /\ Placed(blocks, ip) /\ ip.block \notin blocks[ip.block].within
      /\ Newest(blocks, ip.block) /\ ip.block \in DOMAIN blocks
      /\ blocks[ip.block].within \subseteq DOMAIN blocks
  BY ShapeHere
<1>2. blocks' = InsertOps(blocks, ip, ops)
  BY DEF Emit
<1>3. BlocksTyped(blocks') /\ DOMAIN blocks' = DOMAIN blocks
  BY <1>1, <1>2, OpsInserted DEF Placed
<1>4. Added(blocks, blocks', ip, ops)
  BY <1>1, <1>2, <1>3, InsertAdds
<1>5. Continues(blocks, blocks', ip.block, ip.at)
  BY <1>1, <1>4, AddedContinues DEF Plain, NewRegion
<1>6. Newest(blocks', ip.block)
  BY <1>1, <1>5, NewestKept
<1> QED
  BY <1>1, <1>3, <1>4, <1>5, <1>6, AddedDefines, DefinesKept

LEMMA PlainKeepsShape ==
    ASSUME EmitInv, ShapeInv, codegen = "emitting", NEW ops \in Seq(Operation),
           \A j \in DOMAIN ops : Plain(ops[j]), Emit(ops), codegen' = "emitting", locals' = locals,
           \A j \in DOMAIN ops : Supplied(blocks', ops[j]),
           \A i \in DOMAIN opperands' : Defines(blocks', opperands'[i]),
           \A s \in DOMAIN storage' : Defines(blocks', storage'[s])
    PROVE  ShapeInv'
<1> DEFINE c == ip.block
<1>1. /\ BlocksTyped(blocks) /\ Placed(blocks, ip) /\ Shaped(blocks) /\ c \notin Saves(locals, Len(locals))
      /\ c \in DOMAIN blocks /\ DOMAIN locals = 1..Len(locals) /\ Len(locals) \in Nat
  BY ShapeHere
<1>2. /\ Added(blocks, blocks', ip, ops) /\ Continues(blocks, blocks', c, ip.at)
      /\ BlocksTyped(blocks') /\ DOMAIN blocks' = DOMAIN blocks /\ Newest(blocks', c)
  BY PlainAdded
<1>3. \A j \in DOMAIN ops : OpShape(blocks', c, ops[j])
  BY <1>1, <1>2, PlainShape
<1>4. Shaped(blocks')
  BY <1>1, <1>2, <1>3, AddedShaped
<1>5. PlaceShape(blocks', locals', Len(locals'), c)
  <2>1. PlaceShape(blocks, locals, Len(locals), c)
    BY DEF ShapeInv
  <2> QED
    BY <1>1, <1>2, <2>1, PlaceKept
<1>6. ip'.block = c
  BY DEF Emit, After
<1>7. Len(locals) \in 0..Len(locals)
  BY <1>1
<1> HIDE DEF c
<1> QED
  BY <1>1, <1>2, <1>4, <1>5, <1>6, <1>7, ShapeNext DEF c

\* Operations with one, two or three operands.
LEMMA FewSupplied ==
    ASSUME NEW bs, NEW op, NEW text, NEW to, NEW x, Defines(bs, x)
    PROVE  /\ Supplied(bs, Op(op, text, <<x>>, to))
           /\ \A y : Defines(bs, y) => Supplied(bs, Op(op, text, <<x, y>>, to))
           /\ \A y, z : Defines(bs, y) /\ Defines(bs, z) => Supplied(bs, Op(op, text, <<x, y, z>>, to))
<1>1. \A args : Op(op, text, args, to).args = args
  BY DEF Op
<1>2. \A args : (\A k \in DOMAIN args : Defines(bs, args[k])) => Supplied(bs, Op(op, text, args, to))
  BY <1>1 DEF Supplied
<1>3. \A k \in DOMAIN <<x>> : Defines(bs, <<x>>[k])
  OBVIOUS
<1>4. \A y : Defines(bs, y) => \A k \in DOMAIN <<x, y>> : Defines(bs, <<x, y>>[k])
  OBVIOUS
<1>5. \A y, z : Defines(bs, y) /\ Defines(bs, z) =>
                   \A k \in DOMAIN <<x, y, z>> : Defines(bs, <<x, y, z>>[k])
  OBVIOUS
<1> QED
  BY <1>2, <1>3, <1>4, <1>5

LEMMA NoneSupplied == ASSUME NEW bs, NEW op, NEW text, NEW to PROVE Supplied(bs, Op(op, text, <<>>, to))
  BY DEF Supplied, Op

----------------------------------------------------------------------------
\* The visits that add operations without a region.
ShapeReady == /\ DefRefInv /\ VisitsInv /\ ReplayInv /\ EmitInv /\ ShapeInv /\ UNCHANGED defref_vars
There(bs) == {v \in Value(bs) : Defines(bs, v)}

LEMMA OperandsThere ==
    ASSUME ShapeReady, NEW nodes, Visiting(nodes)
    PROVE  /\ EmitInv /\ ShapeInv /\ codegen = "emitting" /\ codegen # "idle"
           /\ opperands \in Seq(There(blocks))
           /\ Arity(ThisVisit.node) = 1 => /\ TopValue \in There(blocks)
                                           /\ Pop(opperands) \in Seq(There(blocks))
           /\ Arity(ThisVisit.node) = 2 => /\ TopValue \in There(blocks)
                                           /\ opperands[Len(opperands) - 1] \in There(blocks)
                                           /\ Pop(Pop(opperands)) \in Seq(There(blocks))
<1> DEFINE S == There(blocks)
<1>1. DefRefInv /\ EmitInv /\ ShapeInv /\ pos \in Nat \ {0} /\ codegen = "emitting" /\ codegen # "idle"
  BY DEF ShapeReady, ReplayInv, Visiting
<1>2. PICK T : Here(T)
  BY <1>1, AtVisit
<1>3. opperands \in Seq(S)
  <2>1. opperands \in Seq(Value(blocks)) /\ \A i \in DOMAIN opperands : Defines(blocks, opperands[i])
    BY <1>1 DEF EmitInv, ShapeInv
  <2>2. Len(opperands) \in Nat /\ \A i \in 1..Len(opperands) : opperands[i] \in S
    BY <2>1 DEF There
  <2> HIDE DEF S
  <2> QED
    BY <2>1, <2>2
<1> HIDE DEF S
<1>4. ASSUME Arity(ThisVisit.node) = 1 PROVE TopValue \in S /\ Pop(opperands) \in Seq(S)
  BY <1>2, <1>3, <1>4, OperandPopped
<1>5. ASSUME Arity(ThisVisit.node) = 2
      PROVE  /\ TopValue \in S /\ opperands[Len(opperands) - 1] \in S
             /\ Pop(Pop(opperands)) \in Seq(S)
  <2> DEFINE s == T[pos]
             t == T[pos + 1]
  <2>1. /\ TraceStep(ast, pos, s, t) /\ s \in Stacks /\ t \in Stacks /\ Matching(opperands, s.refs)
        /\ Consumed(ast[pos]) \in Seq(Type) /\ Arity(ast[pos].node) = 2
    BY <1>2, <1>5, OperandsHere DEF Here
  <2> HIDE DEF s, t
  <2>2. Len(opperands) >= 2
    BY <1>3, <2>1, OperandsTaken
  <2>3. Len(opperands) \in Nat /\ Len(opperands) - 1 \in 1..Len(opperands)
        /\ Len(opperands) \in 1..Len(opperands)
    BY <1>3, <2>2
  <2>4. Pop(Pop(opperands)) \in Seq(S)
    BY <1>3, <2>2, StackedTwo
  <2> QED
    BY <1>3, <2>3, <2>4 DEF TopValue, Top
<1> QED
  BY <1>1, <1>3, <1>4, <1>5 DEF S

\* Values that were there, and the result of the one operation that was added.
Since(op, v) == Defines(blocks, v) \/ (op.op \in Giving /\ \E type : v = Result(type))

LEMMA OneKeepsShape ==
    ASSUME EmitInv, ShapeInv, codegen = "emitting", NEW op \in Operation, Plain(op), Supplied(blocks, op),
           Emit(<<op>>), codegen' = "emitting", locals' = locals,
           \A i \in DOMAIN opperands' : Since(op, opperands'[i]),
           \A s \in DOMAIN storage' : Since(op, storage'[s])
    PROVE  ShapeInv'
<1> DEFINE ops == <<op>>
<1>1. ops \in Seq(Operation) /\ ops[1] = op /\ DOMAIN ops = {1}
  OBVIOUS
<1> HIDE DEF ops
<1>2. Emit(ops) /\ \A j \in DOMAIN ops : Plain(ops[j])
  BY <1>1 DEF ops
<1>3. /\ \A v : Defines(blocks, v) => Defines(blocks', v)
      /\ \A j \in DOMAIN ops : ops[j].op \in Giving =>
             \A type : Defines(blocks', ResultAt(ip, j, type))
  BY <1>1, <1>2, PlainAdded
<1>4. op.op \in Giving => \A type : Defines(blocks', Result(type))
  BY <1>1, <1>3 DEF Result
<1>5. \A v : Since(op, v) => Defines(blocks', v)
  BY <1>3, <1>4 DEF Since
<1>6. \A j \in DOMAIN ops : Supplied(blocks', ops[j])
  BY <1>1, <1>3 DEF Supplied
<1> QED
  BY <1>1, <1>2, <1>5, <1>6, PlainKeepsShape

LEMMA StorageThere ==
    ASSUME ShapeInv, codegen = "emitting", NEW symbol, GiveStorage(symbol)
    PROVE  \A s \in DOMAIN storage' : Defines(blocks, storage'[s]) \/ storage'[s] = Result("address")
<1> DEFINE given == [s \in DOMAIN storage \cup {symbol} |->
                        IF s = symbol THEN Result("address") ELSE storage[s]]
<1>1. \A s \in DOMAIN given : given[s] = Result("address") \/ (s \in DOMAIN storage /\ given[s] = storage[s])
  OBVIOUS
<1>2. storage' = given
  BY DEF GiveStorage
<1> HIDE DEF given
<1> QED
  BY <1>1, <1>2 DEF ShapeInv

LEMMA GenDECLKeepsShape == ASSUME ShapeReady, GenDECL PROVE ShapeInv'
<1>1. /\ Visiting({"DECL"}) /\ codegen' = "emitting" /\ locals' = locals /\ opperands' = opperands
      /\ Emit(<<Alloca>>) /\ GiveStorage(<<ThisVisit.scope, ThisVisit.text>>)
  BY DEF GenDECL, Visiting
<1>2. EmitInv /\ ShapeInv /\ codegen = "emitting"
  BY <1>1, OperandsThere
<1>3. Alloca \in Operation /\ Plain(Alloca) /\ Alloca.op \in Giving
  BY AllocaIsOperation DEF Alloca, Op, Plain, Regional, Giving, Terminators
<1>4. Supplied(blocks, Alloca)
  BY <1>2, FewSupplied DEF Alloca, ShapeInv
<1>5. \A i \in DOMAIN opperands' : Since(Alloca, opperands'[i])
  BY <1>1, <1>2 DEF Since, ShapeInv
<1>6. \A s \in DOMAIN storage' : Since(Alloca, storage'[s])
  BY <1>1, <1>2, <1>3, StorageThere DEF Since
<1> QED
  BY <1>1, <1>2, <1>3, <1>4, <1>5, <1>6, OneKeepsShape

LEMMA CrashKeepsShape == ASSUME NEW how \in {"crashed", "threw"}, CrashCodegen(how) PROVE ShapeInv'
  BY DEF CrashCodegen, ShapeInv

LEMMA GenASSIGNKeepsShape == ASSUME ShapeReady, GenASSIGN PROVE ShapeInv'
<1> DEFINE symbol == CgSymbol(ThisVisit.text)
           op == "store"
           store == Op(op, NoText, <<TopValue, storage[symbol]>>, <<>>)
<1>1. Visiting({"ASSIGN"}) /\ ThisVisit.node = "ASSIGN"
  BY DEF GenASSIGN, Visiting
<1>2. CASE symbol \notin DOMAIN storage
  BY <1>2, CrashKeepsShape DEF GenASSIGN
<1>3. CASE symbol \in DOMAIN storage
  <2>1. /\ Emit(<<store>>) /\ opperands' = Pop(opperands)
        /\ UNCHANGED <<storage, locals, codegen>>
    BY <1>3 DEF GenASSIGN, PopOperand
  <2>2. Arity(ThisVisit.node) = 1
    BY <1>1 DEF Arity, Ops, ScopedOps
  <2>3. /\ EmitInv /\ ShapeInv /\ codegen = "emitting" /\ TopValue \in There(blocks)
        /\ Pop(opperands) \in Seq(There(blocks))
    BY <1>1, <2>2, OperandsThere
  <2>4. Defines(blocks, storage[symbol]) /\ Defines(blocks, TopValue) /\ storage[symbol] \in Arg /\ TopValue \in Arg
    BY <1>3, <2>3, OperandsAreArgs DEF ShapeInv, There
  <2>5. op \in Operations /\ op \notin Terminators /\ op \notin Regional /\ NoText \in Text
    BY DEF Operations, Terminators, Regional, Text
  <2> HIDE DEF op, symbol
  <2>6. store \in Operation /\ Plain(store)
    BY <2>4, <2>5, TwoArguments DEF Plain, Op
  <2>7. Supplied(blocks, store)
    BY <2>4, FewSupplied
  <2>8. \A i \in DOMAIN opperands' : Since(store, opperands'[i])
    BY <2>1, <2>3 DEF Since, There
  <2>9. \A s \in DOMAIN storage' : Since(store, storage'[s])
    BY <2>1, <2>3 DEF Since, ShapeInv
  <2> HIDE DEF store
  <2> QED
    BY <2>1, <2>3, <2>6, <2>7, <2>8, <2>9, OneKeepsShape
<1> QED
  BY <1>2, <1>3

LEMMA GenPRINTKeepsShape == ASSUME ShapeReady, GenPRINT PROVE ShapeInv'
<1> DEFINE callee == IF ThisVisit.refs[1] = "int" THEN "printf" ELSE "print_vector"
           print == Op(callee, NoText, <<TopValue>>, <<>>)
<1>1. /\ Visiting({"PRINT"}) /\ ThisVisit.node = "PRINT" /\ Emit(<<print>>) /\ opperands' = Pop(opperands)
      /\ UNCHANGED <<storage, locals, codegen>>
  BY DEF GenPRINT, Visiting, PopOperand
<1>2. Arity(ThisVisit.node) = 1
  BY <1>1 DEF Arity, Ops, ScopedOps
<1>3. /\ EmitInv /\ ShapeInv /\ codegen = "emitting" /\ TopValue \in There(blocks)
      /\ Pop(opperands) \in Seq(There(blocks))
  BY <1>1, <1>2, OperandsThere
<1>4. Defines(blocks, TopValue) /\ TopValue \in Arg
  BY <1>3, OperandsAreArgs DEF There
<1>5. callee \in Operations /\ callee \notin Terminators /\ callee \notin Regional /\ NoText \in Text
  <2>1. callee = "printf" \/ callee = "print_vector"
    OBVIOUS
  <2> HIDE DEF callee
  <2> QED
    BY <2>1 DEF Operations, Terminators, Regional, Text
<1> HIDE DEF callee
<1>6. print \in Operation /\ Plain(print)
  <2>1. <<print>> \in Seq(Operation)
    BY <1>4, <1>5, OneArgument
  <2>2. print.op = callee
    BY DEF Op
  <2> HIDE DEF print
  <2>3. <<print>>[1] = print /\ 1 \in DOMAIN <<print>>
    OBVIOUS
  <2>4. print \in Operation
    BY <2>1, <2>3
  <2> QED
    BY <1>5, <2>2, <2>4 DEF Plain
<1>7. Supplied(blocks, print)
  BY <1>4, FewSupplied
<1>8. \A i \in DOMAIN opperands' : Since(print, opperands'[i])
  BY <1>1, <1>3 DEF Since, There
<1>9. \A s \in DOMAIN storage' : Since(print, storage'[s])
  BY <1>1, <1>3 DEF Since, ShapeInv
<1> HIDE DEF print
<1> QED
  BY <1>1, <1>3, <1>6, <1>7, <1>8, <1>9, OneKeepsShape

\* An operation whose result is pushed.
LEMMA PushKeepsShape ==
    ASSUME EmitInv, ShapeInv, codegen = "emitting", NEW op \in Operation, Plain(op), Supplied(blocks, op),
           op.op \in Giving, Emit(<<op>>), UNCHANGED <<storage, locals, codegen>>,
           NEW type, opperands' = Append(opperands, Result(type)), opperands \in Seq(There(blocks))
    PROVE  ShapeInv'
<1>1. \A i \in DOMAIN opperands' : Since(op, opperands'[i])
  <2> DEFINE v == Result(type)
             n == Len(opperands)
  <2>1. Since(op, v) /\ \A i \in DOMAIN opperands : Since(op, opperands[i])
    BY DEF Since, There
  <2> HIDE DEF v
  <2>2. \A i \in DOMAIN Append(opperands, v) : \/ Append(opperands, v)[i] = v
                                               \/ i \in DOMAIN opperands /\ Append(opperands, v)[i] = opperands[i]
    OBVIOUS
  <2> QED
    BY <2>1, <2>2 DEF v
<1>2. \A s \in DOMAIN storage' : Since(op, storage'[s])
  BY DEF Since, ShapeInv
<1> QED
  BY <1>1, <1>2, OneKeepsShape

LEMMA GenIDKeepsShape == ASSUME ShapeReady, GenID PROVE ShapeInv'
<1> DEFINE symbol == CgSymbol(ThisVisit.text)
           type == ResolvedSymbol(scopes, cg_scope, ThisVisit.text).type
           op == "load"
           load == Op(op, type, <<storage[symbol]>>, <<>>)
<1>1. Visiting({"ID"}) /\ ThisVisit.node = "ID"
  BY DEF GenID, Visiting
<1>2. CASE symbol \notin DOMAIN storage
  BY <1>2, CrashKeepsShape DEF GenID
<1>3. CASE symbol \in DOMAIN storage
  <2>1. /\ Emit(<<load>>) /\ opperands' = Append(opperands, Result(type))
        /\ UNCHANGED <<storage, locals, codegen>>
    BY <1>3 DEF GenID
  <2>2. EmitInv /\ ShapeInv /\ codegen = "emitting" /\ opperands \in Seq(There(blocks))
    BY <1>1, OperandsThere
  <2>3. type \in Type
    <3>1. DefRefInv /\ VisitsInv /\ ReplayInv /\ EmitInv /\ pos \in Nat \ {0} /\ HasStorage
      BY <1>3 DEF ShapeReady, ReplayInv, HasStorage
    <3>2. PICK T : Here(T)
      BY <1>1, <3>1, AtVisit
    <3> QED
      BY <1>1, <3>1, <3>2, TypeOfID
  <2>4. storage[symbol] \in Arg /\ Defines(blocks, storage[symbol])
    BY <1>3, <2>2, OperandsAreArgs DEF ShapeInv
  <2>5. /\ op \in Operations /\ op \notin Terminators /\ op \notin Regional /\ op \in Giving
        /\ type \in Text \cup Type \cup Ops
    BY <2>3 DEF Operations, Terminators, Regional, Giving
  <2> HIDE DEF op, symbol, type
  <2>6. load \in Operation /\ load.op = op
    <3> DEFINE args == <<storage[symbol]>>
               to == <<>>
    <3>1. args \in Seq(Arg) /\ to \in Seq(Nat)
      BY <2>4
    <3> HIDE DEF args, to
    <3>2. Op(op, type, args, to) \in Operation /\ Op(op, type, args, to).op = op
      BY <2>5, <3>1, AnOperation
    <3> QED
      BY <3>2 DEF args, to
  <2>7. Plain(load) /\ Supplied(blocks, load) /\ load.op \in Giving
    BY <2>4, <2>5, <2>6, FewSupplied DEF Plain
  <2> HIDE DEF load
  <2> QED
    BY <2>1, <2>2, <2>6, <2>7, PushKeepsShape
<1> QED
  BY <1>2, <1>3

LEMMA GenINTKeepsShape == ASSUME ShapeReady, GenINT PROVE ShapeInv'
<1> DEFINE text == ThisVisit.text
           op == "constant"
           none == <<>>
           constant == Op(op, text, none, none)
<1>1. Visiting({"INT"})
  BY DEF GenINT
<1>2. CASE text \notin IntLiteral
  BY <1>2, CrashKeepsShape DEF GenINT
<1>3. CASE text \in IntLiteral
  <2>1. /\ Emit(<<constant>>) /\ opperands' = Append(opperands, Result("int"))
        /\ UNCHANGED <<storage, locals, codegen>>
    BY <1>3 DEF GenINT
  <2>2. EmitInv /\ ShapeInv /\ codegen = "emitting" /\ opperands \in Seq(There(blocks))
    BY <1>1, OperandsThere
  <2>3. text \in Text \cup Type \cup Ops
    <3>1. DefRefInv /\ EmitInv /\ pos \in Nat \ {0}
      BY DEF ShapeReady, ReplayInv
    <3>2. PICK T : Here(T)
      BY <1>1, <3>1, AtVisit
    <3> QED
      BY <3>2 DEF Here, Visit
  <2>4. /\ op \in Operations /\ op \notin Terminators /\ op \notin Regional /\ op \in Giving
        /\ none \in Seq(Arg) /\ none \in Seq(Nat)
    BY DEF Operations, Terminators, Regional, Giving
  <2>5. Supplied(blocks, constant)
    BY NoneSupplied
  <2> HIDE DEF op, text, none
  <2>6. constant \in Operation /\ constant.op = op
    BY <2>3, <2>4, AnOperation
  <2>7. Plain(constant) /\ constant.op \in Giving
    BY <2>4, <2>6 DEF Plain
  <2> HIDE DEF constant
  <2> QED
    BY <2>1, <2>2, <2>5, <2>6, <2>7, PushKeepsShape
<1> QED
  BY <1>2, <1>3

LEMMA GenBLOCKKeepsShape == ASSUME ShapeInv, GenBLOCK PROVE ShapeInv'
<1>1. UNCHANGED <<opperands, storage, blocks, ip, locals, codegen>>
  BY DEF GenBLOCK
<1> QED
  BY <1>1 DEF ShapeInv, LocalShape, const_one, const_zero

\* The calls of an operation: their operands are the two that were popped and results
\* of the calls before.
LEMMA CallsAreFine ==
    ASSUME NEW bs, NEW op \in Ops, NEW l, NEW r, NEW left, Defines(bs, left), NEW right, Defines(bs, right),
           LET ops == Calls(op, l, r, left, right)
           IN  \A j \in DOMAIN ops : \A type : Defines(bs, ResultAt(ip, j, type))
    PROVE  LET ops == Calls(op, l, r, left, right)
           IN  \A j \in DOMAIN ops : Supplied(bs, ops[j])
<1> DEFINE int == IF l = "int" THEN left ELSE right
           vector == IF l = "int" THEN right ELSE left
           promoted == ResultAt(ip, 2, "vector")
           size == Op("size", NoText, <<vector>>, <<>>)
           convert == Op("int_to_vector", NoText, <<Result("int"), int>>, <<>>)
           call == Op(Callee(op, l, r), op, IF l = "int" THEN <<promoted, vector>>
                                                         ELSE <<vector, promoted>>, <<>>)
           direct == Op(Callee(op, l, r), op, <<left, right>>, <<>>)
           three == <<size, convert, call>>
           ops == Calls(op, l, r, left, right)
<1>1. Defines(bs, int) /\ Defines(bs, vector)
  OBVIOUS
<1>2. ops = IF op \in {"ARITH", "BOOL"} /\ l # r THEN three ELSE <<direct>>
  BY DEF Calls
<1>3. \A j \in DOMAIN ops : \A type : Defines(bs, ResultAt(ip, j, type))
  OBVIOUS
<1>4. CASE op \in {"ARITH", "BOOL"} /\ l # r
  <2>1. three[1] = size /\ three[2] = convert /\ three[3] = call /\ DOMAIN three = 1..3
    OBVIOUS
  <2>2. ops = three
    BY <1>2, <1>4
  <2> HIDE DEF ops, size, convert, call, three, int, vector, promoted
  <2>3. 1 \in DOMAIN ops /\ 2 \in DOMAIN ops
    BY <2>1, <2>2
  <2>4. Defines(bs, Result("int")) /\ Defines(bs, promoted)
    BY <1>3, <2>3 DEF Result, promoted
  <2>5. Supplied(bs, size)
    BY <1>1, FewSupplied DEF size
  <2>6. Supplied(bs, convert)
    BY <1>1, <2>4, FewSupplied DEF convert
  <2>7. Supplied(bs, call)
    <3>1. CASE l = "int"
      BY <1>1, <2>4, <3>1, FewSupplied DEF call
    <3>2. CASE l # "int"
      BY <1>1, <2>4, <3>2, FewSupplied DEF call
    <3> QED
      BY <3>1, <3>2
  <2>8. \A j \in DOMAIN ops : j = 1 \/ j = 2 \/ j = 3
    BY <2>1, <2>2
  <2>9. \A j \in DOMAIN ops : Supplied(bs, ops[j])
    BY <2>1, <2>2, <2>5, <2>6, <2>7, <2>8
  <2> QED
    BY <2>9 DEF ops
<1>5. CASE ~(op \in {"ARITH", "BOOL"} /\ l # r)
  <2>1. Supplied(bs, direct)
    BY FewSupplied
  <2>2. ops = <<direct>>
    BY <1>2, <1>5
  <2> HIDE DEF ops, direct
  <2>3. \A j \in DOMAIN ops : Supplied(bs, ops[j])
    BY <2>1, <2>2
  <2> QED
    BY <2>3 DEF ops
<1> QED
  BY <1>4, <1>5

LEMMA CallsGive ==
    ASSUME NEW op \in Ops, NEW l, NEW r, NEW left, NEW right
    PROVE  LET ops == Calls(op, l, r, left, right)
           IN  /\ \A j \in DOMAIN ops : ops[j].op \in Giving
               /\ Len(ops) \in DOMAIN ops
<1> DEFINE int == IF l = "int" THEN left ELSE right
           vector == IF l = "int" THEN right ELSE left
           promoted == ResultAt(ip, 2, "vector")
           size == Op("size", NoText, <<vector>>, <<>>)
           convert == Op("int_to_vector", NoText, <<Result("int"), int>>, <<>>)
           call == Op(Callee(op, l, r), op, IF l = "int" THEN <<promoted, vector>>
                                                         ELSE <<vector, promoted>>, <<>>)
           direct == Op(Callee(op, l, r), op, <<left, right>>, <<>>)
           three == <<size, convert, call>>
           one == <<direct>>
           ops == Calls(op, l, r, left, right)
<1>1. ops = IF op \in {"ARITH", "BOOL"} /\ l # r THEN three ELSE one
  BY DEF Calls
<1>2. Callee(op, l, r) \in Giving
  BY DEF Callee, Giving, Ops
<1>3. size.op \in Giving /\ convert.op \in Giving /\ call.op \in Giving /\ direct.op \in Giving
  BY <1>2 DEF Op, Giving
<1> HIDE DEF size, convert, call, direct, ops
<1>4. /\ \A j \in DOMAIN three : three[j] = size \/ three[j] = convert \/ three[j] = call
      /\ Len(three) \in DOMAIN three /\ Len(one) \in DOMAIN one /\ \A j \in DOMAIN one : one[j] = direct
  OBVIOUS
<1> HIDE DEF three, one
<1>5. (\A j \in DOMAIN ops : ops[j].op \in Giving) /\ Len(ops) \in DOMAIN ops
  BY <1>1, <1>3, <1>4
<1> QED
  BY <1>5 DEF ops

LEMMA GenOpKeepsShape == ASSUME ShapeReady, GenOp PROVE ShapeInv'
<1> DEFINE right == TopValue
           left == opperands[Len(opperands) - 1]
           l == ThisVisit.refs[1]
           r == ThisVisit.refs[2]
           op == ThisVisit.node
           callee == Callee(op, l, r)
           ops == Calls(op, l, r, left, right)
           v == ResultAt(ip, Len(ops), Returns(callee))
           rest == Pop(Pop(opperands))
<1>1. /\ Visiting(Ops) /\ op \in Ops /\ Emit(ops) /\ opperands' = Append(rest, v)
      /\ UNCHANGED <<storage, locals, codegen>>
  BY DEF GenOp, Visiting
<1>2. Arity(op) = 2
  BY <1>1 DEF Arity
<1>3. /\ EmitInv /\ ShapeInv /\ codegen = "emitting" /\ codegen # "idle" /\ left \in There(blocks)
      /\ right \in There(blocks) /\ rest \in Seq(There(blocks))
  BY <1>1, <1>2, OperandsThere
<1> HIDE DEF left, right, rest, l, r, op, callee
<1>4. Defines(blocks, left) /\ Defines(blocks, right) /\ left \in Arg /\ right \in Arg
  BY <1>3, OperandsAreArgs DEF There
<1>5. ops \in Seq(Operation)
  BY <1>1, <1>3, <1>4, CallsAreStraight
<1>6. (\A j \in DOMAIN ops : ops[j].op \in Giving) /\ Len(ops) \in DOMAIN ops
  BY <1>1, CallsGive
<1>7. \A j \in DOMAIN ops : Plain(ops[j])
  BY <1>6, GivingIsNoTerminator DEF Plain
<1> HIDE DEF ops
<1>8. /\ \A x : Defines(blocks, x) => Defines(blocks', x)
      /\ \A j \in DOMAIN ops : \A type : Defines(blocks', ResultAt(ip, j, type))
  BY <1>1, <1>3, <1>5, <1>6, <1>7, PlainAdded
<1>9. \A j \in DOMAIN ops : Supplied(blocks', ops[j])
  BY <1>1, <1>4, <1>8, CallsAreFine DEF ops
<1>10. \A i \in DOMAIN opperands' : Defines(blocks', opperands'[i])
  <2>1. Defines(blocks', v) /\ \A i \in DOMAIN rest : Defines(blocks', rest[i])
    BY <1>3, <1>6, <1>8 DEF There
  <2> HIDE DEF v
  <2>2. \A i \in DOMAIN Append(rest, v) : \/ Append(rest, v)[i] = v
                                          \/ i \in DOMAIN rest /\ Append(rest, v)[i] = rest[i]
    BY <1>3
  <2> QED
    BY <1>1, <2>1, <2>2
<1>11. \A s \in DOMAIN storage' : Defines(blocks', storage'[s])
  BY <1>1, <1>3, <1>8 DEF ShapeInv
<1> QED
  BY <1>1, <1>3, <1>5, <1>7, <1>9, <1>10, <1>11, PlainKeepsShape

----------------------------------------------------------------------------
\* The visits that branch.  They are never in a region.
LEMMA OutsideRegions ==
    ASSUME EmitInv, codegen = "emitting", NEW T, Here(T), ThisVisit.node \in Branching
    PROVE  Outer(blocks, ip.block)
<1> DEFINE open == T[pos].open
<1>1. Emitting(blocks, ip, locals, open) /\ NoneScoped(open) /\ open \in Seq(LocalKind)
  BY DEF Here, Follows, TraceStep, Stacks
<1> HIDE DEF open
<1>2. ~Inside(open, Len(open))
  <2>1. Len(open) # 0 => Len(open) \in 1..Len(open)
    BY <1>1
  <2> QED
    BY <1>1, <2>1 DEF NoneScoped, Inside
<1> QED
  BY <1>1, <1>2, EmittingPlaced DEF Outer, Placed

LEMMA BranchAdds ==
    ASSUME EmitInv, ShapeInv, codegen = "emitting", NEW T, Here(T), ThisVisit.node \in Branching,
           NEW op \in Operation, op.op \in Branches, NEW n \in Nat
    PROVE  LET new == BranchTo(op, n)
           IN  /\ Added(blocks, new, ip, <<op>>) /\ Continues(blocks, new, ip.block, ip.at)
               /\ \A b \in (Len(blocks) + 1)..(Len(blocks) + n) : Blank(new, b)
               /\ \A b \in DOMAIN new : b \in DOMAIN blocks \/ Blank(new, b)
<1> DEFINE new == BranchTo(op, n)
           mid == InsertOps(blocks, ip, <<op>>)
           added == [i \in 1..n |-> Block(<<>>, {})]
           ops == <<op>>
<1>1. op.op \in Terminators /\ codegen # "idle" /\ op.op \notin Regional
  BY DEF Branches, Terminators, Regional
<1>2. /\ Suspended(new, (Len(blocks) + 1)..(Len(blocks) + n), locals, T[pos].open)
      /\ Len(new) = Len(blocks) + n /\ DOMAIN blocks \subseteq DOMAIN new
  BY <1>1, BranchEmitted
<1>3. /\ BlocksTyped(blocks) /\ Placed(blocks, ip)
  BY ShapeHere
<1>4. ops \in Seq(Operation) /\ DOMAIN ops = {1} /\ ops[1] = op
  OBVIOUS
<1>5. BlocksTyped(mid) /\ Len(mid) = Len(blocks) /\ DOMAIN mid = DOMAIN blocks
  BY <1>3, <1>4, OpsInserted DEF Placed
<1>6. \A b \in DOMAIN blocks : new[b] = mid[b]
  <2>1. Block(<<>>, {}) \in BlockRecord
    BY DEF Block, BlockRecord
  <2>2. added \in Seq(BlockRecord) /\ mid \in Seq(BlockRecord)
    BY <1>5, <2>1 DEF BlocksTyped
  <2>3. new = mid \o added
    BY DEF BranchTo
  <2> HIDE DEF mid, added, new
  <2>4. \A b \in 1..Len(mid) : new[b] = mid[b]
    BY <2>2, <2>3, Concatenated
  <2>5. DOMAIN blocks = 1..Len(mid)
    BY <1>5, <2>2
  <2> QED
    BY <2>4, <2>5
<1>7. \A b \in (Len(blocks) + 1)..(Len(blocks) + n) : Blank(new, b)
  BY <1>2 DEF Suspended
<1>8. \A b \in DOMAIN new : b \in DOMAIN blocks \/ Blank(new, b)
  <2>1. DOMAIN new = 1..(Len(blocks) + n) /\ DOMAIN blocks = 1..Len(blocks) /\ Len(blocks) \in Nat
    BY <1>2, <1>3 DEF Suspended, BlocksTyped
  <2> HIDE DEF new
  <2> QED
    BY <1>7, <2>1
<1> HIDE DEF new, ops
<1>9. Added(blocks, new, ip, ops)
  BY <1>2, <1>3, <1>4, <1>6, InsertAdds DEF ops
<1>10. Continues(blocks, new, ip.block, ip.at)
  BY <1>1, <1>3, <1>4, <1>9, AddedContinues DEF NewRegion
<1> QED
  BY <1>7, <1>8, <1>9, <1>10 DEF new, ops

LEMMA BranchKeepsShape ==
    ASSUME ShapeReady, NEW nodes, Visiting(nodes), ThisVisit.node \in Branching,
           codegen' = "emitting", NEW op \in Operation, op.op \in Branches, NEW n \in Nat,
           blocks' = BranchTo(op, n), Supplied(blocks, op),
           1 \in DOMAIN op.to, op.op = "cond_br" => 2 \in DOMAIN op.to,
           \A k \in DOMAIN op.to : Outer(blocks', op.to[k]),
           \A i \in DOMAIN opperands' : Defines(blocks, opperands'[i]), storage' = storage,
           Outer(blocks', ip'.block),
           NEW m \in 0..Len(locals), \A k \in 1..m : locals'[k] = locals[k],
           \A k \in DOMAIN locals' : k \in 1..m \/ LocalShape(blocks', locals', k)
    PROVE  ShapeInv'
<1> DEFINE c == ip.block
           ops == <<op>>
<1>1. DefRefInv /\ EmitInv /\ ShapeInv /\ pos \in Nat \ {0} /\ codegen = "emitting"
  BY DEF ShapeReady, ReplayInv, Visiting
<1>2. PICK T : Here(T)
  BY <1>1, AtVisit
<1>3. Outer(blocks, c)
  BY <1>1, <1>2, OutsideRegions
<1>4. /\ Added(blocks, blocks', ip, ops) /\ Continues(blocks, blocks', c, ip.at)
      /\ \A b \in DOMAIN blocks' : b \in DOMAIN blocks \/ Blank(blocks', b)
  BY <1>1, <1>2, BranchAdds
<1>5. BlocksTyped(blocks) /\ Placed(blocks, ip) /\ Shaped(blocks)
  BY <1>1, ShapeHere
<1>6. ops \in Seq(Operation) /\ DOMAIN ops = {1} /\ ops[1] = op
  OBVIOUS
<1>7. blocks'[c].within = {} /\ \A b : blocks'[b].within = {} => Newest(blocks', b)
  BY <1>3, <1>4, OuterKept DEF Outer, Newest
<1>8. OpShape(blocks', c, op)
  <2>1. \A k \in DOMAIN op.args : ArgShape(blocks', c, op.args[k])
    BY <1>4, <1>7, DefinesKept DEF Supplied, ArgShape
  <2>2. op.op \notin Regional /\ op.op # "yield"
    BY DEF Branches, Regional
  <2> QED
    BY <1>7, <2>1, <2>2 DEF OpShape, Outer
<1>9. \A b \in DOMAIN blocks' : b \in DOMAIN blocks \/ BlockShape(blocks', b)
  <2> SUFFICES ASSUME NEW b \in DOMAIN blocks', Blank(blocks', b) PROVE BlockShape(blocks', b)
    BY <1>4
  <2>1. blocks'[b].within = {} /\ blocks'[b].body = <<>>
    BY DEF Blank, Block
  <2> QED
    BY <2>1 DEF BlockShape
<1> HIDE DEF c, ops
<1>10. \A j \in DOMAIN ops : OpShape(blocks', c, ops[j])
  BY <1>6, <1>8
<1>11. Shaped(blocks')
  BY <1>4, <1>5, <1>6, <1>9, <1>10, AddedShaped DEF c
<1>12. PlaceShape(blocks', locals', Len(locals'), ip'.block)
  BY <1>7 DEF PlaceShape, Outer
<1>13. /\ \A i \in DOMAIN opperands' : Defines(blocks', opperands'[i])
       /\ \A s \in DOMAIN storage' : Defines(blocks', storage'[s])
  BY <1>1, <1>4, DefinesKept DEF ShapeInv
<1> QED
  BY <1>1, <1>4, <1>11, <1>12, <1>13, ShapeNext DEF c

LEMMA Pushed1 ==
    ASSUME NEW S, NEW s \in Seq(S), NEW x
    PROVE  /\ DOMAIN Append(s, x) = 1..(Len(s) + 1) /\ Append(s, x)[Len(s) + 1] = x
           /\ \A k \in 1..Len(s) : Append(s, x)[k] = s[k]
           /\ \A k \in DOMAIN Append(s, x) : k \in 1..Len(s) \/ Append(s, x)[k] = x
           /\ Len(s) \in 0..Len(s) /\ Len(Append(s, x)) = Len(s) + 1
  OBVIOUS

LEMMA Popped1 ==
    ASSUME NEW S, NEW s \in Seq(S), s # <<>>
    PROVE  /\ DOMAIN Pop(s) = 1..(Len(s) - 1) /\ Len(Pop(s)) = Len(s) - 1
           /\ \A k \in 1..(Len(s) - 1) : Pop(s)[k] = s[k]
           /\ Len(s) - 1 \in 0..Len(s) /\ Top(s) = s[Len(s)] /\ Len(s) \in Nat \ {0}
  BY DEF Pop, Top

LEMMA BlankIsOuter == \A bs, b : Blank(bs, b) => Outer(bs, b)
  BY DEF Blank, Block, Outer

LEMMA BranchFacts ==
    ASSUME NEW x, Defines(blocks, x), Defines(blocks, const_zero), NEW y, NEW z
    PROVE  /\ CondBr(x, y, z).op = "cond_br" /\ Supplied(blocks, CondBr(x, y, z))
           /\ CondBr(x, y, z).to = <<y, z>>
           /\ Br(y).op = "br" /\ Supplied(blocks, Br(y)) /\ Br(y).to = <<y>>
<1>1. Supplied(blocks, CondBr(x, y, z))
  BY FewSupplied DEF CondBr
<1>2. Supplied(blocks, Br(y))
  BY NoneSupplied DEF Br
<1> QED
  BY <1>1, <1>2 DEF CondBr, Br, Op

LEMMA GenIF_BLOCKKeepsShape == ASSUME ShapeReady, GenIF_BLOCK PROVE ShapeInv'
<1> DEFINE n == Len(blocks)
           op == CondBr(TopValue, n + 1, n + 2)
           l == [header |-> 0, body |-> n + 1, merge |-> n + 2]
<1>1. /\ Visiting({"IF_BODY"}) /\ codegen' = "emitting" /\ ThisVisit.node = "IF_BODY"
      /\ blocks' = BranchTo(op, 2) /\ ip' = StartOf(n + 1) /\ locals' = Append(locals, l)
      /\ opperands' = Pop(opperands) /\ storage' = storage
  BY DEF GenIF_BLOCK, Visiting, PopOperand
<1>2. Arity(ThisVisit.node) = 1 /\ ThisVisit.node \in Branching
  BY <1>1 DEF Arity, Ops, ScopedOps, Branching
<1>3. /\ EmitInv /\ ShapeInv /\ codegen = "emitting" /\ codegen # "idle" /\ TopValue \in There(blocks)
      /\ Pop(opperands) \in Seq(There(blocks)) /\ DefRefInv /\ pos \in Nat \ {0}
  BY <1>1, <1>2, OperandsThere DEF ShapeReady, ReplayInv
<1>4. PICK T : Here(T)
  BY <1>1, <1>3, AtVisit
<1>5. /\ locals \in Seq(AnyLocal) /\ n \in Nat /\ Len(locals) \in Nat /\ DOMAIN locals = 1..Len(locals)
  BY <1>3, <1>4, ShapeHere, PlaceTyped DEF Here, Follows, Emitting, Locals
<1>6. Defines(blocks, TopValue) /\ Defines(blocks, const_zero) /\ TopValue \in Arg
  BY <1>3, OperandsAreArgs DEF There, ShapeInv
<1>7. /\ op \in Operation /\ op.op \in Branches /\ Supplied(blocks, op)
      /\ op.to = <<n + 1, n + 2>>
  BY <1>5, <1>6, BranchFacts, TerminatorIsOperation DEF Branches
<1> HIDE DEF op, n
<1>8. \A b \in (n + 1)..(n + 2) : Outer(blocks', b)
  <2>1. 2 \in Nat
    OBVIOUS
  <2>2. \A b \in (n + 1)..(n + 2) : Blank(blocks', b)
    BY <1>1, <1>2, <1>3, <1>4, <1>7, <2>1, BranchAdds DEF n
  <2> QED
    BY <2>2, BlankIsOuter
<1>9. Outer(blocks', n + 1) /\ Outer(blocks', n + 2)
  BY <1>5, <1>8
<1>10. /\ 1 \in DOMAIN op.to /\ 2 \in DOMAIN op.to /\ \A k \in DOMAIN op.to : Outer(blocks', op.to[k])
  BY <1>7, <1>9
<1>11. Outer(blocks', ip'.block)
  BY <1>1, <1>9 DEF StartOf
<1>12. \A i \in DOMAIN opperands' : Defines(blocks, opperands'[i])
  BY <1>1, <1>3 DEF There
<1>13. Len(locals) \in 0..Len(locals) /\ (\A k \in 1..Len(locals) : locals'[k] = locals[k])
       /\ \A k \in DOMAIN locals' : k \in 1..Len(locals) \/ LocalShape(blocks', locals', k)
  BY <1>1, <1>5, Pushed1 DEF LocalShape, Scoping
<1> QED
  BY <1>1, <1>2, <1>7, <1>10, <1>11, <1>12, <1>13, BranchKeepsShape

LEMMA GenLOOP_BLOCKKeepsShape == ASSUME ShapeReady, GenLOOP_BLOCK PROVE ShapeInv'
<1> DEFINE n == Len(blocks)
           op == Br(n + 1)
           l == [header |-> n + 1, body |-> n + 1 + 1, merge |-> n + 1 + 2]
<1>1. /\ Visiting({"LOOP"}) /\ codegen' = "emitting" /\ ThisVisit.node = "LOOP"
      /\ blocks' = BranchTo(op, 3) /\ ip' = StartOf(n + 1) /\ locals' = Append(locals, l)
      /\ opperands' = opperands /\ storage' = storage
  BY DEF GenLOOP_BLOCK, Visiting
<1>2. ThisVisit.node \in Branching
  BY <1>1 DEF Branching
<1>3. /\ EmitInv /\ ShapeInv /\ codegen = "emitting" /\ codegen # "idle" /\ DefRefInv /\ pos \in Nat \ {0}
  BY <1>1, OperandsThere DEF ShapeReady, ReplayInv
<1>4. PICK T : Here(T)
  BY <1>1, <1>3, AtVisit
<1>5. /\ locals \in Seq(AnyLocal) /\ n \in Nat /\ Len(locals) \in Nat /\ DOMAIN locals = 1..Len(locals)
  BY <1>3, <1>4, ShapeHere, PlaceTyped DEF Here, Follows, Emitting, Locals
<1>6. Defines(blocks, const_zero) /\ const_zero \in Arg
  BY <1>3, OperandsAreArgs DEF ShapeInv
<1>7. /\ op \in Operation /\ op.op \in Branches /\ op.op # "cond_br" /\ Supplied(blocks, op)
      /\ op.to = <<n + 1>>
  BY <1>5, <1>6, BranchFacts, TerminatorIsOperation DEF Branches
<1> HIDE DEF op, n
<1>8. \A b \in (n + 1)..(n + 3) : Outer(blocks', b)
  <2>1. 3 \in Nat
    OBVIOUS
  <2>2. \A b \in (n + 1)..(n + 3) : Blank(blocks', b)
    BY <1>1, <1>2, <1>3, <1>4, <1>7, <2>1, BranchAdds DEF n
  <2> QED
    BY <2>2, BlankIsOuter
<1>9. Outer(blocks', n + 1)
  BY <1>5, <1>8
<1>10. /\ 1 \in DOMAIN op.to /\ \A k \in DOMAIN op.to : Outer(blocks', op.to[k])
  BY <1>7, <1>9
<1>11. Outer(blocks', ip'.block)
  BY <1>1, <1>9 DEF StartOf
<1>12. \A i \in DOMAIN opperands' : Defines(blocks, opperands'[i])
  BY <1>1, <1>3 DEF ShapeInv
<1>13. Len(locals) \in 0..Len(locals) /\ (\A k \in 1..Len(locals) : locals'[k] = locals[k])
       /\ \A k \in DOMAIN locals' : k \in 1..Len(locals) \/ LocalShape(blocks', locals', k)
  BY <1>1, <1>5, <1>9, Pushed1 DEF LocalShape, Scoping
<1> QED
  BY <1>1, <1>2, <1>7, <1>10, <1>11, <1>12, <1>13, BranchKeepsShape

\* The blocks that wait for the end of the statement.
LEMMA TopWaits ==
    ASSUME EmitInv, ShapeInv, codegen = "emitting", NEW T, Here(T), NEW o \in Seq(LocalKind),
           NEW kind \in LocalKind \ ScopedOps, T[pos].open = Append(o, kind)
    PROVE  LET l == Top(locals)
           IN  /\ locals \in Seq(AnyLocal) /\ locals # <<>>
               /\ l \in [header: Nat, body: Nat, merge: Nat] /\ Outer(blocks, l.merge)
               /\ kind = "LOOP" => Outer(blocks, l.body)
               /\ kind # "IF" => Outer(blocks, l.header)
<1> DEFINE l == Top(locals)
           n == Len(locals)
<1>1. Locals(blocks, locals, Append(o, kind))
  BY DEF Here, Follows, Emitting
<1>2. /\ locals # <<>> /\ LocalOK(blocks, l, kind, Inside(o, Len(o))) /\ locals \in Seq(AnyLocal)
  <2>1. kind \in LocalKind
    OBVIOUS
  <2>2. locals # <<>> /\ LocalOK(blocks, l, kind, Inside(o, Len(o)))
    BY <1>1, <2>1, LocalsPop
  <2> QED
    BY <1>1, <2>2 DEF Locals
<1>3. /\ l \in [header: Nat, body: Nat, merge: Nat] /\ Blank(blocks, l.merge)
      /\ kind = "LOOP" => Blank(blocks, l.body)
      /\ kind # "IF" => l.header # 0
  BY <1>2 DEF LocalOK
<1>4. n \in DOMAIN locals /\ l = locals[n]
  BY <1>2 DEF Top
<1> HIDE DEF l, n
<1>5. LocalShape(blocks, locals, n) /\ ~Scoping(locals[n])
  BY <1>3, <1>4 DEF ShapeInv, Scoping
<1>6. l.header # 0 => Outer(blocks, l.header)
  BY <1>4, <1>5 DEF LocalShape
<1> QED
  BY <1>2, <1>3, <1>6 DEF l, Blank, Block, Outer

LEMMA GenLoopBodyKeepsShape == ASSUME ShapeReady, GenLoopBody PROVE ShapeInv'
<1> DEFINE l == Top(locals)
           op == CondBr(TopValue, l.body, l.merge)
           kind == "LOOP"
<1>1. /\ Visiting({"LOOP_BODY"}) /\ codegen' = "emitting" /\ ThisVisit.node = "LOOP_BODY"
      /\ blocks' = BranchTo(op, 0) /\ ip' = StartOf(l.body) /\ locals' = locals
      /\ opperands' = Pop(opperands) /\ storage' = storage
  BY DEF GenLoopBody, Visiting, PopOperand
<1>2. Arity(ThisVisit.node) = 1 /\ ThisVisit.node \in Branching /\ kind \in LocalKind \ ScopedOps
  BY <1>1 DEF Arity, Ops, ScopedOps, Branching, LocalKind
<1>3. /\ EmitInv /\ ShapeInv /\ codegen = "emitting" /\ codegen # "idle" /\ TopValue \in There(blocks)
      /\ Pop(opperands) \in Seq(There(blocks)) /\ DefRefInv /\ pos \in Nat \ {0}
  BY <1>1, <1>2, OperandsThere DEF ShapeReady, ReplayInv
<1>4. PICK T : Here(T)
  BY <1>1, <1>3, AtVisit
<1>5. PICK o \in Seq(LocalKind) : T[pos].open = Append(o, kind)
  BY <1>1, <1>4 DEF Here, TraceStep, Opened
<1>6. /\ locals \in Seq(AnyLocal) /\ l \in [header: Nat, body: Nat, merge: Nat]
      /\ Outer(blocks, l.merge) /\ Outer(blocks, l.body) /\ Len(locals) \in Nat
  BY <1>2, <1>3, <1>4, <1>5, TopWaits
<1> HIDE DEF l
<1>7. Defines(blocks, TopValue) /\ Defines(blocks, const_zero) /\ TopValue \in Arg
  BY <1>3, OperandsAreArgs DEF There, ShapeInv
<1>8. /\ op \in Operation /\ op.op \in Branches /\ Supplied(blocks, op)
      /\ op.to = <<l.body, l.merge>>
  BY <1>6, <1>7, BranchFacts, TerminatorIsOperation DEF Branches
<1> HIDE DEF op
<1>9. Outer(blocks', l.body) /\ Outer(blocks', l.merge)
  <2>1. Continues(blocks, blocks', ip.block, ip.at)
    BY <1>1, <1>2, <1>3, <1>4, <1>8, BranchAdds
  <2> QED
    BY <1>6, <2>1, OuterKept
<1>10. /\ 1 \in DOMAIN op.to /\ 2 \in DOMAIN op.to /\ \A k \in DOMAIN op.to : Outer(blocks', op.to[k])
  BY <1>8, <1>9
<1>11. Outer(blocks', ip'.block)
  BY <1>1, <1>9 DEF StartOf
<1>12. \A i \in DOMAIN opperands' : Defines(blocks, opperands'[i])
  BY <1>1, <1>3 DEF There
<1>13. Len(locals) \in 0..Len(locals) /\ (\A k \in 1..Len(locals) : locals'[k] = locals[k])
       /\ \A k \in DOMAIN locals' : k \in 1..Len(locals)
  BY <1>1, <1>6
<1> QED
  BY <1>1, <1>2, <1>8, <1>10, <1>11, <1>12, <1>13, BranchKeepsShape

LEMMA MergeKeepsShape ==
    ASSUME ShapeReady, NEW node \in {"IF_END", "LOOP_END"}, Visiting({node}),
           LET l == Top(locals)
           IN  /\ blocks' = BranchTo(Br(IF node = "IF_END" THEN l.merge ELSE l.header), 0)
               /\ ip' = StartOf(l.merge),
           locals' = Pop(locals), UNCHANGED <<opperands, storage, codegen>>
    PROVE  ShapeInv'
<1> DEFINE l == Top(locals)
           to == IF node = "IF_END" THEN l.merge ELSE l.header
           op == Br(to)
           kind == KindOf(node)
<1>1. /\ codegen' = "emitting" /\ ThisVisit.node = node /\ blocks' = BranchTo(op, 0)
      /\ ip' = StartOf(l.merge) /\ locals' = Pop(locals) /\ opperands' = opperands /\ storage' = storage
  BY DEF Visiting
<1>2. /\ node \in Branching /\ node \in Closing /\ kind \in LocalKind \ ScopedOps
      /\ node = "LOOP_END" => kind # "IF"
  <2>1. node = "IF_END" \/ node = "LOOP_END"
    OBVIOUS
  <2>2. kind = IF node = "IF_END" THEN "IF" ELSE "LOOP_BODY"
    BY <2>1 DEF KindOf
  <2> HIDE DEF kind
  <2> QED
    BY <2>1, <2>2 DEF ScopedOps, LocalKind, Branching, Closing
<1> HIDE DEF kind
<1>3. /\ EmitInv /\ ShapeInv /\ codegen = "emitting" /\ codegen # "idle" /\ DefRefInv /\ pos \in Nat \ {0}
  BY <1>1, OperandsThere DEF ShapeReady, ReplayInv
<1>4. PICK T : Here(T)
  BY <1>1, <1>3, AtVisit
<1> DEFINE o == T[pos + 1].open
<1>5. T[pos].open = Append(o, kind) /\ o \in Seq(LocalKind)
  BY <1>1, <1>2, <1>4 DEF Here, TraceStep, Opened, Stacks, kind
<1> HIDE DEF o
<1>6. /\ locals \in Seq(AnyLocal) /\ locals # <<>> /\ l \in [header: Nat, body: Nat, merge: Nat]
      /\ Outer(blocks, l.merge) /\ Outer(blocks, to) /\ to \in Nat
  BY <1>2, <1>3, <1>4, <1>5, TopWaits
<1> HIDE DEF l, to
<1>7. Defines(blocks, const_zero) /\ const_zero \in Arg
  BY <1>3, OperandsAreArgs DEF ShapeInv
<1>8. /\ op \in Operation /\ op.op \in Branches /\ op.op # "cond_br" /\ Supplied(blocks, op) /\ op.to = <<to>>
  BY <1>6, <1>7, BranchFacts, TerminatorIsOperation DEF Branches
<1> HIDE DEF op
<1>9. Outer(blocks', to) /\ Outer(blocks', l.merge)
  <2>1. Continues(blocks, blocks', ip.block, ip.at)
    BY <1>1, <1>2, <1>3, <1>4, <1>8, BranchAdds
  <2> QED
    BY <1>6, <2>1, OuterKept
<1>10. /\ 1 \in DOMAIN op.to /\ \A k \in DOMAIN op.to : Outer(blocks', op.to[k])
  BY <1>8, <1>9
<1>11. Outer(blocks', ip'.block)
  BY <1>1, <1>9 DEF StartOf
<1>12. \A i \in DOMAIN opperands' : Defines(blocks, opperands'[i])
  BY <1>1, <1>3 DEF ShapeInv
<1> DEFINE m == Len(locals) - 1
<1>13. m \in 0..Len(locals) /\ (\A k \in 1..m : locals'[k] = locals[k])
       /\ \A k \in DOMAIN locals' : k \in 1..m
  BY <1>1, <1>6, Popped1
<1> HIDE DEF m
<1> QED
  BY <1>1, <1>2, <1>8, <1>10, <1>11, <1>12, <1>13, BranchKeepsShape

LEMMA GenEndBranchKeepsShape == ASSUME ShapeReady, GenEndIF_BLOCK \/ GenEndLOOP_BLOCK PROVE ShapeInv'
<1>1. CASE GenEndIF_BLOCK
  BY <1>1, MergeKeepsShape DEF GenEndIF_BLOCK, ResumeAtMerge
<1>2. CASE GenEndLOOP_BLOCK
  BY <1>2, MergeKeepsShape DEF GenEndLOOP_BLOCK, ResumeAtMerge
<1> QED
  BY <1>1, <1>2

----------------------------------------------------------------------------
\* Generators and filters.

\* The region of an operation that was just inserted has everything before it and
\* nothing after it.
LEMMA RegionIsNewest ==
    ASSUME NEW bs, BlocksTyped(bs), Shaped(bs), NEW p, Placed(bs, p), Newest(bs, p.block),
           NEW ops \in Seq(Operation), \A j \in DOMAIN ops : j = Len(ops) \/ ops[j].op \notin Regional,
           NEW new, Added(bs, new, p, ops), NEW region, region \notin DOMAIN bs,
           \A b \in DOMAIN bs : new[b].within = bs[b].within,
           new[region].within = bs[p.block].within \cup {p.block}
    PROVE  Newest(new, region)
<1> DEFINE c == p.block
           w == bs[c].within
<1>1. /\ c \in DOMAIN bs /\ BlockShape(bs, c) /\ w \subseteq DOMAIN bs /\ DOMAIN bs \subseteq Nat
  BY DEF Placed, Shaped, BlocksTyped
<1>2. \A d \in w : d < c
  BY <1>1 DEF BlockShape
<1>3. ASSUME NEW b \in DOMAIN bs, NEW i \in DOMAIN bs[b].body, bs[b].body[i].op \in Regional,
             InRegion(new, bs[b].body[i], region)
      PROVE  /\ Len(bs[b].body[i].to) = 1 /\ bs[b].body[i].to[1] \in {c} \cup w
             /\ b < bs[b].body[i].to[1]
             /\ InRegion(bs, bs[b].body[i], c)
  <2> DEFINE op == bs[b].body[i]
             t == op.to[1]
  <2>1. Len(op.to) = 1 /\ t \in DOMAIN bs /\ bs[t].within = bs[b].within \cup {b}
    BY <1>3 DEF Shaped, BlockShape, OpShape
  <2>2. op.to \in Seq(Nat)
    <3>1. bs[b] \in BlockRecord
      BY DEF BlocksTyped
    <3>2. bs[b].body \in Seq(Operation)
      BY <3>1 DEF BlockRecord
    <3>3. op \in Operation
      BY <3>2
    <3> HIDE DEF op
    <3> QED
      BY <3>3 DEF Operation
  <2> HIDE DEF op
  <2>3. DOMAIN op.to = {1}
    BY <2>1, <2>2
  <2>4. t \in {region} \cup new[region].within
    BY <1>3, <2>3 DEF InRegion, op
  <2>5. t \in {c} \cup w
    BY <2>1, <2>4
  <2>6. b < t
    BY <2>1 DEF Shaped, BlockShape
  <2>7. InRegion(bs, op, c)
    BY <1>3, <2>3, <2>5 DEF InRegion, op
  <2> QED
    BY <2>1, <2>5, <2>6, <2>7 DEF op
<1>4. ASSUME NEW h \in w, NEW i \in DOMAIN new[h].body, NEW j \in DOMAIN new[h].body,
             InRegion(new, new[h].body[i], region), i < j
      PROVE  new[h].body[j].op \notin Giving
  <2>1. h \in DOMAIN bs /\ h # c /\ new[h] = bs[h]
    BY <1>1, <1>2 DEF Added
  <2>2. InRegion(bs, bs[h].body[i], c)
    BY <1>3, <1>4, <2>1 DEF InRegion
  <2> QED
    BY <1>4, <2>1, <2>2 DEF Newest
<1>5. ASSUME NEW i \in DOMAIN new[c].body, NEW j \in DOMAIN new[c].body,
             InRegion(new, new[c].body[i], region), i < j
      PROVE  new[c].body[j].op \notin Giving
  <2> DEFINE old == bs[c].body
             body == new[c].body
             at == p.at
  <2>1. /\ \A k \in 1..at : k \in DOMAIN old /\ body[k] = old[k]
        /\ \A k \in DOMAIN body : /\ k \in Nat
                                  /\ \/ k \in 1..at
                                     \/ \E x \in DOMAIN ops : k = at + x
                                     \/ /\ k > at + Len(ops)
                                        /\ \E x \in DOMAIN old : body[k] = old[x] /\ old[x].op \in Terminators
        /\ \A x \in DOMAIN ops : body[at + x] = ops[x]
    BY AddedBody
  <2>2. body[i].op \in Regional
    BY <1>5 DEF InRegion
  <2>3. at \in Nat /\ Len(ops) \in Nat /\ DOMAIN ops = 1..Len(ops)
    BY DEF Placed
  <2> HIDE DEF old, body, at
  <2>4. i \notin 1..at
    <3> SUFFICES ASSUME i \in 1..at PROVE FALSE
      OBVIOUS
    <3>1. i \in DOMAIN old /\ body[i] = old[i]
      BY <2>1
    <3>2. old[i].to[1] \in {c} \cup w /\ c < old[i].to[1]
      BY <1>1, <1>3, <1>5, <2>2, <3>1 DEF old, body
    <3>3. old[i].to[1] \in Nat /\ c \in Nat
      BY <1>1, <3>2
    <3> QED
      BY <1>2, <3>2, <3>3
  <2>5. i = at + Len(ops)
    <3>1. \A x : x \in Terminators => x \notin Regional
      BY DEF Terminators, Regional
    <3>2. PICK x \in DOMAIN ops : i = at + x
      BY <1>5, <2>1, <2>2, <2>4, <3>1 DEF body
    <3>3. body[i] = ops[x]
      BY <2>1, <3>2
    <3> QED
      BY <2>2, <3>2, <3>3
  <2>6. j > at + Len(ops) /\ j \in DOMAIN body /\ j \in Nat
    BY <1>5, <2>1, <2>3, <2>5 DEF body
  <2>7. \E x \in DOMAIN old : body[j] = old[x] /\ old[x].op \in Terminators
    BY <2>1, <2>3, <2>6
  <2> QED
    BY <2>7, GivingIsNoTerminator DEF body
<1> QED
  BY <1>4, <1>5 DEF Newest

\* The operations of a region: plain ones and the yield.
Inner(bs, op) == (Plain(op) /\ Supplied(bs, op)) \/ (op.op = "yield" /\ op.args = <<>>)

LEMMA InnerShape ==
    ASSUME NEW bs, BlocksTyped(bs), NEW b \in DOMAIN bs, Newest(bs, b), bs[b].within # {}, NEW op,
           Inner(bs, op)
    PROVE  OpShape(bs, b, op)
<1>1. CASE Plain(op) /\ Supplied(bs, op)
  BY <1>1, PlainShape
<1>2. CASE op.op = "yield" /\ op.args = <<>>
  <2>1. op.op \notin Regional /\ op.op \notin Branches /\ op.op \in Terminators
    BY <1>2 DEF Regional, Branches, Terminators
  <2>2. DOMAIN op.args = {}
    BY <1>2
  <2> QED
    BY <1>2, <2>1, <2>2 DEF OpShape
<1> QED
  BY <1>1, <1>2 DEF Inner

\* Plain operations and, at their end, one with a region.
RegionOps(ops, region) ==
    /\ ops \in Seq(Operation) /\ ops # <<>>
    /\ \A j \in DOMAIN ops : j = Len(ops) \/ Plain(ops[j])
    /\ ops[Len(ops)].op \in Regional /\ ops[Len(ops)].to = <<region>>

LEMMA RegionContinues ==
    ASSUME EmitInv, ShapeInv, codegen = "emitting", NEW ops, NEW region, RegionOps(ops, region),
           NEW new, Added(blocks, new, ip, ops), region \notin DOMAIN blocks
    PROVE  Continues(blocks, new, ip.block, ip.at)
<1> DEFINE last == ops[Len(ops)]
<1>1. BlocksTyped(blocks) /\ Placed(blocks, ip)
  BY ShapeHere
<1>2. last.to = <<region>> /\ ops \in Seq(Operation) /\ \A j \in DOMAIN ops : ops[j] = last \/ Plain(ops[j])
  BY DEF RegionOps
<1> HIDE DEF last
<1>3. \A j \in DOMAIN ops : NewRegion(blocks, ops[j])
  BY <1>2 DEF NewRegion, Plain
<1> QED
  BY <1>1, <1>2, <1>3, AddedContinues

LEMMA RegionAdded ==
    ASSUME EmitInv, ShapeInv, codegen = "emitting", NEW ops, NEW region, RegionOps(ops, region),
           NEW new, BlocksTyped(new), Added(blocks, new, ip, ops),
           DOMAIN new = DOMAIN blocks \cup {region}, region \notin DOMAIN blocks,
           \A d \in DOMAIN blocks : d < region,
           new[region].within = blocks[ip.block].within \cup {ip.block},
           \A i \in DOMAIN new[region].body : Inner(new, new[region].body[i]),
           \A j \in DOMAIN ops : Supplied(new, ops[j])
    PROVE  /\ Continues(blocks, new, ip.block, ip.at) /\ Shaped(new)
           /\ Newest(new, region) /\ Newest(new, ip.block)
<1> DEFINE c == ip.block
           w == blocks[c].within
           last == ops[Len(ops)]
<1>1. /\ BlocksTyped(blocks) /\ Placed(blocks, ip) /\ Shaped(blocks) /\ Newest(blocks, c)
      /\ c \notin w /\ c \in DOMAIN blocks /\ w \subseteq DOMAIN blocks
  BY ShapeHere
<1>2. /\ last.op \in Regional /\ last.to = <<region>> /\ ops \in Seq(Operation)
      /\ \A j \in DOMAIN ops : j = Len(ops) \/ Plain(ops[j])
  BY DEF RegionOps
<1>4. Continues(blocks, new, c, ip.at)
  BY RegionContinues
<1>5. \A b \in DOMAIN blocks : new[b].within = blocks[b].within
  BY <1>4 DEF Continues
<1>6. Newest(new, c)
  BY <1>1, <1>4, NewestKept
<1>7. Newest(new, region)
  <2>1. \A j \in DOMAIN ops : j = Len(ops) \/ ops[j].op \notin Regional
    BY <1>2 DEF Plain
  <2> QED
    BY <1>1, <1>2, <1>5, <2>1, RegionIsNewest
<1>8. region \in DOMAIN new /\ c \in DOMAIN new /\ new[c].within = w /\ new[region].within # {}
  BY <1>1, <1>5
<1>9. ASSUME NEW j \in DOMAIN ops PROVE OpShape(new, c, ops[j])
  <2>1. CASE Plain(ops[j])
    BY <1>6, <1>8, <2>1, PlainShape
  <2>2. CASE ops[j] = last
    <3>1. \A k \in DOMAIN last.args : ArgShape(new, c, last.args[k])
      BY <1>6, <1>8, <2>2, NewestIsBefore DEF Supplied
    <3>2. last.op \notin Branches /\ last.op \notin Terminators /\ last.op # "yield"
      BY <1>2 DEF Regional, Branches, Terminators
    <3> HIDE DEF last
    <3>3. Len(last.to) = 1 /\ last.to[1] = region
      BY <1>2
    <3> QED
      BY <1>8, <2>2, <3>1, <3>2, <3>3 DEF OpShape
  <2> QED
    BY <1>2, <2>1, <2>2
<1>10. BlockShape(new, region)
  <2>1. \A d \in new[region].within : d < region
    BY <1>1
  <2>2. \A i \in DOMAIN new[region].body : OpShape(new, region, new[region].body[i])
    BY <1>7, <1>8, InnerShape
  <2> QED
    BY <2>1, <2>2 DEF BlockShape
<1> HIDE DEF c
<1>11. Shaped(new)
  BY <1>1, <1>2, <1>4, <1>9, <1>10, AddedShaped DEF c
<1> QED
  BY <1>4, <1>6, <1>7, <1>11 DEF c

LEMMA AheadOps ==
    ASSUME NEW node, NEW domain, NEW region
    PROVE  LET ahead == AheadOfLoop(node, domain, region)
               size == ResultAt(ip, 2, "int")
               n == Len(ahead)
           IN  /\ n \in {4, 5} /\ DOMAIN ahead = 1..n
               /\ ahead[1] = Alloca
               /\ ahead[2] = Op("size", NoText, <<domain>>, <<>>)
               /\ ahead[3] = Op("new_vector", NoText, <<size>>, <<>>)
               /\ n = 5 => ahead[4] = Op("empty", NoText, <<ResultAt(ip, 3, "vector"), const_zero>>, <<>>)
               /\ ahead[n] = Op("for", NoText, <<const_zero, size, const_one>>, <<region>>)
<1> DEFINE size == ResultAt(ip, 2, "int")
           a == Alloca
           b == Op("size", NoText, <<domain>>, <<>>)
           d == Op("new_vector", NoText, <<size>>, <<>>)
           e == Op("empty", NoText, <<ResultAt(ip, 3, "vector"), const_zero>>, <<>>)
           f == Op("for", NoText, <<const_zero, size, const_one>>, <<region>>)
           ahead == AheadOfLoop(node, domain, region)
<1>1. ahead = <<a, b, d>> \o (IF node = "FILTER" THEN <<e>> ELSE <<>>) \o <<f>>
  BY DEF AheadOfLoop
<1> HIDE DEF a, b, d, e, f, ahead
<1> DEFINE S == {a, b, d, e, f}
<1>2. \A x, y, z \in S : LET t == <<x, y, z>> IN /\ t \in Seq(S) /\ Len(t) = 3
                                                /\ t[1] = x /\ t[2] = y /\ t[3] = z
  OBVIOUS
<1>3. \A x \in S : LET t == <<x>> IN t \in Seq(S) /\ Len(t) = 1 /\ t[1] = x
  OBVIOUS
<1>4. LET t == <<>> IN t \in Seq(S) /\ Len(t) = 0
  OBVIOUS
<1>5. a \in S /\ b \in S /\ d \in S /\ e \in S /\ f \in S
  OBVIOUS
<1> HIDE DEF S
<1> DEFINE three == <<a, b, d>>
           reset == IF node = "FILTER" THEN <<e>> ELSE <<>>
           loop == <<f>>
           mid == three \o reset
<1>6. three \in Seq(S) /\ Len(three) = 3 /\ three[1] = a /\ three[2] = b /\ three[3] = d
  BY <1>2, <1>5
<1>7. loop \in Seq(S) /\ Len(loop) = 1 /\ loop[1] = f
  BY <1>3, <1>5
<1>8. reset \in Seq(S) /\ (Len(reset) = 0 \/ (Len(reset) = 1 /\ reset[1] = e))
  BY <1>3, <1>4, <1>5
<1>9. ahead = mid \o loop
  BY <1>1
<1> HIDE DEF three, reset, loop
<1>10. /\ mid \in Seq(S) /\ Len(mid) = Len(three) + Len(reset)
       /\ \A i \in 1..Len(three) : mid[i] = three[i]
       /\ \A i \in 1..Len(reset) : mid[Len(three) + i] = reset[i]
  <2>1. mid \in Seq(S) /\ Len(mid) = Len(three) + Len(reset)
    BY <1>6, <1>8, Concatenated
  <2>2. \A i \in 1..Len(three) : mid[i] = three[i]
    BY <1>6, <1>8, Concatenated, SMTT(30)
  <2>3. \A i \in 1..Len(reset) : mid[Len(three) + i] = reset[i]
    <3>1. three \in Seq(S) /\ reset \in Seq(S)
      BY <1>6, <1>8
    <3> QED
      BY <3>1, Concatenated
  <2> QED
    BY <2>1, <2>2, <2>3
<1> HIDE DEF mid
<1>11. /\ Len(mid) \in {3, 4} /\ mid[1] = a /\ mid[2] = b /\ mid[3] = d
       /\ Len(mid) = 4 => mid[4] = e
  BY <1>6, <1>8, <1>10
<1>12. /\ ahead \in Seq(S) /\ Len(ahead) = Len(mid) + Len(loop)
       /\ \A i \in 1..Len(mid) : ahead[i] = mid[i]
       /\ \A i \in 1..Len(loop) : ahead[Len(mid) + i] = loop[i]
  <2>1. ahead \in Seq(S) /\ Len(ahead) = Len(mid) + Len(loop)
    BY <1>7, <1>9, <1>10, Concatenated
  <2>2. \A i \in 1..Len(mid) : ahead[i] = mid[i]
    BY <1>7, <1>9, <1>10, Concatenated
  <2>3. \A i \in 1..Len(loop) : ahead[Len(mid) + i] = loop[i]
    BY <1>7, <1>9, <1>10, Concatenated, SMTT(30)
  <2> QED
    BY <2>1, <2>2, <2>3
<1>13. /\ Len(ahead) \in {4, 5} /\ DOMAIN ahead = 1..Len(ahead) /\ ahead[1] = a /\ ahead[2] = b
       /\ ahead[3] = d /\ ahead[Len(ahead)] = f
  BY <1>7, <1>11, <1>12
<1>14. Len(mid) = 4 => ahead[4] = e
  BY <1>11, <1>12
<1>15. Len(ahead) = Len(mid) + 1
  BY <1>7, <1>12
<1>16. Len(ahead) = 5 => Len(mid) = 4
  <2>1. Len(mid) = 3 \/ Len(mid) = 4
    BY <1>11
  <2>2. Len(mid) = 3 => Len(ahead) = 4
    BY <1>15
  <2> QED
    BY <2>1, <2>2
<1> QED
  BY <1>13, <1>14, <1>16 DEF a, b, d, e, f, ahead

LEMMA RegionMade ==
    ASSUME NEW bs, BlocksTyped(bs), NEW p, Placed(bs, p), NEW ops \in Seq(Operation),
           NEW block \in BlockRecord, block.within \subseteq DOMAIN bs
    PROVE  LET more == Append(InsertOps(bs, p, ops), block)
               n == Len(bs) + 1
           IN  /\ BlocksTyped(more) /\ DOMAIN more = DOMAIN bs \cup {n} /\ n \notin DOMAIN bs /\ n \in Nat
               /\ \A d \in DOMAIN bs : d < n
               /\ more[n] = block /\ Added(bs, more, p, ops)
<1> DEFINE mid == InsertOps(bs, p, ops)
           more == Append(mid, block)
           n == Len(bs) + 1
<1>1. /\ BlocksTyped(mid) /\ Len(mid) = Len(bs) /\ DOMAIN mid = DOMAIN bs
  BY OpsInserted DEF Placed
<1>2. mid \in Seq(BlockRecord) /\ \A b \in DOMAIN mid : mid[b].within \subseteq DOMAIN mid
  BY <1>1 DEF BlocksTyped
<1> HIDE DEF mid
<1>3. /\ more \in Seq(BlockRecord) /\ DOMAIN more = DOMAIN mid \cup {Len(mid) + 1}
      /\ Len(mid) + 1 \notin DOMAIN mid /\ Len(mid) + 1 \in Nat /\ more[Len(mid) + 1] = block
      /\ \A b \in DOMAIN mid : more[b] = mid[b]
  BY <1>2, Appended
<1> HIDE DEF more
<1>4. /\ more \in Seq(BlockRecord) /\ DOMAIN more = DOMAIN bs \cup {n} /\ n \notin DOMAIN bs
      /\ n \in Nat /\ more[n] = block /\ \A b \in DOMAIN bs : more[b] = mid[b]
  BY <1>1, <1>3
<1>5. \A d \in DOMAIN bs : d < n
  BY DEF BlocksTyped
<1> HIDE DEF n
<1>6. BlocksTyped(more)
  <2>1. \A b \in DOMAIN more : more[b].within \subseteq DOMAIN more
    BY <1>1, <1>2, <1>4
  <2> QED
    BY <1>4, <2>1 DEF BlocksTyped
<1>7. Added(bs, more, p, ops)
  BY <1>4, InsertAdds DEF mid
<1> QED
  BY <1>4, <1>5, <1>6, <1>7 DEF more, n, mid

LEMMA AheadRegion ==
    ASSUME NEW node, NEW domain, NEW region, AheadOfLoop(node, domain, region) \in Seq(Operation)
    PROVE  RegionOps(AheadOfLoop(node, domain, region), region)
<1> DEFINE ahead == AheadOfLoop(node, domain, region)
           n == Len(ahead)
<1>1. /\ n \in {4, 5} /\ DOMAIN ahead = 1..n /\ ahead[1] = Alloca
      /\ ahead[2] = Op("size", NoText, <<domain>>, <<>>)
      /\ ahead[3] = Op("new_vector", NoText, <<ResultAt(ip, 2, "int")>>, <<>>)
      /\ n = 5 => ahead[4] = Op("empty", NoText, <<ResultAt(ip, 3, "vector"), const_zero>>, <<>>)
      /\ ahead[n] = Op("for", NoText, <<const_zero, ResultAt(ip, 2, "int"), const_one>>, <<region>>)
  BY AheadOps, SMTT(30)
<1> HIDE DEF ahead
<1>2. /\ ahead[1].op = "alloca" /\ ahead[2].op = "size" /\ ahead[3].op = "new_vector"
      /\ n = 5 => ahead[4].op = "empty"
      /\ ahead[n].op = "for" /\ ahead[n].to = <<region>>
  BY <1>1 DEF Op, Alloca
<1>3. \A j \in DOMAIN ahead : j = n \/ j = 1 \/ j = 2 \/ j = 3 \/ (n = 5 /\ j = 4)
  BY <1>1, SMTT(30)
<1>4. Plain(ahead[1]) /\ Plain(ahead[2]) /\ Plain(ahead[3]) /\ (n = 5 => Plain(ahead[4]))
  BY <1>2 DEF Plain, Terminators, Regional
<1>5. ahead # <<>>
  <2>1. 1 \in DOMAIN ahead
    BY <1>1
  <2> QED
    BY <2>1
<1>6. \A j \in DOMAIN ahead : j = n \/ Plain(ahead[j])
  BY <1>3, <1>4
<1>7. ahead \in Seq(Operation)
  BY DEF ahead
<1> QED
  BY <1>2, <1>5, <1>6, <1>7 DEF RegionOps, Regional, ahead

LEMMA AheadSupplied ==
    ASSUME NEW bs, NEW node, NEW domain, NEW region, Defines(bs, domain), Defines(bs, const_zero),
           Defines(bs, const_one), Defines(bs, ResultAt(ip, 2, "int")),
           Defines(bs, ResultAt(ip, 3, "vector")), NEW j \in DOMAIN AheadOfLoop(node, domain, region)
    PROVE  Supplied(bs, AheadOfLoop(node, domain, region)[j])
<1> DEFINE ahead == AheadOfLoop(node, domain, region)
           n == Len(ahead)
           size == ResultAt(ip, 2, "int")
           result == ResultAt(ip, 3, "vector")
<1>1. /\ n \in {4, 5} /\ DOMAIN ahead = 1..n /\ ahead[1] = Alloca
      /\ ahead[2] = Op("size", NoText, <<domain>>, <<>>)
      /\ ahead[3] = Op("new_vector", NoText, <<size>>, <<>>)
      /\ n = 5 => ahead[4] = Op("empty", NoText, <<result, const_zero>>, <<>>)
      /\ ahead[n] = Op("for", NoText, <<const_zero, size, const_one>>, <<region>>)
  BY AheadOps
<1>2. j \in DOMAIN ahead /\ Defines(bs, size) /\ Defines(bs, result)
  OBVIOUS
<1> HIDE DEF ahead, size, result
<1>3. j = n \/ j = 1 \/ j = 2 \/ j = 3 \/ (n = 5 /\ j = 4)
  BY <1>1, <1>2
<1>4. Supplied(bs, ahead[1])
  BY <1>1, FewSupplied DEF Alloca
<1>5. Supplied(bs, ahead[2])
  BY <1>1, FewSupplied
<1>6. Supplied(bs, ahead[3])
  BY <1>1, <1>2, FewSupplied
<1>7. n = 5 => Supplied(bs, ahead[4])
  BY <1>1, <1>2, FewSupplied
<1>8. Supplied(bs, ahead[n])
  BY <1>1, <1>2, FewSupplied
<1>9. Supplied(bs, ahead[j])
  BY <1>3, <1>4, <1>5, <1>6, <1>7, <1>8
<1> QED
  BY <1>9 DEF ahead

LEMMA ScopedBlocksShape ==
    ASSUME EmitInv, ShapeInv, codegen = "emitting", NEW node, NEW domain \in Arg, Defines(blocks, domain),
           NEW region, region = Len(blocks) + 1,
           LET body == Block(<<Op("yield", NoText, <<>>, <<>>)>>, blocks[ip.block].within \cup {ip.block})
           IN  blocks' = InsertOps(Append(InsertOps(blocks, ip, AheadOfLoop(node, domain, region)), body),
                                   StartOf(region), SetIterator(domain, region))
    PROVE  /\ Continues(blocks, blocks', ip.block, ip.at) /\ Shaped(blocks')
           /\ Newest(blocks', region) /\ region \in DOMAIN blocks'
           /\ Newest(blocks', ip.block) /\ blocks'[region].within = blocks[ip.block].within \cup {ip.block}
           /\ Defines(blocks', Result("address")) /\ Defines(blocks', ResultAt(ip, 3, "vector"))
           /\ Defines(blocks', ResultAt(StartOf(region), 1, "int"))
           /\ Defines(blocks', InductionVar(region))
<1> DEFINE c == ip.block
           ahead == AheadOfLoop(node, domain, region)
           inside == SetIterator(domain, region)
           yield == Op("yield", NoText, <<>>, <<>>)
           within == blocks[c].within \cup {c}
           body == Block(<<yield>>, within)
           more == Append(InsertOps(blocks, ip, ahead), body)
           start == StartOf(region)
           new == InsertOps(more, start, inside)
<1>1. /\ BlocksTyped(blocks) /\ Placed(blocks, ip) /\ c \in DOMAIN blocks /\ within \subseteq DOMAIN blocks
      /\ within # {} /\ codegen # "idle" /\ region \in Nat
  BY ShapeHere DEF BlocksTyped
<1>2. ahead \in Seq(Operation) /\ inside \in Seq(Operation) /\ Straight(inside)
  BY <1>1, AheadIsStraight, IteratorIsStraight
<1>3. yield \in Operation /\ yield.op = "yield" /\ yield.args = <<>>
  BY YieldIsOperation DEF Op
<1>24. LET size == ResultAt(ip, 2, "int")
           n == Len(ahead)
       IN  /\ n \in {4, 5} /\ DOMAIN ahead = 1..n
           /\ ahead[1] = Alloca
           /\ ahead[2] = Op("size", NoText, <<domain>>, <<>>)
           /\ ahead[3] = Op("new_vector", NoText, <<size>>, <<>>)
           /\ n = 5 => ahead[4] = Op("empty", NoText, <<ResultAt(ip, 3, "vector"), const_zero>>, <<>>)
           /\ ahead[n] = Op("for", NoText, <<const_zero, size, const_one>>, <<region>>)
  BY AheadOps
<1> HIDE DEF yield, ahead, within
<1>4. body \in BlockRecord /\ body.within = within /\ body.body = <<yield>>
  <2>1. <<yield>> \in Seq(Operation) /\ within \in SUBSET Nat
    BY <1>1, <1>3 DEF BlocksTyped
  <2> QED
    BY <2>1 DEF Block, BlockRecord
<1> HIDE DEF body
<1>5. /\ BlocksTyped(more) /\ DOMAIN more = DOMAIN blocks \cup {region} /\ region \notin DOMAIN blocks
      /\ \A d \in DOMAIN blocks : d < region
      /\ more[region] = body /\ Added(blocks, more, ip, ahead)
  BY <1>1, <1>2, <1>4, RegionMade
<1> HIDE DEF more
<1>6. start.block = region /\ start.at = 0
  BY DEF StartOf
<1> HIDE DEF start
<1>7. Placed(more, start)
  <2>1. DOMAIN <<yield>> = {1} /\ <<yield>>[1] = yield /\ 0 \in 0..Len(<<yield>>) /\ yield.op \in Terminators
    BY <1>3 DEF Terminators
  <2> QED
    BY <1>4, <1>5, <1>6, <2>1 DEF Placed
<1>8. /\ BlocksTyped(new) /\ DOMAIN new = DOMAIN more /\ new[region].within = within
      /\ \A b \in DOMAIN more : b # region => new[b] = more[b]
  BY <1>2, <1>4, <1>5, <1>6, <1>7, OpsInserted DEF Placed
<1> HIDE DEF inside
<1>9. Added(more, new, start, inside)
  BY <1>2, <1>5, <1>7, <1>8, InsertAdds
<1>10. blocks' = new
  BY DEF new, more, body, within, yield, start, ahead, inside
<1> HIDE DEF new
<1>11. Added(blocks, new, ip, ahead)
  BY <1>1, <1>5, <1>8 DEF Added
<1>12. RegionOps(ahead, region)
  BY <1>2, AheadRegion DEF ahead
<1>13. Continues(blocks, new, c, ip.at)
  BY <1>5, <1>11, <1>12, RegionContinues
<1>14. /\ Defines(new, Result("address")) /\ Defines(new, ResultAt(ip, 2, "int"))
       /\ Defines(new, ResultAt(ip, 3, "vector"))
  <2>2. ahead[1].op \in Giving /\ ahead[2].op \in Giving /\ ahead[3].op \in Giving
    BY <1>24 DEF Giving, Alloca, Op
  <2>3. 1 \in DOMAIN ahead /\ 2 \in DOMAIN ahead /\ 3 \in DOMAIN ahead
    BY <1>24
  <2> QED
    BY <1>1, <1>2, <1>11, <2>2, <2>3, AddedDefines DEF Result
<1>15. Defines(new, InductionVar(region))
  BY <1>1, <1>5, <1>8 DEF Defines, InductionVar
<1> DEFINE read == Op("vector_index", NoText, <<domain, InductionVar(region)>>, <<>>)
           elem == ResultAt(StartOf(region), 1, "int")
           write == Op("store", NoText, <<elem, Result("address")>>, <<>>)
<1>16. DOMAIN inside = 1..2 /\ inside[1] = read /\ inside[2] = write
  BY DEF inside, SetIterator
<1>17. Plain(read) /\ Plain(write) /\ read.op \in Giving
  BY DEF Op, Plain, Terminators, Regional, Giving
<1> HIDE DEF read, write
<1>18. Defines(new, elem)
  <2>1. 1 \in DOMAIN inside /\ inside[1].op \in Giving
    BY <1>16, <1>17
  <2> QED
    BY <1>2, <1>5, <1>7, <1>9, <2>1, AddedDefines DEF start
<1> HIDE DEF elem
<1>19. Defines(new, domain) /\ Defines(new, const_zero) /\ Defines(new, const_one)
  BY <1>13, DefinesKept DEF ShapeInv
<1>20. Supplied(new, read) /\ Supplied(new, write)
  BY <1>14, <1>15, <1>18, <1>19, FewSupplied DEF read, write
<1>21. ASSUME NEW i \in DOMAIN new[region].body PROVE Inner(new, new[region].body[i])
  <2>1. \/ \E j \in DOMAIN inside : new[region].body[i] = inside[j]
        \/ \E j \in DOMAIN <<yield>> : new[region].body[i] = <<yield>>[j]
    <3> DEFINE b == new[region].body
    <3> DEFINE old == more[region].body
    <3>1. /\ start.block = region /\ old = <<yield>>
          /\ \A j \in DOMAIN inside : b[start.at + j] = inside[j]
          /\ \A k \in DOMAIN b : \/ k \in 1..start.at
                                 \/ \E j \in DOMAIN inside : k = start.at + j
                                 \/ \E j \in DOMAIN old : b[k] = old[j]
      <4>1. old = <<yield>> /\ start.block = region
        BY <1>4, <1>5, <1>6
      <4> HIDE DEF b, old
      <4>2. /\ \A j \in DOMAIN inside : new[start.block].body[start.at + j] = inside[j]
            /\ \A k \in DOMAIN new[start.block].body :
                  \/ k \in 1..start.at
                  \/ \E j \in DOMAIN inside : k = start.at + j
                  \/ \E j \in DOMAIN more[start.block].body : 
                        new[start.block].body[k] = more[start.block].body[j]
        BY <1>2, <1>5, <1>7, <1>9, AddedBody
      <4> QED
        BY <4>1, <4>2 DEF b, old
    <3>2. i \in DOMAIN b
      OBVIOUS
    <3> HIDE DEF b, old
    <3>3. start.at = 0 /\ 1..0 = {}
      BY <1>6
    <3>4. \/ \E j \in DOMAIN inside : b[i] = inside[j]
          \/ \E j \in DOMAIN <<yield>> : b[i] = <<yield>>[j]
      BY <3>1, <3>2, <3>3
    <3> QED
      BY <3>4 DEF b
  <2>2. \A j \in DOMAIN inside : Inner(new, inside[j])
    BY <1>16, <1>17, <1>20 DEF Inner
  <2>3. \A j \in DOMAIN <<yield>> : Inner(new, <<yield>>[j])
    BY <1>3 DEF Inner
  <2> QED
    BY <2>1, <2>2, <2>3
<1>22. \A j \in DOMAIN ahead : Supplied(new, ahead[j])
  BY <1>14, <1>19, AheadSupplied DEF ahead
<1>23. /\ Continues(blocks, new, c, ip.at) /\ Shaped(new) /\ Newest(new, region) /\ Newest(new, c)
  BY <1>5, <1>8, <1>11, <1>12, <1>21, <1>22, RegionAdded DEF within
<1> QED
  BY <1>5, <1>8, <1>10, <1>14, <1>15, <1>18, <1>23 DEF elem, within

LEMMA GenScopedKeepsShape == ASSUME ShapeReady, GenScoped PROVE ShapeInv'
<1> DEFINE region == Len(blocks) + 1
           ahead == AheadOfLoop(ThisVisit.node, TopValue, region)
           c == ip.block
           result == ResultAt(ip, 3, "vector")
           l == [save |-> After(ip, ahead), result |-> result, region |-> region]
           m == Len(locals)
<1>1. /\ Visiting(ScopedOps) /\ codegen' = "emitting" /\ ThisVisit.node \in ScopedOps
      /\ LET body == Block(<<Op("yield", NoText, <<>>, <<>>)>>, blocks[ip.block].within \cup {ip.block})
         IN  blocks' = InsertOps(Append(InsertOps(blocks, ip, ahead), body),
                                 StartOf(region), SetIterator(TopValue, region))
      /\ ip' = After(StartOf(region), SetIterator(TopValue, region))
      /\ locals' = Append(locals, l) /\ opperands' = Pop(opperands)
      /\ GiveStorage(<<ThisVisit.scope, ThisVisit.text>>)
  BY DEF GenScoped, Visiting, PopOperand
<1>2. Arity(ThisVisit.node) = 1
  BY <1>1 DEF Arity, Ops, ScopedOps
<1>3. /\ EmitInv /\ ShapeInv /\ codegen = "emitting" /\ codegen # "idle" /\ TopValue \in There(blocks)
      /\ Pop(opperands) \in Seq(There(blocks)) /\ DefRefInv /\ pos \in Nat \ {0}
  BY <1>1, <1>2, OperandsThere DEF ShapeReady, ReplayInv
<1>4. PICK T : Here(T)
  BY <1>1, <1>3, AtVisit
<1>5. /\ locals \in Seq(AnyLocal) /\ m \in Nat /\ DOMAIN locals = 1..m
      /\ BlocksTyped(blocks) /\ c \notin Saves(locals, m) /\ PlaceShape(blocks, locals, m, c)
  BY <1>3, <1>4, ShapeHere DEF Here, Follows, Emitting, Locals, ShapeInv
<1>6. TopValue \in Arg /\ Defines(blocks, TopValue)
  BY <1>3, OperandsAreArgs DEF There
<1>7. /\ Continues(blocks, blocks', c, ip.at) /\ Shaped(blocks')
      /\ Newest(blocks', region) /\ region \in DOMAIN blocks'
      /\ Newest(blocks', c) /\ blocks'[region].within = blocks[c].within \cup {c}
      /\ Defines(blocks', Result("address")) /\ Defines(blocks', result)
      /\ Defines(blocks', ResultAt(StartOf(region), 1, "int"))
      /\ Defines(blocks', InductionVar(region))
  BY <1>1, <1>3, <1>6, ScopedBlocksShape
<1>8. /\ \A i \in DOMAIN opperands' : Defines(blocks', opperands'[i])
      /\ \A s \in DOMAIN storage' : Defines(blocks', storage'[s])
  <2>1. \A i \in DOMAIN opperands' : Defines(blocks, opperands'[i])
    BY <1>1, <1>3 DEF There
  <2>2. \A s \in DOMAIN storage' : Defines(blocks, storage'[s]) \/ storage'[s] = Result("address")
    BY <1>1, <1>3, StorageThere
  <2> QED
    BY <1>7, <2>1, <2>2, DefinesKept
<1>9. /\ l.save.block = c /\ l.result = result /\ l.region = region /\ Scoping(l) /\ ip'.block = region
  <2>1. ip \in [block: Nat, at: Nat] /\ ahead \in Seq(Operation)
    BY <1>3, <1>5, <1>6, PlaceTyped, AheadIsStraight DEF BlocksTyped
  <2>2. After(ip, ahead).block = c
    BY <2>1, AfterIsPlace
  <2>3. StartOf(region) \in [block: Nat, at: Nat] /\ SetIterator(TopValue, region) \in Seq(Operation)
    BY <1>3, <1>5, <1>6, IteratorIsStraight, SMTT(30) DEF StartOf, BlocksTyped
  <2>4. ip'.block = StartOf(region).block
    BY <1>1, <2>3, AfterIsPlace
  <2>5. StartOf(region).block = region
    BY DEF StartOf
  <2> HIDE DEF ahead, region
  <2> QED
    BY <2>2, <2>4, <2>5 DEF Scoping
<1> HIDE DEF l, region, result, c
<1>10. /\ DOMAIN locals' = 1..(m + 1) /\ locals'[m + 1] = l /\ m \in 0..m /\ Len(locals') = m + 1
       /\ (\A k \in 1..m : locals'[k] = locals[k])
       /\ \A k \in DOMAIN locals' : k \in 1..m \/ k = m + 1
  <2>1. DOMAIN locals' = 1..(m + 1) /\ locals'[m + 1] = l /\ Len(locals') = m + 1
        /\ \A k \in 1..m : locals'[k] = locals[k]
    BY <1>1, <1>5, Pushed1
  <2> HIDE DEF m
  <2> QED
    BY <1>5, <2>1
<1> HIDE DEF m
<1>11. PlaceShape(blocks', locals', m, c)
  <2>1. Saves(locals', m) = Saves(locals, m)
    BY <1>10 DEF Saves
  <2>2. PlaceShape(blocks', locals, m, c)
    BY <1>5, <1>7, PlaceKept
  <2> QED
    BY <2>1, <2>2 DEF PlaceShape
<1>12. LocalShape(blocks', locals', m + 1)
  <2>1. (m + 1) - 1 = m
    BY <1>5
  <2> QED
    BY <1>7, <1>9, <1>10, <1>11, <2>1 DEF LocalShape, Element
<1>13. PlaceShape(blocks', locals', m + 1, region)
  <2>1. c \in Saves(locals', m + 1)
    <3>1. m + 1 \in 1..(m + 1)
      BY <1>5
    <3> QED
      BY <1>9, <1>10, <3>1 DEF Saves
  <2>2. Saves(locals', m) \subseteq Saves(locals', m + 1)
    <3>1. 1..m \subseteq 1..(m + 1)
      BY <1>5
    <3> QED
      BY <3>1 DEF Saves
  <2>3. blocks'[c].within = blocks[c].within
    BY <1>7 DEF Continues
  <2> QED
    BY <1>7, <1>11, <2>1, <2>2, <2>3 DEF PlaceShape
<1>14. m \in 0..Len(locals) /\ PlaceShape(blocks', locals', Len(locals'), ip'.block)
  BY <1>9, <1>10, <1>13 DEF m
<1>15. \A k \in DOMAIN locals' : k \in 1..m \/ LocalShape(blocks', locals', k)
  BY <1>10, <1>12
<1> QED
  BY <1>1, <1>3, <1>7, <1>8, <1>10, <1>14, <1>15, ShapeNext DEF c

\* What a generator or filter ends with.
LEMMA ScopedTop ==
    ASSUME ShapeReady, Visiting({"GENERATOR_END", "FILTER_END"})
    PROVE  LET l == Top(locals)
               n == Len(locals) - 1
           IN  /\ EmitInv /\ ShapeInv /\ codegen = "emitting" /\ codegen # "idle"
               /\ locals \in Seq(AnyLocal) /\ locals # <<>>
               /\ l.result \in Arg /\ Defines(blocks, l.result)
               /\ Element(l) \in Arg /\ Defines(blocks, Element(l))
               /\ InductionVar(l.region) \in Arg /\ Defines(blocks, InductionVar(l.region))
               /\ PlaceShape(blocks, locals, n, l.save.block)
               /\ TopValue \in Arg /\ Defines(blocks, TopValue) /\ Pop(opperands) \in Seq(There(blocks))
<1> DEFINE l == Top(locals)
           n == Len(locals) - 1
           node == ThisVisit.node
           kind == KindOf(node)
<1>1. node \in {"GENERATOR_END", "FILTER_END"}
  BY DEF Visiting
<1>2. Arity(node) = 1 /\ node \in Closing /\ kind \in ScopedOps
  <2>1. Arity(node) = 1 /\ node \in Closing
    BY <1>1 DEF Arity, Closing, Ops, ScopedOps
  <2>2. kind \in ScopedOps
    <3> HIDE DEF node
    <3> QED
      BY <1>1 DEF KindOf, ScopedOps
  <2> QED
    BY <2>1, <2>2
<1>3. /\ EmitInv /\ ShapeInv /\ codegen = "emitting" /\ codegen # "idle" /\ TopValue \in There(blocks)
      /\ Pop(opperands) \in Seq(There(blocks)) /\ DefRefInv /\ pos \in Nat \ {0}
  BY <1>2, OperandsThere DEF ShapeReady, ReplayInv
<1>4. PICK T : Here(T)
  BY <1>3, AtVisit
<1> DEFINE o == T[pos + 1].open
<1>5. Emitting(blocks, ip, locals, Append(o, kind)) /\ o \in Seq(LocalKind)
  BY <1>2, <1>4 DEF Here, TraceStep, Opened, Follows, Stacks
<1> HIDE DEF o, kind
<1>6. /\ locals # <<>> /\ LocalOK(blocks, l, kind, Inside(o, Len(o))) /\ locals \in Seq(AnyLocal)
  <2>1. Locals(blocks, locals, Append(o, kind))
    BY <1>5 DEF Emitting
  <2>3. kind \in LocalKind
    BY <1>2 DEF LocalKind, ScopedOps
  <2>2. locals # <<>> /\ LocalOK(blocks, l, kind, Inside(o, Len(o)))
    BY <1>5, <2>1, <2>3, LocalsPop
  <2> QED
    BY <2>1, <2>2 DEF Locals
<1>7. l \in [save: [block: Nat, at: Nat], result: Value(blocks), region: DOMAIN blocks]
  BY <1>2, <1>6 DEF LocalOK
<1>8. Scoping(l) /\ l.region \in Nat /\ l.result \in Arg
  BY <1>3, <1>7, OperandsAreArgs, PlaceTyped DEF Scoping
<1>9. Len(locals) \in DOMAIN locals /\ l = locals[Len(locals)]
  BY <1>6 DEF Top
<1> HIDE DEF l
<1>10. LocalShape(blocks, locals, Len(locals))
  BY <1>3, <1>9 DEF ShapeInv
<1>11. /\ Defines(blocks, l.result) /\ Defines(blocks, Element(l)) /\ Defines(blocks, InductionVar(l.region))
       /\ PlaceShape(blocks, locals, n, l.save.block)
  BY <1>8, <1>9, <1>10 DEF LocalShape
<1>12. Element(l) \in Arg /\ InductionVar(l.region) \in Arg
  BY <1>8 DEF Element, ResultAt, StartOf, InductionVar, Arg, Type
<1>13. TopValue \in Arg /\ Defines(blocks, TopValue)
  BY <1>3, OperandsAreArgs DEF There
<1> QED
  BY <1>3, <1>6, <1>8, <1>11, <1>12, <1>13 DEF l

LEMMA ScopedEnds ==
    ASSUME ShapeReady, Visiting({"GENERATOR_END", "FILTER_END"}),
           Continues(blocks, blocks', ip.block, ip.at), Shaped(blocks'), ip' = Top(locals).save,
           locals' = Pop(locals), opperands' = WithResult(Top(locals).result), UNCHANGED <<storage, codegen>>
    PROVE  ShapeInv'
<1> DEFINE l == Top(locals)
           n == Len(locals) - 1
<1>1. /\ EmitInv /\ ShapeInv /\ codegen = "emitting" /\ codegen' = "emitting"
      /\ locals \in Seq(AnyLocal) /\ locals # <<>> /\ Defines(blocks, l.result)
      /\ PlaceShape(blocks, locals, n, l.save.block) /\ Pop(opperands) \in Seq(There(blocks))
  BY ScopedTop
<1>2. ip' = l.save /\ opperands' = Append(Pop(opperands), l.result) /\ storage' = storage
  BY DEF WithResult, PopOperand
<1> HIDE DEF l
<1>3. /\ DOMAIN locals' = 1..n /\ Len(locals') = n /\ n \in 0..Len(locals)
      /\ (\A k \in 1..n : locals'[k] = locals[k]) /\ Len(locals) \in Nat /\ 1..n \subseteq 1..Len(locals)
  <2>1. /\ DOMAIN locals' = 1..n /\ Len(locals') = n /\ n \in 0..Len(locals)
        /\ (\A k \in 1..n : locals'[k] = locals[k]) /\ Len(locals) \in Nat
    BY <1>1, Popped1
  <2> QED
    BY <2>1
<1> HIDE DEF n
<1>4. \A k \in DOMAIN locals' : k \in 1..n \/ LocalShape(blocks', locals', k)
  BY <1>3
<1>5. \A i \in DOMAIN opperands' : Defines(blocks, opperands'[i])
  <2> DEFINE rest == Pop(opperands)
  <2>1. \A i \in DOMAIN rest : Defines(blocks, rest[i])
    BY <1>1 DEF There
  <2>2. \A i \in DOMAIN Append(rest, l.result) : \/ Append(rest, l.result)[i] = l.result
                                                 \/ i \in DOMAIN rest /\ Append(rest, l.result)[i] = rest[i]
    <3>1. rest \in Seq(There(blocks))
      BY <1>1
    <3> HIDE DEF rest
    <3> QED
      BY <3>1
  <2> HIDE DEF rest
  <2>3. \A i \in DOMAIN Append(rest, l.result) : Defines(blocks, Append(rest, l.result)[i])
    BY <1>1, <2>1, <2>2
  <2> QED
    BY <1>2, <2>3 DEF rest
<1>6. \A s \in DOMAIN storage' : Defines(blocks, storage'[s])
  BY <1>1, <1>2 DEF ShapeInv
<1>7. PlaceShape(blocks', locals', n, l.save.block)
  <2>1. BlocksTyped(blocks) /\ ip.block \notin Saves(locals, Len(locals))
    BY <1>1, ShapeHere
  <2>2. ip.block \notin Saves(locals, n)
    BY <1>3, <2>1 DEF Saves
  <2>3. PlaceShape(blocks', locals, n, l.save.block)
    BY <1>1, <2>1, <2>2, PlaceKept
  <2>4. Saves(locals', n) = Saves(locals, n)
    BY <1>3 DEF Saves
  <2> QED
    BY <2>3, <2>4 DEF PlaceShape
<1>8. PlaceShape(blocks', locals', Len(locals'), ip'.block)
  BY <1>2, <1>3, <1>7
<1>9. /\ \A i \in DOMAIN opperands' : Defines(blocks', opperands'[i])
      /\ \A s \in DOMAIN storage' : Defines(blocks', storage'[s])
  BY <1>5, <1>6, DefinesKept
<1> QED
  BY <1>1, <1>3, <1>4, <1>8, <1>9, ShapeNext

LEMMA GeneratorEndKeepsShape ==
    ASSUME ShapeReady, GenEndScoped, ThisVisit.node = "GENERATOR_END" PROVE ShapeInv'
<1> DEFINE l == Top(locals)
           var == InductionVar(l.region)
           args == <<l.result, var, TopValue>>
           none == <<>>
           put == Op("put", NoText, args, none)
           ops == <<put>>
<1>1. /\ Visiting({"GENERATOR_END", "FILTER_END"}) /\ blocks' = InsertOps(blocks, ip, ops)
      /\ ip' = l.save /\ locals' = Pop(locals) /\ opperands' = WithResult(l.result)
      /\ UNCHANGED <<storage, codegen>>
  BY DEF GenEndScoped
<1>2. /\ EmitInv /\ ShapeInv /\ codegen = "emitting"
      /\ l.result \in Arg /\ Defines(blocks, l.result)
      /\ InductionVar(l.region) \in Arg /\ Defines(blocks, InductionVar(l.region))
      /\ TopValue \in Arg /\ Defines(blocks, TopValue)
  BY <1>1, ScopedTop
<1> HIDE DEF l
<1>3. Supplied(blocks, put)
  <2> HIDE DEF none
  <2> QED
    BY <1>2, FewSupplied
<1>4. put \in Operation /\ Plain(put)
  <2> DEFINE what == "put"
  <2>1. args \in Seq(Arg) /\ none \in Seq(Nat) /\ what \in Operations
    BY <1>2 DEF Operations, Terminators
  <2>2. what \notin Terminators /\ what \notin Regional
    BY DEF Terminators, Regional
  <2> HIDE DEF args, none, what
  <2>3. Op(what, NoText, args, none) \in Operation /\ Op(what, NoText, args, none).op = what
    BY <2>1, AnOperationTo
  <2> QED
    BY <2>2, <2>3 DEF what, Plain
<1> HIDE DEF put
<1>5. ops \in Seq(Operation) /\ DOMAIN ops = {1} /\ ops[1] = put
  BY <1>4
<1> HIDE DEF ops
<1>6. /\ BlocksTyped(blocks) /\ Placed(blocks, ip) /\ Shaped(blocks) /\ Newest(blocks, ip.block)
      /\ ip.block \in DOMAIN blocks /\ ip.block \notin blocks[ip.block].within
      /\ blocks[ip.block].within \subseteq DOMAIN blocks
  BY <1>2, ShapeHere
<1>7. BlocksTyped(blocks') /\ DOMAIN blocks' = DOMAIN blocks
  BY <1>1, <1>5, <1>6, OpsInserted DEF Placed
<1>8. Added(blocks, blocks', ip, ops)
  BY <1>1, <1>5, <1>6, <1>7, InsertAdds
<1>9. Continues(blocks, blocks', ip.block, ip.at)
  BY <1>4, <1>5, <1>6, <1>8, AddedContinues DEF Plain, NewRegion
<1>10. Newest(blocks', ip.block)
  BY <1>6, <1>9, NewestKept
<1>11. \A j \in DOMAIN ops : Supplied(blocks', ops[j])
  BY <1>3, <1>5, <1>9, DefinesKept DEF Supplied
<1>12. \A j \in DOMAIN ops : OpShape(blocks', ip.block, ops[j])
  BY <1>4, <1>5, <1>6, <1>7, <1>10, <1>11, PlainShape
<1>13. Shaped(blocks')
  BY <1>5, <1>6, <1>7, <1>8, <1>9, <1>12, AddedShaped
<1> QED
  BY <1>1, <1>9, <1>13, ScopedEnds DEF l

LEMMA FilterEndKeepsShape ==
    ASSUME ShapeReady, GenEndScoped, ThisVisit.node = "FILTER_END" PROVE ShapeInv'
<1> DEFINE l == Top(locals)
           kept == Len(blocks) + 1
           keeps == Op("keep", NoText, <<l.result, Element(l), const_one>>, <<>>)
           yield == Op("yield", NoText, <<>>, <<>>)
           body == <<keeps, yield>>
           within == blocks[ip.block].within \cup {ip.block}
           keep == Block(body, within)
           if == Op("if", NoText, <<TopValue, const_zero>>, <<kept>>)
           ops == <<if>>
           new == Append(InsertOps(blocks, ip, ops), keep)
<1>1. /\ Visiting({"GENERATOR_END", "FILTER_END"}) /\ blocks' = new
      /\ ip' = l.save /\ locals' = Pop(locals) /\ opperands' = WithResult(l.result)
      /\ UNCHANGED <<storage, codegen>>
  BY DEF GenEndScoped, Element
<1>2. /\ EmitInv /\ ShapeInv /\ codegen = "emitting"
      /\ l.result \in Arg /\ Defines(blocks, l.result) /\ Element(l) \in Arg /\ Defines(blocks, Element(l))
      /\ TopValue \in Arg /\ Defines(blocks, TopValue)
  BY <1>1, ScopedTop
<1>3. /\ Defines(blocks, const_one) /\ const_one \in Arg /\ Defines(blocks, const_zero) /\ const_zero \in Arg
  BY <1>2, OperandsAreArgs DEF ShapeInv
<1>4. /\ BlocksTyped(blocks) /\ Placed(blocks, ip) /\ ip.block \in DOMAIN blocks
      /\ within \subseteq DOMAIN blocks /\ within \in SUBSET Nat /\ kept \in Nat
  BY <1>2, ShapeHere DEF BlocksTyped
<1> HIDE DEF l
<1> DEFINE elem == Element(l)
<1> HIDE DEF elem
<1>5. keeps \in Operation /\ Plain(keeps) /\ Supplied(blocks, keeps)
  <2> DEFINE what == "keep"
             args == <<l.result, elem, const_one>>
             none == <<>>
  <2>1. args \in Seq(Arg) /\ none \in Seq(Nat) /\ what \in Operations
    BY <1>2, <1>3 DEF Operations, Terminators, elem
  <2>2. what \notin Terminators /\ what \notin Regional
    BY DEF Terminators, Regional
  <2>3. Supplied(blocks, Op(what, NoText, args, none))
    <3> HIDE DEF none, what
    <3> QED
      BY <1>2, <1>3, FewSupplied DEF elem
  <2>4. keeps = Op(what, NoText, args, none)
    BY DEF elem
  <2> HIDE DEF args, none, what, keeps
  <2>5. Op(what, NoText, args, none) \in Operation /\ Op(what, NoText, args, none).op = what
    BY <2>1, AnOperationTo
  <2> QED
    BY <2>2, <2>3, <2>4, <2>5 DEF Plain
<1>6. yield \in Operation /\ yield.op = "yield" /\ yield.args = <<>>
  BY YieldIsOperation DEF Op
<1>7. /\ if \in Operation /\ if.op = "if" /\ if.to = <<kept>>
      /\ \A bs : Defines(bs, TopValue) /\ Defines(bs, const_zero) => Supplied(bs, if)
  <2> DEFINE what == "if"
             args == <<TopValue, const_zero>>
             to == <<kept>>
  <2>1. args \in Seq(Arg) /\ to \in Seq(Nat) /\ what \in Operations
    BY <1>2, <1>3, <1>4 DEF Operations, Terminators
  <2>2. \A bs : Defines(bs, TopValue) /\ Defines(bs, const_zero) => Supplied(bs, Op(what, NoText, args, to))
    <3> HIDE DEF what, to
    <3> QED
      BY FewSupplied
  <2>3. Op(what, NoText, args, to).to = to
    BY DEF Op
  <2> HIDE DEF args, to, what
  <2>4. Op(what, NoText, args, to) \in Operation /\ Op(what, NoText, args, to).op = what
    BY <2>1, AnOperationTo
  <2> QED
    BY <2>2, <2>3, <2>4 DEF what, args, to
<1> HIDE DEF keeps, yield, if, within, kept
<1>8. body \in Seq(Operation) /\ DOMAIN body = {1, 2} /\ body[1] = keeps /\ body[2] = yield
  BY <1>5, <1>6
<1> HIDE DEF body
<1>9. keep \in BlockRecord /\ keep.within = within /\ keep.body = body
  BY <1>4, <1>8 DEF Block, BlockRecord
<1> HIDE DEF keep
<1>10. ops \in Seq(Operation) /\ DOMAIN ops = {1} /\ ops[1] = if /\ Len(ops) = 1 /\ ops # <<>>
  BY <1>7
<1> HIDE DEF ops
<1>11. RegionOps(ops, kept)
  <2>1. ops[Len(ops)].op \in Regional
    BY <1>7, <1>10 DEF Regional
  <2> QED
    BY <1>7, <1>10, <2>1 DEF RegionOps
<1>12. /\ BlocksTyped(new) /\ DOMAIN new = DOMAIN blocks \cup {kept} /\ kept \notin DOMAIN blocks
       /\ \A d \in DOMAIN blocks : d < kept
       /\ new[kept] = keep /\ Added(blocks, new, ip, ops)
  BY <1>4, <1>9, <1>10, RegionMade DEF kept
<1> HIDE DEF new
<1>13. Continues(blocks, new, ip.block, ip.at)
  BY <1>2, <1>11, <1>12, RegionContinues
<1>14. \A i \in DOMAIN new[kept].body : Inner(new, new[kept].body[i])
  <2>1. Supplied(new, keeps)
    BY <1>5, <1>13, DefinesKept DEF Supplied
  <2> QED
    BY <1>5, <1>6, <1>8, <1>9, <1>12, <2>1 DEF Inner
<1>15. \A j \in DOMAIN ops : Supplied(new, ops[j])
  BY <1>2, <1>3, <1>7, <1>10, <1>13, DefinesKept
<1>16. Shaped(new)
  BY <1>2, <1>9, <1>11, <1>12, <1>14, <1>15, RegionAdded DEF within
<1> QED
  BY <1>1, <1>13, <1>16, ScopedEnds DEF l

LEMMA GenEndScopedKeepsShape == ASSUME ShapeReady, GenEndScoped PROVE ShapeInv'
<1>1. ThisVisit.node = "GENERATOR_END" \/ ThisVisit.node = "FILTER_END"
  BY DEF GenEndScoped, Visiting
<1> QED
  BY <1>1, GeneratorEndKeepsShape, FilterEndKeepsShape

----------------------------------------------------------------------------
\* The entry block, the end of main, and the visits together.
LEMMA GenerateMlirShape ==
    ASSUME DefRefInv, ReplayInv, EmitInv, GenerateMlir, UNCHANGED defref_vars PROVE ShapeInv'
<1> DEFINE one == Op("one", NoText, <<>>, <<>>)
           zero == Op("zero", NoText, <<>>, <<>>)
           body == <<one, zero>>
           entry == Block(body, {})
           bs == <<entry>>
<1>1. /\ codegen = "idle" /\ codegen' = "emitting" /\ blocks' = bs /\ ip'.block = 1
      /\ UNCHANGED <<opperands, storage, locals>>
  BY DEF GenerateMlir
<1>2. one.op = "one" /\ one.args = <<>> /\ zero.op = "zero" /\ zero.args = <<>>
  BY DEF Op
<1> HIDE DEF one, zero
<1>3. DOMAIN body = {1, 2} /\ body[1] = one /\ body[2] = zero
  OBVIOUS
<1> HIDE DEF body
<1>4. entry.body = body /\ entry.within = {}
  BY DEF Block
<1> HIDE DEF entry
<1>5. DOMAIN bs = {1} /\ bs[1] = entry
  OBVIOUS
<1> HIDE DEF bs
<1>6. \A op : op.args = <<>> /\ op.op \in {"one", "zero"} => OpShape(bs, 1, op)
  BY <1>4, <1>5 DEF OpShape, Regional, Branches, Terminators
<1>7. BlockShape(bs, 1)
  BY <1>2, <1>3, <1>4, <1>5, <1>6 DEF BlockShape
<1>8. Shaped(bs)
  BY <1>5, <1>7 DEF Shaped
<1>9. Defines(bs, const_one) /\ Defines(bs, const_zero)
  BY <1>2, <1>3, <1>4, <1>5 DEF Defines, const_one, const_zero, Giving
<1>10. opperands = <<>> /\ locals = <<>> /\ DOMAIN storage = {}
  <2>1. opperands = <<>> /\ locals = <<>> /\ pos = 1
    BY <1>1 DEF EmitInv, ReplayInv
  <2>2. {i \in DOMAIN ast : i < 1 /\ IsDeclaration(ast[i])} = {}
    BY DEF DefRefInv
  <2>3. DOMAIN storage = {<<ast[j].scope, ast[j].text>> :
                            j \in {i \in DOMAIN ast : i < 1 /\ IsDeclaration(ast[i])}}
    BY <2>1 DEF ReplayInv
  <2> QED
    BY <2>1, <2>2, <2>3
<1>11. PlaceShape(bs, locals', Len(locals'), 1)
  BY <1>4, <1>5 DEF PlaceShape, Newest
<1>12. Defines(blocks, const_one)' /\ Defines(blocks, const_zero)'
  BY <1>1, <1>9 DEF const_one, const_zero
<1> QED
  BY <1>1, <1>8, <1>10, <1>11, <1>12 DEF ShapeInv

LEMMA GenReturnShape == ASSUME ShapeReady, GenReturn PROVE ShapeInv'
<1> DEFINE args == <<const_zero>>
           none == <<>>
           op == Op("return", NoText, args, none)
           ops == <<op>>
           c == ip.block
<1>1. /\ codegen = "emitting" /\ codegen # "idle" /\ codegen' = "generated" /\ EmitInv /\ ShapeInv
      /\ blocks' = InsertOps(blocks, ip, ops) /\ locals' = locals
  BY DEF GenReturn, Emit, ShapeReady
<1>2. op \in Operation /\ op.op = "return"
  <2> DEFINE what == "return"
  <2>1. what \in Operations /\ args \in Seq(Arg) /\ none \in Seq(Nat)
    BY <1>1, OperandsAreArgs DEF Operations, Terminators
  <2> HIDE DEF what, args, none
  <2>2. Op(what, NoText, args, none) \in Operation /\ Op(what, NoText, args, none).op = what
    BY <2>1, AnOperationTo
  <2> QED
    BY <2>2 DEF what
<1>3. Supplied(blocks, op)
  <2>1. Defines(blocks, const_zero)
    BY <1>1 DEF ShapeInv
  <2> HIDE DEF none
  <2> QED
    BY <2>1, FewSupplied
<1> HIDE DEF op
<1>4. ops \in Seq(Operation) /\ DOMAIN ops = {1} /\ ops[1] = op
  BY <1>2
<1> HIDE DEF ops
<1>5. /\ BlocksTyped(blocks) /\ Placed(blocks, ip) /\ Shaped(blocks) /\ Newest(blocks, c)
      /\ c \in DOMAIN blocks /\ c \notin blocks[c].within /\ blocks[c].within \subseteq DOMAIN blocks
  BY <1>1, ShapeHere
<1>6. BlocksTyped(blocks') /\ DOMAIN blocks' = DOMAIN blocks
  BY <1>1, <1>4, <1>5, OpsInserted DEF Placed
<1>7. Added(blocks, blocks', ip, ops)
  BY <1>1, <1>4, <1>5, <1>6, InsertAdds
<1>8. Continues(blocks, blocks', c, ip.at)
  BY <1>2, <1>4, <1>5, <1>7, AddedContinues DEF Regional, NewRegion
<1>9. blocks'[c].within = {}
  <2>1. locals = <<>>
    <3>1. EmitKept
      <4>1. Ready
        BY DEF ShapeReady, Ready, ReplayInv, DefRefInv
      <4> QED
        BY <4>1, GenReturnKeepsEmit
    <3> QED
      BY <1>1, <3>1 DEF EmitKept, EmitInv
  <2>2. Len(locals) = 0 /\ 1..0 = {}
    BY <2>1
  <2>3. Saves(locals, Len(locals)) = {}
    BY <2>2 DEF Saves
  <2>4. blocks[c].within = {}
    BY <1>1, <2>3 DEF ShapeInv, PlaceShape
  <2> QED
    BY <1>8, <2>4 DEF Continues
<1>10. Newest(blocks', c)
  BY <1>9 DEF Newest
<1>11. \A j \in DOMAIN ops : OpShape(blocks', c, ops[j])
  <2>1. \A k \in DOMAIN op.args : ArgShape(blocks', c, op.args[k])
    BY <1>3, <1>8, <1>9, DefinesKept DEF Supplied, ArgShape
  <2>2. OpShape(blocks', c, op)
    BY <1>2, <1>9, <2>1 DEF OpShape, Regional, Branches
  <2> QED
    BY <1>4, <2>2
<1>12. Shaped(blocks')
  BY <1>4, <1>5, <1>6, <1>7, <1>8, <1>11, AddedShaped
<1> QED
  BY <1>1, <1>12 DEF ShapeInv

LEMMA GenerateKeepsShape ==
    ASSUME DefRefInv, VisitsInv, ReplayInv, EmitInv, ShapeInv, CodeGenNext
    PROVE  ShapeInv'
<1>1. UNCHANGED defref_vars
  BY DEF CodeGenNext
<1>2. ShapeReady
  BY <1>1 DEF ShapeReady
<1>3. CASE GenerateMlir
  BY <1>1, <1>3, GenerateMlirShape
<1>4. CASE GenReturn
  BY <1>2, <1>4, GenReturnShape
<1>5. CASE GenBLOCK \/ GenDECL \/ GenASSIGN \/ GenPRINT \/ GenID \/ GenINT \/ GenOp
  BY <1>2, <1>5, GenBLOCKKeepsShape, GenDECLKeepsShape, GenASSIGNKeepsShape, GenPRINTKeepsShape,
     GenIDKeepsShape, GenINTKeepsShape, GenOpKeepsShape
<1>6. CASE GenIF_BLOCK \/ GenEndIF_BLOCK \/ GenLOOP_BLOCK \/ GenLoopBody \/ GenEndLOOP_BLOCK
  BY <1>2, <1>6, GenIF_BLOCKKeepsShape, GenLOOP_BLOCKKeepsShape, GenLoopBodyKeepsShape,
     GenEndBranchKeepsShape
<1>7. CASE GenScoped \/ GenEndScoped
  BY <1>2, <1>7, GenScopedKeepsShape, GenEndScopedKeepsShape
<1> QED
  BY <1>3, <1>4, <1>5, <1>6, <1>7 DEF CodeGenNext

LEMMA ShapeInvInit == CodeGenInit => ShapeInv
  BY DEF CodeGenInit, ShapeInv

----------------------------------------------------------------------------
(* Where values may be used.  A certificate R gives each block the blocks   *)
(* whose values may be used in it.  That each operation and each branch     *)
(* keeps to R can be seen at the operation, and is never undone by a later  *)
(* one; dominance is a property of the whole graph.                         *)

Known(R, v, b, i) == IF v.block = b THEN v.at \in Nat /\ v.at < i ELSE v.block \in R[b]
KnownAt(R, v, p) == Known(R, v, p.block, p.at + 1)

\* A branch goes to a block that relies on nothing the block before it does not have.
Reachable(R, t, b) == t \in DOMAIN R /\ R[t] \ {t} \subseteq R[b] \cup {b}
OpOK(R, b, i, op) == /\ \A k \in DOMAIN op.args : Known(R, op.args[k], b, i)
                     /\ \A k \in DOMAIN op.to : Reachable(R, op.to[k], b)
HostOK(bs, R, b) ==
    IF bs[b].within = {} THEN b \in R[b]
    ELSE \E f \in bs[b].within : /\ f \in DOMAIN bs /\ bs[f].within = {}
                                 /\ R[b] \subseteq bs[b].within \cup R[f]
BodyOK(R, b, body) == \A i \in DOMAIN body : OpOK(R, b, i, body[i])
Cert(bs, R) ==
    /\ 1 \in DOMAIN bs /\ bs[1].within = {} /\ R[1] \subseteq {1}
    /\ DOMAIN bs \subseteq DOMAIN R
    /\ \A b \in DOMAIN bs : HostOK(bs, R, b) /\ BodyOK(R, b, bs[b].body)
Agree(R, S) == DOMAIN R \subseteq DOMAIN S /\ \A b \in DOMAIN R : S[b] = R[b]

\* A block whose values may be used in a block of main dominates it: what no path
\* from the entry around d can reach is where d may be used.
LEMMA CertDominates ==
    ASSUME NEW R, Cert(blocks, R), \A b \in Blocks : blocks[b].body # <<>>, BlocksTyped(blocks),
           NEW u \in FunctionBlocks, NEW d \in R[u]
    PROVE  Dominates(d, u)
<1> DEFINE X == {x \in FunctionBlocks : d \notin R[x]}
<1>1. CASE d = u
  BY <1>1 DEF Dominates
<1>2. CASE d # u
  <2>1. \A x \in FunctionBlocks : x \in R[x] /\ x \in DOMAIN blocks
    BY DEF Cert, HostOK, FunctionBlocks, Blocks
  <2>2. X \in SUBSET (FunctionBlocks \ {d, u})
    BY <2>1
  <2>3. d # 1 => 1 \in X
    BY DEF Cert, FunctionBlocks, Blocks
  <2>4. ASSUME NEW b \in X, NEW t \in Successors(b) PROVE t \in X \cup {d}
    <3> DEFINE last == Len(blocks[b].body)
    <3>1. b \in DOMAIN blocks /\ b # d /\ d \notin R[b]
      BY <2>1
    <3>2. last \in DOMAIN blocks[b].body /\ Top(blocks[b].body) = blocks[b].body[last]
      <4>1. blocks[b] \in BlockRecord /\ blocks[b].body # <<>>
        BY <3>1 DEF BlocksTyped, Blocks
      <4>2. blocks[b].body \in Seq(Operation)
        BY <4>1 DEF BlockRecord
      <4> QED
        BY <4>1, <4>2 DEF Top
    <3> HIDE DEF last, X
    <3>3. OpOK(R, b, last, Top(blocks[b].body))
      BY <3>1, <3>2 DEF Cert, BodyOK
    <3>4. t \in FunctionBlocks /\ Reachable(R, t, b)
      BY <3>3 DEF Successors, OpOK
    <3>5. t = d \/ d \notin R[t]
      BY <3>1, <3>4 DEF Reachable
    <3> QED
      BY <3>4, <3>5 DEF X
  <2> HIDE DEF X
  <2> QED
    BY <2>2, <2>3, <2>4 DEF Dominates
<1> QED
  BY <1>1, <1>2

LEMMA CertVisible ==
    ASSUME NEW R, Cert(blocks, R), Shaped(blocks), \A b \in Blocks : blocks[b].body # <<>>, BlocksTyped(blocks),
           NEW b \in Blocks, NEW i \in DOMAIN blocks[b].body, NEW k \in DOMAIN blocks[b].body[i].args
    PROVE  Visible(blocks[b].body[i].args[k], b, i)
<1> DEFINE v == blocks[b].body[i].args[k]
<1>1. Known(R, v, b, i) /\ HostOK(blocks, R, b)
  BY DEF Cert, BodyOK, OpOK, Blocks
<1>5. v.block \in blocks[b].within => ComesBefore(blocks, v, b)
  BY DEF Shaped, BlockShape, OpShape, ArgShape, Blocks
<1> SUFFICES Visible(v, b, i)
  OBVIOUS
<1> HIDE DEF v
<1>2. CASE v.block = b
  BY <1>1, <1>2 DEF Known, Visible
<1>3. CASE v.block # b /\ blocks[b].within = {}
  <2>1. b \in FunctionBlocks /\ v.block \in R[b]
    BY <1>1, <1>3 DEF Known, FunctionBlocks
  <2>2. Dominates(v.block, b)
    BY <2>1, CertDominates
  <2> QED
    BY <1>3, <2>1, <2>2 DEF Visible
<1>4. CASE v.block # b /\ blocks[b].within # {}
  <2>1. v.block \in R[b]
    BY <1>1, <1>4 DEF Known
  <2>2. PICK f \in blocks[b].within : /\ f \in DOMAIN blocks /\ blocks[f].within = {}
                                      /\ R[b] \subseteq blocks[b].within \cup R[f]
    BY <1>1, <1>4 DEF HostOK
  <2>3. f \in FunctionBlocks
    BY <2>2 DEF FunctionBlocks, Blocks
  <2>4. v.block \in blocks[b].within \/ Dominates(v.block, f)
    BY <2>1, <2>2, <2>3, CertDominates
  <2> QED
    BY <1>4, <1>5, <2>2, <2>3, <2>4 DEF Visible
<1> QED
  BY <1>2, <1>3, <1>4

----------------------------------------------------------------------------
(* What CodeGen does to the blocks keeps them certified. *)

LEMMA AgreeKnown ==
    ASSUME NEW R, NEW S, Agree(R, S), NEW b \in DOMAIN R
    PROVE  /\ \A v, i : Known(R, v, b, i) <=> Known(S, v, b, i)
           /\ \A t : Reachable(R, t, b) => Reachable(S, t, b)
           /\ \A i, op : OpOK(R, b, i, op) => OpOK(S, b, i, op)
<1>1. \A v, i : Known(R, v, b, i) <=> Known(S, v, b, i)
  BY DEF Agree, Known
<1>2. \A t : Reachable(R, t, b) => Reachable(S, t, b)
  BY DEF Agree, Reachable
<1> QED
  BY <1>1, <1>2 DEF OpOK

LEMMA CertExtended ==
    ASSUME NEW bs, NEW R, NEW S, Cert(bs, R), Agree(R, S)
    PROVE  Cert(bs, S)
<1>1. ASSUME NEW b \in DOMAIN bs PROVE HostOK(bs, S, b) /\ BodyOK(S, b, bs[b].body)
  <2>1. b \in DOMAIN R /\ HostOK(bs, R, b) /\ BodyOK(R, b, bs[b].body) /\ S[b] = R[b]
    BY DEF Cert, Agree
  <2>2. BodyOK(S, b, bs[b].body)
    BY <2>1, AgreeKnown DEF BodyOK
  <2>3. HostOK(bs, S, b)
    <3>1. \A f \in DOMAIN bs : S[f] = R[f]
      BY DEF Cert, Agree
    <3> QED
      BY <2>1, <3>1 DEF HostOK
  <2> QED
    BY <2>2, <2>3
<1> QED
  BY <1>1 DEF Cert, Agree

LEMMA LaterOpOK ==
    ASSUME NEW R, NEW b, NEW i \in Nat, NEW j \in Nat, i <= j, NEW op, OpOK(R, b, i, op)
    PROVE  OpOK(R, b, j, op)
  BY DEF OpOK, Known

LEMMA SplicedOK ==
    ASSUME NEW R, NEW b, NEW old \in Seq(Operation), NEW ops \in Seq(Operation), NEW new,
           NEW at \in 0..Len(old), Spliced(old, at, ops, new), BodyOK(R, b, old),
           \A i \in 1..Len(ops) : OpOK(R, b, at + i, ops[i])
    PROVE  BodyOK(R, b, new)
<1>0. Len(old) \in Nat /\ Len(ops) \in Nat /\ new \in Seq(Operation) /\ Len(new) = Len(old) + Len(ops)
  BY DEF Spliced
<1> SUFFICES ASSUME NEW i \in 1..Len(new) PROVE OpOK(R, b, i, new[i])
  BY <1>0 DEF BodyOK
<1>1. CASE i \in 1..at
  BY <1>0, <1>1 DEF Spliced, BodyOK
<1>2. CASE i \in (at + 1)..(at + Len(ops))
  <2> DEFINE k == i - at
  <2>1. k \in 1..Len(ops) /\ at + k = i
    BY <1>0, <1>2
  <2> HIDE DEF k
  <2> QED
    BY <2>1 DEF Spliced
<1>3. CASE i \in (at + Len(ops) + 1)..Len(new)
  <2> DEFINE k == i - Len(ops)
  <2>1. k \in (at + 1)..Len(old) /\ Len(ops) + k = i /\ k \in DOMAIN old /\ k \in Nat /\ i \in Nat /\ k <= i
    BY <1>0, <1>3
  <2> HIDE DEF k
  <2>2. new[i] = old[k] /\ OpOK(R, b, k, old[k]) /\ old[k] \in Operation
    BY <2>1 DEF Spliced, BodyOK
  <2> QED
    BY <2>1, <2>2, LaterOpOK
<1> QED
  BY <1>0, <1>1, <1>2, <1>3

LEMMA CertInsert ==
    ASSUME NEW bs, BlocksTyped(bs), NEW R, Cert(bs, R), NEW p, p.block \in DOMAIN bs,
           p.at \in 0..Len(bs[p.block].body), NEW ops \in Seq(Operation),
           \A i \in 1..Len(ops) : OpOK(R, p.block, p.at + i, ops[i])
    PROVE  Cert(InsertOps(bs, p, ops), R)
<1> DEFINE new == InsertOps(bs, p, ops)
<1>1. /\ DOMAIN new = DOMAIN bs /\ \A b \in DOMAIN bs : b # p.block => new[b] = bs[b]
      /\ new[p.block].within = bs[p.block].within
      /\ Spliced(bs[p.block].body, p.at, ops, new[p.block].body)
  BY OpsInserted
<1> HIDE DEF new
<1>2. \A b \in DOMAIN bs : new[b].within = bs[b].within
  BY <1>1
<1>3. ASSUME NEW b \in DOMAIN bs PROVE HostOK(new, R, b) /\ BodyOK(R, b, new[b].body)
  <2>1. HostOK(bs, R, b) /\ BodyOK(R, b, bs[b].body)
    BY DEF Cert
  <2>2. HostOK(new, R, b)
    BY <1>1, <1>2, <2>1 DEF HostOK
  <2>3. CASE b # p.block
    BY <1>1, <2>1, <2>2, <2>3
  <2>4. CASE b = p.block
    <3>1. bs[b] \in BlockRecord
      BY DEF BlocksTyped
    <3>2. bs[b].body \in Seq(Operation)
      BY <3>1 DEF BlockRecord
    <3>3. BodyOK(R, b, new[b].body)
      BY <1>1, <2>1, <2>4, <3>2, SplicedOK
    <3> QED
      BY <2>2, <3>3
  <2> QED
    BY <2>3, <2>4
<1>4. Cert(new, R)
  BY <1>1, <1>2, <1>3 DEF Cert
<1> QED
  BY <1>4 DEF new

\* Blocks are added: blank ones of main, or one region.
LEMMA CertGrown ==
    ASSUME NEW bs, NEW R, Cert(bs, R), NEW new, DOMAIN bs \subseteq DOMAIN new,
           DOMAIN new \subseteq DOMAIN R, \A b \in DOMAIN bs : new[b] = bs[b],
           \A b \in DOMAIN new \ DOMAIN bs : HostOK(new, R, b) /\ BodyOK(R, b, new[b].body)
    PROVE  Cert(new, R)
<1>1. ASSUME NEW b \in DOMAIN bs PROVE HostOK(new, R, b) /\ BodyOK(R, b, new[b].body)
  <2>1. HostOK(bs, R, b) /\ BodyOK(R, b, bs[b].body) /\ new[b] = bs[b]
    BY DEF Cert
  <2> QED
    BY <2>1 DEF HostOK
<1> QED
  BY <1>1 DEF Cert

LEMMA CertBlanks ==
    ASSUME NEW bs, BlocksTyped(bs), NEW R, Cert(bs, R), NEW n \in Nat,
           \A b \in 1..(Len(bs) + n) : b \in DOMAIN R,
           \A b \in (Len(bs) + 1)..(Len(bs) + n) : b \in R[b]
    PROVE  Cert(bs \o [i \in 1..n |-> Block(<<>>, {})], R)
<1> DEFINE none == Block(<<>>, {})
           added == [i \in 1..n |-> none]
           new == bs \o added
<1>1. bs \in Seq(BlockRecord) /\ none.body = <<>> /\ none.within = {}
  BY DEF BlocksTyped, Block
<1>2. none \in BlockRecord
  BY DEF Block, BlockRecord
<1> HIDE DEF none
<1>3. added \in Seq(BlockRecord) /\ Len(added) = n /\ \A i \in 1..n : added[i] = none
  BY <1>2
<1> HIDE DEF added
<1>4. new \in Seq(BlockRecord) /\ Len(new) = Len(bs) + n
  BY <1>1, <1>3, Concatenated
<1>5. \A c \in 1..Len(bs) : new[c] = bs[c]
  BY <1>1, <1>3, Concatenated
<1>6. \A i \in 1..n : new[Len(bs) + i] = none
  BY <1>1, <1>3, Concatenated
<1> HIDE DEF new
<1>7. /\ DOMAIN bs \subseteq DOMAIN new /\ DOMAIN new \subseteq DOMAIN R /\ \A b \in DOMAIN bs : new[b] = bs[b]
      /\ Len(bs) \in Nat /\ DOMAIN bs = 1..Len(bs) /\ DOMAIN new = 1..(Len(bs) + n)
  BY <1>1, <1>4, <1>5
<1>8. ASSUME NEW b \in DOMAIN new \ DOMAIN bs PROVE HostOK(new, R, b) /\ BodyOK(R, b, new[b].body)
  <2> DEFINE i == b - Len(bs)
  <2>1. i \in 1..n /\ Len(bs) + i = b /\ b \in (Len(bs) + 1)..(Len(bs) + n)
    BY <1>7
  <2> HIDE DEF i
  <2>2. new[b] = none /\ b \in R[b]
    BY <1>6, <2>1
  <2>3. DOMAIN new[b].body = {} /\ new[b].within = {}
    BY <1>1, <2>2
  <2> QED
    BY <2>2, <2>3 DEF HostOK, BodyOK
<1>9. Cert(new, R)
  BY <1>7, <1>8, CertGrown
<1> QED
  BY <1>9 DEF new, added, none

\* The region is nested in block c, and in what c is nested in.
LEMMA CertRegion ==
    ASSUME NEW bs, BlocksTyped(bs), NEW R, Cert(bs, R), NEW c \in DOMAIN bs, NEW block \in BlockRecord,
           block.within = bs[c].within \cup {c}, Len(bs) + 1 \in DOMAIN R,
           R[Len(bs) + 1] = R[c] \cup {c}, BodyOK(R, Len(bs) + 1, block.body)
    PROVE  Cert(Append(bs, block), R)
<1> DEFINE new == Append(bs, block)
           n == Len(bs) + 1
<1>1. bs \in Seq(BlockRecord)
  BY DEF BlocksTyped
<1>2. /\ \A b \in DOMAIN bs : new[b] = bs[b]
      /\ new[n] = block /\ DOMAIN new = DOMAIN bs \cup {n}
  BY <1>1, Appended
<1> HIDE DEF new
<1>3. ASSUME NEW b \in DOMAIN new \ DOMAIN bs PROVE HostOK(new, R, b) /\ BodyOK(R, b, new[b].body)
  <2>1. b = n /\ new[b] = block /\ new[b].within # {} /\ R[b] = R[c] \cup {c}
    BY <1>2
  <2>2. HostOK(bs, R, c)
    BY DEF Cert
  <2>3. CASE bs[c].within = {}
    <3>1. c \in new[b].within /\ c \in DOMAIN new /\ new[c].within = {}
          /\ R[b] \subseteq new[b].within \cup R[c]
      BY <1>2, <2>1, <2>3
    <3> QED
      BY <2>1, <3>1 DEF HostOK
  <2>4. CASE bs[c].within # {}
    <3>1. PICK f \in bs[c].within : /\ f \in DOMAIN bs /\ bs[f].within = {}
                                    /\ R[c] \subseteq bs[c].within \cup R[f]
      BY <2>2, <2>4 DEF HostOK
    <3>2. f \in new[b].within /\ f \in DOMAIN new /\ new[f].within = {}
          /\ R[b] \subseteq new[b].within \cup R[f]
      BY <1>2, <2>1, <3>1
    <3> QED
      BY <2>1, <3>2 DEF HostOK
  <2> QED
    BY <2>3, <2>4
<1>4. DOMAIN new \subseteq DOMAIN R
  BY <1>2 DEF Cert
<1>5. Cert(new, R)
  BY <1>2, <1>3, <1>4, CertGrown
<1> QED
  BY <1>5 DEF new
----------------------------------------------------------------------------
(* What the values CodeGen still has to use are, and the blocks it still    *)
(* has to branch to: the first n operands, the storage of the variables in  *)
(* the scopes C, and the locals of the first K visits that have not         *)
(* returned.                                                                *)

Taken(vals, n) == {vals[i] : i \in 1..n}
Stored(st, C) == {st[s] : s \in {t \in DOMAIN st : t[1] \in C}}
Looping(ms, K) == {j \in 1..K : ms[j].scoped}
Branched(ms, K) == {j \in 1..K : ~ms[j].scoped}
Live(vals, n, st, C, ls, ms, K) ==
    {const_zero} \cup Taken(vals, n) \cup Stored(st, C)
    \cup {ls[j].result : j \in Looping(ms, K)} \cup {Element(ls[j]) : j \in Looping(ms, K)}
Targets(ls, ms, K) ==
    ({ls[j].header : j \in Branched(ms, K)} \cup {ls[j].body : j \in Branched(ms, K)}
     \cup {ls[j].merge : j \in Branched(ms, K)}) \ {0}

\* At place p the values V may be used, and the blocks T be branched to.
Frame(R, V, T, p) == /\ p.block \in DOMAIN R
                     /\ \A v \in V : KnownAt(R, v, p)
                     /\ \A t \in T : Reachable(R, t, p.block)

\* The places the visit with the k-th locals comes back to.
Resumable(R, sc, vals, st, ls, ms, k) ==
    LET m == ms[k]
        inner == Chain(sc, m.scope)
        outer == Chain(sc, sc[m.scope].enclosing)
    IN  IF m.scoped
        THEN Frame(R, Live(vals, m.base, st, outer, ls, ms, k - 1) \cup {ls[k].result},
                   Targets(ls, ms, k - 1), ls[k].save)
        ELSE /\ Frame(R, Live(vals, m.base, st, inner, ls, ms, k - 1),
                      Targets(ls, ms, k - 1), StartOf(ls[k].merge))
             /\ Frame(R, Live(vals, m.base, st, inner, ls, ms, k),
                      Targets(ls, ms, k), StartOf(ls[k].body))

LEMMA FrameKept ==
    ASSUME NEW R, NEW V, NEW T, NEW p, Frame(R, V, T, p), NEW S, Agree(R, S),
           NEW W, W \subseteq V, NEW U, U \subseteq T
    PROVE  Frame(S, W, U, p)
<1>1. p.block \in DOMAIN R
  BY DEF Frame
<1>2. \A v \in W : KnownAt(S, v, p)
  BY <1>1, AgreeKnown DEF Frame, KnownAt
<1>3. \A t \in U : Reachable(S, t, p.block)
  BY <1>1, AgreeKnown DEF Frame
<1> QED
  BY <1>1, <1>2, <1>3 DEF Frame, Agree

\* A place further down in the block, or in a block that is new.
PlaceAfter(R, p, S, q) ==
    \/ q.block = p.block /\ p.at \in Nat /\ q.at \in Nat /\ p.at <= q.at
    \/ /\ q.block \notin DOMAIN R /\ q.block \in DOMAIN S
       /\ R[p.block] \subseteq DOMAIN R /\ R[p.block] \cup {p.block} \subseteq S[q.block]

LEMMA FrameMoved ==
    ASSUME NEW R, NEW V, NEW T, NEW p, Frame(R, V, T, p), NEW S, Agree(R, S),
           NEW q, PlaceAfter(R, p, S, q), NEW W, NEW X, W \subseteq V \cup X,
           \A v \in X : KnownAt(S, v, q), NEW U, NEW Y, U \subseteq T \cup Y,
           \A t \in Y : Reachable(S, t, q.block)
    PROVE  Frame(S, W, U, q)
<1>1. p.block \in DOMAIN R /\ S[p.block] = R[p.block] /\ q.block \in DOMAIN S
  BY DEF Frame, Agree, PlaceAfter
<1>2. ASSUME NEW v \in V PROVE KnownAt(S, v, q)
  <2>1. KnownAt(R, v, p)
    BY DEF Frame
  <2>2. CASE q.block = p.block /\ p.at \in Nat /\ q.at \in Nat /\ p.at <= q.at
    BY <1>1, <2>1, <2>2 DEF KnownAt, Known
  <2>3. CASE /\ q.block \notin DOMAIN R
             /\ R[p.block] \subseteq DOMAIN R /\ R[p.block] \cup {p.block} \subseteq S[q.block]
    BY <1>1, <2>1, <2>3 DEF KnownAt, Known
  <2> QED
    BY <2>2, <2>3 DEF PlaceAfter
<1>3. ASSUME NEW t \in T PROVE Reachable(S, t, q.block)
  <2>1. t \in DOMAIN R /\ R[t] \ {t} \subseteq R[p.block] \cup {p.block}
    BY DEF Frame, Reachable
  <2>2. t \in DOMAIN S /\ S[t] = R[t]
    BY <2>1 DEF Agree
  <2>3. R[p.block] \cup {p.block} \subseteq S[q.block] \cup {q.block}
    BY <1>1 DEF PlaceAfter
  <2> QED
    BY <2>1, <2>2, <2>3 DEF Reachable
<1> QED
  BY <1>1, <1>2, <1>3 DEF Frame

\* Nothing is stored anew in the scopes C.
Apart(st, new, C) == \A s \in DOMAIN new : s[1] \in C => s \in DOMAIN st /\ new[s] = st[s]

LEMMA LiveWithin ==
    ASSUME NEW vals, NEW n \in Nat, NEW st, NEW C, NEW ls, NEW ms, NEW K \in Nat,
           NEW vals2, NEW n2 \in Nat, n2 <= n, \A i \in 1..n2 : vals2[i] = vals[i],
           NEW st2, NEW C2, C2 \subseteq C, Apart(st, st2, C2),
           NEW ls2, NEW ms2, NEW K2 \in Nat, K2 <= K,
           \A j \in 1..K2 : ls2[j] = ls[j] /\ ms2[j] = ms[j]
    PROVE  Live(vals2, n2, st2, C2, ls2, ms2, K2) \subseteq Live(vals, n, st, C, ls, ms, K)
<1>1. Taken(vals2, n2) \subseteq Taken(vals, n)
  BY DEF Taken
<1>2. Stored(st2, C2) \subseteq Stored(st, C)
  BY DEF Stored, Apart
<1>3. Looping(ms2, K2) \subseteq Looping(ms, K) /\ \A j \in Looping(ms2, K2) : ls2[j] = ls[j]
  BY DEF Looping
<1>4. {ls2[j].result : j \in Looping(ms2, K2)} \subseteq {ls[j].result : j \in Looping(ms, K)}
  BY <1>3
<1>5. {Element(ls2[j]) : j \in Looping(ms2, K2)} \subseteq {Element(ls[j]) : j \in Looping(ms, K)}
  BY <1>3
<1> QED
  BY <1>1, <1>2, <1>4, <1>5 DEF Live

LEMMA TargetsWithin ==
    ASSUME NEW ls, NEW ms, NEW K \in Nat, NEW ls2, NEW ms2, NEW K2 \in Nat, K2 <= K,
           \A j \in 1..K2 : ls2[j] = ls[j] /\ ms2[j] = ms[j]
    PROVE  Targets(ls2, ms2, K2) \subseteq Targets(ls, ms, K)
<1>1. Branched(ms2, K2) \subseteq Branched(ms, K) /\ \A j \in Branched(ms2, K2) : ls2[j] = ls[j]
  BY DEF Branched
<1>2. {ls2[j].header : j \in Branched(ms2, K2)} \subseteq {ls[j].header : j \in Branched(ms, K)}
  BY <1>1
<1>3. {ls2[j].body : j \in Branched(ms2, K2)} \subseteq {ls[j].body : j \in Branched(ms, K)}
  BY <1>1
<1>4. {ls2[j].merge : j \in Branched(ms2, K2)} \subseteq {ls[j].merge : j \in Branched(ms, K)}
  BY <1>1
<1> QED
  BY <1>2, <1>3, <1>4 DEF Targets

\* The first K of the visits that have not returned are left alone.
LeftAlone(sc, vals, st, ls, ms, vals2, st2, ls2, ms2, K) ==
    \A k \in 1..K :
        /\ k \in 1..Len(ms) /\ ls2[k] = ls[k] /\ ms2[k] = ms[k]
        /\ \A i \in 1..ms[k].base : vals2[i] = vals[i]
        /\ Apart(st, st2, Chain(sc, ms[k].scope))
        /\ Apart(st, st2, Chain(sc, sc[ms[k].scope].enclosing))

LEMMA ResumableKept ==
    ASSUME NEW R, NEW S, Agree(R, S), NEW sc, NEW vals, NEW st, NEW ls, NEW ms \in Seq(Mark),
           \A k \in 1..Len(ms) : Resumable(R, sc, vals, st, ls, ms, k),
           NEW vals2, NEW st2, NEW ls2, NEW ms2, NEW K \in Nat,
           LeftAlone(sc, vals, st, ls, ms, vals2, st2, ls2, ms2, K)
    PROVE  \A k \in 1..K : Resumable(S, sc, vals2, st2, ls2, ms2, k)
<1> SUFFICES ASSUME NEW k \in 1..K PROVE Resumable(S, sc, vals2, st2, ls2, ms2, k)
  OBVIOUS
<1> DEFINE m == ms[k]
           inner == Chain(sc, m.scope)
           outer == Chain(sc, sc[m.scope].enclosing)
<1>1. /\ k \in 1..Len(ms) /\ ls2[k] = ls[k] /\ ms2[k] = m /\ m \in Mark
      /\ \A i \in 1..m.base : vals2[i] = vals[i]
      /\ Apart(st, st2, inner) /\ Apart(st, st2, outer) /\ Resumable(R, sc, vals, st, ls, ms, k)
  BY DEF LeftAlone
<1>2. m.base \in Nat /\ m.base <= m.base /\ k \in Nat /\ k - 1 \in Nat /\ k <= k /\ k - 1 <= k - 1
  BY <1>1 DEF Mark
<1>3. \A j \in 1..k : ls2[j] = ls[j] /\ ms2[j] = ms[j]
  BY DEF LeftAlone
<1>4. \A j \in 1..(k - 1) : ls2[j] = ls[j] /\ ms2[j] = ms[j]
  BY <1>3
<1> HIDE DEF m, inner, outer
<1> DEFINE n == m.base
           h == k - 1
<1>a. /\ n \in Nat /\ n <= n /\ h \in Nat /\ h <= h /\ k \in Nat /\ k <= k
      /\ inner \subseteq inner /\ outer \subseteq outer
      /\ \A i \in 1..n : vals2[i] = vals[i]
      /\ \A j \in 1..h : ls2[j] = ls[j] /\ ms2[j] = ms[j]
      /\ \A j \in 1..k : ls2[j] = ls[j] /\ ms2[j] = ms[j]
      /\ Apart(st, st2, inner) /\ Apart(st, st2, outer)
  BY <1>1, <1>2, <1>3, <1>4
<1> HIDE DEF n, h
<1>4a. Targets(ls2, ms2, h) \subseteq Targets(ls, ms, h)
  BY <1>a, TargetsWithin
<1>5. Live(vals2, n, st2, outer, ls2, ms2, h) \subseteq Live(vals, n, st, outer, ls, ms, h)
  BY <1>a, LiveWithin
<1>6. Live(vals2, n, st2, inner, ls2, ms2, h) \subseteq Live(vals, n, st, inner, ls, ms, h)
  BY <1>a, LiveWithin
<1>7. Live(vals2, n, st2, inner, ls2, ms2, k) \subseteq Live(vals, n, st, inner, ls, ms, k)
  BY <1>a, LiveWithin
<1>7a. Targets(ls2, ms2, k) \subseteq Targets(ls, ms, k)
  BY <1>a, TargetsWithin
<1>8. CASE m.scoped
  <2>1. Frame(R, Live(vals, n, st, outer, ls, ms, h) \cup {ls[k].result},
              Targets(ls, ms, h), ls[k].save)
    BY <1>1, <1>8 DEF Resumable, m, outer, n, h
  <2>2. Live(vals2, n, st2, outer, ls2, ms2, h) \cup {ls[k].result} \subseteq
           Live(vals, n, st, outer, ls, ms, h) \cup {ls[k].result}
    BY <1>5
  <2>3. Frame(S, Live(vals2, n, st2, outer, ls2, ms2, h) \cup {ls[k].result},
              Targets(ls2, ms2, h), ls[k].save)
    BY <1>4a, <2>1, <2>2, FrameKept
  <2> QED
    BY <1>1, <1>8, <2>3 DEF Resumable, outer, n, h, m
<1>9. CASE ~m.scoped
  <2>1. /\ Frame(R, Live(vals, n, st, inner, ls, ms, h), Targets(ls, ms, h),
                 StartOf(ls[k].merge))
        /\ Frame(R, Live(vals, n, st, inner, ls, ms, k), Targets(ls, ms, k),
                 StartOf(ls[k].body))
    BY <1>1, <1>9 DEF Resumable, m, inner, n, h
  <2>2. Frame(S, Live(vals2, n, st2, inner, ls2, ms2, h), Targets(ls2, ms2, h),
              StartOf(ls[k].merge))
    BY <1>4a, <1>6, <2>1, FrameKept
  <2>3. Frame(S, Live(vals2, n, st2, inner, ls2, ms2, k), Targets(ls2, ms2, k),
              StartOf(ls[k].body))
    BY <1>7, <1>7a, <2>1, FrameKept
  <2> QED
    BY <1>1, <1>9, <2>2, <2>3 DEF Resumable, inner, n, h, m
<1> QED
  BY <1>8, <1>9

----------------------------------------------------------------------------
(* The invariant, and a visit. *)

\* The marks are those of the visits that have not returned, whose locals are "ls".
LocalsMarked(ls, ms, sc) ==
    /\ Len(ls) = Len(ms)
    /\ \A k \in 1..Len(ms) : /\ ms[k].scope \in DOMAIN sc
                             /\ ~ms[k].scoped => ls[k].body # 0 /\ ls[k].merge # 0

CertAt(R, ms) ==
    /\ Cert(blocks, R) /\ DOMAIN R = DOMAIN blocks /\ \A b \in DOMAIN R : R[b] \subseteq DOMAIN R
    /\ LocalsMarked(locals, ms, scopes)
    /\ Frame(R, Live(opperands, Len(opperands), storage, Chain(scopes, cg_scope), locals, ms, Len(ms)),
             Targets(locals, ms, Len(ms)), ip)
    /\ \A k \in 1..Len(ms) : Resumable(R, scopes, opperands, storage, locals, ms, k)
NestAt(M) == /\ M \in Seq(Nest) /\ Nested(ast, M) /\ M[Len(ast) + 1] = [n |-> 0, marks |-> <<>>]
             /\ M[pos].n = Len(opperands)

CertInv ==
    /\ codegen = "emitting" => \E R, M : NestAt(M) /\ CertAt(R, M[pos].marks)
    /\ codegen = "generated" => \E R : Cert(blocks, R)

Certifying == /\ DefRefInv /\ VisitsInv /\ ReplayInv /\ EmitInv /\ UNCHANGED defref_vars
              /\ BlockScopes(ast) /\ ChainsOK(scopes)

\* The operands the visit leaves: n old ones, and at most one new.
OperandsLeft(n) == /\ n = Len(opperands) - Arity(ThisVisit.node) /\ n \in Nat
                /\ Len(opperands') = n + Pushes(ThisVisit.node)
                /\ \A i \in 1..n : opperands'[i] = opperands[i]

CertVisit(M, n) ==
    /\ pos \in DOMAIN ast /\ pos \in Nat /\ ThisVisit = ast[pos] /\ ThisVisit \in Visit
    /\ ThisVisit.scope \in DOMAIN scopes /\ codegen = "emitting"
    /\ M[pos].marks \in Seq(Mark) /\ M[pos + 1].marks \in Seq(Mark)
    /\ NestVisit(ThisVisit, n, M[pos].marks, M[pos + 1])
    /\ OperandsLeft(n)

LEMMA AtCertVisit ==
    ASSUME Certifying, NEW M, NestAt(M), NEW nodes, Visiting(nodes), NEW n, OperandsLeft(n)
    PROVE  CertVisit(M, n)
<1>1. /\ codegen = "emitting" /\ ast \in Seq(Visit) /\ pos \in Nat /\ pos \in 1..Len(ast)
      /\ Len(ast) \in Nat
  BY DEF Visiting, Certifying, DefRefInv, ReplayInv
<1>2. pos \in DOMAIN ast /\ ThisVisit = ast[pos] /\ ThisVisit \in Visit
  BY <1>1 DEF ThisVisit
<1>3. ThisVisit.scope \in DOMAIN scopes
  BY <1>2 DEF Certifying, VisitsInv, VisitsOK
<1>4. M \in Seq(Nest) /\ Len(M) = Len(ast) + 1
  BY DEF NestAt, Nested
<1>5. pos \in 1..Len(M) /\ pos + 1 \in 1..Len(M)
  BY <1>1, <1>4
<1>6. M[pos] \in Nest /\ M[pos + 1] \in Nest
  BY <1>4, <1>5
<1>7. NestStep(ast[pos], M[pos], M[pos + 1])
  BY <1>2 DEF NestAt, Nested
<1> QED
  BY <1>1, <1>2, <1>3, <1>6, <1>7 DEF CertVisit, NestStep, NestAt, Nest, OperandsLeft

LEMMA CertNext ==
    ASSUME NEW M, NestAt(M), NEW n, CertVisit(M, n), UNCHANGED ast, pos' = pos + 1,
           NEW S, NEW ms, ms = M[pos + 1].marks, CertAt(S, ms)', codegen' = "emitting"
    PROVE  CertInv'
<1>1. M[pos + 1].n = Len(opperands')
  BY DEF CertVisit, NestVisit, OperandsLeft
<1>2. NestAt(M)' /\ ms = M[pos'].marks
  BY <1>1 DEF NestAt
<1>3. CertAt(S, M[pos].marks)'
  BY <1>2 DEF CertAt
<1> QED
  BY <1>2, <1>3 DEF CertInv

\* The scopes of a chain are not newer than its scope.
LEMMA ChainIsOld ==
    ASSUME DefRefInv, NEW s \in DOMAIN scopes
    PROVE  /\ \A t \in Chain(scopes, s) : t <= s
           /\ \A t \in Chain(scopes, scopes[s].enclosing) : t <= s
<1>1. ScopesOK(scopes) /\ s \in Nat
  BY DEF DefRefInv, ScopesOK
<1>2. \A r \in DOMAIN scopes : scopes[r].chain \subseteq 1..r
  BY <1>1 DEF ScopesOK
<1>3. scopes[s].enclosing \in 0..(s - 1) /\ DOMAIN scopes = 1..Len(scopes) /\ Len(scopes) \in Nat
  BY <1>1 DEF ScopesOK
<1>4. \A t \in Chain(scopes, s) : t <= s
  BY <1>1, <1>2 DEF Chain
<1>5. \A t \in Chain(scopes, scopes[s].enclosing) : t <= s
  BY <1>1, <1>2, <1>3 DEF Chain, NoScope
<1> QED
  BY <1>4, <1>5

StorageKept == \/ UNCHANGED storage
               \/ IsDeclaration(ThisVisit) /\ GiveStorage(<<ThisVisit.scope, ThisVisit.text>>)

LEMMA StorageApart ==
    ASSUME StorageKept, NEW C, IsDeclaration(ThisVisit) => ThisVisit.scope \notin C
    PROVE  Apart(storage, storage', C)
<1>1. CASE UNCHANGED storage
  BY <1>1 DEF Apart
<1>2. CASE IsDeclaration(ThisVisit) /\ GiveStorage(<<ThisVisit.scope, ThisVisit.text>>)
  <2> DEFINE symbol == <<ThisVisit.scope, ThisVisit.text>>
             given == [s \in DOMAIN storage \cup {symbol} |->
                        IF s = symbol THEN Result("address") ELSE storage[s]]
  <2>1. storage' = given /\ symbol[1] \notin C
    BY <1>2 DEF GiveStorage
  <2> HIDE DEF symbol
  <2>2. \A s \in DOMAIN given : s[1] \in C => s \in DOMAIN storage /\ given[s] = storage[s]
    BY <2>1
  <2> HIDE DEF given
  <2> QED
    BY <2>1, <2>2 DEF Apart
<1> QED
  BY <1>1, <1>2 DEF StorageKept

LEMMA MarksLeftAlone ==
    ASSUME Certifying, NEW M, NEW n, CertVisit(M, n), NEW ls, LocalsMarked(ls, M[pos].marks, scopes),
           StorageKept, NEW ls2, NEW ms2, NEW K \in Nat, K <= Len(M[pos].marks),
           \A k \in 1..K : ls2[k] = ls[k] /\ ms2[k] = M[pos].marks[k]
    PROVE  LeftAlone(scopes, opperands, storage, ls, M[pos].marks, opperands', storage', ls2, ms2, K)
<1> DEFINE ms == M[pos].marks
<1>1. /\ ms \in Seq(Mark) /\ OperandsLeft(n) /\ n \in Nat /\ Low(ms, n) /\ Len(ms) \in Nat
      /\ IsDeclaration(ThisVisit) => \A k \in 1..Len(ms) : ms[k].scope < ThisVisit.scope
      /\ \A k \in 1..Len(ms) : ms[k].scope \in DOMAIN scopes
      /\ scopes \in Seq(ScopeRecord) /\ ThisVisit.scope \in DOMAIN scopes
  BY DEF CertVisit, NestVisit, Certifying, DefRefInv, ScopesOK, LocalsMarked
<1> HIDE DEF ms
<1> SUFFICES ASSUME NEW k \in 1..K
             PROVE  /\ k \in 1..Len(ms) /\ ls2[k] = ls[k] /\ ms2[k] = ms[k]
                    /\ \A i \in 1..ms[k].base : opperands'[i] = opperands[i]
                    /\ Apart(storage, storage', Chain(scopes, ms[k].scope))
                    /\ Apart(storage, storage', Chain(scopes, scopes[ms[k].scope].enclosing))
  BY DEF LeftAlone, ms
<1>2. k \in 1..Len(ms) /\ ls2[k] = ls[k] /\ ms2[k] = ms[k]
  BY <1>1 DEF ms
<1>3. ms[k] \in Mark
  BY <1>1, <1>2
<1>4. \A i \in 1..ms[k].base : opperands'[i] = opperands[i]
  <2>1. ms[k].base \in Nat /\ ms[k].base <= n
    BY <1>1, <1>2, <1>3 DEF Low, Mark
  <2> QED
    BY <1>1, <2>1 DEF OperandsLeft
<1>5. ms[k].scope \in DOMAIN scopes /\ ms[k].scope \in Nat /\ ThisVisit.scope \in Nat
      /\ (IsDeclaration(ThisVisit) => ms[k].scope < ThisVisit.scope)
  BY <1>1, <1>2
<1> DEFINE s == ms[k].scope
           now == ThisVisit.scope
<1>6. s \in DOMAIN scopes /\ s \in Nat /\ now \in Nat /\ (IsDeclaration(ThisVisit) => s < now)
  BY <1>5
<1>6a. DefRefInv
  BY DEF Certifying
<1> HIDE DEF s, now
<1>7. IsDeclaration(ThisVisit) => now \notin Chain(scopes, s) /\ now \notin Chain(scopes, scopes[s].enclosing)
  <2>1. /\ \A t \in Chain(scopes, s) : t <= s
        /\ \A t \in Chain(scopes, scopes[s].enclosing) : t <= s
    BY <1>6, <1>6a, ChainIsOld
  <2>2. s < now => ~(now <= s)
    BY <1>6
  <2> QED
    BY <1>6, <2>1, <2>2
<1>8. Apart(storage, storage', Chain(scopes, s))
  BY <1>7, StorageApart DEF now
<1>9. Apart(storage, storage', Chain(scopes, scopes[s].enclosing))
  BY <1>7, StorageApart DEF now
<1> QED
  BY <1>2, <1>4, <1>8, <1>9 DEF s

----------------------------------------------------------------------------
(* The operands the visits leave. *)

First(rest, n) == /\ rest \in Seq(Value(blocks)) /\ Len(rest) = n
                  /\ \A i \in 1..n : rest[i] = opperands[i]

LEMMA RestOfOperands ==
    ASSUME Certifying, NEW M, NestAt(M), NEW nodes, Visiting(nodes),
           NEW n, n = Len(opperands) - Arity(ThisVisit.node)
    PROVE  /\ n \in Nat /\ opperands \in Seq(Value(blocks))
           /\ Arity(ThisVisit.node) = 0 => First(opperands, n)
           /\ Arity(ThisVisit.node) = 1 => /\ opperands # <<>> /\ First(Pop(opperands), n)
                                           /\ TopValue \in Value(blocks)
                                           /\ TopValue = opperands[Len(opperands)]
           /\ Arity(ThisVisit.node) = 2 => Len(opperands) >= 2 /\ First(Pop(Pop(opperands)), n)
<1>1. /\ ast \in Seq(Visit) /\ pos \in Nat /\ pos \in 1..Len(ast) /\ Len(ast) \in Nat
      /\ opperands \in Seq(Value(blocks)) /\ pos \in DOMAIN ast
  BY DEF Visiting, Certifying, DefRefInv, ReplayInv, EmitInv
<1>2. NestStep(ast[pos], M[pos], M[pos + 1])
  BY <1>1 DEF NestAt, Nested
<1>3. n \in Nat
  BY <1>2 DEF NestStep, NestVisit, NestAt, ThisVisit
<1>4. Len(opperands) \in Nat
  BY <1>1
<1>5. ASSUME Arity(ThisVisit.node) = 1
      PROVE  /\ opperands # <<>> /\ First(Pop(opperands), n)
             /\ TopValue \in Value(blocks) /\ TopValue = opperands[Len(opperands)]
  <2>1. opperands # <<>> /\ n = Len(opperands) - 1
    BY <1>3, <1>4, <1>5
  <2>2. /\ Top(opperands) = opperands[Len(opperands)] /\ Top(opperands) \in Value(blocks)
        /\ Pop(opperands) \in Seq(Value(blocks)) /\ Len(Pop(opperands)) = Len(opperands) - 1
        /\ \A i \in 1..(Len(opperands) - 1) : Pop(opperands)[i] = opperands[i]
    BY <1>1, <2>1, TopAndPop
  <2> QED
    BY <2>1, <2>2 DEF First, TopValue
<1>6. ASSUME Arity(ThisVisit.node) = 2 PROVE Len(opperands) >= 2 /\ First(Pop(Pop(opperands)), n)
  <2>1. opperands # <<>> /\ n = Len(opperands) - 2 /\ Len(opperands) >= 2
    BY <1>3, <1>4, <1>6
  <2> DEFINE r == Pop(opperands)
  <2>2. /\ r \in Seq(Value(blocks)) /\ Len(r) = Len(opperands) - 1
        /\ \A i \in 1..(Len(opperands) - 1) : r[i] = opperands[i]
    BY <1>1, <2>1, TopAndPop
  <2> HIDE DEF r
  <2>3. r # <<>>
    BY <2>1, <2>2, <1>4
  <2>4. /\ Pop(r) \in Seq(Value(blocks)) /\ Len(Pop(r)) = Len(r) - 1
        /\ \A i \in 1..(Len(r) - 1) : Pop(r)[i] = r[i]
    BY <2>2, <2>3, TopAndPop
  <2>5. Len(r) - 1 = n /\ \A i \in 1..n : r[i] = opperands[i]
    BY <1>4, <2>1, <2>2
  <2>6. First(Pop(r), n)
    BY <2>4, <2>5 DEF First
  <2> QED
    BY <2>1, <2>6 DEF r
<1>7. Arity(ThisVisit.node) = 0 => First(opperands, n)
  BY <1>1, <1>4 DEF First
<1> QED
  BY <1>1, <1>3, <1>5, <1>6, <1>7

LEMMA LeavesRest ==
    ASSUME NEW n \in Nat, n = Len(opperands) - Arity(ThisVisit.node), NEW rest, First(rest, n),
           opperands' = rest, Pushes(ThisVisit.node) = 0
    PROVE  OperandsLeft(n) /\ Len(opperands') = n
  BY DEF OperandsLeft, First

LEMMA LeavesResult ==
    ASSUME NEW n \in Nat, n = Len(opperands) - Arity(ThisVisit.node), NEW rest, First(rest, n),
           NEW v \in Value(blocks), opperands' = Append(rest, v), Pushes(ThisVisit.node) = 1
    PROVE  OperandsLeft(n) /\ Len(opperands') = n + 1 /\ opperands'[n + 1] = v
<1>1. rest \in Seq(Value(blocks)) /\ Len(rest) = n /\ \A i \in 1..n : rest[i] = opperands[i]
  BY DEF First
<1> DEFINE new == Append(rest, v)
<1>2. Len(new) = n + 1 /\ new[n + 1] = v /\ \A i \in 1..n : new[i] = rest[i]
  BY <1>1
<1> HIDE DEF new
<1>3. opperands' = new
  BY DEF new
<1> QED
  BY <1>1, <1>2, <1>3 DEF OperandsLeft

\* What is on the operand stack after the visit.
LEMMA TakenAfter ==
    ASSUME NEW n, OperandsLeft(n), Pushes(ThisVisit.node) \in {0, 1}
    PROVE  \A v \in Taken(opperands', Len(opperands')) :
              v \in Taken(opperands, n) \/ (Len(opperands') = n + 1 /\ v = opperands'[n + 1])
<1> SUFFICES ASSUME NEW i \in 1..Len(opperands')
             PROVE  \/ opperands'[i] \in Taken(opperands, n)
                    \/ Len(opperands') = n + 1 /\ opperands'[i] = opperands'[n + 1]
  BY DEF Taken
<1>1. CASE i \in 1..n
  BY <1>1 DEF Taken, OperandsLeft
<1>2. CASE i \notin 1..n
  BY <1>2 DEF OperandsLeft
<1> QED
  BY <1>1, <1>2

LEMMA PushesOneOrNone == \A node : Pushes(node) \in {0, 1}
  BY DEF Pushes

----------------------------------------------------------------------------
(* A visit, from what it does to the place and the stacks. *)

VisitMade(M, R, n, S, ms2, K) ==
    /\ Certifying /\ NestAt(M) /\ CertAt(R, M[pos].marks) /\ CertVisit(M, n)
    /\ pos' = pos + 1 /\ codegen' = "emitting" /\ StorageKept
    /\ Agree(R, S) /\ Cert(blocks', S) /\ DOMAIN S = DOMAIN blocks'
    /\ \A b \in DOMAIN S : S[b] \subseteq DOMAIN S
    /\ ms2 = M[pos + 1].marks /\ LocalsMarked(locals', ms2, scopes)
    /\ K \in Nat /\ K <= Len(M[pos].marks) /\ K <= Len(ms2)
    /\ \A k \in 1..K : locals'[k] = locals[k] /\ ms2[k] = M[pos].marks[k]

ChainNow == Chain(scopes, cg_scope)

LEMMA FrameGivesCert ==
    ASSUME NEW M, NEW R, NEW n, NEW S, NEW ms2, NEW K, VisitMade(M, R, n, S, ms2, K),
           Frame(S, Live(opperands', Len(opperands'), storage', ChainNow', locals', ms2, Len(ms2)),
                 Targets(locals', ms2, Len(ms2)), ip'),
           \A k \in 1..Len(ms2) :
              k > K => Resumable(S, scopes, opperands', storage', locals', ms2, k)
    PROVE  CertInv'
<1>1. /\ UNCHANGED <<ast, scopes>> /\ Certifying /\ CertVisit(M, n) /\ K \in Nat
      /\ M[pos].marks \in Seq(Mark) /\ ms2 \in Seq(Mark) /\ Len(ms2) \in Nat
  BY DEF VisitMade, Certifying, CertVisit, defref_vars
<1> DEFINE ms == M[pos].marks
<1>2. /\ \A k \in 1..Len(ms) : Resumable(R, scopes, opperands, storage, locals, ms, k)
      /\ LocalsMarked(locals, ms, scopes)
  BY DEF VisitMade, CertAt
<1>3. LeftAlone(scopes, opperands, storage, locals, ms, opperands', storage', locals', ms2, K)
  BY <1>1, <1>2, MarksLeftAlone DEF VisitMade
<1>4. \A k \in 1..K : Resumable(S, scopes, opperands', storage', locals', ms2, k)
  <2>1. Agree(R, S) /\ ms \in Seq(Mark)
    BY <1>1 DEF VisitMade
  <2> HIDE DEF ms
  <2> QED
    BY <1>1, <1>2, <1>3, <2>1, ResumableKept
<1>5. \A k \in 1..Len(ms2) : Resumable(S, scopes, opperands', storage', locals', ms2, k)
  BY <1>1, <1>4
<1>6. CertAt(S, ms2)'
  BY <1>1, <1>5 DEF CertAt, VisitMade, ChainNow
<1> QED
  BY <1>1, <1>6, CertNext DEF VisitMade

\* What was stored for the scopes of the chain, or can be used here.
StoredKnown(S) ==
    \A s \in DOMAIN storage' : s[1] \in ChainNow' =>
        \/ KnownAt(S, storage'[s], ip')
        \/ s \in DOMAIN storage /\ s[1] \in ChainNow /\ storage'[s] = storage[s]

\* The locals of the visit itself.
LocalKnown(S, l, m) ==
    IF m.scoped THEN KnownAt(S, l.result, ip') /\ KnownAt(S, Element(l), ip')
    ELSE \A t \in {l.header, l.body, l.merge} \ {0} : Reachable(S, t, ip'.block)

LEMMA PlaceKeepsCert ==
    ASSUME NEW M, NEW R, NEW n, NEW S, NEW ms2, NEW K, VisitMade(M, R, n, S, ms2, K),
           PlaceAfter(R, ip, S, ip'), StoredKnown(S),
           Len(opperands') = n + 1 => KnownAt(S, opperands'[n + 1], ip'),
           \A k \in 1..Len(ms2) :
              k > K => /\ LocalKnown(S, locals'[k], ms2[k])
                       /\ Resumable(S, scopes, opperands', storage', locals', ms2, k)
    PROVE  CertInv'
<1> DEFINE ms == M[pos].marks
           V == Live(opperands, Len(opperands), storage, ChainNow, locals, ms, Len(ms))
           T == Targets(locals, ms, Len(ms))
           W == Live(opperands', Len(opperands'), storage', ChainNow', locals', ms2, Len(ms2))
           U == Targets(locals', ms2, Len(ms2))
           X == {v \in W : KnownAt(S, v, ip')}
           Y == {t \in U : Reachable(S, t, ip'.block)}
<1>1. /\ Frame(R, V, T, ip) /\ Agree(R, S) /\ OperandsLeft(n) /\ CertVisit(M, n) /\ EmitInv
      /\ ms \in Seq(Mark) /\ ms2 \in Seq(Mark) /\ Len(ms) \in Nat /\ Len(ms2) \in Nat
      /\ K \in Nat /\ K <= Len(ms) /\ K <= Len(ms2)
      /\ \A k \in 1..K : locals'[k] = locals[k] /\ ms2[k] = ms[k]
  BY DEF VisitMade, CertAt, CertVisit, ChainNow, Certifying
<1>2. n \in Nat /\ Len(opperands) \in Nat /\ n <= Len(opperands)
  <2>1. opperands \in Seq(Value(blocks))
    BY <1>1 DEF EmitInv
  <2>2. Arity(ThisVisit.node) \in Nat
    BY DEF Arity
  <2> QED
    BY <1>1, <2>1, <2>2 DEF OperandsLeft
<1> HIDE DEF ms
<1>3. ASSUME NEW v \in W PROVE v \in V \cup X
  <2>1. CASE v = const_zero
    BY <2>1 DEF Live
  <2>2. CASE v \in Taken(opperands', Len(opperands'))
    <3>1. v \in Taken(opperands, n) \/ (Len(opperands') = n + 1 /\ v = opperands'[n + 1])
      BY <1>1, <2>2, TakenAfter, PushesOneOrNone
    <3>2. Taken(opperands, n) \subseteq Taken(opperands, Len(opperands))
      BY <1>2 DEF Taken
    <3>3. Taken(opperands, Len(opperands)) \subseteq V
      BY DEF Live
    <3> HIDE DEF V, W
    <3> QED
      BY <3>1, <3>2, <3>3
  <2>3. CASE v \in Stored(storage', ChainNow')
    <3>1. PICK s \in DOMAIN storage' : s[1] \in ChainNow' /\ v = storage'[s]
      BY <2>3 DEF Stored
    <3>2. KnownAt(S, v, ip') \/ v \in Stored(storage, ChainNow)
      BY <3>1 DEF StoredKnown, Stored
    <3>3. Stored(storage, ChainNow) \subseteq V
      BY DEF Live
    <3> HIDE DEF V, W
    <3> QED
      BY <3>2, <3>3
  <2>4. ASSUME NEW j \in Looping(ms2, Len(ms2)), v = locals'[j].result \/ v = Element(locals'[j])
        PROVE  v \in V \cup X
    <3>1. j \in 1..Len(ms2) /\ ms2[j].scoped
      BY DEF Looping
    <3>2. CASE j > K
      <4>1. KnownAt(S, locals'[j].result, ip') /\ KnownAt(S, Element(locals'[j]), ip')
        BY <3>1, <3>2 DEF LocalKnown
      <4> HIDE DEF V, W
      <4> QED
        BY <2>4, <4>1
    <3>3. CASE ~(j > K)
      <4>1. j \in 1..K
        BY <1>1, <3>1, <3>3
      <4>2. j \in Looping(ms, Len(ms)) /\ locals'[j] = locals[j]
        BY <1>1, <3>1, <4>1 DEF Looping
      <4> QED
        BY <2>4, <4>2 DEF Live
    <3> QED
      BY <3>2, <3>3
  <2>5. \/ v = const_zero \/ v \in Taken(opperands', Len(opperands'))
        \/ v \in Stored(storage', ChainNow')
        \/ \E j \in Looping(ms2, Len(ms2)) : v = locals'[j].result \/ v = Element(locals'[j])
    BY DEF Live
  <2> HIDE DEF V, W, X
  <2> QED
    BY <2>1, <2>2, <2>3, <2>4, <2>5
<1>4. ASSUME NEW t \in U PROVE t \in T \cup Y
  <2>1. PICK j \in Branched(ms2, Len(ms2)) :
           t \in {locals'[j].header, locals'[j].body, locals'[j].merge} \ {0}
    BY DEF Targets
  <2>2. j \in 1..Len(ms2) /\ ~ms2[j].scoped
    BY DEF Branched
  <2>3. CASE j > K
    <3>1. Reachable(S, t, ip'.block)
      BY <2>1, <2>2, <2>3 DEF LocalKnown
    <3> HIDE DEF T, U
    <3> QED
      BY <3>1
  <2>4. CASE ~(j > K)
    <3>1. j \in 1..K
      BY <1>1, <2>2, <2>4
    <3>2. j \in Branched(ms, Len(ms)) /\ locals'[j] = locals[j]
      BY <1>1, <2>2, <3>1 DEF Branched
    <3> QED
      BY <2>1, <3>2 DEF Targets
  <2> QED
    BY <2>3, <2>4
<1> HIDE DEF V, T, W, U
<1>5. Frame(S, W, U, ip')
  <2>1. W \subseteq V \cup X /\ U \subseteq T \cup Y
    BY <1>3, <1>4
  <2>2. (\A v \in X : KnownAt(S, v, ip')) /\ (\A t \in Y : Reachable(S, t, ip'.block))
    OBVIOUS
  <2> HIDE DEF X, Y
  <2> QED
    BY <1>1, <2>1, <2>2, FrameMoved, ZenonT(40)
<1> QED
  BY <1>5, FrameGivesCert DEF W, U

----------------------------------------------------------------------------
(* Visits that stay in their block. *)

LEMMA StraightKeepsCert ==
    ASSUME Certifying, NEW M, NestAt(M), NEW R, CertAt(R, M[pos].marks), NEW nodes, Visiting(nodes),
           ThisVisit.node \notin Opening \cup Closing, NEW n, OperandsLeft(n),
           pos' = pos + 1, codegen' = "emitting", StorageKept, UNCHANGED locals,
           Cert(blocks', R), DOMAIN blocks' = DOMAIN blocks,
           ip'.block = ip.block, ip'.at \in Nat, ip.at <= ip'.at, StoredKnown(R),
           Len(opperands') = n + 1 => KnownAt(R, opperands'[n + 1], ip')
    PROVE  CertInv'
<1>1. CertVisit(M, n)
  BY AtCertVisit
<1> DEFINE ms == M[pos].marks
           K == Len(ms)
<1>2. ms = M[pos + 1].marks /\ ms \in Seq(Mark) /\ K \in Nat
  BY <1>1 DEF CertVisit, NestVisit
<1>3. ip.at \in Nat
  BY <1>1, PlaceTyped DEF Certifying, CertVisit
<1>4. Agree(R, R) /\ PlaceAfter(R, ip, R, ip')
  BY <1>3 DEF Agree, PlaceAfter
<1>5. LocalsMarked(locals', ms, scopes)
  BY DEF CertAt
<1>6. VisitMade(M, R, n, R, ms, K)
  BY <1>1, <1>2, <1>4, <1>5 DEF VisitMade, CertAt
<1>7. \A k \in 1..Len(ms) : ~(k > K)
  BY <1>2
<1> HIDE DEF ms, K
<1> QED
  BY <1>4, <1>6, <1>7, PlaceKeepsCert

\* Values that can be used where CodeGen is.
LEMMA KnownHere ==
    ASSUME NEW R, NEW ms, CertAt(R, ms), EmitInv, codegen # "idle"
    PROVE  /\ \A i \in 1..Len(opperands) : KnownAt(R, opperands[i], ip)
           /\ \A s \in DOMAIN storage : s[1] \in ChainNow => KnownAt(R, storage[s], ip)
           /\ KnownAt(R, const_zero, ip) /\ KnownAt(R, const_one, ip)
<1>1. \A v \in Live(opperands, Len(opperands), storage, ChainNow, locals, ms, Len(ms)) : KnownAt(R, v, ip)
  BY DEF CertAt, Frame, ChainNow
<1>2. \A i \in 1..Len(opperands) : KnownAt(R, opperands[i], ip)
  BY <1>1 DEF Live, Taken
<1>3. \A s \in DOMAIN storage : s[1] \in ChainNow => KnownAt(R, storage[s], ip)
  BY <1>1 DEF Live, Stored
<1>4. KnownAt(R, const_zero, ip)
  BY <1>1 DEF Live
<1>5. KnownAt(R, const_one, ip)
  <2>1. ip.at \in Nat
    BY PlaceTyped
  <2> QED
    BY <1>4, <2>1 DEF KnownAt, Known, const_zero, const_one
<1> QED
  BY <1>2, <1>3, <1>4, <1>5

LEMMA KnownLater ==
    ASSUME NEW R, NEW v, NEW p, p.at \in Nat, KnownAt(R, v, p), NEW i \in Nat \ {0}
    PROVE  Known(R, v, p.block, p.at + i)
  BY DEF KnownAt, Known

LEMMA ResultKnown ==
    ASSUME NEW R, NEW p, p.at \in Nat, NEW m \in Nat, NEW i \in Nat, m < i, NEW type
    PROVE  Known(R, ResultAt(p, m, type), p.block, p.at + i)
  BY DEF Known, ResultAt

LEMMA EmittedCert ==
    ASSUME EmitInv, codegen # "idle", NEW R, Cert(blocks, R), NEW ops \in Seq(Operation), Emit(ops),
           \A i \in 1..Len(ops) : OpOK(R, ip.block, ip.at + i, ops[i])
    PROVE  /\ Cert(blocks', R) /\ DOMAIN blocks' = DOMAIN blocks
           /\ ip'.block = ip.block /\ ip'.at = ip.at + Len(ops) /\ ip'.at \in Nat /\ ip.at <= ip'.at
<1>1. /\ ip.block \in DOMAIN blocks /\ ip.at \in Nat /\ ip.at \in 0..Len(blocks[ip.block].body)
      /\ BlocksTyped(blocks) /\ ip \in [block: Nat, at: Nat]
  BY PlaceTyped
<1>2. blocks' = InsertOps(blocks, ip, ops) /\ ip' = After(ip, ops)
  BY DEF Emit
<1>3. Cert(blocks', R)
  BY <1>1, <1>2, CertInsert
<1>4. DOMAIN blocks' = DOMAIN blocks
  BY <1>1, <1>2, OpsInserted
<1>5. ip'.block = ip.block /\ ip'.at = ip.at + Len(ops) /\ Len(ops) \in Nat
  BY <1>1, <1>2 DEF After
<1> QED
  BY <1>1, <1>3, <1>4, <1>5

\* The scope a visit opens has no variable with storage, the one it closes is CodeGen's.
LEMMA OpenedScope ==
    ASSUME Certifying, codegen = "emitting", pos \in DOMAIN ast,
           ThisVisit.node \in {"BLOCK"} \cup ScopedOps
    PROVE  /\ \A s \in DOMAIN storage : s[1] # ThisVisit.scope
           /\ Chain(scopes, ThisVisit.scope) = {ThisVisit.scope} \cup ChainNow
<1>1. /\ ast \in Seq(Visit) /\ pos \in Nat /\ DOMAIN ast \subseteq Nat /\ pos <= Len(ast)
      /\ scopes \in Seq(ScopeRecord)
  BY DEF Certifying, DefRefInv, ScopesOK, ReplayInv
<1>2. ThisVisit.scope \in DOMAIN scopes /\ \A i \in DOMAIN ast : ast[i].scope \in DOMAIN scopes
  BY DEF Certifying, VisitsInv, VisitsOK, ThisVisit
<1>3. cg_scope = scopes[ThisVisit.scope].enclosing
  BY <1>1, SameScope DEF Certifying, ScopeBefore, ThisVisit
<1>4. \A i \in DOMAIN ast : i < pos => ast[i].scope < ThisVisit.scope
  BY DEF Certifying, VisitsInv, VisitsOK, FreshScopes, BlockScopes, ThisVisit
<1>5. ASSUME NEW s \in DOMAIN storage PROVE s[1] # ThisVisit.scope
  <2>1. PICK j \in DOMAIN ast : j < pos /\ s = <<ast[j].scope, ast[j].text>>
    BY DEF Certifying, ReplayInv
  <2>2. ast[j].scope < ThisVisit.scope /\ ast[j].scope \in Nat /\ ThisVisit.scope \in Nat
    BY <1>1, <1>2, <1>4, <2>1
  <2> QED
    BY <2>1, <2>2
<1>6. Chain(scopes, ThisVisit.scope) = {ThisVisit.scope} \cup ChainNow
  <2>1. ThisVisit.scope # NoScope
    BY <1>1, <1>2 DEF NoScope
  <2> QED
    BY <1>2, <1>3, <2>1 DEF ChainNow, Chain, Certifying, ChainsOK
<1> QED
  BY <1>5, <1>6

LEMMA ClosedScope ==
    ASSUME Certifying, codegen = "emitting", pos \in DOMAIN ast,
           ThisVisit.node \notin {"BLOCK"} \cup ScopedOps
    PROVE  /\ cg_scope = ThisVisit.scope /\ cg_scope \in DOMAIN scopes /\ cg_scope # NoScope
           /\ Chain(scopes, scopes[cg_scope].enclosing) \subseteq ChainNow
<1>1. /\ ast \in Seq(Visit) /\ pos \in Nat /\ pos <= Len(ast) /\ scopes \in Seq(ScopeRecord)
  BY DEF Certifying, DefRefInv, ScopesOK, ReplayInv
<1>2. cg_scope = ThisVisit.scope
  BY <1>1, SameScope DEF Certifying, ScopeBefore, ThisVisit
<1>3. cg_scope \in DOMAIN scopes
  BY <1>2 DEF Certifying, VisitsInv, VisitsOK, ThisVisit
<1>4. cg_scope # NoScope
  BY <1>1, <1>3 DEF NoScope
<1>5. scopes[cg_scope].chain = {cg_scope} \cup Chain(scopes, scopes[cg_scope].enclosing)
  BY <1>3 DEF Certifying, ChainsOK
<1> QED
  BY <1>2, <1>3, <1>4, <1>5 DEF ChainNow, Chain

----------------------------------------------------------------------------
(* The visits, one by one. *)

LEMMA EmitStores ==
    ASSUME EmitInv, codegen # "idle", NEW ops, Len(ops) \in Nat \ {0}, Emit(ops),
           StorageKept, UNCHANGED <<cg_scope, scopes>>, NEW R
    PROVE  StoredKnown(R)
<1>1. ChainNow' = ChainNow
  BY DEF ChainNow
<1>2. CASE UNCHANGED storage
  BY <1>1, <1>2 DEF StoredKnown
<1>3. CASE IsDeclaration(ThisVisit) /\ GiveStorage(<<ThisVisit.scope, ThisVisit.text>>)
  <2> DEFINE symbol == <<ThisVisit.scope, ThisVisit.text>>
             given == [s \in DOMAIN storage \cup {symbol} |->
                        IF s = symbol THEN Result("address") ELSE storage[s]]
  <2>1. storage' = given
    BY <1>3 DEF GiveStorage
  <2>2. KnownAt(R, Result("address"), ip')
    <3>1. ip.at \in Nat /\ ip' = After(ip, ops) /\ ip \in [block: Nat, at: Nat]
      BY PlaceTyped DEF Emit
    <3>2. ip'.block = ip.block /\ ip'.at = ip.at + Len(ops)
      BY <3>1 DEF After
    <3> QED
      BY <3>1, <3>2 DEF KnownAt, Known, Result, ResultAt
  <2> HIDE DEF symbol
  <2>3. \A s \in DOMAIN given :
          \/ KnownAt(R, given[s], ip')
          \/ s \in DOMAIN storage /\ given[s] = storage[s]
    BY <2>2
  <2> HIDE DEF given
  <2> QED
    BY <1>1, <2>1, <2>3 DEF StoredKnown
<1> QED
  BY <1>2, <1>3 DEF StorageKept

LEMMA EmitVisitKeepsCert ==
    ASSUME Certifying, NEW M, NestAt(M), NEW R, CertAt(R, M[pos].marks), NEW nodes, Visiting(nodes),
           ThisVisit.node \notin Opening \cup Closing, NEW n, OperandsLeft(n),
           pos' = pos + 1, codegen' = "emitting", StorageKept, UNCHANGED <<locals, cg_scope>>,
           NEW ops \in Seq(Operation), ops # <<>>, Emit(ops),
           \A i \in 1..Len(ops) : OpOK(R, ip.block, ip.at + i, ops[i]),
           Len(opperands') = n + 1 => KnownAt(R, opperands'[n + 1], ip')
    PROVE  CertInv'
<1>1. EmitInv /\ codegen # "idle" /\ UNCHANGED scopes /\ Cert(blocks, R)
  BY DEF Certifying, Visiting, defref_vars, CertAt
<1>2. /\ Cert(blocks', R) /\ DOMAIN blocks' = DOMAIN blocks
      /\ ip'.block = ip.block /\ ip'.at \in Nat /\ ip.at <= ip'.at
  BY <1>1, EmittedCert
<1>3. StoredKnown(R)
  <2>1. Len(ops) \in Nat \ {0}
    OBVIOUS
  <2> QED
    BY <1>1, <2>1, EmitStores
<1> QED
  BY <1>2, <1>3, StraightKeepsCert

LEMMA CrashKeepsCert ==
    ASSUME NEW how \in {"crashed", "threw"}, CrashCodegen(how) PROVE CertInv'
  BY DEF CrashCodegen, CertInv

\* An operation without targets whose arguments can be used.
LEMMA ArgsOK ==
    ASSUME NEW R, NEW b, NEW i, NEW op, op.to = <<>>,
           \A k \in DOMAIN op.args : Known(R, op.args[k], b, i)
    PROVE  OpOK(R, b, i, op)
  BY DEF OpOK

LEMMA NoArgOK ==
    ASSUME NEW R, NEW b, NEW i, NEW op, NEW text PROVE OpOK(R, b, i, Op(op, text, <<>>, <<>>))
  BY DEF OpOK, Op

LEMMA OneArgOK ==
    ASSUME NEW R, NEW b, NEW i, NEW op, NEW text, NEW x, Known(R, x, b, i)
    PROVE  OpOK(R, b, i, Op(op, text, <<x>>, <<>>))
  BY DEF OpOK, Op

LEMMA TwoArgsOK ==
    ASSUME NEW R, NEW b, NEW i, NEW op, NEW text, NEW x, NEW y, Known(R, x, b, i), Known(R, y, b, i)
    PROVE  OpOK(R, b, i, Op(op, text, <<x, y>>, <<>>))
<1> DEFINE args == <<x, y>>
<1>1. DOMAIN args = 1..2 /\ args[1] = x /\ args[2] = y
  OBVIOUS
<1> HIDE DEF args
<1>2. \A k \in DOMAIN args : Known(R, args[k], b, i)
  <2>1. \A k \in DOMAIN args : k = 1 \/ k = 2
    BY <1>1
  <2> QED
    BY <1>1, <2>1
<1>3. Op(op, text, args, <<>>).args = args /\ Op(op, text, args, <<>>).to = <<>>
  BY DEF Op
<1> QED
  BY <1>2, <1>3, ArgsOK DEF args

LEMMA OneOpOK ==
    ASSUME NEW R, NEW b, NEW i \in Nat, NEW op, OpOK(R, b, i + 1, op)
    PROVE  \A j \in 1..Len(<<op>>) : OpOK(R, b, i + j, <<op>>[j])
<1> DEFINE ops == <<op>>
<1>1. Len(ops) = 1 /\ ops[1] = op
  OBVIOUS
<1> HIDE DEF ops
<1>2. \A j \in 1..Len(ops) : OpOK(R, b, i + j, ops[j])
  BY <1>1
<1> QED
  BY <1>2 DEF ops

\* A certificate for what was emitted, and the values that can be used next.
Certified(R, M) == /\ NestAt(M) /\ CertAt(R, M[pos].marks)
                   /\ \A i \in 1..Len(opperands) : KnownAt(R, opperands[i], ip)
                   /\ \A s \in DOMAIN storage : s[1] \in ChainNow => KnownAt(R, storage[s], ip)
                   /\ KnownAt(R, const_zero, ip) /\ KnownAt(R, const_one, ip)

LEMMA CertHere ==
    ASSUME Certifying, CertInv, NEW nodes, Visiting(nodes)
    PROVE  /\ EmitInv /\ codegen = "emitting" /\ codegen # "idle" /\ ip.at \in Nat
           /\ \E R, M : Certified(R, M)
<1>1. EmitInv /\ codegen = "emitting" /\ codegen # "idle"
  BY DEF Certifying, Visiting
<1>2. ip.at \in Nat
  BY <1>1, PlaceTyped
<1>3. PICK R, M : NestAt(M) /\ CertAt(R, M[pos].marks)
  BY <1>1 DEF CertInv
<1> DEFINE ms == M[pos].marks
<1>4. CertAt(R, ms)
  BY <1>3
<1> HIDE DEF ms
<1>5. /\ \A i \in 1..Len(opperands) : KnownAt(R, opperands[i], ip)
      /\ \A s \in DOMAIN storage : s[1] \in ChainNow => KnownAt(R, storage[s], ip)
      /\ KnownAt(R, const_zero, ip) /\ KnownAt(R, const_one, ip)
  BY <1>1, <1>4, KnownHere
<1> QED
  BY <1>1, <1>2, <1>3, <1>5 DEF Certified

LEMMA GenBLOCKKeepsCert == ASSUME Certifying, CertInv, GenBLOCK PROVE CertInv'
<1>1. /\ Visiting({"BLOCK", "BLOCK_END"}) /\ ThisVisit.node \in {"BLOCK", "BLOCK_END"}
      /\ pos' = pos + 1 /\ codegen' = "emitting" /\ StorageKept
      /\ UNCHANGED <<opperands, storage, blocks, ip, locals>>
  BY DEF GenBLOCK, Visiting, Advance, StorageKept
<1>2. PICK R, M : NestAt(M) /\ CertAt(R, M[pos].marks)
  BY <1>1, CertHere DEF Certified
<1>3. ip.at \in Nat
  BY <1>1, CertHere
<1>4. Arity(ThisVisit.node) = 0 /\ Pushes(ThisVisit.node) = 0 /\ ThisVisit.node \notin Opening \cup Closing
  BY <1>1 DEF Arity, Pushes, Opening, Closing, Ops, ScopedOps
<1> DEFINE n == Len(opperands) - Arity(ThisVisit.node)
<1>5. n \in Nat /\ First(opperands, n)
  BY <1>1, <1>2, <1>4, RestOfOperands
<1> HIDE DEF n
<1>6. OperandsLeft(n) /\ Len(opperands') = n
  BY <1>1, <1>4, <1>5, LeavesRest DEF n
<1>7. ASSUME NEW s \in DOMAIN storage, s[1] \in ChainNow' PROVE s[1] \in ChainNow
  <2>1. /\ scopes' = scopes /\ ast' = ast /\ codegen = "emitting" /\ pos \in DOMAIN ast
    BY <1>1 DEF Certifying, defref_vars, Visiting, DefRefInv, ReplayInv
  <2>2. CASE ThisVisit.node = "BLOCK"
    <3>1. cg_scope' = ThisVisit.scope
      BY <2>2 DEF GenBLOCK
    <3>2. /\ \A t \in DOMAIN storage : t[1] # ThisVisit.scope
          /\ Chain(scopes, ThisVisit.scope) = {ThisVisit.scope} \cup ChainNow
      BY <2>1, <2>2, OpenedScope
    <3> QED
      BY <1>7, <2>1, <3>1, <3>2 DEF ChainNow
  <2>3. CASE ThisVisit.node # "BLOCK"
    <3>1. cg_scope' = GetEnclosingScope(scopes, cg_scope) /\ ThisVisit.node \notin {"BLOCK"} \cup ScopedOps
      BY <1>1, <2>3 DEF GenBLOCK, LeaveCgScope, ScopedOps
    <3>2. /\ cg_scope # NoScope /\ Chain(scopes, scopes[cg_scope].enclosing) \subseteq ChainNow
      BY <2>1, <3>1, ClosedScope
    <3>3. cg_scope' = scopes[cg_scope].enclosing
      BY <3>1, <3>2 DEF GetEnclosingScope
    <3> QED
      BY <1>7, <2>1, <3>2, <3>3 DEF ChainNow
  <2> QED
    BY <2>2, <2>3
<1>8. StoredKnown(R)
  BY <1>1, <1>7 DEF StoredKnown
<1>9. Cert(blocks', R) /\ DOMAIN blocks' = DOMAIN blocks
  BY <1>1, <1>2 DEF CertAt
<1>10. ip'.block = ip.block /\ ip'.at \in Nat /\ ip.at <= ip'.at /\ UNCHANGED locals
  BY <1>1, <1>3
<1>11. ~(Len(opperands') = n + 1)
  BY <1>5, <1>6
<1> QED
  BY <1>1, <1>2, <1>4, <1>6, <1>8, <1>9, <1>10, <1>11, StraightKeepsCert

LEMMA GenDECLKeepsCert == ASSUME Certifying, CertInv, GenDECL PROVE CertInv'
<1> DEFINE ops == <<Alloca>>
<1>1. /\ Visiting({"DECL"}) /\ ThisVisit.node = "DECL" /\ pos' = pos + 1 /\ codegen' = "emitting"
      /\ UNCHANGED <<opperands, locals, cg_scope>> /\ Emit(ops)
      /\ GiveStorage(<<ThisVisit.scope, ThisVisit.text>>)
  BY DEF GenDECL, Visiting, Advance
<1>2. PICK R, M : Certified(R, M)
  BY <1>1, CertHere
<1>2a. NestAt(M) /\ CertAt(R, M[pos].marks) /\ KnownAt(R, const_one, ip)
  BY <1>2 DEF Certified
<1>3. StorageKept
  BY <1>1 DEF StorageKept, IsDeclaration
<1>4. Arity(ThisVisit.node) = 0 /\ Pushes(ThisVisit.node) = 0 /\ ThisVisit.node \notin Opening \cup Closing
  BY <1>1 DEF Arity, Pushes, Opening, Closing, Ops, ScopedOps
<1> DEFINE n == Len(opperands) - Arity(ThisVisit.node)
<1>5. n \in Nat /\ First(opperands, n)
  BY <1>1, <1>2a, <1>4, RestOfOperands
<1> HIDE DEF n
<1>6. OperandsLeft(n) /\ Len(opperands') = n
  BY <1>1, <1>4, <1>5, LeavesRest DEF n
<1>7. ops \in Seq(Operation) /\ ops # <<>>
  BY AllocaIsOperation, OneStraight
<1>8. OpOK(R, ip.block, ip.at + 1, Alloca)
  BY <1>2a, OneArgOK DEF Alloca, KnownAt
<1>9. \A i \in 1..Len(ops) : OpOK(R, ip.block, ip.at + i, ops[i])
  <2>1. ip.at \in Nat
    BY <1>1, CertHere
  <2> QED
    BY <1>8, <2>1, OneOpOK
<1>10. ~(Len(opperands') = n + 1)
  BY <1>5, <1>6
<1> HIDE DEF ops
<1> QED
  BY <1>1, <1>2a, <1>3, <1>4, <1>6, <1>7, <1>9, <1>10, EmitVisitKeepsCert

\* The variable a name stands for is in CodeGen's scope or one around it.
LEMMA FoundInChain ==
    ASSUME Certifying, NEW nodes, Visiting(nodes), nodes \subseteq {"ID", "ASSIGN"},
           CgSymbol(ThisVisit.text) \in DOMAIN storage
    PROVE  CgSymbol(ThisVisit.text)[1] \in ChainNow
<1>1. /\ ast \in Seq(Visit) /\ ScopesOK(scopes) /\ codegen = "emitting" /\ pos \in DOMAIN ast
      /\ ThisVisit.node \notin {"BLOCK"} \cup ScopedOps /\ ThisVisit \in Visit
  BY DEF Certifying, DefRefInv, ReplayInv, Visiting, ScopedOps, ThisVisit
<1>2. cg_scope \in DOMAIN scopes /\ cg_scope # NoScope
  BY <1>1, ClosedScope
<1> DEFINE bound == Resolve(scopes, cg_scope, ThisVisit.text)
<1>3. CgSymbol(ThisVisit.text)[1] = bound
  BY DEF CgSymbol
<1>4. bound # NoScope
  <2>1. PICK j \in DOMAIN ast : CgSymbol(ThisVisit.text) = <<ast[j].scope, ast[j].text>>
    BY DEF Certifying, ReplayInv
  <2>2. bound = ast[j].scope
    BY <2>1 DEF CgSymbol
  <2>3. ast[j].scope \in DOMAIN scopes /\ scopes \in Seq(ScopeRecord)
    BY <1>1 DEF Certifying, VisitsInv, VisitsOK, ScopesOK
  <2> QED
    BY <2>2, <2>3 DEF NoScope
<1>5. bound \in scopes[cg_scope].chain
  BY <1>1, <1>2, <1>4, ResolveIsHolder
<1> QED
  BY <1>2, <1>3, <1>5 DEF ChainNow, Chain

LEMMA GenASSIGNKeepsCert == ASSUME Certifying, CertInv, GenASSIGN PROVE CertInv'
<1> DEFINE symbol == CgSymbol(ThisVisit.text)
           op == "store"
           store == Op(op, NoText, <<TopValue, storage[symbol]>>, <<>>)
           ops == <<store>>
<1>1. Visiting({"ASSIGN"}) /\ codegen = "emitting" /\ ThisVisit.node = "ASSIGN" /\ EmitInv
  BY DEF GenASSIGN, Certifying, Visiting
<1>2. CASE symbol \notin DOMAIN storage
  BY <1>2, CrashKeepsCert DEF GenASSIGN
<1>3. CASE symbol \in DOMAIN storage
  <2>1. /\ Emit(ops) /\ opperands' = Pop(opperands) /\ pos' = pos + 1 /\ codegen' = "emitting"
        /\ UNCHANGED <<storage, locals, cg_scope>> /\ StorageKept
    BY <1>1, <1>3 DEF GenASSIGN, Advance, PopOperand, StorageKept
  <2>1a. PICK R, M : Certified(R, M)
    BY <1>1, CertHere
  <2>2. /\ NestAt(M) /\ CertAt(R, M[pos].marks)
        /\ \A i \in 1..Len(opperands) : KnownAt(R, opperands[i], ip)
        /\ \A s \in DOMAIN storage : s[1] \in ChainNow => KnownAt(R, storage[s], ip)
    BY <2>1a DEF Certified
  <2>3. Arity(ThisVisit.node) = 1 /\ Pushes(ThisVisit.node) = 0 /\ ThisVisit.node \notin Opening \cup Closing
    BY <1>1 DEF Arity, Pushes, Opening, Closing, Ops, ScopedOps
  <2> DEFINE n == Len(opperands) - Arity(ThisVisit.node)
  <2>4. /\ n \in Nat /\ First(Pop(opperands), n) /\ TopValue \in Value(blocks)
        /\ TopValue = opperands[Len(opperands)] /\ Len(opperands) \in 1..Len(opperands)
    <3>1. /\ n \in Nat /\ First(Pop(opperands), n) /\ TopValue \in Value(blocks) /\ opperands # <<>>
          /\ TopValue = opperands[Len(opperands)] /\ opperands \in Seq(Value(blocks))
      BY <1>1, <2>2, <2>3, RestOfOperands
    <3> QED
      BY <3>1
  <2> HIDE DEF n
  <2>5. OperandsLeft(n) /\ Len(opperands') = n
    BY <2>1, <2>3, <2>4, LeavesRest DEF n
  <2>6. TopValue \in Arg /\ storage[symbol] \in Arg
    BY <1>1, <1>3, <2>4, OperandsAreArgs
  <2>7. op \in Operations /\ op \notin Terminators /\ NoText \in Text
    BY DEF Operations, Terminators, Text
  <2>8. KnownAt(R, TopValue, ip)
    BY <2>2, <2>4
  <2>9. KnownAt(R, storage[symbol], ip)
    <3>1. symbol[1] \in ChainNow
      BY <1>1, <1>3, FoundInChain
    <3> QED
      BY <1>3, <2>2, <3>1
  <2> HIDE DEF op, symbol
  <2>10. store \in Operation /\ store.op \notin Terminators
    BY <2>6, <2>7, TwoArguments
  <2>11. OpOK(R, ip.block, ip.at + 1, store)
    BY <2>8, <2>9, TwoArgsOK DEF KnownAt
  <2> HIDE DEF store
  <2>12. ops \in Seq(Operation) /\ ops # <<>>
    BY <2>10, OneStraight
  <2>13. \A i \in 1..Len(ops) : OpOK(R, ip.block, ip.at + i, ops[i])
    <3>1. ip.at \in Nat
      BY <1>1, CertHere
    <3> QED
      BY <2>11, <3>1, OneOpOK
  <2>14. ~(Len(opperands') = n + 1)
    BY <2>4, <2>5
  <2> HIDE DEF ops
  <2> QED
    BY <1>1, <2>1, <2>2, <2>3, <2>5, <2>12, <2>13, <2>14, EmitVisitKeepsCert
<1> QED
  BY <1>2, <1>3

LEMMA GenPRINTKeepsCert == ASSUME Certifying, CertInv, GenPRINT PROVE CertInv'
<1> DEFINE callee == IF ThisVisit.refs[1] = "int" THEN "printf" ELSE "print_vector"
           print == Op(callee, NoText, <<TopValue>>, <<>>)
           ops == <<print>>
<1>1. /\ Visiting({"PRINT"}) /\ ThisVisit.node = "PRINT" /\ Emit(ops) /\ opperands' = Pop(opperands)
      /\ pos' = pos + 1 /\ codegen' = "emitting" /\ UNCHANGED <<storage, locals, cg_scope>>
      /\ StorageKept /\ EmitInv
  BY DEF GenPRINT, Visiting, Advance, PopOperand, StorageKept, Certifying
<1>2. PICK R, M : Certified(R, M)
  BY <1>1, CertHere
<1>3. /\ NestAt(M) /\ CertAt(R, M[pos].marks)
      /\ \A i \in 1..Len(opperands) : KnownAt(R, opperands[i], ip)
  BY <1>2 DEF Certified
<1>4. Arity(ThisVisit.node) = 1 /\ Pushes(ThisVisit.node) = 0 /\ ThisVisit.node \notin Opening \cup Closing
  BY <1>1 DEF Arity, Pushes, Opening, Closing, Ops, ScopedOps
<1> DEFINE n == Len(opperands) - Arity(ThisVisit.node)
<1>5. /\ n \in Nat /\ First(Pop(opperands), n) /\ TopValue \in Value(blocks)
      /\ TopValue = opperands[Len(opperands)] /\ Len(opperands) \in 1..Len(opperands)
  <2>1. /\ n \in Nat /\ First(Pop(opperands), n) /\ TopValue \in Value(blocks) /\ opperands # <<>>
        /\ TopValue = opperands[Len(opperands)] /\ opperands \in Seq(Value(blocks))
    BY <1>1, <1>3, <1>4, RestOfOperands
  <2> QED
    BY <2>1
<1> HIDE DEF n
<1>6. OperandsLeft(n) /\ Len(opperands') = n
  BY <1>1, <1>4, <1>5, LeavesRest DEF n
<1>7. TopValue \in Arg
  BY <1>1, <1>5, OperandsAreArgs
<1>8. callee \in Operations /\ callee \notin Terminators
  <2>1. callee = "printf" \/ callee = "print_vector"
    OBVIOUS
  <2> HIDE DEF callee
  <2> QED
    BY <2>1 DEF Operations, Terminators
<1> HIDE DEF callee
<1>9. ops \in Seq(Operation) /\ ops # <<>>
  BY <1>7, <1>8, OneArgument DEF Text
<1>10. OpOK(R, ip.block, ip.at + 1, print)
  BY <1>3, <1>5, OneArgOK DEF KnownAt
<1> HIDE DEF print
<1>11. \A i \in 1..Len(ops) : OpOK(R, ip.block, ip.at + i, ops[i])
  <2>1. ip.at \in Nat
    BY <1>1, CertHere
  <2> QED
    BY <1>10, <2>1, OneOpOK
<1>12. ~(Len(opperands') = n + 1)
  BY <1>5, <1>6
<1> HIDE DEF ops
<1> QED
  BY <1>1, <1>3, <1>4, <1>6, <1>9, <1>11, <1>12, EmitVisitKeepsCert

\* The result of the last of the operations that are emitted.
LEMMA LastResultKnown ==
    ASSUME EmitInv, codegen # "idle", NEW ops, Len(ops) \in Nat, Emit(ops), NEW R, NEW type
    PROVE  KnownAt(R, ResultAt(ip, Len(ops), type), ip')
<1>1. ip.at \in Nat /\ ip' = After(ip, ops) /\ ip \in [block: Nat, at: Nat]
  BY PlaceTyped DEF Emit
<1>2. ip'.block = ip.block /\ ip'.at = ip.at + Len(ops)
  BY <1>1 DEF After
<1> QED
  BY <1>1, <1>2 DEF KnownAt, Known, ResultAt

LEMMA GenIDKeepsCert == ASSUME Certifying, CertInv, GenID PROVE CertInv'
<1> DEFINE symbol == CgSymbol(ThisVisit.text)
           type == ResolvedSymbol(scopes, cg_scope, ThisVisit.text).type
           op == "load"
           load == Op(op, type, <<storage[symbol]>>, <<>>)
           ops == <<load>>
           v == Result(type)
<1>1. Visiting({"ID"}) /\ codegen = "emitting" /\ ThisVisit.node = "ID" /\ EmitInv /\ codegen # "idle"
  BY DEF GenID, Certifying, Visiting
<1>2. CASE symbol \notin DOMAIN storage
  BY <1>2, CrashKeepsCert DEF GenID
<1>3. CASE symbol \in DOMAIN storage
  <2>1. /\ Emit(ops) /\ opperands' = Append(opperands, v) /\ pos' = pos + 1 /\ codegen' = "emitting"
        /\ UNCHANGED <<storage, locals, cg_scope>> /\ StorageKept
    BY <1>1, <1>3 DEF GenID, Advance, StorageKept
  <2>2. PICK R, M : Certified(R, M)
    BY <1>1, CertHere
  <2>3. /\ NestAt(M) /\ CertAt(R, M[pos].marks)
        /\ \A s \in DOMAIN storage : s[1] \in ChainNow => KnownAt(R, storage[s], ip)
    BY <2>2 DEF Certified
  <2>4. Arity(ThisVisit.node) = 0 /\ Pushes(ThisVisit.node) = 1 /\ ThisVisit.node \notin Opening \cup Closing
    BY <1>1 DEF Arity, Pushes, Opening, Closing, Ops, ScopedOps
  <2> DEFINE n == Len(opperands) - Arity(ThisVisit.node)
  <2>5. n \in Nat /\ First(opperands, n)
    BY <1>1, <2>3, <2>4, RestOfOperands
  <2> HIDE DEF n
  <2>6. type \in Type
    <3>1. pos \in Nat \ {0} /\ DefRefInv /\ VisitsInv /\ ReplayInv
      BY DEF Certifying, ReplayInv
    <3>2. PICK T : Here(T)
      BY <1>1, <3>1, AtVisit
    <3> QED
      BY <1>1, <1>3, <3>1, <3>2, TypeOfID DEF HasStorage
  <2>7. KnownAt(R, storage[symbol], ip)
    <3>1. symbol[1] \in ChainNow
      BY <1>1, <1>3, FoundInChain
    <3> QED
      BY <1>3, <2>3, <3>1
  <2> HIDE DEF type
  <2>8. v \in Value(blocks)
    BY <1>1, <2>6, ResultTyped DEF Result
  <2>9. storage[symbol] \in Arg
    BY <1>1, <1>3, OperandsAreArgs
  <2>10. op \in Operations /\ op \notin Terminators /\ type \in Text \cup Type \cup Ops
    BY <2>6 DEF Operations, Terminators
  <2> HIDE DEF op, symbol
  <2>11. ops \in Seq(Operation) /\ ops # <<>>
    BY <2>9, <2>10, OneArgument
  <2>12. OpOK(R, ip.block, ip.at + 1, load)
    BY <2>7, OneArgOK DEF KnownAt
  <2> HIDE DEF load
  <2>13. \A i \in 1..Len(ops) : OpOK(R, ip.block, ip.at + i, ops[i])
    <3>1. ip.at \in Nat
      BY <1>1, CertHere
    <3> QED
      BY <2>12, <3>1, OneOpOK
  <2>14. KnownAt(R, v, ip')
    <3>1. Len(ops) = 1
      OBVIOUS
    <3> HIDE DEF ops
    <3>2. Len(ops) \in Nat
      BY <3>1
    <3>3. KnownAt(R, ResultAt(ip, Len(ops), type), ip')
      BY <1>1, <2>1, <3>2, LastResultKnown
    <3> QED
      BY <3>1, <3>3 DEF Result
  <2> HIDE DEF ops, v
  <2>15. OperandsLeft(n) /\ Len(opperands') = n + 1 /\ opperands'[n + 1] = v
    BY <2>1, <2>4, <2>5, <2>8, LeavesResult DEF n
  <2> QED
    BY <1>1, <2>1, <2>3, <2>4, <2>11, <2>13, <2>14, <2>15, EmitVisitKeepsCert
<1> QED
  BY <1>2, <1>3

LEMMA GenINTKeepsCert == ASSUME Certifying, CertInv, GenINT PROVE CertInv'
<1> DEFINE text == ThisVisit.text
           op == "constant"
           none == <<>>
           constant == Op(op, text, none, none)
           ops == <<constant>>
           v == Result("int")
<1>1. Visiting({"INT"}) /\ codegen = "emitting" /\ ThisVisit.node = "INT" /\ EmitInv /\ codegen # "idle"
  BY DEF GenINT, Certifying, Visiting
<1>2. CASE text \notin IntLiteral
  BY <1>2, CrashKeepsCert DEF GenINT
<1>3. CASE text \in IntLiteral
  <2>1. /\ Emit(ops) /\ opperands' = Append(opperands, v) /\ pos' = pos + 1 /\ codegen' = "emitting"
        /\ UNCHANGED <<storage, locals, cg_scope>> /\ StorageKept
    BY <1>1, <1>3 DEF GenINT, Advance, StorageKept
  <2>2. PICK R, M : Certified(R, M)
    BY <1>1, CertHere
  <2>3. NestAt(M) /\ CertAt(R, M[pos].marks)
    BY <2>2 DEF Certified
  <2>4. Arity(ThisVisit.node) = 0 /\ Pushes(ThisVisit.node) = 1 /\ ThisVisit.node \notin Opening \cup Closing
    BY <1>1 DEF Arity, Pushes, Opening, Closing, Ops, ScopedOps
  <2> DEFINE n == Len(opperands) - Arity(ThisVisit.node)
  <2>5. n \in Nat /\ First(opperands, n)
    BY <1>1, <2>3, <2>4, RestOfOperands
  <2> HIDE DEF n
  <2>6. v \in Value(blocks)
    BY <1>1, ResultTyped DEF Result, Type
  <2>7. op \in Operations /\ op \notin Terminators /\ text \in Text \cup Type \cup Ops
    <3>1. ThisVisit \in Visit
      BY <1>1 DEF Certifying, DefRefInv, ReplayInv, Visiting, ThisVisit
    <3> QED
      BY <3>1 DEF Operations, Terminators, Visit
  <2>8. none \in Seq(Arg) /\ none \in Seq(Nat)
    OBVIOUS
  <2>9. OpOK(R, ip.block, ip.at + 1, constant)
    BY NoArgOK
  <2> HIDE DEF op, text, none
  <2>10. constant \in Operation /\ constant.op \notin Terminators
    BY <2>7, <2>8, AnOperation
  <2> HIDE DEF constant
  <2>11. ops \in Seq(Operation) /\ ops # <<>>
    BY <2>10, OneStraight
  <2>12. \A i \in 1..Len(ops) : OpOK(R, ip.block, ip.at + i, ops[i])
    <3>1. ip.at \in Nat
      BY <1>1, CertHere
    <3> QED
      BY <2>9, <3>1, OneOpOK
  <2>13. KnownAt(R, v, ip')
    <3>1. Len(ops) = 1
      OBVIOUS
    <3> HIDE DEF ops
    <3>2. Len(ops) \in Nat
      BY <3>1
    <3>3. KnownAt(R, ResultAt(ip, Len(ops), "int"), ip')
      BY <1>1, <2>1, <3>2, LastResultKnown
    <3> QED
      BY <3>1, <3>3 DEF Result
  <2> HIDE DEF ops, v
  <2>14. OperandsLeft(n) /\ Len(opperands') = n + 1 /\ opperands'[n + 1] = v
    BY <2>1, <2>4, <2>5, <2>6, LeavesResult DEF n
  <2> QED
    BY <1>1, <2>1, <2>3, <2>4, <2>11, <2>12, <2>13, <2>14, EmitVisitKeepsCert
<1> QED
  BY <1>2, <1>3

LEMMA CallsOK ==
    ASSUME NEW R, ip.at \in Nat, NEW op, NEW l, NEW r, NEW left, KnownAt(R, left, ip),
           NEW right, KnownAt(R, right, ip)
    PROVE  /\ Calls(op, l, r, left, right) # <<>>
           /\ \A i \in 1..Len(Calls(op, l, r, left, right)) :
                OpOK(R, ip.block, ip.at + i, Calls(op, l, r, left, right)[i])
<1> DEFINE int == IF l = "int" THEN left ELSE right
           vector == IF l = "int" THEN right ELSE left
           promoted == ResultAt(ip, 2, "vector")
           size == Op("size", NoText, <<vector>>, <<>>)
           convert == Op("int_to_vector", NoText, <<Result("int"), int>>, <<>>)
           call == Op(Callee(op, l, r), op, IF l = "int" THEN <<promoted, vector>>
                                                         ELSE <<vector, promoted>>, <<>>)
           direct == Op(Callee(op, l, r), op, <<left, right>>, <<>>)
           ops == Calls(op, l, r, left, right)
           three == <<size, convert, call>>
<1>1. ops = IF op \in {"ARITH", "BOOL"} /\ l # r THEN three ELSE <<direct>>
  BY DEF Calls
<1>2. KnownAt(R, int, ip) /\ KnownAt(R, vector, ip)
  OBVIOUS
<1>3. Known(R, Result("int"), ip.block, ip.at + 2) /\ Known(R, promoted, ip.block, ip.at + 3)
  BY DEF Result, ResultAt, Known
<1>4. OpOK(R, ip.block, ip.at + 1, direct)
  BY TwoArgsOK DEF KnownAt
<1> HIDE DEF int, vector, promoted
<1>5. OpOK(R, ip.block, ip.at + 1, size)
  BY <1>2, OneArgOK DEF KnownAt
<1>6. Known(R, int, ip.block, ip.at + 2) /\ Known(R, vector, ip.block, ip.at + 3)
  BY <1>2, KnownLater
<1>7. OpOK(R, ip.block, ip.at + 2, convert)
  BY <1>3, <1>6, TwoArgsOK
<1>8. OpOK(R, ip.block, ip.at + 3, call)
  <2>1. CASE l = "int"
    BY <1>3, <1>6, <2>1, TwoArgsOK
  <2>2. CASE l # "int"
    BY <1>3, <1>6, <2>2, TwoArgsOK
  <2> QED
    BY <2>1, <2>2
<1> HIDE DEF size, convert, call, ops
<1>9. three # <<>> /\ \A i \in 1..Len(three) : OpOK(R, ip.block, ip.at + i, three[i])
  <2>1. Len(three) = 3 /\ three[1] = size /\ three[2] = convert /\ three[3] = call
    OBVIOUS
  <2>3. three # <<>>
    OBVIOUS
  <2> HIDE DEF three
  <2>2. \A i \in 1..Len(three) : i = 1 \/ i = 2 \/ i = 3
    BY <2>1
  <2> QED
    BY <1>5, <1>7, <1>8, <2>1, <2>2, <2>3
<1> HIDE DEF three, direct
<1>10. <<direct>> # <<>> /\ \A i \in 1..Len(<<direct>>) : OpOK(R, ip.block, ip.at + i, <<direct>>[i])
  BY <1>4, OneOpOK
<1>11. ops # <<>> /\ \A i \in 1..Len(ops) : OpOK(R, ip.block, ip.at + i, ops[i])
  BY <1>1, <1>9, <1>10
<1> QED
  BY <1>11 DEF ops

LEMMA GenOpKeepsCert == ASSUME Certifying, CertInv, GenOp PROVE CertInv'
<1> DEFINE right == TopValue
           left == opperands[Len(opperands) - 1]
           callee == Callee(ThisVisit.node, ThisVisit.refs[1], ThisVisit.refs[2])
           ops == Calls(ThisVisit.node, ThisVisit.refs[1], ThisVisit.refs[2], left, right)
           v == ResultAt(ip, Len(ops), Returns(callee))
           rest == Pop(Pop(opperands))
<1>1. /\ Visiting(Ops) /\ ThisVisit.node \in Ops /\ EmitInv /\ codegen # "idle"
      /\ Emit(ops) /\ opperands' = Append(rest, v) /\ pos' = pos + 1 /\ codegen' = "emitting"
      /\ UNCHANGED <<storage, locals, cg_scope>> /\ StorageKept
  BY DEF GenOp, Certifying, Visiting, Advance, StorageKept
<1>2. PICK R, M : Certified(R, M)
  BY <1>1, CertHere
<1>3. /\ NestAt(M) /\ CertAt(R, M[pos].marks)
      /\ \A i \in 1..Len(opperands) : KnownAt(R, opperands[i], ip)
  BY <1>2 DEF Certified
<1>4. Arity(ThisVisit.node) = 2 /\ Pushes(ThisVisit.node) = 1 /\ ThisVisit.node \notin Opening \cup Closing
  BY <1>1 DEF Arity, Pushes, Opening, Closing, Ops, ScopedOps
<1> DEFINE n == Len(opperands) - Arity(ThisVisit.node)
<1>5. n \in Nat /\ First(rest, n) /\ opperands \in Seq(Value(blocks)) /\ Len(opperands) >= 2
  BY <1>1, <1>3, <1>4, RestOfOperands
<1> HIDE DEF n
<1>6. /\ left \in Value(blocks) /\ right \in Value(blocks)
      /\ KnownAt(R, left, ip) /\ KnownAt(R, right, ip)
  <2>1. Len(opperands) \in Nat /\ Len(opperands) - 1 \in 1..Len(opperands)
        /\ Len(opperands) \in 1..Len(opperands)
    BY <1>5
  <2> QED
    BY <1>3, <1>5, <2>1 DEF TopValue, Top
<1>7. ops \in Seq(Operation) /\ Len(ops) \in Nat
  <2>1. left \in Arg /\ right \in Arg
    BY <1>1, <1>6, OperandsAreArgs
  <2> HIDE DEF left, right
  <2> QED
    BY <1>1, <2>1, CallsAreStraight
<1>8. ops # <<>> /\ \A i \in 1..Len(ops) : OpOK(R, ip.block, ip.at + i, ops[i])
  <2>1. ip.at \in Nat
    BY <1>1, CertHere
  <2> HIDE DEF left, right
  <2> QED
    BY <1>6, <2>1, CallsOK
<1>9. v \in Value(blocks)
  <2>1. Returns(callee) \in Type
    BY <1>1, CalleeIsOperation
  <2> HIDE DEF ops, callee
  <2> QED
    BY <1>1, <1>7, <2>1, ResultTyped
<1> HIDE DEF left, right, rest, callee, ops
<1>10. KnownAt(R, v, ip')
  BY <1>1, <1>7, LastResultKnown
<1> HIDE DEF v
<1>11. OperandsLeft(n) /\ Len(opperands') = n + 1 /\ opperands'[n + 1] = v
  BY <1>1, <1>4, <1>5, <1>9, LeavesResult DEF n
<1> QED
  BY <1>1, <1>3, <1>4, <1>7, <1>8, <1>10, <1>11, EmitVisitKeepsCert

----------------------------------------------------------------------------
(* Visits that add blocks. *)

\* R, and what can be used in the new blocks.
Extended(R, N) == [b \in DOMAIN R \cup DOMAIN N |-> IF b \in DOMAIN R THEN R[b] ELSE N[b]]

LEMMA ExtendedAgrees ==
    ASSUME NEW R, NEW N, DOMAIN R \cap DOMAIN N = {}
    PROVE  /\ Agree(R, Extended(R, N)) /\ DOMAIN Extended(R, N) = DOMAIN R \cup DOMAIN N
           /\ \A b \in DOMAIN N : Extended(R, N)[b] = N[b]
           /\ \A b \in DOMAIN R : Extended(R, N)[b] = R[b]
  BY DEF Extended, Agree

\* A block of main is finished, and others are added.
LEMMA BranchCert ==
    ASSUME EmitInv, codegen # "idle", NEW R, Cert(blocks, R), NEW S, Agree(R, S), NEW n \in Nat,
           DOMAIN R = DOMAIN blocks, \A b \in 1..(Len(blocks) + n) : b \in DOMAIN S,
           \A b \in (Len(blocks) + 1)..(Len(blocks) + n) : b \in S[b],
           NEW op \in Operation, OpOK(S, ip.block, ip.at + 1, op), blocks' = BranchTo(op, n)
    PROVE  Cert(blocks', S) /\ DOMAIN blocks' = 1..(Len(blocks) + n)
<1> DEFINE ops == <<op>>
           mid == InsertOps(blocks, ip, ops)
           new == mid \o [i \in 1..n |-> Block(<<>>, {})]
<1>1. /\ ip.block \in DOMAIN blocks /\ ip.at \in Nat /\ ip.at \in 0..Len(blocks[ip.block].body)
      /\ BlocksTyped(blocks)
  BY PlaceTyped
<1>2. ops \in Seq(Operation)
  OBVIOUS
<1>3. \A i \in 1..Len(ops) : OpOK(S, ip.block, ip.at + i, ops[i])
  BY <1>1, OneOpOK
<1> HIDE DEF ops
<1>4. Cert(blocks, S)
  BY CertExtended
<1>5. Cert(mid, S)
  BY <1>1, <1>2, <1>3, <1>4, CertInsert
<1>6. BlocksTyped(mid) /\ Len(mid) = Len(blocks)
  BY <1>1, <1>2, OpsInserted
<1> HIDE DEF mid
<1>7. Cert(new, S)
  BY <1>5, <1>6, CertBlanks
<1>8. DOMAIN new = 1..(Len(blocks) + n)
  <2> DEFINE added == [i \in 1..n |-> Block(<<>>, {})]
  <2>1. mid \in Seq(BlockRecord)
    BY <1>6 DEF BlocksTyped
  <2>2. Block(<<>>, {}) \in BlockRecord
    BY DEF Block, BlockRecord
  <2>3. added \in Seq(BlockRecord) /\ Len(added) = n
    BY <2>2
  <2> HIDE DEF added
  <2>4. mid \o added \in Seq(BlockRecord) /\ Len(mid \o added) = Len(mid) + n
    BY <2>1, <2>3, Concatenated
  <2>5. DOMAIN (mid \o added) = 1..(Len(blocks) + n)
    BY <1>6, <2>4
  <2> QED
    BY <2>5 DEF added
<1> QED
  BY <1>7, <1>8 DEF new, mid, ops, BranchTo

LEMMA BranchOK ==
    ASSUME NEW R, NEW b, NEW i, NEW t, Reachable(R, t, b)
    PROVE  /\ OpOK(R, b, i, Br(t))
           /\ \A x, u : Known(R, x, b, i) /\ Known(R, const_zero, b, i) /\ Reachable(R, u, b) =>
                        OpOK(R, b, i, CondBr(x, t, u))
<1>1. OpOK(R, b, i, Br(t))
  <2> DEFINE to == <<t>>
  <2>1. \A k \in DOMAIN to : to[k] = t
    OBVIOUS
  <2> HIDE DEF to
  <2>2. Br(t).to = to /\ Br(t).args = <<>>
    BY DEF Br, Op, to
  <2> QED
    BY <2>1, <2>2 DEF OpOK
<1>2. ASSUME NEW x, NEW u, Known(R, x, b, i), Known(R, const_zero, b, i), Reachable(R, u, b)
      PROVE  OpOK(R, b, i, CondBr(x, t, u))
  <2> DEFINE to == <<t, u>>
             args == <<x, const_zero>>
  <2>1. /\ \A k \in DOMAIN to : to[k] = t \/ to[k] = u
        /\ \A k \in DOMAIN args : args[k] = x \/ args[k] = const_zero
    OBVIOUS
  <2> HIDE DEF to, args
  <2>2. CondBr(x, t, u).to = to /\ CondBr(x, t, u).args = args
    BY DEF CondBr, Op, to, args
  <2> QED
    BY <1>2, <2>1, <2>2 DEF OpOK
<1> QED
  BY <1>1, <1>2

LEMMA FrameFollows ==
    ASSUME NEW R, NEW V, NEW T, NEW p, Frame(R, V, T, p), NEW S, Agree(R, S), NEW q, PlaceAfter(R, p, S, q),
           NEW W, \A v \in W : v \in V \/ KnownAt(S, v, q),
           NEW U, \A t \in U : t \in T \/ Reachable(S, t, q.block)
    PROVE  Frame(S, W, U, q)
<1> DEFINE X == {v \in W : KnownAt(S, v, q)}
           Y == {t \in U : Reachable(S, t, q.block)}
<1>1. W \subseteq V \cup X /\ U \subseteq T \cup Y
  OBVIOUS
<1>2. (\A v \in X : KnownAt(S, v, q)) /\ (\A t \in Y : Reachable(S, t, q.block))
  OBVIOUS
<1> HIDE DEF X, Y
<1> QED
  BY <1>1, <1>2, FrameMoved, ZenonT(40)

\* The locals of an if or a loop that begins.
LEMMA BranchResumable ==
    ASSUME NEW R, NEW ms \in Seq(Mark), CertAt(R, ms), EmitInv, NEW S, Agree(R, S),
           NEW n \in Nat, n <= Len(opperands),
           NEW vals, \A i \in 1..n : vals[i] = opperands[i], NEW l, NEW ls, Len(ls) = Len(ms) + 1,
           \A k \in 1..Len(ms) : ls[k] = locals[k], ls[Len(ms) + 1] = l,
           NEW m \in Mark, ~m.scoped, m.base = n, Chain(scopes, m.scope) = ChainNow,
           NEW ms2, \A k \in 1..Len(ms) : ms2[k] = ms[k], ms2[Len(ms) + 1] = m,
           PlaceAfter(R, ip, S, StartOf(l.body)), PlaceAfter(R, ip, S, StartOf(l.merge)),
           \A t \in {l.header, l.body, l.merge} \ {0} : Reachable(S, t, l.body)
    PROVE  Resumable(S, scopes, vals, storage, ls, ms2, Len(ms) + 1)
<1> DEFINE K == Len(ms)
           V == Live(opperands, Len(opperands), storage, ChainNow, locals, ms, K)
           T == Targets(locals, ms, K)
           new == K + 1
           W == Live(vals, n, storage, ChainNow, ls, ms2, K)
           W2 == Live(vals, n, storage, ChainNow, ls, ms2, new)
           U == Targets(ls, ms2, K)
           U2 == Targets(ls, ms2, new)
           Y == {l.header, l.body, l.merge} \ {0}
<1>1. Frame(R, V, T, ip)
  BY DEF CertAt, ChainNow
<1>2. /\ K \in Nat /\ ms2[new] = m /\ \A k \in 1..K : ms2[k] = ms[k] /\ ls[k] = locals[k]
  OBVIOUS
<1>3. Len(opperands) \in Nat
  BY DEF EmitInv
<1>4. Apart(storage, storage, ChainNow)
  BY DEF Apart
<1>4a. ls[new] = l
  OBVIOUS
<1> HIDE DEF K, new
<1>5. W \subseteq V
  <2> HIDE DEF V, W
  <2> DEFINE len == Len(opperands)
  <2>1. /\ len \in Nat /\ n <= len /\ ChainNow \subseteq ChainNow /\ K <= K /\ K \in Nat
        /\ \A j \in 1..K : ls[j] = locals[j] /\ ms2[j] = ms[j]
        /\ \A i \in 1..n : vals[i] = opperands[i]
        /\ Apart(storage, storage, ChainNow)
    BY <1>2, <1>3, <1>4
  <2> HIDE DEF len
  <2>2. Live(vals, n, storage, ChainNow, ls, ms2, K) \subseteq Live(opperands, len, storage, ChainNow, locals, ms, K)
    BY <2>1, LiveWithin
  <2> QED
    BY <2>2 DEF V, W, len
<1>6. U \subseteq T
  <2>1. K <= K
    BY <1>2
  <2> QED
    BY <1>2, <2>1, TargetsWithin
<1>7. new = K + 1 /\ 1..new = (1..K) \cup {new}
  BY <1>2 DEF new
<1>8. W2 \subseteq V
  <2>1. Looping(ms2, new) = Looping(ms2, K)
    BY <1>2, <1>7 DEF Looping
  <2> QED
    BY <1>5, <2>1 DEF Live
<1>9. U2 \subseteq T \cup Y
  <2>1. Branched(ms2, new) = Branched(ms2, K) \cup {new}
    BY <1>2, <1>7 DEF Branched
  <2>2. ASSUME NEW t \in U2 PROVE t \in U \cup Y
    <3>1. PICK j \in Branched(ms2, new) : t \in {ls[j].header, ls[j].body, ls[j].merge} \ {0}
      BY DEF Targets
    <3>2. CASE j = new
      BY <1>4a, <3>1, <3>2
    <3>3. CASE j # new
      BY <2>1, <3>1, <3>3 DEF Targets
    <3> QED
      BY <3>2, <3>3
  <2> QED
    BY <1>6, <2>2
<1> HIDE DEF V, T, W, U, W2, U2, Y
<1>10. Frame(S, W, U, StartOf(l.merge))
  BY <1>1, <1>5, <1>6, FrameFollows
<1>11. Frame(S, W2, U2, StartOf(l.body))
  <2>1. StartOf(l.body).block = l.body /\ \A t \in Y : Reachable(S, t, l.body)
    BY DEF Y, StartOf
  <2> QED
    BY <1>1, <1>8, <1>9, <2>1, FrameFollows
<1>12. new - 1 = K /\ ls[new] = l /\ ms2[new] = m
  BY <1>2, <1>4a, <1>7
<1>13. Resumable(S, scopes, vals, storage, ls, ms2, new)
  BY <1>10, <1>11, <1>12 DEF Resumable, W, W2, U, U2
<1> QED
  BY <1>13 DEF new, K

LEMMA LocalsTyped ==
    ASSUME EmitInv, codegen = "emitting" PROVE locals \in Seq(AnyLocal)
  BY DEF EmitInv, Follows, Emitting, Locals

\* An if or a loop begins.
LEMMA OpenBranchKeepsCert ==
    ASSUME Certifying, NEW M, NestAt(M), NEW R, CertAt(R, M[pos].marks),
           NEW node \in {"IF_BODY", "LOOP"}, Visiting({node}), NEW n, OperandsLeft(n), Len(opperands') = n,
           pos' = pos + 1, codegen' = "emitting", UNCHANGED <<storage, cg_scope>>,
           NEW S, Agree(R, S), Cert(blocks', S), DOMAIN S = DOMAIN blocks',
           \A b \in DOMAIN S : S[b] \subseteq DOMAIN S,
           NEW l, l.body # 0, l.merge # 0, l \in AnyLocal, locals' = Append(locals, l),
           PlaceAfter(R, ip, S, ip'), PlaceAfter(R, ip, S, StartOf(l.body)), PlaceAfter(R, ip, S, StartOf(l.merge)),
           \A t \in {l.header, l.body, l.merge} \ {0} : Reachable(S, t, l.body) /\ Reachable(S, t, ip'.block)
    PROVE  CertInv'
<1>1. CertVisit(M, n)
  BY AtCertVisit
<1> DEFINE ms == M[pos].marks
           K == Len(ms)
           m == MarkAt(ThisVisit, n)
           ms2 == M[pos + 1].marks
           ls == locals'
           new == K + 1
<1>2. /\ ms \in Seq(Mark) /\ ms2 \in Seq(Mark) /\ ThisVisit.node = node /\ ThisVisit \in Visit
      /\ pos \in DOMAIN ast /\ ThisVisit.scope \in DOMAIN scopes
      /\ NestVisit(ThisVisit, n, ms, M[pos + 1])
  BY <1>1 DEF CertVisit, Visiting
<1>3. ThisVisit.node \in Opening /\ ThisVisit.node \notin ScopedOps
      /\ ThisVisit.node \notin {"BLOCK"} \cup ScopedOps \cup {"GENERATOR_END", "FILTER_END"}
  BY <1>2 DEF Opening, ScopedOps
<1>4. ms2 = Append(ms, m) /\ n \in Nat
  BY <1>2, <1>3 DEF NestVisit
<1>5. m.scope = ThisVisit.scope /\ m.base = n /\ ~m.scoped /\ m \in Mark
  <2> DEFINE scoped == ThisVisit.node \in ScopedOps \cup {"GENERATOR_END", "FILTER_END"}
  <2>1. ThisVisit.scope \in Nat /\ ~scoped /\ scoped \in BOOLEAN
    BY <1>2, <1>3 DEF Visit
  <2>2. m = [scope |-> ThisVisit.scope, base |-> n, scoped |-> scoped]
    BY DEF MarkAt
  <2> HIDE DEF scoped, m
  <2> QED
    BY <1>4, <2>1, <2>2 DEF Mark
<1>6. /\ EmitInv /\ codegen = "emitting" /\ codegen # "idle" /\ UNCHANGED scopes
      /\ locals \in Seq(AnyLocal) /\ LocalsMarked(locals, ms, scopes)
  <2>1. EmitInv /\ codegen = "emitting" /\ UNCHANGED scopes /\ LocalsMarked(locals, ms, scopes)
    BY <1>1 DEF Certifying, CertVisit, defref_vars, CertAt
  <2> QED
    BY <2>1, LocalsTyped
<1>7. cg_scope = ThisVisit.scope /\ Chain(scopes, m.scope) = ChainNow
  <2>1. cg_scope = ThisVisit.scope
    BY <1>2, <1>3, <1>6, ClosedScope
  <2> QED
    BY <1>5, <2>1 DEF ChainNow
<1> HIDE DEF m
<1>8. K \in Nat /\ Len(ms2) = new /\ ms2[new] = m /\ \A k \in 1..K : ms2[k] = ms[k]
  BY <1>2, <1>4, <1>5
<1>9. Len(ls) = new /\ ls[new] = l /\ \A k \in 1..K : ls[k] = locals[k]
  <2>1. Len(locals) = K
    BY <1>6 DEF LocalsMarked
  <2> HIDE DEF ms, K
  <2> QED
    BY <1>6, <2>1
<1> HIDE DEF ms2
<1>10. LocalsMarked(ls, ms2, scopes)
  <2>1. \A k \in 1..K :
           /\ ms[k].scope \in DOMAIN scopes
           /\ ~ms[k].scoped => locals[k].body # 0 /\ locals[k].merge # 0
    BY <1>6 DEF LocalsMarked
  <2>2. \A k \in 1..new : k \in 1..K \/ k = new
    BY <1>8
  <2> HIDE DEF ms, K, ls, new
  <2>3. ms2[new].scope \in DOMAIN scopes /\ ~ms2[new].scoped /\ ls[new].body # 0 /\ ls[new].merge # 0
    BY <1>2, <1>5, <1>8, <1>9
  <2>4. \A k \in 1..K :
           /\ ms2[k].scope \in DOMAIN scopes
           /\ ~ms2[k].scoped => ls[k].body # 0 /\ ls[k].merge # 0
    BY <1>8, <1>9, <2>1
  <2>5. ASSUME NEW k \in 1..Len(ms2)
        PROVE  /\ ms2[k].scope \in DOMAIN scopes
               /\ ~ms2[k].scoped => ls[k].body # 0 /\ ls[k].merge # 0
    <3>1. k \in 1..K \/ k = new
      BY <1>8, <2>2
    <3> QED
      BY <2>3, <2>4, <3>1
  <2> QED
    BY <1>8, <1>9, <2>5 DEF LocalsMarked
<1>11. StorageKept
  BY DEF StorageKept
<1>12. VisitMade(M, R, n, S, ms2, K)
  <2>1. K <= Len(ms) /\ K <= Len(ms2) /\ K \in Nat /\ \A k \in 1..K : ls[k] = locals[k] /\ ms2[k] = ms[k]
    BY <1>8, <1>9
  <2> HIDE DEF K
  <2> QED
    BY <1>1, <1>10, <1>11, <2>1 DEF VisitMade, ms2, ms, ls
<1>13. StoredKnown(S)
  BY <1>6 DEF StoredKnown, ChainNow
<1>14. Resumable(S, scopes, opperands', storage', ls, ms2, new)
  <2>1. n <= Len(opperands) /\ \A i \in 1..n : opperands'[i] = opperands[i]
    <3>1. opperands \in Seq(Value(blocks)) /\ Arity(ThisVisit.node) \in Nat
      BY <1>6 DEF EmitInv, Arity
    <3> QED
      BY <1>4, <3>1 DEF OperandsLeft
  <2> DEFINE vals == opperands'
  <2>2. storage' = storage /\ n \in Nat /\ \A i \in 1..n : vals[i] = opperands[i]
    BY <1>4, <2>1
  <2>3. \A t \in {l.header, l.body, l.merge} \ {0} : Reachable(S, t, l.body)
    OBVIOUS
  <2>4. ms \in Seq(Mark) /\ CertAt(R, ms) /\ EmitInv /\ Len(ls) = Len(ms) + 1 /\ ls[Len(ms) + 1] = l
        /\ (\A k \in 1..Len(ms) : ls[k] = locals[k]) /\ m \in Mark /\ ~m.scoped /\ m.base = n
        /\ (\A k \in 1..Len(ms) : ms2[k] = ms[k]) /\ ms2[Len(ms) + 1] = m
    BY <1>2, <1>5, <1>6, <1>8, <1>9
  <2> HIDE DEF vals, ms, ls
  <2>5. Resumable(S, scopes, vals, storage, ls, ms2, Len(ms) + 1)
    BY <1>7, <2>1, <2>2, <2>3, <2>4, BranchResumable
  <2> QED
    BY <2>2, <2>5 DEF vals, K
<1>15. ASSUME NEW k \in 1..Len(ms2), k > K
       PROVE  /\ LocalKnown(S, ls[k], ms2[k])
              /\ Resumable(S, scopes, opperands', storage', ls, ms2, k)
  <2>1. k = new
    BY <1>8, <1>15
  <2>2. LocalKnown(S, l, m)
    BY <1>5 DEF LocalKnown
  <2> QED
    BY <1>8, <1>9, <1>14, <2>1, <2>2
<1>16. ~(Len(opperands') = n + 1)
  BY <1>4
<1> HIDE DEF K, new, ms
<1> QED
  BY <1>12, <1>13, <1>15, <1>16, PlaceKeepsCert

\* S extends R by the blocks an if or a loop adds: the values T can be used in them,
\* and those of the block itself.
NewBlocks(R, S, N, T, last) ==
    /\ last \in Nat /\ Len(blocks) <= last
    /\ R[ip.block] \cup {ip.block} \subseteq T /\ T \subseteq 1..last
    /\ DOMAIN N = (Len(blocks) + 1)..last /\ \A b \in DOMAIN N : N[b] = T \cup {b}
    /\ Agree(R, S) /\ DOMAIN S = DOMAIN R \cup DOMAIN N /\ \A b \in DOMAIN N : S[b] = N[b]

ReadyBlocks(R, S, T, last) ==
    /\ Agree(R, S) /\ DOMAIN S = 1..last /\ \A b \in DOMAIN S : S[b] \subseteq DOMAIN S
    /\ S[ip.block] = R[ip.block]
    /\ \A b \in (Len(blocks) + 1)..last : S[b] = T \cup {b} /\ PlaceAfter(R, ip, S, StartOf(b))
    /\ \A t, b \in (Len(blocks) + 1)..last : Reachable(S, t, b)

LEMMA BranchBlocks ==
    ASSUME EmitInv, codegen # "idle", NEW R, NEW ms, CertAt(R, ms),
           NEW S, NEW N, NEW T, NEW last, NewBlocks(R, S, N, T, last)
    PROVE  ReadyBlocks(R, S, T, last)
<1> DEFINE len == Len(blocks)
           added == (len + 1)..last
<1>1. /\ DOMAIN R = 1..len /\ len \in Nat /\ ip.block \in DOMAIN R
      /\ \A b \in DOMAIN R : R[b] \subseteq DOMAIN R
  <2>1. blocks \in Seq(BlockRecord) /\ ip.block \in DOMAIN blocks
    BY PlaceTyped
  <2> QED
    BY <2>1 DEF CertAt
<1>2. /\ DOMAIN N = added /\ \A b \in added : S[b] = T \cup {b}
      /\ last \in Nat /\ len <= last /\ Agree(R, S) /\ DOMAIN S = DOMAIN R \cup DOMAIN N
      /\ R[ip.block] \cup {ip.block} \subseteq T /\ T \subseteq 1..last
  BY DEF NewBlocks
<1>3. (1..len) \cup added = 1..last /\ \A b \in added : b \notin 1..len
  BY <1>1, <1>2
<1> HIDE DEF len, added
<1>5. /\ DOMAIN S = 1..last /\ \A b \in added : S[b] = T \cup {b}
      /\ \A b \in DOMAIN R : S[b] = R[b]
  BY <1>1, <1>2, <1>3 DEF Agree
<1>6. DOMAIN S = DOMAIN R \cup added /\ \A b \in added : b \notin DOMAIN R
  BY <1>1, <1>2, <1>3
<1>7. \A b \in DOMAIN S : S[b] \subseteq DOMAIN S
  <2>1. ASSUME NEW b \in DOMAIN R PROVE S[b] \subseteq DOMAIN S
    BY <1>1, <1>5, <1>6
  <2>2. ASSUME NEW b \in added PROVE S[b] \subseteq DOMAIN S
    <3>1. T \subseteq DOMAIN S /\ b \in DOMAIN S
      BY <1>2, <1>5, <1>6
    <3>2. S[b] = T \cup {b}
      BY <1>5
    <3> QED
      BY <3>1, <3>2
  <2> QED
    BY <1>6, <2>1, <2>2
<1>8. ASSUME NEW b \in added PROVE PlaceAfter(R, ip, S, StartOf(b))
  <2>1. StartOf(b).block = b
    BY DEF StartOf
  <2>2. R[ip.block] \cup {ip.block} \subseteq S[b]
    BY <1>2, <1>5
  <2> QED
    BY <1>1, <1>6, <2>1, <2>2 DEF PlaceAfter
<1>9. ASSUME NEW t \in added, NEW b \in added PROVE Reachable(S, t, b)
  BY <1>5, <1>6 DEF Reachable
<1> QED
  BY <1>1, <1>2, <1>5, <1>7, <1>8, <1>9 DEF added, len, ReadyBlocks

LEMMA GenIF_BLOCKKeepsCert == ASSUME Certifying, CertInv, GenIF_BLOCK PROVE CertInv'
<1> DEFINE len == Len(blocks)
           op == CondBr(TopValue, len + 1, len + 2)
           l == [header |-> 0, body |-> len + 1, merge |-> len + 2]
           node == "IF_BODY"
<1>1. /\ Visiting({node}) /\ ThisVisit.node = node /\ codegen = "emitting" /\ codegen # "idle" /\ EmitInv
      /\ blocks' = BranchTo(op, 2) /\ ip' = StartOf(len + 1) /\ locals' = Append(locals, l)
      /\ opperands' = Pop(opperands) /\ pos' = pos + 1 /\ codegen' = "emitting"
      /\ UNCHANGED <<storage, cg_scope>>
  BY DEF GenIF_BLOCK, Visiting, Advance, PopOperand, Certifying
<1>2. PICK R, M : Certified(R, M)
  BY <1>1, CertHere
<1>3. /\ NestAt(M) /\ CertAt(R, M[pos].marks) /\ KnownAt(R, const_zero, ip)
      /\ \A i \in 1..Len(opperands) : KnownAt(R, opperands[i], ip)
  BY <1>2 DEF Certified
<1>4. Arity(ThisVisit.node) = 1 /\ Pushes(ThisVisit.node) = 0
  BY <1>1 DEF Arity, Pushes, Ops, ScopedOps
<1> DEFINE n == Len(opperands) - Arity(ThisVisit.node)
<1>5. /\ n \in Nat /\ First(Pop(opperands), n) /\ TopValue \in Value(blocks)
      /\ TopValue = opperands[Len(opperands)] /\ Len(opperands) \in 1..Len(opperands)
  <2>1. /\ n \in Nat /\ First(Pop(opperands), n) /\ TopValue \in Value(blocks) /\ opperands # <<>>
        /\ TopValue = opperands[Len(opperands)] /\ opperands \in Seq(Value(blocks))
    BY <1>1, <1>3, <1>4, RestOfOperands
  <2> QED
    BY <2>1
<1> HIDE DEF n
<1>6. OperandsLeft(n) /\ Len(opperands') = n
  BY <1>1, <1>4, <1>5, LeavesRest DEF n
<1>7. len \in Nat /\ ip.block \in 1..len /\ ip.at \in Nat /\ R[ip.block] \subseteq 1..len /\ DOMAIN R = DOMAIN blocks
  <2>1. blocks \in Seq(BlockRecord) /\ ip.block \in DOMAIN blocks /\ ip.at \in Nat
    BY <1>1, PlaceTyped
  <2> QED
    BY <1>3, <2>1 DEF CertAt
<1> DEFINE T == R[ip.block] \cup {ip.block}
           last == len + 2
           N == [b \in (len + 1)..last |-> T \cup {b}]
           S == Extended(R, N)
<1>7a. /\ DOMAIN N = (len + 1)..last /\ \A b \in DOMAIN N : N[b] = T \cup {b}
  OBVIOUS
<1> HIDE DEF N
<1>7b. /\ Agree(R, S) /\ DOMAIN S = DOMAIN R \cup DOMAIN N /\ \A b \in DOMAIN N : S[b] = N[b]
  <2>1. DOMAIN R \cap DOMAIN N = {}
    <3>1. DOMAIN R = 1..len
      BY <1>1, <1>7, PlaceTyped
    <3> HIDE DEF len
    <3> QED
      BY <1>7, <1>7a, <3>1
  <2> QED
    BY <2>1, ExtendedAgrees
<1> HIDE DEF S
<1>8. /\ Agree(R, S) /\ DOMAIN S = 1..last /\ \A b \in DOMAIN S : S[b] \subseteq DOMAIN S
      /\ S[ip.block] = R[ip.block]
      /\ \A b \in (len + 1)..last : S[b] = T \cup {b} /\ PlaceAfter(R, ip, S, StartOf(b))
      /\ \A t, b \in (len + 1)..last : Reachable(S, t, b)
  <2> DEFINE ms == M[pos].marks
  <2>1. T \subseteq 1..last /\ CertAt(R, ms) /\ last \in Nat /\ Len(blocks) <= last
        /\ R[ip.block] \cup {ip.block} \subseteq T
    BY <1>3, <1>7
  <2>2. NewBlocks(R, S, N, T, last)
    BY <1>7a, <1>7b, <2>1 DEF NewBlocks
  <2> HIDE DEF ms, last, T
  <2>3. ReadyBlocks(R, S, T, last)
    BY <1>1, <2>1, <2>2, BranchBlocks
  <2> QED
    BY <2>3 DEF ReadyBlocks
<1>9. len + 1 \in (len + 1)..last /\ len + 2 \in (len + 1)..last
  BY <1>7
<1>10. Reachable(S, len + 1, ip.block) /\ Reachable(S, len + 2, ip.block)
  <2>1. /\ S[len + 1] = T \cup {len + 1} /\ S[len + 2] = T \cup {len + 2}
        /\ len + 1 \in DOMAIN S /\ len + 2 \in DOMAIN S /\ T = S[ip.block] \cup {ip.block}
    BY <1>7, <1>8, <1>9
  <2> HIDE DEF T
  <2> QED
    BY <2>1 DEF Reachable
<1>11. op \in Operation
  <2>1. TopValue \in Arg
    BY <1>1, <1>5, OperandsAreArgs
  <2> QED
    BY <1>7, <2>1, TerminatorIsOperation
<1>12. OpOK(S, ip.block, ip.at + 1, op)
  <2>1. KnownAt(R, TopValue, ip) /\ KnownAt(R, const_zero, ip)
    BY <1>3, <1>5
  <2>2. ip.block \in DOMAIN R
    BY <1>7
  <2>3. Known(S, TopValue, ip.block, ip.at + 1) /\ Known(S, const_zero, ip.block, ip.at + 1)
    BY <1>8, <2>1, <2>2, AgreeKnown DEF KnownAt
  <2> QED
    BY <1>10, <2>3, BranchOK
<1>13. Cert(blocks', S) /\ DOMAIN blocks' = DOMAIN S
  <2> DEFINE two == 2
  <2>1. two \in Nat /\ last = Len(blocks) + two
    OBVIOUS
  <2>2. \A b \in 1..(Len(blocks) + two) : b \in DOMAIN S
    BY <1>8
  <2>3. \A b \in (Len(blocks) + 1)..(Len(blocks) + two) : b \in S[b]
    BY <1>8
  <2>4. blocks' = BranchTo(op, two) /\ Cert(blocks, R)
    BY <1>1, <1>3 DEF CertAt
  <2> HIDE DEF two, op, T, len
  <2>5. Cert(blocks', S) /\ DOMAIN blocks' = 1..(Len(blocks) + two)
    BY <1>1, <1>7, <1>8, <1>11, <1>12, <2>1, <2>2, <2>3, <2>4, BranchCert
  <2> QED
    BY <1>8, <2>1, <2>5
<1>14. /\ l.header = 0 /\ l.body = len + 1 /\ l.merge = len + 2 /\ l.body # 0 /\ l.merge # 0 /\ l \in AnyLocal
  BY <1>7 DEF AnyLocal
<1> HIDE DEF l
<1>15. \A t \in {l.header, l.body, l.merge} \ {0} :
          Reachable(S, t, l.body) /\ Reachable(S, t, ip'.block)
  <2>1. ip'.block = len + 1
    BY <1>1 DEF StartOf
  <2>2. \A t \in {l.header, l.body, l.merge} \ {0} : t \in (len + 1)..last
    BY <1>9, <1>14
  <2> HIDE DEF len, last
  <2> QED
    BY <1>8, <1>9, <1>14, <2>1, <2>2
<1>16. PlaceAfter(R, ip, S, ip') /\ PlaceAfter(R, ip, S, StartOf(l.body)) /\ PlaceAfter(R, ip, S, StartOf(l.merge))
  BY <1>1, <1>8, <1>9, <1>14
<1>17. node \in {"IF_BODY", "LOOP"}
  OBVIOUS
<1> HIDE DEF node, op
<1> QED
  BY <1>1, <1>3, <1>6, <1>8, <1>13, <1>14, <1>15, <1>16, <1>17, OpenBranchKeepsCert

LEMMA GenLOOP_BLOCKKeepsCert == ASSUME Certifying, CertInv, GenLOOP_BLOCK PROVE CertInv'
<1> DEFINE len == Len(blocks)
           op == Br(len + 1)
           l == [header |-> len + 1, body |-> len + 1 + 1, merge |-> len + 1 + 2]
           node == "LOOP"
<1>1. /\ Visiting({node}) /\ ThisVisit.node = node /\ codegen = "emitting" /\ codegen # "idle" /\ EmitInv
      /\ blocks' = BranchTo(op, 3) /\ ip' = StartOf(len + 1) /\ locals' = Append(locals, l)
      /\ opperands' = opperands /\ pos' = pos + 1 /\ codegen' = "emitting"
      /\ UNCHANGED <<storage, cg_scope>>
  BY DEF GenLOOP_BLOCK, Visiting, Advance, Certifying
<1>2. PICK R, M : Certified(R, M)
  BY <1>1, CertHere
<1>3. NestAt(M) /\ CertAt(R, M[pos].marks)
  BY <1>2 DEF Certified
<1>4. Arity(ThisVisit.node) = 0 /\ Pushes(ThisVisit.node) = 0
  BY <1>1 DEF Arity, Pushes, Ops, ScopedOps
<1> DEFINE n == Len(opperands) - Arity(ThisVisit.node)
<1>5. n \in Nat /\ First(opperands, n)
  BY <1>1, <1>3, <1>4, RestOfOperands
<1> HIDE DEF n
<1>6. OperandsLeft(n) /\ Len(opperands') = n
  BY <1>1, <1>4, <1>5, LeavesRest DEF n
<1>7. len \in Nat /\ ip.block \in 1..len /\ ip.at \in Nat /\ R[ip.block] \subseteq 1..len /\ DOMAIN R = DOMAIN blocks
  <2>1. blocks \in Seq(BlockRecord) /\ ip.block \in DOMAIN blocks /\ ip.at \in Nat
    BY <1>1, PlaceTyped
  <2> QED
    BY <1>3, <2>1 DEF CertAt
<1> DEFINE T == R[ip.block] \cup {ip.block, len + 1}
           last == len + 3
           N == [b \in (len + 1)..last |-> T \cup {b}]
           S == Extended(R, N)
<1>7a. /\ DOMAIN N = (len + 1)..last /\ \A b \in DOMAIN N : N[b] = T \cup {b}
  OBVIOUS
<1> HIDE DEF N
<1>7b. /\ Agree(R, S) /\ DOMAIN S = DOMAIN R \cup DOMAIN N /\ \A b \in DOMAIN N : S[b] = N[b]
  <2>1. DOMAIN R \cap DOMAIN N = {}
    <3>1. DOMAIN R = 1..len
      BY <1>1, <1>7, PlaceTyped
    <3> HIDE DEF len
    <3> QED
      BY <1>7, <1>7a, <3>1
  <2> QED
    BY <2>1, ExtendedAgrees
<1> HIDE DEF S
<1>8. /\ Agree(R, S) /\ DOMAIN S = 1..last /\ \A b \in DOMAIN S : S[b] \subseteq DOMAIN S
      /\ S[ip.block] = R[ip.block]
      /\ \A b \in (len + 1)..last : S[b] = T \cup {b} /\ PlaceAfter(R, ip, S, StartOf(b))
      /\ \A t, b \in (len + 1)..last : Reachable(S, t, b)
  <2> DEFINE ms == M[pos].marks
  <2>1. T \subseteq 1..last /\ CertAt(R, ms) /\ last \in Nat /\ Len(blocks) <= last
        /\ R[ip.block] \cup {ip.block} \subseteq T
    BY <1>3, <1>7
  <2>2. NewBlocks(R, S, N, T, last)
    BY <1>7a, <1>7b, <2>1 DEF NewBlocks
  <2> HIDE DEF ms, last, T
  <2>3. ReadyBlocks(R, S, T, last)
    BY <1>1, <2>1, <2>2, BranchBlocks
  <2> QED
    BY <2>3 DEF ReadyBlocks
<1>9. len + 1 \in (len + 1)..last /\ len + 2 \in (len + 1)..last /\ len + 3 \in (len + 1)..last
  BY <1>7
<1>10. Reachable(S, len + 1, ip.block)
  <2>1. /\ S[len + 1] = T \cup {len + 1} /\ len + 1 \in DOMAIN S
        /\ T = S[ip.block] \cup {ip.block, len + 1}
    BY <1>7, <1>8, <1>9
  <2> HIDE DEF T
  <2> QED
    BY <2>1 DEF Reachable
<1>11. op \in Operation
  BY <1>1, <1>7, TerminatorIsOperation, OperandsAreArgs
<1>12. OpOK(S, ip.block, ip.at + 1, op)
  BY <1>10, BranchOK
<1>13. Cert(blocks', S) /\ DOMAIN blocks' = DOMAIN S
  <2> DEFINE added == 3
  <2>1. added \in Nat /\ last = Len(blocks) + added
    OBVIOUS
  <2>2. \A b \in 1..(Len(blocks) + added) : b \in DOMAIN S
    BY <1>8
  <2>3. \A b \in (Len(blocks) + 1)..(Len(blocks) + added) : b \in S[b]
    BY <1>8
  <2>4. blocks' = BranchTo(op, added) /\ Cert(blocks, R)
    BY <1>1, <1>3 DEF CertAt
  <2> HIDE DEF added, op, T, len
  <2>5. Cert(blocks', S) /\ DOMAIN blocks' = 1..(Len(blocks) + added)
    BY <1>1, <1>7, <1>8, <1>11, <1>12, <2>1, <2>2, <2>3, <2>4, BranchCert, SMTT(30)
  <2> QED
    BY <1>8, <2>1, <2>5
<1>14. /\ l.header = len + 1 /\ l.body = len + 2 /\ l.merge = len + 3 /\ l.body # 0 /\ l.merge # 0 /\ l \in AnyLocal
  BY <1>7 DEF AnyLocal
<1> HIDE DEF l
<1>15. \A t \in {l.header, l.body, l.merge} \ {0} :
          Reachable(S, t, l.body) /\ Reachable(S, t, ip'.block)
  <2>1. ip'.block = len + 1
    BY <1>1 DEF StartOf
  <2>2. \A t \in {l.header, l.body, l.merge} \ {0} : t \in (len + 1)..last
    BY <1>9, <1>14
  <2> HIDE DEF len, last
  <2> QED
    BY <1>8, <1>9, <1>14, <2>1, <2>2
<1>16. PlaceAfter(R, ip, S, ip') /\ PlaceAfter(R, ip, S, StartOf(l.body)) /\ PlaceAfter(R, ip, S, StartOf(l.merge))
  BY <1>1, <1>8, <1>9, <1>14
<1>17. node \in {"IF_BODY", "LOOP"}
  OBVIOUS
<1> HIDE DEF node, op
<1> QED
  BY <1>1, <1>3, <1>6, <1>8, <1>13, <1>14, <1>15, <1>16, <1>17, OpenBranchKeepsCert

----------------------------------------------------------------------------
(* Generators and filters. *)

OpsOK(R, b, i, ops) == \A j \in 1..Len(ops) : OpOK(R, b, i + j, ops[j])

LEMMA OpsConcatenated ==
    ASSUME NEW R, NEW b, NEW i \in Nat, NEW Q, NEW x \in Seq(Q), NEW y \in Seq(Q),
           OpsOK(R, b, i, x), OpsOK(R, b, i + Len(x), y)
    PROVE  OpsOK(R, b, i, x \o y)
<1> DEFINE m == Len(x)
           z == x \o y
<1>1. /\ m \in Nat /\ Len(y) \in Nat /\ Len(z) = m + Len(y)
      /\ (\A j \in 1..m : z[j] = x[j]) /\ (\A j \in 1..Len(y) : z[m + j] = y[j])
  BY Concatenated
<1>2. (\A j \in 1..m : OpOK(R, b, i + j, x[j])) /\ (\A j \in 1..Len(y) : OpOK(R, b, (i + m) + j, y[j]))
  BY DEF OpsOK
<1> HIDE DEF m, z
<1>3. ASSUME NEW k \in 1..Len(z) PROVE OpOK(R, b, i + k, z[k])
  <2>1. CASE k \in 1..m
    BY <1>1, <1>2, <2>1
  <2>2. CASE k \notin 1..m
    <3> DEFINE j == k - m
    <3>1. j \in 1..Len(y) /\ k = m + j /\ i + k = (i + m) + j
      BY <1>1, <2>2
    <3> HIDE DEF j
    <3>2. z[k] = y[j] /\ OpOK(R, b, (i + m) + j, y[j])
      BY <1>1, <1>2, <3>1
    <3> QED
      BY <3>1, <3>2
  <2> QED
    BY <2>1, <2>2
<1> QED
  BY <1>3 DEF OpsOK, z

LEMMA ScopedResumable ==
    ASSUME NEW R, NEW ms \in Seq(Mark), CertAt(R, ms), EmitInv, NEW S, Agree(R, S),
           NEW n \in Nat, n <= Len(opperands), NEW vals, \A i \in 1..n : vals[i] = opperands[i],
           NEW st, Apart(storage, st, ChainNow), NEW l, NEW ls, Len(ls) = Len(ms) + 1,
           \A k \in 1..Len(ms) : ls[k] = locals[k], ls[Len(ms) + 1] = l,
           NEW m \in Mark, m.scoped, m.base = n, Chain(scopes, scopes[m.scope].enclosing) = ChainNow,
           NEW ms2, \A k \in 1..Len(ms) : ms2[k] = ms[k], ms2[Len(ms) + 1] = m,
           PlaceAfter(R, ip, S, l.save), KnownAt(S, l.result, l.save)
    PROVE  Resumable(S, scopes, vals, st, ls, ms2, Len(ms) + 1)
<1> DEFINE K == Len(ms)
           new == K + 1
           len == Len(opperands)
           V == Live(opperands, len, storage, ChainNow, locals, ms, K)
           T == Targets(locals, ms, K)
           W == Live(vals, n, st, ChainNow, ls, ms2, K)
           U == Targets(ls, ms2, K)
<1>1. Frame(R, V, T, ip)
  BY DEF CertAt, ChainNow
<1>2. /\ n \in Nat /\ len \in Nat /\ n <= len
      /\ \A j \in 1..n : vals[j] = opperands[j]
      /\ ChainNow \subseteq ChainNow /\ Apart(storage, st, ChainNow)
      /\ K \in Nat /\ K <= K
      /\ \A j \in 1..K : ls[j] = locals[j] /\ ms2[j] = ms[j]
  BY DEF EmitInv
<1>4. ls[new] = l /\ ms2[new] = m
  OBVIOUS
<1> HIDE DEF K, len
<1>5. new - 1 = K
  BY <1>2
<1> HIDE DEF new, V, T, W, U
<1>6. Live(vals, n, st, ChainNow, ls, ms2, K) \subseteq Live(opperands, len, storage, ChainNow, locals, ms, K)
  <2> DEFINE C == ChainNow
  <2>1. /\ n \in Nat /\ len \in Nat /\ n <= len
        /\ \A j \in 1..n : vals[j] = opperands[j]
        /\ C \subseteq C /\ Apart(storage, st, C)
        /\ K \in Nat /\ K <= K
        /\ \A j \in 1..K : ls[j] = locals[j] /\ ms2[j] = ms[j]
    BY <1>2
  <2> HIDE DEF C
  <2>2. Live(vals, n, st, C, ls, ms2, K) \subseteq Live(opperands, len, storage, C, locals, ms, K)
    BY <2>1, LiveWithin
  <2> QED
    BY <2>2 DEF C
<1>7. Targets(ls, ms2, K) \subseteq Targets(locals, ms, K)
  BY <1>2, TargetsWithin
<1>8. W \subseteq V /\ U \subseteq T
  BY <1>6, <1>7 DEF V, W, T, U
<1> DEFINE W2 == W \cup {l.result}
<1>9. \A v \in W2 : v \in V \/ KnownAt(S, v, l.save)
  BY <1>8
<1> HIDE DEF W2
<1>10. Frame(S, W2, U, l.save)
  BY <1>1, <1>8, <1>9, FrameFollows
<1>11. Resumable(S, scopes, vals, st, ls, ms2, new)
  BY <1>4, <1>5, <1>10 DEF Resumable, W2, W, U
<1> QED
  BY <1>11 DEF new, K

LEMMA ThreeArgsOK ==
    ASSUME NEW R, NEW b, NEW i, NEW op, NEW text, NEW x, NEW y, NEW z,
           Known(R, x, b, i), Known(R, y, b, i), Known(R, z, b, i)
    PROVE  /\ OpOK(R, b, i, Op(op, text, <<x, y, z>>, <<>>))
           /\ \A t : Reachable(R, t, b) => OpOK(R, b, i, Op(op, text, <<x, y, z>>, <<t>>))
<1> DEFINE args == <<x, y, z>>
<1>1. \A k \in DOMAIN args : args[k] = x \/ args[k] = y \/ args[k] = z
  OBVIOUS
<1> HIDE DEF args
<1>2. \A k \in DOMAIN args : Known(R, args[k], b, i)
  BY <1>1
<1>3. OpOK(R, b, i, Op(op, text, args, <<>>))
  <2>1. Op(op, text, args, <<>>).args = args /\ Op(op, text, args, <<>>).to = <<>>
    BY DEF Op
  <2> QED
    BY <1>2, <2>1, ArgsOK
<1>4. ASSUME NEW t, Reachable(R, t, b) PROVE OpOK(R, b, i, Op(op, text, args, <<t>>))
  <2> DEFINE to == <<t>>
  <2>1. \A k \in DOMAIN to : to[k] = t
    OBVIOUS
  <2> HIDE DEF to
  <2>2. Op(op, text, args, to).args = args /\ Op(op, text, args, to).to = to
    BY DEF Op
  <2>3. OpOK(R, b, i, Op(op, text, args, to))
    BY <1>2, <1>4, <2>1, <2>2 DEF OpOK
  <2> QED
    BY <2>3 DEF to
<1> QED
  BY <1>3, <1>4 DEF args

\* One, two or three operations.
LEMMA FewOpsOK ==
    ASSUME NEW R, NEW b, NEW i \in Nat, NEW x, OpOK(R, b, i + 1, x)
    PROVE  /\ OpsOK(R, b, i, <<x>>)
           /\ \A y : OpOK(R, b, i + 2, y) => OpsOK(R, b, i, <<x, y>>)
           /\ \A y, z : OpOK(R, b, i + 2, y) /\ OpOK(R, b, i + 3, z) => OpsOK(R, b, i, <<x, y, z>>)
<1>1. OpsOK(R, b, i, <<x>>)
  BY OneOpOK DEF OpsOK
<1>2. ASSUME NEW y, OpOK(R, b, i + 2, y) PROVE OpsOK(R, b, i, <<x, y>>)
  <2> DEFINE ops == <<x, y>>
  <2>1. Len(ops) = 2 /\ ops[1] = x /\ ops[2] = y /\ \A j \in 1..2 : j = 1 \/ j = 2
    OBVIOUS
  <2> HIDE DEF ops
  <2>2. OpsOK(R, b, i, ops)
    BY <1>2, <2>1 DEF OpsOK
  <2> QED
    BY <2>2 DEF ops
<1>3. ASSUME NEW y, NEW z, OpOK(R, b, i + 2, y), OpOK(R, b, i + 3, z)
      PROVE  OpsOK(R, b, i, <<x, y, z>>)
  <2> DEFINE ops == <<x, y, z>>
  <2>1. Len(ops) = 3 /\ ops[1] = x /\ ops[2] = y /\ ops[3] = z /\ \A j \in 1..3 : j = 1 \/ j = 2 \/ j = 3
    OBVIOUS
  <2> HIDE DEF ops
  <2>2. OpsOK(R, b, i, ops)
    BY <1>3, <2>1 DEF OpsOK
  <2> QED
    BY <2>2 DEF ops
<1> QED
  BY <1>1, <1>2, <1>3

LEMMA AheadOK ==
    ASSUME EmitInv, codegen # "idle", NEW S, NEW domain \in Arg, NEW region \in Nat, NEW node,
           KnownAt(S, domain, ip), KnownAt(S, const_zero, ip), KnownAt(S, const_one, ip),
           Reachable(S, region, ip.block)
    PROVE  /\ OpsOK(S, ip.block, ip.at, AheadOfLoop(node, domain, region))
           /\ AheadOfLoop(node, domain, region) \in Seq(Operation)
           /\ Len(AheadOfLoop(node, domain, region)) >= 3
<1> DEFINE size == ResultAt(ip, 2, "int")
           result == ResultAt(ip, 3, "vector")
           measure == Op("size", NoText, <<domain>>, <<>>)
           allocate == Op("new_vector", NoText, <<size>>, <<>>)
           three == <<Alloca, measure, allocate>>
           empty == Op("empty", NoText, <<result, const_zero>>, <<>>)
           reset == IF node = "FILTER" THEN <<empty>> ELSE <<>>
           for == Op("for", NoText, <<const_zero, size, const_one>>, <<region>>)
           loop == <<for>>
           ahead == AheadOfLoop(node, domain, region)
           b == ip.block
           i == ip.at
           r == i + 3 + Len(reset)
           Q == {Alloca, measure, allocate, empty, for}
<1>1. ahead = (three \o reset) \o loop /\ i \in Nat
  BY PlaceTyped DEF AheadOfLoop
<1>2. ahead \in Seq(Operation)
  BY AheadIsStraight
<1> HIDE DEF ahead
<1>3. \A j \in Nat \ {0} : /\ Known(S, domain, b, i + j) /\ Known(S, const_zero, b, i + j)
                            /\ Known(S, const_one, b, i + j)
  BY <1>1, KnownLater
<1>4. /\ \A j \in Nat : j > 2 => Known(S, size, b, i + j)
      /\ \A j \in Nat : j > 3 => Known(S, result, b, i + j)
  BY <1>1, ResultKnown
<1> HIDE DEF size, result
<1>5. /\ OpOK(S, b, i + 1, Alloca) /\ OpOK(S, b, i + 2, measure) /\ OpOK(S, b, i + 3, allocate)
      /\ OpOK(S, b, i + 4, empty)
  <2>1. OpOK(S, b, i + 1, Alloca)
    BY <1>3, OneArgOK DEF Alloca
  <2>2. OpOK(S, b, i + 2, measure)
    BY <1>3, OneArgOK
  <2>3. OpOK(S, b, i + 3, allocate)
    BY <1>4, OneArgOK
  <2>4. OpOK(S, b, i + 4, empty)
    BY <1>3, <1>4, TwoArgsOK
  <2> QED
    BY <2>1, <2>2, <2>3, <2>4
<1>6. Len(reset) \in {0, 1} /\ r \in Nat /\ r + 1 = i + (4 + Len(reset))
  <2>1. Len(reset) = 0 \/ Len(reset) = 1
    BY DEF reset
  <2> HIDE DEF reset, i
  <2> QED
    BY <1>1, <2>1
<1>7. OpOK(S, b, r + 1, for)
  <2> DEFINE j == 4 + Len(reset)
  <2>1. j \in Nat /\ j > 2 /\ j # 0
    BY <1>6
  <2> HIDE DEF j
  <2>2. Known(S, const_zero, b, i + j) /\ Known(S, size, b, i + j) /\ Known(S, const_one, b, i + j)
    BY <1>3, <1>4, <2>1
  <2>3. OpOK(S, b, i + j, for)
    BY <2>2, ThreeArgsOK
  <2> HIDE DEF for
  <2> QED
    BY <1>6, <2>3 DEF j
<1> HIDE DEF measure, allocate, empty, for
<1>8. OpsOK(S, b, i, three)
  BY <1>1, <1>5, FewOpsOK
<1>9. OpsOK(S, b, i + 3, reset)
  <2>1. OpsOK(S, b, i + 3, <<empty>>)
    <3>1. i + 3 \in Nat /\ (i + 3) + 1 = i + 4
      BY <1>1
    <3> QED
      BY <1>5, <3>1, FewOpsOK
  <2>2. OpsOK(S, b, i + 3, <<>>)
    BY DEF OpsOK
  <2> QED
    BY <2>1, <2>2
<1>10. OpsOK(S, b, r, loop)
  BY <1>6, <1>7, FewOpsOK
<1>11. three \in Seq(Q) /\ reset \in Seq(Q) /\ loop \in Seq(Q) /\ Len(three) = 3 /\ Len(loop) = 1
  <2>1. {Alloca, measure, allocate, empty, for} \subseteq Q
    OBVIOUS
  <2> HIDE DEF Q
  <2>2. three \in Seq(Q) /\ Len(three) = 3
    BY <2>1
  <2>3. reset \in Seq(Q)
    BY <2>1
  <2>4. loop \in Seq(Q) /\ Len(loop) = 1
    BY <2>1
  <2> QED
    BY <2>2, <2>3, <2>4
<1> HIDE DEF Q, three, reset, loop
<1>12. /\ three \o reset \in Seq(Q) /\ Len(three \o reset) = 3 + Len(reset)
  <2>1. /\ three \o reset \in Seq(Q) /\ Len(three \o reset) = Len(three) + Len(reset)
    BY <1>11, Concatenated
  <2> QED
    BY <1>11, <2>1
<1>13. OpsOK(S, b, i, three \o reset)
  BY <1>1, <1>8, <1>9, <1>11, OpsConcatenated
<1>14. OpsOK(S, b, i, (three \o reset) \o loop)
  <2>1. i + Len(three \o reset) = r
    BY <1>1, <1>6, <1>12
  <2> QED
    BY <1>1, <1>10, <1>11, <1>12, <1>13, <2>1, OpsConcatenated
<1>15. Len(ahead) >= 3
  <2>1. Len((three \o reset) \o loop) = Len(three \o reset) + Len(loop)
    BY <1>11, <1>12, Concatenated
  <2> QED
    BY <1>1, <1>6, <1>11, <1>12, <2>1
<1> QED
  BY <1>1, <1>2, <1>14, <1>15 DEF ahead

LEMMA IteratorOK ==
    ASSUME NEW S, NEW domain, NEW region, S[region] = S[ip.block] \cup {ip.block}, ip.block # region,
           domain.block # region, KnownAt(S, domain, ip)
    PROVE  /\ OpsOK(S, region, 0, SetIterator(domain, region))
           /\ Len(SetIterator(domain, region)) = 2
<1> DEFINE element == ResultAt(StartOf(region), 1, "int")
           iterator == Result("address")
           var == InductionVar(region)
           read == Op("vector_index", NoText, <<domain, var>>, <<>>)
           write == Op("store", NoText, <<element, iterator>>, <<>>)
           zero == 0
<1>1. Known(S, domain, region, 1)
  BY DEF KnownAt, Known
<1>2. Known(S, var, region, 1)
  BY DEF Known, InductionVar
<1>3. Known(S, element, region, 2)
  BY DEF Known, ResultAt, StartOf
<1>4. Known(S, iterator, region, 2)
  BY DEF Known, Result, ResultAt
<1>5. SetIterator(domain, region) = <<read, write>>
  BY DEF SetIterator
<1> HIDE DEF element, iterator, var
<1>6. OpOK(S, region, 1, read) /\ OpOK(S, region, 2, write)
  BY <1>1, <1>2, <1>3, <1>4, TwoArgsOK
<1> HIDE DEF read, write
<1>7. zero \in Nat /\ zero + 1 = 1 /\ zero + 2 = 2
  OBVIOUS
<1> HIDE DEF zero
<1>8. OpsOK(S, region, zero, <<read, write>>)
  BY <1>6, <1>7, FewOpsOK
<1>9. Len(<<read, write>>) = 2
  OBVIOUS
<1> QED
  BY <1>5, <1>8, <1>9 DEF zero

\* The blocks when the visit of the body begins.
ScopedBlocks(region, ahead, inside) ==
    InsertOps(Append(InsertOps(blocks, ip, ahead),
                     Block(<<Op("yield", NoText, <<>>, <<>>)>>, blocks[ip.block].within \cup {ip.block})),
              StartOf(region), inside)

CertWith(bs, S, domain) == Cert(bs, S) /\ DOMAIN bs = domain
ScopedReady(S, region, ahead, inside) ==
    /\ Cert(blocks, S) /\ region = Len(blocks) + 1 /\ region \in DOMAIN S
    /\ S[region] = S[ip.block] \cup {ip.block}
    /\ ahead \in Seq(Operation) /\ OpsOK(S, ip.block, ip.at, ahead)
    /\ inside \in Seq(Operation) /\ OpsOK(S, region, 0, inside)

LEMMA ScopedCert ==
    ASSUME EmitInv, codegen # "idle", NEW S, NEW region, NEW ahead, NEW inside,
           ScopedReady(S, region, ahead, inside)
    PROVE  CertWith(ScopedBlocks(region, ahead, inside), S, DOMAIN blocks \cup {region})
<1> DEFINE c == ip.block
           within == blocks[c].within \cup {c}
           yield == Op("yield", NoText, <<>>, <<>>)
           body == <<yield>>
           block == Block(body, within)
           mid == InsertOps(blocks, ip, ahead)
           more == Append(mid, block)
           p == StartOf(region)
<1>0. /\ Cert(blocks, S) /\ region = Len(blocks) + 1 /\ region \in DOMAIN S
      /\ S[region] = S[c] \cup {c}
      /\ ahead \in Seq(Operation) /\ OpsOK(S, c, ip.at, ahead)
      /\ inside \in Seq(Operation) /\ OpsOK(S, region, 0, inside)
  BY DEF ScopedReady
<1>1. /\ c \in DOMAIN blocks /\ ip.at \in Nat /\ ip.at \in 0..Len(blocks[c].body) /\ BlocksTyped(blocks)
      /\ blocks \in Seq(BlockRecord) /\ DOMAIN blocks = 1..Len(blocks) /\ Len(blocks) \in Nat
  BY PlaceTyped
<1>2. Cert(mid, S)
  BY <1>0, <1>1, CertInsert DEF OpsOK
<1>3. /\ BlocksTyped(mid) /\ Len(mid) = Len(blocks) /\ DOMAIN mid = DOMAIN blocks
      /\ mid[c].within = blocks[c].within
  BY <1>0, <1>1, OpsInserted
<1> HIDE DEF mid
<1>4. body \in Seq(Operation) /\ Len(body) = 1 /\ DOMAIN body = 1..1 /\ body[1] = yield
  BY YieldIsOperation
<1> HIDE DEF body
<1>5. within \in SUBSET DOMAIN blocks /\ within \in SUBSET Nat
  BY <1>1 DEF BlocksTyped
<1> HIDE DEF within
<1>6. block \in BlockRecord /\ block.within = within /\ block.body = body
  BY <1>4, <1>5 DEF Block, BlockRecord
<1>7. BodyOK(S, region, block.body)
  <2>1. OpOK(S, region, 1, yield)
    BY NoArgOK
  <2> HIDE DEF yield
  <2> QED
    BY <1>4, <1>6, <2>1 DEF BodyOK
<1> HIDE DEF block, yield
<1>8. Cert(more, S)
  <2>1. /\ block.within = mid[c].within \cup {c} /\ Len(mid) + 1 \in DOMAIN S
        /\ S[Len(mid) + 1] = S[c] \cup {c} /\ BodyOK(S, Len(mid) + 1, block.body) /\ c \in DOMAIN mid
    BY <1>0, <1>1, <1>3, <1>6, <1>7 DEF within
  <2> HIDE DEF c
  <2> QED
    BY <1>2, <1>3, <1>6, <2>1, CertRegion
<1>9. /\ more \in Seq(BlockRecord) /\ DOMAIN more = DOMAIN blocks \cup {region} /\ more[region] = block
      /\ \A b \in DOMAIN blocks : more[b] = mid[b]
  <2>1. mid \in Seq(BlockRecord)
    BY <1>3 DEF BlocksTyped
  <2> QED
    BY <1>0, <1>3, <1>6, <2>1, Appended
<1> HIDE DEF more
<1>10. BlocksTyped(more)
  <2>1. ASSUME NEW b \in DOMAIN more PROVE more[b].within \subseteq DOMAIN more
    <3>1. CASE b \in DOMAIN blocks
      BY <1>3, <1>9, <3>1 DEF BlocksTyped
    <3>2. CASE b = region
      BY <1>5, <1>6, <1>9, <3>2
    <3> QED
      BY <1>9, <3>1, <3>2
  <2> QED
    BY <1>9, <2>1 DEF BlocksTyped
<1>11. /\ p.block = region /\ p.at = 0
  BY DEF StartOf
<1> HIDE DEF p
<1>12. /\ p.block \in DOMAIN more /\ p.at \in 0..Len(more[p.block].body)
  BY <1>4, <1>6, <1>9, <1>11
<1>13. \A i \in 1..Len(inside) : OpOK(S, p.block, p.at + i, inside[i])
  BY <1>0, <1>11 DEF OpsOK
<1>14. Cert(InsertOps(more, p, inside), S)
  BY <1>0, <1>8, <1>10, <1>12, <1>13, CertInsert
<1>15. DOMAIN InsertOps(more, p, inside) = DOMAIN more
  BY <1>0, <1>10, <1>12, OpsInserted
<1> QED
  BY <1>9, <1>14, <1>15 DEF CertWith, ScopedBlocks, more, mid, block, body, yield, within, p

LEMMA EnclosingChain ==
    ASSUME Certifying, codegen = "emitting", pos \in DOMAIN ast, ThisVisit.node \in ScopedOps
    PROVE  /\ cg_scope = scopes[ThisVisit.scope].enclosing /\ ThisVisit.scope \in DOMAIN scopes
           /\ ThisVisit.scope \notin ChainNow
<1>1. /\ ast \in Seq(Visit) /\ pos \in Nat /\ DOMAIN ast \subseteq Nat /\ pos <= Len(ast)
      /\ ScopesOK(scopes)
  BY DEF Certifying, DefRefInv, ScopesOK, ReplayInv
<1> DEFINE t == ThisVisit.scope
<1>2. t \in DOMAIN scopes
  BY DEF Certifying, VisitsInv, VisitsOK, ThisVisit
<1>3. cg_scope = scopes[t].enclosing
  BY <1>1, SameScope DEF Certifying, ScopeBefore, ThisVisit
<1> HIDE DEF t
<1>4. /\ t \in Nat /\ scopes[t].enclosing \in 0..(t - 1) /\ \A r \in DOMAIN scopes : scopes[r].chain \subseteq 1..r
  BY <1>1, <1>2 DEF ScopesOK
<1>5. t \notin ChainNow
  <2> DEFINE e == scopes[t].enclosing
  <2>1. CASE e = NoScope
    BY <1>3, <2>1 DEF ChainNow, Chain
  <2>2. CASE e # NoScope
    <3>1. e \in DOMAIN scopes
      <4>1. e \in 1..(t - 1) /\ DOMAIN scopes = 1..Len(scopes) /\ Len(scopes) \in Nat
        BY <1>1, <1>4, <2>2 DEF NoScope, ScopesOK
      <4> QED
        BY <1>2, <4>1
    <3>2. scopes[e].chain \subseteq 1..e /\ e <= t - 1 /\ e \in Nat
      BY <1>4, <3>1
    <3>3. ChainNow = scopes[e].chain
      BY <1>3, <2>2 DEF ChainNow, Chain
    <3> HIDE DEF e
    <3> QED
      BY <1>4, <3>2, <3>3
  <2> QED
    BY <2>1, <2>2
<1> QED
  BY <1>2, <1>3, <1>5 DEF t

LEMMA GenScopedKeepsCert == ASSUME Certifying, CertInv, GenScoped PROVE CertInv'
<1> DEFINE len == Len(blocks)
           region == len + 1
           node == ThisVisit.node
           ahead == AheadOfLoop(node, TopValue, region)
           inside == SetIterator(TopValue, region)
           q == After(ip, ahead)
           result == ResultAt(ip, 3, "vector")
           l == [save |-> q, result |-> result, region |-> region]
           c == ip.block
<1>1. /\ Visiting(ScopedOps) /\ node \in ScopedOps /\ codegen = "emitting" /\ codegen # "idle" /\ EmitInv
      /\ blocks' = ScopedBlocks(region, ahead, inside)
      /\ ip' = After(StartOf(region), inside) /\ locals' = Append(locals, l)
      /\ opperands' = Pop(opperands) /\ pos' = pos + 1 /\ codegen' = "emitting"
      /\ GiveStorage(<<ThisVisit.scope, ThisVisit.text>>) /\ cg_scope' = ThisVisit.scope
      /\ pos \in DOMAIN ast /\ scopes' = scopes /\ ast' = ast
  BY DEF GenScoped, Visiting, Advance, PopOperand, Certifying, ScopedBlocks, DefRefInv, ReplayInv, defref_vars
<1>2. PICK R, M : Certified(R, M)
  BY <1>1, CertHere
<1> DEFINE ms == M[pos].marks
<1>3. /\ NestAt(M) /\ CertAt(R, ms) /\ KnownAt(R, const_zero, ip) /\ KnownAt(R, const_one, ip)
      /\ \A i \in 1..Len(opperands) : KnownAt(R, opperands[i], ip)
  BY <1>2 DEF Certified
<1>4. Arity(node) = 1 /\ Pushes(node) = 0 /\ node \in Opening
  BY <1>1 DEF Arity, Pushes, Ops, ScopedOps, Opening
<1> DEFINE n == Len(opperands) - Arity(node)
<1>5. /\ n \in Nat /\ First(Pop(opperands), n) /\ TopValue \in Value(blocks)
      /\ TopValue = opperands[Len(opperands)] /\ Len(opperands) \in 1..Len(opperands)
  <2>1. /\ n \in Nat /\ First(Pop(opperands), n) /\ TopValue \in Value(blocks) /\ opperands # <<>>
        /\ TopValue = opperands[Len(opperands)] /\ opperands \in Seq(Value(blocks))
    BY <1>1, <1>3, <1>4, RestOfOperands
  <2> QED
    BY <2>1
<1> HIDE DEF n
<1>6. OperandsLeft(n) /\ Len(opperands') = n
  BY <1>1, <1>4, <1>5, LeavesRest DEF n
<1>7. /\ len \in Nat /\ DOMAIN R = 1..len /\ DOMAIN blocks = 1..len /\ c \in DOMAIN R /\ ip.at \in Nat
      /\ R[c] \subseteq DOMAIN R /\ Cert(blocks, R) /\ (\A b \in DOMAIN R : R[b] \subseteq DOMAIN R)
      /\ ip \in [block: Nat, at: Nat]
  <2>1. blocks \in Seq(BlockRecord) /\ c \in DOMAIN blocks /\ ip.at \in Nat /\ ip \in [block: Nat, at: Nat]
    BY <1>1, PlaceTyped
  <2> QED
    BY <1>3, <2>1 DEF CertAt
<1> DEFINE T == R[c] \cup {c}
           N == [b \in {region} |-> T]
           S == Extended(R, N)
<1>8. region \in Nat /\ region \notin DOMAIN R /\ T \subseteq DOMAIN R
  BY <1>7
<1>9. DOMAIN N = {region} /\ N[region] = T
  OBVIOUS
<1> HIDE DEF N, T
<1>10. /\ Agree(R, S) /\ DOMAIN S = DOMAIN R \cup {region} /\ S[region] = T
       /\ \A b \in DOMAIN R : S[b] = R[b]
  <2> HIDE DEF region
  <2>1. DOMAIN R \cap DOMAIN N = {}
    BY <1>8, <1>9
  <2>2. /\ Agree(R, S) /\ DOMAIN S = DOMAIN R \cup DOMAIN N
        /\ (\A b \in DOMAIN N : S[b] = N[b]) /\ (\A b \in DOMAIN R : S[b] = R[b])
    BY <2>1, ExtendedAgrees
  <2> HIDE DEF S
  <2> QED
    BY <1>9, <2>2
<1> HIDE DEF S, region, len
<1>11. S[c] = R[c] /\ T = S[c] \cup {c} /\ c # region /\ \A b \in DOMAIN S : S[b] \subseteq DOMAIN S
  BY <1>7, <1>8, <1>10 DEF T
<1>12. TopValue \in Arg /\ TopValue.block \in DOMAIN R
  <2>1. TopValue \in Arg
    BY <1>1, <1>5, OperandsAreArgs
  <2> QED
    BY <1>5, <1>7, <2>1 DEF Value
<1>13. KnownAt(S, TopValue, ip) /\ KnownAt(S, const_zero, ip) /\ KnownAt(S, const_one, ip)
  <2>1. KnownAt(R, TopValue, ip)
    BY <1>3, <1>5
  <2> QED
    BY <1>3, <1>7, <1>10, <2>1, AgreeKnown DEF KnownAt
<1>14. Reachable(S, region, c)
  BY <1>10, <1>11 DEF Reachable
<1>15. /\ OpsOK(S, c, ip.at, ahead) /\ ahead \in Seq(Operation) /\ Len(ahead) >= 3
  BY <1>1, <1>8, <1>12, <1>13, <1>14, AheadOK
<1>16. /\ OpsOK(S, region, 0, inside) /\ Len(inside) = 2
  <2>1. S[region] = S[ip.block] \cup {ip.block} /\ ip.block # region /\ TopValue.block # region
    BY <1>8, <1>10, <1>11, <1>12
  <2> QED
    BY <1>13, <2>1, IteratorOK
<1>17. inside \in Seq(Operation)
  BY <1>1, <1>8, <1>12, IteratorIsStraight
<1> HIDE DEF ahead, inside
<1>18. Cert(blocks', S) /\ DOMAIN S = DOMAIN blocks'
  <2>1. Cert(blocks, S) /\ region = Len(blocks) + 1 /\ region \in DOMAIN S /\ S[region] = S[ip.block] \cup {ip.block}
        /\ EmitInv /\ codegen # "idle" /\ ahead \in Seq(Operation) /\ OpsOK(S, ip.block, ip.at, ahead)
        /\ inside \in Seq(Operation) /\ OpsOK(S, region, 0, inside)
    BY <1>1, <1>7, <1>10, <1>11, <1>15, <1>16, <1>17, CertExtended DEF region, len
  <2>2. CertWith(ScopedBlocks(region, ahead, inside), S, DOMAIN blocks \cup {region})
    <3>1. ScopedReady(S, region, ahead, inside)
      BY <2>1 DEF ScopedReady
    <3>2. EmitInv /\ codegen # "idle"
      BY <2>1
    <3> QED
      BY <3>1, <3>2, ScopedCert
  <2> QED
    BY <1>1, <1>7, <1>10, <2>2 DEF CertWith
<1>19. ip'.block = region /\ ip'.at = 2
  <2>1. StartOf(region) = [block |-> region, at |-> 0]
    BY DEF StartOf
  <2> QED
    BY <1>1, <1>16, <2>1 DEF After
<1>20. q.block = c /\ q.at = ip.at + Len(ahead) /\ q.at \in Nat /\ ip.at <= q.at /\ Len(ahead) \in Nat
  <2>1. Len(ahead) \in Nat
    BY <1>15
  <2>2. q.block = c /\ q.at = ip.at + Len(ahead)
    BY <1>7 DEF After
  <2> HIDE DEF q
  <2> QED
    BY <1>7, <2>1, <2>2
<1>21. l.save = q /\ l.result = result /\ l.region = region
  OBVIOUS
<1> HIDE DEF q, l
<1>22. PlaceAfter(R, ip, S, ip') /\ PlaceAfter(R, ip, S, l.save)
  <2>1. PlaceAfter(R, ip, S, ip')
    BY <1>7, <1>8, <1>10, <1>19 DEF PlaceAfter, T
  <2>2. PlaceAfter(R, ip, S, l.save)
    BY <1>7, <1>20, <1>21 DEF PlaceAfter
  <2> QED
    BY <2>1, <2>2
<1>23. /\ \A k \in Nat : \A type : KnownAt(S, ResultAt(ip, k, type), ip')
       /\ KnownAt(S, Element(l), ip') /\ KnownAt(S, l.result, l.save)
  <2>1. ASSUME NEW k \in Nat, NEW type PROVE KnownAt(S, ResultAt(ip, k, type), ip')
    BY <1>10, <1>11, <1>19 DEF KnownAt, Known, ResultAt
  <2>2. KnownAt(S, Element(l), ip')
    BY <1>19, <1>21 DEF KnownAt, Known, Element, ResultAt, StartOf
  <2>3. KnownAt(S, l.result, l.save)
    <3>1. result.block = c /\ result.at = ip.at + 3
      BY DEF ResultAt
    <3> HIDE DEF result, c
    <3> QED
      BY <1>7, <1>15, <1>20, <1>21, <3>1 DEF KnownAt, Known
  <2> QED
    BY <2>1, <2>2, <2>3
<1>24. CertVisit(M, n)
  BY <1>1, <1>3, <1>6, AtCertVisit
<1> DEFINE K == Len(ms)
           m == MarkAt(ThisVisit, n)
           ms2 == M[pos + 1].marks
           ls == locals'
           new == K + 1
<1>25. /\ ms \in Seq(Mark) /\ ms2 \in Seq(Mark) /\ ThisVisit \in Visit
       /\ ThisVisit.scope \in DOMAIN scopes /\ ms2 = Append(ms, m)
  BY <1>4, <1>24 DEF CertVisit, NestVisit
<1>26. m.scope = ThisVisit.scope /\ m.base = n /\ m.scoped /\ m \in Mark
  <2> DEFINE scoped == ThisVisit.node \in ScopedOps \cup {"GENERATOR_END", "FILTER_END"}
  <2>1. ThisVisit.scope \in Nat /\ scoped /\ scoped \in BOOLEAN
    BY <1>1, <1>25 DEF Visit
  <2>2. m = [scope |-> ThisVisit.scope, base |-> n, scoped |-> scoped]
    BY DEF MarkAt
  <2> HIDE DEF scoped, m
  <2> QED
    BY <1>5, <2>1, <2>2 DEF Mark
<1>27. /\ cg_scope = scopes[m.scope].enclosing /\ ThisVisit.scope \notin ChainNow
       /\ Chain(scopes, scopes[m.scope].enclosing) = ChainNow
  BY <1>1, <1>26, EnclosingChain DEF ChainNow
<1> HIDE DEF m
<1>28. K \in Nat /\ Len(ms2) = new /\ ms2[new] = m /\ \A k \in 1..K : ms2[k] = ms[k]
  BY <1>25, <1>26
<1>29. locals \in Seq(AnyLocal) /\ LocalsMarked(locals, ms, scopes)
  BY <1>1, <1>3, LocalsTyped DEF CertAt
<1>30. Len(ls) = new /\ ls[new] = l /\ \A k \in 1..K : ls[k] = locals[k]
  <2>1. Len(locals) = K
    BY <1>29 DEF LocalsMarked
  <2>2. l \in AnyLocal
    <3>1. q \in [block: Nat, at: Nat]
      <4>1. c \in Nat /\ q = [block |-> q.block, at |-> q.at]
        BY <1>7 DEF q, After
      <4> HIDE DEF c, q
      <4> QED
        BY <1>20, <4>1
    <3>2. result \in [type: Type, block: Nat, at: Nat]
      BY <1>7 DEF ResultAt, Type
    <3> HIDE DEF result
    <3> QED
      BY <1>8, <3>1, <3>2 DEF AnyLocal, l
  <2> HIDE DEF ms, K
  <2> QED
    BY <1>1, <1>29, <2>1, <2>2
<1> HIDE DEF ms2, ls
<1>31. LocalsMarked(ls, ms2, scopes)
  <2>1. \A k \in 1..K :
           /\ ms[k].scope \in DOMAIN scopes
           /\ ~ms[k].scoped => locals[k].body # 0 /\ locals[k].merge # 0
    BY <1>29 DEF LocalsMarked
  <2>2. \A k \in 1..new : k \in 1..K \/ k = new
    BY <1>28
  <2> HIDE DEF ms, K, new
  <2>3. ms2[new].scope \in DOMAIN scopes /\ ms2[new].scoped
    BY <1>25, <1>26, <1>28
  <2>4. \A k \in 1..K :
           /\ ms2[k].scope \in DOMAIN scopes
           /\ ~ms2[k].scoped => ls[k].body # 0 /\ ls[k].merge # 0
    BY <1>28, <1>30, <2>1
  <2>5. ASSUME NEW k \in 1..Len(ms2)
        PROVE  /\ ms2[k].scope \in DOMAIN scopes
               /\ ~ms2[k].scoped => ls[k].body # 0 /\ ls[k].merge # 0
    <3>1. k \in 1..K \/ k = new
      BY <1>28, <2>2
    <3> QED
      BY <2>3, <2>4, <3>1
  <2> QED
    BY <1>28, <1>30, <2>5 DEF LocalsMarked
<1>32. StorageKept
  BY <1>1 DEF StorageKept, IsDeclaration
<1>33. VisitMade(M, R, n, S, ms2, K)
  <2>1. K <= Len(ms) /\ K <= Len(ms2) /\ K \in Nat /\ \A k \in 1..K : ls[k] = locals[k] /\ ms2[k] = ms[k]
    BY <1>28, <1>30
  <2> HIDE DEF K
  <2> QED
    BY <1>1, <1>3, <1>10, <1>11, <1>18, <1>24, <1>31, <1>32, <2>1 DEF VisitMade, ms2, ms, ls
<1>34. StoredKnown(S)
  <2> DEFINE symbol == <<ThisVisit.scope, ThisVisit.text>>
             given == [t \in DOMAIN storage \cup {symbol} |->
                        IF t = symbol THEN Result("address") ELSE storage[t]]
  <2>1. storage' = given
    BY <1>1 DEF GiveStorage
  <2>2. KnownAt(S, Result("address"), ip')
    BY <1>23 DEF Result
  <2>3. /\ \A t \in DOMAIN storage : t[1] # ThisVisit.scope
        /\ ChainNow' = {ThisVisit.scope} \cup ChainNow
    <3>1. /\ \A t \in DOMAIN storage : t[1] # ThisVisit.scope
          /\ Chain(scopes, ThisVisit.scope) = {ThisVisit.scope} \cup ChainNow
      BY <1>1, OpenedScope
    <3> QED
      BY <1>1, <3>1 DEF ChainNow
  <2> HIDE DEF symbol
  <2>4. \A t \in DOMAIN given :
          \/ KnownAt(S, given[t], ip')
          \/ t \in DOMAIN storage /\ t[1] # ThisVisit.scope /\ given[t] = storage[t]
    BY <2>2, <2>3
  <2> HIDE DEF given
  <2> QED
    BY <2>1, <2>3, <2>4 DEF StoredKnown
<1>35. LocalKnown(S, l, m)
  <2>1. KnownAt(S, l.result, ip')
    BY <1>21, <1>23
  <2> QED
    BY <1>23, <1>26, <2>1 DEF LocalKnown
<1>36. Resumable(S, scopes, opperands', storage', ls, ms2, new)
  <2> DEFINE vals == opperands'
             st == storage'
  <2>1. n <= Len(opperands) /\ \A i \in 1..n : vals[i] = opperands[i]
    <3>1. opperands \in Seq(Value(blocks)) /\ Arity(node) = 1
      BY <1>1, <1>4 DEF EmitInv
    <3> HIDE DEF node
    <3>2. n <= Len(opperands)
      BY <3>1 DEF n
    <3> QED
      BY <1>6, <3>2 DEF OperandsLeft
  <2>2. Apart(storage, st, ChainNow)
    BY <1>27, <1>32, StorageApart
  <2>3. Agree(R, S) /\ PlaceAfter(R, ip, S, l.save) /\ KnownAt(S, l.result, l.save)
    BY <1>10, <1>22, <1>23
  <2>4. ms \in Seq(Mark) /\ CertAt(R, ms) /\ EmitInv /\ Len(ls) = Len(ms) + 1 /\ ls[Len(ms) + 1] = l
        /\ (\A k \in 1..Len(ms) : ls[k] = locals[k]) /\ m \in Mark /\ m.scoped /\ m.base = n
        /\ (\A k \in 1..Len(ms) : ms2[k] = ms[k]) /\ ms2[Len(ms) + 1] = m /\ n \in Nat
    BY <1>1, <1>3, <1>5, <1>25, <1>26, <1>28, <1>30
  <2> HIDE DEF vals, ms, st, node
  <2>5. Resumable(S, scopes, vals, st, ls, ms2, Len(ms) + 1)
    BY <1>27, <2>1, <2>2, <2>3, <2>4, ScopedResumable
  <2> QED
    BY <2>5 DEF vals, K, st
<1>37. ASSUME NEW k \in 1..Len(ms2), k > K
       PROVE  /\ LocalKnown(S, ls[k], ms2[k])
              /\ Resumable(S, scopes, opperands', storage', ls, ms2, k)
  <2>1. k = new
    BY <1>28, <1>37
  <2> QED
    BY <1>28, <1>30, <1>35, <1>36, <2>1
<1>38. ~(Len(opperands') = n + 1)
  BY <1>5, <1>6
<1>39. PlaceAfter(R, ip, S, ip')
  BY <1>22
<1> HIDE DEF K, new, ms
<1> QED
  BY <1>33, <1>34, <1>37, <1>38, <1>39, PlaceKeepsCert DEF ls

----------------------------------------------------------------------------
(* Visits that come back to a place the walk has left. *)

\* What could be used there when the walk left it, and the values X, are what can be
\* used when it comes back.
LEMMA ReturnKeepsCert ==
    ASSUME NEW M, NEW R, NEW n, NEW S, NEW ms2, NEW K, VisitMade(M, R, n, S, ms2, K), K = Len(ms2),
           NEW C, NEW X, ChainNow' \subseteq C, UNCHANGED storage,
           Frame(R, Live(opperands, n, storage, C, locals, M[pos].marks, K) \cup X,
                 Targets(locals, M[pos].marks, K), ip'),
           Len(opperands') = n + 1 => opperands'[n + 1] \in X
    PROVE  CertInv'
<1> DEFINE ms == M[pos].marks
           V == Live(opperands, n, storage, C, locals, ms, K)
           T == Targets(locals, ms, K)
           V2 == Live(opperands, n, storage, ChainNow', locals', ms2, K)
           W == Live(opperands', Len(opperands'), storage', ChainNow', locals', ms2, K)
           U == Targets(locals', ms2, K)
           C2 == ChainNow'
           ls2 == locals'
<1>1. /\ OperandsLeft(n) /\ n \in Nat /\ n <= n /\ \A i \in 1..n : opperands[i] = opperands[i]
      /\ C2 \subseteq C /\ Apart(storage, storage, C2) /\ K \in Nat /\ K <= K
      /\ \A j \in 1..K : ls2[j] = locals[j] /\ ms2[j] = ms[j]
  BY DEF VisitMade, CertVisit, OperandsLeft, Apart
<1>2. Agree(R, S) /\ storage' = storage
  BY DEF VisitMade
<1>3. Frame(R, V \cup X, T, ip')
  OBVIOUS
<1> HIDE DEF ms, C2, ls2
<1>4. Live(opperands, n, storage, C2, ls2, ms2, K) \subseteq Live(opperands, n, storage, C, locals, ms, K)
  BY <1>1, LiveWithin
<1>5. U \subseteq T
  BY <1>1, TargetsWithin DEF ls2
<1>6. ASSUME NEW v \in W PROVE v \in V2 \/ v \in X
  <2>1. CASE v \in Taken(opperands', Len(opperands'))
    <3>1. v \in Taken(opperands, n) \/ v \in X
      BY <1>1, <2>1, TakenAfter, PushesOneOrNone
    <3> QED
      BY <3>1 DEF Live
  <2>2. CASE v \notin Taken(opperands', Len(opperands'))
    BY <1>2, <2>2 DEF Live
  <2> QED
    BY <2>1, <2>2
<1>7. V2 \subseteq V
  BY <1>4 DEF C2, ls2
<1> HIDE DEF V, T, V2, W, U
<1>8. W \subseteq V \cup X
  BY <1>6, <1>7
<1>9. Frame(S, W, U, ip')
  BY <1>2, <1>3, <1>5, <1>8, FrameKept
<1>10. \A k \in 1..Len(ms2) : ~(k > K)
  BY <1>1
<1> QED
  BY <1>9, <1>10, FrameGivesCert DEF W, U

\* The locals and the mark of the visit that is about to go on.
TopMark(R, M, rest, n) ==
    LET ms == M[pos].marks
        K  == Len(ms)
    IN  /\ K \in Nat /\ K # 0 /\ Len(rest) = K - 1 /\ rest \in Seq(Mark)
        /\ ms[K] = MarkAt(ThisVisit, n) /\ (\A k \in 1..(K - 1) : rest[k] = ms[k])
        /\ locals \in Seq(AnyLocal) /\ Len(locals) = K /\ Top(locals) = locals[K]
        /\ Pop(locals) \in Seq(AnyLocal) /\ Len(Pop(locals)) = K - 1
        /\ (\A k \in 1..(K - 1) : Pop(locals)[k] = locals[k])
        /\ LocalsMarked(locals, ms, scopes) /\ LocalsMarked(Pop(locals), rest, scopes)
        /\ Resumable(R, scopes, opperands, storage, locals, ms, K)

LEMMA TopMarked ==
    ASSUME Certifying, NEW M, NEW R, CertAt(R, M[pos].marks), NEW n, CertVisit(M, n),
           NEW rest \in Seq(Mark), M[pos].marks = Append(rest, MarkAt(ThisVisit, n))
    PROVE  TopMark(R, M, rest, n)
<1> DEFINE ms == M[pos].marks
           K == Len(ms)
           m == MarkAt(ThisVisit, n)
           ls == Pop(locals)
<1>1. /\ K \in Nat /\ K # 0 /\ Len(rest) = K - 1 /\ ms[K] = m /\ \A k \in 1..(K - 1) : rest[k] = ms[k]
  <2> DEFINE scoped == ThisVisit.node \in ScopedOps \cup {"GENERATOR_END", "FILTER_END"}
  <2>1. ThisVisit.scope \in Nat /\ scoped \in BOOLEAN /\ n \in Nat
    BY DEF CertVisit, NestVisit, Visit
  <2>2. m = [scope |-> ThisVisit.scope, base |-> n, scoped |-> scoped]
    BY DEF MarkAt
  <2> HIDE DEF scoped, m
  <2>3. m \in Mark
    BY <2>1, <2>2 DEF Mark
  <2> DEFINE new == Append(rest, m)
  <2>4. Len(new) = Len(rest) + 1 /\ new[Len(rest) + 1] = m /\ (\A k \in 1..Len(rest) : new[k] = rest[k])
        /\ Len(rest) \in Nat
    BY <2>3
  <2>5. ms = new
    BY DEF m
  <2> HIDE DEF new
  <2> QED
    BY <2>4, <2>5
<1>2. locals \in Seq(AnyLocal) /\ LocalsMarked(locals, ms, scopes) /\ Resumable(R, scopes, opperands, storage, locals, ms, K)
  <2>1. K \in 1..Len(ms)
    BY <1>1
  <2>2. locals \in Seq(AnyLocal)
    BY LocalsTyped DEF Certifying, CertVisit
  <2> HIDE DEF ms, K
  <2> QED
    BY <2>1, <2>2 DEF CertAt, ms
<1>3. Len(locals) = K
  BY <1>2 DEF LocalsMarked
<1> HIDE DEF ms, K, m
<1>4. locals # <<>>
  BY <1>1, <1>2, <1>3
<1>5. /\ Top(locals) = locals[K] /\ ls \in Seq(AnyLocal) /\ Len(ls) = K - 1
      /\ \A k \in 1..(K - 1) : ls[k] = locals[k]
  BY <1>2, <1>3, <1>4, TopAndPop
<1> HIDE DEF ls
<1>6. LocalsMarked(ls, rest, scopes)
  <2>1. \A k \in 1..K :
           /\ ms[k].scope \in DOMAIN scopes
           /\ ~ms[k].scoped => locals[k].body # 0 /\ locals[k].merge # 0
    BY <1>2 DEF LocalsMarked, K
  <2>2. \A k \in 1..(K - 1) :
           /\ rest[k].scope \in DOMAIN scopes
           /\ ~rest[k].scoped => ls[k].body # 0 /\ ls[k].merge # 0
    BY <1>1, <1>5, <2>1
  <2> QED
    BY <1>1, <1>5, <2>2 DEF LocalsMarked
<1> QED
  BY <1>1, <1>2, <1>3, <1>5, <1>6 DEF TopMark, ms, K, m, ls

LEMMA TopBranch ==
    ASSUME NEW R, NEW M, CertAt(R, M[pos].marks), NEW rest, NEW n, TopMark(R, M, rest, n),
           ~MarkAt(ThisVisit, n).scoped
    PROVE  LET l == Top(locals)
               ms == M[pos].marks
               K == Len(ms)
               C == Chain(scopes, ThisVisit.scope)
           IN  /\ l.body # 0 /\ l.merge # 0
               /\ \A t \in {l.header, l.body, l.merge} \ {0} : Reachable(R, t, ip.block)
               /\ Frame(R, Live(opperands, n, storage, C, locals, ms, K - 1), Targets(locals, ms, K - 1),
                        StartOf(l.merge))
               /\ Frame(R, Live(opperands, n, storage, C, locals, ms, K), Targets(locals, ms, K),
                        StartOf(l.body))
<1> DEFINE l == Top(locals)
           ms == M[pos].marks
           K == Len(ms)
           m == MarkAt(ThisVisit, n)
           C == Chain(scopes, ThisVisit.scope)
<1>1. m.scope = ThisVisit.scope /\ m.base = n /\ ~m.scoped
  BY DEF MarkAt
<1>2. /\ K \in Nat /\ K # 0 /\ ms[K] = m /\ l = locals[K] /\ LocalsMarked(locals, ms, scopes)
      /\ Resumable(R, scopes, opperands, storage, locals, ms, K)
  BY DEF TopMark
<1>3. \A t \in Targets(locals, ms, K) : Reachable(R, t, ip.block)
  BY DEF CertAt, Frame
<1> HIDE DEF m, l
<1>4. /\ Frame(R, Live(opperands, n, storage, C, locals, ms, K - 1), Targets(locals, ms, K - 1),
               StartOf(l.merge))
      /\ Frame(R, Live(opperands, n, storage, C, locals, ms, K), Targets(locals, ms, K), StartOf(l.body))
  BY <1>1, <1>2 DEF Resumable
<1>5. K \in 1..Len(ms)
  BY <1>2
<1>6. l.body # 0 /\ l.merge # 0
  BY <1>1, <1>2, <1>5 DEF LocalsMarked
<1>7. K \in Branched(ms, K)
  BY <1>1, <1>2, <1>5 DEF Branched
<1>8. {l.header, l.body, l.merge} \ {0} \subseteq Targets(locals, ms, K)
  BY <1>2, <1>7 DEF Targets
<1> HIDE DEF ms, K, C
<1>9. \A t \in {l.header, l.body, l.merge} \ {0} : Reachable(R, t, ip.block)
  BY <1>3, <1>8
<1> QED
  BY <1>4, <1>6, <1>9 DEF l, ms, K, C

\* A branch that ends the block CodeGen is in.
LEMMA BranchEnds ==
    ASSUME EmitInv, codegen # "idle", NEW R, NEW ms, CertAt(R, ms), NEW op \in Operation,
           OpOK(R, ip.block, ip.at + 1, op), blocks' = BranchTo(op, 0)
    PROVE  Cert(blocks', R) /\ DOMAIN R = DOMAIN blocks'
<1> DEFINE zero == 0
<1>1. /\ DOMAIN R = DOMAIN blocks /\ Cert(blocks, R) /\ blocks \in Seq(BlockRecord)
      /\ DOMAIN blocks = 1..Len(blocks) /\ Len(blocks) \in Nat
  BY PlaceTyped DEF CertAt
<1>2. /\ Agree(R, R) /\ zero \in Nat
      /\ \A b \in 1..(Len(blocks) + zero) : b \in DOMAIN R
      /\ \A b \in (Len(blocks) + 1)..(Len(blocks) + zero) : b \in R[b]
  BY <1>1 DEF Agree
<1>3. blocks' = BranchTo(op, zero) /\ 1..(Len(blocks) + zero) = DOMAIN blocks
  BY <1>1
<1> HIDE DEF zero
<1>4. Cert(blocks', R) /\ DOMAIN blocks' = 1..(Len(blocks) + zero)
  BY <1>1, <1>2, <1>3, BranchCert
<1> QED
  BY <1>1, <1>3, <1>4

LEMMA GenLoopBodyKeepsCert == ASSUME Certifying, CertInv, GenLoopBody PROVE CertInv'
<1> DEFINE l == Top(locals)
           op == CondBr(TopValue, l.body, l.merge)
<1>1. /\ Visiting({"LOOP_BODY"}) /\ ThisVisit.node = "LOOP_BODY" /\ codegen = "emitting" /\ codegen # "idle"
      /\ EmitInv /\ blocks' = BranchTo(op, 0) /\ ip' = StartOf(l.body) /\ locals' = locals
      /\ opperands' = Pop(opperands) /\ pos' = pos + 1 /\ codegen' = "emitting"
      /\ UNCHANGED <<storage, cg_scope>> /\ pos \in DOMAIN ast /\ scopes' = scopes
  BY DEF GenLoopBody, Visiting, Advance, PopOperand, Certifying, DefRefInv, ReplayInv, defref_vars
<1>2. PICK R, M : Certified(R, M)
  BY <1>1, CertHere
<1> DEFINE ms == M[pos].marks
           K == Len(ms)
<1>3. /\ NestAt(M) /\ CertAt(R, ms) /\ KnownAt(R, const_zero, ip)
      /\ \A i \in 1..Len(opperands) : KnownAt(R, opperands[i], ip)
  BY <1>2 DEF Certified
<1>4. Arity(ThisVisit.node) = 1 /\ Pushes(ThisVisit.node) = 0 /\ ThisVisit.node \notin Opening \cup Closing
  BY <1>1 DEF Arity, Pushes, Ops, ScopedOps, Opening, Closing
<1> DEFINE n == Len(opperands) - Arity(ThisVisit.node)
<1>5. /\ n \in Nat /\ First(Pop(opperands), n) /\ TopValue \in Value(blocks)
      /\ TopValue = opperands[Len(opperands)] /\ Len(opperands) \in 1..Len(opperands)
  <2>1. /\ n \in Nat /\ First(Pop(opperands), n) /\ TopValue \in Value(blocks) /\ opperands # <<>>
        /\ TopValue = opperands[Len(opperands)] /\ opperands \in Seq(Value(blocks))
    BY <1>1, <1>3, <1>4, RestOfOperands
  <2> QED
    BY <2>1
<1> HIDE DEF n
<1>6. OperandsLeft(n) /\ Len(opperands') = n
  BY <1>1, <1>4, <1>5, LeavesRest DEF n
<1>7. CertVisit(M, n)
  BY <1>1, <1>3, <1>6, AtCertVisit
<1>8. PICK rest \in Seq(Mark) : ms = Append(rest, MarkAt(ThisVisit, n))
  BY <1>1, <1>7 DEF CertVisit, NestVisit
<1>9. ms = M[pos + 1].marks /\ ms \in Seq(Mark)
  BY <1>4, <1>7 DEF CertVisit, NestVisit
<1>10. TopMark(R, M, rest, n)
  BY <1>3, <1>7, <1>8, TopMarked
<1>11. ~MarkAt(ThisVisit, n).scoped
  BY <1>1 DEF MarkAt, ScopedOps
<1>12. cg_scope = ThisVisit.scope
  BY <1>1, ClosedScope DEF ScopedOps
<1>13. /\ l.body # 0 /\ l.merge # 0
       /\ \A t \in {l.header, l.body, l.merge} \ {0} : Reachable(R, t, ip.block)
       /\ Frame(R, Live(opperands, n, storage, ChainNow, locals, ms, K), Targets(locals, ms, K),
                StartOf(l.body))
  BY <1>3, <1>10, <1>11, <1>12, TopBranch DEF ChainNow
<1>14. Reachable(R, l.body, ip.block) /\ Reachable(R, l.merge, ip.block)
  BY <1>13
<1>15. l.body \in Nat /\ l.merge \in Nat
  <2>1. DOMAIN R = DOMAIN blocks /\ blocks \in Seq(BlockRecord)
    BY <1>1, <1>3, PlaceTyped DEF CertAt
  <2>2. DOMAIN blocks \subseteq Nat
    BY <2>1
  <2> QED
    BY <1>14, <2>1, <2>2 DEF Reachable
<1> HIDE DEF l
<1>16. op \in Operation
  <2>1. TopValue \in Arg
    BY <1>1, <1>5, OperandsAreArgs
  <2> QED
    BY <1>15, <2>1, TerminatorIsOperation
<1>17. OpOK(R, ip.block, ip.at + 1, op)
  <2>1. KnownAt(R, TopValue, ip) /\ KnownAt(R, const_zero, ip)
    BY <1>3, <1>5
  <2> QED
    BY <1>14, <2>1, BranchOK DEF KnownAt
<1> HIDE DEF op, ms
<1>18. Cert(blocks', R) /\ DOMAIN R = DOMAIN blocks'
  BY <1>1, <1>3, <1>16, <1>17, BranchEnds
<1>19. LocalsMarked(locals', ms, scopes) /\ K \in Nat
  BY <1>1, <1>10 DEF TopMark, ms
<1>20. StorageKept
  BY <1>1 DEF StorageKept
<1>21. VisitMade(M, R, n, R, ms, K)
  <2>1. /\ K <= Len(M[pos].marks) /\ K <= Len(ms) /\ K \in Nat
        /\ \A k \in 1..K : locals'[k] = locals[k] /\ ms[k] = M[pos].marks[k]
    BY <1>1, <1>19 DEF ms
  <2>2. Agree(R, R) /\ \A b \in DOMAIN R : R[b] \subseteq DOMAIN R
    BY <1>3 DEF Agree, CertAt
  <2>3. ms = M[pos + 1].marks /\ CertAt(R, M[pos].marks)
    BY <1>3, <1>9 DEF ms
  <2> HIDE DEF K
  <2> QED
    BY <1>1, <1>3, <1>7, <1>18, <1>19, <1>20, <2>1, <2>2, <2>3 DEF VisitMade
<1> DEFINE C == ChainNow
           X == {}
<1>22. ChainNow' \subseteq C
  BY <1>1 DEF ChainNow
<1>23. Frame(R, Live(opperands, n, storage, C, locals, M[pos].marks, K) \cup X,
                 Targets(locals, M[pos].marks, K), ip')
  <2>1. \A V : V \cup X = V
    OBVIOUS
  <2> HIDE DEF X
  <2> QED
    BY <1>1, <1>13, <2>1 DEF ms
<1>24. ~(Len(opperands') = n + 1) /\ K = Len(ms) /\ UNCHANGED storage
  BY <1>1, <1>5, <1>6
<1> HIDE DEF C, X, K
<1> QED
  BY <1>21, <1>22, <1>23, <1>24, ReturnKeepsCert

\* A loop that ends has a header.
LEMMA LoopHasHeader ==
    ASSUME Certifying, Visiting({"LOOP_END"}) PROVE Top(locals).header # 0
<1>1. /\ codegen = "emitting" /\ ThisVisit.node = "LOOP_END" /\ EmitInv /\ DefRefInv /\ pos \in Nat \ {0}
  BY DEF Certifying, Visiting, ReplayInv
<1>2. PICK T : Here(T)
  BY <1>1, AtVisit
<1> DEFINE o == T[pos + 1].open
           kind == "LOOP_BODY"
<1>3. T[pos].open = Append(o, kind) /\ o \in Seq(LocalKind) /\ kind \in LocalKind \ ScopedOps /\ kind # "IF"
  BY <1>1, <1>2 DEF Here, TraceStep, Opened, Closing, Stacks, KindOf, LocalKind, ScopedOps
<1> HIDE DEF o, kind
<1>4. Locals(blocks, locals, Append(o, kind))
  BY <1>2, <1>3 DEF Here, Follows, Emitting
<1>5. LocalOK(blocks, Top(locals), kind, Inside(o, Len(o)))
  BY <1>3, <1>4, LocalsPop
<1> QED
  BY <1>3, <1>5 DEF LocalOK

LEMMA MergeKeepsCert ==
    ASSUME Certifying, CertInv, NEW node \in {"IF_END", "LOOP_END"}, Visiting({node}),
           NEW target \in {"header", "merge"}, target = "header" => Top(locals).header # 0,
           blocks' = BranchTo(Br(Top(locals)[target]), 0), ip' = StartOf(Top(locals).merge),
           locals' = Pop(locals), pos' = pos + 1, UNCHANGED <<opperands, storage, codegen, cg_scope>>
    PROVE  CertInv'
<1> DEFINE l == Top(locals)
           to == l[target]
           op == Br(to)
<1>1. /\ ThisVisit.node = node /\ codegen = "emitting" /\ codegen # "idle" /\ codegen' = "emitting"
      /\ EmitInv /\ pos \in DOMAIN ast /\ scopes' = scopes
  BY DEF Visiting, Certifying, DefRefInv, ReplayInv, defref_vars
<1>2. PICK R, M : Certified(R, M)
  BY <1>1, CertHere
<1> DEFINE ms == M[pos].marks
           rest == M[pos + 1].marks
           K == Len(rest)
<1>3. NestAt(M) /\ CertAt(R, ms)
  BY <1>2 DEF Certified
<1>4. Arity(node) = 0 /\ Pushes(node) = 0 /\ node \in Closing /\ node \notin ScopedOps
      /\ node \notin {"BLOCK"} \cup ScopedOps /\ node \notin {"GENERATOR_END", "FILTER_END"}
  <2>1. node = "IF_END" \/ node = "LOOP_END"
    OBVIOUS
  <2> QED
    BY <2>1 DEF Arity, Pushes, Ops, ScopedOps, Closing
<1> DEFINE n == Len(opperands) - Arity(ThisVisit.node)
<1>5. n \in Nat /\ First(opperands, n)
  BY <1>1, <1>3, <1>4, RestOfOperands
<1> HIDE DEF n
<1>6. OperandsLeft(n) /\ Len(opperands') = n
  BY <1>1, <1>4, <1>5, LeavesRest DEF n
<1>7. CertVisit(M, n)
  BY <1>1, <1>3, <1>6, AtCertVisit
<1>8. ms = Append(rest, MarkAt(ThisVisit, n)) /\ rest \in Seq(Mark)
  BY <1>1, <1>4, <1>7 DEF CertVisit, NestVisit
<1>10. TopMark(R, M, rest, n)
  BY <1>3, <1>7, <1>8, TopMarked
<1>11. ~MarkAt(ThisVisit, n).scoped
  BY <1>1, <1>4 DEF MarkAt
<1>12. cg_scope = ThisVisit.scope
  BY <1>1, <1>4, ClosedScope
<1>13a. K \in Nat /\ Len(ms) - 1 = K /\ K <= Len(ms) /\ LocalsMarked(locals', rest, scopes)
        /\ \A k \in 1..K : locals'[k] = locals[k] /\ rest[k] = ms[k]
  <2>1. /\ Len(ms) \in Nat /\ Len(ms) # 0 /\ K = Len(ms) - 1
        /\ (\A k \in 1..(Len(ms) - 1) : rest[k] = ms[k])
        /\ (\A k \in 1..(Len(ms) - 1) : Pop(locals)[k] = locals[k]) /\ LocalsMarked(Pop(locals), rest, scopes)
    BY <1>10 DEF TopMark
  <2> HIDE DEF K, ms, rest
  <2> QED
    BY <2>1
<1>13. /\ l.merge # 0
       /\ \A t \in {l.header, l.body, l.merge} \ {0} : Reachable(R, t, ip.block)
       /\ Frame(R, Live(opperands, n, storage, ChainNow, locals, ms, K), Targets(locals, ms, K),
                StartOf(l.merge))
  <2> DEFINE C == ChainNow
  <2>1. /\ l.merge # 0
        /\ \A t \in {l.header, l.body, l.merge} \ {0} : Reachable(R, t, ip.block)
        /\ Frame(R, Live(opperands, n, storage, C, locals, ms, Len(ms) - 1), Targets(locals, ms, Len(ms) - 1),
                 StartOf(l.merge))
    BY <1>3, <1>10, <1>11, <1>12, TopBranch DEF ChainNow
  <2> HIDE DEF l, C, ms, K
  <2>2. Len(ms) - 1 = K
    BY <1>13a
  <2> QED
    BY <2>1, <2>2 DEF C
<1>14. Reachable(R, to, ip.block)
  <2>1. (to = l.header /\ l.header # 0) \/ (to = l.merge /\ l.merge # 0)
    BY <1>13
  <2> HIDE DEF l, to
  <2>2. to \in {l.header, l.body, l.merge} \ {0}
    BY <2>1
  <2> QED
    BY <1>13, <2>2
<1>15. to \in Nat
  <2>1. DOMAIN R = DOMAIN blocks /\ blocks \in Seq(BlockRecord)
    BY <1>1, <1>3, PlaceTyped DEF CertAt
  <2>2. DOMAIN blocks \subseteq Nat
    BY <2>1
  <2> QED
    BY <1>14, <2>1, <2>2 DEF Reachable
<1>15a. blocks' = BranchTo(op, 0) /\ ip' = StartOf(l.merge)
  OBVIOUS
<1> HIDE DEF l, to
<1>16. op \in Operation
  <2>2. const_zero \in Arg
    BY <1>1, OperandsAreArgs
  <2> QED
    BY <1>15, <2>2, TerminatorIsOperation
<1>17. OpOK(R, ip.block, ip.at + 1, op)
  BY <1>14, BranchOK
<1> HIDE DEF op, ms, rest
<1>18. Cert(blocks', R) /\ DOMAIN R = DOMAIN blocks'
  BY <1>1, <1>3, <1>15a, <1>16, <1>17, BranchEnds
<1>20. StorageKept
  BY DEF StorageKept
<1>21. VisitMade(M, R, n, R, rest, K)
  <2>1. /\ K <= Len(M[pos].marks) /\ K <= Len(rest) /\ K \in Nat
        /\ \A k \in 1..K : locals'[k] = locals[k] /\ rest[k] = M[pos].marks[k]
    BY <1>13a DEF ms
  <2>2. Agree(R, R) /\ \A b \in DOMAIN R : R[b] \subseteq DOMAIN R
    BY <1>3 DEF Agree, CertAt
  <2>3. rest = M[pos + 1].marks /\ CertAt(R, M[pos].marks)
    BY <1>3 DEF ms, rest
  <2> HIDE DEF K
  <2> QED
    BY <1>1, <1>3, <1>7, <1>13a, <1>18, <1>20, <2>1, <2>2, <2>3 DEF VisitMade
<1> DEFINE C == ChainNow
           X == {}
<1>22. ChainNow' \subseteq C
  BY <1>1 DEF ChainNow
<1>23. Frame(R, Live(opperands, n, storage, C, locals, M[pos].marks, K) \cup X,
                 Targets(locals, M[pos].marks, K), ip')
  <2>1. \A V : V \cup X = V
    OBVIOUS
  <2> HIDE DEF X
  <2> QED
    BY <1>13, <1>15a, <2>1 DEF ms
<1>24. ~(Len(opperands') = n + 1) /\ K = Len(rest) /\ UNCHANGED storage
  BY <1>5, <1>6
<1> HIDE DEF C, X, K
<1> QED
  BY <1>21, <1>22, <1>23, <1>24, ReturnKeepsCert

LEMMA GenEndBranchKeepsCert ==
    ASSUME Certifying, CertInv, GenEndIF_BLOCK \/ GenEndLOOP_BLOCK PROVE CertInv'
<1>1. CASE GenEndIF_BLOCK
  <2> DEFINE node == "IF_END"
             target == "merge"
  <2>1. /\ Visiting({node}) /\ node \in {"IF_END", "LOOP_END"} /\ target \in {"header", "merge"}
        /\ blocks' = BranchTo(Br(Top(locals)[target]), 0)
        /\ ip' = StartOf(Top(locals).merge) /\ locals' = Pop(locals) /\ pos' = pos + 1
        /\ UNCHANGED <<opperands, storage, codegen, cg_scope>>
    BY <1>1 DEF GenEndIF_BLOCK, ResumeAtMerge, Advance
  <2>2. target = "header" => Top(locals).header # 0
    OBVIOUS
  <2> HIDE DEF node, target
  <2> QED
    BY <2>1, <2>2, MergeKeepsCert
<1>2. CASE GenEndLOOP_BLOCK
  <2> DEFINE node == "LOOP_END"
             target == "header"
  <2>1. /\ Visiting({node}) /\ node \in {"IF_END", "LOOP_END"} /\ target \in {"header", "merge"}
        /\ blocks' = BranchTo(Br(Top(locals)[target]), 0)
        /\ ip' = StartOf(Top(locals).merge) /\ locals' = Pop(locals) /\ pos' = pos + 1
        /\ UNCHANGED <<opperands, storage, codegen, cg_scope>>
    BY <1>2 DEF GenEndLOOP_BLOCK, ResumeAtMerge, Advance
  <2>2. target = "header" => Top(locals).header # 0
    BY <2>1, LoopHasHeader
  <2> HIDE DEF node, target
  <2> QED
    BY <2>1, <2>2, MergeKeepsCert
<1> QED
  BY <1>1, <1>2

LEMMA TopScoped ==
    ASSUME NEW R, NEW M, CertAt(R, M[pos].marks), NEW rest, NEW n, TopMark(R, M, rest, n),
           MarkAt(ThisVisit, n).scoped
    PROVE  LET l == Top(locals)
               ms == M[pos].marks
               K == Len(ms)
               C == Chain(scopes, scopes[ThisVisit.scope].enclosing)
           IN  /\ KnownAt(R, l.result, ip) /\ KnownAt(R, Element(l), ip)
               /\ Frame(R, Live(opperands, n, storage, C, locals, ms, K - 1) \cup {l.result},
                        Targets(locals, ms, K - 1), l.save)
<1> DEFINE l == Top(locals)
           ms == M[pos].marks
           K == Len(ms)
           m == MarkAt(ThisVisit, n)
           C == Chain(scopes, scopes[ThisVisit.scope].enclosing)
<1>1. m.scope = ThisVisit.scope /\ m.base = n /\ m.scoped
  BY DEF MarkAt
<1>2. /\ K \in Nat /\ K # 0 /\ ms[K] = m /\ l = locals[K]
      /\ Resumable(R, scopes, opperands, storage, locals, ms, K)
  BY DEF TopMark
<1>3. \A v \in Live(opperands, Len(opperands), storage, Chain(scopes, cg_scope), locals, ms, K) : KnownAt(R, v, ip)
  BY DEF CertAt, Frame
<1> HIDE DEF m, l
<1>4. Frame(R, Live(opperands, n, storage, C, locals, ms, K - 1) \cup {l.result},
            Targets(locals, ms, K - 1), l.save)
  BY <1>1, <1>2 DEF Resumable
<1>5. K \in 1..Len(ms)
  BY <1>2
<1>7. K \in Looping(ms, K)
  BY <1>1, <1>2, <1>5 DEF Looping
<1>8. l.result \in {locals[j].result : j \in Looping(ms, K)} /\ Element(l) \in {Element(locals[j]) : j \in Looping(ms, K)}
  BY <1>2, <1>7
<1> HIDE DEF ms, K, C
<1>9. KnownAt(R, l.result, ip) /\ KnownAt(R, Element(l), ip)
  BY <1>3, <1>8 DEF Live
<1> QED
  BY <1>4, <1>9 DEF l, ms, K, C

LEMMA PutCert ==
    ASSUME EmitInv, codegen # "idle", NEW R, Cert(blocks, R), NEW op \in Operation,
           OpOK(R, ip.block, ip.at + 1, op)
    PROVE  CertWith(InsertOps(blocks, ip, <<op>>), R, DOMAIN blocks)
<1> DEFINE ops == <<op>>
<1>1. /\ ip.block \in DOMAIN blocks /\ ip.at \in Nat /\ ip.at \in 0..Len(blocks[ip.block].body)
      /\ BlocksTyped(blocks)
  BY PlaceTyped
<1>2. ops \in Seq(Operation) /\ OpsOK(R, ip.block, ip.at, ops)
  BY <1>1, FewOpsOK
<1> HIDE DEF ops
<1>3. Cert(InsertOps(blocks, ip, ops), R)
  BY <1>1, <1>2, CertInsert DEF OpsOK
<1>4. DOMAIN InsertOps(blocks, ip, ops) = DOMAIN blocks
  BY <1>1, <1>2, OpsInserted
<1> QED
  BY <1>3, <1>4 DEF CertWith, ops

\* The scf.if around what keeps the element, and its region.
LEMMA KeptCert ==
    ASSUME EmitInv, codegen # "idle", NEW S, Cert(blocks, S), NEW kept, kept = Len(blocks) + 1,
           kept \in DOMAIN S, S[kept] = S[ip.block] \cup {ip.block},
           NEW op \in Operation, OpOK(S, ip.block, ip.at + 1, op),
           NEW keep \in BlockRecord, keep.within = blocks[ip.block].within \cup {ip.block},
           BodyOK(S, kept, keep.body)
    PROVE  CertWith(Append(InsertOps(blocks, ip, <<op>>), keep), S, DOMAIN blocks \cup {kept})
<1> DEFINE mid == InsertOps(blocks, ip, <<op>>)
           ops == <<op>>
           c == ip.block
<1>1. /\ c \in DOMAIN blocks /\ ip.at \in Nat /\ ip.at \in 0..Len(blocks[c].body) /\ BlocksTyped(blocks)
  BY PlaceTyped
<1>2. CertWith(mid, S, DOMAIN blocks)
  BY PutCert
<1>3. BlocksTyped(mid) /\ Len(mid) = Len(blocks) /\ mid[c].within = blocks[c].within
  <2>1. ops \in Seq(Operation)
    OBVIOUS
  <2>2. mid = InsertOps(blocks, ip, ops)
    OBVIOUS
  <2> HIDE DEF ops, mid
  <2> QED
    BY <1>1, <2>1, <2>2, OpsInserted
<1> HIDE DEF mid, c
<1>4. /\ Cert(mid, S) /\ c \in DOMAIN mid /\ keep.within = mid[c].within \cup {c}
      /\ Len(mid) + 1 \in DOMAIN S /\ S[Len(mid) + 1] = S[c] \cup {c}
      /\ BodyOK(S, Len(mid) + 1, keep.body)
  BY <1>1, <1>2, <1>3 DEF CertWith, c
<1>5. Cert(Append(mid, keep), S)
  BY <1>3, <1>4, CertRegion
<1>6. DOMAIN Append(mid, keep) = DOMAIN blocks \cup {kept}
  <2>1. mid \in Seq(BlockRecord)
    BY <1>3 DEF BlocksTyped
  <2>2. DOMAIN Append(mid, keep) = DOMAIN mid \cup {Len(mid) + 1}
    BY <2>1, Appended
  <2> QED
    BY <1>2, <1>3, <2>2 DEF CertWith
<1> QED
  BY <1>5, <1>6 DEF CertWith, mid

\* What is certified of the blocks before a visit is still certified of those after it.
GoesOn(R, S, bs) == /\ Agree(R, S) /\ Cert(bs, S) /\ DOMAIN S = DOMAIN bs
                    /\ \A b \in DOMAIN S : S[b] \subseteq DOMAIN S
ScopedValues(R, l) == /\ KnownAt(R, l.result, ip) /\ KnownAt(R, Element(l), ip) /\ KnownAt(R, TopValue, ip)
                      /\ KnownAt(R, const_zero, ip) /\ KnownAt(R, const_one, ip)
                      /\ l.result \in Arg /\ TopValue \in Arg /\ l.region \in Nat

LEMMA EndFilterCert ==
    ASSUME EmitInv, codegen # "idle", NEW R, NEW ms, CertAt(R, ms), NEW l, ScopedValues(R, l),
           NEW kept, kept = Len(blocks) + 1,
           blocks' = Append(InsertOps(blocks, ip, <<Op("if", NoText, <<TopValue, const_zero>>, <<kept>>)>>),
                            Block(<<Op("keep", NoText, <<l.result, Element(l), const_one>>, <<>>),
                                    Op("yield", NoText, <<>>, <<>>)>>,
                                  blocks[ip.block].within \cup {ip.block}))
    PROVE  \E S : GoesOn(R, S, blocks')
<1> DEFINE c == ip.block
           elem == Element(l)
           result == l.result
           within == blocks[c].within \cup {c}
           keeps == Op("keep", NoText, <<result, elem, const_one>>, <<>>)
           yield == Op("yield", NoText, <<>>, <<>>)
           body == <<keeps, yield>>
           keep == Block(body, within)
           if == Op("if", NoText, <<TopValue, const_zero>>, <<kept>>)
           T == R[c] \cup {c}
           N == [b \in {kept} |-> T]
           S == Extended(R, N)
<1>1. /\ DOMAIN R = DOMAIN blocks /\ c \in DOMAIN R /\ ip.at \in Nat /\ BlocksTyped(blocks)
      /\ blocks \in Seq(BlockRecord) /\ DOMAIN blocks = 1..Len(blocks) /\ Len(blocks) \in Nat
      /\ R[c] \subseteq DOMAIN R /\ Cert(blocks, R) /\ \A b \in DOMAIN R : R[b] \subseteq DOMAIN R
  BY PlaceTyped DEF CertAt
<1>2. kept \in Nat /\ kept \notin DOMAIN R /\ T \subseteq DOMAIN R /\ kept \notin T
  BY <1>1
<1>3. DOMAIN N = {kept} /\ N[kept] = T
  OBVIOUS
<1> HIDE DEF N
<1>4. /\ Agree(R, S) /\ DOMAIN S = DOMAIN R \cup {kept} /\ S[kept] = T /\ \A b \in DOMAIN R : S[b] = R[b]
  <2>1. DOMAIN R \cap DOMAIN N = {}
    BY <1>2, <1>3
  <2>2. /\ Agree(R, S) /\ DOMAIN S = DOMAIN R \cup DOMAIN N
        /\ (\A b \in DOMAIN N : S[b] = N[b]) /\ \A b \in DOMAIN R : S[b] = R[b]
    BY <2>1, ExtendedAgrees
  <2> HIDE DEF T, S
  <2>3. kept \in DOMAIN N
    BY <1>3
  <2> QED
    BY <1>3, <2>2, <2>3
<1> HIDE DEF S
<1>5. Cert(blocks, S) /\ S[kept] = S[c] \cup {c} /\ \A b \in DOMAIN S : S[b] \subseteq DOMAIN S
  <2>1. Cert(blocks, S)
    BY <1>1, <1>4, CertExtended
  <2> QED
    BY <1>1, <1>2, <1>4, <2>1 DEF T
<1>6. /\ \A v : KnownAt(R, v, ip) => KnownAt(S, v, ip)
      /\ \A v, i : KnownAt(R, v, ip) => Known(S, v, kept, i)
  <2>1. \A v : KnownAt(R, v, ip) => KnownAt(S, v, ip)
    BY <1>1, <1>4 DEF KnownAt, Known
  <2>2. \A v : KnownAt(R, v, ip) => v.block \in T
    BY DEF KnownAt, Known
  <2> HIDE DEF T
  <2>3. \A v, i : v.block \in T => Known(S, v, kept, i)
    BY <1>2, <1>4 DEF Known
  <2> QED
    BY <2>1, <2>2, <2>3
<1> HIDE DEF T
<1>7. /\ KnownAt(R, result, ip) /\ KnownAt(R, elem, ip) /\ KnownAt(R, TopValue, ip)
      /\ KnownAt(R, const_zero, ip) /\ KnownAt(R, const_one, ip)
      /\ result \in Arg /\ TopValue \in Arg /\ elem \in Arg /\ const_zero \in Arg /\ const_one \in Arg
  <2>1. elem \in Arg
    BY DEF ScopedValues, Element, ResultAt, StartOf, Arg, Type
  <2> QED
    BY <2>1, OperandsAreArgs DEF ScopedValues
<1>8. Reachable(S, kept, c)
  BY <1>4, <1>5 DEF Reachable
<1> HIDE DEF elem, result
<1>9. /\ OpOK(S, c, ip.at + 1, if) /\ if \in Operation
  <2> DEFINE args == <<TopValue, const_zero>>
             to == <<kept>>
             op == "if"
  <2>1. args \in Seq(Arg) /\ to \in Seq(Nat) /\ op \in Operations \ Terminators
    BY <1>2, <1>7 DEF Operations, Terminators
  <2>2. (\A k \in DOMAIN args : args[k] = TopValue \/ args[k] = const_zero) /\ \A k \in DOMAIN to : to[k] = kept
    OBVIOUS
  <2> HIDE DEF args, to, op
  <2>3. Op(op, NoText, args, to) \in Operation
    BY <2>1, AnOperationTo
  <2>4. Op(op, NoText, args, to).args = args /\ Op(op, NoText, args, to).to = to
    BY DEF Op
  <2>5. \A k \in DOMAIN args : Known(S, args[k], c, ip.at + 1)
    BY <1>6, <1>7, <2>2 DEF KnownAt
  <2>6. OpOK(S, c, ip.at + 1, Op(op, NoText, args, to))
    BY <1>8, <2>2, <2>4, <2>5 DEF OpOK
  <2> QED
    BY <2>3, <2>6 DEF args, to, op
<1>10. keeps \in Operation /\ yield \in Operation
  <2> DEFINE args == <<result, elem, const_one>>
             to == <<>>
             op == "keep"
  <2>1. args \in Seq(Arg) /\ to \in Seq(Nat) /\ op \in Operations \ Terminators
    BY <1>7 DEF Operations, Terminators
  <2> HIDE DEF args, to, op
  <2>2. Op(op, NoText, args, to) \in Operation
    BY <2>1, AnOperationTo
  <2> QED
    BY <2>2, YieldIsOperation DEF args, to, op
<1>11. OpOK(S, kept, 1, keeps) /\ OpOK(S, kept, 2, yield)
  BY <1>6, <1>7, ThreeArgsOK, NoArgOK
<1> HIDE DEF keeps, yield, if
<1>12. body \in Seq(Operation) /\ DOMAIN body = 1..2 /\ body[1] = keeps /\ body[2] = yield
  BY <1>10
<1> HIDE DEF body
<1>13. BodyOK(S, kept, body)
  <2>1. \A i \in DOMAIN body : i = 1 \/ i = 2
    BY <1>12
  <2> QED
    BY <1>11, <1>12, <2>1 DEF BodyOK
<1>14. within \in SUBSET Nat
  <2>1. blocks[c].within \subseteq DOMAIN blocks /\ DOMAIN blocks \subseteq Nat
    BY <1>1 DEF BlocksTyped
  <2> QED
    BY <1>1, <2>1
<1> HIDE DEF within
<1>15. keep \in BlockRecord /\ keep.within = within /\ keep.body = body
  BY <1>12, <1>14 DEF Block, BlockRecord
<1> HIDE DEF keep
<1>16. CertWith(Append(InsertOps(blocks, ip, <<if>>), keep), S, DOMAIN blocks \cup {kept})
  <2>1. /\ kept \in DOMAIN S /\ S[kept] = S[ip.block] \cup {ip.block} /\ Cert(blocks, S)
        /\ OpOK(S, ip.block, ip.at + 1, if) /\ if \in Operation /\ keep \in BlockRecord
        /\ keep.within = blocks[ip.block].within \cup {ip.block} /\ BodyOK(S, kept, keep.body)
    BY <1>4, <1>5, <1>9, <1>13, <1>15 DEF c, within
  <2> QED
    BY <2>1, KeptCert
<1>17. blocks' = Append(InsertOps(blocks, ip, <<if>>), keep)
  BY DEF if, keep, body, keeps, yield, within, c, elem, result
<1>18. GoesOn(R, S, blocks')
  BY <1>1, <1>4, <1>5, <1>16, <1>17 DEF GoesOn, CertWith
<1> QED
  BY <1>18

LEMMA EndGeneratorCert ==
    ASSUME EmitInv, codegen # "idle", NEW R, NEW ms, CertAt(R, ms), NEW l, ScopedValues(R, l),
           blocks' = InsertOps(blocks, ip,
                        <<Op("put", NoText, <<l.result, InductionVar(l.region), TopValue>>, <<>>)>>)
    PROVE  \E S : GoesOn(R, S, blocks')
<1> DEFINE var == InductionVar(l.region)
           result == l.result
           put == Op("put", NoText, <<result, var, TopValue>>, <<>>)
<1>1. /\ DOMAIN R = DOMAIN blocks /\ ip.at \in Nat /\ Cert(blocks, R)
      /\ \A b \in DOMAIN R : R[b] \subseteq DOMAIN R
  BY PlaceTyped DEF CertAt
<1>2. result \in Arg /\ TopValue \in Arg /\ var \in Arg
  <2>1. var \in Arg
    BY DEF ScopedValues, InductionVar, Arg, Type
  <2> QED
    BY <2>1 DEF ScopedValues
<1>3. KnownAt(R, result, ip) /\ KnownAt(R, TopValue, ip) /\ KnownAt(R, var, ip)
  <2>1. KnownAt(R, Element(l), ip) /\ Element(l).block = l.region /\ Element(l).at = 1
    BY DEF ScopedValues, Element, ResultAt, StartOf
  <2>2. var.block = l.region /\ var.at = 0
    BY DEF InductionVar
  <2> HIDE DEF var
  <2>3. KnownAt(R, var, ip)
    BY <1>1, <2>1, <2>2 DEF KnownAt, Known
  <2> QED
    BY <2>3 DEF ScopedValues
<1> HIDE DEF var, result
<1>4. put \in Operation
  <2> DEFINE args == <<result, var, TopValue>>
             to == <<>>
             op == "put"
  <2>1. args \in Seq(Arg) /\ to \in Seq(Nat) /\ op \in Operations \ Terminators
    BY <1>2 DEF Operations, Terminators
  <2> HIDE DEF args, to, op
  <2>2. Op(op, NoText, args, to) \in Operation
    BY <2>1, AnOperationTo
  <2> QED
    BY <2>2 DEF args, to, op
<1>5. OpOK(R, ip.block, ip.at + 1, put)
  BY <1>3, ThreeArgsOK DEF KnownAt
<1> HIDE DEF put
<1>6. CertWith(InsertOps(blocks, ip, <<put>>), R, DOMAIN blocks)
  BY <1>1, <1>4, <1>5, PutCert
<1>7. blocks' = InsertOps(blocks, ip, <<put>>)
  BY DEF put, var, result
<1>8. GoesOn(R, R, blocks')
  BY <1>1, <1>6, <1>7 DEF GoesOn, CertWith, Agree
<1> QED
  BY <1>8

LEMMA GenEndScopedKeepsCert == ASSUME Certifying, CertInv, GenEndScoped PROVE CertInv'
<1> DEFINE l == Top(locals)
           node == ThisVisit.node
           kept == Len(blocks) + 1
           result == l.result
<1>1. /\ Visiting({"GENERATOR_END", "FILTER_END"}) /\ node \in {"GENERATOR_END", "FILTER_END"}
      /\ codegen = "emitting" /\ codegen # "idle" /\ codegen' = "emitting" /\ EmitInv /\ pos \in DOMAIN ast
      /\ ip' = l.save /\ locals' = Pop(locals) /\ opperands' = Append(Pop(opperands), result)
      /\ pos' = pos + 1 /\ UNCHANGED storage /\ scopes' = scopes
      /\ cg_scope' = GetEnclosingScope(scopes, cg_scope)
  BY DEF GenEndScoped, Visiting, Advance, PopOperand, WithResult, LeaveCgScope, Certifying, DefRefInv,
         ReplayInv, defref_vars
<1>2. PICK R, M : Certified(R, M)
  BY <1>1, CertHere
<1> DEFINE ms == M[pos].marks
           rest == M[pos + 1].marks
           K == Len(rest)
<1>3. /\ NestAt(M) /\ CertAt(R, ms) /\ KnownAt(R, const_zero, ip) /\ KnownAt(R, const_one, ip)
      /\ \A i \in 1..Len(opperands) : KnownAt(R, opperands[i], ip)
  BY <1>2 DEF Certified
<1>4. Arity(node) = 1 /\ Pushes(node) = 1 /\ node \in Closing /\ node \notin {"BLOCK"} \cup ScopedOps
      /\ KindOf(node) \in ScopedOps
  <2>1. node = "GENERATOR_END" \/ node = "FILTER_END"
    BY <1>1
  <2> HIDE DEF node
  <2> QED
    BY <2>1 DEF Arity, Pushes, Ops, ScopedOps, Closing, KindOf
<1> DEFINE n == Len(opperands) - Arity(ThisVisit.node)
<1>5. /\ n \in Nat /\ First(Pop(opperands), n) /\ TopValue \in Value(blocks)
      /\ TopValue = opperands[Len(opperands)] /\ Len(opperands) \in 1..Len(opperands)
  <2>1. /\ n \in Nat /\ First(Pop(opperands), n) /\ TopValue \in Value(blocks) /\ opperands # <<>>
        /\ TopValue = opperands[Len(opperands)] /\ opperands \in Seq(Value(blocks))
    BY <1>1, <1>3, <1>4, RestOfOperands
  <2> QED
    BY <2>1
<1> HIDE DEF n
<1>6. l.result \in Value(blocks) /\ l.region \in DOMAIN blocks
  <2>0. DefRefInv /\ pos \in Nat \ {0}
    BY DEF Certifying, ReplayInv
  <2>1. PICK T : Here(T)
    BY <1>1, <2>0, AtVisit
  <2> DEFINE o == T[pos + 1].open
             kind == KindOf(node)
  <2>2. T[pos].open = Append(o, kind) /\ o \in Seq(LocalKind) /\ Emitting(blocks, ip, locals, T[pos].open)
    BY <1>4, <2>1 DEF Here, TraceStep, Opened, Follows, Stacks
  <2> HIDE DEF o, kind
  <2>3. kind \in ScopedOps
    BY <1>4 DEF kind
  <2> QED
    BY <2>2, <2>3, RegionPopped
<1>7. OperandsLeft(n) /\ Len(opperands') = n + 1 /\ opperands'[n + 1] = result
  <2> HIDE DEF result
  <2>1. result \in Value(blocks)
    BY <1>6 DEF result
  <2> DEFINE popped == Pop(opperands)
  <2>2. First(popped, n) /\ opperands' = Append(popped, result) /\ Pushes(ThisVisit.node) = 1
        /\ n = Len(opperands) - Arity(ThisVisit.node) /\ n \in Nat
    BY <1>1, <1>4, <1>5 DEF n
  <2> HIDE DEF popped, node
  <2> QED
    BY <2>1, <2>2, LeavesResult
<1>8. CertVisit(M, n)
  BY <1>1, <1>3, <1>7, AtCertVisit
<1>9. ms = Append(rest, MarkAt(ThisVisit, n)) /\ rest \in Seq(Mark)
  BY <1>1, <1>4, <1>8 DEF CertVisit, NestVisit
<1>10. TopMark(R, M, rest, n)
  BY <1>3, <1>8, <1>9, TopMarked
<1>11. MarkAt(ThisVisit, n).scoped
  BY <1>1 DEF MarkAt
<1>12. cg_scope = ThisVisit.scope /\ cg_scope \in DOMAIN scopes /\ cg_scope # NoScope
  BY <1>1, <1>4, ClosedScope
<1>13. K \in Nat /\ Len(ms) - 1 = K /\ K <= Len(ms) /\ LocalsMarked(locals', rest, scopes)
       /\ \A k \in 1..K : locals'[k] = locals[k] /\ rest[k] = ms[k]
  <2>1. /\ Len(ms) \in Nat /\ Len(ms) # 0 /\ K = Len(ms) - 1
        /\ (\A k \in 1..(Len(ms) - 1) : rest[k] = ms[k])
        /\ (\A k \in 1..(Len(ms) - 1) : Pop(locals)[k] = locals[k]) /\ LocalsMarked(Pop(locals), rest, scopes)
    BY <1>10 DEF TopMark
  <2> HIDE DEF K, ms, rest
  <2> QED
    BY <1>1, <2>1
<1> DEFINE C == Chain(scopes, scopes[ThisVisit.scope].enclosing)
           X == {result}
<1>14. /\ KnownAt(R, result, ip) /\ KnownAt(R, Element(l), ip)
       /\ Frame(R, Live(opperands, n, storage, C, locals, ms, K) \cup X, Targets(locals, ms, K), ip')
  <2>1. /\ KnownAt(R, l.result, ip) /\ KnownAt(R, Element(l), ip)
        /\ Frame(R, Live(opperands, n, storage, C, locals, ms, Len(ms) - 1) \cup {l.result},
                 Targets(locals, ms, Len(ms) - 1), l.save)
    BY <1>3, <1>10, <1>11, TopScoped
  <2> HIDE DEF C, ms, K
  <2>2. Len(ms) - 1 = K /\ ip' = l.save
    BY <1>1, <1>13
  <2> HIDE DEF l
  <2> QED
    BY <2>1, <2>2 DEF X
<1>15. ScopedValues(R, l)
  <2>1. KnownAt(R, TopValue, ip)
    BY <1>3, <1>5
  <2>2. l.result \in Arg /\ TopValue \in Arg
    BY <1>1, <1>5, <1>6, OperandsAreArgs
  <2>3. l.region \in Nat
    <3>1. blocks \in Seq(BlockRecord)
      BY <1>1, PlaceTyped
    <3> HIDE DEF l
    <3>2. DOMAIN blocks \subseteq Nat
      BY <3>1
    <3> QED
      BY <1>6, <3>2
  <2> QED
    BY <1>3, <1>14, <2>1, <2>2, <2>3 DEF ScopedValues
<1>16. PICK S : GoesOn(R, S, blocks')
  <2>1. CASE node = "FILTER_END"
    <3>1. blocks' = Append(InsertOps(blocks, ip, <<Op("if", NoText, <<TopValue, const_zero>>, <<kept>>)>>),
                            Block(<<Op("keep", NoText, <<l.result, Element(l), const_one>>, <<>>),
                                    Op("yield", NoText, <<>>, <<>>)>>,
                                  blocks[ip.block].within \cup {ip.block}))
      BY <2>1 DEF GenEndScoped, Element
    <3> HIDE DEF l, node, ms
    <3> QED
      BY <1>1, <1>3, <1>15, <3>1, EndFilterCert
  <2>2. CASE node # "FILTER_END"
    <3>1. blocks' = InsertOps(blocks, ip,
                        <<Op("put", NoText, <<l.result, InductionVar(l.region), TopValue>>, <<>>)>>)
      BY <2>2 DEF GenEndScoped
    <3> HIDE DEF l, node, ms
    <3> QED
      BY <1>1, <1>3, <1>15, <3>1, EndGeneratorCert
  <2> QED
    BY <2>1, <2>2
<1>17. ChainNow' \subseteq C
  <2>1. cg_scope' = scopes[ThisVisit.scope].enclosing
    BY <1>1, <1>12 DEF GetEnclosingScope
  <2> QED
    BY <1>1, <2>1 DEF ChainNow
<1>18. StorageKept
  BY <1>1 DEF StorageKept
<1> HIDE DEF l, node, kept
<1>19. VisitMade(M, R, n, S, rest, K)
  <2>1. /\ K <= Len(M[pos].marks) /\ K <= Len(rest) /\ K \in Nat
        /\ \A k \in 1..K : locals'[k] = locals[k] /\ rest[k] = M[pos].marks[k]
    BY <1>13 DEF ms
  <2>2. /\ Agree(R, S) /\ Cert(blocks', S) /\ DOMAIN S = DOMAIN blocks'
        /\ \A b \in DOMAIN S : S[b] \subseteq DOMAIN S
    BY <1>16 DEF GoesOn
  <2>3. rest = M[pos + 1].marks /\ CertAt(R, M[pos].marks)
    BY <1>3 DEF ms, rest
  <2> HIDE DEF K, rest
  <2> QED
    BY <1>1, <1>3, <1>8, <1>13, <1>18, <2>1, <2>2, <2>3 DEF VisitMade
<1>20. Frame(R, Live(opperands, n, storage, C, locals, M[pos].marks, K) \cup X,
                 Targets(locals, M[pos].marks, K), ip')
  BY <1>14 DEF ms
<1>21. K = Len(rest) /\ UNCHANGED storage /\ (Len(opperands') = n + 1 => opperands'[n + 1] \in X)
  BY <1>1, <1>7 DEF X
<1> HIDE DEF C, X, K, rest
<1> QED
  BY <1>17, <1>19, <1>20, <1>21, ReturnKeepsCert

----------------------------------------------------------------------------
(* The beginning and the end of CodeGen. *)

LEMMA EntryCert ==
    ASSUME NEW R, R = [b \in {1} |-> {1}],
           NEW bs, bs = <<Block(<<Op("one", NoText, <<>>, <<>>), Op("zero", NoText, <<>>, <<>>)>>, {})>>
    PROVE  CertWith(bs, R, DOMAIN R) /\ \A b \in DOMAIN R : R[b] \subseteq DOMAIN R
<1> DEFINE one == Op("one", NoText, <<>>, <<>>)
           zero == Op("zero", NoText, <<>>, <<>>)
           body == <<one, zero>>
           entry == Block(body, {})
<1>1. OpOK(R, 1, 1, one) /\ OpOK(R, 1, 2, zero)
  BY NoArgOK
<1> HIDE DEF one, zero
<1>2. \A i \in DOMAIN body : (i = 1 /\ body[i] = one) \/ (i = 2 /\ body[i] = zero)
  OBVIOUS
<1> HIDE DEF body
<1>3. BodyOK(R, 1, body)
  BY <1>1, <1>2 DEF BodyOK
<1>4. entry.body = body /\ entry.within = {}
  BY DEF Block
<1>5. bs = <<entry>>
  BY DEF entry, body, one, zero
<1> HIDE DEF entry
<1>6. DOMAIN bs = {1} /\ bs[1] = entry
  BY <1>5
<1>7. DOMAIN R = {1} /\ R[1] = {1}
  OBVIOUS
<1>8. HostOK(bs, R, 1)
  BY <1>4, <1>6, <1>7 DEF HostOK
<1>9. Cert(bs, R)
  BY <1>3, <1>4, <1>6, <1>7, <1>8 DEF Cert
<1> QED
  BY <1>6, <1>7, <1>9 DEF CertWith

LEMMA GenerateMlirKeepsCert ==
    ASSUME DefRefInv, VisitsInv, TraceInv, WalkedInv, ReplayInv, EmitInv, UNCHANGED defref_vars, GenerateMlir
    PROVE  CertInv'
<1> DEFINE none == <<>>
           R == [b \in {1} |-> {1}]
           C == Chain(scopes, cg_scope)
           p == [block |-> 1, at |-> 2]
<1>1. /\ codegen = "idle" /\ status = "validated" /\ codegen' = "emitting" /\ pos' = 1
      /\ blocks' = <<Block(<<Op("one", NoText, <<>>, <<>>), Op("zero", NoText, <<>>, <<>>)>>, {})>>
      /\ ip' = p /\ ast' = ast /\ scopes' = scopes
      /\ UNCHANGED <<opperands, storage, locals, cg_scope>> /\ opperands = none /\ locals = none
  BY DEF GenerateMlir, EmitInv, defref_vars
<1>2. DOMAIN storage = {}
  <2>1. pos = 1
    BY <1>1 DEF ReplayInv
  <2>2. \A i \in DOMAIN ast : ~(i < pos)
    BY <2>1 DEF DefRefInv
  <2> QED
    BY <2>2 DEF ReplayInv
<1>3. PICK M \in Seq(Nest) : Nested(ast, M) /\ M[Len(ast) + 1] = [n |-> 0, marks |-> <<>>]
  BY <1>1, NestOfWholeWalk DEF VisitsInv, NestReached
<1>4. M[1] = [n |-> 0, marks |-> none] /\ Len(none) = 0
  BY <1>3 DEF Nested
<1>5. NestAt(M)'
  BY <1>1, <1>3, <1>4 DEF NestAt
<1>6. CertWith(blocks', R, DOMAIN R) /\ \A b \in DOMAIN R : R[b] \subseteq DOMAIN R
  BY <1>1, EntryCert
<1>7. LocalsMarked(locals', none, scopes')
  BY <1>1 DEF LocalsMarked
<1>8. Frame(R, Live(none, 0, storage, C, none, none, 0), Targets(none, none, 0), p)
  <2>1. Live(none, 0, storage, C, none, none, 0) = {const_zero}
    <3>1. Stored(storage, C) = {}
      BY <1>2 DEF Stored
    <3>2. Taken(none, 0) = {} /\ Looping(none, 0) = {}
      BY DEF Taken, Looping
    <3> HIDE DEF C, none
    <3> QED
      BY <3>1, <3>2 DEF Live
  <2>2. Targets(none, none, 0) = {}
    BY DEF Targets, Branched
  <2>3. KnownAt(R, const_zero, p)
    BY DEF KnownAt, Known, const_zero
  <2>4. p.block \in DOMAIN R
    OBVIOUS
  <2> HIDE DEF p, R, none, C
  <2> QED
    BY <2>1, <2>2, <2>3, <2>4 DEF Frame
<1>9. CertAt(R, none)'
  <2>1. Len(none) = 0 /\ opperands' = none /\ locals' = none /\ storage' = storage /\ ip' = p
        /\ Chain(scopes', cg_scope') = C
    BY <1>1, <1>4
  <2>2. \A k \in 1..Len(none) : FALSE
    BY <1>4
  <2> HIDE DEF none, R, C, p
  <2> QED
    BY <1>6, <1>7, <1>8, <2>1, <2>2 DEF CertAt, CertWith
<1>10. CertAt(R, M[pos].marks)'
  <2>1. M[pos'].marks = none
    BY <1>1, <1>4
  <2> HIDE DEF none, R
  <2> QED
    BY <1>9, <2>1 DEF CertAt
<1> QED
  BY <1>1, <1>5, <1>10 DEF CertInv

LEMMA GenReturnKeepsCert == ASSUME EmitInv, CertInv, GenReturn PROVE CertInv'
<1> DEFINE args == <<const_zero>>
           none == <<>>
           op == Op("return", NoText, args, none)
<1>1. /\ codegen = "emitting" /\ codegen # "idle" /\ codegen' = "generated"
      /\ blocks' = InsertOps(blocks, ip, <<op>>)
  BY DEF GenReturn, Emit
<1>2. PICK R, M : NestAt(M) /\ CertAt(R, M[pos].marks)
  BY <1>1 DEF CertInv
<1>3. op \in Operation
  <2> DEFINE what == "return"
  <2>1. what \in Operations /\ args \in Seq(Arg) /\ none \in Seq(Nat)
    BY <1>1, OperandsAreArgs DEF Operations, Terminators
  <2> HIDE DEF what, args, none
  <2>2. Op(what, NoText, args, none) \in Operation
    BY <2>1, AnOperationTo
  <2> QED
    BY <2>2 DEF what
<1>4. Cert(blocks, R) /\ KnownAt(R, const_zero, ip)
  BY <1>2 DEF CertAt, Frame, Live
<1>5. OpOK(R, ip.block, ip.at + 1, op)
  BY <1>4, OneArgOK DEF KnownAt
<1> HIDE DEF op
<1>6. CertWith(InsertOps(blocks, ip, <<op>>), R, DOMAIN blocks)
  BY <1>1, <1>3, <1>4, <1>5, PutCert
<1>7. Cert(blocks', R)
  BY <1>1, <1>6 DEF CertWith
<1> QED
  BY <1>1, <1>7 DEF CertInv

LEMMA GenerateKeepsCert ==
    ASSUME DefRefInv, VisitsInv, TraceInv, WalkedInv, ReplayInv, EmitInv, CertInv, CodeGenNext
    PROVE  CertInv'
<1>1. UNCHANGED defref_vars
  BY DEF CodeGenNext
<1>2. CASE GenerateMlir
  BY <1>1, <1>2, GenerateMlirKeepsCert
<1>3. CASE GenReturn
  BY <1>3, GenReturnKeepsCert
<1>4. CASE ~GenerateMlir /\ ~GenReturn
  <2>1. codegen = "emitting"
    BY <1>4 DEF CodeGenNext, GenBLOCK, GenIF_BLOCK, GenEndIF_BLOCK, GenLOOP_BLOCK, GenLoopBody,
       GenEndLOOP_BLOCK, GenDECL, GenASSIGN, GenPRINT, GenID, GenINT, GenOp, GenScoped, GenEndScoped,
       Visiting
  <2>2. Certifying
    <3>1. calls = <<>>
      BY <2>1 DEF ReplayInv, VisitsInv
    <3> QED
      BY <1>1, <3>1, NestOfWholeWalk DEF Certifying
  <2>3. CASE GenBLOCK \/ GenDECL \/ GenASSIGN \/ GenPRINT \/ GenID \/ GenINT \/ GenOp
    BY <2>2, <2>3, GenBLOCKKeepsCert, GenDECLKeepsCert, GenASSIGNKeepsCert, GenPRINTKeepsCert,
       GenIDKeepsCert, GenINTKeepsCert, GenOpKeepsCert
  <2>4. CASE GenIF_BLOCK \/ GenEndIF_BLOCK \/ GenLOOP_BLOCK \/ GenLoopBody \/ GenEndLOOP_BLOCK
    BY <2>2, <2>4, GenIF_BLOCKKeepsCert, GenLOOP_BLOCKKeepsCert, GenLoopBodyKeepsCert, GenEndBranchKeepsCert
  <2>5. CASE GenScoped \/ GenEndScoped
    BY <2>2, <2>5, GenScopedKeepsCert, GenEndScopedKeepsCert
  <2> QED
    BY <1>4, <2>3, <2>4, <2>5 DEF CodeGenNext
<1> QED
  BY <1>2, <1>3, <1>4

----------------------------------------------------------------------------
(* The types of the operands. *)

Fitting(ops) == \A i \in DOMAIN ops : OperandsFit(ops[i])
AllFit(bs) == \A b \in DOMAIN bs : Fitting(bs[b].body)

LEMMA FittingInserted ==
    ASSUME NEW bs, BlocksTyped(bs), NEW p, p.block \in DOMAIN bs,
           p.at \in 0..Len(bs[p.block].body), NEW ops \in Seq(Operation)
    PROVE  AllFit(InsertOps(bs, p, ops)) <=> AllFit(bs) /\ Fitting(ops)
<1> DEFINE new == InsertOps(bs, p, ops)
           old == bs[p.block].body
           body == new[p.block].body
           at == p.at
<1>1. /\ DOMAIN new = DOMAIN bs /\ \A b \in DOMAIN bs : b # p.block => new[b] = bs[b]
      /\ Spliced(old, at, ops, body)
  BY OpsInserted
<1>2. old \in Seq(Operation) /\ at \in 0..Len(old)
  <2>1. bs[p.block] \in BlockRecord
    BY DEF BlocksTyped
  <2> QED
    BY <2>1 DEF BlockRecord
<1> HIDE DEF new, old, body, at
<1>3. /\ Len(old) \in Nat /\ Len(ops) \in Nat /\ body \in Seq(Operation) /\ Len(body) = Len(old) + Len(ops)
      /\ DOMAIN old = 1..Len(old) /\ DOMAIN ops = 1..Len(ops) /\ DOMAIN body = 1..(Len(old) + Len(ops))
      /\ at \in Nat /\ at <= Len(old)
  BY <1>1, <1>2 DEF Spliced
<1>4. ASSUME Fitting(old), Fitting(ops), NEW i \in DOMAIN body PROVE OperandsFit(body[i])
  <2>1. CASE i \in 1..at
    BY <1>1, <1>2, <1>3, <1>4, <2>1 DEF Spliced, Fitting
  <2>2. CASE i \in (at + 1)..(at + Len(ops))
    <3> DEFINE k == i - at
    <3>1. k \in 1..Len(ops) /\ at + k = i /\ k \in DOMAIN ops
      BY <1>3, <2>2
    <3> HIDE DEF k
    <3> QED
      BY <1>1, <1>4, <3>1 DEF Spliced, Fitting
  <2>3. CASE i \in (at + Len(ops) + 1)..Len(body)
    <3> DEFINE m == Len(ops)
               l == Len(old)
               k == i - m
    <3>0. /\ m \in Nat /\ l \in Nat /\ at \in Nat /\ i \in Nat /\ at + m + 1 <= i /\ i <= l + m
          /\ DOMAIN old = 1..l
      BY <1>3, <2>3
    <3> HIDE DEF m, l
    <3>1. k \in (at + 1)..l /\ m + k = i /\ k \in DOMAIN old
      BY <3>0
    <3> HIDE DEF k
    <3> USE DEF m, l
    <3> QED
      BY <1>1, <1>4, <3>1 DEF Spliced, Fitting
  <2> QED
    BY <1>2, <1>3, <2>1, <2>2, <2>3
<1>5. ASSUME Fitting(body) PROVE Fitting(old) /\ Fitting(ops)
  <2>1. ASSUME NEW k \in DOMAIN ops PROVE OperandsFit(ops[k])
    <3>1. k \in 1..Len(ops) /\ at + k \in DOMAIN body /\ body[at + k] = ops[k]
      BY <1>1, <1>2, <1>3 DEF Spliced
    <3> QED
      BY <1>5, <3>1 DEF Fitting
  <2>2. ASSUME NEW k \in DOMAIN old PROVE OperandsFit(old[k])
    <3>1. CASE k \in 1..at
      <4>1. k \in DOMAIN body /\ body[k] = old[k]
        BY <1>1, <1>2, <1>3, <3>1 DEF Spliced
      <4> QED
        BY <1>5, <4>1 DEF Fitting
    <3>2. CASE k \in (at + 1)..Len(old)
      <4>1. Len(ops) + k \in DOMAIN body /\ body[Len(ops) + k] = old[k]
        BY <1>1, <1>2, <1>3, <3>2 DEF Spliced
      <4> QED
        BY <1>5, <4>1 DEF Fitting
    <3> QED
      BY <1>2, <1>3, <3>1, <3>2
  <2> QED
    BY <2>1, <2>2 DEF Fitting
<1>6. Fitting(body) <=> Fitting(old) /\ Fitting(ops)
  BY <1>4, <1>5 DEF Fitting
<1>7. AllFit(new) <=> AllFit(bs) /\ Fitting(ops)
  BY <1>1, <1>6 DEF AllFit, old, body
<1> QED
  BY <1>7 DEF new

LEMMA FittingAppended ==
    ASSUME NEW bs \in Seq(BlockRecord), NEW block \in BlockRecord
    PROVE  AllFit(Append(bs, block)) <=> AllFit(bs) /\ Fitting(block.body)
<1> DEFINE new == Append(bs, block)
           n == Len(bs) + 1
<1>1. DOMAIN new = DOMAIN bs \cup {n} /\ n \notin DOMAIN bs /\ new[n] = block /\ \A b \in DOMAIN bs : new[b] = bs[b]
  BY Appended
<1> HIDE DEF new, n
<1>2. AllFit(new) <=> AllFit(bs) /\ Fitting(block.body)
  BY <1>1 DEF AllFit
<1> QED
  BY <1>2 DEF new

LEMMA FittingBlanks ==
    ASSUME NEW bs \in Seq(BlockRecord), NEW n \in Nat
    PROVE  AllFit(bs \o [i \in 1..n |-> Block(<<>>, {})]) <=> AllFit(bs)
<1> DEFINE none == Block(<<>>, {})
           added == [i \in 1..n |-> none]
           new == bs \o added
           m == Len(bs)
<1>1. none \in BlockRecord /\ Fitting(none.body)
  BY DEF Block, BlockRecord, Fitting
<1> HIDE DEF none
<1>2. added \in Seq(BlockRecord) /\ Len(added) = n /\ \A i \in 1..n : added[i] = none
  BY <1>1
<1> HIDE DEF added
<1>3. /\ new \in Seq(BlockRecord) /\ Len(new) = m + n
      /\ \A c \in 1..m : new[c] = bs[c]
      /\ \A i \in 1..n : new[m + i] = none
  <2>1. /\ new \in Seq(BlockRecord) /\ Len(new) = Len(bs) + Len(added)
        /\ \A c \in 1..Len(bs) : new[c] = bs[c]
    BY <1>2, Concatenated
  <2>2. \A i \in 1..Len(added) : new[Len(bs) + i] = added[i]
    BY <1>2, Concatenated
  <2> HIDE DEF new
  <2> QED
    BY <1>2, <2>1, <2>2
<1>4. m \in Nat /\ DOMAIN bs = 1..m
  OBVIOUS
<1> HIDE DEF new, m
<1>5. ASSUME NEW b \in DOMAIN new PROVE b \in DOMAIN bs \/ new[b] = none
  <2> DEFINE i == b - m
  <2>1. b \in 1..m \/ i \in 1..n
    BY <1>3, <1>4
  <2>2. m + i = b
    BY <1>3, <1>4
  <2> HIDE DEF i
  <2> QED
    BY <1>3, <1>4, <2>1, <2>2
<1>6. \A c \in DOMAIN bs : c \in DOMAIN new /\ new[c] = bs[c]
  BY <1>3, <1>4
<1>7. AllFit(new) <=> AllFit(bs)
  BY <1>1, <1>5, <1>6 DEF AllFit
<1> QED
  BY <1>7 DEF new, added, none

LEMMA Signatures ==
    /\ Signature["alloca"][1] = "i32" /\ Signature["load"][1] = "ptr"
    /\ Signature["store"][1] = "any" /\ Signature["store"][2] = "ptr"
    /\ Signature["cond_br"][1] = "i32" /\ Signature["cond_br"][2] = "i32"
    /\ Signature["return"][1] = "i32"
    /\ Signature["for"][1] = "i32" /\ Signature["for"][2] = "i32" /\ Signature["for"][3] = "i32"
    /\ Signature["if"][1] = "i32" /\ Signature["if"][2] = "i32"
    /\ Signature["size"][1] = "ptr" /\ Signature["new_vector"][1] = "i32"
    /\ Signature["empty"][1] = "ptr" /\ Signature["empty"][2] = "i32"
    /\ Signature["put"][1] = "ptr" /\ Signature["put"][2] = "i32" /\ Signature["put"][3] = "any"
    /\ Signature["keep"][1] = "ptr" /\ Signature["keep"][2] = "i32" /\ Signature["keep"][3] = "i32"
    /\ Signature["int_op"][1] = "i32" /\ Signature["int_op"][2] = "i32"
    /\ Signature["vector_op"][1] = "ptr" /\ Signature["vector_op"][2] = "ptr"
    /\ Signature["int_to_vector"][1] = "i32" /\ Signature["int_to_vector"][2] = "i32"
    /\ Signature["vector_range"][1] = "i32" /\ Signature["vector_range"][2] = "i32"
    /\ Signature["vector_index"][1] = "ptr" /\ Signature["vector_index"][2] = "i32"
    /\ Signature["vector_index_vector"][1] = "ptr" /\ Signature["vector_index_vector"][2] = "ptr"
    /\ Signature["printf"][1] = "any" /\ Signature["print_vector"][1] = "ptr"
  BY DEF Signature

\* An operation with no, one, two or three operands.
LEMMA FitsOperands ==
    ASSUME NEW op, NEW text, NEW to
    PROVE  /\ OperandsFit(Op(op, text, <<>>, to))
           /\ \A x : OperandsFit(Op(op, text, <<x>>, to)) <=> Signature[op][1] \in {"any", LLVMType(x)}
           /\ \A x, y : OperandsFit(Op(op, text, <<x, y>>, to)) <=>
                  Signature[op][1] \in {"any", LLVMType(x)} /\ Signature[op][2] \in {"any", LLVMType(y)}
           /\ \A x, y, z : OperandsFit(Op(op, text, <<x, y, z>>, to)) <=>
                  /\ Signature[op][1] \in {"any", LLVMType(x)} /\ Signature[op][2] \in {"any", LLVMType(y)}
                  /\ Signature[op][3] \in {"any", LLVMType(z)}
<1>0. \A args : Op(op, text, args, to).args = args /\ Op(op, text, args, to).op = op
  BY DEF Op
<1>1. OperandsFit(Op(op, text, <<>>, to))
  BY <1>0 DEF OperandsFit
<1>2. ASSUME NEW x PROVE OperandsFit(Op(op, text, <<x>>, to)) <=> Signature[op][1] \in {"any", LLVMType(x)}
  <2> DEFINE args == <<x>>
  <2>1. DOMAIN args = {1} /\ args[1] = x
    OBVIOUS
  <2> HIDE DEF args
  <2>2. OperandsFit(Op(op, text, args, to)) <=> Signature[op][1] \in {"any", LLVMType(x)}
    BY <1>0, <2>1 DEF OperandsFit
  <2> QED
    BY <2>2 DEF args
<1>3. ASSUME NEW x, NEW y
      PROVE  OperandsFit(Op(op, text, <<x, y>>, to)) <=>
                  Signature[op][1] \in {"any", LLVMType(x)} /\ Signature[op][2] \in {"any", LLVMType(y)}
  <2> DEFINE args == <<x, y>>
  <2>1. DOMAIN args = {1, 2} /\ args[1] = x /\ args[2] = y
    OBVIOUS
  <2> HIDE DEF args
  <2>2. OperandsFit(Op(op, text, args, to)) <=>
                  Signature[op][1] \in {"any", LLVMType(x)} /\ Signature[op][2] \in {"any", LLVMType(y)}
    BY <1>0, <2>1 DEF OperandsFit
  <2> QED
    BY <2>2 DEF args
<1>4. ASSUME NEW x, NEW y, NEW z
      PROVE  OperandsFit(Op(op, text, <<x, y, z>>, to)) <=>
                  /\ Signature[op][1] \in {"any", LLVMType(x)} /\ Signature[op][2] \in {"any", LLVMType(y)}
                  /\ Signature[op][3] \in {"any", LLVMType(z)}
  <2> DEFINE args == <<x, y, z>>
  <2>1. DOMAIN args = {1, 2, 3} /\ args[1] = x /\ args[2] = y /\ args[3] = z
    OBVIOUS
  <2> HIDE DEF args
  <2>2. OperandsFit(Op(op, text, args, to)) <=>
                  /\ Signature[op][1] \in {"any", LLVMType(x)} /\ Signature[op][2] \in {"any", LLVMType(y)}
                  /\ Signature[op][3] \in {"any", LLVMType(z)}
    BY <1>0, <2>1 DEF OperandsFit
  <2> QED
    BY <2>2 DEF args
<1> QED
  BY <1>1, <1>2, <1>3, <1>4

\* The filters the walk has come past whose body is a vector: only there an operation
\* gets operands that do not fit.
FilterBefore(k) == \E j \in DOMAIN ast : /\ j < k /\ ast[j].node = "FILTER_END"
                                         /\ ast[j].refs = <<"vector">>
FitInv ==
    /\ codegen = "emitting" => (AllFit(blocks) <=> ~FilterBefore(pos))
    /\ codegen = "generated" => (AllFit(blocks) <=> ~VectorFilter)

RefsOK == \A i \in DOMAIN ast : Referred(ast[i]) /\ (ast[i].node \in Tests => ast[i].refs = <<"int">>)
FitReady == DefRefInv /\ VisitsInv /\ ReplayInv /\ EmitInv /\ UNCHANGED defref_vars /\ RefsOK

LEMMA FitKept ==
    ASSUME FitReady, FitInv, NEW nodes, Visiting(nodes), pos' = pos + 1, codegen' = "emitting",
           AllFit(blocks') <=>
              AllFit(blocks) /\ ~(ThisVisit.node = "FILTER_END" /\ ThisVisit.refs = <<"vector">>)
    PROVE  FitInv'
<1>1. /\ codegen = "emitting" /\ pos \in DOMAIN ast /\ pos \in Nat /\ DOMAIN ast \subseteq Nat
      /\ ast' = ast /\ ThisVisit = ast[pos]
  BY DEF Visiting, FitReady, DefRefInv, ReplayInv, ThisVisit, defref_vars
<1>2. FilterBefore(pos)' <=>
         FilterBefore(pos) \/ (ThisVisit.node = "FILTER_END" /\ ThisVisit.refs = <<"vector">>)
  <2>1. \A j \in DOMAIN ast : j < pos + 1 <=> (j < pos \/ j = pos)
    BY <1>1
  <2> QED
    BY <1>1, <2>1 DEF FilterBefore
<1> QED
  BY <1>1, <1>2 DEF FitInv

LEMMA EmitFits ==
    ASSUME FitReady, FitInv, NEW nodes, Visiting(nodes), ThisVisit.node # "FILTER_END",
           NEW ops \in Seq(Operation), Fitting(ops), blocks' = InsertOps(blocks, ip, ops),
           pos' = pos + 1, codegen' = "emitting"
    PROVE  FitInv'
<1>1. EmitInv /\ codegen # "idle"
  BY DEF FitReady, Visiting
<1>2. AllFit(blocks') <=> AllFit(blocks) /\ Fitting(ops)
  BY <1>1, PlaceTyped, FittingInserted
<1> QED
  BY <1>2, FitKept

LEMMA OneFitting == ASSUME NEW op, OperandsFit(op) PROVE Fitting(<<op>>)
  BY DEF Fitting

LEMMA EmitOneFits ==
    ASSUME FitReady, FitInv, NEW nodes, Visiting(nodes), ThisVisit.node # "FILTER_END",
           NEW op \in Operation, OperandsFit(op), blocks' = InsertOps(blocks, ip, <<op>>),
           pos' = pos + 1, codegen' = "emitting"
    PROVE  FitInv'
<1> DEFINE ops == <<op>>
<1>1. ops \in Seq(Operation) /\ Fitting(ops) /\ blocks' = InsertOps(blocks, ip, ops)
  BY OneFitting
<1> HIDE DEF ops
<1> QED
  BY <1>1, EmitFits

LEMMA BranchFits ==
    ASSUME FitReady, FitInv, NEW nodes, Visiting(nodes), ThisVisit.node # "FILTER_END",
           NEW op \in Operation, OperandsFit(op), NEW n \in Nat, blocks' = BranchTo(op, n),
           pos' = pos + 1, codegen' = "emitting"
    PROVE  FitInv'
<1> DEFINE ops == <<op>>
           mid == InsertOps(blocks, ip, ops)
<1>1. EmitInv /\ codegen # "idle" /\ ops \in Seq(Operation) /\ Fitting(ops)
  BY OneFitting DEF FitReady, Visiting
<1>2. blocks' = mid \o [i \in 1..n |-> Block(<<>>, {})]
  BY DEF BranchTo
<1> HIDE DEF ops
<1>3. AllFit(mid) <=> AllFit(blocks) /\ Fitting(ops)
  BY <1>1, PlaceTyped, FittingInserted
<1>4. mid \in Seq(BlockRecord)
  BY <1>1, PlaceTyped, OpsInserted DEF BlocksTyped
<1> HIDE DEF mid
<1>5. AllFit(blocks') <=> AllFit(mid)
  BY <1>2, <1>4, FittingBlanks
<1> QED
  BY <1>1, <1>3, <1>5, FitKept

\* The operands a visit takes, and their types.
LEMMA OneOperand ==
    ASSUME FitReady, NEW nodes, Visiting(nodes), Arity(ThisVisit.node) = 1
    PROVE  /\ TopValue \in Arg /\ TopValue.type \in Type /\ ThisVisit.refs = <<TopValue.type>>
           /\ Referred(ThisVisit) /\ (ThisVisit.node \in Tests => TopValue.type = "int")
           /\ EmitInv /\ codegen # "idle" /\ const_one \in Arg /\ const_zero \in Arg
<1>1. DefRefInv /\ EmitInv /\ pos \in Nat \ {0} /\ codegen # "idle"
  BY DEF FitReady, ReplayInv, Visiting
<1>2. PICK T : Here(T)
  BY <1>1, AtVisit
<1>3. opperands \in Seq(Value(blocks))
  BY <1>1 DEF EmitInv
<1>4. TopValue \in Value(blocks) /\ TopValue.type = Consumed(ThisVisit)[1]
  BY <1>2, <1>3, OperandPopped
<1>5. /\ Consumed(ThisVisit) \in Seq(Type) /\ Consumed(ThisVisit) = ThisVisit.refs
      /\ Len(Consumed(ThisVisit)) = 1
  <2>1. ThisVisit.node # "DECL"
    BY DEF Arity, Ops, ScopedOps
  <2> QED
    BY <1>2, <2>1, OperandsHere DEF Here, TraceStep
<1>6. ThisVisit.refs = <<TopValue.type>> /\ TopValue.type \in Type
  <2> DEFINE c == ThisVisit.refs
  <2>1. c \in Seq(Type) /\ Len(c) = 1 /\ TopValue.type = c[1]
    BY <1>4, <1>5
  <2> HIDE DEF c
  <2>2. c = <<c[1]>> /\ c[1] \in Type
    BY <2>1, SMTT(30)
  <2> QED
    BY <2>1, <2>2 DEF c
<1>7. Referred(ThisVisit) /\ (ThisVisit.node \in Tests => ThisVisit.refs = <<"int">>)
  BY <1>2 DEF Here, FitReady, RefsOK
<1>8. <<TopValue.type>>[1] = TopValue.type /\ <<"int">>[1] = "int"
  OBVIOUS
<1>9. ThisVisit.node \in Tests => TopValue.type = "int"
  BY <1>6, <1>7, <1>8
<1> QED
  BY <1>1, <1>4, <1>6, <1>7, <1>9, OperandsAreArgs

LEMMA ConstantTypes ==
    /\ LLVMType(const_one) = "i32" /\ LLVMType(const_zero) = "i32"
    /\ \A b : LLVMType(InductionVar(b)) = "i32" /\ InductionVar(b).type = "int"
    /\ \A p, n : LLVMType(ResultAt(p, n, "int")) = "i32" /\ LLVMType(ResultAt(p, n, "vector")) = "ptr"
                 /\ LLVMType(ResultAt(p, n, "address")) = "ptr"
    /\ \A v : (v.type = "int" => LLVMType(v) = "i32") /\ (v.type = "vector" => LLVMType(v) = "ptr")
              /\ (v.type = "address" => LLVMType(v) = "ptr")
  BY DEF LLVMType, const_one, const_zero, InductionVar, ResultAt

LEMMA FitStep ==
    ASSUME FitReady, NEW nodes, Visiting(nodes)
    PROVE  /\ EmitInv /\ codegen = "emitting" /\ codegen # "idle" /\ ThisVisit.node \in nodes
           /\ const_one \in Arg /\ const_zero \in Arg /\ Len(blocks) \in Nat /\ blocks \in Seq(BlockRecord)
           /\ pos \in DOMAIN ast /\ ThisVisit = ast[pos]
<1>1. EmitInv /\ codegen = "emitting" /\ codegen # "idle" /\ ThisVisit.node \in nodes
  BY DEF FitReady, Visiting
<1>2. pos \in DOMAIN ast
  BY DEF FitReady, Visiting, DefRefInv, ReplayInv
<1> QED
  BY <1>1, <1>2, OperandsAreArgs, PlaceTyped DEF ThisVisit

LEMMA TopOfBranch ==
    ASSUME FitReady, Visiting({"LOOP_BODY", "IF_END", "LOOP_END"})
    PROVE  Top(locals) \in [header: Nat, body: Nat, merge: Nat]
<1>1. /\ ThisVisit.node \in {"LOOP_BODY", "IF_END", "LOOP_END"} /\ DefRefInv /\ EmitInv /\ pos \in Nat \ {0}
      /\ codegen = "emitting"
  BY DEF FitReady, ReplayInv, Visiting
<1>2. PICK T : Here(T)
  BY <1>1, AtVisit
<1>3. PICK o \in Seq(LocalKind), kind \in LocalKind \ ScopedOps : T[pos].open = Append(o, kind)
  <2>1. CASE ThisVisit.node = "LOOP_BODY"
    <3> DEFINE kind == "LOOP"
    <3>1. kind \in LocalKind \ ScopedOps
      BY DEF LocalKind, ScopedOps
    <3>2. PICK o \in Seq(LocalKind) : T[pos].open = Append(o, kind)
      BY <1>2, <2>1 DEF Here, TraceStep, Opened
    <3> QED
      BY <3>1, <3>2
  <2>2. CASE ThisVisit.node \in {"IF_END", "LOOP_END"}
    <3> DEFINE kind == KindOf(ThisVisit.node)
               o == T[pos + 1].open
    <3>1. kind \in LocalKind \ ScopedOps
      BY <2>2 DEF KindOf, LocalKind, ScopedOps
    <3>2. ThisVisit.node \in Closing
      BY <2>2 DEF Closing
    <3>3. T[pos].open = Append(o, kind) /\ o \in Seq(LocalKind)
      BY <1>2, <3>2 DEF Here, TraceStep, Opened, Stacks
    <3> QED
      BY <3>1, <3>3
  <2> QED
    BY <1>1, <2>1, <2>2
<1>4. Locals(blocks, locals, Append(o, kind))
  BY <1>2, <1>3 DEF Here, Follows, Emitting
<1> QED
  BY <1>3, <1>4, TopLocal

LEMMA BranchesFit ==
    ASSUME NEW x, x.type = "int"
    PROVE  /\ \A y, z : OperandsFit(CondBr(x, y, z))
           /\ \A y : OperandsFit(Br(y))
<1>1. LLVMType(x) = "i32" /\ LLVMType(const_zero) = "i32"
  BY ConstantTypes
<1>2. ASSUME NEW y, NEW z PROVE OperandsFit(CondBr(x, y, z))
  <2> DEFINE to == <<y, z>>
             what == "cond_br"
             zero == const_zero
             S == Signature[what]
  <2>1. S[1] = "i32" /\ S[2] = "i32" /\ LLVMType(zero) = "i32"
    BY <1>1, Signatures
  <2> HIDE DEF to, what, zero
  <2>2. \A u, v : OperandsFit(Op(what, NoText, <<u, v>>, to)) <=>
            S[1] \in {"any", LLVMType(u)} /\ S[2] \in {"any", LLVMType(v)}
    BY FitsOperands
  <2>3. OperandsFit(Op(what, NoText, <<x, zero>>, to)) <=>
            S[1] \in {"any", LLVMType(x)} /\ S[2] \in {"any", LLVMType(zero)}
    BY <2>2
  <2>4. OperandsFit(Op(what, NoText, <<x, zero>>, to))
    BY <1>1, <2>1, <2>3
  <2> QED
    BY <2>4 DEF CondBr, to, what, zero
<1>3. ASSUME NEW y PROVE OperandsFit(Br(y))
  <2> DEFINE to == <<y>>
  <2>1. OperandsFit(Op("br", NoText, <<>>, to))
    BY FitsOperands
  <2> QED
    BY <2>1 DEF Br
<1> QED
  BY <1>2, <1>3

LEMMA BranchVisitsFit ==
    ASSUME FitReady, FitInv, GenIF_BLOCK \/ GenLOOP_BLOCK \/ GenLoopBody \/ GenEndIF_BLOCK \/ GenEndLOOP_BLOCK
    PROVE  FitInv'
<1> DEFINE n == Len(blocks)
           two == 2
           three == 3
           zero == 0
           l == Top(locals)
<1>0. two \in Nat /\ three \in Nat /\ zero \in Nat
  OBVIOUS
<1>1. CASE GenIF_BLOCK
  <2> DEFINE op == CondBr(TopValue, n + 1, n + 2)
  <2>1. Visiting({"IF_BODY"}) /\ blocks' = BranchTo(op, two) /\ pos' = pos + 1 /\ codegen' = codegen
    BY <1>1 DEF GenIF_BLOCK, Advance
  <2>2. /\ EmitInv /\ codegen = "emitting" /\ n \in Nat /\ ThisVisit.node \in {"IF_BODY"}
    BY <2>1, FitStep
  <2>3. Arity(ThisVisit.node) = 1 /\ ThisVisit.node \in Tests
    BY <2>2 DEF Arity, Tests, Ops, ScopedOps
  <2>4. TopValue \in Arg /\ TopValue.type = "int"
    BY <2>1, <2>3, OneOperand
  <2>5. op \in Operation /\ OperandsFit(op)
    BY <2>2, <2>4, TerminatorIsOperation, BranchesFit
  <2> HIDE DEF op, two
  <2> QED
    BY <1>0, <2>1, <2>2, <2>5, BranchFits
<1>2. CASE GenLOOP_BLOCK
  <2> DEFINE op == Br(n + 1)
  <2>1. Visiting({"LOOP"}) /\ blocks' = BranchTo(op, three) /\ pos' = pos + 1 /\ codegen' = codegen
    BY <1>2 DEF GenLOOP_BLOCK, Advance
  <2>2. /\ EmitInv /\ codegen = "emitting" /\ n \in Nat /\ ThisVisit.node \in {"LOOP"} /\ const_zero \in Arg
        /\ const_zero.type = "int"
    BY <2>1, FitStep DEF const_zero
  <2>5. op \in Operation /\ OperandsFit(op)
    BY <2>2, TerminatorIsOperation, BranchesFit
  <2> HIDE DEF op, three
  <2> QED
    BY <1>0, <2>1, <2>2, <2>5, BranchFits
<1>3. CASE GenLoopBody
  <2> DEFINE op == CondBr(TopValue, l.body, l.merge)
  <2>1. Visiting({"LOOP_BODY"}) /\ blocks' = BranchTo(op, zero) /\ pos' = pos + 1 /\ codegen' = codegen
    BY <1>3 DEF GenLoopBody, Advance
  <2>2. /\ EmitInv /\ codegen = "emitting" /\ ThisVisit.node \in {"LOOP_BODY"}
    BY <2>1, FitStep
  <2>3. Arity(ThisVisit.node) = 1 /\ ThisVisit.node \in Tests
        /\ Visiting({"LOOP_BODY", "IF_END", "LOOP_END"})
    BY <2>1, <2>2 DEF Arity, Tests, Ops, ScopedOps, Visiting
  <2>4. TopValue \in Arg /\ TopValue.type = "int"
    BY <2>1, <2>3, OneOperand
  <2>5. l.body \in Nat /\ l.merge \in Nat
    BY <2>3, TopOfBranch
  <2> HIDE DEF l
  <2>6. op \in Operation /\ OperandsFit(op)
    BY <2>4, <2>5, TerminatorIsOperation, BranchesFit
  <2> HIDE DEF op, zero
  <2> QED
    BY <1>0, <2>1, <2>2, <2>6, BranchFits
<1>4. CASE GenEndIF_BLOCK
  <2> DEFINE op == Br(l.merge)
  <2>1. Visiting({"IF_END"}) /\ blocks' = BranchTo(op, zero) /\ pos' = pos + 1 /\ codegen' = codegen
    BY <1>4 DEF GenEndIF_BLOCK, Advance
  <2>2. /\ EmitInv /\ codegen = "emitting" /\ ThisVisit.node \in {"IF_END"} /\ const_zero \in Arg
        /\ const_zero.type = "int"
    BY <2>1, FitStep DEF const_zero
  <2>3. l.merge \in Nat
    BY <2>1, TopOfBranch DEF Visiting
  <2> HIDE DEF l
  <2>4. op \in Operation /\ OperandsFit(op)
    BY <2>2, <2>3, TerminatorIsOperation, BranchesFit
  <2> HIDE DEF op, zero
  <2> QED
    BY <1>0, <2>1, <2>2, <2>4, BranchFits
<1>5. CASE GenEndLOOP_BLOCK
  <2> DEFINE op == Br(l.header)
  <2>1. Visiting({"LOOP_END"}) /\ blocks' = BranchTo(op, zero) /\ pos' = pos + 1 /\ codegen' = codegen
    BY <1>5 DEF GenEndLOOP_BLOCK, Advance
  <2>2. /\ EmitInv /\ codegen = "emitting" /\ ThisVisit.node \in {"LOOP_END"} /\ const_zero \in Arg
        /\ const_zero.type = "int"
    BY <2>1, FitStep DEF const_zero
  <2>3. l.header \in Nat
    BY <2>1, TopOfBranch DEF Visiting
  <2> HIDE DEF l
  <2>4. op \in Operation /\ OperandsFit(op)
    BY <2>2, <2>3, TerminatorIsOperation, BranchesFit
  <2> HIDE DEF op, zero
  <2> QED
    BY <1>0, <2>1, <2>2, <2>4, BranchFits
<1> QED
  BY <1>1, <1>2, <1>3, <1>4, <1>5

\* Operations with one, two and three operands, when these have the right types.
LEMMA OneFits ==
    ASSUME NEW op, NEW text, NEW to, NEW x, Signature[op][1] \in {"any", LLVMType(x)}
    PROVE  OperandsFit(Op(op, text, <<x>>, to))
<1>1. \A u : OperandsFit(Op(op, text, <<u>>, to)) <=> Signature[op][1] \in {"any", LLVMType(u)}
  BY FitsOperands
<1> QED
  BY <1>1

LEMMA TwoFit ==
    ASSUME NEW op, NEW text, NEW to, NEW x, NEW y, Signature[op][1] \in {"any", LLVMType(x)},
           Signature[op][2] \in {"any", LLVMType(y)}
    PROVE  OperandsFit(Op(op, text, <<x, y>>, to))
<1>1. \A u, v : OperandsFit(Op(op, text, <<u, v>>, to)) <=>
          Signature[op][1] \in {"any", LLVMType(u)} /\ Signature[op][2] \in {"any", LLVMType(v)}
  BY FitsOperands
<1> QED
  BY <1>1

LEMMA ThreeFit ==
    ASSUME NEW op, NEW text, NEW to, NEW x, NEW y, NEW z, Signature[op][1] \in {"any", LLVMType(x)},
           Signature[op][2] \in {"any", LLVMType(y)}, Signature[op][3] \in {"any", LLVMType(z)}
    PROVE  OperandsFit(Op(op, text, <<x, y, z>>, to))
<1>1. \A u, v, w : OperandsFit(Op(op, text, <<u, v, w>>, to)) <=>
          /\ Signature[op][1] \in {"any", LLVMType(u)} /\ Signature[op][2] \in {"any", LLVMType(v)}
          /\ Signature[op][3] \in {"any", LLVMType(w)}
  BY FitsOperands
<1> QED
  BY <1>1

LEMMA GenBLOCKFits == ASSUME FitReady, FitInv, GenBLOCK PROVE FitInv'
<1>1. Visiting({"BLOCK", "BLOCK_END"}) /\ pos' = pos + 1 /\ blocks' = blocks /\ codegen' = codegen
  BY DEF GenBLOCK, Advance
<1>2. codegen = "emitting" /\ ThisVisit.node # "FILTER_END"
  BY <1>1 DEF Visiting
<1>3. AllFit(blocks') <=> AllFit(blocks)
  BY <1>1
<1> QED
  BY <1>1, <1>2, <1>3, FitKept

LEMMA GenDECLFits == ASSUME FitReady, FitInv, GenDECL PROVE FitInv'
<1>1. /\ Visiting({"DECL"}) /\ pos' = pos + 1 /\ blocks' = InsertOps(blocks, ip, <<Alloca>>)
      /\ codegen' = codegen
  BY DEF GenDECL, Advance, Emit
<1>2. codegen = "emitting" /\ ThisVisit.node # "FILTER_END"
  BY <1>1 DEF Visiting
<1>3. OperandsFit(Alloca)
  <2>1. Signature["alloca"][1] \in {"any", LLVMType(const_one)}
    BY Signatures, ConstantTypes
  <2> QED
    BY <2>1, OneFits DEF Alloca
<1> QED
  BY <1>1, <1>2, <1>3, AllocaIsOperation, EmitOneFits

\* The storage of a variable is an address.
LEMMA StoragePointer ==
    ASSUME EmitInv, NEW v \in DOMAIN storage
    PROVE  storage[v] \in Arg /\ LLVMType(storage[v]) = "ptr"
<1>1. storage[v].type = "address"
  BY DEF EmitInv, StorageTyped, Address
<1> QED
  BY <1>1, OperandsAreArgs, ConstantTypes

LEMMA GenASSIGNFits == ASSUME FitReady, FitInv, GenASSIGN PROVE FitInv'
<1> DEFINE symbol == CgSymbol(ThisVisit.text)
           op == "store"
           store == Op(op, NoText, <<TopValue, storage[symbol]>>, <<>>)
<1>1. Visiting({"ASSIGN"}) /\ codegen = "emitting" /\ ThisVisit.node = "ASSIGN"
  BY DEF GenASSIGN, Visiting
<1>2. CASE symbol \notin DOMAIN storage
  <2>1. codegen' = "crashed"
    BY <1>2 DEF GenASSIGN, CrashCodegen
  <2> QED
    BY <2>1 DEF FitInv
<1>3. CASE symbol \in DOMAIN storage
  <2>1. blocks' = InsertOps(blocks, ip, <<store>>) /\ pos' = pos + 1 /\ codegen' = "emitting"
    BY <1>1, <1>3 DEF GenASSIGN, Advance, Emit
  <2>2. Arity(ThisVisit.node) = 1
    BY <1>1 DEF Arity, Ops, ScopedOps
  <2>3. TopValue \in Arg /\ EmitInv
    BY <1>1, <2>2, OneOperand
  <2>4. storage[symbol] \in Arg /\ LLVMType(storage[symbol]) = "ptr"
    BY <1>3, <2>3, StoragePointer
  <2>5. op \in Operations /\ op \notin Terminators /\ NoText \in Text
        /\ Signature[op][1] = "any" /\ Signature[op][2] = "ptr"
    BY Signatures DEF Operations, Terminators, Text
  <2> HIDE DEF op, symbol
  <2>6. store \in Operation
    BY <2>3, <2>4, <2>5, TwoArguments
  <2>7. OperandsFit(store)
    BY <2>4, <2>5, TwoFit
  <2> HIDE DEF store
  <2> QED
    BY <1>1, <2>1, <2>6, <2>7, EmitOneFits
<1> QED
  BY <1>2, <1>3

LEMMA GenPRINTFits == ASSUME FitReady, FitInv, GenPRINT PROVE FitInv'
<1> DEFINE callee == IF ThisVisit.refs[1] = "int" THEN "printf" ELSE "print_vector"
           print == Op(callee, NoText, <<TopValue>>, <<>>)
<1>1. /\ Visiting({"PRINT"}) /\ ThisVisit.node = "PRINT" /\ blocks' = InsertOps(blocks, ip, <<print>>)
      /\ pos' = pos + 1 /\ codegen' = "emitting"
  BY DEF GenPRINT, Visiting, Advance, Emit
<1>2. Arity(ThisVisit.node) = 1
  BY <1>1 DEF Arity, Ops, ScopedOps
<1>3. TopValue \in Arg /\ TopValue.type \in Type /\ ThisVisit.refs = <<TopValue.type>>
  BY <1>1, <1>2, OneOperand
<1>4. ThisVisit.refs[1] = TopValue.type
  <2> DEFINE t == TopValue.type
  <2>1. <<t>>[1] = t
    OBVIOUS
  <2> QED
    BY <1>3, <2>1
<1>5. callee \in Operations /\ NoText \in Text /\ callee \notin Terminators
      /\ Signature[callee][1] \in {"any", LLVMType(TopValue)}
  <2>1. CASE TopValue.type = "int"
    BY <1>4, <2>1, Signatures DEF Operations, Terminators, Text
  <2>2. CASE TopValue.type = "vector"
    <3>1. LLVMType(TopValue) = "ptr" /\ callee = "print_vector"
      BY <1>4, <2>2, ConstantTypes
    <3> QED
      BY <3>1, Signatures DEF Operations, Terminators, Text
  <2> QED
    BY <1>3, <2>1, <2>2 DEF Type
<1> HIDE DEF callee
<1>6. OperandsFit(print)
  BY <1>5, OneFits
<1>7. print \in Operation
  <2> DEFINE args == <<TopValue>>
             none == <<>>
  <2>1. args \in Seq(Arg) /\ none \in Seq(Nat)
    BY <1>3
  <2> HIDE DEF args, none
  <2>2. Op(callee, NoText, args, none) \in Operation
    BY <1>5, <2>1, AnOperation
  <2> QED
    BY <2>2 DEF args, none
<1> HIDE DEF print
<1> QED
  BY <1>1, <1>6, <1>7, EmitOneFits

LEMMA GenIDFits == ASSUME FitReady, FitInv, GenID PROVE FitInv'
<1> DEFINE symbol == CgSymbol(ThisVisit.text)
           type == ResolvedSymbol(scopes, cg_scope, ThisVisit.text).type
           op == "load"
           args == <<storage[symbol]>>
           none == <<>>
           load == Op(op, type, args, none)
<1>1. Visiting({"ID"}) /\ codegen = "emitting" /\ ThisVisit.node = "ID" /\ EmitInv /\ codegen # "idle"
  BY FitStep DEF GenID, Visiting, FitReady
<1>2. CASE symbol \notin DOMAIN storage
  <2>1. codegen' = "crashed"
    BY <1>2 DEF GenID, CrashCodegen
  <2> QED
    BY <2>1 DEF FitInv
<1>3. CASE symbol \in DOMAIN storage
  <2>1. blocks' = InsertOps(blocks, ip, <<load>>) /\ pos' = pos + 1 /\ codegen' = "emitting"
    BY <1>1, <1>3 DEF GenID, Advance, Emit
  <2>2. type \in Type
    <3>1. pos \in Nat \ {0} /\ DefRefInv /\ VisitsInv /\ ReplayInv
      BY DEF FitReady, ReplayInv
    <3>2. PICK T : Here(T)
      BY <1>1, <3>1, AtVisit
    <3> QED
      BY <1>1, <1>3, <3>1, <3>2, TypeOfID DEF HasStorage
  <2> HIDE DEF type
  <2>3. storage[symbol] \in Arg /\ LLVMType(storage[symbol]) = "ptr"
    BY <1>1, <1>3, StoragePointer
  <2>4. op \in Operations /\ type \in Text \cup Type \cup Ops /\ Signature[op][1] = "ptr"
    BY <2>2, Signatures DEF Operations, Terminators
  <2> HIDE DEF op, symbol
  <2>5. args \in Seq(Arg) /\ none \in Seq(Nat)
    BY <2>3
  <2>6. OperandsFit(Op(op, type, <<storage[symbol]>>, none))
    <3> HIDE DEF none
    <3> QED
      BY <2>3, <2>4, OneFits
  <2>7. OperandsFit(load)
    BY <2>6
  <2> HIDE DEF args, none
  <2>8. load \in Operation
    BY <2>4, <2>5, AnOperation
  <2> HIDE DEF load
  <2> QED
    BY <1>1, <2>1, <2>7, <2>8, EmitOneFits
<1> QED
  BY <1>2, <1>3

LEMMA GenINTFits == ASSUME FitReady, FitInv, GenINT PROVE FitInv'
<1> DEFINE text == ThisVisit.text
           op == "constant"
           none == <<>>
           constant == Op(op, text, none, none)
<1>1. Visiting({"INT"}) /\ codegen = "emitting" /\ ThisVisit.node = "INT" /\ pos \in DOMAIN ast
      /\ ThisVisit = ast[pos]
  BY FitStep DEF GenINT, Visiting
<1>2. CASE text \notin IntLiteral
  <2>1. codegen' = "threw"
    BY <1>2 DEF GenINT, CrashCodegen
  <2> QED
    BY <2>1 DEF FitInv
<1>3. CASE text \in IntLiteral
  <2>1. blocks' = InsertOps(blocks, ip, <<constant>>) /\ pos' = pos + 1 /\ codegen' = "emitting"
    BY <1>1, <1>3 DEF GenINT, Advance, Emit
  <2>2. op \in Operations /\ text \in Text \cup Type \cup Ops
    <3>1. ThisVisit \in Visit
      BY <1>1 DEF FitReady, DefRefInv
    <3> QED
      BY <3>1 DEF Operations, Terminators, Visit
  <2>3. none \in Seq(Arg) /\ none \in Seq(Nat)
    OBVIOUS
  <2>4. OperandsFit(constant)
    BY FitsOperands
  <2> HIDE DEF op, text, none
  <2>5. constant \in Operation
    BY <2>2, <2>3, AnOperation
  <2> HIDE DEF constant
  <2> QED
    BY <1>1, <2>1, <2>4, <2>5, EmitOneFits
<1> QED
  BY <1>2, <1>3

LEMMA FewFit ==
    /\ \A x : OperandsFit(x) => Fitting(<<x>>)
    /\ \A x, y : OperandsFit(x) /\ OperandsFit(y) => Fitting(<<x, y>>)
    /\ \A x, y, z : OperandsFit(x) /\ OperandsFit(y) /\ OperandsFit(z) => Fitting(<<x, y, z>>)
<1>1. ASSUME NEW x, OperandsFit(x) PROVE Fitting(<<x>>)
  BY <1>1, OneFitting
<1>2. ASSUME NEW x, NEW y, OperandsFit(x), OperandsFit(y) PROVE Fitting(<<x, y>>)
  <2> DEFINE ops == <<x, y>>
  <2>1. DOMAIN ops = {1, 2} /\ ops[1] = x /\ ops[2] = y
    OBVIOUS
  <2> HIDE DEF ops
  <2>2. Fitting(ops)
    BY <1>2, <2>1 DEF Fitting
  <2> QED
    BY <2>2 DEF ops
<1>3. ASSUME NEW x, NEW y, NEW z, OperandsFit(x), OperandsFit(y), OperandsFit(z) PROVE Fitting(<<x, y, z>>)
  <2> DEFINE ops == <<x, y, z>>
  <2>1. DOMAIN ops = {1, 2, 3} /\ ops[1] = x /\ ops[2] = y /\ ops[3] = z
    OBVIOUS
  <2> HIDE DEF ops
  <2>2. Fitting(ops)
    BY <1>3, <2>1 DEF Fitting
  <2> QED
    BY <2>2 DEF ops
<1> QED
  BY <1>1, <1>2, <1>3

\* The calls of an operation, on operands of the types of its references.
LEMMA CallsFit ==
    ASSUME NEW op \in Ops, NEW l \in Type, NEW r \in Type, NEW left, NEW right,
           left.type = l, right.type = r, op = "DOTS" => l = "int" /\ r = "int",
           op = "INDEX" => l = "vector"
    PROVE  Fitting(Calls(op, l, r, left, right))
<1> DEFINE int == IF l = "int" THEN left ELSE right
           vector == IF l = "int" THEN right ELSE left
           promoted == ResultAt(ip, 2, "vector")
           callee == Callee(op, l, r)
           size == Op("size", NoText, <<vector>>, <<>>)
           convert == Op("int_to_vector", NoText, <<Result("int"), int>>, <<>>)
           call == Op(callee, op, IF l = "int" THEN <<promoted, vector>>
                                                         ELSE <<vector, promoted>>, <<>>)
           direct == Op(callee, op, <<left, right>>, <<>>)
           ops == Calls(op, l, r, left, right)
           mixed == op \in {"ARITH", "BOOL"} /\ l # r
<1>1. ops = IF mixed THEN <<size, convert, call>> ELSE <<direct>>
  BY DEF Calls
<1>2. /\ l = "int" => LLVMType(left) = "i32"
      /\ l = "vector" => LLVMType(left) = "ptr"
      /\ r = "int" => LLVMType(right) = "i32"
      /\ r = "vector" => LLVMType(right) = "ptr"
      /\ LLVMType(promoted) = "ptr" /\ LLVMType(Result("int")) = "i32"
  BY ConstantTypes DEF Result
<1>3. (l = "int" \/ l = "vector") /\ (r = "int" \/ r = "vector")
  BY DEF Type
<1>4. CASE mixed
  <2>1. LLVMType(int) = "i32" /\ LLVMType(vector) = "ptr" /\ callee = "vector_op"
    BY <1>2, <1>3, <1>4 DEF Callee
  <2> HIDE DEF int, vector, promoted
  <2>2. /\ Signature["size"][1] = "ptr"
        /\ Signature["int_to_vector"][1] = "i32" /\ Signature["int_to_vector"][2] = "i32"
        /\ Signature[callee][1] = "ptr" /\ Signature[callee][2] = "ptr"
    BY <2>1, Signatures
  <2> HIDE DEF callee
  <2>3. OperandsFit(size)
    BY <2>1, <2>2, OneFits
  <2>4. OperandsFit(convert)
    BY <1>2, <2>1, <2>2, TwoFit
  <2>5. OperandsFit(call)
    <3>1. OperandsFit(Op(callee, op, <<promoted, vector>>, <<>>))
      BY <1>2, <2>1, <2>2, TwoFit
    <3>2. OperandsFit(Op(callee, op, <<vector, promoted>>, <<>>))
      BY <1>2, <2>1, <2>2, TwoFit
    <3> QED
      BY <3>1, <3>2
  <2> HIDE DEF size, convert, call
  <2>6. Fitting(<<size, convert, call>>)
    BY <2>3, <2>4, <2>5, FewFit
  <2> HIDE DEF ops, direct, mixed
  <2> QED
    BY <1>1, <1>4, <2>6 DEF ops
<1>5. CASE ~mixed
  <2>1. Signature[callee][1] = LLVMType(left) /\ Signature[callee][2] = LLVMType(right)
    <3>1. CASE op = "DOTS"
      BY <1>2, <3>1, Signatures DEF Callee
    <3>2. CASE op = "INDEX"
      BY <1>2, <1>3, <3>2, Signatures DEF Callee
    <3>3. CASE op \in {"ARITH", "BOOL"}
      <4>1. l = r /\ callee = IF l = "int" THEN "int_op" ELSE "vector_op"
        BY <1>5, <3>3 DEF Callee
      <4> QED
        BY <1>2, <1>3, <4>1, Signatures
    <3> QED
      BY <3>1, <3>2, <3>3 DEF Ops
  <2> HIDE DEF callee
  <2>2. OperandsFit(direct)
    BY <2>1, TwoFit
  <2> HIDE DEF size, convert, call, direct
  <2>3. Fitting(<<direct>>)
    BY <2>2, FewFit
  <2> HIDE DEF ops, mixed
  <2> QED
    BY <1>1, <1>5, <2>3 DEF ops
<1> QED
  BY <1>4, <1>5

LEMMA TwoOperands ==
    ASSUME FitReady, Visiting(Ops)
    PROVE  /\ TopValue \in Arg /\ opperands[Len(opperands) - 1] \in Arg
           /\ ThisVisit.refs[1] \in Type /\ ThisVisit.refs[2] \in Type
           /\ TopValue.type = ThisVisit.refs[2]
           /\ opperands[Len(opperands) - 1].type = ThisVisit.refs[1] /\ Referred(ThisVisit)
<1>1. DefRefInv /\ EmitInv /\ pos \in Nat \ {0} /\ codegen # "idle" /\ ThisVisit.node \in Ops
  BY DEF FitReady, ReplayInv, Visiting
<1>2. PICK T : Here(T)
  BY <1>1, AtVisit
<1>3. opperands \in Seq(Value(blocks))
  BY <1>1 DEF EmitInv
<1>4. Arity(ThisVisit.node) = 2 /\ ThisVisit.node # "DECL"
  BY <1>1 DEF Arity, Ops
<1>5. /\ Consumed(ThisVisit) \in Seq(Type) /\ Consumed(ThisVisit) = ThisVisit.refs
      /\ Matching(opperands, T[pos].refs)
  BY <1>2, <1>4, OperandsHere
<1>6. Len(Consumed(ThisVisit)) = 2 /\ T[pos] \in Stacks /\ T[pos + 1] \in Stacks
      /\ TraceStep(ast, pos, T[pos], T[pos + 1]) /\ ThisVisit = ast[pos]
  BY <1>2, <1>4 DEF Here, TraceStep
<1>7. /\ Len(opperands) >= 2 /\ Top(opperands).type = Consumed(ThisVisit)[2]
      /\ opperands[Len(opperands) - 1].type = Consumed(ThisVisit)[1]
  <2> DEFINE s == T[pos]
             t == T[pos + 1]
  <2>1. /\ TraceStep(ast, pos, s, t) /\ s \in Stacks /\ t \in Stacks /\ Matching(opperands, s.refs)
        /\ Consumed(ast[pos]) \in Seq(Type) /\ Arity(ast[pos].node) = 2
    BY <1>4, <1>5, <1>6
  <2> HIDE DEF s, t
  <2>2. /\ Len(opperands) >= 2 /\ Top(opperands).type = Consumed(ast[pos])[2]
        /\ opperands[Len(opperands) - 1].type = Consumed(ast[pos])[1]
    BY <1>3, <2>1, OperandsTaken
  <2> QED
    BY <1>6, <2>2
<1>8. TopValue \in Value(blocks) /\ opperands[Len(opperands) - 1] \in Value(blocks)
  <2>1. Len(opperands) \in Nat /\ Len(opperands) - 1 \in 1..Len(opperands)
        /\ Len(opperands) \in 1..Len(opperands)
    BY <1>3, <1>7
  <2> QED
    BY <1>3, <2>1 DEF TopValue, Top
<1>9. ThisVisit.refs[1] \in Type /\ ThisVisit.refs[2] \in Type
  BY <1>5, <1>6
<1>10. Referred(ThisVisit)
  BY <1>2 DEF Here, FitReady, RefsOK
<1> QED
  BY <1>1, <1>5, <1>7, <1>8, <1>9, <1>10, OperandsAreArgs DEF TopValue

LEMMA GenOpFits == ASSUME FitReady, FitInv, GenOp PROVE FitInv'
<1> DEFINE right == TopValue
           left == opperands[Len(opperands) - 1]
           op == ThisVisit.node
           l == ThisVisit.refs[1]
           r == ThisVisit.refs[2]
           ops == Calls(op, l, r, left, right)
<1>1. /\ Visiting(Ops) /\ op \in Ops /\ EmitInv /\ codegen # "idle"
      /\ blocks' = InsertOps(blocks, ip, ops) /\ pos' = pos + 1 /\ codegen' = "emitting"
  BY DEF GenOp, FitReady, Visiting, Advance, Emit
<1>2. /\ left \in Arg /\ right \in Arg /\ l \in Type /\ r \in Type /\ right.type = r /\ left.type = l
      /\ Referred(ThisVisit)
  BY <1>1, TwoOperands
<1>3. (op = "DOTS" => l = "int" /\ r = "int") /\ (op = "INDEX" => l = "vector")
  <2>1. <<"int", "int">>[1] = "int" /\ <<"int", "int">>[2] = "int"
    OBVIOUS
  <2> QED
    BY <1>2, <2>1 DEF Referred
<1>4. op # "FILTER_END"
  BY <1>1 DEF Ops
<1> HIDE DEF left, right, l, r
<1>5. ops \in Seq(Operation)
  BY <1>1, <1>2, CallsAreStraight
<1>6. Fitting(ops)
  BY <1>1, <1>2, <1>3, CallsFit
<1> HIDE DEF ops
<1> QED
  BY <1>1, <1>4, <1>5, <1>6, EmitFits

LEMMA ConcatenatedFits ==
    ASSUME NEW S, NEW ops \in Seq(S), NEW more \in Seq(S), Fitting(ops), Fitting(more)
    PROVE  Fitting(ops \o more)
<1> DEFINE all == ops \o more
           m == Len(ops)
           n == Len(more)
<1>1. /\ all \in Seq(S) /\ Len(all) = m + n
      /\ \A i \in 1..m : all[i] = ops[i]
      /\ \A i \in 1..n : all[m + i] = more[i]
  BY Concatenated
<1>2. m \in Nat /\ n \in Nat /\ DOMAIN ops = 1..m /\ DOMAIN more = 1..n
  OBVIOUS
<1> HIDE DEF all, m, n
<1>3. ASSUME NEW i \in DOMAIN all PROVE OperandsFit(all[i])
  <2> DEFINE k == i - m
  <2>1. i \in 1..m \/ k \in 1..n
    BY <1>1, <1>2
  <2>2. i \in Nat /\ m + k = i
    BY <1>1, <1>2
  <2> HIDE DEF k
  <2> QED
    BY <1>1, <1>2, <2>1, <2>2 DEF Fitting
<1> QED
  BY <1>3 DEF Fitting, all

LEMMA AheadFits ==
    ASSUME NEW node, NEW domain, domain.type = "vector", NEW region
    PROVE  Fitting(AheadOfLoop(node, domain, region))
<1> DEFINE size == ResultAt(ip, 2, "int")
           result == ResultAt(ip, 3, "vector")
           measure == Op("size", NoText, <<domain>>, <<>>)
           allocate == Op("new_vector", NoText, <<size>>, <<>>)
           three == <<Alloca, measure, allocate>>
           empty == Op("empty", NoText, <<result, const_zero>>, <<>>)
           reset == IF node = "FILTER" THEN <<empty>> ELSE <<>>
           to == <<region>>
           for == Op("for", NoText, <<const_zero, size, const_one>>, to)
           loop == <<for>>
           Q == {Alloca, measure, allocate, empty, for}
<1>1. AheadOfLoop(node, domain, region) = (three \o reset) \o loop
  BY DEF AheadOfLoop
<1>2. /\ LLVMType(size) = "i32" /\ LLVMType(result) = "ptr" /\ LLVMType(const_zero) = "i32"
      /\ LLVMType(const_one) = "i32" /\ LLVMType(domain) = "ptr"
  BY ConstantTypes
<1> HIDE DEF size, result, to
<1>3. /\ Signature["alloca"][1] = "i32" /\ Signature["size"][1] = "ptr" /\ Signature["new_vector"][1] = "i32"
      /\ Signature["empty"][1] = "ptr" /\ Signature["empty"][2] = "i32"
      /\ Signature["for"][1] = "i32" /\ Signature["for"][2] = "i32" /\ Signature["for"][3] = "i32"
  BY Signatures
<1>4. OperandsFit(Alloca)
  BY <1>2, <1>3, OneFits DEF Alloca
<1>5. OperandsFit(measure)
  BY <1>2, <1>3, OneFits
<1>6. OperandsFit(allocate)
  BY <1>2, <1>3, OneFits
<1>7. OperandsFit(empty)
  BY <1>2, <1>3, TwoFit
<1>8. OperandsFit(for)
  BY <1>2, <1>3, ThreeFit
<1> HIDE DEF measure, allocate, empty, for
<1>9. Fitting(three)
  BY <1>4, <1>5, <1>6, FewFit
<1>10. Fitting(reset)
  <2>1. Fitting(<<empty>>)
    BY <1>7, FewFit
  <2>2. Fitting(<<>>)
    BY DEF Fitting
  <2> QED
    BY <2>1, <2>2
<1>11. Fitting(loop)
  BY <1>8, FewFit
<1>12. three \in Seq(Q) /\ reset \in Seq(Q) /\ loop \in Seq(Q)
  <2>1. {Alloca, measure, allocate, empty, for} \subseteq Q
    OBVIOUS
  <2> HIDE DEF Q
  <2>2. three \in Seq(Q)
    BY <2>1
  <2>3. reset \in Seq(Q)
    BY <2>1
  <2>4. loop \in Seq(Q)
    BY <2>1
  <2> QED
    BY <2>2, <2>3, <2>4
<1> HIDE DEF Q, three, reset, loop
<1>13. three \o reset \in Seq(Q) /\ Fitting(three \o reset)
  BY <1>9, <1>10, <1>12, Concatenated, ConcatenatedFits
<1>14. Fitting((three \o reset) \o loop)
  BY <1>11, <1>12, <1>13, ConcatenatedFits
<1> QED
  BY <1>1, <1>14

LEMMA IteratorFits ==
    ASSUME NEW domain, domain.type = "vector", NEW region
    PROVE  Fitting(SetIterator(domain, region))
<1> DEFINE element == ResultAt(StartOf(region), 1, "int")
           iterator == Result("address")
           var == InductionVar(region)
           read == Op("vector_index", NoText, <<domain, var>>, <<>>)
           write == Op("store", NoText, <<element, iterator>>, <<>>)
<1>1. SetIterator(domain, region) = <<read, write>>
  BY DEF SetIterator
<1>2. LLVMType(domain) = "ptr" /\ LLVMType(var) = "i32" /\ LLVMType(iterator) = "ptr"
  BY ConstantTypes DEF Result
<1>3. /\ Signature["vector_index"][1] = "ptr" /\ Signature["vector_index"][2] = "i32"
      /\ Signature["store"][1] = "any" /\ Signature["store"][2] = "ptr"
  BY Signatures
<1> HIDE DEF element, iterator, var
<1>4. OperandsFit(read)
  BY <1>2, <1>3, TwoFit
<1>5. OperandsFit(write)
  BY <1>2, <1>3, TwoFit
<1> HIDE DEF read, write
<1> QED
  BY <1>1, <1>4, <1>5, FewFit

LEMMA ScopedBlocksFit ==
    ASSUME EmitInv, codegen # "idle", NEW region, region = Len(blocks) + 1,
           NEW ahead \in Seq(Operation), Fitting(ahead), NEW inside \in Seq(Operation), Fitting(inside)
    PROVE  AllFit(ScopedBlocks(region, ahead, inside)) <=> AllFit(blocks)
<1> DEFINE c == ip.block
           within == blocks[c].within \cup {c}
           yield == Op("yield", NoText, <<>>, <<>>)
           body == <<yield>>
           block == Block(body, within)
           mid == InsertOps(blocks, ip, ahead)
           more == Append(mid, block)
           p == StartOf(region)
<1>1. /\ c \in DOMAIN blocks /\ ip.at \in Nat /\ ip.at \in 0..Len(blocks[c].body) /\ BlocksTyped(blocks)
      /\ blocks \in Seq(BlockRecord) /\ DOMAIN blocks = 1..Len(blocks) /\ Len(blocks) \in Nat
  BY PlaceTyped
<1>2. AllFit(mid) <=> AllFit(blocks)
  BY <1>1, FittingInserted
<1>3. /\ BlocksTyped(mid) /\ Len(mid) = Len(blocks) /\ DOMAIN mid = DOMAIN blocks
      /\ mid[c].within = blocks[c].within
  BY <1>1, OpsInserted
<1> HIDE DEF mid
<1>4. body \in Seq(Operation) /\ Fitting(body)
  <2>1. yield \in Operation /\ OperandsFit(yield)
    BY YieldIsOperation, FitsOperands
  <2> HIDE DEF yield
  <2> QED
    BY <2>1, FewFit
<1> HIDE DEF body
<1>5. within \in SUBSET DOMAIN blocks /\ within \in SUBSET Nat
  BY <1>1 DEF BlocksTyped
<1> HIDE DEF within
<1>6. block \in BlockRecord /\ block.within = within /\ block.body = body
  BY <1>4, <1>5 DEF Block, BlockRecord
<1> HIDE DEF block, yield
<1>7. mid \in Seq(BlockRecord)
  BY <1>3 DEF BlocksTyped
<1>8. AllFit(more) <=> AllFit(mid)
  BY <1>4, <1>6, <1>7, FittingAppended
<1>9. /\ more \in Seq(BlockRecord) /\ DOMAIN more = DOMAIN blocks \cup {region} /\ more[region] = block
      /\ \A b \in DOMAIN blocks : more[b] = mid[b]
  BY <1>3, <1>6, <1>7, Appended
<1> HIDE DEF more
<1>10. BlocksTyped(more)
  <2>1. ASSUME NEW b \in DOMAIN more PROVE more[b].within \subseteq DOMAIN more
    <3>1. CASE b \in DOMAIN blocks
      BY <1>3, <1>9, <3>1 DEF BlocksTyped
    <3>2. CASE b = region
      BY <1>5, <1>6, <1>9, <3>2
    <3> QED
      BY <1>9, <3>1, <3>2
  <2> QED
    BY <1>9, <2>1 DEF BlocksTyped
<1>11. /\ p.block = region /\ p.at = 0
  BY DEF StartOf
<1> HIDE DEF p
<1>12. /\ p.block \in DOMAIN more /\ p.at \in 0..Len(more[p.block].body)
  <2>1. Len(body) \in Nat
    BY <1>4
  <2> QED
    BY <1>6, <1>9, <1>11, <2>1
<1>13. AllFit(InsertOps(more, p, inside)) <=> AllFit(more)
  BY <1>10, <1>12, FittingInserted
<1> QED
  BY <1>2, <1>8, <1>13 DEF ScopedBlocks, more, mid, block, body, yield, within, p

LEMMA GenScopedFits == ASSUME FitReady, FitInv, GenScoped PROVE FitInv'
<1> DEFINE region == Len(blocks) + 1
           ahead == AheadOfLoop(ThisVisit.node, TopValue, region)
           inside == SetIterator(TopValue, region)
<1>1. /\ Visiting(ScopedOps) /\ ThisVisit.node \in ScopedOps /\ codegen # "idle" /\ EmitInv
      /\ blocks' = ScopedBlocks(region, ahead, inside) /\ pos' = pos + 1 /\ codegen' = "emitting"
  BY DEF GenScoped, Visiting, Advance, ScopedBlocks, FitReady
<1>2. Arity(ThisVisit.node) = 1 /\ ThisVisit.node # "FILTER_END"
  BY <1>1 DEF Arity, Ops, ScopedOps
<1>3. TopValue \in Arg /\ ThisVisit.refs = <<TopValue.type>> /\ Referred(ThisVisit)
  BY <1>1, <1>2, OneOperand
<1>4. TopValue.type = "vector"
  <2> DEFINE t == TopValue.type
  <2>1. <<t>> = <<"vector">>
    BY <1>1, <1>3 DEF Referred
  <2>2. <<t>>[1] = t /\ <<"vector">>[1] = "vector"
    OBVIOUS
  <2> HIDE DEF t
  <2>3. t = "vector"
    BY <2>1, <2>2
  <2> QED
    BY <2>3 DEF t
<1>5. region \in Nat /\ region = Len(blocks) + 1
  BY <1>1, PlaceTyped
<1> HIDE DEF region
<1>6. ahead \in Seq(Operation) /\ Fitting(ahead)
  BY <1>1, <1>3, <1>4, <1>5, AheadIsStraight, AheadFits
<1>7. inside \in Seq(Operation) /\ Fitting(inside)
  BY <1>1, <1>3, <1>4, <1>5, IteratorIsStraight, IteratorFits
<1> HIDE DEF ahead, inside
<1>8. AllFit(ScopedBlocks(region, ahead, inside)) <=> AllFit(blocks)
  BY <1>1, <1>5, <1>6, <1>7, ScopedBlocksFit
<1>9. AllFit(blocks') <=> AllFit(blocks)
  BY <1>1, <1>8
<1> QED
  BY <1>1, <1>2, <1>9, FitKept

\* What is in the region of the loop that is being left: its result is a vector.
LEMMA ScopedResult ==
    ASSUME FitReady, Visiting({"GENERATOR_END", "FILTER_END"})
    PROVE  /\ Top(locals).result \in Arg /\ LLVMType(Top(locals).result) = "ptr"
           /\ Top(locals).region \in Nat /\ Element(Top(locals)) \in Arg
           /\ LLVMType(Element(Top(locals))) = "i32"
<1> DEFINE l == Top(locals)
           node == ThisVisit.node
<1>1. DefRefInv /\ EmitInv /\ pos \in Nat \ {0} /\ codegen # "idle" /\ node \in {"GENERATOR_END", "FILTER_END"}
  BY DEF FitReady, ReplayInv, Visiting
<1>2. node \in Closing /\ KindOf(node) \in ScopedOps
  BY <1>1 DEF Closing, KindOf, ScopedOps
<1>3. PICK T : Here(T)
  BY <1>1, AtVisit
<1>4. l.result \in Value(blocks) /\ l.region \in DOMAIN blocks /\ l.result.type = "vector"
  <2> DEFINE o == T[pos + 1].open
             kind == KindOf(node)
  <2>1. T[pos].open = Append(o, kind) /\ o \in Seq(LocalKind) /\ Emitting(blocks, ip, locals, T[pos].open)
    BY <1>2, <1>3 DEF Here, TraceStep, Opened, Follows, Stacks
  <2> HIDE DEF o, kind
  <2>2. kind \in ScopedOps
    BY <1>2 DEF kind
  <2> QED
    BY <2>1, <2>2, RegionPopped
<1> HIDE DEF l
<1>5. l.region \in Nat
  <2>1. blocks \in Seq(BlockRecord)
    BY <1>1, PlaceTyped
  <2>2. DOMAIN blocks \subseteq Nat
    BY <2>1
  <2> QED
    BY <1>4, <2>2
<1>6. Element(l) \in Arg /\ LLVMType(Element(l)) = "i32"
  BY <1>5, ConstantTypes DEF Element, ResultAt, StartOf, Arg, Type
<1>7. l.result \in Arg /\ LLVMType(l.result) = "ptr"
  BY <1>1, <1>4, OperandsAreArgs, ConstantTypes
<1> QED
  BY <1>5, <1>6, <1>7 DEF l

LEMMA GeneratorEndFits ==
    ASSUME FitReady, FitInv, GenEndScoped, ThisVisit.node = "GENERATOR_END" PROVE FitInv'
<1> DEFINE l == Top(locals)
           result == l.result
           var == InductionVar(l.region)
           args == <<result, var, TopValue>>
           none == <<>>
           what == "put"
           put == Op(what, NoText, args, none)
<1>1. /\ Visiting({"GENERATOR_END", "FILTER_END"}) /\ blocks' = InsertOps(blocks, ip, <<put>>)
      /\ pos' = pos + 1 /\ codegen' = "emitting"
  BY DEF GenEndScoped, Visiting, Advance
<1>2. Arity(ThisVisit.node) = 1
  BY DEF Arity, Ops, ScopedOps
<1>3. TopValue \in Arg
  BY <1>1, <1>2, OneOperand
<1>4. result \in Arg /\ LLVMType(result) = "ptr" /\ l.region \in Nat
  BY <1>1, ScopedResult
<1> HIDE DEF result, l
<1>5. var \in Arg /\ LLVMType(var) = "i32"
  BY <1>4, ConstantTypes DEF InductionVar, Arg, Type
<1>6. /\ Signature[what][1] = "ptr" /\ Signature[what][2] = "i32" /\ Signature[what][3] = "any"
      /\ what \in Operations /\ NoText \in Text
  BY Signatures DEF Operations, Terminators, Text
<1> HIDE DEF var, what
<1>7. args \in Seq(Arg) /\ none \in Seq(Nat)
  BY <1>3, <1>4, <1>5
<1>8. OperandsFit(Op(what, NoText, <<result, var, TopValue>>, none))
  <2> HIDE DEF none
  <2> QED
    BY <1>4, <1>5, <1>6, ThreeFit
<1>9. OperandsFit(put)
  BY <1>8
<1> HIDE DEF args, none
<1>10. put \in Operation
  BY <1>6, <1>7, AnOperationTo
<1> HIDE DEF put
<1> QED
  BY <1>1, <1>9, <1>10, EmitOneFits

\* The scf.if of a filter compares the body's value with zero: it fits if it is an int.
LEMMA TestFits ==
    ASSUME NEW x, x.type \in Type, NEW kept
    PROVE  OperandsFit(Op("if", NoText, <<x, const_zero>>, <<kept>>)) <=> x.type = "int"
<1> DEFINE what == "if"
           to == <<kept>>
           zero == const_zero
<1>1. Signature[what][1] = "i32" /\ Signature[what][2] = "i32" /\ LLVMType(zero) = "i32"
  BY Signatures, ConstantTypes
<1>2. LLVMType(x) = "i32" <=> x.type = "int"
  BY DEF LLVMType
<1> HIDE DEF what, to, zero
<1>3. \A u, v : OperandsFit(Op(what, NoText, <<u, v>>, to)) <=>
          Signature[what][1] \in {"any", LLVMType(u)} /\ Signature[what][2] \in {"any", LLVMType(v)}
  BY FitsOperands
<1>4. OperandsFit(Op(what, NoText, <<x, zero>>, to)) <=>
          Signature[what][1] \in {"any", LLVMType(x)} /\ Signature[what][2] \in {"any", LLVMType(zero)}
  BY <1>3
<1>5. OperandsFit(Op(what, NoText, <<x, zero>>, to)) <=> x.type = "int"
  BY <1>1, <1>2, <1>4
<1> QED
  BY <1>5 DEF what, to, zero

\* What keeps the element of a filter fits.
LEMMA KeepFits ==
    ASSUME NEW result \in Arg, LLVMType(result) = "ptr", NEW elem \in Arg, LLVMType(elem) = "i32",
           const_one \in Arg, NEW within \in SUBSET Nat, NEW keep,
           keep = Block(<<Op("keep", NoText, <<result, elem, const_one>>, <<>>),
                          Op("yield", NoText, <<>>, <<>>)>>, within)
    PROVE  keep \in BlockRecord /\ Fitting(keep.body)
<1> DEFINE one == const_one
           args == <<result, elem, one>>
           none == <<>>
           what == "keep"
           keeps == Op(what, NoText, args, none)
           yield == Op("yield", NoText, <<>>, <<>>)
           body == <<keeps, yield>>
<1>1. Signature[what][1] = "ptr" /\ Signature[what][2] = "i32" /\ Signature[what][3] = "i32"
      /\ what \in Operations /\ LLVMType(one) = "i32" /\ one \in Arg
  BY Signatures, ConstantTypes DEF Operations, Terminators
<1> HIDE DEF what, one
<1>2. args \in Seq(Arg) /\ none \in Seq(Nat)
  BY <1>1
<1>3. OperandsFit(Op(what, NoText, <<result, elem, one>>, none))
  <2> HIDE DEF none
  <2> QED
    BY <1>1, ThreeFit
<1>4. OperandsFit(keeps)
  BY <1>3
<1> HIDE DEF args, none
<1>5. keeps \in Operation
  BY <1>1, <1>2, AnOperationTo
<1>6. yield \in Operation /\ OperandsFit(yield)
  BY YieldIsOperation, FitsOperands
<1> HIDE DEF keeps, yield
<1>7. body \in Seq(Operation)
  BY <1>5, <1>6
<1>8. Fitting(body)
  BY <1>4, <1>6, FewFit
<1>9. keep = Block(body, within)
  BY DEF body, keeps, yield, args, none, what, one
<1> HIDE DEF body
<1> DEFINE made == Block(body, within)
<1>10. made \in BlockRecord /\ made.body = body
  BY <1>7 DEF Block, BlockRecord
<1>11. Fitting(made.body)
  BY <1>8, <1>10
<1> HIDE DEF made
<1>12. keep = made
  BY <1>9 DEF made
<1> QED
  BY <1>10, <1>11, <1>12

LEMMA FilterEndFits ==
    ASSUME FitReady, FitInv, GenEndScoped, ThisVisit.node = "FILTER_END" PROVE FitInv'
<1> DEFINE l == Top(locals)
           result == l.result
           elem == Element(l)
           within == blocks[ip.block].within \cup {ip.block}
           kept == Len(blocks) + 1
           keep == Block(<<Op("keep", NoText, <<result, elem, const_one>>, <<>>),
                           Op("yield", NoText, <<>>, <<>>)>>, within)
           if == Op("if", NoText, <<TopValue, const_zero>>, <<kept>>)
           ops == <<if>>
           mid == InsertOps(blocks, ip, ops)
           t == TopValue.type
<1>1. /\ Visiting({"GENERATOR_END", "FILTER_END"}) /\ blocks' = Append(mid, keep)
      /\ pos' = pos + 1 /\ codegen' = "emitting"
  BY DEF GenEndScoped, Visiting, Advance, Element
<1>2. Arity(ThisVisit.node) = 1
  BY DEF Arity, Ops, ScopedOps
<1>3. /\ TopValue \in Arg /\ t \in Type /\ ThisVisit.refs = <<t>> /\ EmitInv /\ codegen # "idle"
      /\ const_one \in Arg /\ const_zero \in Arg
  BY <1>1, <1>2, OneOperand
<1>4. result \in Arg /\ LLVMType(result) = "ptr" /\ elem \in Arg /\ LLVMType(elem) = "i32"
  BY <1>1, ScopedResult
<1>5. within \in SUBSET Nat /\ kept \in Nat /\ ip.block \in DOMAIN blocks /\ blocks \in Seq(BlockRecord)
      /\ ip.at \in 0..Len(blocks[ip.block].body) /\ BlocksTyped(blocks)
  <2>1. ip.block \in DOMAIN blocks /\ blocks \in Seq(BlockRecord) /\ BlocksTyped(blocks)
        /\ ip.at \in 0..Len(blocks[ip.block].body)
    BY <1>3, PlaceTyped
  <2>2. blocks[ip.block].within \subseteq DOMAIN blocks /\ DOMAIN blocks \subseteq Nat /\ kept \in Nat
    BY <2>1 DEF BlocksTyped
  <2> QED
    BY <2>1, <2>2
<1> HIDE DEF result, elem, within, l, kept
<1>6. keep \in BlockRecord /\ Fitting(keep.body)
  BY <1>3, <1>4, <1>5, KeepFits
<1> HIDE DEF keep
<1>7. OperandsFit(if) <=> t = "int"
  BY <1>3, TestFits
<1>8. if \in Operation
  <2> DEFINE args == <<TopValue, const_zero>>
             to == <<kept>>
             what == "if"
  <2>1. args \in Seq(Arg) /\ to \in Seq(Nat) /\ what \in Operations
    BY <1>3, <1>5 DEF Operations, Terminators
  <2> HIDE DEF args, to, what
  <2>2. Op(what, NoText, args, to) \in Operation
    BY <2>1, AnOperationTo
  <2> QED
    BY <2>2 DEF args, to, what
<1> HIDE DEF if
<1>9. ops \in Seq(Operation) /\ (Fitting(ops) <=> OperandsFit(if))
  <2>1. ops \in Seq(Operation) /\ 1 \in DOMAIN ops /\ ops[1] = if
    BY <1>8
  <2>2. OperandsFit(if) => Fitting(ops)
    BY FewFit
  <2> HIDE DEF ops
  <2> QED
    BY <2>1, <2>2 DEF Fitting
<1> HIDE DEF ops
<1>10. AllFit(mid) <=> AllFit(blocks) /\ Fitting(ops)
  BY <1>5, <1>9, FittingInserted
<1>11. mid \in Seq(BlockRecord)
  BY <1>5, <1>9, OpsInserted DEF BlocksTyped
<1> HIDE DEF mid
<1>12. AllFit(blocks') <=> AllFit(mid)
  BY <1>1, <1>6, <1>11, FittingAppended
<1>13. ThisVisit.refs = <<"vector">> <=> t # "int"
  <2>1. <<t>>[1] = t /\ <<"vector">>[1] = "vector" /\ "int" # "vector"
    OBVIOUS
  <2>2. t = "int" \/ t = "vector"
    BY <1>3 DEF Type
  <2> HIDE DEF t
  <2> QED
    BY <1>3, <2>1, <2>2
<1> QED
  BY <1>1, <1>7, <1>9, <1>10, <1>12, <1>13, FitKept

LEMMA GenerateMlirFits == ASSUME DefRefInv, GenerateMlir, UNCHANGED defref_vars PROVE FitInv'
<1> DEFINE one == Op("one", NoText, <<>>, <<>>)
           zero == Op("zero", NoText, <<>>, <<>>)
           body == <<one, zero>>
           entry == Block(body, {})
<1>1. codegen' = "emitting" /\ pos' = 1 /\ blocks' = <<entry>> /\ ast' = ast
  BY DEF GenerateMlir, defref_vars
<1>2. OperandsFit(one) /\ OperandsFit(zero)
  BY FitsOperands
<1> HIDE DEF one, zero
<1>3. Fitting(body)
  BY <1>2, FewFit
<1>4. entry.body = body
  BY DEF Block
<1> HIDE DEF body, entry
<1>5. AllFit(<<entry>>)
  <2> DEFINE bs == <<entry>>
  <2>1. DOMAIN bs = {1} /\ bs[1] = entry
    OBVIOUS
  <2> HIDE DEF bs
  <2>2. AllFit(bs)
    BY <1>3, <1>4, <2>1 DEF AllFit
  <2> QED
    BY <2>2 DEF bs
<1>6. ~FilterBefore(pos)'
  <2>1. \A j \in DOMAIN ast : ~(j < 1)
    BY DEF DefRefInv
  <2> QED
    BY <1>1, <2>1 DEF FilterBefore
<1> QED
  BY <1>1, <1>5, <1>6 DEF FitInv

LEMMA GenReturnFits ==
    ASSUME DefRefInv, EmitInv, FitInv, GenReturn, UNCHANGED defref_vars
    PROVE  FitInv'
<1> DEFINE args == <<const_zero>>
           none == <<>>
           what == "return"
           op == Op(what, NoText, args, none)
           ops == <<op>>
<1>1. /\ codegen = "emitting" /\ codegen # "idle" /\ codegen' = "generated" /\ ast' = ast
      /\ blocks' = InsertOps(blocks, ip, ops) /\ pos = Len(ast) + 1
  BY DEF GenReturn, Emit, defref_vars
<1>2. what \in Operations /\ args \in Seq(Arg) /\ none \in Seq(Nat)
  BY <1>1, OperandsAreArgs DEF Operations, Terminators
<1>3. OperandsFit(Op(what, NoText, <<const_zero>>, none))
  <2>1. Signature[what][1] = "i32" /\ LLVMType(const_zero) = "i32"
    BY Signatures, ConstantTypes
  <2> HIDE DEF what, none
  <2> QED
    BY <2>1, OneFits
<1>4. OperandsFit(op)
  BY <1>3
<1> HIDE DEF args, none, what
<1>5. op \in Operation
  BY <1>2, AnOperationTo
<1> HIDE DEF op
<1>6. ops \in Seq(Operation) /\ Fitting(ops)
  BY <1>4, <1>5, FewFit
<1> HIDE DEF ops
<1>7. AllFit(blocks') <=> AllFit(blocks)
  BY <1>1, <1>6, PlaceTyped, FittingInserted
<1>8. FilterBefore(pos) <=> VectorFilter'
  <2>1. \A j \in DOMAIN ast : j < pos
    BY <1>1 DEF DefRefInv
  <2> QED
    BY <1>1, <2>1 DEF FilterBefore, VectorFilter
<1> QED
  BY <1>1, <1>7, <1>8 DEF FitInv

\* Every step of CodeGen keeps FitInv.
LEMMA GenerateKeepsFit ==
    ASSUME DefRefInv, VisitsInv, RefsInv, ReplayInv, EmitInv, FitInv, CodeGenNext
    PROVE  FitInv'
<1>1. UNCHANGED defref_vars
  BY DEF CodeGenNext
<1>2. CASE GenerateMlir
  BY <1>1, <1>2, GenerateMlirFits
<1>3. CASE GenReturn
  BY <1>1, <1>3, GenReturnFits
<1>4. CASE ~GenerateMlir /\ ~GenReturn
  <2>1. codegen = "emitting"
    BY <1>4 DEF CodeGenNext, GenBLOCK, GenIF_BLOCK, GenEndIF_BLOCK, GenLOOP_BLOCK, GenLoopBody,
       GenEndLOOP_BLOCK, GenDECL, GenASSIGN, GenPRINT, GenID, GenINT, GenOp, GenScoped, GenEndScoped,
       Visiting
  <2>2. FitReady
    <3>1. calls = <<>>
      BY <2>1 DEF ReplayInv, VisitsInv
    <3>2. RefsOK
      BY <3>1 DEF RefsInv, RefsOK, TestsOK
    <3> QED
      BY <1>1, <3>2 DEF FitReady
  <2>3. CASE GenBLOCK \/ GenDECL \/ GenASSIGN \/ GenPRINT \/ GenID \/ GenINT \/ GenOp
    BY <2>2, <2>3, GenBLOCKFits, GenDECLFits, GenASSIGNFits, GenPRINTFits, GenIDFits, GenINTFits, GenOpFits
  <2>4. CASE GenIF_BLOCK \/ GenEndIF_BLOCK \/ GenLOOP_BLOCK \/ GenLoopBody \/ GenEndLOOP_BLOCK
    BY <2>2, <2>4, BranchVisitsFit
  <2>5. CASE GenScoped
    BY <2>2, <2>5, GenScopedFits
  <2>6. CASE GenEndScoped
    <3>1. ThisVisit.node = "GENERATOR_END" \/ ThisVisit.node = "FILTER_END"
      BY <2>6 DEF GenEndScoped, Visiting
    <3> QED
      BY <2>2, <2>6, <3>1, GeneratorEndFits, FilterEndFits
  <2> QED
    BY <1>4, <2>3, <2>4, <2>5, <2>6 DEF CodeGenNext
<1> QED
  BY <1>2, <1>3, <1>4

----------------------------------------------------------------------------
(* What is generated verifies. *)

\* The blocks that are certified, finished and whose operands fit are those mlir::verify
\* accepts.
LEMMA GeneratedVerifies ==
    ASSUME EmitInv, CertInv, FitInv, ShapeInv
    PROVE  VerifiesUnlessFilterBodyIsVector
<1> SUFFICES ASSUME codegen = "generated" PROVE Verifies <=> ~VectorFilter
  BY DEF VerifiesUnlessFilterBodyIsVector
<1>1. /\ BlocksTyped(blocks) /\ (\A b \in DOMAIN blocks : Terminated(blocks[b].body))
      /\ (AllFit(blocks) <=> ~VectorFilter) /\ Shaped(blocks)
  BY DEF EmitInv, FitInv, ShapeInv
<1>2. PICK R : Cert(blocks, R)
  BY DEF CertInv
<1>3. \A b \in Blocks : WellTerminated(b)
  BY <1>1 DEF Blocks, WellTerminated, Terminated
<1>4. \A b \in Blocks : \A i \in DOMAIN blocks[b].body :
         \A k \in DOMAIN blocks[b].body[i].args : Visible(blocks[b].body[i].args[k], b, i)
  BY <1>1, <1>2, CertVisible DEF Blocks, Terminated
<1>5. Verifies <=> \A b \in Blocks : \A i \in DOMAIN blocks[b].body : OperandsFit(blocks[b].body[i])
  BY <1>3, <1>4 DEF Verifies
<1>6. AllFit(blocks) <=> \A b \in Blocks : \A i \in DOMAIN blocks[b].body : OperandsFit(blocks[b].body[i])
  BY DEF AllFit, Fitting, Blocks
<1> QED
  BY <1>1, <1>5, <1>6

=============================================================================
