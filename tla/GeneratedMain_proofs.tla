------------------------- MODULE GeneratedMain_proofs -------------------------
(***************************************************************************)
(* The generated main, for every program: the machine is always at an      *)
(* operation that exists, the scf regions around it are the ones that are  *)
(* running, and every operand was computed.                                *)
(***************************************************************************)
EXTENDS GeneratedMain, Compiler_proofs, FiniteSetTheorems

----------------------------------------------------------------------------
(* Where the machine is: in block Place(0) of main or, when k regions are   *)
(* running, at Place(k) in the innermost and behind the operations of the   *)
(* regions around it.  "set" are the places of the computed results.        *)
Place(ls, p, k) == IF k = Len(ls) THEN p ELSE ls[k + 1].resume

Computed(bs, set, b, n) ==
    \A i \in DOMAIN bs[b].body : i < n /\ bs[b].body[i].op \in Giving => <<b, i>> \in set
Done(bs, set, b) ==
    /\ Outer(bs, b)
    /\ \A i \in DOMAIN bs[b].body : bs[b].body[i].op \in Giving => <<b, i>> \in set

\* The operation before p has region b.
Encloses(bs, p, b) ==
    /\ p.at - 1 \in DOMAIN bs[p.block].body
    /\ LET op == bs[p.block].body[p.at - 1]
       IN  op.op \in Regional /\ 1 \in DOMAIN op.to /\ op.to[1] = b

RunsAt(bs, set, ls, p, k) ==
    LET here == Place(ls, p, k)
        within == bs[here.block].within
    IN  /\ here \in [block: DOMAIN bs, at: Nat] /\ here.at \in DOMAIN bs[here.block].body
        /\ Computed(bs, set, here.block, here.at)
        /\ within = {Place(ls, p, j).block : j \in 0..(k - 1)}
        /\ IsFiniteSet(within) /\ Cardinality(within) = k
        /\ k # 0 => /\ ls[k].region = here.block /\ <<here.block, 0>> \in set
                    /\ Encloses(bs, Place(ls, p, k - 1), here.block)

\* The blocks whose values may be used in the block of main were run to their ends.
Runs(bs, R, set, ls, p) ==
    /\ Len(ls) \in Nat
    /\ \A k \in 0..Len(ls) : RunsAt(bs, set, ls, p, k)
    /\ LET b == Place(ls, p, 0).block IN \A x \in R[b] : x = b \/ Done(bs, set, x)

Final(bs, R) == /\ BlocksTyped(bs) /\ Shaped(bs) /\ Cert(bs, R)
                /\ \A b \in DOMAIN bs : Terminated(bs[b].body)

LEMMA Bodies ==
    ASSUME NEW bs, BlocksTyped(bs), NEW b \in DOMAIN bs
    PROVE  /\ bs[b].body \in Seq(Operation) /\ DOMAIN bs[b].body = 1..Len(bs[b].body)
           /\ Len(bs[b].body) \in Nat /\ b \in Nat
<1>1. bs \in Seq(BlockRecord) /\ bs[b] \in BlockRecord
  BY DEF BlocksTyped
<1>2. bs[b].body \in Seq(Operation)
  BY <1>1 DEF BlockRecord
<1> QED
  BY <1>1, <1>2

----------------------------------------------------------------------------
\* Every operand of the operation the machine is at was computed.
LEMMA OperandsComputed ==
    ASSUME NEW bs, NEW R, Final(bs, R), NEW set, NEW ls, NEW p, Runs(bs, R, set, ls, p),
           NEW k \in DOMAIN bs[p.block].body[p.at].args
    PROVE  LET v == bs[p.block].body[p.at].args[k] IN <<v.block, v.at>> \in set
<1> DEFINE n == Len(ls)
           b == p.block
           op == bs[b].body[p.at]
           v == op.args[k]
           h == v.block
<1>1. Place(ls, p, n) = p /\ n \in 0..n /\ n \in Nat
  BY DEF Place, Runs
<1>2. /\ p \in [block: DOMAIN bs, at: Nat] /\ p.at \in DOMAIN bs[b].body /\ b \in DOMAIN bs
      /\ Computed(bs, set, b, p.at)
      /\ bs[b].within = {Place(ls, p, j).block : j \in 0..(n - 1)}
      /\ n # 0 => <<b, 0>> \in set
  BY <1>1 DEF Runs, RunsAt
<1>3. /\ Known(R, v, b, p.at) /\ HostOK(bs, R, b) /\ ArgShape(bs, b, v)
  <2>1. OpOK(R, b, p.at, op) /\ HostOK(bs, R, b)
    BY <1>2 DEF Final, Cert, BodyOK
  <2>2. OpShape(bs, b, op)
    BY <1>2 DEF Final, Shaped, BlockShape
  <2>3. k \in DOMAIN op.args
    OBVIOUS
  <2> QED
    BY <2>1, <2>2, <2>3 DEF OpOK, OpShape
<1> HIDE DEF v, op
<1>4. /\ h \in DOMAIN bs
      /\ v.at = 0 => bs[h].within # {}
      /\ v.at # 0 => v.at \in DOMAIN bs[h].body /\ bs[h].body[v.at].op \in Giving
  BY <1>3 DEF ArgShape, Defines
<1>8. /\ h = b => v.at < p.at
      /\ h # b => h \in R[b]
      /\ h \in bs[b].within => \A m \in DOMAIN bs[h].body : InRegion(bs, bs[h].body[m], b) => v.at < m
  BY <1>3 DEF Known, ArgShape, ComesBefore
<1> SUFFICES <<h, v.at>> \in set
  BY DEF v, op
<1> HIDE DEF h
<1>5. CASE h = b
  <2>1. CASE v.at = 0
    <3>1. bs[b].within # {}
      BY <1>4, <1>5, <2>1
    <3>2. n # 0
      BY <1>1, <1>2, <3>1
    <3> QED
      BY <1>2, <1>5, <2>1, <3>2
  <2>2. CASE v.at # 0
    <3>1. v.at \in DOMAIN bs[b].body /\ bs[b].body[v.at].op \in Giving
      BY <1>4, <1>5, <2>2
    <3>2. v.at < p.at
      BY <1>5, <1>8
    <3> QED
      BY <1>2, <1>5, <3>1, <3>2 DEF Computed
  <2> QED
    BY <2>1, <2>2
<1>6. CASE h # b /\ h \in bs[b].within
  <2>1. PICK j \in 0..(n - 1) : Place(ls, p, j).block = h
    BY <1>2, <1>6
  <2> DEFINE q == Place(ls, p, j)
             next == Place(ls, p, j + 1)
  <2>2. j \in 0..n /\ j + 1 \in 0..n /\ j + 1 # 0 /\ (j + 1) - 1 = j /\ j \in Nat
    BY <1>1, <2>1
  <2>3. /\ q \in [block: DOMAIN bs, at: Nat] /\ Computed(bs, set, h, q.at)
        /\ bs[h].within = {Place(ls, p, i).block : i \in 0..(j - 1)}
        /\ j # 0 => <<h, 0>> \in set
    BY <2>1, <2>2 DEF Runs, RunsAt
  <2>4. Encloses(bs, q, next.block) /\ next.block \in {b} \cup bs[b].within
    <3>1. Encloses(bs, q, next.block)
      <4>1. RunsAt(bs, set, ls, p, j + 1)
        BY <2>2 DEF Runs
      <4> QED
        BY <2>2, <4>1 DEF RunsAt
    <3>2. CASE j + 1 = n
      BY <1>1, <3>1, <3>2
    <3>3. CASE j + 1 # n
      <4>1. j + 1 \in 0..(n - 1)
        BY <1>1, <2>2, <3>3
      <4> QED
        BY <1>2, <3>1, <4>1
    <3> QED
      BY <3>2, <3>3
  <2>5. CASE v.at = 0
    <3>1. bs[h].within # {}
      BY <1>4, <2>5
    <3>2. j # 0
      BY <2>2, <2>3, <3>1
    <3> QED
      BY <2>3, <2>5, <3>2
  <2>6. CASE v.at # 0
    <3>1. v.at \in DOMAIN bs[h].body /\ bs[h].body[v.at].op \in Giving /\ v.at \in Nat
      BY <1>4, <2>6, Bodies DEF Final
    <3> DEFINE m == q.at - 1
    <3>2. m \in DOMAIN bs[h].body /\ InRegion(bs, bs[h].body[m], b) /\ q.at \in Nat
      BY <2>1, <2>3, <2>4 DEF Encloses, InRegion
    <3>3. v.at < m
      BY <1>6, <1>8, <3>2
    <3>4. v.at < q.at
      BY <3>1, <3>2, <3>3
    <3> QED
      BY <2>3, <3>1, <3>4 DEF Computed
  <2> QED
    BY <2>5, <2>6
<1>7. CASE h # b /\ h \notin bs[b].within
  <2> DEFINE first == Place(ls, p, 0).block
  <2>1. h \in R[b]
    BY <1>7, <1>8
  <2>2. h \in R[first] /\ h # first
    <3>1. CASE bs[b].within = {}
      <4>1. n = 0
        <5>1. CASE n # 0
          <6>1. 0 \in 0..(n - 1)
            BY <1>1, <5>1
          <6> QED
            BY <1>2, <3>1, <6>1
        <5> QED
          BY <5>1
      <4> QED
        BY <1>1, <1>7, <2>1, <4>1
    <3>2. CASE bs[b].within # {}
      <4>1. PICK f \in bs[b].within : /\ f \in DOMAIN bs /\ bs[f].within = {}
                                      /\ R[b] \subseteq bs[b].within \cup R[f]
        BY <1>3, <3>2 DEF HostOK
      <4>2. PICK j \in 0..(n - 1) : Place(ls, p, j).block = f
        BY <1>2, <4>1
      <4>3. j = 0
        <5>1. j \in 0..n /\ j \in Nat
          BY <1>1, <4>2
        <5>2. bs[f].within = {Place(ls, p, i).block : i \in 0..(j - 1)}
          BY <4>2, <5>1 DEF Runs, RunsAt
        <5>3. CASE j # 0
          <6>1. 0 \in 0..(j - 1)
            BY <5>1, <5>3
          <6> QED
            BY <4>1, <5>2, <6>1
        <5> QED
          BY <5>3
      <4> QED
        BY <1>7, <2>1, <4>1, <4>2, <4>3
    <3> QED
      BY <3>1, <3>2
  <2>3. Done(bs, set, h)
    BY <2>2 DEF Runs
  <2>4. v.at # 0 /\ v.at \in DOMAIN bs[h].body /\ bs[h].body[v.at].op \in Giving
    BY <1>4, <2>3 DEF Done, Outer
  <2> QED
    BY <2>3, <2>4 DEF Done
<1> QED
  BY <1>5, <1>6, <1>7

----------------------------------------------------------------------------
(* What a step of the machine does to where it is. *)

\* The k-th place stays, or goes on to another operation of its block before which
\* everything was computed.
LEMMA RunsOn ==
    ASSUME NEW bs, NEW set, NEW more, set \subseteq more, NEW ls, NEW new, NEW p, NEW q,
           NEW k \in Nat, RunsAt(bs, set, ls, p, k),
           \A j \in 0..(k - 1) : Place(new, q, j) = Place(ls, p, j),
           k # 0 => new[k].region = ls[k].region,
           Place(new, q, k) \in [block: DOMAIN bs, at: Nat],
           Place(new, q, k).block = Place(ls, p, k).block,
           Place(new, q, k).at \in DOMAIN bs[Place(ls, p, k).block].body,
           Computed(bs, more, Place(ls, p, k).block, Place(new, q, k).at)
    PROVE  RunsAt(bs, more, new, q, k)
<1> DEFINE here == Place(ls, p, k)
           now == Place(new, q, k)
           within == bs[here.block].within
<1>1. now.block = here.block /\ now \in [block: DOMAIN bs, at: Nat]
      /\ now.at \in DOMAIN bs[now.block].body /\ Computed(bs, more, now.block, now.at)
  OBVIOUS
<1>2. /\ within = {Place(ls, p, j).block : j \in 0..(k - 1)}
      /\ IsFiniteSet(within) /\ Cardinality(within) = k
      /\ k # 0 => /\ ls[k].region = here.block /\ <<here.block, 0>> \in set
                  /\ Encloses(bs, Place(ls, p, k - 1), here.block)
  BY DEF RunsAt
<1>3. within = {Place(new, q, j).block : j \in 0..(k - 1)}
  BY <1>2
<1>4. k # 0 => k - 1 \in 0..(k - 1)
  OBVIOUS
<1> HIDE DEF within, here, now
<1>5. k # 0 => /\ new[k].region = now.block /\ <<now.block, 0>> \in more
               /\ Encloses(bs, Place(new, q, k - 1), now.block)
  BY <1>1, <1>2, <1>4
<1> QED
  BY <1>1, <1>2, <1>3, <1>5 DEF RunsAt, within, now

LEMMA MoreComputed ==
    ASSUME NEW bs, NEW set, NEW more, set \subseteq more
    PROVE  /\ \A b, n : Computed(bs, set, b, n) => Computed(bs, more, b, n)
           /\ \A b : Done(bs, set, b) => Done(bs, more, b)
  BY DEF Computed, Done

\* A place that stays as it is, when more was computed.
LEMMA RunsStill ==
    ASSUME NEW bs, NEW set, NEW more, set \subseteq more, NEW ls, NEW new, NEW p, NEW q,
           NEW k \in Nat, RunsAt(bs, set, ls, p, k),
           \A j \in 0..k : Place(new, q, j) = Place(ls, p, j),
           k # 0 => new[k].region = ls[k].region
    PROVE  RunsAt(bs, more, new, q, k)
<1>1. Place(new, q, k) = Place(ls, p, k) /\ \A j \in 0..(k - 1) : Place(new, q, j) = Place(ls, p, j)
  <2>1. k \in 0..k /\ \A j \in 0..(k - 1) : j \in 0..k
    OBVIOUS
  <2> QED
    BY <2>1
<1> DEFINE here == Place(ls, p, k)
<1>2. here \in [block: DOMAIN bs, at: Nat] /\ here.at \in DOMAIN bs[here.block].body
      /\ Computed(bs, more, here.block, here.at)
  BY MoreComputed DEF RunsAt
<1> HIDE DEF here
<1>3. Place(new, q, k) = here /\ Place(ls, p, k) = here
  BY <1>1 DEF here
<1> QED
  BY <1>1, <1>2, <1>3, RunsOn

\* A block has a first operation.
LEMMA Begins ==
    ASSUME NEW bs, NEW R, Final(bs, R), NEW b \in DOMAIN bs, NEW set
    PROVE  1 \in DOMAIN bs[b].body /\ Computed(bs, set, b, 1)
<1>1. bs[b].body \in Seq(Operation) /\ bs[b].body # <<>>
  BY Bodies DEF Final, Terminated
<1> DEFINE body == bs[b].body
<1>2. Len(body) \in Nat \ {0} /\ DOMAIN body = 1..Len(body)
  <2> HIDE DEF body
  <2> QED
    BY <1>1 DEF body
<1> QED
  BY <1>2 DEF Computed

LEMMA WhereItIs ==
    ASSUME NEW bs, NEW R, NEW set, NEW ls, NEW p, Runs(bs, R, set, ls, p)
    PROVE  /\ Len(ls) \in Nat /\ Len(ls) \in 0..Len(ls) /\ Place(ls, p, Len(ls)) = p
           /\ RunsAt(bs, set, ls, p, Len(ls))
           /\ p \in [block: DOMAIN bs, at: Nat] /\ p.at \in DOMAIN bs[p.block].body
           /\ Computed(bs, set, p.block, p.at)
<1>1. Place(ls, p, Len(ls)) = p /\ Len(ls) \in Nat /\ Len(ls) \in 0..Len(ls)
  BY DEF Place, Runs
<1> QED
  BY <1>1 DEF Runs, RunsAt

\* Behind an operation that is no terminator comes another.
LEMMA Advanced ==
    ASSUME NEW bs, NEW R, Final(bs, R), NEW set, NEW ls, NEW p, Runs(bs, R, set, ls, p),
           bs[p.block].body[p.at].op \notin Terminators, NEW more, set \subseteq more,
           bs[p.block].body[p.at].op \in Giving => <<p.block, p.at>> \in more
    PROVE  Runs(bs, R, more, ls, [p EXCEPT !.at = @ + 1])
<1> DEFINE n == Len(ls)
           q == [p EXCEPT !.at = @ + 1]
           b == p.block
<1>1. /\ n \in Nat /\ n \in 0..n /\ Place(ls, p, n) = p /\ Place(ls, q, n) = q
      /\ p \in [block: DOMAIN bs, at: Nat] /\ p.at \in DOMAIN bs[b].body
      /\ Computed(bs, set, b, p.at) /\ RunsAt(bs, set, ls, p, n)
  BY WhereItIs DEF Place
<1>2. \A j \in 0..n : j # n => Place(ls, q, j) = Place(ls, p, j)
  BY DEF Place
<1>3. q \in [block: DOMAIN bs, at: Nat] /\ q.block = b /\ q.at = p.at + 1
  BY <1>1
<1>4. q.at \in DOMAIN bs[b].body
  <2>1. b \in DOMAIN bs /\ Terminated(bs[b].body) /\ BlocksTyped(bs)
    BY <1>1 DEF Final
  <2>2. DOMAIN bs[b].body = 1..Len(bs[b].body) /\ Len(bs[b].body) \in Nat
    BY <2>1, Bodies
  <2>3. p.at # Len(bs[b].body)
    BY <1>1, <2>1 DEF Terminated
  <2> QED
    BY <1>1, <1>3, <2>2, <2>3
<1>5. Computed(bs, more, b, q.at)
  <2>1. \A i \in DOMAIN bs[b].body : i < q.at => i < p.at \/ i = p.at
    <3>1. DOMAIN bs[b].body = 1..Len(bs[b].body) /\ Len(bs[b].body) \in Nat
      BY <1>1, Bodies DEF Final
    <3> QED
      BY <1>1, <1>3, <3>1
  <2> QED
    BY <1>1, <2>1 DEF Computed
<1> HIDE DEF q
<1>6. ASSUME NEW k \in 0..n PROVE RunsAt(bs, more, ls, q, k)
  <2>1. k \in Nat /\ RunsAt(bs, set, ls, p, k)
    BY DEF Runs
  <2>2. \A j \in 0..(k - 1) : Place(ls, q, j) = Place(ls, p, j)
    <3>1. \A j \in 0..(k - 1) : j \in 0..n /\ j # n
      BY <1>1
    <3> QED
      BY <1>2, <3>1
  <2>3. CASE k = n
    BY <1>1, <1>3, <1>4, <1>5, <2>1, <2>2, <2>3, RunsOn
  <2>4. CASE k # n
    <3>1. Place(ls, q, k) = Place(ls, p, k)
      BY <1>2, <2>4
    <3>2. \A j \in 0..k : Place(ls, q, j) = Place(ls, p, j)
      <4>1. \A j \in 0..k : j = k \/ j \in 0..(k - 1)
        BY <2>1
      <4> QED
        BY <2>2, <3>1, <4>1
    <3> QED
      BY <2>1, <3>2, RunsStill
  <2> QED
    BY <2>3, <2>4
<1>7. \A x \in R[Place(ls, q, 0).block] : x = Place(ls, q, 0).block \/ Done(bs, more, x)
  <2>1. Place(ls, q, 0).block = Place(ls, p, 0).block
    <3>1. CASE n = 0
      BY <1>1, <1>3, <3>1
    <3>2. CASE n # 0
      BY <1>1, <1>2, <3>2
    <3> QED
      BY <3>1, <3>2
  <2> QED
    BY <2>1, MoreComputed DEF Runs
<1> QED
  BY <1>1, <1>6, <1>7 DEF Runs, q

\* A region is entered by the operation before p.
LEMMA Entered ==
    ASSUME NEW bs, NEW R, Final(bs, R), NEW set, NEW S, NEW ls \in Seq(S), NEW p,
           Runs(bs, R, set, ls, p), NEW g, Encloses(bs, p, g), NEW l \in S, l.region = g,
           l.resume = p, NEW more, set \subseteq more, <<g, 0>> \in more
    PROVE  Runs(bs, R, more, Append(ls, l), [block |-> g, at |-> 1])
<1> DEFINE n == Len(ls)
           q == [block |-> g, at |-> 1]
           new == Append(ls, l)
           b == p.block
<1>1. /\ n \in Nat /\ Place(ls, p, n) = p /\ RunsAt(bs, set, ls, p, n) /\ Computed(bs, set, b, p.at)
      /\ p \in [block: DOMAIN bs, at: Nat] /\ p.at \in DOMAIN bs[b].body
  BY WhereItIs
<1>2. Len(new) = n + 1 /\ new[n + 1] = l /\ \A j \in 1..n : new[j] = ls[j]
  <2>1. n \in Nat
    BY <1>1
  <2> QED
    BY <2>1
<1>3. Place(new, q, n + 1) = q /\ \A j \in 0..n : Place(new, q, j) = Place(ls, p, j)
  <2>1. Place(new, q, n + 1) = q
    BY <1>2 DEF Place
  <2>2. ASSUME NEW j \in 0..n PROVE Place(new, q, j) = Place(ls, p, j)
    <3>1. Place(new, q, j) = new[j + 1].resume
      BY <1>1, <1>2 DEF Place
    <3>2. CASE j = n
      BY <1>1, <1>2, <3>1, <3>2
    <3>3. CASE j # n
      <4>1. j + 1 \in 1..n
        BY <1>1, <3>3
      <4> QED
        BY <1>2, <3>1, <3>3, <4>1 DEF Place
    <3> QED
      BY <3>2, <3>3
  <2> QED
    BY <2>1, <2>2
<1>4. g \in DOMAIN bs /\ bs[g].within = bs[b].within \cup {b} /\ b \notin bs[b].within
  <2>1. OpShape(bs, b, bs[b].body[p.at - 1]) /\ BlockShape(bs, b)
    BY <1>1 DEF Encloses, Final, Shaped, BlockShape
  <2>2. g \in DOMAIN bs /\ bs[g].within = bs[b].within \cup {b}
    BY <2>1 DEF OpShape, Encloses
  <2>3. b \in Nat
    BY <1>1, Bodies DEF Final
  <2>4. \A d \in bs[b].within : d < b
    BY <2>1 DEF BlockShape
  <2> QED
    BY <2>2, <2>3, <2>4
<1>5. q \in [block: DOMAIN bs, at: Nat] /\ q.block = g /\ 1 \in DOMAIN bs[g].body
  BY <1>4, Begins
<1>6. Computed(bs, more, g, 1)
  BY <1>4, Begins
<1> HIDE DEF q, new
<1>7. RunsAt(bs, more, new, q, n + 1)
  <2>1. /\ bs[b].within = {Place(ls, p, j).block : j \in 0..(n - 1)}
        /\ IsFiniteSet(bs[b].within) /\ Cardinality(bs[b].within) = n
    BY <1>1 DEF RunsAt
  <2>2. bs[g].within = {Place(new, q, j).block : j \in 0..n}
    <3>1. bs[g].within \subseteq {Place(new, q, j).block : j \in 0..n}
      <4>1. 0..n = 0..(n - 1) \cup {n} /\ n \in 0..n
        BY <1>1
      <4> QED
        BY <1>1, <1>3, <1>4, <2>1, <4>1
    <3>2. {Place(new, q, j).block : j \in 0..n} \subseteq bs[g].within
      <4> SUFFICES ASSUME NEW j \in 0..n PROVE Place(new, q, j).block \in bs[g].within
        OBVIOUS
      <4>1. Place(new, q, j) = Place(ls, p, j)
        BY <1>3
      <4>2. CASE j = n
        BY <1>1, <1>4, <4>1, <4>2
      <4>3. CASE j # n
        <5>1. j \in 0..(n - 1)
          BY <1>1, <4>3
        <5> QED
          BY <1>4, <2>1, <4>1, <5>1
      <4> QED
        BY <4>2, <4>3
    <3> QED
      BY <3>1, <3>2
  <2>3. IsFiniteSet(bs[g].within) /\ Cardinality(bs[g].within) = n + 1
    <3> DEFINE W == bs[b].within
    <3>1. IsFiniteSet(W) /\ Cardinality(W) = n /\ b \notin W /\ bs[g].within = W \cup {b}
      BY <1>4, <2>1
    <3> HIDE DEF W
    <3>2. IsFiniteSet(W \cup {b}) /\ Cardinality(W \cup {b}) = Cardinality(W) + 1
      BY <3>1, FS_AddElement
    <3> QED
      BY <3>1, <3>2
  <2>4. (n + 1) - 1 = n /\ n \in 0..n /\ n + 1 # 0
    BY <1>1
  <2>5. Encloses(bs, Place(new, q, (n + 1) - 1), g)
    BY <1>1, <1>3, <2>4
  <2>6. /\ Place(new, q, n + 1) = q /\ q \in [block: DOMAIN bs, at: Nat] /\ q.block = g
        /\ q.at \in DOMAIN bs[g].body /\ Computed(bs, more, g, q.at)
    BY <1>3, <1>5, <1>6 DEF q
  <2>7. bs[g].within = {Place(new, q, j).block : j \in 0..((n + 1) - 1)}
    BY <2>2, <2>4
  <2> QED
    BY <1>2, <2>3, <2>5, <2>6, <2>7 DEF RunsAt
<1>8. ASSUME NEW k \in 0..n PROVE RunsAt(bs, more, new, q, k)
  <2>1. RunsAt(bs, set, ls, p, k) /\ k \in Nat
    BY DEF Runs
  <2>2. \A j \in 0..k : Place(new, q, j) = Place(ls, p, j)
    <3>1. \A j \in 0..k : j \in 0..n
      BY <1>1
    <3> QED
      BY <1>3, <3>1
  <2>3. k # 0 => new[k].region = ls[k].region
    BY <1>2
  <2> QED
    BY <2>1, <2>2, <2>3, RunsStill
<1>9. \A x \in R[Place(new, q, 0).block] : x = Place(new, q, 0).block \/ Done(bs, more, x)
  <2>1. Place(new, q, 0) = Place(ls, p, 0)
    BY <1>1, <1>3
  <2> QED
    BY <2>1, MoreComputed DEF Runs
<1>10. \A k \in 0..(n + 1) : k \in 0..n \/ k = n + 1
  BY <1>1
<1>11. Runs(bs, R, more, new, q)
  BY <1>1, <1>2, <1>7, <1>8, <1>9, <1>10 DEF Runs
<1> QED
  BY <1>11 DEF q, new

\* A region that is running is run again, or left for the operation behind it.
LEMMA Again ==
    ASSUME NEW bs, NEW R, Final(bs, R), NEW set, NEW ls, NEW p, Runs(bs, R, set, ls, p),
           Len(ls) # 0
    PROVE  Runs(bs, R, set, ls, [block |-> Top(ls).region, at |-> 1])
<1> DEFINE n == Len(ls)
           q == [block |-> Top(ls).region, at |-> 1]
           b == p.block
<1>1. /\ n \in Nat /\ n \in 0..n /\ Place(ls, p, n) = p /\ Place(ls, q, n) = q
      /\ p \in [block: DOMAIN bs, at: Nat] /\ RunsAt(bs, set, ls, p, n)
  BY WhereItIs DEF Place
<1>2. q.block = b /\ q.at = 1
  BY <1>1 DEF RunsAt, Top
<1>3. DOMAIN bs[b].body = 1..Len(bs[b].body) /\ Len(bs[b].body) \in Nat
  BY <1>1, Bodies DEF Final
<1>4. 1 \in DOMAIN bs[b].body
  <2>1. p.at \in DOMAIN bs[b].body
    BY WhereItIs
  <2> QED
    BY <1>3, <2>1
<1>5. Computed(bs, set, b, 1) /\ q \in [block: DOMAIN bs, at: Nat]
  BY <1>1, <1>2, <1>3 DEF Computed
<1> HIDE DEF q
<1>6. \A j \in 0..n : j # n => Place(ls, q, j) = Place(ls, p, j)
  BY DEF Place
<1>7. ASSUME NEW k \in 0..n PROVE RunsAt(bs, set, ls, q, k)
  <2>1. k \in Nat /\ RunsAt(bs, set, ls, p, k)
    BY DEF Runs
  <2>2. \A j \in 0..(k - 1) : Place(ls, q, j) = Place(ls, p, j)
    <3>1. \A j \in 0..(k - 1) : j \in 0..n /\ j # n
      BY <1>1
    <3> QED
      BY <1>6, <3>1
  <2>3. CASE k = n
    BY <1>1, <1>2, <1>4, <1>5, <2>1, <2>2, <2>3, RunsOn
  <2>4. CASE k # n
    <3>1. \A j \in 0..k : Place(ls, q, j) = Place(ls, p, j)
      <4>1. \A j \in 0..k : j = k \/ j \in 0..(k - 1)
        BY <2>1
      <4> QED
        BY <1>6, <2>2, <2>4, <4>1
    <3> QED
      BY <2>1, <3>1, RunsStill
  <2> QED
    BY <2>3, <2>4
<1>8. Place(ls, q, 0) = Place(ls, p, 0)
  <2>1. 0 \in 0..n /\ n # 0
    BY <1>1
  <2> QED
    BY <1>6, <2>1
<1>9. Runs(bs, R, set, ls, q)
  BY <1>1, <1>7, <1>8 DEF Runs
<1> QED
  BY <1>9 DEF q

LEMMA Left ==
    ASSUME NEW bs, NEW R, NEW set, NEW S, NEW ls \in Seq(S), NEW p, Runs(bs, R, set, ls, p),
           Len(ls) # 0
    PROVE  Runs(bs, R, set, Pop(ls), Top(ls).resume)
<1> DEFINE n == Len(ls)
           new == Pop(ls)
           q == Top(ls).resume
<1>1. n \in Nat /\ n - 1 \in Nat
  OBVIOUS
<1>2. Len(new) = n - 1 /\ \A j \in 1..(n - 1) : new[j] = ls[j]
  <2>1. ls # <<>>
    OBVIOUS
  <2> QED
    BY <2>1, TopAndPop
<1>3. \A j \in 0..(n - 1) : Place(new, q, j) = Place(ls, p, j)
  <2> SUFFICES ASSUME NEW j \in 0..(n - 1) PROVE Place(new, q, j) = Place(ls, p, j)
    OBVIOUS
  <2>1. Place(ls, p, j) = ls[j + 1].resume
    BY <1>1 DEF Place
  <2>2. CASE j = n - 1
    BY <1>1, <1>2, <2>1, <2>2 DEF Place, Top
  <2>3. CASE j # n - 1
    <3>1. j + 1 \in 1..(n - 1)
      BY <1>1, <2>3
    <3> QED
      BY <1>2, <2>1, <2>3, <3>1 DEF Place
  <2> QED
    BY <2>2, <2>3
<1> HIDE DEF new, q
<1>4. ASSUME NEW k \in 0..(n - 1) PROVE RunsAt(bs, set, new, q, k)
  <2>1. k \in Nat /\ k \in 0..n
    BY <1>1
  <2>2. RunsAt(bs, set, ls, p, k)
    BY <2>1 DEF Runs
  <2>3. \A j \in 0..k : Place(new, q, j) = Place(ls, p, j)
    <3>1. \A j \in 0..k : j \in 0..(n - 1)
      BY <1>1
    <3> QED
      BY <1>3, <3>1
  <2>4. k # 0 => new[k].region = ls[k].region
    BY <1>2
  <2> QED
    BY <2>1, <2>2, <2>3, <2>4, RunsStill
<1>5. Place(new, q, 0) = Place(ls, p, 0)
  BY <1>1, <1>3
<1>6. Runs(bs, R, set, new, q)
  BY <1>1, <1>2, <1>4, <1>5 DEF Runs
<1> QED
  BY <1>6 DEF new, q

\* A branch is at the end of its block of main, and goes to another one.
LEMMA Jumped ==
    ASSUME NEW bs, NEW R, Final(bs, R), NEW set, NEW ls, NEW p, Runs(bs, R, set, ls, p),
           bs[p.block].body[p.at].op \in Branches, NEW k \in DOMAIN bs[p.block].body[p.at].to
    PROVE  Runs(bs, R, set, ls, [block |-> bs[p.block].body[p.at].to[k], at |-> 1])
<1> DEFINE n == Len(ls)
           b == p.block
           op == bs[b].body[p.at]
           t == op.to[k]
           q == [block |-> t, at |-> 1]
<1>1. /\ n \in Nat /\ n \in 0..n /\ Place(ls, p, n) = p /\ RunsAt(bs, set, ls, p, n)
      /\ p \in [block: DOMAIN bs, at: Nat] /\ p.at \in DOMAIN bs[b].body /\ Computed(bs, set, b, p.at)
  BY WhereItIs
<1>2. OpShape(bs, b, op) /\ OpOK(R, b, p.at, op)
  <2>1. BlockShape(bs, b) /\ BodyOK(R, b, bs[b].body)
    BY <1>1 DEF Final, Shaped, Cert
  <2> QED
    BY <1>1, <2>1 DEF BlockShape, BodyOK
<1>3. bs[b].within = {} /\ t \in DOMAIN bs /\ bs[t].within = {}
  BY <1>2 DEF OpShape
<1>4. n = 0
  BY <1>1, <1>3, FS_EmptySet DEF RunsAt
<1>5. Place(ls, p, 0) = p /\ Place(ls, q, 0) = q
  BY <1>4 DEF Place
<1>6. 1 \in DOMAIN bs[t].body /\ Computed(bs, set, t, 1)
  <2> HIDE DEF t
  <2> QED
    BY <1>3, Begins
<1>7. RunsAt(bs, set, ls, q, 0)
  <2>1. q \in [block: DOMAIN bs, at: Nat]
    <3> HIDE DEF t
    <3> QED
      BY <1>3
  <2>2. {Place(ls, q, j).block : j \in 0..(0 - 1)} = {}
    OBVIOUS
  <2>3. q.block = t /\ q.at = 1
    OBVIOUS
  <2> HIDE DEF q
  <2> QED
    BY <1>3, <1>5, <1>6, <2>1, <2>2, <2>3, FS_EmptySet DEF RunsAt
<1>8. Done(bs, set, b)
  <2>1. op.op \in Terminators /\ op.op \notin Giving
    BY GivingIsNoTerminator DEF Branches, Terminators
  <2>2. DOMAIN bs[b].body = 1..Len(bs[b].body) /\ Len(bs[b].body) \in Nat /\ p.at = Len(bs[b].body)
    <3>1. Terminated(bs[b].body)
      BY <1>1 DEF Final
    <3>2. p.at = Len(bs[b].body)
      BY <1>1, <2>1, <3>1 DEF Terminated
    <3> QED
      BY <1>1, <3>2, Bodies DEF Final
  <2>3. \A i \in DOMAIN bs[b].body : i < p.at \/ i = p.at
    BY <2>2
  <2> QED
    BY <1>1, <1>3, <2>1, <2>3 DEF Done, Outer, Computed
<1>9. \A x \in R[t] : x = t \/ Done(bs, set, x)
  <2>1. Reachable(R, t, b)
    BY <1>2 DEF OpOK
  <2>2. \A x \in R[b] : x = b \/ Done(bs, set, x)
    BY <1>5 DEF Runs
  <2> HIDE DEF t, b, q
  <2>3. R[t] \ {t} \subseteq R[b] \cup {b}
    BY <2>1 DEF Reachable
  <2> QED
    BY <1>8, <2>2, <2>3
<1>10. \A j \in 0..n : j = 0
  BY <1>4
<1>11. Place(ls, q, 0).block = t
  BY <1>5
<1> HIDE DEF q, t
<1>12. Runs(bs, R, set, ls, q)
  BY <1>1, <1>7, <1>9, <1>10, <1>11 DEF Runs
<1> QED
  BY <1>12 DEF q, t

----------------------------------------------------------------------------
(* The machine.  Its registers are the places of the computed results.      *)
Slots(S) == {<<>>} \cup {<<x>> : x \in S}
States == {"no", "running", "returned", "trapped", "overflow", "undefined", "cut"}

StackInv == (\E S : stack \in Seq(Slots(S))) /\ Len(stack) <= StackSlots
OutInv == (\E S : out \in Seq(S)) /\ Len(out) <= MaxLines
LoopsInv == \E S : loops \in Seq(S)
RunningInv == \E R : Final(blocks, R) /\ Runs(blocks, R, DOMAIN regs, loops, pc)
MachineInv ==
    /\ run \in States /\ StackInv /\ OutInv /\ LoopsInv
    /\ run = "no" => loops = <<>>
    /\ run # "no" => ended = "return 0"
    /\ run = "running" => RunningInv

\* What main returned 0 for.
LEMMA ProgramIsFinal ==
    ASSUME CompilerInv, ended = "return 0"
    PROVE  \E R : Final(blocks, R)
<1>1. codegen = "generated" /\ WalkInv
  BY DEF CompilerInv, MainInv, Generated
<1>2. BlocksTyped(blocks) /\ \A b \in DOMAIN blocks : Terminated(blocks[b].body)
  BY <1>1 DEF WalkInv, EmitInv
<1>3. Shaped(blocks) /\ \E R : Cert(blocks, R)
  BY <1>1 DEF WalkInv, ShapeInv, CertInv
<1> QED
  BY <1>2, <1>3 DEF Final

LEMMA MachineTyped == ASSUME MachineInv PROVE MainTypeOK
<1>1. Len(stack) <= StackSlots /\ \A slot \in DOMAIN stack : Len(stack[slot]) <= 1
  <2>1. PICK S : stack \in Seq(Slots(S))
    BY DEF MachineInv, StackInv
  <2>2. ASSUME NEW slot \in DOMAIN stack PROVE Len(stack[slot]) <= 1
    <3>1. stack[slot] \in Slots(S)
      BY <2>1
    <3>2. CASE stack[slot] = <<>>
      BY <3>2
    <3>3. CASE stack[slot] # <<>>
      <4>1. PICK x \in S : stack[slot] = <<x>>
        BY <3>1, <3>3 DEF Slots
      <4> QED
        BY <4>1
    <3> QED
      BY <3>2, <3>3
  <2> QED
    BY <2>2 DEF MachineInv, StackInv
<1>2. ASSUME run = "running"
      PROVE  /\ pc.block \in Blocks /\ pc.at \in DOMAIN blocks[pc.block].body
             /\ Len(loops) = Cardinality(blocks[pc.block].within)
             /\ \A k \in DOMAIN ThisOp.args :
                   <<ThisOp.args[k].block, ThisOp.args[k].at>> \in DOMAIN regs
  <2>1. PICK R : Final(blocks, R) /\ Runs(blocks, R, DOMAIN regs, loops, pc)
    BY <1>2 DEF MachineInv, RunningInv
  <2>2. /\ Place(loops, pc, Len(loops)) = pc /\ RunsAt(blocks, DOMAIN regs, loops, pc, Len(loops))
        /\ pc \in [block: DOMAIN blocks, at: Nat] /\ pc.at \in DOMAIN blocks[pc.block].body
    BY <2>1, WhereItIs
  <2>3. Len(loops) = Cardinality(blocks[pc.block].within)
    BY <2>2 DEF RunsAt
  <2>4. \A k \in DOMAIN ThisOp.args : <<ThisOp.args[k].block, ThisOp.args[k].at>> \in DOMAIN regs
    BY <2>1, OperandsComputed DEF ThisOp
  <2> QED
    BY <2>2, <2>3, <2>4 DEF Blocks
<1> QED
  BY <1>1, <1>2 DEF MainTypeOK, MachineInv, States, OutInv

----------------------------------------------------------------------------
(* What the steps of the machine do to that. *)

\* The machine goes on in the same region.
LEMMA NextKeepsRunning ==
    ASSUME RunningInv, ThisOp.op \notin Terminators, NextOp, UNCHANGED <<loops, blocks>>,
           DOMAIN regs \subseteq DOMAIN regs',
           ThisOp.op \in Giving => <<pc.block, pc.at>> \in DOMAIN regs'
    PROVE  RunningInv'
<1>1. PICK R : Final(blocks, R) /\ Runs(blocks, R, DOMAIN regs, loops, pc)
  BY DEF RunningInv
<1>2. Runs(blocks, R, DOMAIN regs', loops, pc')
  BY <1>1, Advanced DEF ThisOp, NextOp
<1> QED
  BY <1>1, <1>2 DEF RunningInv

LEMMA GivenPlaces == ASSUME NEW x, Give(x) PROVE DOMAIN regs' = DOMAIN regs \cup {<<pc.block, pc.at>>}
  BY DEF Give, Written

LEMMA Bounds == StackSlots \in Nat /\ MaxLines \in Nat
  BY GeneratedMainAssumption

LEMMA Replaced ==
    ASSUME NEW S, NEW s \in Seq(S), NEW i, NEW x \in S
    PROVE  [s EXCEPT ![i] = x] \in Seq(S) /\ Len([s EXCEPT ![i] = x]) = Len(s)
<1>1. CASE i \in 1..Len(s)
  BY <1>1, ExceptSeq
<1>2. CASE i \notin 1..Len(s)
  <2>1. [s EXCEPT ![i] = x] = s
    BY <1>2
  <2> QED
    BY <2>1
<1> QED
  BY <1>1, <1>2

LEMMA Widened == ASSUME NEW S, NEW T, S \subseteq T, NEW s \in Seq(S) PROVE s \in Seq(T)
  OBVIOUS

\* Why a machine stops.
LEMMA HaltKeeps ==
    ASSUME MachineInv, run = "running", NEW how \in States \ {"no", "running"}, Halt(how),
           UNCHANGED ended
    PROVE  MachineInv'
  BY DEF MachineInv, Halt, StackInv, OutInv, LoopsInv, States

LEMMA StartKeeps == ASSUME CompilerInv, MachineInv, StartMain, UNCHANGED compiler_vars PROVE MachineInv'
<1>1. UNCHANGED <<blocks, ended>> /\ ended = "return 0" /\ loops = <<>>
  BY DEF StartMain, compiler_vars, MachineInv
<1>2. PICK R : Final(blocks, R)
  BY <1>1, ProgramIsFinal
<1> DEFINE first == [block |-> 1, at |-> 1]
<1>3. 1 \in DOMAIN blocks /\ blocks[1].within = {} /\ R[1] \subseteq {1}
  BY <1>2 DEF Final, Cert
<1>4. 1 \in DOMAIN blocks[1].body /\ Computed(blocks, DOMAIN regs, 1, 1)
  BY <1>2, <1>3, Begins
<1>5. Len(loops) = 0 /\ Place(loops, first, 0) = first
  BY <1>1 DEF Place
<1>6. RunsAt(blocks, DOMAIN regs, loops, first, 0)
  <2>1. {Place(loops, first, j).block : j \in 0..(0 - 1)} = {}
    OBVIOUS
  <2>2. first \in [block: DOMAIN blocks, at: Nat] /\ first.block = 1 /\ first.at = 1
    BY <1>3
  <2> HIDE DEF first
  <2> QED
    BY <1>3, <1>4, <1>5, <2>1, <2>2, FS_EmptySet DEF RunsAt
<1>7. Runs(blocks, R, DOMAIN regs, loops, first)
  <2>1. \A k \in 0..0 : k = 0
    OBVIOUS
  <2> QED
    BY <1>3, <1>5, <1>6, <2>1 DEF Runs
<1>8. RunningInv'
  BY <1>1, <1>2, <1>7 DEF RunningInv, StartMain, GoTo
<1> QED
  BY <1>1, <1>8 DEF MachineInv, StartMain, StackInv, OutInv, LoopsInv, States

LEMMA StackKept == ASSUME StackInv, UNCHANGED stack PROVE StackInv'
  BY DEF StackInv

LEMMA AllocaKeeps ==
    ASSUME MachineInv, ExecAlloca, UNCHANGED <<blocks, ended>>
    PROVE  MachineInv'
<1>1. run = "running" /\ ThisOp.op = "alloca"
  BY DEF ExecAlloca, Executing
<1>2. CASE Len(stack) = StackSlots
  BY <1>1, <1>2, HaltKeeps DEF ExecAlloca, States
<1>3. CASE Len(stack) # StackSlots
  <2>1. /\ stack' = Append(stack, <<>>) /\ Give(Len(stack) + 1) /\ NextOp
        /\ UNCHANGED <<loops, out, junk, run>>
    BY <1>3 DEF ExecAlloca
  <2>2. RunningInv'
    BY <1>1, <2>1, NextKeepsRunning, GivenPlaces DEF MachineInv, Terminators
  <2>3. StackInv'
    <3>1. PICK S : stack \in Seq(Slots(S))
      BY DEF MachineInv, StackInv
    <3>2. Len(stack) <= StackSlots /\ Len(stack) \in Nat /\ StackSlots \in Nat
      <4>1. Len(stack) <= StackSlots
        BY DEF MachineInv, StackInv
      <4>2. Len(stack) \in Nat
        BY <3>1
      <4> QED
        BY <4>1, <4>2, Bounds
    <3>3. stack' \in Seq(Slots(S)) /\ Len(stack') = Len(stack) + 1
      BY <2>1, <3>1 DEF Slots
    <3> QED
      BY <1>3, <3>2, <3>3 DEF StackInv
  <2> QED
    BY <1>1, <2>1, <2>2, <2>3 DEF MachineInv, OutInv, LoopsInv
<1> QED
  BY <1>2, <1>3

LEMMA StoreKeeps ==
    ASSUME MachineInv, ExecStore, UNCHANGED <<blocks, ended>>
    PROVE  MachineInv'
<1>1. /\ run = "running" /\ ThisOp.op = "store" /\ NextOp
      /\ stack' = [stack EXCEPT ![Operand(2)] = <<Operand(1)>>]
      /\ UNCHANGED <<regs, loops, out, junk, run>>
  BY DEF ExecStore, Executing
<1>2. RunningInv'
  BY <1>1, NextKeepsRunning DEF MachineInv, Terminators, Giving
<1>3. StackInv'
  <2>1. PICK S : stack \in Seq(Slots(S))
    BY DEF MachineInv, StackInv
  <2> DEFINE x == Operand(1)
             slot == Operand(2)
             T == Slots(S \cup {x})
  <2>2. Slots(S) \subseteq T /\ <<x>> \in T
    BY DEF Slots
  <2>3. stack \in Seq(T) /\ stack' = [stack EXCEPT ![slot] = <<x>>]
    BY <1>1, <2>1, <2>2, Widened
  <2>4. stack' \in Seq(T) /\ Len(stack') = Len(stack)
    <3> HIDE DEF T, slot, x
    <3> QED
      BY <2>2, <2>3, Replaced
  <2> QED
    BY <2>4 DEF MachineInv, StackInv
<1> QED
  BY <1>1, <1>2, <1>3 DEF MachineInv, OutInv, LoopsInv

LEMMA LoadKeeps ==
    ASSUME MachineInv, ExecLoad, UNCHANGED <<blocks, ended>>
    PROVE  MachineInv'
<1>1. run = "running" /\ ThisOp.op = "load"
  BY DEF ExecLoad, Executing
<1>2. CASE Halt("undefined")
  BY <1>1, <1>2, HaltKeeps DEF States
<1>3. CASE ~Halt("undefined")
  <2>1. (\E x : Give(x)) /\ NextOp /\ UNCHANGED <<stack, loops, out, run>>
    BY <1>3 DEF ExecLoad
  <2>2. RunningInv'
    BY <1>1, <2>1, NextKeepsRunning, GivenPlaces DEF MachineInv, Terminators
  <2> QED
    BY <1>1, <2>1, <2>2 DEF MachineInv, StackInv, OutInv, LoopsInv
<1> QED
  BY <1>2, <1>3

LEMMA ComputationKeeps ==
    ASSUME MachineInv, ExecComputation, UNCHANGED <<blocks, ended>>
    PROVE  MachineInv'
<1>1. run = "running" /\ ThisOp.op \in Computations
  BY DEF ExecComputation, Executing
<1>2. CASE DivisionTraps
  BY <1>1, <1>2, HaltKeeps DEF ExecComputation, States
<1>3. CASE ~DivisionTraps
  <2>1. Give(ResultOf(ThisOp.op)) /\ NextOp /\ UNCHANGED <<stack, loops, out, junk, run>>
    BY <1>3 DEF ExecComputation
  <2>2. RunningInv'
    BY <1>1, <2>1, NextKeepsRunning, GivenPlaces DEF MachineInv, Terminators, Computations
  <2> QED
    BY <1>1, <2>1, <2>2 DEF MachineInv, StackInv, OutInv, LoopsInv
<1> QED
  BY <1>2, <1>3

LEMMA UpdateKeeps ==
    ASSUME MachineInv, ExecUpdate, UNCHANGED <<blocks, ended>>
    PROVE  MachineInv'
<1>1. run = "running" /\ ThisOp.op \in {"empty", "put", "keep"}
  BY DEF ExecUpdate, Executing
<1>2. CASE ThisOp.op = "put" /\ ThisOp.args[3].type = "vector"
  BY <1>1, <1>2, HaltKeeps DEF ExecUpdate, States
<1>3. CASE ~(ThisOp.op = "put" /\ ThisOp.args[3].type = "vector")
  <2>1. DOMAIN regs' = DOMAIN regs /\ NextOp /\ UNCHANGED <<stack, loops, out, junk, run>>
    BY <1>3 DEF ExecUpdate
  <2>2. RunningInv'
    BY <1>1, <2>1, NextKeepsRunning DEF MachineInv, Terminators, Giving
  <2> QED
    BY <1>1, <2>1, <2>2 DEF MachineInv, StackInv, OutInv, LoopsInv
<1> QED
  BY <1>2, <1>3

LEMMA PrintKeeps ==
    ASSUME MachineInv, ExecPrint, UNCHANGED <<blocks, ended>>
    PROVE  MachineInv'
<1>1. run = "running" /\ ThisOp.op \in {"printf", "print_vector"}
  BY DEF ExecPrint, Executing
<1>2. CASE Len(out) = MaxLines
  BY <1>1, <1>2, HaltKeeps DEF ExecPrint, States
<1>3. CASE Len(out) # MaxLines
  <2>1. PICK line : out' = Append(out, line)
    BY <1>3 DEF ExecPrint
  <2>2. NextOp /\ UNCHANGED <<regs, stack, loops, junk, run>>
    BY <1>3 DEF ExecPrint
  <2>3. RunningInv'
    BY <1>1, <2>2, NextKeepsRunning DEF MachineInv, Terminators, Giving
  <2>4. OutInv'
    <3>1. PICK S : out \in Seq(S)
      BY DEF MachineInv, OutInv
    <3> DEFINE T == S \cup {line}
    <3>2. out \in Seq(T) /\ line \in T
      BY <3>1, Widened
    <3> HIDE DEF T
    <3>3. out' \in Seq(T) /\ Len(out') = Len(out) + 1 /\ Len(out) \in Nat
      BY <2>1, <3>2
    <3> QED
      <4>1. Len(out) <= MaxLines
        BY DEF MachineInv, OutInv
      <4>2. Len(out') <= MaxLines
        BY <1>3, <3>3, <4>1, Bounds
      <4> QED
        BY <3>3, <4>2 DEF OutInv
  <2> QED
    BY <1>1, <2>2, <2>3, <2>4 DEF MachineInv, StackInv, LoopsInv
<1> QED
  BY <1>2, <1>3

\* The shape of the operation the machine is at.
LEMMA ShapeOfThisOp ==
    ASSUME NEW R, Final(blocks, R), Runs(blocks, R, DOMAIN regs, loops, pc)
    PROVE  /\ OpShape(blocks, pc.block, ThisOp) /\ ThisOp \in Operation
           /\ pc \in [block: DOMAIN blocks, at: Nat] /\ pc.at \in DOMAIN blocks[pc.block].body
           /\ Len(loops) = Cardinality(blocks[pc.block].within) /\ IsFiniteSet(blocks[pc.block].within)
<1>1. /\ pc \in [block: DOMAIN blocks, at: Nat] /\ pc.at \in DOMAIN blocks[pc.block].body
      /\ Place(loops, pc, Len(loops)) = pc /\ RunsAt(blocks, DOMAIN regs, loops, pc, Len(loops))
  BY WhereItIs
<1>2. BlockShape(blocks, pc.block)
  BY <1>1 DEF Final, Shaped
<1>3. ThisOp \in Operation
  <2>1. blocks[pc.block].body \in Seq(Operation)
    BY <1>1, Bodies DEF Final
  <2> QED
    BY <1>1, <2>1 DEF ThisOp
<1> QED
  BY <1>1, <1>2, <1>3 DEF BlockShape, ThisOp, RunsAt

LEMMA BranchKeeps ==
    ASSUME MachineInv, ExecBranch, UNCHANGED <<blocks, ended>>
    PROVE  MachineInv'
<1>1. run = "running" /\ ThisOp.op \in Branches /\ UNCHANGED <<regs, stack, loops, out, junk, run>>
  BY DEF ExecBranch, Executing, Branches
<1>2. PICK R : Final(blocks, R) /\ Runs(blocks, R, DOMAIN regs, loops, pc)
  BY <1>1 DEF MachineInv, RunningInv
<1>3. 1 \in DOMAIN ThisOp.to /\ (ThisOp.op = "cond_br" => 2 \in DOMAIN ThisOp.to)
  BY <1>1, <1>2, ShapeOfThisOp DEF OpShape
<1>4. PICK k \in DOMAIN ThisOp.to : pc' = [block |-> ThisOp.to[k], at |-> 1]
  BY <1>3 DEF ExecBranch, GoTo
<1>5. Runs(blocks, R, DOMAIN regs, loops, pc')
  BY <1>1, <1>2, <1>4, Jumped DEF ThisOp
<1>6. RunningInv'
  BY <1>1, <1>2, <1>5 DEF RunningInv
<1> QED
  BY <1>1, <1>6 DEF MachineInv, StackInv, OutInv, LoopsInv

LEMMA RegionKeeps ==
    ASSUME MachineInv, ExecRegion, UNCHANGED <<blocks, ended>>
    PROVE  MachineInv'
<1>1. run = "running" /\ ThisOp.op \in Regional /\ UNCHANGED <<stack, out, junk, run>>
  BY DEF ExecRegion, Executing, Regional
<1>2. ThisOp.op \notin Terminators /\ ThisOp.op \notin Giving
  BY <1>1, GivingIsNoTerminator DEF Regional, Terminators
<1>3. CASE NextOp /\ UNCHANGED <<loops, regs>>
  <2>1. RunningInv'
    BY <1>1, <1>2, <1>3, NextKeepsRunning DEF MachineInv
  <2> QED
    BY <1>1, <1>3, <2>1 DEF MachineInv, StackInv, OutInv, LoopsInv
<1>4. CASE ~(NextOp /\ UNCHANGED <<loops, regs>>)
  <2> DEFINE g == ThisOp.to[1]
             p == [pc EXCEPT !.at = @ + 1]
  <2>1. PICK l, x : /\ loops' = Append(loops, l) /\ l.region = g /\ l.resume = p
                    /\ regs' = Written(<<g, 0>>, x) /\ pc' = [block |-> g, at |-> 1]
    <3> DEFINE from == IF ThisOp.op = "for" THEN Operand(1) ELSE 0
               size == IF ThisOp.op = "for" THEN Operand(2)
                       ELSE IF Operand(1) # Operand(2) THEN 1 ELSE 0
               l == [region |-> g, size |-> size, resume |-> p]
    <3>1. loops' = Append(loops, l) /\ regs' = Written(<<g, 0>>, from) /\ GoTo(g)
      BY <1>4 DEF ExecRegion
    <3>2. l.region = g /\ l.resume = p
      OBVIOUS
    <3> QED
      BY <3>1, <3>2 DEF GoTo
  <2>2. PICK R : Final(blocks, R) /\ Runs(blocks, R, DOMAIN regs, loops, pc)
    BY <1>1 DEF MachineInv, RunningInv
  <2>3. Runs(blocks, R, DOMAIN regs, loops, p)
    BY <1>2, <2>2, Advanced DEF ThisOp
  <2>4. Encloses(blocks, p, g)
    <3>1. /\ OpShape(blocks, pc.block, ThisOp) /\ ThisOp \in Operation
          /\ pc \in [block: DOMAIN blocks, at: Nat] /\ pc.at \in DOMAIN blocks[pc.block].body
      BY <2>2, ShapeOfThisOp
    <3>2. 1 \in DOMAIN ThisOp.to
      BY <1>1, <3>1 DEF OpShape, Operation
    <3>3. p.at - 1 = pc.at /\ p.block = pc.block
      BY <3>1
    <3> QED
      BY <1>1, <3>1, <3>2, <3>3 DEF Encloses, ThisOp
  <2>5. PICK S : loops \in Seq(S)
    BY DEF MachineInv, LoopsInv
  <2> DEFINE T == S \cup {l}
  <2>6. loops \in Seq(T) /\ l \in T
    BY <2>5, Widened
  <2>7. DOMAIN regs \subseteq DOMAIN regs' /\ <<g, 0>> \in DOMAIN regs'
    BY <2>1 DEF Written
  <2> HIDE DEF g, p, T
  <2>8. Runs(blocks, R, DOMAIN regs', loops', pc')
    BY <2>1, <2>2, <2>3, <2>4, <2>6, <2>7, Entered
  <2>9. loops' \in Seq(T)
    BY <2>1, <2>6
  <2>10. RunningInv' /\ LoopsInv'
    BY <2>2, <2>8, <2>9 DEF RunningInv, LoopsInv
  <2> QED
    BY <1>1, <2>10 DEF MachineInv, StackInv, OutInv
<1> QED
  BY <1>3, <1>4

LEMMA YieldKeeps ==
    ASSUME MachineInv, ExecYield, UNCHANGED <<blocks, ended>>
    PROVE  MachineInv'
<1>1. run = "running" /\ ThisOp.op = "yield" /\ UNCHANGED <<stack, out, junk, run>>
  BY DEF ExecYield, Executing
<1>2. PICK R : Final(blocks, R) /\ Runs(blocks, R, DOMAIN regs, loops, pc)
  BY <1>1 DEF MachineInv, RunningInv
<1>3. Len(loops) # 0
  <2>1. blocks[pc.block].within # {}
    BY <1>1, <1>2, ShapeOfThisOp DEF OpShape
  <2> QED
    BY <1>2, <2>1, ShapeOfThisOp, FS_EmptySet
<1>4. PICK S : loops \in Seq(S)
  BY DEF MachineInv, LoopsInv
<1>5. CASE GoTo(Top(loops).region) /\ DOMAIN regs' = DOMAIN regs /\ UNCHANGED loops
  <2>1. Runs(blocks, R, DOMAIN regs', loops', pc')
    BY <1>2, <1>3, <1>5, Again DEF GoTo
  <2>2. RunningInv' /\ LoopsInv'
    BY <1>2, <1>4, <1>5, <2>1 DEF RunningInv, LoopsInv
  <2> QED
    BY <1>1, <2>2 DEF MachineInv, StackInv, OutInv
<1>6. CASE pc' = Top(loops).resume /\ loops' = Pop(loops) /\ UNCHANGED regs
  <2>1. Runs(blocks, R, DOMAIN regs', loops', pc')
    BY <1>2, <1>3, <1>4, <1>6, Left
  <2>2. loops' \in Seq(S)
    <3>1. loops # <<>>
      BY <1>3, <1>4
    <3> QED
      BY <1>4, <1>6, <3>1, TopAndPop
  <2>3. RunningInv' /\ LoopsInv'
    BY <1>2, <2>1, <2>2 DEF RunningInv, LoopsInv
  <2> QED
    BY <1>1, <2>3 DEF MachineInv, StackInv, OutInv
<1> QED
  BY <1>5, <1>6 DEF ExecYield

LEMMA ExecuteKeeps == ASSUME CompilerInv, MachineInv, Execute PROVE CompilerInv' /\ MachineInv'
<1>1. UNCHANGED compiler_vars /\ UNCHANGED <<blocks, ended>>
  BY DEF Execute, compiler_vars
<1>2. CompilerInv'
  BY <1>1, CompilerInvStep
<1>3. ASSUME ExecReturn PROVE MachineInv'
  BY <1>1, <1>3, HaltKeeps DEF ExecReturn, Executing, States
<1>4. MachineInv'
  BY <1>1, <1>3, StartKeeps, AllocaKeeps, StoreKeeps, LoadKeeps, ComputationKeeps, UpdateKeeps,
     PrintKeeps, BranchKeeps, RegionKeeps, YieldKeeps DEF Execute
<1> QED
  BY <1>2, <1>4

\* The compiler takes no step after it ended.
LEMMA CompileKeeps == ASSUME CompilerInv, MachineInv, Compile PROVE CompilerInv' /\ MachineInv'
<1>1. CompilerNext /\ UNCHANGED machine_vars
  BY DEF Compile
<1>2. CompilerInv'
  BY <1>1, CompilerInvStep
<1>3. UNCHANGED <<pc, regs, stack, loops, out, junk, run>>
  BY <1>1 DEF machine_vars
<1>4. ended = "no"
  <2>1. main # "ended"
    BY <1>1 DEF CompilerNext, MissingArgument, Start, Validate, Generate, Abort, Verify, OpenOutput,
       LowerDialects, DumpLLVM
  <2> QED
    BY <2>1 DEF CompilerInv, MainInv
<1>5. run = "no"
  BY <1>4 DEF MachineInv
<1>6. MachineInv'
  BY <1>3, <1>5 DEF MachineInv, StackInv, OutInv, LoopsInv
<1> QED
  BY <1>2, <1>6

LEMMA MachineInvInit == MainInit => CompilerInv /\ MachineInv
<1> SUFFICES ASSUME MainInit PROVE CompilerInv /\ MachineInv
  OBVIOUS
<1>1. CompilerInv
  BY CompilerInvInit DEF MainInit
<1>2. <<>> \in Seq(Slots({})) /\ <<>> \in Seq({}) /\ Len(<<>>) = 0
  OBVIOUS
<1>3. 0 <= StackSlots /\ 0 <= MaxLines
  BY Bounds
<1> QED
  BY <1>1, <1>2, <1>3 DEF MainInit, MachineInv, StackInv, OutInv, LoopsInv, States

LEMMA MachineInvStep ==
    CompilerInv /\ MachineInv /\ [Compile \/ Execute \/ MainOver]_main_run_vars
        => CompilerInv' /\ MachineInv'
<1> SUFFICES ASSUME CompilerInv, MachineInv, [Compile \/ Execute \/ MainOver]_main_run_vars
             PROVE  CompilerInv' /\ MachineInv'
  OBVIOUS
<1>1. CASE UNCHANGED main_run_vars
  <2>1. UNCHANGED compiler_vars /\ UNCHANGED <<pc, regs, stack, loops, out, junk, run>>
    BY <1>1 DEF main_run_vars, machine_vars
  <2>2. CompilerInv' /\ UNCHANGED <<blocks, ended>>
    BY <2>1, CompilerInvStep DEF compiler_vars
  <2>3. MachineInv'
    BY <2>1, <2>2 DEF MachineInv, StackInv, OutInv, LoopsInv, RunningInv
  <2> QED
    BY <2>2, <2>3
<1> QED
  BY <1>1, ExecuteKeeps, CompileKeeps DEF MainOver

----------------------------------------------------------------------------
\* The generated main never goes to an operation that is not there, is in a region
\* exactly when the regions around it are running, and takes no operand that was not
\* computed, whatever the program and the path through its branches and loops.
THEOREM MainIsTyped == MainSpec => []MainTypeOK
<1>1. CompilerInv /\ MachineInv => MainTypeOK
  BY MachineTyped
<1> QED
  BY <1>1, MachineInvInit, MachineInvStep, PTL DEF MainSpec

=============================================================================
