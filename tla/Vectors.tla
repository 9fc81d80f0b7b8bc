------------------------------ MODULE Vectors ------------------------------
(***************************************************************************)
(* The values of vcalc's operations on vectors, as sequences of ints: what *)
(* VectorSpec says the generated functions return and what GeneratedMain   *)
(* computes with.                                                          *)
(***************************************************************************)
EXTENDS MachineInt, Sequences

Padding(op) == IF op = "div" THEN 1 ELSE 0
Longer(v, w) == IF Len(v) < Len(w) THEN Len(w) ELSE Len(v)
At(v, i, default) == IF i \in 1..Len(v) THEN v[i] ELSE default

\* The shorter operand is padded: the left one with 0, the right one with 0 or,
\* for a division, with 1.
Zip(op, v, w) ==
    [i \in 1..Longer(v, w) |-> IntOperation(op, At(v, i, 0), At(w, i, Padding(op)))]
ZipUndefined(op, v, w) ==
    \E i \in 1..Longer(v, w) : Undefined(op, At(v, i, 0), At(w, i, Padding(op)))

Interval(n, m) == [i \in 1..(IF m < n THEN 0 ELSE m - n + 1) |-> n + i - 1]
Repeat(n, x) == [i \in 1..n |-> x]
IndexBy(v, w) == [i \in 1..Len(w) |-> At(v, w[i] + 1, 0)]

\* The elements of v for which the body returned something but zero, in order.
KeptOf(v, body) ==
    LET kept[n \in 0..Len(body)] ==
          IF n = 0 THEN <<>>
          ELSE IF body[n] = 0 THEN kept[n - 1] ELSE Append(kept[n - 1], v[n])
    IN  kept[Len(body)]

\* The line print_vector writes.
Line(v) ==
    [i \in 1..(IF v = <<>> THEN 0 ELSE 2 * Len(v) - 1) |->
        IF i % 2 = 1 THEN v[(i + 1) \div 2] ELSE Space]
=============================================================================
