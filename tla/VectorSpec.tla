----------------------------- MODULE VectorSpec -----------------------------
(***************************************************************************)
(* What the vectors of vcalc promise a program: a vector is a value.  An   *)
(* operation on vectors is called, takes its time, and returns a new       *)
(* vector that depends on its arguments only; no vector ever changes.      *)
(* Memory, sizes and loops do not appear here.                             *)
(*                                                                         *)
(* A generator or a filter evaluates its body once for each element, and   *)
(* the body may call operations itself, so calls are a stack.              *)
(***************************************************************************)
EXTENDS Vectors

CONSTANTS
    Ints,       \* the ints that calls pass and bodies return, for checking
    Ops         \* the binary operations the program uses

VARIABLES
    values,     \* the vectors operations have returned, as sequences of ints
    pending,    \* the calls that have not returned
    out         \* the vectors printed, one line each

spec_vars == <<values, pending, out>>

Top(s) == s[Len(s)]
Pop(s) == SubSeq(s, 1, Len(s) - 1)

Domain(call) == values[call.args[1]]
Returned(call) ==
    CASE call.op = "vector_range"        -> Interval(call.args[1], call.args[2])
      [] call.op = "int_to_vector"       -> Repeat(call.args[1], call.args[2])
      [] call.op = "vector_index_vector" -> IndexBy(Domain(call), values[call.args[2]])
      [] call.op = "generator"           -> call.body
      [] call.op = "filter"              -> KeptOf(Domain(call), call.body)
      [] OTHER -> Zip(call.op, Domain(call), values[call.args[2]])

Scoped == {"generator", "filter"}
VectorArgs == Ops \cup {"vector_index_vector"}
InBody == pending # <<>> => Top(pending).op \in Scoped /\ Len(Top(pending).body) < Len(Domain(Top(pending)))

SpecCall(op, args) ==
    /\ InBody
    /\ pending' = Append(pending, [op |-> op, args |-> args, body |-> <<>>])
    /\ UNCHANGED <<values, out>>

\* The value of the body for the next element.
SpecBody(x) ==
    /\ pending # <<>> /\ InBody
    /\ pending' = Append(Pop(pending), [Top(pending) EXCEPT !.body = Append(@, x)])
    /\ UNCHANGED <<values, out>>

SpecReturn ==
    /\ pending # <<>>
    /\ Top(pending).op # "print_vector"
    /\ Top(pending).op \in Scoped => Len(Top(pending).body) = Len(Domain(Top(pending)))
    /\ Top(pending).op \in Ops =>
          ~ZipUndefined(Top(pending).op, Domain(Top(pending)), values[Top(pending).args[2]])
    /\ values' = Append(values, Returned(Top(pending)))
    /\ pending' = Pop(pending)
    /\ UNCHANGED out

SpecPrint ==
    /\ pending # <<>> /\ Top(pending).op = "print_vector"
    /\ out' = Append(out, Line(Domain(Top(pending))))
    /\ pending' = Pop(pending)
    /\ UNCHANGED values

SpecInit == values = <<>> /\ pending = <<>> /\ out = <<>>

SpecNext ==
    \/ \E n, m \in Ints : SpecCall("vector_range", <<n, m>>)
    \/ \E k \in DOMAIN values, x \in Ints : SpecCall("int_to_vector", <<Len(values[k]), x>>)
    \/ \E op \in VectorArgs, k, l \in DOMAIN values : SpecCall(op, <<k, l>>)
    \/ \E op \in Scoped \cup {"print_vector"}, k \in DOMAIN values : SpecCall(op, <<k>>)
    \/ \E x \in Ints : SpecBody(x)
    \/ SpecReturn
    \/ SpecPrint

VectorSpec == SpecInit /\ [][SpecNext]_spec_vars
=============================================================================
