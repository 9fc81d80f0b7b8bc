-------------------------- MODULE MCVectorRuntime --------------------------
(***************************************************************************)
(* Model checking the runtime functions against VectorSpec.                *)
(***************************************************************************)
EXTENDS VectorRuntime

\* Ints of MCVectorRuntime_operations: the range from one to the other indexes a vector of
\* one element before it, at it, and from the first word behind it on.
IndexInts == {-1, 13}

\* The calls of the program; increase_vector_size, for which an operation waits, is an
\* affair of the runtime.
Increasing(fs) == fs # <<>> /\ Top(fs).op = "increase_vector_size"
ProgramCalls(fs) == IF Increasing(fs) THEN Pop(fs) ELSE fs
PendingOf(f) == [op |-> f.op, args |-> f.args, body |-> f.body]
Pending(fs) == [k \in DOMAIN ProgramCalls(fs) |-> PendingOf(ProgramCalls(fs)[k])]

Values == [k \in DOMAIN vectors |-> Contents(vectors[k])]

Abstract == INSTANCE VectorSpec WITH values <- Values, pending <- Pending(frames), out <- out

(***************************************************************************)
(* ImplementsVectorSpec: the loads and stores of the runtime implement     *)
(* operations on values: what a call returns depends on its arguments only *)
(* and is what VectorSpec says.                                            *)
(***************************************************************************)
ImplementsVectorSpec == Abstract!VectorSpec
===========================================================================
