----------------------------- MODULE MachineInt -----------------------------
(***************************************************************************)
(* The i32 arithmetic of the code vcalc generates: CreateIntArithmetic-    *)
(* Operation and CreateIntBooleanOperation (src/src/BackEnd.cpp:265-344)   *)
(* define int_add, int_less_than, ... in terms of LLVM's add, sub, mul,    *)
(* sdiv and icmp.  The width is a parameter: MaxInt is 2^31 - 1 there.     *)
(***************************************************************************)
EXTENDS Integers

CONSTANT MaxInt     \* the largest int

ASSUME MachineIntAssumption == MaxInt \in Nat \ {0}

MinInt == -MaxInt - 1
MachineInt == MinInt..MaxInt

\* What is not an int, beside the ints that a word or a printed line may hold.
Junk == MaxInt + 1          \* a word that was never stored to
Pointer == MaxInt + 2       \* half of a stored address
Space == MaxInt + 3         \* the character

\* LLVM's add, sub and mul keep the low bits.
Wrap(x) == ((x + MaxInt + 1) % (2 * (MaxInt + 1))) - (MaxInt + 1)

ArithmeticOps == {"add", "sub", "mul", "div"}
BooleanOps == {"less_than", "greater_than", "equal", "nequal"}
IntOps == ArithmeticOps \cup BooleanOps

\* sdiv rounds towards zero.
Abs(x) == IF x < 0 THEN -x ELSE x
Quotient(x, y) == IF (x < 0) = (y < 0) THEN Abs(x) \div Abs(y) ELSE -(Abs(x) \div Abs(y))

\* The operands for which sdiv is undefined.
Undefined(op, x, y) == op = "div" /\ (y = 0 \/ (x = MinInt /\ y = -1))

BoolToInt(b) == IF b THEN 1 ELSE 0

IntOperation(op, x, y) ==
    CASE op = "add"          -> Wrap(x + y)
      [] op = "sub"          -> Wrap(x - y)
      [] op = "mul"          -> Wrap(x * y)
      [] op = "div"          -> Quotient(x, y)
      [] op = "less_than"    -> BoolToInt(x < y)
      [] op = "greater_than" -> BoolToInt(y < x)
      [] op = "equal"        -> BoolToInt(x = y)
      [] op = "nequal"       -> BoolToInt(x # y)
=============================================================================
