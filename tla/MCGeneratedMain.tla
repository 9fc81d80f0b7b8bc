-------------------------- MODULE MCGeneratedMain --------------------------
(***************************************************************************)
(* Model checking the generated main against the meaning of the source     *)
(* program: an interpreter of the visits of the tree that knows statements *)
(* and blocks, but no branches, slots, symbols or scopes.  Names live in a *)
(* stack of blocks and stand for what the innermost block has declared by  *)
(* then; a name is declared before its initializer is evaluated.           *)
(***************************************************************************)
EXTENDS GeneratedMain

CONSTANTS
    Fuel,       \* bound: iterations of loops that the interpreter makes
    Budget,     \* bound: kind of node -> nodes of that kind in a program
    VariableTypes   \* bound: types of the variables it declares

\* Nodes that the walk has begun; an initializer counts as an ASSIGN.
Begun(kind) ==
    Cardinality({i \in DOMAIN ast : ast[i].node = IF kind = "IF" THEN "IF_BODY" ELSE kind}) +
    Cardinality({i \in DOMAIN calls : kind \in Statements \ {"LOOP"} /\ calls[i].visit = kind})
WithinBudget ==
    /\ \A kind \in DOMAIN Budget : Begun(kind) <= Budget[kind]
    /\ \A i \in DOMAIN ast : ast[i].node = "DECL" => ast[i].refs[1] \in VariableTypes

LoopAndIf == [k \in Statements |-> IF k \in {"DECL", "ASSIGN"} THEN 2 ELSE 1]
OneOfEach == [k \in NodeKinds |-> CASE k = "DOTS" -> 2 [] k = "INT" -> 3 [] k = "ID" -> 2 [] OTHER -> 1]

\* The value for IntOf.
LiteralValue == [l \in IntLiteral |-> CASE l = "0" -> 0 [] l = "1" -> 1 [] l = "2" -> 2]

\* The lowest visit after i of one of the kinds, at which as many nodes of the kind
\* of i were ended as begun.
CountOf(nodes, i, j) == Cardinality({k \in i..j : ast[k].node \in nodes})
MatchOf(i, first, last) ==
    CHOOSE j \in i..Len(ast) :
        /\ ast[j].node = last
        /\ CountOf({first}, i, j) = CountOf({last}, i, j)
        /\ \A k \in i..(j - 1) : CountOf({first}, i, k) > CountOf({last}, i, k)

\* vals: operands; env: the blocks around, each a function from the names declared
\* so far to <<>> or <<value>>.
Start0 == [vals |-> <<>>, env |-> <<>>, out |-> <<>>, fuel |-> Fuel, status |-> "ok"]

Fail(s, how) == [s EXCEPT !.status = how]
Push(s, x) == [s EXCEPT !.vals = Append(@, x)]
Drop(s) == [s EXCEPT !.vals = Pop(@)]
Holder(env, name) ==
    CHOOSE k \in DOMAIN env :
        name \in DOMAIN env[k] /\ \A l \in (k + 1)..Len(env) : name \notin DOMAIN env[l]
Bind(s, k, name, value) == [s EXCEPT !.env[k] = (name :> value) @@ @]
Bound(s, name) == s.env[Holder(s.env, name)][name]

\* An int beside a vector is used with each element.
ValueOf(op, f, l, r, x, y) ==
    CASE op = "DOTS"  -> Interval(x, y)
      [] op = "INDEX" -> IF r = "int" THEN At(x, y + 1, 0) ELSE IndexBy(x, y)
      [] OTHER -> IF l = "int" /\ r = "int" THEN IntOperation(f, x, y)
                  ELSE IF l = "int" THEN [i \in DOMAIN y |-> IntOperation(f, x, y[i])]
                  ELSE IF r = "int" THEN [i \in DOMAIN x |-> IntOperation(f, x[i], y)]
                  ELSE Zip(f, x, y)
Traps(op, f, l, r, x, y) ==
    op \in {"ARITH", "BOOL"} /\
    IF l = "int" /\ r = "int" THEN Undefined(f, x, y)
    ELSE IF l = "int" THEN \E i \in DOMAIN y : Undefined(f, x, y[i])
    ELSE IF r = "int" THEN \E i \in DOMAIN x : Undefined(f, x[i], y)
    ELSE ZipUndefined(f, x, y)

\* A visit that does not decide about others.
Effect(v, s) ==
    LET x == Top(s.vals)
        y == Top(Pop(s.vals))
        f == IF v.node = "ARITH" THEN ArithOp ELSE BoolOp
    IN  CASE v.node = "BLOCK"     -> [s EXCEPT !.env = Append(@, <<>>)]
          [] v.node = "BLOCK_END" -> [s EXCEPT !.env = Pop(@)]
          [] v.node = "IF_END"    -> s
          [] v.node = "DECL"      -> Bind(s, Len(s.env), v.text, <<>>)
          [] v.node = "ASSIGN"    -> Drop(Bind(s, Holder(s.env, v.text), v.text, <<x>>))
          [] v.node = "INT"       -> Push(s, IntOf[v.text])
          [] v.node = "ID"        -> IF Bound(s, v.text) = <<>> THEN Fail(s, "undefined")
                                     ELSE Push(s, Bound(s, v.text)[1])
          [] v.node = "PRINT"     ->
                IF Len(s.out) = MaxLines THEN Fail(s, "cut")
                ELSE Drop([s EXCEPT !.out = Append(@,
                         IF v.refs[1] = "int" THEN <<"int", x>> ELSE <<"vector", Line(x)>>)])
          [] v.node \in Ops       ->
                IF Traps(v.node, f, v.refs[1], v.refs[2], y, x) THEN Fail(s, "trapped")
                ELSE Push(Drop(Drop(s)), ValueOf(v.node, f, v.refs[1], v.refs[2], y, x))

RECURSIVE Run(_, _, _), Loop(_, _, _), Each(_, _, _, _, _)

\* The visits from i to j.
Run(i, j, s) ==
    IF i > j \/ s.status # "ok" THEN s
    ELSE LET v == ast[i]
         IN  CASE v.node = "LOOP" ->
                    LET end == MatchOf(i, "LOOP", "LOOP_END") IN Run(end + 1, j, Loop(i, end, s))
               [] v.node = "IF_BODY" ->
                    LET end == MatchOf(i, "IF_BODY", "IF_END")
                    IN  Run(end + 1, j, IF Top(s.vals) = 0 THEN Drop(s) ELSE Run(i + 1, end - 1, Drop(s)))
               [] v.node \in ScopedOps ->
                    LET end == MatchOf(i, v.node, EndOf(v.node))
                    IN  Run(end + 1, j, Each(i, end, Top(s.vals), <<>>, Drop(s)))
               [] OTHER -> Run(i + 1, j, Effect(v, s))

\* A loop, from its condition on.
Loop(i, end, s) ==
    LET body == CHOOSE k \in i..end : ast[k].node = "LOOP_BODY" /\ CountOf({"LOOP_BODY"}, i, k) = 1
        cond == Run(i + 1, body - 1, s)
    IN  IF cond.status # "ok" THEN cond
        ELSE IF Top(cond.vals) = 0 THEN Drop(cond)
        ELSE IF cond.fuel = 0 THEN Fail(cond, "cut")
        ELSE Loop(i, end, Run(body + 1, end - 1, [Drop(cond) EXCEPT !.fuel = @ - 1]))

\* A generator or filter, after the values of the body for the first elements.
Each(i, end, domain, body, s) ==
    IF s.status # "ok" THEN s
    ELSE IF Len(body) = Len(domain)
         THEN Push(s, IF ast[i].node = "FILTER" THEN KeptOf(domain, body) ELSE body)
    ELSE LET x    == domain[Len(body) + 1]
             opened == [s EXCEPT !.env = Append(@, ast[i].text :> <<x>>)]
             value  == Run(i + 1, end - 1, opened)
         IN  IF value.status # "ok" THEN value
             ELSE IF ast[end].refs[1] = "vector" THEN Fail(value, "undefined")
             ELSE Each(i, end, domain, Append(body, Top(value.vals)),
                       [Drop(value) EXCEPT !.env = Pop(@)])

Meaning == Run(1, Len(ast), Start0)

----------------------------------------------------------------------------
\* The programs of a run, compiled and executed.
MCSpec ==
    /\ MainInit
    /\ [][(Compile /\ WithinBudget') \/ Execute \/ MainOver]_main_run_vars
    /\ WF_main_run_vars(Execute)

(***************************************************************************)
(* OutputIsTheMeaning: what main prints is what the source says, line by   *)
(* line, and main ends as the source does: whatever names blocks redeclare *)
(* and however branches, loops and scoped expressions nest.  It is looked  *)
(* at when a line is to be printed and when main is over.  A program whose *)
(* meaning is undefined agrees up to that point.                           *)
(***************************************************************************)
PrefixOf(p, q) == Len(p) <= Len(q) /\ p = SubSeq(q, 1, Len(p))
Over == run \notin {"no", "running"}
OutputIsTheMeaning ==
    (Over \/ Executing({"printf", "print_vector"})) =>
        LET m == Meaning
        IN  /\ PrefixOf(out, m.out) \/ (m.status # "ok" /\ PrefixOf(m.out, out))
            /\ run = "returned" => (m.status = "ok" /\ out = m.out) \/ junk \/ m.status = "cut"
            /\ run = "trapped" => (m.status = "trapped" /\ out = m.out) \/ junk \/ m.status = "cut"

(***************************************************************************)
(* JunkReadsAreInTheSource: main loads a slot that nothing was stored to   *)
(* only where the source reads a variable that was declared without a      *)
(* value (420): of another block, of an earlier iteration or of the        *)
(* iterator of a scoped expression it never reads a left over.             *)
(***************************************************************************)
JunkReadsAreInTheSource ==
    (Over /\ (junk \/ run = "undefined")) => LET m == Meaning IN m.status = "undefined" \/ m.status = "cut"

(***************************************************************************)
(* MeaningfulProgramsEnd: a program whose meaning ends is executed to its  *)
(* end, unless its stack overflows.                                        *)
(***************************************************************************)
Starting == run = "running" /\ regs = <<>>
MeaningfulProgramsEnd == (Starting /\ Meaning.status = "ok") ~> run \in {"returned", "overflow"}
=============================================================================
