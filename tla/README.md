# A verification project for vcalc

vcalc compiles a small language of 32 bit ints and vectors of ints to LLVM IR.
This directory holds TLA+ modules that model the compiler and the vector
functions and the `main` it generates, TLC configurations that check them on small instances,
and proofs that TLAPS checks for every instance.

    tlc -config MCDefRef.cfg MCDefRef.tla
    tlapm DefRef_proofs.tla

The modules `*_proofs` hold theorems and proofs only; nothing is assumed but the
named assumptions on the constants.

## The system

| component | source | state | operations |
|---|---|---|---|
| symbol tables | `src/Scope.cpp`, `include/Scope.h`, `Symbol`, `Type` | per scope a map from names to symbols and the enclosing scope; per variable symbol its type and, from code generation on, the MLIR value of its storage | `Define`, `Resolve`, `GetEnclosingScope` |
| grammar, parser | `grammar/VCalc.g4` and what ANTLR generates from it | tokens, parse tree, errors it recovered from | `parser.file()` |
| AstBuilder, Ast | `src/AstBuilder.cpp`, `src/Ast.cpp` | the tree; per node a scope and a reference to a symbol | one visit function per rule |
| DefRef | `src/AstVisitor.cpp:48-337` | `current_scope`, annotations of the nodes | one visit function per node kind; throws `std::runtime_error` |
| CodeGen | `src/AstVisitor.cpp:342-800` | its own `current_scope`, the stack `opperands`, storage of symbols, the builder's insertion point, the blocks of `main` | one visit function per node kind; `GenerateMlir` |
| BackEnd, at compile time | `src/BackEnd.cpp` | the MLIR module | `emitModule`, `lowerDialects`, `dumpLLVM`, and one function per runtime function to generate |
| vector runtime | the code that `BackEnd.cpp` and `AstVisitor.cpp:474-563` emit | memory, malloc's arena, the call stack, stdout | `vector_range`, `int_to_vector`, `vector_index`, `vector_index_vector`, `vector_add` ..., `match_vector_size`, `increase_vector_size`, `print_vector`; the loops of generators and filters |
| generated `main` | the code CodeGen emits | slots of the stack, registers, the place in the code, stdout | allocas, loads, stores, branches, regions of scf, calls |
| driver | `src/main.cpp` | the output file, the exit status | parse, build, DefRef, CodeGen, verify, open, lower, dump |
| AstDebugger | `src/AstVisitor.cpp:803-904` | none | prints the tree |

The compiler is one thread that runs its phases one after the other and keeps
nothing between runs. The parts interact through shared annotations: DefRef
leaves scopes and references in the nodes of the tree, and CodeGen walks the
same tree again, reads some of them and *recomputes* others (it resolves every
name a second time). CodeGen's visit functions hand values to each other on a
stack and share one insertion point. The generated code interacts with the
runtime through pointers whose layout three places in the source agree on
(`GenerateVectorTypePtr`, `VectorLoopMLIRFunction::Generate`, CodeGen's inline
loops).

What is hard here is therefore not concurrency but

- two walks that must agree on scopes and names although one of them sees
  complete symbol tables and the other sees tables that fill up;
- pushes and pops, of scopes, values and insertion points, spread over mutually
  recursive functions that nest in any order;
- a memory layout in which nothing but the sizes of malloc's blocks keeps
  vectors apart;
- nested runtime calls while an outer vector is half built;
- wrapping arithmetic at the limits, for sizes and indices;
- a parse tree with missing or left over parts, which nobody looks for;
- code that runs later: slots that are allocated anew in every iteration, blocks
  that are left and entered again, values of an earlier iteration;
- failing in the middle: exceptions nothing catches, a file truncated before
  the step that may fail.

What makes each component correct: lookups find the innermost earlier
declaration and scopes nest like the blocks (symbol tables, DefRef); the emitted
module is well formed for every validated program, with each variable's storage
made before it is used (CodeGen); the program prints what its source means
(generated main); every tree that is built can be walked (AstBuilder); the output
file is touched for code that verified only, and then holds all of it unless a pass or
the stream failed (driver); a vector is a value, computed from its arguments, that
never changes (runtime).

`PROJECT.json` lists the hazards with their lines and the properties that watch
them.

## Modules

    Scope <- DefRef <- CodeGen <- Compiler <- GeneratedMain <- MCGeneratedMain
               ^                     ^              v
               |                     |           Vectors <- VectorSpec
            MCDefRef             MCCompiler                      : refinement
               |                                                 :
    AstBuilder <- FrontEnd <- MCFrontEnd        VectorRuntime <- MCVectorRuntime

    DefRef_proofs <- CodeGen_proofs <- Verify_proofs <- Compiler_proofs <- GeneratedMain_proofs
    AstBuilder_proofs    VectorRuntime_proofs <- VectorSpec_proofs

(an arrow goes from a module to the module that extends it; `FrontEnd` extends
`AstBuilder` and `DefRef`, `GeneratedMain` extends `Compiler` and `Vectors`,
`Vectors` and `VectorRuntime` extend `MachineInt`; `MCVectorRuntime` instantiates
`VectorSpec`. Each `*_proofs` module also extends the module it is named for, but
`Verify_proofs`, which is about `Verifies` in `CodeGen`; `VectorSpec_proofs` extends
`MCVectorRuntime`, which has the refinement mapping)

**AstBuilder** models the visitor that makes the AST. As in DefRef, a context of
the parse tree is chosen when it is visited; the choice is what the rules of
`VCalc.g4` allow, and what ANTLR's error recovery leaves, because `main` does
not look at the parser's error count:

- a declaration without ID, an assignment without expression, an `if` or `loop`
  without condition or without body (a `match` that threw): the visit function
  uses a null pointer;
- an expression context the parser could make nothing of: it has no alternative;
- a token that was deleted or skipped in front of a closing bracket: it stays in
  the expression's context as an error node, and `ctx->ID()`, `ctx->INT()` or
  `ctx->ADD()` find it. An ID can only be left by the deletion of one token,
  since IDs are in every recovery set;
- a token the parser makes up (`int = 5;`, `a 5;`) is like one that was there.

Recovery never leaves an error node among the children of a block, and the first
child of a statement is always a context, so the `std::bad_any_cast` of
`AddChild` is not reachable and not an outcome. The parser chooses between a
generator and a filter behind the domain, which therefore has no error (`whole`).
`todo` is the C++ recursion: visits and AddChild calls to come.

**FrontEnd** hands the tree to DefRef: `VisitsOf` is the order in which
`AstWalker` and DefRef's functions visit its nodes, taking children by position,
and `Walk` is DefRef's action for the next of them. A position that does not
exist is a visit no action fits.

**Scope** models `BaseScope` and the symbols. A `shared_ptr` to a scope is its
index in a sequence of all scopes, null is 0. `Resolve` is written without
recursion: a scope carries the set of scopes around it (`chain`) and the answer
is the innermost one that declares the name. `MCDefRef` has the recursive walk
of `Scope.cpp:22-31` and checks that both answer the same.

**DefRef** models the first walk. There is no fixed program: the walk is depth
first and visits a node once, so a node is chosen nondeterministically when it
is visited, and the behaviours of the module are the walks over all programs up
to a bound. `calls` is the C++ recursion, `refs` are the types of the operands
visited so far, `scopes` and `current_scope` are the C++ members. Actions are
named for the visit functions; a function that visits children is split where
it calls `Visit` (`BeginStatement`/`EndASSIGN`, `EnterScoped`/`LeaveScoped`,
`EnterBody`/`EndConditional`). A throw is the action `Throw`. `ast` records the
visits in order with what was stored in the nodes. Operators are abstracted to
the four groups with their own typing rules (`ARITH`, `BOOL`, `DOTS`, `INDEX`).

**CodeGen** models the second walk, a replay of `ast` at `pos`. It emits
operations into blocks: records of the operation's name, the text it carries (a
literal, a variable, a type, a callee), its operands and the blocks it branches to
or contains. An operand is the place of the operation that computes it, with its
type, as in SSA form. `Verifies` is an external model of `mlir::verify` over those
operations: terminators only at the end of blocks, definitions dominate uses
(`Dominates` is the existence of a set of blocks, not an algorithm; a value of a
block around a region must be computed before the operation the region belongs to,
`ComesBefore`), operand types fit what the operation or the callee takes. A null `mlir::Value` in a load or
store crashes; `std::stoi` throws on literals that are not in `IntLiteral`.

**Compiler** is the process: `main` runs both walks, verifies, truncates the
output file, lowers, dumps. That a pass of MLIR fails is a choice of the
environment (`LoweringMayFail`), and so is that the output stream does not open, or
fails while it is written or closed (`OutputMayFail`). `os` is the stream with its
failbit, which `main` never asks for: it goes on with a stream that is not open.

**MachineInt** is i32 arithmetic with the width as a parameter.
**GeneratedMain** runs what was emitted: when the compiler has returned 0, a
machine executes the blocks of `main`, one operation per step, with registers
(`regs`, by the place of the operation), the stack that `alloca` grows and only
the return of `main` gives back, branches, the regions of `scf.for` and `scf.if`,
and the lines printed. LLVM's operations are external; which operations stand
where is CodeGen's. A load of a slot nothing was stored to gives a left over (a
choice among `Leftovers`) and is remembered in `junk`; as a vector, or as the
vector body of a generator, it is the end `undefined`. Vectors are values here,
which `VectorRuntime` implements. `MCGeneratedMain` has the other side: an
interpreter of the source (`Meaning`) that knows blocks and statements but no
slots, scopes or branches.

**Vectors** has the operations on vectors as values.
**VectorSpec** says what vectors promise: calls return new values, nothing
changes. **VectorRuntime** models the generated functions at the level of words:
`mem`, malloc's `brk`, registers and program counters in `frames`. One loop
iteration is one action; allocation, size matching, the entry into a body and
its end are actions of their own, because bodies call the runtime again in
between. `VectorIndex` and `cond_copy_arr` (`CopyValue`) are operators, since
they only read or return.

## Runs

| run | module, configuration | distinct states | what it shows |
|---|---|---|---|
| `defref` | `MCDefRef.cfg` | 239,000 | scopes are pushed and popped in step with the nodes; a name resolves to the nearest of the earlier declarations around it; a symbol is never shadowed by its own scope's older entry |
| `compiler_statements` | `MCCompiler_statements.cfg` | 841,000 | where the lookups of the two walks differ and that this is the only way to a variable without storage; the control flow graph of nested ifs and loops verifies; nothing is emitted into finished blocks; what each way to end leaves in the output file, with passes and streams that may fail |
| `compiler_expressions` | `MCCompiler_expressions.cfg` | 489,000 | the operand stack has what is popped from it, is balanced and agrees with DefRef's types through operations, generators and filters; regions nest; every compilation ends |
| `runtime_operations` | `MCVectorRuntime_operations.cfg` | 417,000 | vectors do not overlap, hold only ints that were stored, never change; operands are extended to equal size; indices before, inside and behind a vector; every result is `VectorSpec`'s |
| `runtime_scoped` | `MCVectorRuntime_scoped.cfg` | 194,000 | the same for generators and filters with runtime calls in their bodies; calls return |
| `main_statements` | `MCGeneratedMain_statements.cfg` | 700,000 | programs of declarations, assignments, a print, an `if` and a `loop` print what the source means and end when it does; a left over is read only where the source reads a variable without a value; where the lookups of the two walks differ, with a redeclaration in a body and another variable after it |
| `main_expressions` | `MCGeneratedMain_expressions.cfg` | 1,060,000 | the same for vectors, operations, indexing, nested generators and filters; the stack grows beyond one slot per declaration only in loops and scoped expressions |
| `front_end` | `MCFrontEnd.cfg` | 285,000 | every tree AstBuilder makes, from correct and incorrect files, is walked by DefRef to its end or to an error; statements without a syntax error get their tree whatever is wrong elsewhere |
| `late_shadow` | `MCCompiler_late_shadow.cfg` | violation | finding 1 |
| `scoped_body` | `MCCompiler_scoped_body.cfg` | violation | finding 2 |
| `range` | `MCVectorRuntime_range.cfg` | violation | finding 3 |
| `byte_count` | `MCVectorRuntime_byte_count.cfg` | violation | finding 4 |

Deadlock is checked in every run; a walk that returned, a process that ended
and a program between two calls stutter explicitly.

### Bounds

`MaxNodes` stops a walk from *starting* nodes once eight visits are recorded;
open nodes are finished, so programs have up to about fourteen visits. That is
enough for a declaration outside a block, a use inside it and a second
declaration after the use (the smallest late shadow), for an `if` inside a
`loop`, and for a filter inside a generator with an operation in the body.
`MaxOperands` is the number of pending operands, two for binary operations.
Two names are the least for shadowing beside another variable. `Kinds` splits
the node kinds over two runs: statements with plain expressions, and nested
expressions with few statements. `defref` has both statements and, of the expressions, generators and indexing.
`IntLiteral` leaves out one literal, the one `std::stoi` rejects.

The runs of the generated main need longer programs of fewer kinds.
`main_statements` has one name and one int operand per expression, eleven visits,
and a budget per kind of statement: two declarations, two assignments, one each
of print, `if` and `loop`, which is enough for a redeclaration in a body, a body
that changes the loop's condition, and an `if` in a `loop`. `main_expressions`
has all expressions, ten visits, and a budget per kind of node: two ranges, three
literals, two uses of names and one of every other kind, which is enough for a
scoped expression in the domain or in the body of another and for one that is
indexed.
`ArithOp` is division where vectors are involved, the operation that pads with
one and that may trap. `Leftovers` are two ints, to see a branch go either way.
`Fuel` (iterations the interpreter makes), `MaxLines` and `StackSlots` cut runs
off; a run that was cut is compared up to that point. `MaxInt` is 7.

`MaxContexts` is four in `front_end`: no statement or operation is begun when
four contexts are visited, but their parts are completed, so trees have up to
about ten contexts. `MaxDamage` is two: one error beside a sound statement, and
one inside another. DefRef's own bounds are out of reach there.

In the runtime `MaxInt` is 63 (7 bit ints), so that sums and sizes wrap within
reach. `MaxSize` is 13 or, in `runtime_operations`, 15: with malloc's smallest block at six words (24 bytes, as
glibc gives for a request of eight), elements spill from the header's block into
the array's block at six and the array's block outgrows the smallest block at
seven elements, so vectors of one and of thirteen or more elements are on both sides
of both limits. The ints of `runtime_operations` are -1 and 13: ranges have none, one
or fifteen elements, and the range from -1 to 13 as the index of a vector with one
element asks for the one before it, the one it has and those behind it. A program that
asks for a larger vector stops. `MaxCalls` is three: a value,
a second one and an operation on both; or a domain, a scoped call and a call in
its body. `Gaps` lets malloc leave words between blocks or none.

### Fairness

Runs with liveness need it, and there is one assumption: a single thread that nothing
suspends takes its next step (`WF` of the whole next-state relation of the
compiler; of the steps inside functions, but not of the calls, in the runtime:
a program need not make another call, a body that was entered is evaluated; of
the machine in the runs of the generated main, and of DefRef's walk in
`front_end`, while compiling or building may stop at any point).
`CompilationEnds` is about the walks over finite trees: `MaxNodes` makes them
finite as a file does. `CallsReturn` excepts a division without a result and the
model's own bound on sizes. `MeaningfulProgramsEnd` is about programs whose
meaning ends; `BuiltTreesAreWalked` needs no exception.

## Findings

1. `late_shadow`: `int a = 1; if (a) a = 2; int a = 3; fi;` is validated and
   crashes the compiler. DefRef resolves the first assignment to the outer `a`;
   CodeGen, with complete tables, to the inner one, whose storage is not made
   yet (`AstVisitor.cpp:446`, `774`). `StorageUnlessShadowedLater` and
   `ReboundOnlyByLaterDeclaration` show that this is the only pattern, and are
   proved of every program. A declaration further down counts where its block is
   around the use but inside the variable's own (`ShadowedLater`); one further out
   changes nothing.
2. `scoped_body`: the body of a generator or filter may be a vector
   (`AstVisitor.cpp:230` does not look at its type), against the comment at 474.
   A filter then fails in the verifier (`exit(-1)`), and
   `VerifiesUnlessFilterBodyIsVector` shows that nothing else does. A generator
   stores the pointer.
3. `range`: the size of a range wraps (`BackEnd.cpp:609-610`), so wide ranges
   come out empty or wrong. With exactly 2^31 ints the size is the smallest int;
   `vector_index` subtracts one from it (`BackEnd.cpp:656`) and then takes every
   index for one inside, so that what it loads is anything: `ElementsAreInts` and
   the types of what is loaded hold until a size has wrapped there (`SizeWrapped`).
4. `byte_count`: the byte count of a vector's array, four times the size, is an
   i32 (`BackEnd.cpp:544`). For 2^30 ints it is 0, malloc gives its smallest block,
   and the elements lie in memory that is not the vector's. What is proved of
   the runtime is about sizes below that (`BytesFit`).

Not runs, but of the same kind:

- `main` does not look at its `std::ofstream` (`main.cpp:47`). With a path that cannot
  be opened, or a full disk, it returns 0 without the code in the file, against the
  comment at `BackEnd.cpp:118` ("dump into the output file"). `OutputIsAccountedFor`,
  which `compiler_statements` checks with streams that may fail, says what is in the
  file in each case.
- Elements are never stored in the array that is allocated for them
  (`BackEnd.cpp:546-552`), and the array's address is overwritten by elements
  of vectors with four or more. `VectorsDisjoint` shows that the two blocks
  together are large enough all the same while byte counts do not wrap.
- The comment on `int_to_vector` (`BackEnd.cpp:559-560`) has its arguments the
  other way round, and `BackEnd.h:114` says of `cond_print_space` that it prints
  "when two integer values are equal"; `BackEnd.cpp:145` compares with `ne`,
  which is the behaviour `print_vector` needs.
- After a syntax error the compiler goes on. What it does then is in AstBuilder:
  it uses a null pointer for `x = + y;` (the branch commented as "parenthesis expr
  node", `AstBuilder.cpp:71`), and it compiles `x = a[1 b];` as `x = b` and
  `x = + 5;` as `x = 5`, because `ctx->ID()` and `ctx->INT()` find the tokens that
  recovery skipped. No document says what should happen, so there is no property
  to violate.
- `int a = 1; if (1) int a = a + 1; fi;` reads the inner `a`, which has no value
  yet: the name is declared before its initializer is visited
  (`AstVisitor.cpp:136-143`). The interpreter in `MCGeneratedMain` takes this as
  the meaning of the language.

## Proofs

`tlapm` checks eight modules. They assume what the modules they are about assume of
their constants and nothing else: `KeywordsAreNotNames`, `DefRefAssumption`,
`CodeGenAssumption`, `CompilerAssumption`, `MachineIntAssumption`,
`RuntimeAssumption`, `AstBuilderAssumption`, `GeneratedMainAssumption`. So the
theorems are about programs of any size and nesting, files with any number of syntax
errors, any int width, any malloc whose blocks have at least six words, and any
sequence of calls. What the theorems about the runtime assume beyond that is about
the behaviour, and a part of their statements: that the byte counts have not wrapped
so far (`BytesFit`), or that the ranges the program asks for are below 2^30 ints
(`RangesNarrow`).

### The AST

`BuilderInv` says that the nodes form a tree (`IsTree`), that a token is in one node
(`TokensOnce`), and what makes both inductive: everything that is still to be done
is to be done below a node that exists, and a token that waits between two sub
expressions is not in a node yet and is waited for once (`TodoOK`). The latter is
why a context's number alone is not enough: the operator's node is made long after
its context was opened, with the left sub expression's contexts and nodes in
between. A node is only made by `AddChild`, so `OneMoreLink` and `GrownTree` carry
the counting of links for all actions: one more node, one more link, from a lower
index. Gives `NodesFormATree`. `TLC` checked `BuilderInv` under the constants of
`MCFrontEnd.cfg`.

### The compiler

One invariant per concern, each inductive together with those before it, up to

    CompilerInv == DefRefInv /\ VisitsInv /\ TraceInv /\ WalkedInv /\ ReplayInv /\ EmitInv
                   /\ ShapeInv /\ CertInv /\ FitInv /\ StoppedInv /\ MainInv

| part | module | what it adds, and why it is needed |
|---|---|---|
| `DefRefInv` | `DefRef_proofs` | That a pop leaves a scope that exists needs to know that every open block, generator or filter has a scope whose enclosing scope is the one of the call around it, for the whole stack and not only the top (`StackOK`); that a lookup of `int` succeeds needs the global scope, which has the built in types, in every chain (`ScopesOK`). Gives `TypeOK` and `ScopesNested` |
| `VisitsInv` | `DefRef_proofs` | What the nodes keep after the walk has moved on. A scope declares what recorded declarations put there, each once; a use was resolved when only earlier declarations were in the tables, and later ones can only come into the scopes that were open or are new; two visits in a row are in scopes that CodeGen's rule (node or `GetEnclosingScope`) relates. That the declaration is the nearest needs that of two scopes around a third one is around the other (`ChainsNested`). Gives `UseAfterDeclaration` and `DeclarationsTakeEffect` |
| `TraceInv` | `CodeGen_proofs` | CodeGen has no call stack in the model and DefRef's is gone when it starts, so the two stacks CodeGen needs are recovered from the visits: a *trace* is a sequence with the stack of operand types and that of open constructs before each visit, every visit taking and leaving what its node does. DefRef's walk always has one |
| `WalkedInv` | `CodeGen_proofs` | What code generation needs to know of the nodes beyond their types: which of the calls around a visit keep something to come back to, with their scopes and the number of operands below them (`NestInv`, over *marks*), that a block's scope is made after all earlier visits (`BlockScopes`), that references have the types of their nodes and conditions are ints (`RefsInv`), and that chains of scopes end (`ChainsOK`) |
| `ReplayInv` | `CodeGen_proofs` | CodeGen's scope is the one the last visit left and the variables with storage are those declared before `pos`. Gives `ScopesAligned`, `ReboundOnlyByLaterDeclaration` and `StorageUnlessShadowedLater` |
| `EmitInv` | `CodeGen_proofs` | `opperands` has the types, and `locals` the kinds, of the trace before `pos`; every open construct owns the blocks it will come back to, they are not terminated yet and are different from each other and from the insertion point's. That the trace has the operands a visit takes is what `CodeGenTypeOK` says of the pops. Gives `CodeGenTypeOK`, `OperandsMatchReferences`, `NoOperandLeftOver` and `EmittedCodeIsFinal` |
| `ShapeInv` | `Verify_proofs` | How blocks, operations and values hang together: a value is the result of an operation that has one or the induction variable of a region, a region belongs to one operation, branches go from blocks of main to blocks of main. A region may use what the blocks around it computed before its operation (`ComesBefore`), which needs that nothing is computed behind that operation while the region is added to (`Newest`) |
| `CertInv` | `Verify_proofs` | Every value may be used where it is used, now and in every block that is still to be finished (below). With `ShapeInv` and `FitInv` it gives `VerifiesUnlessFilterBodyIsVector` |
| `FitInv` | `Verify_proofs` | The operands of all operations have the types the operations take, except where a filter with a vector for its body has been passed: there, and nowhere else, they have not |
| `StoppedInv`, `MainInv` | `Compiler_proofs` | Why code generation stopped, and how far the process had come: the file is opened only with a verified module, and what is in it follows from the stream and the lowering. Gives `OutputIsAccountedFor`, `ErrorKeepsOldOutput` and `CrashesAreKnown` |

The theorems that involve CodeGen are about `CompilerSpec`, where both walks are
steps of one process. `EmittedCodeIsFinal` is an action property; it follows from
`EmitInv` because no step emits into a block of a construct that is still open
except through the insertion point, and a branch moves that away.

`CompilerVerifies` is the deepest of them: when code generation comes to its end and
filters have int bodies, each value is computed, on every path, before it is used. `Verifies` says this with dominance, which quantifies over the
paths of the whole graph and is not inductive: while code is generated blocks are
unfinished, blocks that exist have no predecessor yet, and the edge back to a loop's
header comes last. What is kept instead is a *certificate* `R`, which gives each block
the blocks whose values may be used in it (`Cert`):

- an operation uses values of its own block that come before it, or of a block in `R`
  of its own;
- a branch goes to a block that relies, but for itself, on nothing that the block it
  leaves does not have.

Both are conditions on one operation, and no later step undoes them: a new block only
adds to `R`. For a finished function they give dominance (`CertDominates`): the
blocks where `d` is not in `R` are entered from nowhere but each other and `d`.
`CertInv` says that there is a certificate for the blocks so far, under which the
values that can still be used (operands, storage of the variables in scope, iterators,
the constant zero) may be used at the insertion point (`Frame`), and that each visit
that has not returned finds, at the place it comes back to, what was usable there
(`Resumable`). Which values those are depends on the marks: the operands below the
visit's own, and the variables of the scope it comes back to. One lemma per visit says that
it keeps `CertInv`; they share `FrameKept`. The body of a scoped
expression is a region of scf, whose block may use what is around it; of what is
computed in it nothing but the result is among the values its visit comes back to.

`CompilerCrashesAreKnown` follows in full: the verifier refuses a module exactly when
the body of a filter is a vector.

### The generated main

`MainTypeOK` is about the program that runs, not the text of it: its registers are
filled along one path through the branches, loops and regions. `MachineInv` (in
`GeneratedMain_proofs`) ties them to the certificate. `Runs` says that

- with k regions running, the machine is at one place in each of the k + 1 blocks:
  the operation it is at, and in each block around that the one it will resume at,
  which comes right behind the operation whose region is running (`RunsAt`);
- in each of these blocks everything in front of its place was computed, and the
  induction variable of a running region has a value;
- each block in `R` of the running block of main was run to its end (`Done`).

The last part is what dominance means for a run, and it is inductive for the reason
the certificate is: a branch goes to a block that relies on nothing that the block it
leaves, just finished, does not have. Going on in a block, entering a region, running
it again, leaving it and branching are a lemma each (`Advanced`, `Entered`, `Again`,
`Left`, `Jumped`); `OperandsComputed` gives the property. That the machine never runs
out of a block needs `EmitInv` (every block has its terminator), that the number of
running regions is the depth of the block needs `ShapeInv`. TLC checks the property
in `main_statements`.

### The runtime

`DisjointInv` types memory and frames, and is kept as long as `BytesFit` holds; the
memory of a vector whose byte count wrapped is that of others (finding 4). The theorems
say `RuntimeSpec => [](BytesFit => ...)`: `BytesFit` is about the sizes asked for so
far, and once violated stays so. Only `Allocate` changes `brk` and `allocs`,
and `ArrayIsLargeEnough` is the arithmetic that makes one allocation safe: the array
block has as many words as the vector has elements when the byte count has not
wrapped, and the header block alone covers size, pointer and the shift by one
word. What is left is that the size is an int, which comes from a call's arguments
or from memory. Gives `VectorsDisjoint`.

`OwnerInv` adds what the words hold. None of the other properties is inductive: that
a vector keeps its elements depends on where *every* call stores, and that an operand
has the size it was matched to depends on what calls further up the stack do to it.
The invariant is one of ownership: there is a set of *complete* allocations such that

- every vector of the program and every operand of a call is complete;
- every call that is building a vector builds an allocation that is not complete
  and that no other call builds, and has stored as many of its elements as it has
  counted (`BuildsOK`; a filter counts in the size word itself);
- a call and the one above it belong together (`CalledBy`): the program calls from
  bodies, `increase_vector_size` is called with the size of the other operand.

A step stores into the block that the running call builds, or behind `brk`
(`StoresInBlock`), so by `VectorsDisjoint` all complete vectors keep their words
(`Elsewhere`); a return makes one more allocation complete. Gives `RuntimeTypeOK`,
`ElementsAreInts`, `FilterStaysInside`, `OperandsMatched`, and the action property
`VectorsNeverChange`. TLC found the exception `SizeWrapped` (finding 3) when it
checked a first version of this invariant with wide ranges.

### The runtime implements its specification

`VectorSpec_proofs` proves the refinement by forward simulation. The mapping reads the
values off the memory (`Values`) and the program's pending calls off the stack
(`Pending`, without an `increase_vector_size` on top, which the specification does not
know). Calls and the values of bodies are steps of `VectorSpec`, `Return` is its
`SpecReturn` and `ReturnPrinted` its `SpecPrint`; matching, allocating, iterating and
entering a body are stutters.

`OwnerInv` says who owns a word, which is not enough to say what a call returns.
`MeaningInv` adds what the words mean, call by call on the whole stack:

- the operands are the vectors the call was made with, or one of them padded to the
  other's size: with zeros on the left, with `DefaultValue` on the right
  (`OperandsMean`);
- a vector that is being built holds what was stored of the result so far: in a filter
  what the body's values kept of the domain, in a generator the body's values, else a
  prefix of `Returned` (`ResultMeans`);
- an `increase_vector_size` extends the very operand its caller waits for
  (`ExtendsMeans`);
- the line holds a prefix of what `Line` makes of the vector (`LineMeans`).

One lemma per action says that it keeps `Meant`; what they share is that a step of
the running call leaves every value and every other call's meaning alone
(`ValueKept`, `MeaningKept`, `FramesReplaced`), which is the ownership argument again.
`KeptOf` is a recursive function. Its equation is proved by ordinary induction on the
length, and the induction principle, for sets of numbers and so without an operator
parameter, from the theorem that an injection of a finite set into itself is onto
(`Induction`).

The theorem is `RuntimeSpec /\ []RangeHoldsInterval /\ []BytesFit =>
ImplementsVectorSpec`. Both hypotheses are necessary: findings 3 and 4 violate them.
They follow from one about the program: it never calls `vector_range` for 2^30 ints
or more (`RangesNarrow`). Its other calls, its ints and the values of its bodies are
not restricted, and no constant is. This needs an invariant of its own, `NarrowInv`:
a vector has at most as many elements as some range has, since every other function
makes a vector of the size of an operand, or smaller (`NarrowFrame` says so of the
calls that are given a size and of a range's loop). `NarrowRangesHoldInterval` and `NarrowRangesFit` derive the two
hypotheses, `NarrowRuntimeImplementsVectorSpec` the refinement.

### Only model-checked

- `StackGrowsInLoopsOnly`, `OutputIsTheMeaning` and `JunkReadsAreInTheSource` of the
  generated main: the first needs that a block outside of loops runs once, a
  relation between the source and the graph that is not stated here; the others
  compare with a recursive interpreter.
- `BuildsTheAst` and `ResolveIsTheWalk`, whose other side is recursive:
  RECURSIVE operators are out of reach of the installed provers.
- `CompilationEnds`, `CallsReturn`, `MeaningfulProgramsEnd` and
  `BuiltTreesAreWalked`: liveness is out of the proof system's reach.

## Not modelled

- Lexer and parser (generated by ANTLR): precedence, and that the recovery leaves
  the contexts AstBuilder's model chooses from, are taken from the grammar and
  from the runtime library.
- BackEnd's set-up: printf, malloc, the format strings and the order in which
  functions are created are one straight line of code without inputs; functions
  are looked up by name after they were made.
- A malloc that returns null: the generated code does not look at what it gets.
  TLC's runs stop a program that asks for more than `MaxSize`; in the proofs
  `MaxSize` is any number.
- `mlir::ValueRange` objects that outlive their initializer lists
  (`AstVisitor.cpp:465`): C++ lifetimes are below this model, which takes the
  operands the source names. Likewise what iterators of two sets compare like
  (`BackEnd.cpp:460`).
- A vector read from a slot nothing was stored to, and elements of a generator
  whose body is a vector: the run ends as `undefined`.
- Messages, dumps and the debug flag; functions without callers, among them
  `SetEnclosingScope` and the setters of symbols.

## Plan

1. *Done*: Scope, DefRef, CodeGen, Compiler; MachineInt, VectorSpec,
   VectorRuntime; `TypeOK`, `ScopesNested`, `VectorsDisjoint` proved.
2. *Done*: operations with operands in CodeGen; GeneratedMain against the meaning
   of the source; AstBuilder with syntax errors, and FrontEnd.
3. *Done*: the safety properties of AstBuilder, DefRef, CodeGen, Compiler and
   VectorRuntime proved, with what the verifier says of every program, and what that
   means for the runs of the program; the refinement of `VectorSpec` proved.
4. *Open*: `StackGrowsInLoopsOnly` for every program, from `MachineInv` and the
   headers of loops: a block of main that no loop goes back to runs once.
