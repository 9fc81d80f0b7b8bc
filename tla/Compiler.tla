------------------------------ MODULE Compiler ------------------------------
(***************************************************************************)
(* The vcalc process: main (src/src/main.cpp:11-53) runs DefRef and then   *)
(* CodeGen over the tree, verifies the module (GenerateMlir, AstVisitor    *)
(* .cpp:351-354), opens the output file, lowers the module and prints it   *)
(* (BackEnd.cpp:84-121).                                                   *)
(*                                                                         *)
(* The passes that lower the module and the translation to LLVM IR are     *)
(* libraries; that they may fail is a choice of the environment.  So is    *)
(* that the output file cannot be opened or written.                       *)
(***************************************************************************)
EXTENDS CodeGen

CONSTANTS
    LoweringMayFail,    \* BOOLEAN: let mlir's passes fail on a verified module
    OutputMayFail       \* BOOLEAN: let opening or writing the output file fail

ASSUME CompilerAssumption == LoweringMayFail \in BOOLEAN /\ OutputMayFail \in BOOLEAN

VARIABLES
    main,       \* what main does next: "start", "walks", "opens", "lowers", "dumps", or
                \* nothing: "ended"
    lowered,    \* the passes succeeded
    os,         \* the output stream: "closed", "good", or with its failbit set: "bad"
    output,     \* the output file: as it was ("old"), "empty", with "part" of the code or
                \* with all of it: "llvm"
    ended       \* how the process ended: "no", "return 0", "return 1", "exit -1",
                \* "exception", "crash"

compiler_vars == <<ast, scopes, current_scope, calls, refs, status,
                   pos, cg_scope, opperands, storage, blocks, ip, locals, codegen,
                   main, lowered, os, output, ended>>
main_vars == <<main, lowered, os, output, ended>>
walk_vars == <<defref_vars, codegen_vars>>

End(how) == main' = "ended" /\ ended' = how

\* main without its two arguments.
MissingArgument ==
    /\ main = "start"
    /\ End("return 1")
    /\ UNCHANGED <<walk_vars, lowered, os, output>>

\* mutant: the output file is opened first
StartWithOutput ==
    /\ main = "start"
    /\ main' = "walks"
    /\ os' = "good" /\ output' = "empty"
    /\ UNCHANGED <<walk_vars, lowered, ended>>

Start ==
    /\ main = "start"
    /\ main' = "walks"
    /\ UNCHANGED <<walk_vars, lowered, os, output, ended>>

Validate == main = "walks" /\ DefRefNext /\ UNCHANGED <<codegen_vars, main_vars>>

Generate == main = "walks" /\ CodeGenNext /\ UNCHANGED main_vars

\* A std::runtime_error of DefRef, a std::out_of_range of CodeGen::VisitINT:
\* nothing catches them.  A null value dereferenced by an operation's constructor.
Abort ==
    /\ main = "walks"
    /\ \/ status = "rejected" /\ End("exception")
       \/ codegen = "threw" /\ End("exception")
       \/ codegen = "crashed" /\ End("crash")
    /\ UNCHANGED <<walk_vars, lowered, os, output>>

\* mutant: what mlir::verify says is ignored
VerifyIgnored ==
    /\ main = "walks" /\ codegen = "generated"
    /\ main' = "opens"
    /\ UNCHANGED <<walk_vars, lowered, os, output, ended>>

\* The end of GenerateMlir.
Verify ==
    /\ main = "walks" /\ codegen = "generated"
    /\ IF Verifies THEN main' = "opens" /\ UNCHANGED ended
                   ELSE End("exit -1")
    /\ UNCHANGED <<walk_vars, lowered, os, output>>

\* std::ofstream os(argv[2]) truncates the file, or fails; main goes on either way.
OpenOutput ==
    /\ main = "opens"
    /\ \/ os' = "good" /\ output' = "empty"
       \/ OutputMayFail /\ os' = "bad" /\ UNCHANGED output
    /\ main' = "lowers"
    /\ UNCHANGED <<walk_vars, lowered, ended>>

\* lowerDialects: main does not look at what it returns.
LowerDialects ==
    /\ main = "lowers"
    /\ lowered' \in {TRUE} \cup (IF LoweringMayFail THEN {FALSE} ELSE {})
    /\ main' = "dumps"
    /\ UNCHANGED <<walk_vars, os, output, ended>>

\* output << *llvm_module: a stream that has failed takes nothing, one that fails
\* on the way, or when it is closed, has taken a part.  Nobody asks.
WriteOutput ==
    \/ os = "good" /\ output' = "llvm" /\ UNCHANGED os
    \/ os = "good" /\ OutputMayFail /\ os' = "bad" /\ output' \in {"empty", "part"}
    \/ os = "bad" /\ UNCHANGED <<os, output>>

\* mutant: success is reported although there was nothing to write
DumpLLVMAnyway ==
    /\ main = "dumps"
    /\ IF lowered THEN WriteOutput ELSE UNCHANGED <<os, output>>
    /\ End("return 0")
    /\ UNCHANGED <<walk_vars, lowered>>

\* dumpLLVM: a module that was not lowered has no translation, and the null
\* llvm_module is dereferenced.
DumpLLVM ==
    /\ main = "dumps"
    /\ IF lowered THEN WriteOutput /\ End("return 0")
                  ELSE UNCHANGED <<os, output>> /\ End("crash")
    /\ UNCHANGED <<walk_vars, lowered>>

Ended == main = "ended" /\ UNCHANGED compiler_vars

CompilerInit ==
    /\ DefRefInit /\ CodeGenInit
    /\ main = "start" /\ lowered = FALSE
    /\ os = "closed" /\ output = "old" /\ ended = "no"

CompilerNext ==
    \/ MissingArgument \/ Start
    \/ Validate \/ Generate \/ Abort \/ Verify
    \/ OpenOutput \/ LowerDialects \/ DumpLLVM

CompilerSpec == CompilerInit /\ [][CompilerNext \/ Ended]_compiler_vars

\* One process that nothing suspends: it takes a step while it has one.
FairCompilerSpec == CompilerSpec /\ WF_compiler_vars(CompilerNext)

----------------------------------------------------------------------------
(***************************************************************************)
(* OutputIsAccountedFor: what the file holds when the process has ended.   *)
(* It is touched for a validated, generated and verified module only; then *)
(* it holds all of the code and the process returns 0, unless the lowering *)
(* failed, which leaves the truncated file and a crash, or the stream did  *)
(* (main.cpp:47, BackEnd.cpp:118-120), which leaves less than the code     *)
(* although the process returns 0.                                         *)
(***************************************************************************)
OutputIsAccountedFor ==
    main = "ended" =>
        /\ os = "closed" <=> ~(status = "validated" /\ codegen = "generated" /\ Verifies)
        /\ os = "closed" => output = "old" /\ ended # "return 0"
        /\ os # "closed" => ended = IF lowered THEN "return 0" ELSE "crash"
        /\ os = "good" => output = IF lowered THEN "llvm" ELSE "empty"
        /\ os = "bad" => output # "llvm" /\ (output = "part" => lowered)

(***************************************************************************)
(* ErrorKeepsOldOutput: a program that is rejected, or code that does not  *)
(* verify, leaves the output file as it was.                               *)
(***************************************************************************)
ErrorKeepsOldOutput ==
    (status = "rejected" \/ codegen \in {"crashed", "threw"} \/
     (codegen = "generated" /\ ~Verifies)) => output = "old"

(***************************************************************************)
(* CrashesAreKnown: the ways a validated program can fail to compile: a    *)
(* variable shadowed later in its block, a literal that is no int, a       *)
(* vector for a filter's body, a failure of the lowering.                  *)
(***************************************************************************)
CrashesAreKnown ==
    (main = "ended" /\ status = "validated" /\ ended # "return 0") =>
        \/ ended = "crash" /\ codegen = "crashed" /\ \E i \in Uses : ShadowedLater(i)
        \/ ended = "exception" /\ \E i \in DOMAIN ast : ast[i].node = "INT"
                                                     /\ ast[i].text \notin IntLiteral
        \/ ended = "exit -1" /\ VectorFilter
        \/ ended = "crash" /\ codegen = "generated" /\ LoweringMayFail

(***************************************************************************)
(* CompilationEnds: both walks and the process end ("infinite recursion    *)
(* somewhere, idk where", AstVisitor.cpp:38).                              *)
(***************************************************************************)
CompilationEnds == <>(main = "ended")
=============================================================================
