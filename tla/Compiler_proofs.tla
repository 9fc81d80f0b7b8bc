--------------------------- MODULE Compiler_proofs ---------------------------
(***************************************************************************)
(* The whole process, for every program: what the two walks leave of each  *)
(* other, how it can fail and what is then in the output file.             *)
(***************************************************************************)
EXTENDS Compiler, Verify_proofs

WalkInv == DefRefInv /\ VisitsInv /\ TraceInv /\ WalkedInv /\ ReplayInv /\ EmitInv /\ CertInv /\ FitInv
           /\ ShapeInv

\* Why CodeGen stopped, and how far main has come with it.
StoppedInv ==
    /\ codegen = "crashed" => \E i \in Uses : ShadowedLater(i)
    /\ codegen = "threw" => \E i \in DOMAIN ast : ast[i].node = "INT"
                                               /\ ast[i].text \notin IntLiteral

Generated == status = "validated" /\ codegen = "generated"

\* The output file is opened when there is a verified module to write; how the
\* process ended.
MainInv ==
    /\ main \in {"start", "walks", "opens", "lowers", "dumps", "ended"}
    /\ os \in {"closed", "good", "bad"} /\ output \in {"old", "empty", "part", "llvm"}
    /\ lowered \in BOOLEAN
    /\ main = "start" => status = "visiting"
    /\ main \in {"start", "walks", "opens"} => os = "closed"
    /\ main \in {"lowers", "dumps"} =>
          (os = "good" /\ output = "empty") \/ (os = "bad" /\ output = "old")
    /\ (main \in {"opens", "lowers", "dumps"} \/ os # "closed") => Generated /\ Verifies
    /\ os = "closed" => output = "old" /\ ended # "return 0"
    /\ main = "ended" /\ Generated /\ Verifies =>
          /\ ended = IF lowered THEN "return 0" ELSE "crash"
          /\ os = "good" => output = IF lowered THEN "llvm" ELSE "empty"
          /\ os = "bad" => output # "llvm" /\ (output = "part" => lowered)
          /\ os # "closed"
    /\ main # "ended" <=> ended = "no"
    /\ main = "dumps" /\ ~lowered => LoweringMayFail
    /\ ended \in {"no", "return 0", "return 1", "exit -1", "exception", "crash"}
    /\ ended = "return 1" => status = "visiting"
    /\ ended = "exit -1" => Generated /\ ~Verifies
    /\ ended = "exception" => status = "rejected" \/ codegen = "threw"
    /\ ended = "crash" => codegen = "crashed" \/ (Generated /\ LoweringMayFail)

CompilerInv == WalkInv /\ StoppedInv /\ MainInv

----------------------------------------------------------------------------
\* State functions of the walks stay what they are when the walks stand still.
LEMMA WalksUnchanged ==
    ASSUME UNCHANGED walk_vars
    PROVE  UNCHANGED <<ast, scopes, current_scope, calls, refs, status, pos, cg_scope, opperands,
                       storage, blocks, ip, locals, codegen>>
  BY DEF walk_vars, defref_vars, codegen_vars

LEMMA SameCodeVerifies == ASSUME blocks' = blocks PROVE Verifies' <=> Verifies
  BY DEF Verifies, WellTerminated, Blocks, Visible, ComesBefore, InRegion, FunctionBlocks, Dominates,
     Successors

LEMMA SameWalkInv == ASSUME WalkInv, StoppedInv, UNCHANGED walk_vars PROVE WalkInv' /\ StoppedInv'
<1>1. UNCHANGED defref_vars
  BY WalksUnchanged DEF defref_vars
<1>2. DefRefInv' /\ VisitsInv' /\ TraceInv' /\ WalkedInv'
  BY <1>1, DefRefInvStep, VisitsInvStep, TraceInvStep, WalkedInvStep DEF WalkInv
<1>3. ReplayInv' /\ EmitInv' /\ CertInv' /\ FitInv' /\ ShapeInv'
  <2>1. ReplayInv'
    BY WalksUnchanged DEF WalkInv, ReplayInv
  <2>2. EmitInv'
    BY WalksUnchanged DEF WalkInv, EmitInv, Traced, Follows
  <2>3. CertInv'
    BY WalksUnchanged DEF WalkInv, CertInv, CertAt, NestAt
  <2>4. FitInv'
    BY WalksUnchanged DEF WalkInv, FitInv, FilterBefore, VectorFilter
  <2>5. ShapeInv'
    BY WalksUnchanged DEF WalkInv, ShapeInv, const_one, const_zero
  <2> QED
    BY <2>1, <2>2, <2>3, <2>4, <2>5
<1>4. StoppedInv'
  BY WalksUnchanged DEF StoppedInv, Uses, ShadowedLater
<1> QED
  BY <1>2, <1>3, <1>4 DEF WalkInv

LEMMA ValidateKeepsInv == ASSUME CompilerInv, Validate PROVE CompilerInv'
<1>1. DefRefInv' /\ VisitsInv' /\ TraceInv' /\ WalkedInv'
  BY DefRefInvStep, VisitsInvStep, TraceInvStep, WalkedInvStep DEF Validate, CompilerInv, WalkInv
<1>2. ReplayInv'
  BY <1>1, ValidateKeepsReplayInv DEF Validate, CompilerInv, WalkInv
<1>3. status = "visiting"
  BY DEF Validate, DefRefNext, VisitBlocks, VisitStatement, VisitEXPR, EnterFile, EnterBody,
     LeaveBlock, EndConditional, VisitDECL, BeginStatement, EndASSIGN, EndPRINT, VisitINT,
     VisitID, VisitOp, EnterScoped, LeaveScoped
<1>4. codegen = "idle" /\ codegen' = "idle"
  BY <1>3 DEF CompilerInv, WalkInv, ReplayInv, Validate, codegen_vars
<1>5. StoppedInv' /\ EmitInv' /\ CertInv' /\ FitInv' /\ ShapeInv'
  <2>1. StoppedInv'
    BY <1>4 DEF StoppedInv
  <2>2. EmitInv /\ UNCHANGED <<opperands, storage, blocks, ip, locals>>
    BY DEF Validate, codegen_vars, CompilerInv, WalkInv
  <2>3. EmitInv'
    BY <1>4, <2>2 DEF EmitInv
  <2>4. CertInv' /\ FitInv' /\ ShapeInv'
    BY <1>4 DEF CertInv, FitInv, ShapeInv
  <2> QED
    BY <2>1, <2>3, <2>4
<1>6. MainInv'
  <2>1. main = "walks" /\ UNCHANGED <<main, lowered, os, output, ended>> /\ MainInv
    BY DEF Validate, main_vars, CompilerInv
  <2>2. os = "closed" /\ output = "old" /\ ended = "no"
    BY <2>1 DEF MainInv
  <2> QED
    BY <2>1, <2>2 DEF MainInv
<1> QED
  BY <1>1, <1>2, <1>5, <1>6 DEF CompilerInv, WalkInv

LEMMA GenerateKeepsInv == ASSUME CompilerInv, Generate PROVE CompilerInv'
<1>1. CodeGenNext /\ UNCHANGED defref_vars /\ DefRefInv /\ VisitsInv /\ ReplayInv
      /\ TraceInv /\ WalkedInv /\ EmitInv /\ CertInv /\ FitInv /\ ShapeInv
  BY DEF Generate, CompilerInv, WalkInv, CodeGenNext
<1>2. DefRefInv' /\ VisitsInv' /\ TraceInv' /\ WalkedInv'
  BY <1>1, DefRefInvStep, VisitsInvStep, TraceInvStep, WalkedInvStep
<1>3. ReplayInv' /\ EmitInv' /\ CertInv' /\ FitInv' /\ ShapeInv'
  BY <1>1, GenerateKeepsReplayInv, GenerateKeepsEmit, GenerateKeepsCert, GenerateKeepsFit,
     GenerateKeepsShape DEF WalkedInv
<1>4. StoppedInv'
  <2>1. ASSUME codegen' = "crashed" PROVE \E i \in Uses : ShadowedLater(i)
    <3>1. Visiting({"ID", "ASSIGN"}) /\ ~HasStorage
      <4>1. codegen = "emitting"
        BY <1>1, <2>1, CodeGenStepIsReplay DEF Replayed
      <4>2. GenASSIGN \/ GenID \/ GenINT
        BY <1>1, <2>1, <4>1 DEF CodeGenNext, GenerateMlir, GenReturn, GenBLOCK, GenIF_BLOCK, GenEndIF_BLOCK,
           GenLOOP_BLOCK, GenLoopBody, GenEndLOOP_BLOCK, GenDECL, GenPRINT, GenOp, GenScoped,
           GenEndScoped
      <4>3. GenASSIGN \/ GenID
        BY <2>1, <4>1, <4>2 DEF GenINT, CrashCodegen
      <4> QED
        BY <2>1, <4>1, <4>3 DEF GenASSIGN, GenID, Visiting, HasStorage
    <3>2. pos \in DOMAIN ast /\ IsUse(ast[pos]) /\ ShadowedLater(pos)
      BY <1>1, <3>1, StorageIffNotRebound, Rebound
    <3> QED
      BY <3>2 DEF Uses, IsUse
  <2>2. ASSUME codegen' = "threw"
        PROVE  \E i \in DOMAIN ast : ast[i].node = "INT" /\ ast[i].text \notin IntLiteral
    <3>1. codegen = "emitting"
      BY <1>1, <2>2, CodeGenStepIsReplay DEF Replayed
    <3>2. GenASSIGN \/ GenID \/ GenINT
      BY <1>1, <2>2, <3>1 DEF CodeGenNext, GenerateMlir, GenReturn, GenBLOCK, GenIF_BLOCK, GenEndIF_BLOCK,
         GenLOOP_BLOCK, GenLoopBody, GenEndLOOP_BLOCK, GenDECL, GenPRINT, GenOp, GenScoped,
         GenEndScoped
    <3>3. ThisVisit.node = "INT" /\ ThisVisit.text \notin IntLiteral /\ pos <= Len(ast)
      BY <2>2, <3>1, <3>2 DEF GenASSIGN, GenID, GenINT, CrashCodegen, Visiting
    <3>4. pos \in DOMAIN ast
      BY <1>1, <3>3 DEF ReplayInv, DefRefInv
    <3> QED
      BY <3>3, <3>4 DEF ThisVisit
  <2>3. UNCHANGED <<ast, scopes>>
    BY <1>1 DEF defref_vars
  <2> QED
    BY <2>1, <2>2, <2>3 DEF StoppedInv, Uses, ShadowedLater
<1>5. MainInv'
  <2>1. main = "walks" /\ UNCHANGED <<main, lowered, os, output, ended>> /\ MainInv
    BY DEF Generate, main_vars, CompilerInv
  <2>2. os = "closed" /\ output = "old" /\ ended = "no"
    BY <2>1 DEF MainInv
  <2> QED
    BY <2>1, <2>2 DEF MainInv
<1> QED
  BY <1>2, <1>3, <1>4, <1>5 DEF CompilerInv, WalkInv

LEMMA MainKeepsInv ==
    ASSUME CompilerInv,
           MissingArgument \/ Start \/ Abort \/ Verify \/ OpenOutput \/ LowerDialects \/ DumpLLVM
    PROVE  CompilerInv'
<1>1. UNCHANGED walk_vars
  BY DEF MissingArgument, Start, Abort, Verify, OpenOutput, LowerDialects, DumpLLVM
<1>2. WalkInv' /\ StoppedInv'
  BY <1>1, SameWalkInv DEF CompilerInv
<1>3. /\ status' = status /\ codegen' = codegen /\ (Verifies' <=> Verifies)
      /\ codegen # "idle" => status = "validated"
  BY <1>1, WalksUnchanged, SameCodeVerifies DEF CompilerInv, WalkInv, ReplayInv
<1>4. MainInv /\ (Generated' <=> Generated)
  BY <1>3 DEF CompilerInv, Generated
<1>5. MainInv'
  <2>1. CASE MissingArgument \/ Start
    <3>1. /\ lowered' = lowered /\ os' = os /\ output' = output
          /\ os = "closed" /\ output = "old" /\ lowered \in BOOLEAN
          /\ ended = "no" /\ status = "visiting"
      BY <1>4, <2>1 DEF MissingArgument, Start, MainInv
    <3>2. ~Generated
      BY <3>1 DEF Generated
    <3>3. \/ main' = "ended" /\ ended' = "return 1"
          \/ main' = "walks" /\ ended' = "no"
      BY <2>1, <3>1 DEF MissingArgument, Start, End
    <3> QED
      BY <1>3, <1>4, <3>1, <3>2, <3>3 DEF MainInv
  <2>2. CASE Abort
    <3>1. /\ main' = "ended" /\ lowered' = lowered /\ os' = os /\ output' = output
          /\ os = "closed" /\ output = "old" /\ lowered \in BOOLEAN
      BY <1>4, <2>2 DEF Abort, End, MainInv
    <3>2. ~Generated
      BY <1>3, <2>2 DEF Abort, Generated
    <3>3. \/ ended' = "exception" /\ (status = "rejected" \/ codegen = "threw")
          \/ ended' = "crash" /\ codegen = "crashed"
      BY <2>2 DEF Abort, End
    <3> QED
      BY <1>3, <1>4, <3>1, <3>2, <3>3 DEF MainInv
  <2>3. CASE Verify
    <3>1. /\ lowered' = lowered /\ os' = os /\ output' = output
          /\ os = "closed" /\ output = "old" /\ lowered \in BOOLEAN /\ ended = "no"
      BY <1>4, <2>3 DEF Verify, MainInv
    <3>2. Generated
      BY <1>3, <2>3 DEF Verify, Generated
    <3>3. \/ Verifies /\ main' = "opens" /\ ended' = "no"
          \/ ~Verifies /\ main' = "ended" /\ ended' = "exit -1"
      BY <2>3, <3>1 DEF Verify, End
    <3> QED
      BY <1>3, <1>4, <3>1, <3>2, <3>3 DEF MainInv
  <2>4. CASE OpenOutput
    <3>1. /\ main' = "lowers" /\ lowered' = lowered /\ ended' = "no" /\ lowered \in BOOLEAN
          /\ Generated /\ Verifies /\ output = "old"
      BY <1>4, <2>4 DEF OpenOutput, MainInv
    <3>2. (os' = "good" /\ output' = "empty") \/ (os' = "bad" /\ output' = "old")
      BY <2>4, <3>1 DEF OpenOutput
    <3>3. Generated' /\ Verifies'
      BY <1>3, <1>4, <3>1
    <3> QED
      BY <3>1, <3>2, <3>3 DEF MainInv
  <2>5. CASE LowerDialects
    BY <1>3, <1>4, <2>5 DEF LowerDialects, MainInv
  <2>6. CASE DumpLLVM
    <3>1. /\ main' = "ended" /\ lowered' = lowered /\ lowered \in BOOLEAN
          /\ Generated /\ Verifies /\ (~lowered => LoweringMayFail)
          /\ (os = "good" /\ output = "empty") \/ (os = "bad" /\ output = "old")
      BY <1>4, <2>6 DEF DumpLLVM, End, MainInv
    <3>2. CASE lowered
      <4>1. ended' = "return 0"
        BY <2>6, <3>2 DEF DumpLLVM, End
      <4>2. \/ os' = "good" /\ output' = "llvm"
            \/ os' = "bad" /\ output' \in {"old", "empty", "part"}
        BY <2>6, <3>1, <3>2 DEF DumpLLVM, WriteOutput
      <4> QED
        BY <1>3, <1>4, <3>1, <3>2, <4>1, <4>2 DEF MainInv
    <3>3. CASE ~lowered
      <4>1. ended' = "crash" /\ os' = os /\ output' = output
        BY <2>6, <3>3 DEF DumpLLVM, End
      <4> QED
        BY <1>3, <1>4, <3>1, <3>3, <4>1 DEF MainInv
    <3> QED
      BY <3>1, <3>2, <3>3
  <2> QED
    BY <2>1, <2>2, <2>3, <2>4, <2>5, <2>6
<1> QED
  BY <1>2, <1>5 DEF CompilerInv

LEMMA CompilerInvInit == CompilerInit => CompilerInv
<1> SUFFICES ASSUME CompilerInit PROVE CompilerInv
  OBVIOUS
<1>1. WalkInv
  <2>1. DefRefInv /\ VisitsInv /\ TraceInv /\ WalkedInv /\ ReplayInv /\ EmitInv
    BY DefRefInvInit, VisitsInvInit, TraceInvInit, WalkedInvInit, ReplayInvInit, EmitInvInit DEF CompilerInit
  <2>2. CertInv /\ FitInv /\ ShapeInv
    BY DEF CompilerInit, CodeGenInit, CertInv, FitInv, ShapeInv
  <2> QED
    BY <2>1, <2>2 DEF WalkInv
<1>2. StoppedInv
  BY DEF CompilerInit, CodeGenInit, StoppedInv
<1>3. MainInv
  BY DEF CompilerInit, DefRefInit, MainInv
<1> QED
  BY <1>1, <1>2, <1>3 DEF CompilerInv

LEMMA CompilerInvStep == CompilerInv /\ [CompilerNext \/ Ended]_compiler_vars => CompilerInv'
<1> SUFFICES ASSUME CompilerInv, [CompilerNext \/ Ended]_compiler_vars PROVE CompilerInv'
  OBVIOUS
<1>1. CASE UNCHANGED compiler_vars
  <2>1. UNCHANGED walk_vars /\ UNCHANGED <<main, lowered, os, output, ended>>
    BY <1>1 DEF compiler_vars, walk_vars, defref_vars, codegen_vars
  <2>2. WalkInv' /\ StoppedInv'
    BY <2>1, SameWalkInv DEF CompilerInv
  <2>3. status' = status /\ codegen' = codegen /\ (Verifies' <=> Verifies)
    BY <2>1, WalksUnchanged, SameCodeVerifies
  <2>4. MainInv'
    BY <2>1, <2>3 DEF CompilerInv, MainInv, Generated
  <2> QED
    BY <2>2, <2>4 DEF CompilerInv
<1> QED
  BY <1>1, ValidateKeepsInv, GenerateKeepsInv, MainKeepsInv DEF CompilerNext, Ended

----------------------------------------------------------------------------
\* The scopes CodeGen recomputes are DefRef's, at every visit of every program
\* (AstVisitor.cpp:362-382, 526, 558).
THEOREM CompilerScopesAligned == CompilerSpec => []ScopesAligned
<1>1. CompilerInv => ScopesAligned
  BY ReplayIsAligned DEF CompilerInv, WalkInv
<1> QED
  BY <1>1, CompilerInvInit, CompilerInvStep, PTL DEF CompilerSpec

\* The second lookup of a name answers another variable than the first exactly
\* where the block declares the name again further down (AstVisitor.cpp:446, 774).
THEOREM CompilerRebinds == CompilerSpec => []ReboundOnlyByLaterDeclaration
<1>1. CompilerInv => ReboundOnlyByLaterDeclaration
  BY ReboundOnlyByLater DEF CompilerInv, WalkInv
<1> QED
  BY <1>1, CompilerInvInit, CompilerInvStep, PTL DEF CompilerSpec

\* CodeGen meets a variable without storage exactly there (AstVisitor.cpp:418-425,
\* 446, 774).
THEOREM CompilerFindsStorage == CompilerSpec => []StorageUnlessShadowedLater
<1>1. CompilerInv => StorageUnlessShadowedLater
  BY StorageUnlessShadowed DEF CompilerInv, WalkInv
<1> QED
  BY <1>1, CompilerInvInit, CompilerInvStep, PTL DEF CompilerSpec

\* CodeGen's variables have their types, and it never takes an operand from an empty
\* stack or adds operations to a place that is not there (AstVisitor.cpp:342-800).
THEOREM CompilerCodeGenTyped == CompilerSpec => []CodeGenTypeOK
<1>1. CompilerInv => CodeGenTypeOK
  BY CodeGenTyped DEF CompilerInv, WalkInv
<1> QED
  BY <1>1, CompilerInvInit, CompilerInvStep, PTL DEF CompilerSpec

\* The operands CodeGen finds have the types of the references DefRef left, at every
\* visit that consumes them: the callee fits its arguments (AstVisitor.cpp:583-765).
THEOREM CompilerOperandsMatch == CompilerSpec => []OperandsMatchReferences
<1>1. CompilerInv => OperandsMatchReferences
  BY OperandsAsReferred DEF CompilerInv, WalkInv
<1> QED
  BY <1>1, CompilerInvInit, CompilerInvStep, PTL DEF CompilerSpec

\* A statement takes every value its expressions pushed (AstVisitor.cpp:442).
THEOREM CompilerLeavesNoOperand == CompilerSpec => []NoOperandLeftOver
<1>1. CompilerInv => NoOperandLeftOver
  BY NothingLeftOver DEF CompilerInv, WalkInv
<1> QED
  BY <1>1, CompilerInvInit, CompilerInvStep, PTL DEF CompilerSpec

\* A block that branches or returns is never added to again (AstVisitor.cpp:386-412,
\* 482-560, 716-755).
THEOREM CompilerEmittedCodeIsFinal == CompilerSpec => EmittedCodeIsFinal
<1> DEFINE Kept == \A b \in Blocks : Closed(blocks, b) => blocks'[b] = blocks[b]
<1>1. ASSUME CompilerInv, [CompilerNext \/ Ended]_compiler_vars PROVE [Kept]_codegen_vars
  <2>1. CASE Generate
    BY <1>1, <2>1, ClosedBlocksKept DEF Generate, CompilerInv, WalkInv
  <2>2. CASE ~Generate
    <3>1. UNCHANGED codegen_vars
      BY <1>1, <2>2 DEF CompilerNext, MissingArgument, Start, Validate, Abort, Verify, OpenOutput,
         LowerDialects, DumpLLVM, Ended, compiler_vars, walk_vars, codegen_vars
    <3> QED
      BY <3>1
  <2> QED
    BY <2>1, <2>2
<1> QED
  BY <1>1, CompilerInvInit, CompilerInvStep, PTL DEF CompilerSpec, EmittedCodeIsFinal

\* The file is touched for a verified module only, and then holds all of its code, is
\* empty behind a crash, or the stream has failed unnoticed (main.cpp:40-52,
\* BackEnd.cpp:84-121).
THEOREM CompilerOutputIsAccountedFor == CompilerSpec => []OutputIsAccountedFor
<1>1. CompilerInv => OutputIsAccountedFor
  BY DEF CompilerInv, MainInv, OutputIsAccountedFor, Generated
<1> QED
  BY <1>1, CompilerInvInit, CompilerInvStep, PTL DEF CompilerSpec

\* No error of the program, and no failure of the verifier, touches the output file
\* (main.cpp:37-47, AstVisitor.cpp:351-354).
THEOREM CompilerErrorsKeepOutput == CompilerSpec => []ErrorKeepsOldOutput
<1>1. CompilerInv => ErrorKeepsOldOutput
  BY DEF CompilerInv, MainInv, ErrorKeepsOldOutput, Generated
<1> QED
  BY <1>1, CompilerInvInit, CompilerInvStep, PTL DEF CompilerSpec

\* The module CodeGen generates verifies, whatever the nesting of blocks, loops and
\* scoped expressions, except where the body of a filter is a vector (AstVisitor.cpp:
\* 351-354, 474, 536-541).
THEOREM CompilerVerifies == CompilerSpec => []VerifiesUnlessFilterBodyIsVector
<1>1. CompilerInv => VerifiesUnlessFilterBodyIsVector
  BY GeneratedVerifies DEF CompilerInv, WalkInv
<1> QED
  BY <1>1, CompilerInvInit, CompilerInvStep, PTL DEF CompilerSpec

\* The only failures of a validated program are the late shadow, a literal that is no
\* int, a vector for the body of a filter and a failure of the lowering (main.cpp:40-52,
\* AstVisitor.cpp:351-354, 446, 774, BackEnd.cpp:84-121).
THEOREM CompilerCrashesAreKnown == CompilerSpec => []CrashesAreKnown
<1>1. CompilerInv => CrashesAreKnown
  <2> SUFFICES ASSUME CompilerInv PROVE CrashesAreKnown
    OBVIOUS
  <2>1. Generated /\ ~Verifies => VectorFilter
    BY GeneratedVerifies DEF CompilerInv, WalkInv, Generated, VerifiesUnlessFilterBodyIsVector
  <2> QED
    BY <2>1 DEF CompilerInv, StoppedInv, MainInv, CrashesAreKnown, Generated
<1> QED
  BY <1>1, CompilerInvInit, CompilerInvStep, PTL DEF CompilerSpec
=============================================================================
