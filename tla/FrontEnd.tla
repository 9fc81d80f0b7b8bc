------------------------------ MODULE FrontEnd ------------------------------
(***************************************************************************)
(* AstBuilder and DefRef together (main.cpp:28-43): the tree that was      *)
(* built, with or without syntax errors, is walked by DefRef.  DefRef by   *)
(* itself walks all programs; here a node of the tree decides what is      *)
(* visited next.  AstWalker takes children by their positions and does not *)
(* ask whether they are there.                                             *)
(***************************************************************************)
EXTENDS AstBuilder, DefRef, SequencesExt

VARIABLE walk       \* the visits of DefRef that are to come

front_end_vars == <<contexts, nodes, todo, built, defref_vars, walk>>

ASSUME FrontEndAssumption == Identifier = Name /\ Number = Literal /\ Keyword \subseteq Type

----------------------------------------------------------------------------
\* What a visit function does before, between and after its calls of Visit.
Step(visit, kind, text) == <<[visit |-> visit, kind |-> kind, text |-> text]>>
OutOfRange == Step("out of range", NoText, NoText)

Size(n) == Len(nodes[n].children)
Child(n, k) == nodes[nodes[n].children[k + 1]]      \* GetChildren()[k]
IteratorOf(n) == nodes[Child(n, 1).children[1]]     \* GetChildren()[1]->GetChildren()[0]

\* The visits of a node: AstWalker::Visit and the functions of DefRef.
RECURSIVE VisitsOf(_)
VisitsOf(n) ==
    LET type     == nodes[n].type
        VisitChild(k) == IF k < Size(n) THEN VisitsOf(nodes[n].children[k + 1]) ELSE OutOfRange
        Children == FlattenSeq([k \in 1..Size(n) |-> VisitChild(k - 1)])
    IN  CASE type = "BLOCK" -> Children \o Step("end", type, NoText)
          [] type = "DECL" /\ Size(n) = 2 -> Step("declare", Child(n, 0).text, Child(n, 1).text)
          [] type = "DECL" /\ Size(n) = 3 ->
                Step("initialize", Child(n, 0).text, Child(n, 1).text) \o Tail(VisitChild(2))
          [] type = "ASSIGN" /\ Size(n) > 0 ->
                Step("begin", type, Child(n, 0).text) \o VisitChild(1) \o Step("end", type, NoText)
          [] type = "PRINT" -> Step("begin", type, NoText) \o VisitChild(0) \o Step("end", type, NoText)
          [] type \in Conditionals ->
                Step("begin", type, NoText) \o VisitChild(0) \o
                Step("body", type, NoText) \o VisitChild(1) \o Step("end", type, NoText)
          [] type = "EXPR" /\ Size(n) = 1 ->
                IF Child(n, 0).type \in Leaves THEN Step("leaf", Child(n, 0).type, Child(n, 0).text)
                ELSE OutOfRange
          [] type = "EXPR" /\ Size(n) = 3 ->
                IF Child(n, 1).type \in ScopedOps
                THEN VisitChild(0) \o Step("begin", Child(n, 1).type, IteratorOf(n).text) \o
                     VisitChild(2) \o Step("end", Child(n, 1).type, NoText)
                ELSE VisitChild(0) \o VisitChild(2) \o Step("operation", Child(n, 1).type, NoText)
          [] OTHER -> OutOfRange

\* main hands the tree over.
HandOver ==
    /\ built = "built" /\ walk = <<>> /\ ast = <<>>
    /\ EnterFile
    /\ walk' = VisitsOf(1)
    /\ UNCHANGED builder_vars

\* The visit that is next, and the actions of DefRef that it is.
ThisVisitIs(visit, kinds) == Head(walk).visit = visit /\ Head(walk).kind \in kinds
Kind == Head(walk).kind
TextHere == Head(walk).text
Walk ==
    /\ walk # <<>>
    /\ \/ ThisVisitIs("declare", Keyword) /\ VisitDECL(TextHere, Kind, FALSE)
       \/ ThisVisitIs("initialize", Keyword) /\ VisitDECL(TextHere, Kind, TRUE)
       \/ ThisVisitIs("begin", Statements) /\ BeginStatement(Kind, TextHere)
       \/ ThisVisitIs("begin", ScopedOps) /\ EnterScoped(Kind, TextHere)
       \/ ThisVisitIs("leaf", {"INT"}) /\ VisitINT(TextHere)
       \/ ThisVisitIs("leaf", {"ID"}) /\ VisitID(TextHere)
       \/ ThisVisitIs("operation", Ops) /\ VisitOp(Kind)
       \/ ThisVisitIs("body", Conditionals) /\ EnterBody(Kind)
       \/ ThisVisitIs("end", Conditionals) /\ EndConditional(Kind)
       \/ ThisVisitIs("end", ScopedOps) /\ LeaveScoped(Kind)
       \/ ThisVisitIs("end", {"BLOCK"}) /\ LeaveBlock
       \/ ThisVisitIs("end", {"ASSIGN"}) /\ EndASSIGN
       \/ ThisVisitIs("end", {"PRINT"}) /\ EndPRINT
    /\ walk' = Tail(walk)
    /\ UNCHANGED builder_vars

Build == BuilderNext /\ UNCHANGED <<defref_vars, walk>>

\* The tree is not built, or its walk has returned or thrown.
FrontEndOver == /\ built = "crashed" \/ status # "visiting"
                /\ UNCHANGED front_end_vars

FrontEndInit == BuilderInit /\ DefRefInit /\ walk = <<>>

\* One thread that nothing suspends.
FrontEndSpec == /\ FrontEndInit
                /\ [][Build \/ HandOver \/ Walk \/ FrontEndOver]_front_end_vars
                /\ WF_front_end_vars(HandOver \/ Walk)

----------------------------------------------------------------------------
(***************************************************************************)
(* BuiltTreesAreWalked: DefRef gets through every tree that is built, even *)
(* from a file with syntax errors, and accepts or rejects it: no visit     *)
(* finds fewer children, other children or other operands than it takes    *)
(* (170-300), and an expression whose type is asked for has been given     *)
(* one.                                                                    *)
(***************************************************************************)
BuiltTreesAreWalked == built = "built" ~> status \in {"validated", "rejected"}
=============================================================================
