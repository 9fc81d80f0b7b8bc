----------------------------- MODULE AstBuilder -----------------------------
(***************************************************************************)
(* AstBuilder::AstBuild (src/src/AstBuilder.cpp) makes the AST from the    *)
(* parse tree.  main does not ask the parser for syntax errors             *)
(* (main.cpp:27-29), so the parse tree may be one of ANTLR's error         *)
(* recovery, in which parts are missing or tokens are left over.           *)
(*                                                                         *)
(* A context of the parse tree is visited once, so it is chosen when it is *)
(* visited, from the contexts that the parser of grammar/VCalc.g4 makes;   *)
(* "contexts" are the ones visited so far, "nodes" is the AST.  The C++    *)
(* recursion is the list "todo" of visits and AddChild calls to come.  A   *)
(* node is added to its parent when it is made; the code does it when the  *)
(* visit of the node returns, in the same order.                           *)
(***************************************************************************)
EXTENDS Integers, Sequences, FiniteSets

CONSTANTS
    Identifier, Number, Keyword,    \* texts of ID, INT and TYPE tokens
    Alternatives,           \* the alternatives of the grammar a run uses
    MaxContexts,            \* bound: no statement or operation is begun after so many
    MaxDamage               \* bound: contexts with a syntax error

Operators == {"ARITH", "BOOL", "DOTS"}      \* groups of operator tokens
Scopes == {"GENERATOR", "FILTER"}
Tokens == {"ID", "INT"}
ConditionalRules == {"IF", "LOOP"}
StatementRules == {"DECL", "ASSIGN", "PRINT"} \cup ConditionalRules
Missing == "null"                           \* what a context returns for a missing part

ASSUME AstBuilderAssumption ==
    /\ Alternatives \subseteq Operators \cup Scopes \cup Tokens \cup StatementRules
                                        \cup {"INDEX", "PAREN"}
    /\ Tokens \cap Alternatives # {}
    /\ MaxContexts \in Nat /\ MaxDamage \in Nat

VARIABLES contexts, nodes, todo, built

builder_vars == <<contexts, nodes, todo, built>>

----------------------------------------------------------------------------
\* AstNode: the type and text of its token, the context the token is from (0: the
\* token was made by AstNode(size_t)), the indices of its children.
NoToken == [text |-> "", from |-> 0]
AstNode(type, token) == [type |-> type, text |-> token.text, from |-> token.from, children |-> <<>>]

\* AstNode::AddChild of a new node.
AddChild(tree, parent, node) ==
    LET grown == Append(tree, node)
    IN  IF parent = 0 THEN grown
        ELSE [grown EXCEPT ![parent].children = Append(@, Len(grown))]

\* What is still to be done for the node "into": visit a context of a rule, below the
\* context "parent", or add a token.  A "whole" context has no syntax error in it.
Todo(do, into, parent, whole) == [do |-> do, into |-> into, parent |-> parent, whole |-> whole]

Doing(do) == built = "visiting" /\ todo # <<>> /\ Head(todo).do = do
This == Head(todo)
Then(items) == todo' = items \o Tail(todo)

\* The context that is visited.
Damaged == {c \in DOMAIN contexts : contexts[c].damaged}
MayBeDamaged == ~This.whole /\ Cardinality(Damaged) < MaxDamage
Opened(rule, damaged) ==
    contexts' = Append(contexts, [rule |-> rule, parent |-> This.parent, damaged |-> damaged])
Here == Len(contexts) + 1
MayBegin(rule) == rule \in Alternatives /\ Len(contexts) < MaxContexts

NewNode == Len(nodes) + 1
TextOf(token) == IF token = "ID" THEN Identifier ELSE Number

\* A null pointer is used.
Crash == built' = "crashed" /\ UNCHANGED <<nodes, todo>>
VisitMissing == Doing(Missing) /\ Crash /\ UNCHANGED contexts

----------------------------------------------------------------------------
\* visitFile and visitBlock: a node for each child, all of which are statements.
visitBlock ==
    /\ Doing("block")
    /\ nodes' = AddChild(nodes, This.into, AstNode("BLOCK", NoToken))
    /\ Then(<<Todo("statements", NewNode, This.parent, FALSE)>>)
    /\ UNCHANGED <<contexts, built>>

\* visitStatement: the first child is a context, whose rule the parser chose by
\* the token it begins with.
visitStatement ==
    /\ Doing("statements")
    /\ \E rule \in StatementRules :
          /\ MayBegin(rule)
          /\ todo' = <<Todo(rule, This.into, This.parent, FALSE)>> \o todo
    /\ UNCHANGED <<contexts, nodes, built>>

EndBlock ==
    /\ Doing("statements")
    /\ Then(<<>>)
    /\ built' = IF Tail(todo) = <<>> THEN "built" ELSE built
    /\ UNCHANGED <<contexts, nodes>>

----------------------------------------------------------------------------
\* visitDeclaration and AddAssignNode.  The parser makes up an ID that is missing,
\* or gives the declaration up without one.
DeclarationWithoutID ==
    /\ Doing("DECL") /\ MayBeDamaged
    /\ Opened("DECL", TRUE)
    /\ Crash

DeclarationNodes(type, id) ==
    AddChild(AddChild(AddChild(nodes, This.into, AstNode("DECL", NoToken)),
                      NewNode, AstNode("TYPE", [text |-> type, from |-> Here])),
             NewNode, AstNode("ID", [text |-> id, from |-> Here]))
AssignNodes(tree, into, id) ==
    AddChild(AddChild(tree, into, AstNode("ASSIGN", NoToken)),
             Len(tree) + 1, AstNode("ID", [text |-> id, from |-> Here]))

visitDeclaration(type, id, initialized) ==
    /\ Doing("DECL")
    /\ Opened("DECL", FALSE)
    /\ nodes' = IF initialized
                THEN AssignNodes(DeclarationNodes(type, id), NewNode, id)
                ELSE DeclarationNodes(type, id)
    /\ Then(IF initialized THEN <<Todo("expr", NewNode + 3, Here, FALSE)>> ELSE <<>>)
    /\ UNCHANGED built

\* visitAssignment.
visitAssignment(id, part) ==
    /\ Doing("ASSIGN") /\ (part = Missing => MayBeDamaged)
    /\ Opened("ASSIGN", part = Missing)
    /\ nodes' = AssignNodes(nodes, This.into, id)
    /\ Then(<<Todo(part, NewNode, Here, FALSE)>>)
    /\ UNCHANGED built

\* visitIf_stat and visitLoop: what follows a missing expression is missing too.
visitIf_stat(rule, condition, body) ==
    /\ Doing(rule) /\ (condition = Missing => body = Missing)
    /\ body = Missing => MayBeDamaged
    /\ Opened(rule, body = Missing)
    /\ nodes' = AddChild(nodes, This.into, AstNode(rule, NoToken))
    /\ Then(<<Todo(condition, NewNode, Here, FALSE), Todo(body, NewNode, Here, FALSE)>>)
    /\ UNCHANGED built

\* visitPrint: behind the token "print(" there is an expression context.
visitPrint ==
    /\ Doing("PRINT")
    /\ Opened("PRINT", FALSE)
    /\ nodes' = AddChild(nodes, This.into, AstNode("PRINT", NoToken))
    /\ Then(<<Todo("expr", NewNode, Here, FALSE)>>)
    /\ UNCHANGED built

----------------------------------------------------------------------------
\* visitExpr.  An expression context is one of the alternatives of the rule, or
\* nothing that fits any of them; "stray" is a token that error recovery left in it:
\* deleted before the closing bracket, or skipped.
MayOpenExpr(rule, stray) ==
    /\ rule \in Tokens => rule \in Alternatives
    /\ rule \in Operators \cup Scopes \cup {"INDEX", "PAREN"} => MayBegin(rule)
    /\ rule = "nothing" \/ stray # "none" => MayBeDamaged
    /\ stray \in {"none"} \cup (CASE rule = "INDEX"   -> Tokens \cup Operators
                                  [] rule = "PAREN"   -> Tokens \cup Operators
                                  [] rule = "nothing" -> {"INT"} \cup Operators
                                  [] OTHER            -> {})
OpenExpr(rule, stray) ==
    /\ Doing("expr") /\ MayOpenExpr(rule, stray)
    /\ Opened(rule, rule = "nothing" \/ stray # "none")
    /\ UNCHANGED built

\* ctx->ID() or ctx->INT() is there, if only as a stray token (47-54).
VisitLeaf(token, rule, stray, text) ==
    /\ token \in {rule, stray} \cap Tokens
    /\ OpenExpr(rule, stray)
    /\ nodes' = AddChild(AddChild(nodes, This.into, AstNode("EXPR", NoToken)),
                         NewNode, AstNode(token, [text |-> text, from |-> Here]))
    /\ Then(<<>>)

\* AddOperationNode, and the node of a generator's or filter's iterator.
Token(type, text) == [do |-> "token", into |-> NewNode, type |-> type, text |-> text, from |-> Here]
AddToken ==
    /\ Doing("token")
    /\ LET added == AddChild(nodes, This.into, AstNode(This.type, NoToken))
       IN  nodes' = IF This.type \in Scopes
                    THEN AddChild(added, NewNode, AstNode("ID", This))
                    ELSE added
    /\ Then(<<>>)
    /\ UNCHANGED <<contexts, built>>

\* The two sub expressions and what stands between them.
WithoutMiddle(middle, whole) ==     \* mutant: the node between them is left out
    <<Todo("expr", NewNode, Here, whole), Todo("expr", NewNode, Here, This.whole)>>
Around(middle, whole) ==
    <<Todo("expr", NewNode, Here, whole), middle, Todo("expr", NewNode, Here, This.whole)>>

VisitPair(rule, stray, middle, whole) ==
    /\ {rule, stray} \cap Tokens = {}
    /\ OpenExpr(rule, stray)
    /\ nodes' = AddChild(nodes, This.into, AstNode("EXPR", NoToken))
    /\ Then(Around(middle, whole))

\* ctx->generator() or ctx->filter() (55-70).  The parser tells one from the other
\* behind the domain, which has no error then.
VisitScoped(rule, id) == VisitPair(rule, "none", Token(rule, id), TRUE)

\* Two sub expressions (74-78).  An operator that was skipped in front of the closing
\* bracket of an index operation is taken for its operator (11-37).
VisitOperation(rule, stray) ==
    VisitPair(rule, stray, Token(IF stray = "none" THEN rule ELSE stray, ""), This.whole)

\* No second sub expression (71-73): parentheses, or nothing at all.
AlwaysANode(inner) ==               \* mutant: parentheses get a node of their own
    /\ nodes' = AddChild(nodes, This.into, AstNode("EXPR", NoToken))
    /\ Then(<<Todo(inner, NewNode, Here, This.whole)>>)
InnerExprDropped(inner) ==          \* mutant: what the inner visit returns is not returned
    /\ Then(<<Todo(inner, 0, Here, This.whole)>>)
    /\ UNCHANGED nodes
InnerExpr(inner) ==
    /\ Then(<<Todo(inner, This.into, Here, This.whole)>>)
    /\ UNCHANGED nodes
VisitParentheses(rule, stray) ==
    /\ rule \in {"PAREN", "nothing"} /\ stray \notin Tokens
    /\ OpenExpr(rule, stray)
    /\ InnerExpr(IF rule = "PAREN" THEN "expr" ELSE Missing)

----------------------------------------------------------------------------
BuilderInit ==
    /\ contexts = <<>> /\ nodes = <<>> /\ built = "visiting"
    /\ todo = <<Todo("block", 0, 0, FALSE)>>

BuildStatement ==
    \/ visitStatement \/ EndBlock
    \/ DeclarationWithoutID
    \/ \E type \in Keyword, id \in Identifier, initialized \in BOOLEAN :
          visitDeclaration(type, id, initialized)
    \/ \E id \in Identifier, part \in {"expr", Missing} : visitAssignment(id, part)
    \/ \E rule \in ConditionalRules, condition \in {"expr", Missing}, body \in {"block", Missing} :
          visitIf_stat(rule, condition, body)
    \/ visitPrint

Strays == {"none"} \cup Tokens \cup Operators
BuildExpr ==
    \/ \E token \in Tokens, rule \in Tokens \cup {"INDEX", "PAREN", "nothing"}, stray \in Strays :
          \E text \in TextOf(token) : VisitLeaf(token, rule, stray, text)
    \/ \E rule \in Scopes, id \in Identifier : VisitScoped(rule, id)
    \/ \E rule \in Operators \cup {"INDEX"}, stray \in Strays : VisitOperation(rule, stray)
    \/ \E rule \in {"PAREN", "nothing"}, stray \in Strays : VisitParentheses(rule, stray)
    \/ AddToken

BuilderNext == visitBlock \/ BuildStatement \/ BuildExpr \/ VisitMissing

\* The tree is built, or the process is gone.
BuilderOver == built # "visiting" /\ UNCHANGED builder_vars

BuilderSpec == BuilderInit /\ [][BuilderNext \/ BuilderOver]_builder_vars

----------------------------------------------------------------------------
(***************************************************************************)
(* NodesFormATree: every node but the root is the child of one node, of a  *)
(* lower index, and a token of the source becomes a node once: but for the *)
(* ID of a declaration with an initializer, which stands for the variable  *)
(* declared and for the one assigned to (95-111).  Nodes are handed from   *)
(* visit to AddChild in a std::any, parentheses hand on another's node.    *)
(***************************************************************************)
NodeTypes == {"BLOCK", "TYPE", "EXPR", "INDEX"} \cup StatementRules \cup Operators \cup Scopes \cup Tokens
Links == UNION {{<<p, k>> : k \in DOMAIN nodes[p].children} : p \in DOMAIN nodes}
Target(link) == nodes[link[1]].children[link[2]]
SameToken(m, n) ==
    /\ nodes[m].from = nodes[n].from /\ nodes[m].from # 0 /\ nodes[m].type = nodes[n].type
NodesFormATree ==
    /\ built \in {"visiting", "built", "crashed"}
    /\ \A n \in DOMAIN nodes : nodes[n].type \in NodeTypes
    /\ {Target(link) : link \in Links} = 2..Len(nodes)
    /\ nodes # <<>> => Cardinality(Links) = Len(nodes) - 1
    /\ \A link \in Links : link[1] < Target(link)
    /\ \A n \in DOMAIN nodes : \A m \in 1..(n - 1) :
          SameToken(m, n) => contexts[nodes[n].from].rule = "DECL"
=============================================================================
