------------------------------ MODULE MCFrontEnd ------------------------------
(***************************************************************************)
(* Model checking AstBuilder, with DefRef behind it, against a definition  *)
(* of the AST of a context.                                                *)
(***************************************************************************)
EXTENDS FrontEnd

\* The contexts below one, in the order of the source.
Below(c) == LET InC(d) == contexts[d].parent = c IN SelectSeq([d \in DOMAIN contexts |-> d], InC)

\* Trees are <<type, context of the token, trees of the children>>.
RECURSIVE TreeOf(_)
TreeOf(n) ==
    <<nodes[n].type, nodes[n].from,
      [k \in DOMAIN nodes[n].children |-> TreeOf(nodes[n].children[k])]>>

Leaf(type, c) == <<type, c, <<>>>>
Synthetic(type, below) == <<type, 0, below>>
Binary(left, middle, right) == Synthetic("EXPR", <<left, middle, right>>)

RECURSIVE AstOf(_)
AstOf(c) ==
    LET rule  == contexts[c].rule
        part  == [k \in DOMAIN Below(c) |-> AstOf(Below(c)[k])]
        id    == Leaf("ID", c)
    IN  CASE rule \in Tokens    -> Synthetic("EXPR", <<Leaf(rule, c)>>)
          [] rule = "PAREN"     -> part[1]
          [] rule \in Scopes    -> Binary(part[1], Synthetic(rule, <<id>>), part[2])
          [] rule \in Operators \cup {"INDEX"} -> Binary(part[1], Synthetic(rule, <<>>), part[2])
          [] rule = "DECL"      -> Synthetic("DECL", <<Leaf("TYPE", c), id>> \o
                                       [k \in DOMAIN part |-> Synthetic("ASSIGN", <<id, part[k]>>)])
          [] rule = "ASSIGN"    -> Synthetic("ASSIGN", <<id, part[1]>>)
          [] rule = "PRINT"     -> Synthetic("PRINT", part)
          [] rule \in ConditionalRules -> Synthetic(rule, <<part[1], Synthetic("BLOCK", Tail(part))>>)

\* Nothing is wrong at or below a context.
RECURSIVE Sound(_)
Sound(c) == ~contexts[c].damaged /\ \A k \in DOMAIN Below(c) : Sound(Below(c)[k])

(***************************************************************************)
(* BuildsTheAst: a parse tree without errors is built, to its AST; if      *)
(* there are errors and a tree is built nevertheless, then it has all the  *)
(* statements, in order, and those without an error are not affected by    *)
(* the others.  It is looked at when the tree is handed to DefRef.         *)
(***************************************************************************)
BuildsTheAst ==
    /\ built = "crashed" => Damaged # {}
    /\ built = "built" /\ ast = <<>> =>
          LET children == nodes[1].children
          IN  /\ Len(children) = Len(Below(0))
              /\ \A c \in DOMAIN contexts :
                    contexts[c].rule \in StatementRules /\ Sound(c) =>
                        \E n \in DOMAIN nodes : TreeOf(n) = AstOf(c)
              /\ \A k \in DOMAIN children :
                    Sound(Below(0)[k]) => TreeOf(children[k]) = AstOf(Below(0)[k])
=============================================================================
