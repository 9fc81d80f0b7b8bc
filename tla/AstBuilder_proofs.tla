------------------------- MODULE AstBuilder_proofs -------------------------
(***************************************************************************)
(* Proofs about AstBuilder, for every file, with any number of syntax      *)
(* errors: what is built is a tree at every moment, and a token of the     *)
(* source becomes one node.                                                *)
(*                                                                         *)
(* Nodes are only made by AddChild.  What an action has to know is that    *)
(* the parent it adds to is a node, and that the token is new: the         *)
(* invariant says both of all that is still to be done.                    *)
(***************************************************************************)
EXTENDS AstBuilder, FiniteSetTheorems, TLAPS

Texts == Identifier \cup Number \cup Keyword \cup {""}
Rules == StatementRules \cup Operators \cup Scopes \cup Tokens \cup {"INDEX", "PAREN", "nothing"}
Context == [rule: Rules, parent: Nat, damaged: BOOLEAN]
Node == [type: NodeTypes, text: Texts, from: Nat, children: Seq(Nat)]

VisitItem == [do: {"block", "statements", "expr", Missing} \cup StatementRules,
              into: Nat, parent: Nat, whole: BOOLEAN]
TokenItem == [do: {"token"}, into: Nat, type: Operators \cup Scopes \cup {"INDEX"},
              text: Texts, from: Nat]
TodoItem == VisitItem \cup TokenItem

----------------------------------------------------------------------------
(* The parts of the invariant, of the nodes "ns" and the contexts "cs". *)

LinksOf(ns) == UNION {{<<p, k>> : k \in DOMAIN ns[p].children} : p \in DOMAIN ns}
TargetOf(ns, link) == ns[link[1]].children[link[2]]

\* Every node but the root is the child of one node, before it.
IsTree(ns) ==
    /\ {TargetOf(ns, link) : link \in LinksOf(ns)} = 2..Len(ns)
    /\ IsFiniteSet(LinksOf(ns))
    /\ ns # <<>> => Cardinality(LinksOf(ns)) = Len(ns) - 1
    /\ \A link \in LinksOf(ns) : link[1] < TargetOf(ns, link)

\* A token is in one node, but for the ID of a declaration.
TokensOnce(ns, cs) ==
    \A n \in DOMAIN ns : \A m \in 1..(n - 1) :
        ns[m].from = ns[n].from /\ ns[m].from # 0 /\ ns[m].type = ns[n].type
            => cs[ns[n].from].rule = "DECL"

TreeOK(ns, cs) ==
    /\ ns \in Seq(Node) /\ IsTree(ns) /\ TokensOnce(ns, cs)
    /\ \A n \in DOMAIN ns : ns[n].from <= Len(cs)

\* A token from a context that no node has yet, or that of a declaration.
NewToken(ns, cs, token) ==
    \/ token.from = 0
    \/ /\ token.from \in 1..Len(cs)
       /\ \/ cs[token.from].rule = "DECL"
          \/ \A n \in DOMAIN ns : ns[n].from # token.from

\* Where a node can be added.
MayGrowAt(ns, parent) == parent \in 1..Len(ns) \/ (parent = 0 /\ ns = <<>>)

\* What is to be done is done below a node; tokens to come are not in a node yet.
AtRoot(ns, td) == ns = <<>> /\ td = <<Todo("block", 0, 0, FALSE)>>
IntoNodes(ns, td) == \A k \in DOMAIN td : td[k].into \in 1..Len(ns)
TokenToCome(ns, cs, item) ==
    item.do = "token" => /\ item.from \in 1..Len(cs)
                         /\ \A n \in DOMAIN ns : ns[n].from # item.from
TodoOK(ns, cs, td) ==
    /\ td \in Seq(TodoItem)
    /\ AtRoot(ns, td) \/ IntoNodes(ns, td)
    /\ \A k \in DOMAIN td : TokenToCome(ns, cs, td[k])
    /\ \A j, k \in DOMAIN td :
          td[j].do = "token" /\ td[k].do = "token" /\ td[j].from = td[k].from => j = k

BuilderInv ==
    /\ contexts \in Seq(Context)
    /\ TreeOK(nodes, contexts)
    /\ TodoOK(nodes, contexts, todo)
    /\ built \in {"visiting", "built", "crashed"}

----------------------------------------------------------------------------
(* Trees that grow. *)

\* Where a link is.
LEMMA InLinks ==
    ASSUME NEW ns, NEW l
    PROVE  l \in LinksOf(ns) <=>
              \E n \in DOMAIN ns : \E k \in DOMAIN ns[n].children : l = <<n, k>>
  BY DEF LinksOf

\* AstNode::AddChild adds one link, to the new node.
LEMMA OneMoreLink ==
    ASSUME NEW ns \in Seq(Node), NEW p \in 1..Len(ns), NEW node \in Node, node.children = <<>>,
           NEW t, t = AddChild(ns, p, node), NEW link, link = <<p, Len(ns[p].children) + 1>>
    PROVE  /\ link \notin LinksOf(ns)
           /\ LinksOf(t) = LinksOf(ns) \cup {link}
           /\ \A l \in LinksOf(ns) : TargetOf(t, l) = TargetOf(ns, l)
           /\ TargetOf(t, link) = Len(ns) + 1
           /\ t \in Seq(Node) /\ Len(t) = Len(ns) + 1
           /\ \A n \in 1..Len(ns) : t[n].from = ns[n].from /\ t[n].type = ns[n].type
           /\ t[Len(ns) + 1] = node
<1> DEFINE c == Len(ns[p].children) + 1
           m == Len(ns) + 1
           grown == Append(ns, node)
<1>1. p # 0 /\ p # m /\ grown \in Seq(Node) /\ Len(grown) = m /\ p \in DOMAIN grown /\ m \in Nat
  OBVIOUS
<1>2. (\A n \in 1..Len(ns) : grown[n] = ns[n]) /\ grown[m] = node
  OBVIOUS
<1>3. t = [grown EXCEPT ![p].children = Append(@, m)]
  BY <1>1 DEF AddChild
<1>4. ns[p] \in Node /\ ns[p].children \in Seq(Nat)
  <2>1. ns[p] \in Node
    OBVIOUS
  <2> QED
    BY <2>1 DEF Node
<1> HIDE DEF grown
<1>5. DOMAIN t = 1..m /\ (\A n \in 1..m : n # p => t[n] = grown[n])
      /\ t[p] = [ns[p] EXCEPT !.children = Append(@, m)]
  <2>1. DOMAIN grown = 1..m
    BY <1>1
  <2>2. grown[p] = ns[p]
    BY <1>2
  <2> HIDE DEF m
  <2> QED
    BY <1>1, <1>3, <2>1, <2>2
<1>6. t[p].children = Append(ns[p].children, m) /\ t[p].from = ns[p].from
      /\ t[p].type = ns[p].type /\ t[p] \in Node
  <2>1. t[p] = [ns[p] EXCEPT !.children = Append(ns[p].children, m)]
    BY <1>5
  <2>2. Append(ns[p].children, m) \in Seq(Nat)
    BY <1>1, <1>4
  <2> QED
    BY <1>4, <2>1, <2>2 DEF Node
<1>7. t[m] = node /\ \A n \in 1..Len(ns) : n # p => t[n] = ns[n]
  BY <1>1, <1>2, <1>5
<1>8. t \in Seq(Node) /\ Len(t) = m
  <2> DEFINE new == [grown[p] EXCEPT !.children = Append(@, m)]
  <2>1. t = [grown EXCEPT ![p] = new] /\ new = t[p]
    BY <1>1, <1>3
  <2> HIDE DEF new, m
  <2>2. new \in Node
    BY <1>6, <2>1
  <2> QED
    BY <1>1, <2>1, <2>2
<1>9. c \in Nat /\ c \notin DOMAIN ns[p].children /\ t[p].children[c] = m
      /\ DOMAIN t[p].children = DOMAIN ns[p].children \cup {c}
      /\ \A k \in DOMAIN ns[p].children : t[p].children[k] = ns[p].children[k]
  BY <1>1, <1>4, <1>6
<1> HIDE DEF c, m
<1>10. <<p, c>> \notin LinksOf(ns)
  BY <1>9, InLinks
<1>11. DOMAIN t = DOMAIN ns \cup {m} /\ DOMAIN node.children = {} /\ p \in DOMAIN ns
       /\ DOMAIN ns = 1..Len(ns)
  BY <1>5 DEF m
<1>12. LinksOf(t) = LinksOf(ns) \cup {<<p, c>>}
  <2>1. ASSUME NEW l PROVE l \in LinksOf(t) <=> l \in LinksOf(ns) \/ l = <<p, c>>
    <3>1. l \in LinksOf(t) <=> \E n \in DOMAIN t : \E k \in DOMAIN t[n].children : l = <<n, k>>
      BY InLinks
    <3>2. l \in LinksOf(ns) <=> \E n \in DOMAIN ns : \E k \in DOMAIN ns[n].children : l = <<n, k>>
      BY InLinks
    <3>3. ASSUME l \in LinksOf(t) PROVE l \in LinksOf(ns) \/ l = <<p, c>>
      <4>1. PICK n \in DOMAIN t : \E k \in DOMAIN t[n].children : l = <<n, k>>
        BY <3>1, <3>3
      <4>2. n # m
        BY <1>7, <1>11, <4>1
      <4>3. n \in DOMAIN ns
        BY <1>11, <4>1, <4>2
      <4> QED
        BY <1>7, <1>9, <1>11, <3>2, <4>1, <4>3
    <3>4. ASSUME l \in LinksOf(ns) PROVE l \in LinksOf(t)
      <4>1. PICK n \in DOMAIN ns : \E k \in DOMAIN ns[n].children : l = <<n, k>>
        BY <3>2, <3>4
      <4> QED
        BY <1>7, <1>9, <1>11, <3>1, <4>1
    <3>5. l = <<p, c>> => l \in LinksOf(t)
      BY <1>9, <1>11, <3>1
    <3> QED
      BY <3>3, <3>4, <3>5
  <2> QED
    BY <2>1
<1>13. ASSUME NEW l \in LinksOf(ns) PROVE TargetOf(t, l) = TargetOf(ns, l)
  <2>1. PICK n \in DOMAIN ns : \E k \in DOMAIN ns[n].children : l = <<n, k>>
    BY InLinks
  <2>2. PICK k \in DOMAIN ns[n].children : l = <<n, k>>
    BY <2>1
  <2>3. t[n].children[k] = ns[n].children[k]
    BY <1>7, <1>9, <1>11, <2>1
  <2> QED
    BY <2>2, <2>3 DEF TargetOf
<1>14. TargetOf(t, <<p, c>>) = m
  BY <1>9 DEF TargetOf
<1>15. \A n \in 1..Len(ns) : t[n].from = ns[n].from /\ t[n].type = ns[n].type
  BY <1>6, <1>7
<1> QED
  BY <1>7, <1>8, <1>10, <1>12, <1>13, <1>14, <1>15 DEF c, m

\* The first node.
LEMMA RootNode ==
    ASSUME NEW node \in Node, node.children = <<>>
    PROVE  /\ AddChild(<<>>, 0, node) = <<node>> /\ <<node>> \in Seq(Node)
           /\ LinksOf(<<node>>) = {}
<1>1. AddChild(<<>>, 0, node) = <<node>> /\ <<node>> \in Seq(Node)
  BY DEF AddChild
<1> DEFINE t == <<node>>
<1>2. DOMAIN t = {1} /\ t[1] = node /\ DOMAIN node.children = {}
  OBVIOUS
<1> HIDE DEF t
<1>3. LinksOf(t) = {}
  BY <1>2 DEF LinksOf
<1> QED
  BY <1>1, <1>3 DEF t

\* A tree with one more node is a tree, and no token is in it twice.
LEMMA GrownTree ==
    ASSUME NEW ns, NEW cs, TreeOK(ns, cs), Len(cs) \in Nat, NEW p, MayGrowAt(ns, p),
           NEW type \in NodeTypes, NEW token, token.text \in Texts, token.from \in Nat,
           NewToken(ns, cs, token),
           NEW t, t = AddChild(ns, p, AstNode(type, token))
    PROVE  /\ TreeOK(t, cs) /\ Len(ns) \in Nat /\ Len(t) = Len(ns) + 1
           /\ \A n \in 1..Len(ns) : t[n].from = ns[n].from
           /\ t[Len(ns) + 1].from = token.from
<1> DEFINE node == AstNode(type, token)
           m == Len(ns) + 1
<1>1. ns \in Seq(Node) /\ IsTree(ns) /\ TokensOnce(ns, cs) /\ m \in Nat /\ Len(ns) \in Nat
      /\ (\A n \in 1..Len(ns) : ns[n].from <= Len(cs)) /\ DOMAIN ns = 1..Len(ns)
  BY DEF TreeOK
<1>2. node \in Node /\ node.children = <<>> /\ node.from = token.from /\ node.type = type
      /\ t = AddChild(ns, p, node)
  BY DEF AstNode, Node
<1> HIDE DEF node
<1>3. /\ t \in Seq(Node) /\ Len(t) = m /\ t[m] = node
      /\ \A n \in 1..Len(ns) : t[n].from = ns[n].from /\ t[n].type = ns[n].type
  <2>1. CASE p = 0
    <3>1. ns = <<>> /\ m = 1
      BY <1>1, <2>1 DEF MayGrowAt
    <3> HIDE DEF m
    <3> QED
      <4>1. t = <<node>> /\ <<node>> \in Seq(Node)
        BY <1>2, <2>1, <3>1, RootNode
      <4>2. Len(t) = 1 /\ t[1] = node /\ Len(ns) = 0 /\ 1..0 = {}
        BY <3>1, <4>1
      <4> QED
        BY <3>1, <4>1, <4>2
  <2>2. CASE p # 0
    <3>1. p \in 1..Len(ns)
      BY <2>2 DEF MayGrowAt
    <3> HIDE DEF m
    <3>2. /\ t \in Seq(Node) /\ Len(t) = Len(ns) + 1 /\ t[Len(ns) + 1] = node
          /\ \A n \in 1..Len(ns) : t[n].from = ns[n].from /\ t[n].type = ns[n].type
      <4> DEFINE new == <<p, Len(ns[p].children) + 1>>
      <4>1. new = <<p, Len(ns[p].children) + 1>>
        OBVIOUS
      <4> HIDE DEF new
      <4> QED
        BY <1>1, <1>2, <3>1, <4>1, OneMoreLink
    <3> QED
      BY <3>2 DEF m
  <2> QED
    BY <2>1, <2>2
<1>4. IsTree(t)
  <2>1. CASE p = 0
    <3>1. ns = <<>> /\ t = <<node>> /\ LinksOf(t) = {}
      <4>1. ns = <<>>
        BY <1>1, <2>1 DEF MayGrowAt
      <4>2. t = AddChild(<<>>, 0, node)
        BY <1>2, <2>1, <4>1
      <4> QED
        BY <1>2, <4>1, <4>2, RootNode
    <3>2. Cardinality({}) = 0 /\ IsFiniteSet({})
      BY FS_EmptySet
    <3>3. Len(t) = 1
      BY <3>1
    <3>4. 2..Len(t) = {}
      BY <3>3
    <3>5. {TargetOf(t, link) : link \in LinksOf(t)} = {}
      BY <3>1
    <3>6. IsFiniteSet(LinksOf(t)) /\ Cardinality(LinksOf(t)) = Len(t) - 1
      <4>1. IsFiniteSet(LinksOf(t)) /\ Cardinality(LinksOf(t)) = 0
        BY <3>1, <3>2
      <4> QED
        BY <3>3, <4>1
    <3> QED
      BY <3>1, <3>4, <3>5, <3>6 DEF IsTree
  <2>2. CASE p # 0
    <3> DEFINE new == <<p, Len(ns[p].children) + 1>>
    <3>1. p \in 1..Len(ns)
      BY <2>2 DEF MayGrowAt
    <3>2. /\ new \notin LinksOf(ns)
          /\ LinksOf(t) = LinksOf(ns) \cup {new}
          /\ \A l \in LinksOf(ns) : TargetOf(t, l) = TargetOf(ns, l)
          /\ TargetOf(t, new) = m
      <4>1. new = <<p, Len(ns[p].children) + 1>>
        OBVIOUS
      <4> HIDE DEF new
      <4>2. /\ new \notin LinksOf(ns)
            /\ LinksOf(t) = LinksOf(ns) \cup {new}
            /\ \A l \in LinksOf(ns) : TargetOf(t, l) = TargetOf(ns, l)
            /\ TargetOf(t, new) = Len(ns) + 1
        BY <1>1, <1>2, <3>1, <4>1, OneMoreLink
      <4> QED
        BY <4>2
    <3>3. new[1] < m
      BY <3>1, <1>1
    <3> HIDE DEF new
    <3>4. 2..m = 2..Len(ns) \cup {m}
      BY <1>1, <3>1
    <3>5. {TargetOf(t, link) : link \in LinksOf(t)} = 2..m
      <4>1. {TargetOf(ns, link) : link \in LinksOf(ns)} = 2..Len(ns)
        BY <1>1 DEF IsTree
      <4> HIDE DEF m
      <4> QED
        BY <3>2, <3>4, <4>1
    <3>6. IsFiniteSet(LinksOf(ns)) /\ Cardinality(LinksOf(ns)) = Len(ns) - 1
      <4>1. ns # <<>>
        BY <1>1, <3>1
      <4> QED
        BY <1>1, <4>1 DEF IsTree
    <3>7. IsFiniteSet(LinksOf(t)) /\ Cardinality(LinksOf(t)) = m - 1
      <4>1. IsFiniteSet(LinksOf(ns) \cup {new})
            /\ Cardinality(LinksOf(ns) \cup {new}) = Cardinality(LinksOf(ns)) + 1
        BY <3>2, <3>6, FS_AddElement
      <4> QED
        BY <1>1, <3>2, <3>6, <4>1
    <3>8. \A link \in LinksOf(t) : link[1] < TargetOf(t, link)
      <4>1. \A link \in LinksOf(ns) : link[1] < TargetOf(ns, link)
        BY <1>1 DEF IsTree
      <4> HIDE DEF m
      <4> QED
        BY <3>2, <3>3, <4>1
    <3> QED
      BY <1>3, <3>5, <3>7, <3>8 DEF IsTree
  <2> QED
    BY <2>1, <2>2
<1>5. TokensOnce(t, cs)
  <2> SUFFICES ASSUME NEW n \in DOMAIN t, NEW k \in 1..(n - 1), t[k].from = t[n].from,
                      t[k].from # 0, t[k].type = t[n].type
               PROVE  cs[t[n].from].rule = "DECL"
    BY DEF TokensOnce
  <2>1. n \in 1..m /\ k \in 1..Len(ns) /\ k \in DOMAIN ns
    BY <1>1, <1>3
  <2>2. CASE n = m
    <3>1. token.from = ns[k].from /\ token.from # 0
      BY <1>2, <1>3, <2>1, <2>2
    <3> QED
      BY <1>2, <1>3, <2>1, <2>2, <3>1 DEF NewToken
  <2>3. CASE n # m
    <3>1. n \in 1..Len(ns)
      BY <1>1, <2>1, <2>3
    <3> QED
      BY <1>1, <1>3, <2>1, <3>1 DEF TokensOnce
  <2> QED
    BY <2>2, <2>3
<1>6. \A n \in DOMAIN t : t[n].from <= Len(cs)
  <2> SUFFICES ASSUME NEW n \in DOMAIN t PROVE t[n].from <= Len(cs)
    OBVIOUS
  <2>1. n \in 1..m
    BY <1>1, <1>3
  <2>2. CASE n = m
    BY <1>2, <1>3, <2>2 DEF NewToken
  <2>3. CASE n # m
    BY <1>1, <1>3, <2>1, <2>3
  <2> QED
    BY <2>2, <2>3
<1> QED
  BY <1>1, <1>2, <1>3, <1>4, <1>5, <1>6 DEF TreeOK

\* A tree does not mind another context.
LEMMA OpenedTree ==
    ASSUME NEW ns, NEW R, NEW cs \in Seq(R), NEW c \in R, TreeOK(ns, cs)
    PROVE  /\ TreeOK(ns, Append(cs, c)) /\ Len(Append(cs, c)) = Len(cs) + 1
           /\ Append(cs, c)[Len(cs) + 1] = c
           /\ \A i \in 1..Len(cs) : Append(cs, c)[i] = cs[i]
           /\ \A n \in DOMAIN ns : ns[n].from # Len(cs) + 1
<1> DEFINE cs2 == Append(cs, c)
<1>1. Len(cs2) = Len(cs) + 1 /\ cs2[Len(cs) + 1] = c /\ \A i \in 1..Len(cs) : cs2[i] = cs[i]
  OBVIOUS
<1>2. ns \in Seq(Node) /\ Len(cs) \in Nat /\ \A n \in DOMAIN ns : ns[n].from <= Len(cs)
  BY DEF TreeOK
<1>3. \A n \in DOMAIN ns : ns[n] \in Node /\ ns[n].from \in Nat
  <2>1. \A n \in DOMAIN ns : ns[n] \in Node
    BY <1>2
  <2>2. \A x \in Node : x.from \in Nat
    BY DEF Node
  <2> QED
    BY <2>1, <2>2
<1> HIDE DEF cs2
<1>4. TokensOnce(ns, cs2)
  <2> SUFFICES ASSUME NEW n \in DOMAIN ns, NEW k \in 1..(n - 1), ns[k].from = ns[n].from,
                      ns[k].from # 0, ns[k].type = ns[n].type
               PROVE  cs2[ns[n].from].rule = "DECL"
    BY DEF TokensOnce
  <2>1. cs[ns[n].from].rule = "DECL"
    BY DEF TreeOK, TokensOnce
  <2>2. ns[n].from \in 1..Len(cs)
    BY <1>2, <1>3
  <2> QED
    BY <1>1, <2>1, <2>2
<1>5. TreeOK(ns, cs2)
  BY <1>1, <1>2, <1>3, <1>4 DEF TreeOK
<1>6. \A n \in DOMAIN ns : ns[n].from # Len(cs) + 1
  BY <1>2, <1>3
<1> QED
  BY <1>1, <1>5, <1>6 DEF cs2


----------------------------------------------------------------------------
(* What is still to be done. *)

\* Nodes were added, if any, for tokens of the context "here".
Grown(ns, ns2, here) ==
    /\ Len(ns) <= Len(ns2)
    /\ \A n \in 1..Len(ns2) : \/ n \in 1..Len(ns) /\ ns2[n].from = ns[n].from
                              \/ ns2[n].from \in {0, here}

\* What a visit of the context "here" leaves to be done.
NewItems(items, ns2, here) ==
    /\ items \in Seq(TodoItem)
    /\ \A k \in 1..Len(items) : items[k].into \in 1..Len(ns2)
    /\ \A k \in 1..Len(items) : items[k].do = "token" =>
          items[k].from = here /\ \A n \in 1..Len(ns2) : ns2[n].from # here
    /\ \A j, k \in 1..Len(items) : items[j].do = "token" /\ items[k].do = "token" => j = k

\* One more node, for a token of that context.
LEMMA GrownByOne ==
    ASSUME NEW ns0, NEW ns, NEW cs, NEW here \in Nat, TreeOK(ns, cs), Len(cs) \in Nat, Grown(ns0, ns, here),
           NEW p, MayGrowAt(ns, p), NEW type \in NodeTypes, NEW token, token.text \in Texts,
           token.from \in {0, here}, NewToken(ns, cs, token),
           NEW t, t = AddChild(ns, p, AstNode(type, token))
    PROVE  /\ TreeOK(t, cs) /\ Grown(ns0, t, here) /\ Len(ns) \in Nat /\ Len(t) = Len(ns) + 1
           /\ \A n \in 1..Len(ns) : t[n].from = ns[n].from
           /\ t[Len(ns) + 1].from = token.from
<1>1. token.from \in Nat
  OBVIOUS
<1>2. /\ TreeOK(t, cs) /\ Len(ns) \in Nat /\ Len(t) = Len(ns) + 1
      /\ \A n \in 1..Len(ns) : t[n].from = ns[n].from
      /\ t[Len(ns) + 1].from = token.from
  BY <1>1, GrownTree
<1>3. Len(ns0) <= Len(t)
  BY <1>2 DEF Grown
<1>4. ASSUME NEW n \in 1..Len(t)
      PROVE  (n \in 1..Len(ns0) /\ t[n].from = ns0[n].from) \/ t[n].from \in {0, here}
  <2>1. CASE n = Len(ns) + 1
    BY <1>2, <2>1
  <2>2. CASE n # Len(ns) + 1
    <3>1. n \in 1..Len(ns)
      BY <1>2, <2>2
    <3> QED
      BY <1>2, <3>1 DEF Grown
  <2> QED
    BY <2>1, <2>2
<1> QED
  BY <1>2, <1>3, <1>4 DEF Grown

\* The head of the list: where its nodes go.
LEMMA HeadOfTodo ==
    ASSUME NEW ns, NEW cs, NEW td, TodoOK(ns, cs, td), td # <<>>
    PROVE  /\ td \in Seq(TodoItem) /\ Head(td) = td[1] /\ Head(td) \in TodoItem
           /\ Len(td) \in Nat /\ Len(td) >= 1
           /\ MayGrowAt(ns, Head(td).into)
           /\ Head(td).do # "block" => Head(td).into \in 1..Len(ns)
           /\ \A k \in 2..Len(td) : td[k].into \in 1..Len(ns)
<1>1. td \in Seq(TodoItem) /\ (AtRoot(ns, td) \/ IntoNodes(ns, td))
  BY DEF TodoOK
<1>2. Head(td) = td[1] /\ Head(td) \in TodoItem /\ Len(td) \in Nat /\ Len(td) >= 1
      /\ DOMAIN td = 1..Len(td)
  BY <1>1
<1>3. CASE AtRoot(ns, td)
  <2>1. ns = <<>> /\ Len(td) = 1 /\ td[1] = Todo("block", 0, 0, FALSE)
    BY <1>3 DEF AtRoot
  <2>2. Head(td).into = 0 /\ Head(td).do = "block"
    BY <1>2, <2>1 DEF Todo
  <2>3. MayGrowAt(ns, Head(td).into) /\ 2..Len(td) = {}
    BY <2>1, <2>2 DEF MayGrowAt
  <2> QED
    BY <1>1, <1>2, <2>2, <2>3
<1>4. CASE IntoNodes(ns, td)
  BY <1>1, <1>2, <1>4 DEF IntoNodes, MayGrowAt
<1> QED
  BY <1>1, <1>3, <1>4

\* The tokens still to come are not those of "here"; the head of the list is done, or a
\* visit that goes on.
Continues(cs, cs2, td, here, items, skipped) ==
    /\ Len(cs) \in Nat /\ Len(cs2) \in Nat /\ Len(cs) <= Len(cs2)
    /\ here \in Nat /\ here # 0
    /\ \A k \in 2..Len(td) : td[k].do = "token" => td[k].from # here
    /\ \/ \A k \in 1..Len(items) : items[k].do # "token"
       \/ here = Len(cs) + 1 /\ here <= Len(cs2)
    /\ skipped \in {0, 1}
    /\ skipped = 0 => Head(td).do \notin {"block", "token"}

\* What was to be done before is done after what is new.
LEMMA TodoGoesOn ==
    ASSUME NEW ns, NEW ns2, NEW cs, NEW cs2, NEW td, TodoOK(ns, cs, td), td # <<>>,
           Len(ns) \in Nat, Len(ns2) \in Nat,
           NEW here, Grown(ns, ns2, here), NEW items, NewItems(items, ns2, here),
           NEW skipped, Continues(cs, cs2, td, here, items, skipped),
           NEW rest, rest = IF skipped = 1 THEN Tail(td) ELSE td
    PROVE  TodoOK(ns2, cs2, items \o rest)
<1> USE DEF Continues
<1> DEFINE new == items \o rest
           m == Len(items)
<1>1. /\ td \in Seq(TodoItem) /\ Len(td) \in Nat /\ Len(td) >= 1 /\ Head(td) = td[1]
      /\ \A k \in 2..Len(td) : td[k].into \in 1..Len(ns)
      /\ Head(td).do # "block" => td[1].into \in 1..Len(ns)
  BY HeadOfTodo
<1>2. items \in Seq(TodoItem) /\ m \in Nat
  BY DEF NewItems
<1>3. /\ rest \in Seq(TodoItem) /\ Len(rest) = Len(td) - skipped
      /\ \A k \in 1..Len(rest) : rest[k] = td[k + skipped] /\ k + skipped \in 1..Len(td)
  BY <1>1
<1>4. /\ new \in Seq(TodoItem) /\ Len(new) = m + Len(rest)
      /\ \A k \in 1..m : new[k] = items[k]
      /\ \A k \in 1..Len(new) : k > m => new[k] = rest[k - m] /\ k - m \in 1..Len(rest)
  BY <1>2, <1>3
<1> HIDE DEF new, m
<1>5. ASSUME NEW k \in 1..Len(new), k > m
      PROVE  /\ new[k] = td[k - m + skipped] /\ k - m + skipped \in 1..Len(td)
             /\ k - m + skipped = 1 => skipped = 0
  <2> DEFINE i == k - m
  <2>1. i \in 1..Len(rest) /\ new[k] = rest[i] /\ skipped \in {0, 1}
    BY <1>4, <1>5
  <2>2. rest[i] = td[i + skipped] /\ i + skipped \in 1..Len(td)
    BY <1>3, <2>1
  <2>3. i \in Nat /\ i >= 1 /\ (i + skipped = 1 => skipped = 0)
    BY <1>3, <2>1
  <2> HIDE DEF i
  <2>4. new[k] = td[i + skipped] /\ i + skipped \in 1..Len(td) /\ (i + skipped = 1 => skipped = 0)
    BY <2>1, <2>2, <2>3
  <2> QED
    BY <2>4 DEF i
<1>6. \A k \in 1..Len(td) : TokenToCome(ns, cs, td[k])
  BY <1>1 DEF TodoOK
<1>7. \A j, k \in 1..Len(td) :
          td[j].do = "token" /\ td[k].do = "token" /\ td[j].from = td[k].from => j = k
  BY <1>1 DEF TodoOK
<1>8. ASSUME NEW k \in 1..Len(new) PROVE new[k].into \in 1..Len(ns2)
  <2>1. CASE k <= m
    <3>1. k \in 1..m /\ new[k] = items[k]
      BY <1>2, <1>4, <2>1
    <3> QED
      BY <3>1 DEF NewItems, m
  <2>2. CASE k > m
    <3> DEFINE i == k - m + skipped
    <3>1. new[k] = td[i] /\ i \in 1..Len(td) /\ (i = 1 => skipped = 0)
      BY <1>5, <2>2
    <3> HIDE DEF i
    <3>2. td[i].into \in 1..Len(ns)
      BY <1>1, <3>1
    <3> QED
      BY <3>1, <3>2 DEF Grown
  <2> QED
    BY <1>2, <2>1, <2>2
<1>9. ASSUME NEW k \in 1..Len(td), td[k].do = "token", k = 1 => skipped = 0
      PROVE  td[k].from # here /\ td[k].from \in 1..Len(cs)
             /\ \A n \in 1..Len(ns2) : ns2[n].from # td[k].from
  <2>1. td[k].from \in 1..Len(cs) /\ \A n \in DOMAIN ns : ns[n].from # td[k].from
    BY <1>6, <1>9 DEF TokenToCome
  <2>2. k \in 2..Len(td)
    BY <1>1, <1>9
  <2>3. td[k].from # here /\ td[k].from # 0
    BY <1>9, <2>1, <2>2
  <2>4. DOMAIN ns = 1..Len(ns)
    OBVIOUS
  <2> QED
    BY <2>1, <2>3, <2>4 DEF Grown
<1>10. ASSUME NEW k \in 1..Len(new) PROVE TokenToCome(ns2, cs2, new[k])
  <2> SUFFICES ASSUME new[k].do = "token"
               PROVE  new[k].from \in 1..Len(cs2) /\ \A n \in DOMAIN ns2 : ns2[n].from # new[k].from
    BY DEF TokenToCome
  <2>0. DOMAIN ns2 = 1..Len(ns2)
    OBVIOUS
  <2>1. CASE k <= m
    <3>1. k \in 1..m /\ new[k] = items[k]
      BY <1>2, <1>4, <2>1
    <3>2. items[k].from = here /\ \A n \in 1..Len(ns2) : ns2[n].from # here
      BY <3>1 DEF NewItems, m
    <3>3. here = Len(cs) + 1 /\ here <= Len(cs2)
      BY <3>1 DEF m
    <3> QED
      BY <2>0, <3>1, <3>2, <3>3
  <2>2. CASE k > m
    <3> DEFINE i == k - m + skipped
    <3>1. new[k] = td[i] /\ i \in 1..Len(td) /\ (i = 1 => skipped = 0)
      BY <1>5, <2>2
    <3> HIDE DEF i
    <3> QED
      BY <1>9, <2>0, <3>1
  <2> QED
    BY <1>2, <2>1, <2>2
<1>11. ASSUME NEW j \in 1..Len(new), NEW k \in 1..Len(new), new[j].do = "token",
              new[k].do = "token", new[j].from = new[k].from
       PROVE  j = k
  <2>1. ASSUME NEW a \in 1..Len(new), NEW b \in 1..Len(new), new[a].do = "token",
               new[b].do = "token", a <= m, b > m
        PROVE  new[a].from # new[b].from
    <3> DEFINE i == b - m + skipped
    <3>1. new[b] = td[i] /\ i \in 1..Len(td) /\ (i = 1 => skipped = 0)
      BY <1>5, <2>1
    <3> HIDE DEF i
    <3>2. a \in 1..m /\ new[a] = items[a]
      BY <1>2, <1>4, <2>1
    <3>3. items[a].from = here
      BY <2>1, <3>2 DEF NewItems, m
    <3> QED
      BY <1>9, <2>1, <3>1, <3>2, <3>3
  <2>2. CASE j <= m /\ k <= m
    <3>1. j \in 1..m /\ k \in 1..m
      BY <1>2, <2>2
    <3>2. new[j] = items[j] /\ new[k] = items[k]
      BY <1>4, <3>1
    <3> QED
      BY <1>11, <3>1, <3>2 DEF NewItems, m
  <2>3. CASE j > m /\ k > m
    <3> DEFINE x == j - m + skipped
               y == k - m + skipped
    <3>1. new[j] = td[x] /\ x \in 1..Len(td) /\ new[k] = td[y] /\ y \in 1..Len(td)
      BY <1>5, <2>3
    <3>2. x = y => j = k
      BY <1>2
    <3> HIDE DEF x, y
    <3> QED
      BY <1>7, <1>11, <3>1, <3>2
  <2> QED
    BY <1>2, <1>11, <2>1, <2>2, <2>3
<1>12. new \in Seq(TodoItem) /\ DOMAIN new = 1..Len(new)
  BY <1>4
<1>13. IntoNodes(ns2, new)
  BY <1>8, <1>12 DEF IntoNodes
<1>14. TodoOK(ns2, cs2, new)
  BY <1>10, <1>11, <1>12, <1>13 DEF TodoOK
<1> QED
  BY <1>14 DEF new


LEMMA TodoIsItem ==
    ASSUME NEW do \in {"block", "statements", "expr", Missing} \cup StatementRules,
           NEW into \in Nat, NEW parent \in Nat, NEW whole \in BOOLEAN
    PROVE  Todo(do, into, parent, whole) \in VisitItem /\ Todo(do, into, parent, whole).into = into
  BY DEF Todo, VisitItem

LEMMA NoItems == ASSUME NEW ns, NEW here PROVE NewItems(<<>>, ns, here)
  BY DEF NewItems

LEMMA OneItem ==
    ASSUME NEW ns, NEW here, NEW a \in VisitItem, a.into \in 1..Len(ns)
    PROVE  NewItems(<<a>>, ns, here)
<1> DEFINE s == <<a>>
<1>1. Len(s) = 1 /\ s[1] = a /\ a.do # "token" /\ a \in TodoItem
  BY DEF VisitItem, TodoItem, StatementRules, ConditionalRules, Missing
<1>2. s \in Seq(TodoItem)
  BY <1>1
<1> HIDE DEF s
<1>3. \A k \in 1..Len(s) : s[k] = a
  BY <1>1
<1>4. NewItems(s, ns, here)
  BY <1>1, <1>2, <1>3 DEF NewItems
<1> QED
  BY <1>4 DEF s

LEMMA TwoItems ==
    ASSUME NEW ns, NEW here, NEW a \in VisitItem, a.into \in 1..Len(ns),
           NEW b \in VisitItem, b.into \in 1..Len(ns)
    PROVE  NewItems(<<a, b>>, ns, here)
<1> DEFINE s == <<a, b>>
<1>1. Len(s) = 2 /\ s[1] = a /\ s[2] = b /\ a.do # "token" /\ b.do # "token"
      /\ a \in TodoItem /\ b \in TodoItem
  BY DEF VisitItem, TodoItem, StatementRules, ConditionalRules, Missing
<1>2. s \in Seq(TodoItem)
  BY <1>1
<1> HIDE DEF s
<1>3. \A k \in 1..Len(s) : s[k] = a \/ s[k] = b
  BY <1>1
<1>4. NewItems(s, ns, here)
  BY <1>1, <1>2, <1>3 DEF NewItems
<1> QED
  BY <1>4 DEF s

LEMMA ThreeItems ==
    ASSUME NEW ns, NEW here, NEW a \in VisitItem, a.into \in 1..Len(ns),
           NEW b \in VisitItem, b.into \in 1..Len(ns),
           NEW t \in TokenItem, t.into \in 1..Len(ns), t.from = here,
           \A n \in 1..Len(ns) : ns[n].from # here
    PROVE  NewItems(<<a, t, b>>, ns, here)
<1> DEFINE s == <<a, t, b>>
<1>1. Len(s) = 3 /\ s[1] = a /\ s[2] = t /\ s[3] = b /\ a.do # "token" /\ b.do # "token"
      /\ a \in TodoItem /\ b \in TodoItem /\ t \in TodoItem
  BY DEF VisitItem, TodoItem, StatementRules, ConditionalRules, Missing
<1>2. s \in Seq(TodoItem)
  BY <1>1
<1> HIDE DEF s
<1>3. \A k \in 1..Len(s) : k \in {1, 2, 3}
  BY <1>1
<1>4. \A k \in 1..Len(s) : s[k].do = "token" => k = 2
  BY <1>1, <1>3
<1>5. \A k \in 1..Len(s) : s[k].into \in 1..Len(ns)
  BY <1>1, <1>3
<1>6. \A k \in 1..Len(s) : s[k].do = "token" =>
          s[k].from = here /\ \A n \in 1..Len(ns) : ns[n].from # here
  BY <1>1, <1>4
<1>7. \A j, k \in 1..Len(s) : s[j].do = "token" /\ s[k].do = "token" => j = k
  BY <1>4
<1>8. NewItems(s, ns, here)
  BY <1>2, <1>5, <1>6, <1>7 DEF NewItems
<1> QED
  BY <1>8 DEF s

----------------------------------------------------------------------------
(* The steps. *)

\* The visit of a context.
LEMMA VisitIs ==
    ASSUME BuilderInv, todo # <<>>, This.do # "token"
    PROVE  /\ This \in VisitItem /\ This.parent \in Nat /\ This.whole \in BOOLEAN
           /\ MayGrowAt(nodes, This.into)
           /\ This.do # "block" => This.into \in 1..Len(nodes)
           /\ contexts \in Seq(Context) /\ Len(contexts) \in Nat /\ Here \in Nat /\ Here # 0
           /\ nodes \in Seq(Node) /\ Len(nodes) \in Nat
<1>1. TodoOK(nodes, contexts, todo) /\ TreeOK(nodes, contexts) /\ contexts \in Seq(Context)
  BY DEF BuilderInv
<1>2. /\ This \in TodoItem /\ MayGrowAt(nodes, This.into)
      /\ This.do # "block" => This.into \in 1..Len(nodes)
  BY <1>1, HeadOfTodo DEF This
<1>3. This \in VisitItem
  BY <1>2 DEF TodoItem, TokenItem
<1>4. This.parent \in Nat /\ This.whole \in BOOLEAN
  BY <1>3 DEF VisitItem
<1>5. nodes \in Seq(Node) /\ Len(nodes) \in Nat
  BY <1>1 DEF TreeOK
<1>6. Len(contexts) \in Nat /\ Here \in Nat /\ Here # 0
  BY <1>1 DEF Here
<1> QED
  BY <1>1, <1>2, <1>3, <1>4, <1>5, <1>6

LEMMA NothingGrown ==
    ASSUME NEW ns \in Seq(Node), NEW here PROVE Grown(ns, ns, here)
  BY DEF Grown

\* A visit that opens its context, adds its nodes and leaves its parts to be done.
LEMMA OpenedStep ==
    ASSUME BuilderInv, todo # <<>>, This.do \notin {"token", "block"},
           NEW c \in Context, contexts' = Append(contexts, c),
           TreeOK(nodes', contexts'), Grown(nodes, nodes', Here),
           NEW items, NewItems(items, nodes', Here), todo' = items \o Tail(todo), built' = built
    PROVE  BuilderInv'
<1>1. TodoOK(nodes, contexts, todo) /\ TreeOK(nodes, contexts) /\ contexts \in Seq(Context)
      /\ built \in {"visiting", "built", "crashed"}
  BY DEF BuilderInv
<1>2. Len(contexts) \in Nat /\ Here \in Nat /\ Here # 0 /\ Here = Len(contexts) + 1
      /\ nodes \in Seq(Node) /\ Len(nodes) \in Nat
  BY VisitIs DEF Here
<1>3. contexts' \in Seq(Context) /\ Len(contexts') = Here
  BY <1>1, <1>2
<1>4. Len(nodes') \in Nat
  BY DEF TreeOK
<1>5. \A k \in 2..Len(todo) : todo[k].do = "token" => todo[k].from # Here
  <2>1. todo \in Seq(TodoItem)
    BY <1>1 DEF TodoOK
  <2>2. ASSUME NEW k \in 2..Len(todo), todo[k].do = "token" PROVE todo[k].from # Here
    <3>1. k \in DOMAIN todo
      BY <2>1
    <3>2. todo[k].from \in 1..Len(contexts)
      BY <1>1, <2>2, <3>1 DEF TodoOK, TokenToCome
    <3> QED
      BY <1>2, <3>2
  <2> QED
    BY <2>2
<1> DEFINE rest == Tail(todo)
           here == Here
<1>6. rest = IF 1 = 1 THEN Tail(todo) ELSE todo
  OBVIOUS
<1>7. here \in Nat /\ here # 0 /\ here = Len(contexts) + 1 /\ here <= Len(contexts')
      /\ Len(contexts) <= Len(contexts') /\ Len(contexts') \in Nat /\ Grown(nodes, nodes', here)
      /\ NewItems(items, nodes', here)
      /\ \A k \in 2..Len(todo) : todo[k].do = "token" => todo[k].from # here
  BY <1>2, <1>3, <1>5
<1> HIDE DEF rest, here
<1>9. Continues(contexts, contexts', todo, here, items, 1)
  BY <1>2, <1>7 DEF Continues
<1>8. TodoOK(nodes', contexts', items \o rest)
  BY <1>1, <1>2, <1>4, <1>6, <1>7, <1>9, TodoGoesOn
<1> QED
  BY <1>1, <1>3, <1>8 DEF BuilderInv, rest

\* A visit that uses a null pointer: only its context is left.
LEMMA TodoOpened ==
    ASSUME BuilderInv, NEW c \in Context, contexts' = Append(contexts, c),
           UNCHANGED <<nodes, todo>>, built' \in {"visiting", "built", "crashed"}
    PROVE  BuilderInv'
<1>1. TodoOK(nodes, contexts, todo) /\ TreeOK(nodes, contexts) /\ contexts \in Seq(Context)
  BY DEF BuilderInv
<1>2. TreeOK(nodes', contexts')
  BY <1>1, OpenedTree
<1>3. contexts' \in Seq(Context) /\ Len(contexts') = Len(contexts) + 1
  BY <1>1
<1>4. TodoOK(nodes', contexts', todo')
  <2>1. ASSUME NEW k \in DOMAIN todo PROVE TokenToCome(nodes, contexts', todo[k])
    <3>1. TokenToCome(nodes, contexts, todo[k])
      BY <1>1 DEF TodoOK
    <3>2. \A i \in 1..Len(contexts) : i \in 1..(Len(contexts) + 1)
      BY <1>1
    <3> QED
      BY <1>3, <3>1, <3>2 DEF TokenToCome
  <2> QED
    BY <1>1, <2>1 DEF TodoOK
<1> QED
  BY <1>2, <1>3, <1>4 DEF BuilderInv


\* Tokens to come are from contexts that were opened.
LEMMA TokensFromContexts ==
    ASSUME BuilderInv
    PROVE  \A k \in 2..Len(todo) : todo[k].do = "token" => todo[k].from # Here
<1>1. TodoOK(nodes, contexts, todo) /\ todo \in Seq(TodoItem) /\ contexts \in Seq(Context)
  BY DEF BuilderInv, TodoOK
<1>2. ASSUME NEW k \in 2..Len(todo), todo[k].do = "token" PROVE todo[k].from # Here
  <2>1. k \in DOMAIN todo
    BY <1>1
  <2>2. todo[k].from \in 1..Len(contexts)
    BY <1>1, <1>2, <2>1 DEF TodoOK, TokenToCome
  <2> QED
    BY <1>1, <2>2 DEF Here
<1> QED
  BY <1>2

\* A step in the contexts that are there.
LEMMA UnopenedStep ==
    ASSUME BuilderInv, todo # <<>>, contexts' = contexts, TreeOK(nodes', contexts),
           NEW here, Grown(nodes, nodes', here), NEW items, NewItems(items, nodes', here),
           NEW skipped, Continues(contexts, contexts, todo, here, items, skipped),
           todo' = items \o (IF skipped = 1 THEN Tail(todo) ELSE todo),
           built' \in {"visiting", "built", "crashed"}
    PROVE  BuilderInv'
<1>1. TodoOK(nodes, contexts, todo) /\ contexts \in Seq(Context) /\ TreeOK(nodes, contexts)
  BY DEF BuilderInv
<1>2. Len(nodes) \in Nat /\ Len(nodes') \in Nat
  BY <1>1 DEF TreeOK
<1> DEFINE rest == IF skipped = 1 THEN Tail(todo) ELSE todo
<1>3. rest = IF skipped = 1 THEN Tail(todo) ELSE todo
  OBVIOUS
<1>4. todo' = items \o rest
  OBVIOUS
<1> HIDE DEF rest
<1>5. TodoOK(nodes', contexts, items \o rest)
  BY <1>1, <1>2, <1>3, TodoGoesOn
<1> QED
  BY <1>1, <1>4, <1>5 DEF BuilderInv

LEMMA NoTokens ==
    ASSUME NEW ns, NEW here, NEW a \in VisitItem
    PROVE  \A k \in 1..Len(<<a>>) : <<a>>[k].do # "token"
<1> DEFINE s == <<a>>
<1>1. Len(s) = 1 /\ s[1] = a /\ a.do # "token"
  BY DEF VisitItem, StatementRules, ConditionalRules, Missing
<1> HIDE DEF s
<1>2. \A k \in 1..Len(s) : s[k].do # "token"
  BY <1>1
<1> QED
  BY <1>2 DEF s

LEMMA VisitBlockKeeps == ASSUME BuilderInv, visitBlock PROVE BuilderInv'
<1>1. /\ todo # <<>> /\ This.do = "block" /\ contexts' = contexts /\ built' = built
      /\ nodes' = AddChild(nodes, This.into, AstNode("BLOCK", NoToken))
      /\ todo' = <<Todo("statements", NewNode, This.parent, FALSE)>> \o Tail(todo)
  BY DEF visitBlock, Doing, This, Then
<1>2. /\ This.parent \in Nat /\ MayGrowAt(nodes, This.into)
      /\ contexts \in Seq(Context) /\ Len(contexts) \in Nat /\ Here \in Nat /\ Here # 0
      /\ nodes \in Seq(Node) /\ Len(nodes) \in Nat
  BY <1>1, VisitIs
<1>3. TreeOK(nodes, contexts) /\ built \in {"visiting", "built", "crashed"}
  BY DEF BuilderInv
<1>4. /\ TreeOK(nodes', contexts) /\ Grown(nodes, nodes', Here) /\ Len(nodes') = Len(nodes) + 1
  <2>1. NoToken.text \in Texts /\ NoToken.from \in {0, Here} /\ NewToken(nodes, contexts, NoToken)
    BY DEF NoToken, Texts, NewToken
  <2>2. "BLOCK" \in NodeTypes
    BY DEF NodeTypes
  <2> QED
    BY <1>1, <1>2, <1>3, <2>1, <2>2, NothingGrown, GrownByOne
<1> DEFINE a == Todo("statements", NewNode, This.parent, FALSE)
           items == <<a>>
<1>5. a \in VisitItem /\ a.into \in 1..Len(nodes')
  <2>1. NewNode \in Nat /\ NewNode \in 1..Len(nodes')
    BY <1>2, <1>4 DEF NewNode
  <2> QED
    BY <1>2, <2>1, TodoIsItem
<1> HIDE DEF a
<1>6. NewItems(items, nodes', Here) /\ \A k \in 1..Len(items) : items[k].do # "token"
  BY <1>5, OneItem, NoTokens
<1> HIDE DEF items
<1>7. Continues(contexts, contexts, todo, Here, items, 1)
  BY <1>2, <1>6, TokensFromContexts DEF Continues
<1>8. todo' = items \o (IF 1 = 1 THEN Tail(todo) ELSE todo)
  BY <1>1 DEF items, a
<1> QED
  BY <1>1, <1>3, <1>4, <1>6, <1>7, <1>8, UnopenedStep

LEMMA VisitStatementKeeps == ASSUME BuilderInv, visitStatement PROVE BuilderInv'
<1>1. PICK rule \in StatementRules :
         todo' = <<Todo(rule, This.into, This.parent, FALSE)>> \o todo
  BY DEF visitStatement
<1>2. todo # <<>> /\ This.do = "statements" /\ UNCHANGED <<contexts, nodes, built>>
  BY DEF visitStatement, Doing, This
<1>3. /\ This.parent \in Nat /\ This.into \in 1..Len(nodes)
      /\ contexts \in Seq(Context) /\ Len(contexts) \in Nat /\ Here \in Nat /\ Here # 0
      /\ nodes \in Seq(Node) /\ Len(nodes) \in Nat
  BY <1>2, VisitIs
<1>4. TreeOK(nodes, contexts) /\ built \in {"visiting", "built", "crashed"}
  BY DEF BuilderInv
<1> DEFINE a == Todo(rule, This.into, This.parent, FALSE)
           items == <<a>>
<1>5. a \in VisitItem /\ a.into \in 1..Len(nodes)
  <2>1. This.into \in Nat /\ FALSE \in BOOLEAN
    BY <1>3
  <2> QED
    BY <1>3, <2>1, TodoIsItem
<1> HIDE DEF a
<1>6. NewItems(items, nodes, Here) /\ \A k \in 1..Len(items) : items[k].do # "token"
  BY <1>5, OneItem, NoTokens
<1> HIDE DEF items
<1>7. Continues(contexts, contexts, todo, Here, items, 0)
  BY <1>2, <1>3, <1>6, TokensFromContexts DEF Continues, This
<1>8. todo' = items \o (IF 0 = 1 THEN Tail(todo) ELSE todo)
  BY <1>1 DEF items, a
<1>9. Grown(nodes, nodes, Here)
  BY <1>3, NothingGrown
<1> QED
  BY <1>2, <1>4, <1>6, <1>7, <1>8, <1>9, UnopenedStep

LEMMA EndBlockKeeps == ASSUME BuilderInv, EndBlock PROVE BuilderInv'
<1>1. /\ todo # <<>> /\ This.do = "statements" /\ UNCHANGED <<contexts, nodes>>
      /\ todo' = <<>> \o Tail(todo) /\ built' \in {"built", built}
  BY DEF EndBlock, Doing, This, Then
<1>2. /\ contexts \in Seq(Context) /\ Len(contexts) \in Nat /\ Here \in Nat /\ Here # 0
      /\ nodes \in Seq(Node)
  BY <1>1, VisitIs
<1>3. TreeOK(nodes, contexts) /\ built \in {"visiting", "built", "crashed"}
  BY DEF BuilderInv
<1> DEFINE items == <<>>
<1>4. NewItems(items, nodes, Here) /\ Len(items) = 0
  BY NoItems
<1>5. todo' = items \o (IF 1 = 1 THEN Tail(todo) ELSE todo)
  BY <1>1
<1> HIDE DEF items
<1>6. Continues(contexts, contexts, todo, Here, items, 1)
  BY <1>2, <1>4, TokensFromContexts DEF Continues
<1>7. Grown(nodes, nodes, Here)
  BY <1>2, NothingGrown
<1> QED
  BY <1>1, <1>3, <1>4, <1>5, <1>6, <1>7, UnopenedStep


\* The context a visit opens: the tree as it was goes with it.
LEMMA OpenedIs ==
    ASSUME BuilderInv, todo # <<>>, This.do \notin {"token", "block"},
           NEW rule \in Rules, NEW damaged \in BOOLEAN, Opened(rule, damaged)
    PROVE  /\ contexts' = Append(contexts, [rule |-> rule, parent |-> This.parent, damaged |-> damaged])
           /\ [rule |-> rule, parent |-> This.parent, damaged |-> damaged] \in Context
           /\ TreeOK(nodes, contexts') /\ Len(contexts') = Here /\ contexts'[Here].rule = rule
           /\ \A n \in DOMAIN nodes : nodes[n].from # Here
           /\ Grown(nodes, nodes, Here)
<1> DEFINE c == [rule |-> rule, parent |-> This.parent, damaged |-> damaged]
<1>1. contexts' = Append(contexts, c)
  BY DEF Opened
<1>2. c \in Context /\ c.rule = rule
  BY VisitIs DEF Context
<1>3. TreeOK(nodes, contexts) /\ contexts \in Seq(Context) /\ nodes \in Seq(Node)
  BY DEF BuilderInv, TreeOK
<1> HIDE DEF c
<1>4. /\ TreeOK(nodes, contexts') /\ Len(contexts') = Len(contexts) + 1
      /\ contexts'[Len(contexts) + 1] = c
      /\ \A n \in DOMAIN nodes : nodes[n].from # Len(contexts) + 1
  BY <1>1, <1>2, <1>3, OpenedTree
<1> QED
  BY <1>1, <1>2, <1>3, <1>4, NothingGrown DEF c, Here

\* A visit that adds a node without a token, or one with the token of its context.
LEMMA NodeAdded ==
    ASSUME BuilderInv, todo # <<>>, This.do \notin {"token", "block"}, Len(contexts') = Here,
           NEW ns, TreeOK(ns, contexts'), Grown(nodes, ns, Here), NEW p \in 1..Len(ns),
           NEW type \in NodeTypes, NEW token, token.text \in Texts,
           \/ token.from = 0
           \/ /\ token.from = Here
              /\ contexts'[Here].rule = "DECL" \/ \A n \in 1..Len(ns) : ns[n].from # Here,
           NEW t, t = AddChild(ns, p, AstNode(type, token))
    PROVE  /\ TreeOK(t, contexts') /\ Grown(nodes, t, Here)
           /\ Len(ns) \in Nat /\ Len(t) = Len(ns) + 1
           /\ \A n \in 1..Len(ns) : t[n].from = ns[n].from
           /\ t[Len(ns) + 1].from = token.from
<1>1. Here \in Nat /\ Here # 0
  BY VisitIs
<1>2. MayGrowAt(ns, p) /\ token.from \in {0, Here}
  BY DEF MayGrowAt
<1>3. DOMAIN ns = 1..Len(ns)
  BY DEF TreeOK
<1>4. NewToken(ns, contexts', token)
  BY <1>1, <1>3 DEF NewToken
<1> DEFINE cs == contexts'
           here == Here
<1>5. here \in Nat /\ TreeOK(ns, cs) /\ Len(cs) \in Nat /\ Grown(nodes, ns, here)
      /\ token.from \in {0, here} /\ NewToken(ns, cs, token)
  BY <1>1, <1>2, <1>4
<1> HIDE DEF cs, here
<1>6. /\ TreeOK(t, cs) /\ Grown(nodes, t, here) /\ Len(ns) \in Nat /\ Len(t) = Len(ns) + 1
      /\ \A n \in 1..Len(ns) : t[n].from = ns[n].from
      /\ t[Len(ns) + 1].from = token.from
  BY <1>2, <1>5, GrownByOne
<1> QED
  BY <1>6 DEF cs, here

LEMMA PlainToken == NoToken.text \in Texts /\ NoToken.from = 0
  BY DEF NoToken, Texts

\* A part of the visited context that is to be visited.
LEMMA PartIs ==
    ASSUME BuilderInv, todo # <<>>, This.do \notin {"token", "block"},
           NEW do \in {"block", "statements", "expr", Missing} \cup StatementRules,
           NEW into \in Nat, NEW whole \in BOOLEAN
    PROVE  Todo(do, into, Here, whole) \in VisitItem /\ Todo(do, into, Here, whole).into = into
  BY VisitIs, TodoIsItem

LEMMA PrintKeeps == ASSUME BuilderInv, visitPrint PROVE BuilderInv'
<1>1. /\ todo # <<>> /\ This.do = "PRINT" /\ Opened("PRINT", FALSE) /\ built' = built
      /\ nodes' = AddChild(nodes, This.into, AstNode("PRINT", NoToken))
      /\ todo' = <<Todo("expr", NewNode, Here, FALSE)>> \o Tail(todo)
  BY DEF visitPrint, Doing, This, Then
<1>2. "PRINT" \in Rules /\ "PRINT" \in NodeTypes /\ FALSE \in BOOLEAN
  BY DEF Rules, NodeTypes, StatementRules
<1>3. PICK c \in Context :
         /\ contexts' = Append(contexts, c) /\ Len(contexts') = Here
         /\ TreeOK(nodes, contexts') /\ Grown(nodes, nodes, Here)
  BY <1>1, <1>2, OpenedIs
<1>4. This.into \in 1..Len(nodes)
  BY <1>1, VisitIs
<1>5. /\ TreeOK(nodes', contexts') /\ Grown(nodes, nodes', Here)
      /\ Len(nodes) \in Nat /\ Len(nodes') = Len(nodes) + 1
  BY <1>1, <1>2, <1>3, <1>4, PlainToken, NodeAdded
<1> DEFINE a == Todo("expr", NewNode, Here, FALSE)
           items == <<a>>
<1>6. a \in VisitItem /\ a.into \in 1..Len(nodes')
  <2>1. NewNode \in Nat /\ NewNode \in 1..Len(nodes') /\ FALSE \in BOOLEAN
    BY <1>5 DEF NewNode
  <2> QED
    BY <1>1, <2>1, PartIs
<1> HIDE DEF a
<1>7. NewItems(items, nodes', Here)
  BY <1>6, OneItem
<1>8. todo' = items \o Tail(todo)
  BY <1>1 DEF a
<1> HIDE DEF items
<1> QED
  BY <1>1, <1>3, <1>5, <1>7, <1>8, OpenedStep

LEMMA IfKeeps ==
    ASSUME BuilderInv, NEW rule \in ConditionalRules, NEW condition \in {"expr", Missing},
           NEW body \in {"block", Missing}, visitIf_stat(rule, condition, body)
    PROVE  BuilderInv'
<1>1. /\ todo # <<>> /\ This.do = rule /\ Opened(rule, body = Missing) /\ built' = built
      /\ nodes' = AddChild(nodes, This.into, AstNode(rule, NoToken))
      /\ todo' = <<Todo(condition, NewNode, Here, FALSE), Todo(body, NewNode, Here, FALSE)>> \o Tail(todo)
  BY DEF visitIf_stat, Doing, This, Then
<1>2. rule \in Rules /\ rule \in NodeTypes /\ (body = Missing) \in BOOLEAN
      /\ rule \notin {"token", "block"}
  BY DEF Rules, NodeTypes, StatementRules, ConditionalRules
<1>3. PICK c \in Context :
         /\ contexts' = Append(contexts, c) /\ Len(contexts') = Here
         /\ TreeOK(nodes, contexts') /\ Grown(nodes, nodes, Here)
  BY <1>1, <1>2, OpenedIs
<1>4. This.into \in 1..Len(nodes)
  BY <1>1, <1>2, VisitIs
<1>5. /\ TreeOK(nodes', contexts') /\ Grown(nodes, nodes', Here)
      /\ Len(nodes) \in Nat /\ Len(nodes') = Len(nodes) + 1
  BY <1>1, <1>2, <1>3, <1>4, PlainToken, NodeAdded
<1> DEFINE a == Todo(condition, NewNode, Here, FALSE)
           b == Todo(body, NewNode, Here, FALSE)
           items == <<a, b>>
<1>6. NewNode \in Nat /\ NewNode \in 1..Len(nodes') /\ FALSE \in BOOLEAN
  BY <1>5 DEF NewNode
<1>7. a \in VisitItem /\ a.into \in 1..Len(nodes') /\ b \in VisitItem /\ b.into \in 1..Len(nodes')
  <2>1. a \in VisitItem /\ a.into = NewNode
    BY <1>1, <1>2, <1>6, PartIs
  <2>2. b \in VisitItem /\ b.into = NewNode
    BY <1>1, <1>2, <1>6, PartIs
  <2> QED
    BY <1>6, <2>1, <2>2
<1> HIDE DEF a, b
<1>8. NewItems(items, nodes', Here)
  BY <1>7, TwoItems
<1>9. todo' = items \o Tail(todo)
  BY <1>1 DEF a, b
<1> HIDE DEF items
<1> QED
  BY <1>1, <1>2, <1>3, <1>5, <1>8, <1>9, OpenedStep

\* AddAssignNode, with the nodes that a declaration added before it.
LEMMA AssignNodesAdded ==
    ASSUME BuilderInv, todo # <<>>, This.do \notin {"token", "block"}, Len(contexts') = Here,
           NEW ns, TreeOK(ns, contexts'), Grown(nodes, ns, Here), NEW into \in 1..Len(ns),
           NEW id \in Identifier,
           contexts'[Here].rule = "DECL" \/ \A n \in 1..Len(ns) : ns[n].from # Here,
           NEW t, t = AssignNodes(ns, into, id)
    PROVE  TreeOK(t, contexts') /\ Grown(nodes, t, Here) /\ Len(ns) \in Nat /\ Len(t) = Len(ns) + 2
<1> DEFINE one == AddChild(ns, into, AstNode("ASSIGN", NoToken))
           token == [text |-> id, from |-> Here]
<1>1. "ASSIGN" \in NodeTypes /\ "ID" \in NodeTypes
  BY DEF NodeTypes, StatementRules, Tokens
<1>2. /\ TreeOK(one, contexts') /\ Grown(nodes, one, Here)
      /\ Len(ns) \in Nat /\ Len(one) = Len(ns) + 1
      /\ \A n \in 1..Len(ns) : one[n].from = ns[n].from
      /\ one[Len(ns) + 1].from = 0
  BY <1>1, PlainToken, NodeAdded
<1>3. t = AddChild(one, Len(ns) + 1, AstNode("ID", token))
  BY DEF AssignNodes
<1>4. token.text \in Texts /\ token.from = Here
  BY DEF Texts
<1> HIDE DEF one, token
<1>5. Here # 0
  BY VisitIs
<1>6. contexts'[Here].rule = "DECL" \/ \A n \in 1..Len(one) : one[n].from # Here
  <2>1. ASSUME NEW n \in 1..Len(one) PROVE n \in 1..Len(ns) \/ n = Len(ns) + 1
    BY <1>2
  <2> QED
    BY <1>2, <1>5, <2>1
<1>7. Len(ns) + 1 \in 1..Len(one)
  BY <1>2
<1>8. TreeOK(t, contexts') /\ Grown(nodes, t, Here) /\ Len(t) = Len(one) + 1
  BY <1>1, <1>2, <1>3, <1>4, <1>6, <1>7, NodeAdded
<1> QED
  BY <1>2, <1>8

LEMMA AssignmentKeeps ==
    ASSUME BuilderInv, NEW id \in Identifier, NEW part \in {"expr", Missing}, visitAssignment(id, part)
    PROVE  BuilderInv'
<1>1. /\ todo # <<>> /\ This.do = "ASSIGN" /\ Opened("ASSIGN", part = Missing) /\ built' = built
      /\ nodes' = AssignNodes(nodes, This.into, id)
      /\ todo' = <<Todo(part, NewNode, Here, FALSE)>> \o Tail(todo)
  BY DEF visitAssignment, Doing, This, Then
<1>2. "ASSIGN" \in Rules /\ (part = Missing) \in BOOLEAN
  BY DEF Rules, StatementRules
<1>3. PICK c \in Context :
         /\ contexts' = Append(contexts, c) /\ Len(contexts') = Here
         /\ TreeOK(nodes, contexts') /\ Grown(nodes, nodes, Here)
         /\ \A n \in DOMAIN nodes : nodes[n].from # Here
  BY <1>1, <1>2, OpenedIs
<1>4. This.into \in 1..Len(nodes) /\ DOMAIN nodes = 1..Len(nodes)
  BY <1>1, VisitIs
<1>5. /\ TreeOK(nodes', contexts') /\ Grown(nodes, nodes', Here)
      /\ Len(nodes) \in Nat /\ Len(nodes') = Len(nodes) + 2
  BY <1>1, <1>3, <1>4, AssignNodesAdded
<1> DEFINE a == Todo(part, NewNode, Here, FALSE)
           items == <<a>>
<1>6. NewNode \in Nat /\ NewNode \in 1..Len(nodes') /\ FALSE \in BOOLEAN
  BY <1>5 DEF NewNode
<1>7. a \in VisitItem /\ a.into \in 1..Len(nodes')
  BY <1>1, <1>6, PartIs
<1> HIDE DEF a
<1>8. NewItems(items, nodes', Here)
  BY <1>7, OneItem
<1>9. todo' = items \o Tail(todo)
  BY <1>1 DEF a
<1> HIDE DEF items
<1> QED
  BY <1>1, <1>3, <1>5, <1>8, <1>9, OpenedStep


\* The nodes of a declaration, whose tokens may be in several nodes.
LEMMA DeclarationNodesAdded ==
    ASSUME BuilderInv, todo # <<>>, This.do \notin {"token", "block"}, Len(contexts') = Here,
           TreeOK(nodes, contexts'), Grown(nodes, nodes, Here), contexts'[Here].rule = "DECL",
           NEW type \in Keyword, NEW id \in Identifier, NEW t, t = DeclarationNodes(type, id)
    PROVE  TreeOK(t, contexts') /\ Grown(nodes, t, Here) /\ Len(nodes) \in Nat /\ Len(t) = Len(nodes) + 3
<1> DEFINE one == AddChild(nodes, This.into, AstNode("DECL", NoToken))
           keyword == [text |-> type, from |-> Here]
           two == AddChild(one, NewNode, AstNode("TYPE", keyword))
           name == [text |-> id, from |-> Here]
<1>1. "DECL" \in NodeTypes /\ "TYPE" \in NodeTypes /\ "ID" \in NodeTypes
  BY DEF NodeTypes, StatementRules, Tokens
<1>2. This.into \in 1..Len(nodes)
  BY VisitIs
<1>3. /\ TreeOK(one, contexts') /\ Grown(nodes, one, Here)
      /\ Len(nodes) \in Nat /\ Len(one) = Len(nodes) + 1
  BY <1>1, <1>2, PlainToken, NodeAdded
<1>4. keyword.text \in Texts /\ keyword.from = Here /\ name.text \in Texts /\ name.from = Here
  BY DEF Texts
<1>5. t = AddChild(two, NewNode, AstNode("ID", name))
  BY DEF DeclarationNodes
<1>6. two = AddChild(one, NewNode, AstNode("TYPE", keyword))
  OBVIOUS
<1> HIDE DEF one, two, keyword, name
<1>7. NewNode \in 1..Len(one)
  BY <1>3 DEF NewNode
<1>8. TreeOK(two, contexts') /\ Grown(nodes, two, Here) /\ Len(two) = Len(one) + 1
  BY <1>1, <1>3, <1>4, <1>6, <1>7, NodeAdded
<1>9. NewNode \in 1..Len(two)
  BY <1>3, <1>8 DEF NewNode
<1>10. TreeOK(t, contexts') /\ Grown(nodes, t, Here) /\ Len(t) = Len(two) + 1
  BY <1>1, <1>4, <1>5, <1>8, <1>9, NodeAdded
<1> QED
  BY <1>3, <1>8, <1>10

LEMMA DeclarationKeeps ==
    ASSUME BuilderInv, NEW type \in Keyword, NEW id \in Identifier, NEW initialized \in BOOLEAN,
           visitDeclaration(type, id, initialized)
    PROVE  BuilderInv'
<1> DEFINE plain == DeclarationNodes(type, id)
<1>1. /\ todo # <<>> /\ This.do = "DECL" /\ Opened("DECL", FALSE) /\ built' = built
      /\ nodes' = IF initialized THEN AssignNodes(plain, NewNode, id) ELSE plain
      /\ todo' = (IF initialized THEN <<Todo("expr", NewNode + 3, Here, FALSE)>> ELSE <<>>) \o Tail(todo)
  BY DEF visitDeclaration, Doing, This, Then
<1>2. "DECL" \in Rules /\ FALSE \in BOOLEAN
  BY DEF Rules, StatementRules
<1>3. PICK c \in Context :
         /\ contexts' = Append(contexts, c) /\ Len(contexts') = Here
         /\ TreeOK(nodes, contexts') /\ Grown(nodes, nodes, Here) /\ contexts'[Here].rule = "DECL"
  BY <1>1, <1>2, OpenedIs
<1>4. /\ TreeOK(plain, contexts') /\ Grown(nodes, plain, Here)
      /\ Len(nodes) \in Nat /\ Len(plain) = Len(nodes) + 3
  BY <1>1, <1>3, DeclarationNodesAdded
<1> HIDE DEF plain
<1>5. CASE ~initialized
  <2> DEFINE items == <<>>
  <2>1. nodes' = plain /\ todo' = items \o Tail(todo)
    BY <1>1, <1>5
  <2>2. NewItems(items, nodes', Here)
    BY NoItems
  <2> HIDE DEF items
  <2> QED
    BY <1>1, <1>3, <1>4, <2>1, <2>2, OpenedStep
<1>6. CASE initialized
  <2> DEFINE a == Todo("expr", NewNode + 3, Here, FALSE)
             items == <<a>>
  <2>1. nodes' = AssignNodes(plain, NewNode, id) /\ todo' = items \o Tail(todo)
    BY <1>1, <1>6
  <2>2. NewNode \in 1..Len(plain)
    BY <1>4 DEF NewNode
  <2>3. /\ TreeOK(nodes', contexts') /\ Grown(nodes, nodes', Here) /\ Len(nodes') = Len(nodes) + 5
    <3>1. /\ TreeOK(nodes', contexts') /\ Grown(nodes, nodes', Here) /\ Len(nodes') = Len(plain) + 2
      BY <1>1, <1>3, <1>4, <2>1, <2>2, AssignNodesAdded
    <3> QED
      BY <1>4, <3>1
  <2>4. NewNode + 3 \in Nat /\ NewNode + 3 \in 1..Len(nodes')
    BY <1>4, <2>3 DEF NewNode
  <2>5. a \in VisitItem /\ a.into \in 1..Len(nodes')
    BY <1>1, <1>2, <2>4, PartIs
  <2> HIDE DEF a
  <2>6. NewItems(items, nodes', Here)
    BY <2>5, OneItem
  <2> HIDE DEF items
  <2> QED
    BY <1>1, <1>3, <2>1, <2>3, <2>6, OpenedStep
<1> QED
  BY <1>5, <1>6

\* Expressions.
LEMMA ExprOpened ==
    ASSUME BuilderInv, NEW rule \in Rules, NEW stray, OpenExpr(rule, stray)
    PROVE  /\ todo # <<>> /\ This.do = "expr" /\ built' = built
           /\ This.into \in 1..Len(nodes) /\ Len(nodes) \in Nat
           /\ \E c \in Context : contexts' = Append(contexts, c)
           /\ Len(contexts') = Here /\ TreeOK(nodes, contexts') /\ Grown(nodes, nodes, Here)
           /\ \A n \in 1..Len(nodes) : nodes[n].from # Here
           /\ stray \in {"none"} \cup Tokens \cup Operators
           /\ contexts'[Here].rule = rule
<1>1. /\ todo # <<>> /\ This.do = "expr" /\ MayOpenExpr(rule, stray) /\ built' = built
      /\ Opened(rule, rule = "nothing" \/ stray # "none")
  BY DEF OpenExpr, Doing, This
<1>2. (rule = "nothing" \/ stray # "none") \in BOOLEAN
  OBVIOUS
<1>3. /\ \E c \in Context : contexts' = Append(contexts, c)
      /\ Len(contexts') = Here /\ TreeOK(nodes, contexts') /\ Grown(nodes, nodes, Here)
      /\ \A n \in DOMAIN nodes : nodes[n].from # Here
      /\ contexts'[Here].rule = rule
  BY <1>1, <1>2, OpenedIs
<1>4. This.into \in 1..Len(nodes) /\ Len(nodes) \in Nat /\ DOMAIN nodes = 1..Len(nodes)
  BY <1>1, VisitIs
<1>5. stray \in {"none"} \cup Tokens \cup Operators
  BY <1>1 DEF MayOpenExpr, Tokens
<1> QED
  BY <1>1, <1>3, <1>4, <1>5

\* An EXPR node without a token.
LEMMA ExprNodeAdded ==
    ASSUME BuilderInv, NEW rule \in Rules, NEW stray, OpenExpr(rule, stray),
           NEW t, t = AddChild(nodes, This.into, AstNode("EXPR", NoToken))
    PROVE  /\ TreeOK(t, contexts') /\ Grown(nodes, t, Here) /\ Len(t) = Len(nodes) + 1
           /\ \A n \in 1..Len(t) : t[n].from # Here
<1>1. /\ todo # <<>> /\ This.do = "expr" /\ This.into \in 1..Len(nodes) /\ Len(nodes) \in Nat
      /\ Len(contexts') = Here /\ TreeOK(nodes, contexts') /\ Grown(nodes, nodes, Here)
      /\ \A n \in 1..Len(nodes) : nodes[n].from # Here
  BY ExprOpened
<1>2. "EXPR" \in NodeTypes
  BY DEF NodeTypes
<1>3. /\ TreeOK(t, contexts') /\ Grown(nodes, t, Here) /\ Len(t) = Len(nodes) + 1
      /\ \A n \in 1..Len(nodes) : t[n].from = nodes[n].from
      /\ t[Len(nodes) + 1].from = 0
  BY <1>1, <1>2, PlainToken, NodeAdded
<1>4. Here # 0
  BY <1>1, VisitIs
<1>5. \A n \in 1..Len(t) : n \in 1..Len(nodes) \/ n = Len(nodes) + 1
  BY <1>1, <1>3
<1> QED
  BY <1>1, <1>3, <1>4, <1>5

LEMMA LeafKeeps ==
    ASSUME BuilderInv, NEW token \in Tokens, NEW rule \in Tokens \cup {"INDEX", "PAREN", "nothing"},
           NEW stray, NEW text \in TextOf(token), VisitLeaf(token, rule, stray, text)
    PROVE  BuilderInv'
<1> DEFINE one == AddChild(nodes, This.into, AstNode("EXPR", NoToken))
           leaf == [text |-> text, from |-> Here]
<1>1. /\ OpenExpr(rule, stray) /\ todo' = <<>> \o Tail(todo)
      /\ nodes' = AddChild(one, NewNode, AstNode(token, leaf))
  BY DEF VisitLeaf, Then
<1>2. rule \in Rules /\ token \in NodeTypes /\ leaf.text \in Texts /\ leaf.from = Here
  BY DEF Rules, NodeTypes, Texts, TextOf
<1>3. /\ todo # <<>> /\ This.do = "expr" /\ built' = built /\ Len(nodes) \in Nat
      /\ Len(contexts') = Here
  BY <1>1, <1>2, ExprOpened
<1>4. PICK c \in Context : contexts' = Append(contexts, c)
  BY <1>1, <1>2, ExprOpened
<1>5. /\ TreeOK(one, contexts') /\ Grown(nodes, one, Here) /\ Len(one) = Len(nodes) + 1
      /\ \A n \in 1..Len(one) : one[n].from # Here
  BY <1>1, <1>2, ExprNodeAdded
<1>6. NewNode \in 1..Len(one)
  BY <1>3, <1>5 DEF NewNode
<1> HIDE DEF one, leaf
<1>7. TreeOK(nodes', contexts') /\ Grown(nodes, nodes', Here)
  BY <1>1, <1>2, <1>3, <1>5, <1>6, NodeAdded
<1> DEFINE items == <<>>
<1>8. todo' = items \o Tail(todo) /\ NewItems(items, nodes', Here)
  BY <1>1, NoItems
<1> HIDE DEF items
<1> QED
  BY <1>3, <1>4, <1>7, <1>8, OpenedStep


LEMMA PairKeeps ==
    ASSUME BuilderInv, NEW rule \in Rules, NEW stray, NEW type \in Operators \cup Scopes \cup {"INDEX"},
           NEW text \in Texts, NEW whole \in BOOLEAN, VisitPair(rule, stray, Token(type, text), whole)
    PROVE  BuilderInv'
<1>1. /\ OpenExpr(rule, stray) /\ todo' = Around(Token(type, text), whole) \o Tail(todo)
      /\ nodes' = AddChild(nodes, This.into, AstNode("EXPR", NoToken))
  BY DEF VisitPair, Then
<1>2. /\ todo # <<>> /\ This.do = "expr" /\ built' = built /\ Len(nodes) \in Nat
  BY <1>1, ExprOpened
<1>3. PICK c \in Context : contexts' = Append(contexts, c)
  BY <1>1, ExprOpened
<1>4. /\ TreeOK(nodes', contexts') /\ Grown(nodes, nodes', Here) /\ Len(nodes') = Len(nodes) + 1
      /\ \A n \in 1..Len(nodes') : nodes'[n].from # Here
  BY <1>1, ExprNodeAdded
<1>5. NewNode \in Nat /\ NewNode \in 1..Len(nodes') /\ Here \in Nat /\ This.whole \in BOOLEAN
  BY <1>2, <1>4, VisitIs DEF NewNode
<1> DEFINE a == Todo("expr", NewNode, Here, whole)
           t == Token(type, text)
           b == Todo("expr", NewNode, Here, This.whole)
           items == <<a, t, b>>
<1>6. a \in VisitItem /\ a.into = NewNode /\ b \in VisitItem /\ b.into = NewNode
  BY <1>2, <1>5, PartIs
<1>7. t \in TokenItem /\ t.into = NewNode /\ t.from = Here
  BY <1>5 DEF Token, TokenItem
<1>8. todo' = items \o Tail(todo)
  BY <1>1 DEF Around
<1> HIDE DEF a, t, b
<1>9. NewItems(items, nodes', Here)
  BY <1>4, <1>5, <1>6, <1>7, ThreeItems
<1> HIDE DEF items
<1> QED
  BY <1>2, <1>3, <1>4, <1>8, <1>9, OpenedStep

LEMMA OperationKeeps ==
    ASSUME BuilderInv, NEW rule \in Operators \cup {"INDEX"}, NEW stray, VisitOperation(rule, stray)
    PROVE  BuilderInv'
<1> DEFINE type == IF stray = "none" THEN rule ELSE stray
<1>1. VisitPair(rule, stray, Token(type, ""), This.whole)
  BY DEF VisitOperation
<1>2. rule \in Rules /\ "" \in Texts
  BY DEF Rules, Texts
<1>3. OpenExpr(rule, stray) /\ stray \notin Tokens
  BY <1>1 DEF VisitPair
<1>4. stray \in {"none"} \cup Operators /\ todo # <<>> /\ This.do = "expr"
  BY <1>2, <1>3, ExprOpened
<1>5. type \in Operators \cup Scopes \cup {"INDEX"}
  BY <1>4
<1>6. This.whole \in BOOLEAN
  BY <1>4, VisitIs
<1> HIDE DEF type
<1> QED
  BY <1>1, <1>2, <1>5, <1>6, PairKeeps

LEMMA ScopedKeeps ==
    ASSUME BuilderInv, NEW rule \in Scopes, NEW id \in Identifier, VisitScoped(rule, id)
    PROVE  BuilderInv'
<1>1. VisitPair(rule, "none", Token(rule, id), TRUE)
  BY DEF VisitScoped
<1>2. rule \in Rules /\ id \in Texts /\ TRUE \in BOOLEAN
  BY DEF Rules, Texts
<1> QED
  BY <1>1, <1>2, PairKeeps

LEMMA ParenthesesKeep ==
    ASSUME BuilderInv, NEW rule \in {"PAREN", "nothing"}, NEW stray, VisitParentheses(rule, stray)
    PROVE  BuilderInv'
<1> DEFINE inner == IF rule = "PAREN" THEN "expr" ELSE Missing
           a == Todo(inner, This.into, Here, This.whole)
           items == <<a>>
<1>1. OpenExpr(rule, stray) /\ todo' = items \o Tail(todo) /\ UNCHANGED nodes
  BY DEF VisitParentheses, InnerExpr, Then
<1>2. rule \in Rules /\ inner \in {"expr", Missing}
  BY DEF Rules
<1>3. /\ todo # <<>> /\ This.do = "expr" /\ built' = built
      /\ This.into \in 1..Len(nodes) /\ Len(nodes) \in Nat
      /\ TreeOK(nodes, contexts') /\ Grown(nodes, nodes, Here)
  BY <1>1, <1>2, ExprOpened
<1>4. PICK c \in Context : contexts' = Append(contexts, c)
  BY <1>1, <1>2, ExprOpened
<1>5. This.whole \in BOOLEAN /\ This.into \in Nat
  BY <1>3, VisitIs
<1> HIDE DEF inner
<1>6. a \in VisitItem /\ a.into = This.into
  BY <1>2, <1>3, <1>5, PartIs
<1> HIDE DEF a
<1>7. NewItems(items, nodes', Here)
  BY <1>1, <1>3, <1>6, OneItem
<1> HIDE DEF items
<1> QED
  BY <1>1, <1>3, <1>4, <1>7, OpenedStep

\* A token goes into a node when its turn comes.
LEMMA AddTokenKeeps == ASSUME BuilderInv, AddToken PROVE BuilderInv'
<1> DEFINE added == AddChild(nodes, This.into, AstNode(This.type, NoToken))
<1>1. /\ todo # <<>> /\ This.do = "token" /\ This = Head(todo)
      /\ nodes' = IF This.type \in Scopes THEN AddChild(added, NewNode, AstNode("ID", This)) ELSE added
      /\ todo' = <<>> \o Tail(todo) /\ UNCHANGED <<contexts, built>>
  BY DEF AddToken, Doing, This, Then
<1>2. TodoOK(nodes, contexts, todo) /\ TreeOK(nodes, contexts) /\ contexts \in Seq(Context)
      /\ built \in {"visiting", "built", "crashed"}
  BY DEF BuilderInv
<1>3. /\ todo \in Seq(TodoItem) /\ This = todo[1] /\ Len(todo) >= 1 /\ Len(todo) \in Nat
      /\ This \in TodoItem /\ This.into \in 1..Len(nodes)
  BY <1>1, <1>2, HeadOfTodo
<1>4. This \in TokenItem
  BY <1>1, <1>3 DEF TodoItem, VisitItem, StatementRules, ConditionalRules, Missing
<1>5. This.type \in Operators \cup Scopes \cup {"INDEX"} /\ This.text \in Texts /\ This.from \in Nat
  BY <1>4 DEF TokenItem
<1>6. This.from \in 1..Len(contexts) /\ \A n \in DOMAIN nodes : nodes[n].from # This.from
  <2>1. 1 \in DOMAIN todo
    BY <1>3
  <2>2. TokenToCome(nodes, contexts, todo[1])
    BY <1>2, <2>1 DEF TodoOK
  <2> QED
    BY <1>1, <1>3, <2>2 DEF TokenToCome
<1>7. \A k \in 2..Len(todo) : todo[k].do = "token" => todo[k].from # This.from
  <2>1. ASSUME NEW k \in 2..Len(todo), todo[k].do = "token" PROVE todo[k].from # This.from
    <3>1. 1 \in DOMAIN todo /\ k \in DOMAIN todo /\ k # 1 /\ todo[1].do = "token"
      BY <1>1, <1>3
    <3> QED
      BY <1>2, <1>3, <2>1, <3>1 DEF TodoOK
  <2> QED
    BY <2>1
<1>8. nodes \in Seq(Node) /\ Len(contexts) \in Nat /\ Len(nodes) \in Nat /\ DOMAIN nodes = 1..Len(nodes)
  BY <1>2 DEF TreeOK
<1> DEFINE here == This.from
           cs == contexts
<1>9. here \in Nat /\ here # 0 /\ TreeOK(nodes, cs) /\ Len(cs) \in Nat /\ Grown(nodes, nodes, here)
      /\ MayGrowAt(nodes, This.into)
      /\ NoToken.text \in Texts /\ NoToken.from \in {0, here} /\ NewToken(nodes, cs, NoToken)
      /\ This.type \in NodeTypes /\ "ID" \in NodeTypes
  <2>1. here \in Nat /\ here # 0 /\ Len(cs) \in Nat
    BY <1>5, <1>6, <1>8
  <2>2. TreeOK(nodes, cs)
    BY <1>2
  <2>3. Grown(nodes, nodes, here)
    BY <1>8, NothingGrown
  <2>4. MayGrowAt(nodes, This.into)
    BY <1>3 DEF MayGrowAt
  <2>5. NoToken.text = "" /\ NoToken.from = 0
    BY DEF NoToken
  <2>6. NoToken.text \in Texts /\ NoToken.from \in {0, here} /\ NewToken(nodes, cs, NoToken)
    BY <2>5 DEF Texts, NewToken
  <2>7. This.type \in NodeTypes /\ "ID" \in NodeTypes
    BY <1>5 DEF NodeTypes, Tokens
  <2> QED
    BY <2>1, <2>2, <2>3, <2>4, <2>6, <2>7
<1>10. added = AddChild(nodes, This.into, AstNode(This.type, NoToken)) /\ NoToken.from = 0
       /\ here = This.from
  BY DEF NoToken
<1> HIDE DEF added, here
<1>11. /\ TreeOK(added, cs) /\ Grown(nodes, added, here) /\ Len(added) = Len(nodes) + 1
       /\ \A n \in 1..Len(nodes) : added[n].from = nodes[n].from
       /\ added[Len(nodes) + 1].from = 0
  BY <1>9, <1>10, GrownByOne
<1>12. TreeOK(nodes', cs) /\ Grown(nodes, nodes', here)
  <2>1. CASE This.type \notin Scopes
    BY <1>1, <1>11, <2>1
  <2>2. CASE This.type \in Scopes
    <3>1. MayGrowAt(added, NewNode)
      BY <1>8, <1>11 DEF MayGrowAt, NewNode
    <3>2. \A n \in DOMAIN added : added[n].from # here
      <4>1. DOMAIN added = 1..Len(added)
        BY <1>11 DEF TreeOK
      <4>2. \A n \in DOMAIN added : n \in 1..Len(nodes) \/ n = Len(nodes) + 1
        BY <1>8, <1>11, <4>1
      <4> QED
        BY <1>6, <1>8, <1>9, <1>10, <1>11, <4>2
    <3>3. NewToken(added, cs, This) /\ This.from \in {0, here}
      BY <1>6, <1>10, <3>2 DEF NewToken
    <3>4. nodes' = AddChild(added, NewNode, AstNode("ID", This))
      BY <1>1, <2>2
    <3> QED
      BY <1>5, <1>9, <1>11, <3>1, <3>3, <3>4, GrownByOne
  <2> QED
    BY <2>1, <2>2
<1> DEFINE items == <<>>
<1>13. NewItems(items, nodes', here) /\ Len(items) = 0
  BY NoItems
<1>14. todo' = items \o (IF 1 = 1 THEN Tail(todo) ELSE todo)
  BY <1>1
<1> HIDE DEF items
<1>15. Continues(contexts, contexts, todo, here, items, 1)
  BY <1>7, <1>8, <1>9, <1>10, <1>13 DEF Continues
<1> QED
  BY <1>1, <1>2, <1>12, <1>13, <1>14, <1>15, UnopenedStep

LEMMA BuilderInvInit == BuilderInit => BuilderInv
<1> SUFFICES ASSUME BuilderInit PROVE BuilderInv
  OBVIOUS
<1> DEFINE first == Todo("block", 0, 0, FALSE)
<1>1. contexts = <<>> /\ nodes = <<>> /\ built = "visiting" /\ todo = <<first>>
  BY DEF BuilderInit
<1>2. first \in VisitItem /\ first.do = "block"
  BY DEF Todo, VisitItem
<1>3. TodoOK(nodes, contexts, todo)
  <2>1. AtRoot(nodes, todo)
    BY <1>1 DEF AtRoot
  <2> HIDE DEF first
  <2>2. DOMAIN todo = {1} /\ todo[1] = first /\ todo \in Seq(TodoItem)
    BY <1>1, <1>2 DEF TodoItem
  <2> QED
    BY <1>2, <2>1, <2>2 DEF TodoOK, TokenToCome
<1>4. TreeOK(nodes, contexts)
  <2>1. LinksOf(nodes) = {} /\ Len(nodes) = 0 /\ nodes \in Seq(Node) /\ DOMAIN nodes = {}
    BY <1>1 DEF LinksOf
  <2>2. 2..0 = {} /\ IsFiniteSet({})
    BY FS_EmptySet
  <2>3. {TargetOf(nodes, link) : link \in LinksOf(nodes)} = {}
    BY <2>1
  <2>4. IsTree(nodes)
    BY <1>1, <2>1, <2>2, <2>3 DEF IsTree
  <2> QED
    BY <2>1, <2>4 DEF TreeOK, TokensOnce
<1> QED
  BY <1>1, <1>3, <1>4 DEF BuilderInv

LEMMA BuilderInvStep == BuilderInv /\ [BuilderNext \/ BuilderOver]_builder_vars => BuilderInv'
<1> SUFFICES ASSUME BuilderInv, [BuilderNext \/ BuilderOver]_builder_vars PROVE BuilderInv'
  OBVIOUS
<1>1. CASE visitBlock
  BY <1>1, VisitBlockKeeps
<1>2. CASE BuildStatement
  <2>1. CASE visitStatement
    BY <2>1, VisitStatementKeeps
  <2>2. CASE EndBlock
    BY <2>2, EndBlockKeeps
  <2>3. CASE DeclarationWithoutID
    <3>1. /\ todo # <<>> /\ This.do = "DECL" /\ Opened("DECL", TRUE)
          /\ UNCHANGED <<nodes, todo>> /\ built' = "crashed"
      BY <2>3 DEF DeclarationWithoutID, Doing, This, Crash
    <3>2. "DECL" \in Rules /\ TRUE \in BOOLEAN
      BY DEF Rules, StatementRules
    <3>3. PICK c \in Context : contexts' = Append(contexts, c)
      BY <3>1, <3>2, OpenedIs
    <3> QED
      BY <3>1, <3>3, TodoOpened
  <2>4. ASSUME NEW type \in Keyword, NEW id \in Identifier, NEW initialized \in BOOLEAN,
               visitDeclaration(type, id, initialized)
        PROVE  BuilderInv'
    BY <2>4, DeclarationKeeps
  <2>5. ASSUME NEW id \in Identifier, NEW part \in {"expr", Missing}, visitAssignment(id, part)
        PROVE  BuilderInv'
    BY <2>5, AssignmentKeeps
  <2>6. ASSUME NEW rule \in ConditionalRules, NEW condition \in {"expr", Missing},
               NEW body \in {"block", Missing}, visitIf_stat(rule, condition, body)
        PROVE  BuilderInv'
    BY <2>6, IfKeeps
  <2>7. CASE visitPrint
    BY <2>7, PrintKeeps
  <2> QED
    BY <1>2, <2>1, <2>2, <2>3, <2>4, <2>5, <2>6, <2>7 DEF BuildStatement
<1>3. CASE BuildExpr
  <2>1. ASSUME NEW token \in Tokens, NEW rule \in Tokens \cup {"INDEX", "PAREN", "nothing"},
               NEW stray, NEW text \in TextOf(token), VisitLeaf(token, rule, stray, text)
        PROVE  BuilderInv'
    BY <2>1, LeafKeeps
  <2>2. ASSUME NEW rule \in Scopes, NEW id \in Identifier, VisitScoped(rule, id) PROVE BuilderInv'
    BY <2>2, ScopedKeeps
  <2>3. ASSUME NEW rule \in Operators \cup {"INDEX"}, NEW stray, VisitOperation(rule, stray)
        PROVE  BuilderInv'
    BY <2>3, OperationKeeps
  <2>4. ASSUME NEW rule \in {"PAREN", "nothing"}, NEW stray, VisitParentheses(rule, stray)
        PROVE  BuilderInv'
    BY <2>4, ParenthesesKeep
  <2>5. CASE AddToken
    BY <2>5, AddTokenKeeps
  <2> QED
    BY <1>3, <2>1, <2>2, <2>3, <2>4, <2>5 DEF BuildExpr
<1>4. CASE VisitMissing
  <2>1. UNCHANGED <<nodes, todo, contexts>> /\ built' = "crashed"
    BY <1>4 DEF VisitMissing, Crash
  <2> QED
    BY <2>1 DEF BuilderInv
<1>5. CASE BuilderOver \/ UNCHANGED builder_vars
  <2>1. UNCHANGED <<nodes, todo, contexts, built>>
    BY <1>5 DEF BuilderOver, builder_vars
  <2> QED
    BY <2>1 DEF BuilderInv
<1> QED
  BY <1>1, <1>2, <1>3, <1>4, <1>5 DEF BuilderNext

\* Whatever the file and whatever the parser made of its errors: at every moment the
\* nodes form a tree, children after their parents, and a token is in one node
\* (AstBuilder::AstBuild, AstBuilder.cpp:4-141).
THEOREM AstIsATree == BuilderSpec => []NodesFormATree
<1>1. BuilderInv => NodesFormATree
  <2> SUFFICES ASSUME BuilderInv PROVE NodesFormATree
    OBVIOUS
  <2>1. TreeOK(nodes, contexts) /\ built \in {"visiting", "built", "crashed"}
    BY DEF BuilderInv
  <2>2. nodes \in Seq(Node) /\ IsTree(nodes) /\ TokensOnce(nodes, contexts)
    BY <2>1 DEF TreeOK
  <2>3. LinksOf(nodes) = Links /\ \A link : TargetOf(nodes, link) = Target(link)
    BY DEF LinksOf, Links, TargetOf, Target
  <2>4. \A n \in DOMAIN nodes : nodes[n].type \in NodeTypes
    <3>1. \A n \in DOMAIN nodes : nodes[n] \in Node
      BY <2>2
    <3>2. \A x \in Node : x.type \in NodeTypes
      BY DEF Node
    <3> QED
      BY <3>1, <3>2
  <2>5. {Target(link) : link \in Links} = 2..Len(nodes)
    BY <2>2, <2>3 DEF IsTree
  <2>6. /\ nodes # <<>> => Cardinality(Links) = Len(nodes) - 1
        /\ \A link \in Links : link[1] < Target(link)
    BY <2>2, <2>3 DEF IsTree
  <2>7. \A n \in DOMAIN nodes : \A m \in 1..(n - 1) :
            SameToken(m, n) => contexts[nodes[n].from].rule = "DECL"
    BY <2>2 DEF TokensOnce, SameToken
  <2> QED
    BY <2>1, <2>4, <2>5, <2>6, <2>7 DEF NodesFormATree
<1> QED
  BY <1>1, BuilderInvInit, BuilderInvStep, PTL DEF BuilderSpec
=============================================================================
