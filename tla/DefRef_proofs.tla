---------------------------- MODULE DefRef_proofs ----------------------------
(***************************************************************************)
(* Proofs about Scope and DefRef, for every program: any names and         *)
(* literals, any nesting, any length.                                      *)
(***************************************************************************)
EXTENDS DefRef, SequenceTheorems, WellFoundedInduction, TLAPS

----------------------------------------------------------------------------
(* Scopes. *)

\* A set of positions up to n has a largest member.
LEMMA LargestOf ==
    ASSUME NEW n \in Nat, NEW T \in SUBSET (1..n), T # {}
    PROVE  \E t \in T : \A u \in T : u <= t
<1> DEFINE D == {n - t : t \in T}
<1>1. D \subseteq Nat /\ D # {}
  <2>1. \A t \in T : n - t \in Nat
    OBVIOUS
  <2>2. PICK t \in T : TRUE
    OBVIOUS
  <2>3. n - t \in D
    OBVIOUS
  <2> QED
    BY <2>1, <2>3
<1>2. PICK d \in D : \A e \in D : ~(<<e, d>> \in OpToRel(<, Nat))
  BY <1>1, WFMin, NatLessThanWellFounded
<1>3. \A e \in D : ~(e < d)
  BY <1>1, <1>2 DEF OpToRel
<1>4. PICK t \in T : d = n - t
  OBVIOUS
<1>5. \A u \in T : ~(n - u < n - t)
  BY <1>3, <1>4
<1> QED
  BY <1>5

\* Of two scopes on one chain the older is on the chain of the newer: it encloses it.
ChainsNested(sc) ==
    \A u \in DOMAIN sc : \A s, t \in sc[u].chain : s <= t => s \in sc[t].chain

\* What the walk relies on: a chain holds scopes that exist, the global one among
\* them, a scope is enclosed by an older one or by none, and the global scope has
\* the built in types.
ScopesOK(sc) ==
    /\ ChainsNested(sc)
    /\ sc \in Seq(ScopeRecord)
    /\ \A s \in DOMAIN sc : sc[s].chain \subseteq 1..s /\ 1 \in sc[s].chain
    /\ \A s \in DOMAIN sc : sc[s].enclosing \in 0..(s - 1)
    /\ sc # <<>> => Type \subseteq DOMAIN sc[1].symbols

\* BaseScope::Resolve answers a scope of the chain that declares the name, and it
\* does answer when there is one (Scope.cpp:22-31).
LEMMA ResolveIsHolder ==
    ASSUME NEW sc, ScopesOK(sc), NEW s \in DOMAIN sc, NEW name
    PROVE  /\ Resolve(sc, s, name) \in Nat
           /\ Resolve(sc, s, name) # NoScope =>
                 /\ Resolve(sc, s, name) \in DOMAIN sc
                 /\ Resolve(sc, s, name) \in sc[s].chain
                 /\ name \in DOMAIN sc[Resolve(sc, s, name)].symbols
           /\ Holders(sc, s, name) # {} => Resolve(sc, s, name) # NoScope
<1> DEFINE H == Holders(sc, s, name)
<1>1. s \in Nat /\ H \subseteq 1..s /\ 1..s \subseteq DOMAIN sc
  BY DEF ScopesOK, Holders
<1>2. CASE H = {}
  BY <1>2 DEF Resolve, NoScope
<1>3. CASE H # {}
  <2>1. \E t \in H : \A u \in H : u <= t
    BY <1>1, <1>3, LargestOf
  <2>2. Resolve(sc, s, name) \in H
    BY <1>3, <2>1 DEF Resolve
  <2>3. Resolve(sc, s, name) \in 1..s
    BY <1>1, <2>2
  <2>4. Resolve(sc, s, name) \in Nat /\ Resolve(sc, s, name) # NoScope /\ Resolve(sc, s, name) \in DOMAIN sc
    BY <1>1, <2>3 DEF NoScope
  <2>5. Resolve(sc, s, name) \in sc[s].chain /\ name \in DOMAIN sc[Resolve(sc, s, name)].symbols
    BY <2>2 DEF Holders, Declares
  <2> QED
    BY <2>4, <2>5
<1> QED
  BY <1>2, <1>3

\* The symbol that a lookup returns has a type.
LEMMA ResolvedSymbolHasType ==
    ASSUME NEW sc, ScopesOK(sc), NEW s \in DOMAIN sc, NEW name,
           Resolve(sc, s, name) # NoScope
    PROVE  ResolvedSymbol(sc, s, name).type \in Type
<1>1. sc[Resolve(sc, s, name)] \in ScopeRecord /\ name \in DOMAIN sc[Resolve(sc, s, name)].symbols
  <2>1. Resolve(sc, s, name) \in DOMAIN sc /\ name \in DOMAIN sc[Resolve(sc, s, name)].symbols
    BY ResolveIsHolder
  <2>2. sc \in Seq(ScopeRecord)
    BY DEF ScopesOK
  <2> QED
    BY <2>1, <2>2
<1>2. sc[Resolve(sc, s, name)].symbols[name] \in Symbol
  BY <1>1 DEF ScopeRecord, SymbolTable
<1> QED
  BY <1>2 DEF ResolvedSymbol, Symbol

\* The names of the built in types are found from every scope: GetBuiltInTypeData
\* dereferences what Resolve returns (AstVisitor.cpp:335-337).
LEMMA BuiltInTypeIsFound ==
    ASSUME NEW sc, ScopesOK(sc), NEW s \in DOMAIN sc, NEW t \in Type
    PROVE  /\ Resolve(sc, s, t) # NoScope
           /\ ResolvedSymbol(sc, s, t).type \in Type
<1>1. 1 \in Holders(sc, s, t)
  BY DEF ScopesOK, Holders, Declares
<1>2. Resolve(sc, s, t) # NoScope
  BY <1>1, ResolveIsHolder
<1> QED
  BY <1>2, ResolvedSymbolHasType

\* BaseScope::Define adds a symbol and changes nothing else.
LEMMA DefineEffect ==
    ASSUME NEW sc \in Seq(ScopeRecord), NEW s \in DOMAIN sc, NEW name \in Name \cup Type,
           NEW sym \in Symbol
    PROVE  /\ Define(sc, s, name, sym) \in Seq(ScopeRecord)
           /\ Len(Define(sc, s, name, sym)) = Len(sc)
           /\ DOMAIN Define(sc, s, name, sym) = DOMAIN sc
           /\ \A t \in DOMAIN sc :
                 /\ Define(sc, s, name, sym)[t].enclosing = sc[t].enclosing
                 /\ Define(sc, s, name, sym)[t].chain = sc[t].chain
                 /\ DOMAIN Define(sc, s, name, sym)[t].symbols =
                       DOMAIN sc[t].symbols \cup (IF t = s THEN {name} ELSE {})
<1> DEFINE old == sc[s].symbols
           new == [n \in DOMAIN old \cup {name} |-> IF n \in DOMAIN old THEN old[n] ELSE sym]
<1>1. sc[s] \in ScopeRecord
  OBVIOUS
<1>2. old \in SymbolTable
  BY <1>1 DEF ScopeRecord
<1>3. PICK D \in SUBSET (Name \cup Type) : old \in [D -> Symbol]
  BY <1>2 DEF SymbolTable
<1>4. new \in [D \cup {name} -> Symbol] /\ D \cup {name} \in SUBSET (Name \cup Type)
  BY <1>3
<1>5. new \in SymbolTable
  BY <1>4 DEF SymbolTable
<1>6. DOMAIN new = DOMAIN old \cup {name}
  OBVIOUS
<1>7. Define(sc, s, name, sym) = [sc EXCEPT ![s].symbols = new]
  BY DEF Define
<1> HIDE DEF new, old
<1>8. [sc[s] EXCEPT !.symbols = new] \in ScopeRecord
  BY <1>1, <1>5 DEF ScopeRecord
<1>9. Define(sc, s, name, sym) = [sc EXCEPT ![s] = [sc[s] EXCEPT !.symbols = new]]
  BY <1>7
<1>10. Define(sc, s, name, sym) \in Seq(ScopeRecord)
  BY <1>8, <1>9
<1>11. DOMAIN Define(sc, s, name, sym) = DOMAIN sc /\ Len(Define(sc, s, name, sym)) = Len(sc)
  BY <1>9
<1>12. ASSUME NEW t \in DOMAIN sc
       PROVE  /\ Define(sc, s, name, sym)[t].enclosing = sc[t].enclosing
              /\ Define(sc, s, name, sym)[t].chain = sc[t].chain
              /\ DOMAIN Define(sc, s, name, sym)[t].symbols =
                    DOMAIN sc[t].symbols \cup (IF t = s THEN {name} ELSE {})
  <2>1. CASE t = s
    <3>1. Define(sc, s, name, sym)[t] = [sc[s] EXCEPT !.symbols = new]
      BY <1>9, <2>1
    <3> QED
      BY <1>1, <1>6, <2>1, <3>1 DEF ScopeRecord, old
  <2>2. CASE t # s
    <3>1. Define(sc, s, name, sym)[t] = sc[t]
      BY <1>9, <2>2
    <3> QED
      BY <2>2, <3>1
  <2> QED
    BY <2>1, <2>2
<1> QED
  BY <1>10, <1>11, <1>12

LEMMA DefineKeepsScopesOK ==
    ASSUME NEW sc, ScopesOK(sc), NEW s \in DOMAIN sc, NEW name \in Name \cup Type,
           NEW sym \in Symbol
    PROVE  ScopesOK(Define(sc, s, name, sym))
<1> DEFINE defined == Define(sc, s, name, sym)
<1>1. sc \in Seq(ScopeRecord) /\ sc # <<>> /\ 1 \in DOMAIN sc
  BY DEF ScopesOK
<1>2. defined \in Seq(ScopeRecord) /\ DOMAIN defined = DOMAIN sc
  BY <1>1, DefineEffect
<1>3. \A t \in DOMAIN sc : defined[t].chain = sc[t].chain /\ defined[t].enclosing = sc[t].enclosing
  BY <1>1, DefineEffect
<1>4. DOMAIN sc[1].symbols \subseteq DOMAIN defined[1].symbols
  BY <1>1, DefineEffect
<1> HIDE DEF defined
<1>5. ScopesOK(defined)
  <2>1. \A t \in DOMAIN defined : defined[t].chain \subseteq 1..t /\ 1 \in defined[t].chain
    BY <1>2, <1>3 DEF ScopesOK
  <2>2. \A t \in DOMAIN defined : defined[t].enclosing \in 0..(t - 1)
    BY <1>2, <1>3 DEF ScopesOK
  <2>3. Type \subseteq DOMAIN defined[1].symbols
    BY <1>1, <1>4 DEF ScopesOK
  <2>4. ChainsNested(defined)
    <3>1. \A u \in DOMAIN sc : sc[u].chain \subseteq DOMAIN sc
      BY <1>1 DEF ScopesOK
    <3> QED
      BY <1>2, <1>3, <3>1 DEF ScopesOK, ChainsNested
  <2> QED
    BY <1>2, <2>1, <2>2, <2>3, <2>4 DEF ScopesOK
<1> QED
  BY <1>5 DEF defined

\* BaseScope(init_scope) makes one more scope.
LEMMA NewScopeEffect ==
    ASSUME NEW sc \in Seq(ScopeRecord), NEW init \in {NoScope} \cup DOMAIN sc
    PROVE  /\ NewScope(sc, init) \in Seq(ScopeRecord)
           /\ Len(NewScope(sc, init)) = Len(sc) + 1
           /\ DOMAIN NewScope(sc, init) = 1..(Len(sc) + 1)
           /\ \A t \in DOMAIN sc : NewScope(sc, init)[t] = sc[t]
           /\ NewScope(sc, init)[Len(sc) + 1].enclosing = init
           /\ NewScope(sc, init)[Len(sc) + 1].chain =
                 {Len(sc) + 1} \cup (IF init = NoScope THEN {} ELSE sc[init].chain)
<1> DEFINE chain == {Len(sc) + 1} \cup (IF init = NoScope THEN {} ELSE sc[init].chain)
           scope == [enclosing |-> init, symbols |-> <<>>, chain |-> chain]
<1>1. init \in Nat
  BY DEF NoScope
<1>2. chain \in SUBSET Nat
  <2>1. ASSUME init # NoScope PROVE sc[init].chain \in SUBSET Nat
    <3>1. sc[init] \in ScopeRecord
      BY <2>1
    <3> QED
      BY <3>1 DEF ScopeRecord
  <2> QED
    BY <2>1
<1>3. <<>> \in SymbolTable
  <2>1. <<>> \in [{} -> Symbol]
    OBVIOUS
  <2> QED
    BY <2>1 DEF SymbolTable
<1> HIDE DEF chain
<1>4. scope \in ScopeRecord
  BY <1>1, <1>2, <1>3 DEF ScopeRecord
<1>5. NewScope(sc, init) = Append(sc, scope)
  BY DEF NewScope, chain
<1> QED
  BY <1>4, <1>5 DEF chain

LEMMA NewScopeKeepsScopesOK ==
    ASSUME NEW sc, ScopesOK(sc), NEW init \in DOMAIN sc
    PROVE  ScopesOK(NewScope(sc, init))
<1>1. sc \in Seq(ScopeRecord) /\ init # NoScope /\ sc # <<>>
  BY DEF ScopesOK, NoScope
<1>2. NewScope(sc, init) \in Seq(ScopeRecord)
  BY <1>1, NewScopeEffect
<1>3. NewScope(sc, init)[Len(sc) + 1].chain = {Len(sc) + 1} \cup sc[init].chain
  BY <1>1, NewScopeEffect
<1>4. sc[init].chain \subseteq 1..init /\ 1 \in sc[init].chain /\ init \in 1..Len(sc)
  BY <1>1 DEF ScopesOK
<1>5. ASSUME NEW s \in DOMAIN NewScope(sc, init)
      PROVE  NewScope(sc, init)[s].chain \subseteq 1..s /\ 1 \in NewScope(sc, init)[s].chain
  <2>1. CASE s \in DOMAIN sc
    BY <1>1, <2>1, NewScopeEffect DEF ScopesOK
  <2>2. CASE s = Len(sc) + 1
    BY <1>1, <1>3, <1>4, <2>2
  <2> QED
    BY <1>1, <2>1, <2>2, NewScopeEffect
<1>6. NewScope(sc, init)[1] = sc[1]
  BY <1>1, NewScopeEffect
<1>7. ASSUME NEW s \in DOMAIN NewScope(sc, init)
      PROVE  NewScope(sc, init)[s].enclosing \in 0..(s - 1)
  <2>1. CASE s \in DOMAIN sc
    BY <1>1, <2>1, NewScopeEffect DEF ScopesOK
  <2>2. CASE s = Len(sc) + 1
    <3>1. NewScope(sc, init)[Len(sc) + 1].enclosing = init
      BY <1>1, NewScopeEffect
    <3> QED
      BY <1>1, <1>4, <2>2, <3>1
  <2> QED
    BY <1>1, <2>1, <2>2, NewScopeEffect
<1>8. ChainsNested(NewScope(sc, init))
  <2> DEFINE new == NewScope(sc, init)
  <2>1. /\ \A s \in DOMAIN sc : new[s] = sc[s] /\ sc[s].chain \subseteq DOMAIN sc
        /\ DOMAIN new = DOMAIN sc \cup {Len(sc) + 1} /\ Len(sc) \in Nat /\ DOMAIN sc = 1..Len(sc)
    <3>1. sc \in Seq(ScopeRecord) /\ \A s \in DOMAIN sc : sc[s].chain \subseteq 1..s
      BY DEF ScopesOK
    <3>2. Len(sc) \in Nat /\ DOMAIN sc = 1..Len(sc)
      BY <3>1
    <3>3. \A s \in DOMAIN sc : sc[s].chain \subseteq DOMAIN sc
      BY <3>1, <3>2
    <3>4. DOMAIN new = 1..(Len(sc) + 1) /\ \A s \in DOMAIN sc : new[s] = sc[s]
      BY <1>1, NewScopeEffect
    <3>5. 1..(Len(sc) + 1) = 1..Len(sc) \cup {Len(sc) + 1}
      BY <3>2
    <3> QED
      BY <3>2, <3>3, <3>4, <3>5
  <2>2. ChainsNested(sc)
    BY DEF ScopesOK
  <2>3. new[Len(sc) + 1].chain = {Len(sc) + 1} \cup sc[init].chain
    BY <1>3
  <2> HIDE DEF new
  <2>4. ASSUME NEW u \in DOMAIN new, NEW s \in new[u].chain, NEW t \in new[u].chain, s <= t
        PROVE  s \in new[t].chain
    <3>1. CASE u \in DOMAIN sc
      BY <2>1, <2>2, <2>4, <3>1 DEF ChainsNested
    <3>2. CASE u = Len(sc) + 1 /\ t = Len(sc) + 1
      BY <2>4, <3>2
    <3>3. CASE u = Len(sc) + 1 /\ t # Len(sc) + 1
      <4>1. t \in sc[init].chain /\ t \in DOMAIN sc
        BY <2>1, <2>3, <2>4, <3>3
      <4>2. s \in sc[init].chain
        BY <2>1, <2>3, <2>4, <3>3, <4>1
      <4> QED
        BY <2>1, <2>2, <2>4, <4>1, <4>2 DEF ChainsNested
    <3> QED
      BY <2>1, <3>1, <3>2, <3>3
  <2> QED
    BY <2>4 DEF ChainsNested, new
<1> QED
  BY <1>1, <1>2, <1>5, <1>6, <1>7, <1>8 DEF ScopesOK

----------------------------------------------------------------------------
(* The stack of calls. *)

Around(cs, i) == IF i = 1 THEN NoScope ELSE cs[i - 1].scope
NestedAt(cs, sc, i) ==
    IF Opens(cs[i]) THEN sc[cs[i].scope].enclosing = Around(cs, i)
                    ELSE cs[i].scope = Around(cs, i)

\* The walk of a program is in its root block; each call is on a node of a scope
\* that exists, and opens that scope or is inside the one of the call around.
StackOK(cs, sc) ==
    /\ cs \in Seq(CallRecord)
    /\ cs # <<>> => cs[1].visit = "BLOCK"
    /\ \A i \in DOMAIN cs : cs[i].scope \in DOMAIN sc /\ NestedAt(cs, sc, i)

LEMMA TopAndPop ==
    ASSUME NEW S, NEW s \in Seq(S), s # <<>>
    PROVE  /\ Len(s) \in Nat \ {0}
           /\ Top(s) = s[Len(s)] /\ Top(s) \in S
           /\ Pop(s) \in Seq(S) /\ Len(Pop(s)) = Len(s) - 1
           /\ \A i \in 1..(Len(s) - 1) : Pop(s)[i] = s[i]
<1>1. Len(s) \in Nat \ {0}
  OBVIOUS
<1>2. Top(s) = s[Len(s)] /\ s[Len(s)] \in S
  BY <1>1 DEF Top
<1>3. \A i \in 1..(Len(s) - 1) : s[i] \in S
  BY <1>1
<1> DEFINE n == Len(s) - 1
<1>4. /\ Pop(s) \in Seq(S) /\ Len(Pop(s)) = n
      /\ \A i \in 1..n : Pop(s)[i] = s[i]
  <2>1. n \in Nat
    BY <1>1
  <2> HIDE DEF n
  <2>2. /\ SubSeq(s, 1, n) \in Seq(S)
        /\ Len(SubSeq(s, 1, n)) = IF 1 <= n THEN n - 1 + 1 ELSE 0
        /\ \A i \in 1..(n - 1 + 1) : SubSeq(s, 1, n)[i] = s[1 + i - 1]
    BY <1>3, <2>1, SubSeqProperties DEF n
  <2>3. n - 1 + 1 = n /\ (1 <= n \/ n = 0) /\ \A i \in 1..n : 1 + i - 1 = i
    BY <2>1
  <2>4. /\ SubSeq(s, 1, n) \in Seq(S) /\ Len(SubSeq(s, 1, n)) = n
        /\ \A i \in 1..n : SubSeq(s, 1, n)[i] = s[i]
    BY <2>1, <2>2, <2>3
  <2>5. Pop(s) = SubSeq(s, 1, n)
    BY DEF Pop, n
  <2> QED
    BY <2>4, <2>5
<1> QED
  BY <1>1, <1>2, <1>4

LEMMA TopOfAppend ==
    ASSUME NEW S, NEW s \in Seq(S), NEW e \in S
    PROVE  Top(Append(s, e)) = e /\ Append(s, e) # <<>>
  BY DEF Top

\* A call is pushed.
LEMMA PushedCall ==
    ASSUME NEW cs, NEW sc, StackOK(cs, sc), cs # <<>>, NEW c \in CallRecord,
           c.scope \in DOMAIN sc,
           IF Opens(c) THEN sc[c.scope].enclosing = Top(cs).scope ELSE c.scope = Top(cs).scope
    PROVE  StackOK(Append(cs, c), sc)
<1> DEFINE new == Append(cs, c)
<1>1. cs \in Seq(CallRecord) /\ Len(cs) \in Nat \ {0} /\ Top(cs) = cs[Len(cs)]
  BY TopAndPop DEF StackOK
<1>2. new \in Seq(CallRecord) /\ Len(new) = Len(cs) + 1 /\ new[Len(new)] = c
  BY <1>1
<1>3. \A i \in 1..Len(cs) : new[i] = cs[i]
  BY <1>1
<1>4. new[1].visit = "BLOCK"
  BY <1>1, <1>3 DEF StackOK
<1> HIDE DEF new
<1>5. ASSUME NEW i \in DOMAIN new PROVE new[i].scope \in DOMAIN sc /\ NestedAt(new, sc, i)
  <2>1. CASE i \in 1..Len(cs)
    <3>1. new[i] = cs[i] /\ Around(new, i) = Around(cs, i)
      BY <1>1, <1>3, <2>1 DEF Around
    <3> QED
      BY <1>1, <2>1, <3>1 DEF StackOK, NestedAt
  <2>2. CASE i = Len(cs) + 1
    <3>1. new[i] = c /\ Around(new, i) = Top(cs).scope
      BY <1>1, <1>2, <1>3, <2>2 DEF Around
    <3> QED
      BY <3>1 DEF NestedAt
  <2> QED
    BY <1>1, <1>2, <2>1, <2>2
<1>6. StackOK(new, sc)
  BY <1>2, <1>4, <1>5 DEF StackOK
<1> QED
  BY <1>6 DEF new

\* A call returns.
LEMMA PoppedCall ==
    ASSUME NEW cs, NEW sc, StackOK(cs, sc), cs # <<>>
    PROVE  /\ StackOK(Pop(cs), sc)
           /\ Top(cs) \in CallRecord /\ Top(cs).scope \in DOMAIN sc
           /\ Len(cs) = 1 <=> Pop(cs) = <<>>
           /\ Len(cs) = 1 => Top(cs).visit = "BLOCK" /\ sc[Top(cs).scope].enclosing = NoScope
           /\ Len(cs) # 1 /\ Opens(Top(cs)) => sc[Top(cs).scope].enclosing = Top(Pop(cs)).scope
           /\ Len(cs) # 1 /\ ~Opens(Top(cs)) => Top(cs).scope = Top(Pop(cs)).scope
<1> DEFINE rest == Pop(cs)
<1>1. cs \in Seq(CallRecord) /\ Len(cs) \in Nat \ {0} /\ Top(cs) = cs[Len(cs)]
  BY TopAndPop DEF StackOK
<1>2. rest \in Seq(CallRecord) /\ Len(rest) = Len(cs) - 1
      /\ \A i \in 1..(Len(cs) - 1) : rest[i] = cs[i]
  BY <1>1, TopAndPop
<1>3. NestedAt(cs, sc, Len(cs)) /\ Top(cs) \in CallRecord /\ Top(cs).scope \in DOMAIN sc
  BY <1>1 DEF StackOK
<1> HIDE DEF rest
<1>4. StackOK(rest, sc)
  <2>1. ASSUME NEW i \in DOMAIN rest PROVE rest[i].scope \in DOMAIN sc /\ NestedAt(rest, sc, i)
    <3>1. i \in 1..(Len(cs) - 1) /\ i \in DOMAIN cs
      BY <1>1, <1>2
    <3>2. rest[i] = cs[i] /\ Around(rest, i) = Around(cs, i)
      BY <1>1, <1>2, <3>1 DEF Around
    <3> QED
      BY <3>1, <3>2 DEF StackOK, NestedAt
  <2>2. rest # <<>> => rest[1].visit = "BLOCK"
    BY <1>1, <1>2 DEF StackOK
  <2> QED
    BY <1>2, <2>1, <2>2 DEF StackOK
<1>5. Len(cs) = 1 <=> rest = <<>>
  BY <1>1, <1>2
<1>6. Len(cs) = 1 => Top(cs).visit = "BLOCK" /\ sc[Top(cs).scope].enclosing = NoScope
  BY <1>1, <1>3 DEF StackOK, NestedAt, Around, Opens
<1>7. Len(cs) # 1 => Around(cs, Len(cs)) = Top(rest).scope
  <2> HAVE Len(cs) # 1
  <2>1. Top(rest) = rest[Len(cs) - 1]
    BY <1>2 DEF Top
  <2>2. rest[Len(cs) - 1] = cs[Len(cs) - 1]
    BY <1>1, <1>2
  <2> QED
    BY <1>1, <2>1, <2>2 DEF Around
<1> QED
  BY <1>1, <1>3, <1>4, <1>5, <1>6, <1>7 DEF NestedAt, rest

\* More scopes and more symbols do not disturb the stack.
LEMMA GrownScopes ==
    ASSUME NEW cs, NEW sc, NEW grown, StackOK(cs, sc), DOMAIN sc \subseteq DOMAIN grown,
           \A t \in DOMAIN sc : grown[t].enclosing = sc[t].enclosing
    PROVE  StackOK(cs, grown)
  BY DEF StackOK, NestedAt, Around

----------------------------------------------------------------------------
(* The invariant. *)

DefRefInv ==
    /\ ast \in Seq(Visit) /\ refs \in Seq(Type)
    /\ status \in {"visiting", "validated", "rejected"}
    /\ ScopesOK(scopes)
    /\ StackOK(calls, scopes)
    /\ current_scope = IF calls = <<>> THEN NoScope ELSE Top(calls).scope
    /\ calls = <<>> /\ status = "visiting" => scopes = <<>>

LEMMA DefRefInvImplies == DefRefInv => TypeOK /\ ScopesNested
<1> SUFFICES ASSUME DefRefInv PROVE TypeOK /\ ScopesNested
  OBVIOUS
<1>1. scopes \in Seq(ScopeRecord) /\ calls \in Seq(CallRecord)
  BY DEF DefRefInv, ScopesOK, StackOK
<1>2. calls # <<>> => current_scope \in DOMAIN scopes
  BY PoppedCall DEF DefRefInv
<1>3. current_scope \in 0..Len(scopes) /\ (calls # <<>> => current_scope # NoScope)
  BY <1>1, <1>2 DEF DefRefInv, NoScope
<1>4. TypeOK
  BY <1>1, <1>3 DEF TypeOK, DefRefInv
<1>5. ScopesNested
  <2>1. \A i \in DOMAIN calls : calls[i].scope \in DOMAIN scopes /\ NestedAt(calls, scopes, i)
    BY DEF DefRefInv, StackOK
  <2> QED
    BY <2>1 DEF ScopesNested, ScopeAround, NestedAt, Around, DefRefInv
<1> QED
  BY <1>4, <1>5

LEMMA DefRefInvInit == DefRefInit => DefRefInv
  BY DEF DefRefInit, DefRefInv, ScopesOK, ChainsNested, StackOK, NoScope

\* What a walk that has a call running may use.
LEMMA Running ==
    ASSUME DefRefInv, calls # <<>>
    PROVE  /\ current_scope \in DOMAIN scopes /\ current_scope \in Nat /\ current_scope # NoScope
           /\ current_scope = Top(calls).scope
           /\ Len(refs) \in Nat /\ Len(scopes) \in Nat /\ DOMAIN scopes = 1..Len(scopes)
           /\ scopes \in Seq(ScopeRecord) /\ calls \in Seq(CallRecord)
           /\ Top(calls) \in CallRecord
           /\ \A t \in Type : GetBuiltInTypeData(t) \in Type
<1>1. current_scope = Top(calls).scope /\ Top(calls).scope \in DOMAIN scopes /\ Top(calls) \in CallRecord
  BY PoppedCall DEF DefRefInv
<1>2. scopes \in Seq(ScopeRecord) /\ calls \in Seq(CallRecord) /\ refs \in Seq(Type)
  BY DEF DefRefInv, ScopesOK, StackOK
<1>3. \A t \in Type : GetBuiltInTypeData(t) \in Type
  BY <1>1, BuiltInTypeIsFound DEF DefRefInv, GetBuiltInTypeData
<1> QED
  BY <1>1, <1>2, <1>3 DEF NoScope

LEMMA VisitedIsTyped ==
    ASSUME DefRefInv, calls # <<>>, NEW node \in Visits, NEW text \in Text, NEW bound \in Nat,
           NEW types \in Seq(Type)
    PROVE  Visited(node, text, bound, types) \in Seq(Visit)
  BY Running DEF DefRefInv, Visited, Visit

LEMMA CallIsTyped ==
    ASSUME DefRefInv, calls # <<>>, NEW visit \in Visits, NEW text \in Text
    PROVE  Call(visit, text) \in CallRecord /\ Call(visit, text).scope = current_scope
           /\ Call(visit, text).visit = visit
  BY Running DEF Call, CallRecord, Type

----------------------------------------------------------------------------
(* The steps. *)

\* A program that is rejected stays as it was.
LEMMA ThrowKeepsInv == ASSUME DefRefInv, Throw PROVE DefRefInv'
  BY DEF DefRefInv, Throw, ScopesOK, StackOK, NestedAt, Around

\* A visit that changes neither scopes nor calls.
LEMMA PlainVisitKeepsInv ==
    ASSUME DefRefInv, calls # <<>>, ast' \in Seq(Visit), refs' \in Seq(Type),
           UNCHANGED <<scopes, current_scope, calls, status>>
    PROVE  DefRefInv'
  BY DEF DefRefInv, ScopesOK, StackOK, NestedAt, Around

\* A call on a node of the current scope begins, or goes on.
LEMMA PushKeepsInv ==
    ASSUME DefRefInv, calls # <<>>, NEW c \in CallRecord, ~Opens(c), c.scope = current_scope,
           calls' = Append(calls, c), ast' \in Seq(Visit), refs' \in Seq(Type),
           UNCHANGED <<scopes, current_scope, status>>
    PROVE  DefRefInv'
<1>1. StackOK(calls', scopes)
  BY PushedCall, Running DEF DefRefInv
<1>2. Top(calls') = c /\ calls' # <<>>
  BY TopOfAppend, Running
<1> QED
  BY <1>1, <1>2 DEF DefRefInv

\* A call on a node of the current scope returns.
LEMMA PopKeepsInv ==
    ASSUME DefRefInv, calls # <<>>, ~Opens(Top(calls)), calls' = Pop(calls),
           ast' \in Seq(Visit), refs' \in Seq(Type), UNCHANGED <<scopes, current_scope, status>>
    PROVE  DefRefInv'
<1>1. StackOK(calls', scopes) /\ Len(calls) # 1
  BY PoppedCall DEF DefRefInv, Opens
<1>2. calls' # <<>> /\ Top(calls).scope = Top(calls').scope
  BY <1>1, PoppedCall DEF DefRefInv
<1> QED
  BY <1>1, <1>2 DEF DefRefInv

LEMMA EnterFileKeepsInv == ASSUME DefRefInv, EnterFile PROVE DefRefInv'
<1> DEFINE global == NewScope(scopes, NoScope)
           ints   == Define(global, 1, "int", BuiltInTypeSymbol("int"))
           typed  == Define(ints, 1, "vector", BuiltInTypeSymbol("vector"))
           root   == [Call("BLOCK", NoText) EXCEPT !.scope = 1]
<1>1. scopes = <<>> /\ calls = <<>> /\ scopes \in Seq(ScopeRecord)
  BY DEF EnterFile, DefRefInv, ScopesOK
<1>2. global \in Seq(ScopeRecord) /\ DOMAIN global = {1} /\ global[1].enclosing = NoScope
      /\ global[1].chain = {1}
  <2>1. NoScope \in {NoScope} \cup DOMAIN scopes /\ Len(scopes) + 1 = 1 /\ 1..1 = {1}
    BY <1>1
  <2>2. global \in Seq(ScopeRecord) /\ Len(global) = 1
    BY <1>1, <2>1, NewScopeEffect
  <2>3. DOMAIN global = 1..1
    BY <1>1, <2>1, NewScopeEffect
  <2>4. /\ global[Len(scopes) + 1].enclosing = NoScope
        /\ global[Len(scopes) + 1].chain = {Len(scopes) + 1}
    BY <1>1, <2>1, NewScopeEffect
  <2> HIDE DEF global
  <2> QED
    BY <2>1, <2>2, <2>3, <2>4
<1>3. BuiltInTypeSymbol("int") \in Symbol /\ BuiltInTypeSymbol("vector") \in Symbol
      /\ "int" \in Name \cup Type /\ "vector" \in Name \cup Type
  BY DEF BuiltInTypeSymbol, Symbol, Type
<1> HIDE DEF global
<1>4. ints \in Seq(ScopeRecord) /\ DOMAIN ints = {1} /\ ints[1].enclosing = NoScope
      /\ ints[1].chain = {1} /\ "int" \in DOMAIN ints[1].symbols
  BY <1>2, <1>3, DefineEffect
<1> HIDE DEF ints
<1>5. typed \in Seq(ScopeRecord) /\ DOMAIN typed = {1} /\ typed[1].enclosing = NoScope
      /\ typed[1].chain = {1} /\ {"int", "vector"} \subseteq DOMAIN typed[1].symbols
  BY <1>3, <1>4, DefineEffect
<1> HIDE DEF typed
<1>6. ScopesOK(typed)
  BY <1>5 DEF ScopesOK, ChainsNested, Type, NoScope
<1>7. root \in CallRecord /\ root.scope = 1 /\ root.visit = "BLOCK"
  BY DEF Call, CallRecord, Visits, Text, Type, DefRefInv
<1> HIDE DEF root
<1>8. StackOK(<<root>>, typed) /\ Top(<<root>>).scope = 1
  BY <1>5, <1>7 DEF StackOK, NestedAt, Around, Opens, Top
<1>9. scopes' = typed /\ calls' = <<root>> /\ current_scope' = 1 /\ UNCHANGED <<refs, status>>
  BY DEF EnterFile, global, ints, typed, root
<1>10. ast' \in Seq(Visit)
  <2>1. [node |-> "BLOCK", text |-> NoText, scope |-> 1, bound |-> 0, refs |-> <<>>] \in Visit
    BY DEF Visit, Visits, Text
  <2> QED
    BY <2>1 DEF EnterFile, DefRefInv
<1> QED
  BY <1>6, <1>8, <1>9, <1>10 DEF DefRefInv

\* VisitEXPR, apart from generators and filters.
LEMMA VisitINTKeepsInv == ASSUME DefRefInv, NEW v \in Literal, VisitINT(v) PROVE DefRefInv'
<1>1. calls # <<>>
  BY DEF VisitINT, InExpr, InCall
<1>2. refs' \in Seq(Type)
  <2>1. GetBuiltInTypeData("int") \in Type
    BY <1>1, Running DEF Type
  <2> QED
    BY <2>1 DEF VisitINT, DefRefInv
<1>3. ast' \in Seq(Visit)
  <2>1. "INT" \in Visits /\ v \in Text /\ 0 \in Nat /\ <<>> \in Seq(Type)
    BY DEF Visits, NodeKinds, Leaves, Text
  <2> QED
    BY <1>1, <2>1, VisitedIsTyped DEF VisitINT
<1> QED
  BY <1>1, <1>2, <1>3, PlainVisitKeepsInv DEF VisitINT

LEMMA VisitIDKeepsInv == ASSUME DefRefInv, NEW name \in Name, VisitID(name) PROVE DefRefInv'
<1> DEFINE bound == Resolve(scopes, current_scope, name)
<1>1. calls # <<>>
  BY DEF VisitID, InExpr, InCall
<1>2. current_scope \in DOMAIN scopes /\ ScopesOK(scopes)
  BY <1>1, Running DEF DefRefInv
<1>3. CASE bound = NoScope
  BY <1>3, ThrowKeepsInv DEF VisitID
<1>4. CASE bound # NoScope
  <2>1. bound \in Nat
    BY <1>2, ResolveIsHolder
  <2>2. ResolvedSymbol(scopes, current_scope, name).type \in Type
    BY <1>2, <1>4, ResolvedSymbolHasType
  <2>3. /\ refs' = Append(refs, ResolvedSymbol(scopes, current_scope, name).type)
        /\ ast' = Visited("ID", name, bound, <<>>)
        /\ UNCHANGED <<scopes, current_scope, calls, status>>
    BY <1>4 DEF VisitID
  <2>4. ast' \in Seq(Visit)
    <3>1. "ID" \in Visits /\ name \in Text /\ <<>> \in Seq(Type)
      BY DEF Visits, NodeKinds, Leaves, Text
    <3> QED
      BY <1>1, <2>1, <2>3, <3>1, VisitedIsTyped
  <2>5. refs' \in Seq(Type)
    BY <2>2, <2>3 DEF DefRefInv
  <2> QED
    BY <1>1, <2>3, <2>4, <2>5, PlainVisitKeepsInv
<1> QED
  BY <1>3, <1>4

\* Operands of the running call are there to be taken.
LEMMA OperandsAreTyped ==
    ASSUME DefRefInv, calls # <<>>, NEW n \in {1, 2}, Len(refs) >= Top(calls).base + n
    PROVE  /\ Pop(refs) \in Seq(Type) /\ Top(refs) \in Type /\ Len(refs) \in Nat
           /\ n = 2 => Pop(Pop(refs)) \in Seq(Type) /\ refs[Len(refs) - 1] \in Type
<1>1. Top(calls).base \in Nat /\ refs \in Seq(Type) /\ Len(refs) \in Nat
  BY Running DEF CallRecord, DefRefInv
<1>2. refs # <<>>
  BY <1>1
<1>3. Pop(refs) \in Seq(Type) /\ Top(refs) \in Type /\ Len(Pop(refs)) = Len(refs) - 1
  BY <1>1, <1>2, TopAndPop
<1>4. ASSUME n = 2 PROVE Pop(Pop(refs)) \in Seq(Type) /\ refs[Len(refs) - 1] \in Type
  <2>1. Len(refs) - 1 \in 1..Len(refs)
    BY <1>1, <1>4
  <2>2. Pop(refs) # <<>>
    BY <1>1, <1>3, <1>4, <2>1
  <2>3. Pop(Pop(refs)) \in Seq(Type)
    BY <1>3, <2>2, TopAndPop
  <2> QED
    BY <1>1, <2>1, <2>3
<1> QED
  BY <1>1, <1>3, <1>4

LEMMA VisitOpKeepsInv == ASSUME DefRefInv, NEW op \in Ops, VisitOp(op) PROVE DefRefInv'
<1> DEFINE left  == refs[Len(refs) - 1]
           right == Top(refs)
<1>1. calls # <<>>
  BY DEF VisitOp, InExpr, InCall
<1>2. Len(refs) >= Top(calls).base + 2
  BY <1>1, Running DEF VisitOp, Operands, CallRecord
<1>3. Pop(Pop(refs)) \in Seq(Type) /\ left \in Type /\ right \in Type
  BY <1>1, <1>2, OperandsAreTyped
<1>4. OpType(op, left, right) \in Type
  <2>1. GetBuiltInTypeData("int") \in Type /\ GetBuiltInTypeData("vector") \in Type
    BY <1>1, Running DEF Type
  <2> HIDE DEF left, right
  <2> QED
    BY <1>3, <2>1 DEF OpType, Ops
<1>5. CASE ~OpAccepts(op, left, right)
  BY <1>5, ThrowKeepsInv DEF VisitOp
<1>6. CASE OpAccepts(op, left, right)
  <2>1. /\ refs' = Append(Pop(Pop(refs)), OpType(op, left, right))
        /\ ast' = Visited(op, NoText, 0, <<left, right>>)
        /\ UNCHANGED <<scopes, current_scope, calls, status>>
    BY <1>6 DEF VisitOp
  <2>2. refs' \in Seq(Type)
    BY <1>3, <1>4, <2>1
  <2>3. ast' \in Seq(Visit)
    <3>1. op \in Visits /\ NoText \in Text /\ <<left, right>> \in Seq(Type) /\ 0 \in Nat
      BY <1>3 DEF Visits, NodeKinds, Text
    <3> QED
      BY <1>1, <2>1, <3>1, VisitedIsTyped
  <2> QED
    BY <1>1, <2>1, <2>2, <2>3, PlainVisitKeepsInv
<1> QED
  BY <1>5, <1>6

\* VisitASSIGN, VisitPRINT, VisitIF_BLOCK and VisitLOOP_BLOCK.
LEMMA BeginStatementKeepsInv ==
    ASSUME DefRefInv, NEW k \in Statements \ {"DECL"}, NEW n \in Name \cup {NoText},
           BeginStatement(k, n)
    PROVE  DefRefInv'
<1>1. calls # <<>>
  BY DEF BeginStatement, InCall
<1>2. k \in Visits /\ n \in Text /\ k \notin {"BLOCK"} \cup ScopedOps
  BY DEF Visits, NodeKinds, Text, Statements, Conditionals, ScopedOps
<1>3. Call(k, n) \in CallRecord /\ ~Opens(Call(k, n)) /\ Call(k, n).scope = current_scope
  BY <1>1, <1>2, CallIsTyped DEF Opens
<1>4. ast' \in Seq(Visit)
  <2>1. "LOOP" \in Visits /\ NoText \in Text /\ <<>> \in Seq(Type) /\ 0 \in Nat
    BY DEF Visits, NodeKinds, Text, Statements, Conditionals
  <2>2. Visited("LOOP", NoText, 0, <<>>) \in Seq(Visit)
    BY <1>1, <2>1, VisitedIsTyped
  <2> QED
    BY <2>2 DEF BeginStatement, DefRefInv
<1>5. refs' \in Seq(Type)
  BY DEF BeginStatement, DefRefInv
<1> QED
  BY <1>1, <1>3, <1>4, <1>5, PushKeepsInv DEF BeginStatement

LEMMA EndStatementKeepsInv ==
    ASSUME DefRefInv, EndASSIGN \/ EndPRINT \/ \E k \in Conditionals : EndConditional(k)
    PROVE  DefRefInv'
<1>1. calls # <<>> /\ ~Opens(Top(calls))
  BY DEF EndASSIGN, EndPRINT, EndConditional, InCall, Opens, BodyOf, ScopedOps
<1>2. CASE EndASSIGN
  <2> DEFINE name  == Top(calls).text
             bound == Resolve(scopes, current_scope, name)
  <2>1. current_scope \in DOMAIN scopes /\ ScopesOK(scopes) /\ name \in Text /\ Top(calls).base \in Nat
    BY <1>1, Running DEF DefRefInv, CallRecord
  <2>2. bound \in Nat
    BY <2>1, ResolveIsHolder
  <2>3. Pop(refs) \in Seq(Type) /\ Top(refs) \in Type
    <3>1. Len(refs) >= Top(calls).base + 1
      BY <1>2, <2>1 DEF EndASSIGN
    <3> QED
      BY <1>1, <3>1, OperandsAreTyped
  <2>4. CASE Throw
    BY <2>4, ThrowKeepsInv
  <2>5. CASE ~Throw
    <3>1. /\ ast' = Visited("ASSIGN", name, bound, <<Top(refs)>>)
          /\ refs' = Pop(refs) /\ calls' = Pop(calls)
          /\ UNCHANGED <<scopes, current_scope, status>>
      BY <1>2, <2>5 DEF EndASSIGN
    <3>2. ast' \in Seq(Visit)
      <4>1. "ASSIGN" \in Visits /\ <<Top(refs)>> \in Seq(Type)
        BY <2>3 DEF Visits, NodeKinds, Statements
      <4> QED
        BY <1>1, <2>1, <2>2, <3>1, <4>1, VisitedIsTyped
    <3> QED
      BY <1>1, <2>3, <3>1, <3>2, PopKeepsInv
  <2> QED
    BY <2>4, <2>5
<1>3. CASE EndPRINT
  <2>1. Pop(refs) \in Seq(Type) /\ Top(refs) \in Type
    <3>1. Top(calls).base \in Nat
      BY <1>1, Running DEF CallRecord
    <3>2. Len(refs) >= Top(calls).base + 1
      BY <1>3, <3>1 DEF EndPRINT
    <3> QED
      BY <1>1, <3>2, OperandsAreTyped
  <2>2. ast' \in Seq(Visit)
    <3>1. "PRINT" \in Visits /\ NoText \in Text /\ 0 \in Nat /\ <<Top(refs)>> \in Seq(Type)
      BY <2>1 DEF Visits, NodeKinds, Statements, Text
    <3> QED
      BY <1>1, <1>3, <3>1, VisitedIsTyped DEF EndPRINT
  <2> QED
    BY <1>1, <1>3, <2>1, <2>2, PopKeepsInv DEF EndPRINT
<1>4. ASSUME NEW k \in Conditionals, EndConditional(k) PROVE DefRefInv'
  <2>1. CASE Throw
    BY <2>1, ThrowKeepsInv
  <2>2. CASE ~Throw
    <3>1. /\ ast' = Visited(EndOf(k), NoText, 0, <<>>) /\ calls' = Pop(calls)
          /\ UNCHANGED <<scopes, current_scope, refs, status>>
      BY <1>4, <2>2 DEF EndConditional
    <3>2. ast' \in Seq(Visit) /\ refs' \in Seq(Type)
      <4>1. EndOf(k) \in Visits /\ NoText \in Text /\ 0 \in Nat /\ <<>> \in Seq(Type)
        BY DEF EndOf, Conditionals, Visits, Text
      <4> QED
        BY <1>1, <3>1, <4>1, VisitedIsTyped DEF DefRefInv
    <3> QED
      BY <1>1, <3>1, <3>2, PopKeepsInv
  <2> QED
    BY <2>1, <2>2
<1> QED
  BY <1>2, <1>3, <1>4

\* VisitDECL.
LEMMA VisitDECLKeepsInv ==
    ASSUME DefRefInv, NEW name \in Name, NEW type \in Type, NEW initialized \in BOOLEAN,
           VisitDECL(name, type, initialized)
    PROVE  DefRefInv'
<1>1. calls # <<>>
  BY DEF VisitDECL, InCall
<1>2. CASE Throw
  BY <1>2, ThrowKeepsInv
<1>3. CASE ~Throw
  <2> DEFINE sym == VarSymbol(GetBuiltInTypeData(type))
             grown == Define(scopes, current_scope, name, sym)
  <2>1. /\ scopes' = grown
        /\ ast' = Visited("DECL", name, current_scope, <<type>>)
        /\ calls' = IF initialized THEN Append(calls, Call("ASSIGN", name)) ELSE calls
        /\ UNCHANGED <<current_scope, refs, status>>
    BY <1>3 DEF VisitDECL
  <2>2. sym \in Symbol
    <3>1. GetBuiltInTypeData(type) \in Type
      BY <1>1, Running
    <3> QED
      BY <3>1 DEF VarSymbol, Symbol
  <2>3. ScopesOK(scopes) /\ current_scope \in DOMAIN scopes /\ scopes \in Seq(ScopeRecord)
        /\ current_scope = Top(calls).scope /\ calls \in Seq(CallRecord)
    BY <1>1, Running DEF DefRefInv
  <2> HIDE DEF sym
  <2>4. ScopesOK(grown)
    BY <2>2, <2>3, DefineKeepsScopesOK
  <2>5. DOMAIN grown = DOMAIN scopes /\ \A t \in DOMAIN scopes : grown[t].enclosing = scopes[t].enclosing
    BY <2>2, <2>3, DefineEffect
  <2> HIDE DEF grown
  <2>6. StackOK(calls, grown)
    BY <2>5, GrownScopes DEF DefRefInv
  <2>7. ast' \in Seq(Visit)
    <3>1. "DECL" \in Visits /\ name \in Text /\ <<type>> \in Seq(Type) /\ current_scope \in Nat
      BY <1>1, Running DEF Visits, NodeKinds, Statements, Text
    <3> QED
      BY <1>1, <2>1, <3>1, VisitedIsTyped
  <2>8. StackOK(calls', grown) /\ calls' # <<>> /\ Top(calls').scope = current_scope
    <3>1. CASE ~initialized
      BY <1>1, <2>1, <2>3, <2>6, <3>1
    <3>2. CASE initialized
      <4> DEFINE c == Call("ASSIGN", name)
      <4>1. "ASSIGN" \in Visits /\ name \in Text
        BY DEF Visits, NodeKinds, Statements, Text
      <4>2. c \in CallRecord /\ c.scope = current_scope /\ c.visit = "ASSIGN"
        BY <1>1, <4>1, CallIsTyped
      <4>3. ~Opens(c)
        BY <4>2 DEF Opens, ScopedOps
      <4> HIDE DEF c
      <4>4. StackOK(Append(calls, c), grown)
        BY <1>1, <2>3, <2>5, <2>6, <4>2, <4>3, PushedCall
      <4>5. Top(Append(calls, c)) = c /\ Append(calls, c) # <<>>
        BY <2>3, <4>2, TopOfAppend
      <4> QED
        BY <2>1, <3>2, <4>2, <4>4, <4>5 DEF c
    <3> QED
      BY <3>1, <3>2
  <2> QED
    BY <2>1, <2>4, <2>7, <2>8 DEF DefRefInv
<1> QED
  BY <1>2, <1>3

\* VisitEXPR of a generator or filter.
LEMMA EnterScopedKeepsInv ==
    ASSUME DefRefInv, NEW op \in ScopedOps, NEW name \in Name, EnterScoped(op, name)
    PROVE  DefRefInv'
<1>1. calls # <<>>
  BY DEF EnterScoped, InExpr, InCall
<1>2. CASE Throw
  BY <1>2, ThrowKeepsInv
<1>3. CASE ~Throw
  <2> DEFINE opened == NewScope(scopes, current_scope)
             n      == Len(opened)
             sym    == VarSymbol(ResolvedSymbol(opened, n, "int").type)
             grown  == Define(opened, n, name, sym)
             c      == [Call(op, name) EXCEPT !.scope = n, !.base = Len(refs) - 1]
  <2>1. /\ scopes' = grown /\ current_scope' = n
        /\ ast' = Append(ast, [node |-> op, text |-> name, scope |-> n,
                               bound |-> n, refs |-> <<Top(refs)>>])
        /\ refs' = Pop(refs)
        /\ calls' = Append(calls, c)
        /\ UNCHANGED status
    BY <1>3 DEF EnterScoped
  <2>2. ScopesOK(scopes) /\ current_scope \in DOMAIN scopes /\ scopes \in Seq(ScopeRecord)
        /\ current_scope = Top(calls).scope /\ calls \in Seq(CallRecord)
        /\ Len(refs) \in Nat /\ Top(calls).base \in Nat
    BY <1>1, Running DEF DefRefInv, CallRecord
  <2>3. Len(refs) >= Top(calls).base + 1
    BY <2>2 DEF EnterScoped, Operands
  <2>4. Pop(refs) \in Seq(Type) /\ Top(refs) \in Type /\ Len(refs) - 1 \in Nat
    BY <1>1, <2>2, <2>3, OperandsAreTyped
  <2>5. n = Len(scopes) + 1 /\ n \in Nat /\ n \in DOMAIN opened /\ opened \in Seq(ScopeRecord)
        /\ DOMAIN scopes \subseteq DOMAIN opened /\ opened[n].enclosing = current_scope
        /\ \A t \in DOMAIN scopes : opened[t] = scopes[t]
    <3>1. n = Len(scopes) + 1 /\ DOMAIN opened = 1..(Len(scopes) + 1) /\ opened \in Seq(ScopeRecord)
      BY <2>2, NewScopeEffect
    <3>2. Len(scopes) \in Nat /\ DOMAIN scopes = 1..Len(scopes)
      BY <2>2
    <3>3. opened[Len(scopes) + 1].enclosing = current_scope
      BY <2>2, NewScopeEffect
    <3>4. \A t \in DOMAIN scopes : opened[t] = scopes[t]
      BY <2>2, NewScopeEffect
    <3> HIDE DEF opened, n
    <3> QED
      BY <3>1, <3>2, <3>3, <3>4
  <2>6. ScopesOK(opened)
    BY <2>2, NewScopeKeepsScopesOK
  <2> HIDE DEF opened, n
  <2>7. sym \in Symbol
    <3>1. ResolvedSymbol(opened, n, "int").type \in Type
      BY <2>5, <2>6, BuiltInTypeIsFound DEF Type
    <3> QED
      BY <3>1 DEF VarSymbol, Symbol
  <2> HIDE DEF sym
  <2>8. ScopesOK(grown)
    BY <2>5, <2>6, <2>7, DefineKeepsScopesOK
  <2>9. DOMAIN grown = DOMAIN opened /\ \A t \in DOMAIN opened : grown[t].enclosing = opened[t].enclosing
    BY <2>5, <2>7, DefineEffect
  <2> HIDE DEF grown
  <2>10. StackOK(calls, grown)
    BY <2>5, <2>9, GrownScopes DEF DefRefInv
  <2>11. op \in Visits /\ name \in Text
    BY DEF Visits, NodeKinds, Text
  <2>12. c \in CallRecord /\ c.scope = n /\ Opens(c)
    <3>1. Call(op, name) \in CallRecord /\ Call(op, name).visit = op
      BY <1>1, <2>11, CallIsTyped
    <3> QED
      BY <2>4, <2>5, <3>1 DEF CallRecord, Opens
  <2> HIDE DEF c
  <2>13. StackOK(Append(calls, c), grown)
    BY <1>1, <2>2, <2>5, <2>9, <2>10, <2>12, PushedCall
  <2>14. Top(Append(calls, c)) = c /\ Append(calls, c) # <<>>
    BY <2>2, <2>12, TopOfAppend
  <2>15. ast' \in Seq(Visit)
    <3>1. <<Top(refs)>> \in Seq(Type)
      BY <2>4
    <3>2. [node |-> op, text |-> name, scope |-> n, bound |-> n, refs |-> <<Top(refs)>>] \in Visit
      BY <2>5, <2>11, <3>1 DEF Visit
    <3> QED
      BY <2>1, <3>2 DEF DefRefInv
  <2> QED
    BY <2>1, <2>4, <2>8, <2>12, <2>13, <2>14, <2>15 DEF DefRefInv
<1> QED
  BY <1>2, <1>3

LEMMA LeaveScopedKeepsInv == ASSUME DefRefInv, NEW op \in ScopedOps, LeaveScoped(op) PROVE DefRefInv'
<1> DEFINE outer == GetEnclosingScope(scopes, current_scope)
           rest  == Pop(calls)
<1>1. calls # <<>> /\ Top(calls).visit = op
  BY DEF LeaveScoped, InCall
<1>2. Len(calls) # 1 /\ Opens(Top(calls))
  <2>1. Top(calls).visit # "BLOCK" /\ Opens(Top(calls))
    BY <1>1 DEF ScopedOps, Opens
  <2> QED
    BY <1>1, <2>1, PoppedCall DEF DefRefInv
<1>3. StackOK(rest, scopes) /\ rest # <<>> /\ outer = Top(rest).scope
  BY <1>1, <1>2, PoppedCall DEF DefRefInv, GetEnclosingScope
<1>4. outer \in DOMAIN scopes
  BY <1>3, PoppedCall
<1>5. ast' \in Seq(Visit) /\ refs' \in Seq(Type)
  <2>1. Top(calls).base \in Nat /\ Top(calls).text \in Text
    BY <1>1, Running DEF CallRecord
  <2>2. Len(refs) >= Top(calls).base + 1
    BY <2>1 DEF LeaveScoped
  <2>3. Pop(refs) \in Seq(Type) /\ Top(refs) \in Type
    BY <1>1, <2>2, OperandsAreTyped
  <2>4. ResolvedSymbol(scopes, outer, "vector").type \in Type
    BY <1>4, BuiltInTypeIsFound DEF DefRefInv, Type
  <2> HIDE DEF outer
  <2>5. refs' \in Seq(Type)
    BY <2>3, <2>4 DEF LeaveScoped, outer
  <2>6. EndOf(op) \in Visits /\ 0 \in Nat /\ <<Top(refs)>> \in Seq(Type)
    BY <2>3 DEF EndOf, ScopedOps, Visits
  <2>7. Visited(EndOf(op), Top(calls).text, 0, <<Top(refs)>>) \in Seq(Visit)
    BY <1>1, <2>1, <2>6, VisitedIsTyped
  <2> QED
    BY <2>5, <2>7 DEF LeaveScoped
<1> QED
  BY <1>3, <1>5 DEF LeaveScoped, DefRefInv

\* The blocks.
LEMMA LeaveBlockKeepsInv == ASSUME DefRefInv, LeaveBlock PROVE DefRefInv'
<1> DEFINE outer == GetEnclosingScope(scopes, current_scope)
           rest  == Pop(calls)
<1>1. calls # <<>> /\ Top(calls).visit = "BLOCK"
  BY DEF LeaveBlock, InCall
<1>2. Opens(Top(calls))
  BY <1>1 DEF Opens
<1>3. /\ StackOK(rest, scopes)
      /\ outer = IF rest = <<>> THEN NoScope ELSE Top(rest).scope
      /\ Len(calls) = 1 <=> rest = <<>>
  BY <1>1, <1>2, PoppedCall DEF DefRefInv, GetEnclosingScope
<1>4. Visited("BLOCK_END", NoText, 0, <<>>) \in Seq(Visit)
  <2>1. "BLOCK_END" \in Visits /\ NoText \in Text /\ 0 \in Nat /\ <<>> \in Seq(Type)
    BY DEF Visits, Text
  <2> QED
    BY <1>1, <2>1, VisitedIsTyped
<1> QED
  BY <1>1, <1>3, <1>4 DEF LeaveBlock, DefRefInv

LEMMA EnterBodyKeepsInv == ASSUME DefRefInv, NEW k \in Conditionals, EnterBody(k) PROVE DefRefInv'
<1> DEFINE opened == NewScope(scopes, current_scope)
           n      == Len(scopes) + 1
           rest   == Pop(calls)
           body   == [Top(calls) EXCEPT !.visit = BodyOf(k), !.type = Top(refs)]
           block  == [Call("BLOCK", NoText) EXCEPT !.scope = n, !.base = Len(refs) - 1]
           node   == [node |-> "BLOCK", text |-> NoText, scope |-> n, bound |-> 0, refs |-> <<>>]
<1>1. calls # <<>> /\ Top(calls).visit = k
  BY DEF EnterBody, InCall
<1>2. ScopesOK(scopes) /\ current_scope \in DOMAIN scopes /\ scopes \in Seq(ScopeRecord)
      /\ current_scope = Top(calls).scope /\ calls \in Seq(CallRecord)
      /\ Len(refs) \in Nat /\ Top(calls).base \in Nat /\ Top(calls) \in CallRecord
  BY <1>1, Running DEF DefRefInv, CallRecord
<1>3. Pop(refs) \in Seq(Type) /\ Top(refs) \in Type /\ Len(refs) - 1 \in Nat
  <2>1. Len(refs) >= Top(calls).base + 1
    BY <1>2 DEF EnterBody
  <2> QED
    BY <1>1, <1>2, <2>1, OperandsAreTyped
<1>4. n \in Nat /\ n \in DOMAIN opened /\ DOMAIN scopes \subseteq DOMAIN opened
      /\ opened[n].enclosing = current_scope /\ ScopesOK(opened)
      /\ \A t \in DOMAIN scopes : opened[t] = scopes[t]
  BY <1>2, NewScopeEffect, NewScopeKeepsScopesOK
<1> HIDE DEF opened
<1>5. StackOK(calls, opened)
  BY <1>4, GrownScopes DEF DefRefInv
<1>6. Len(calls) # 1 /\ ~Opens(Top(calls))
  <2>1. Top(calls).visit # "BLOCK" /\ ~Opens(Top(calls))
    BY <1>1 DEF Conditionals, Opens, ScopedOps
  <2> QED
    BY <1>1, <2>1, PoppedCall DEF DefRefInv
<1>7. StackOK(rest, opened) /\ rest # <<>> /\ Top(calls).scope = Top(rest).scope
      /\ rest \in Seq(CallRecord)
  BY <1>1, <1>5, <1>6, PoppedCall DEF StackOK
<1>8. body \in CallRecord /\ body.scope = current_scope /\ ~Opens(body)
  <2>1. BodyOf(k) \in Visits /\ BodyOf(k) \notin {"BLOCK"} \cup ScopedOps
    BY DEF BodyOf, Visits, ScopedOps
  <2> QED
    BY <1>2, <1>3, <2>1 DEF CallRecord, Opens
<1> HIDE DEF rest, body
<1>9. StackOK(Append(rest, body), opened) /\ Append(rest, body) # <<>>
      /\ Top(Append(rest, body)) = body /\ Append(rest, body) \in Seq(CallRecord)
  BY <1>2, <1>4, <1>7, <1>8, PushedCall, TopOfAppend
<1>10. block \in CallRecord /\ block.scope = n /\ Opens(block)
  <2>1. "BLOCK" \in Visits /\ NoText \in Text
    BY DEF Visits, Text
  <2>2. Call("BLOCK", NoText) \in CallRecord /\ Call("BLOCK", NoText).visit = "BLOCK"
    BY <1>1, <2>1, CallIsTyped
  <2> QED
    BY <1>3, <1>4, <2>2 DEF CallRecord, Opens
<1> HIDE DEF block, n
<1>11. StackOK(Append(Append(rest, body), block), opened)
       /\ Append(Append(rest, body), block) # <<>>
       /\ Top(Append(Append(rest, body), block)) = block
  BY <1>4, <1>8, <1>9, <1>10, PushedCall, TopOfAppend
<1>12. calls' = Append(Append(rest, body), block)
  <2>1. calls' = rest \o <<body, block>>
    BY DEF EnterBody, rest, body, block, n
  <2> QED
    BY <1>7, <1>8, <1>10, <2>1
<1>13. ast' \in Seq(Visit)
  <2>1. BodyOf(k) \in Visits /\ NoText \in Text /\ 0 \in Nat /\ <<Top(refs)>> \in Seq(Type)
    BY <1>3 DEF BodyOf, Visits, Text
  <2>2. Visited(BodyOf(k), NoText, 0, <<Top(refs)>>) \in Seq(Visit)
    BY <1>1, <2>1, VisitedIsTyped
  <2>3. node \in Visit
    BY <1>4, <2>1 DEF Visit, Visits
  <2>4. ast' = Visited(BodyOf(k), NoText, 0, <<Top(refs)>>) \o <<node>>
    BY DEF EnterBody, n
  <2> QED
    BY <2>2, <2>3, <2>4
<1>14. scopes' = opened /\ current_scope' = n /\ refs' = Pop(refs) /\ UNCHANGED status
  BY DEF EnterBody, opened, n
<1> QED
  BY <1>3, <1>4, <1>10, <1>11, <1>12, <1>13, <1>14 DEF DefRefInv

LEMMA DefRefInvStep == DefRefInv /\ [DefRefNext \/ Returned]_defref_vars => DefRefInv'
<1> SUFFICES ASSUME DefRefInv, [DefRefNext \/ Returned]_defref_vars PROVE DefRefInv'
  OBVIOUS
<1>1. CASE UNCHANGED defref_vars
  BY <1>1 DEF defref_vars, DefRefInv, ScopesOK, StackOK, NestedAt, Around
<1>2. CASE VisitBlocks
  BY <1>2, EnterFileKeepsInv, EnterBodyKeepsInv, LeaveBlockKeepsInv, EndStatementKeepsInv
     DEF VisitBlocks
<1>3. CASE VisitStatement
  BY <1>3, VisitDECLKeepsInv, BeginStatementKeepsInv, EndStatementKeepsInv DEF VisitStatement
<1>4. CASE VisitEXPR
  BY <1>4, VisitINTKeepsInv, VisitIDKeepsInv, VisitOpKeepsInv, EnterScopedKeepsInv,
     LeaveScopedKeepsInv DEF VisitEXPR
<1> QED
  BY <1>1, <1>2, <1>3, <1>4 DEF DefRefNext, Returned

\* The state of the walk is well typed, and it never resolves or defines a name on
\* the null scope (DefRef, AstVisitor.cpp:48-337).
THEOREM DefRefTypeOK == DefRefSpec => []TypeOK
<1>1. DefRefInv => TypeOK
  BY DefRefInvImplies
<1> QED
  BY <1>1, DefRefInvInit, DefRefInvStep, PTL DEF DefRefSpec

\* The pushes and pops of current_scope match, whatever the nesting of blocks,
\* generators and filters (AstVisitor.cpp:77-84, 219-237).
THEOREM DefRefScopesNested == DefRefSpec => []ScopesNested
<1>1. DefRefInv => ScopesNested
  BY DefRefInvImplies
<1> QED
  BY <1>1, DefRefInvInit, DefRefInvStep, PTL DEF DefRefSpec

----------------------------------------------------------------------------
(***************************************************************************)
(* What DefRef leaves in the nodes: names are bound to what was declared   *)
(* by then, and the scope of each visit is the one the visit before it     *)
(* left.  CodeGen reads these annotations.                                 *)
(***************************************************************************)

IsDeclaration(v) == v.node \in {"DECL"} \cup ScopedOps
IsUse(v) == v.node \in {"ID", "ASSIGN"}
Declaring(v, name, s) == IsDeclaration(v) /\ v.text = name /\ v.scope = s

----------------------------------------------------------------------------
(* The parts of the invariant, of the visits "a" and the scopes "sc". *)

\* The built in types are in the global scope and nowhere else.
TablesOK(sc) ==
    /\ \A s \in DOMAIN sc : s # 1 => DOMAIN sc[s].symbols \subseteq Name
    /\ sc # <<>> => \A t \in Type : sc[1].symbols[t] = BuiltInTypeSymbol(t)

InItsScope(v, sc) ==
    /\ v.text \in Name /\ v.text \in DOMAIN sc[v.scope].symbols
    /\ sc[v.scope].symbols[v.text] = VarSymbol(DeclaredType(v))
Effective(a, sc) == \A i \in DOMAIN a : IsDeclaration(a[i]) => InItsScope(a[i], sc)

Unique(a) ==
    \A i, j \in DOMAIN a :
        IsDeclaration(a[i]) /\ Declaring(a[j], a[i].text, a[i].scope) => i = j

\* A variable is in a scope because a declaration put it there.
Backed(a, sc) ==
    \A s \in DOMAIN sc : \A n \in Name :
        n \in DOMAIN sc[s].symbols => \E j \in DOMAIN a : Declaring(a[j], n, s)

\* A use is bound to the innermost declaration before it.
BoundBefore(a, sc, i) ==
    /\ a[i].text \in Name
    /\ a[i].bound \in sc[a[i].scope].chain
    /\ \E j \in DOMAIN a : j < i /\ Declaring(a[j], a[i].text, a[i].bound)
    /\ \A j \in DOMAIN a : \A s \in sc[a[i].scope].chain :
           j < i /\ Declaring(a[j], a[i].text, s) => s <= a[i].bound
InnermostThen(a, sc) == \A i \in DOMAIN a : IsUse(a[i]) => BoundBefore(a, sc, i)

\* The scope of a generator or filter was not there before it.
FreshScopes(a) ==
    \A i, j \in DOMAIN a : a[j].node \in ScopedOps /\ i < j => a[i].scope < a[j].scope

VisitsOK(a, sc) ==
    /\ \A i \in DOMAIN a : a[i].scope \in DOMAIN sc
    /\ Effective(a, sc)
    /\ Unique(a)
    /\ Backed(a, sc)
    /\ InnermostThen(a, sc)
    /\ FreshScopes(a)

\* The current scope before and after a visit.
ScopeBefore(v, sc) ==
    IF v.node \in {"BLOCK"} \cup ScopedOps THEN sc[v.scope].enclosing ELSE v.scope
ScopeAfter(v, sc) ==
    IF v.node \in {"BLOCK_END", "GENERATOR_END", "FILTER_END"} THEN sc[v.scope].enclosing
    ELSE v.scope
Linked(a, sc, current) ==
    /\ a # <<>> => ScopeBefore(a[1], sc) = NoScope
    /\ \A i \in DOMAIN a : i + 1 \in DOMAIN a =>
           ScopeBefore(a[i + 1], sc) = ScopeAfter(a[i], sc)
    /\ current = IF a = <<>> THEN NoScope ELSE ScopeAfter(Top(a), sc)

----------------------------------------------------------------------------
(* One more visit. *)

LEMMA AppendedVisit ==
    ASSUME NEW a \in Seq(Visit), NEW v \in Visit
    PROVE  /\ Append(a, v) \in Seq(Visit) /\ Append(a, v) # <<>> /\ Top(Append(a, v)) = v
           /\ Len(a) \in Nat /\ DOMAIN a = 1..Len(a)
           /\ Len(Append(a, v)) = Len(a) + 1
           /\ DOMAIN Append(a, v) = DOMAIN a \cup {Len(a) + 1}
           /\ Append(a, v)[Len(a) + 1] = v
           /\ \A i \in DOMAIN a : Append(a, v)[i] = a[i] /\ i \in Nat /\ i < Len(a) + 1
  BY TopOfAppend

\* A visit that declares nothing, whose binding, if it is a use, is the right one.
LEMMA VisitKeepsVisitsOK ==
    ASSUME NEW sc, NEW a \in Seq(Visit), VisitsOK(a, sc), NEW v \in Visit, ~IsDeclaration(v),
           v.scope \in DOMAIN sc,
           IsUse(v) =>
              /\ v.text \in Name
              /\ v.bound \in sc[v.scope].chain
              /\ \E j \in DOMAIN a : Declaring(a[j], v.text, v.bound)
              /\ \A j \in DOMAIN a : \A s \in sc[v.scope].chain :
                     Declaring(a[j], v.text, s) => s <= v.bound
    PROVE  VisitsOK(Append(a, v), sc)
<1> DEFINE new == Append(a, v)
           n == Len(a) + 1
<1>1. /\ DOMAIN new = DOMAIN a \cup {n} /\ new[n] = v /\ n \notin DOMAIN a
      /\ \A i \in DOMAIN a : new[i] = a[i] /\ i < n /\ ~(n < i)
  BY AppendedVisit
<1>2. ~(n < n)
  BY AppendedVisit
<1> HIDE DEF new, n
<1>3. \A i \in DOMAIN new : new[i].scope \in DOMAIN sc
  BY <1>1 DEF VisitsOK
<1>4. Effective(new, sc)
  BY <1>1 DEF VisitsOK, Effective
<1>5. Unique(new)
  BY <1>1 DEF VisitsOK, Unique, Declaring
<1>6. Backed(new, sc)
  <2> SUFFICES ASSUME NEW s \in DOMAIN sc, NEW m \in Name, m \in DOMAIN sc[s].symbols
               PROVE  \E j \in DOMAIN new : Declaring(new[j], m, s)
    BY DEF Backed
  <2>1. PICK j \in DOMAIN a : Declaring(a[j], m, s)
    BY DEF VisitsOK, Backed
  <2> QED
    BY <1>1, <2>1
<1>7. InnermostThen(new, sc)
  <2> SUFFICES ASSUME NEW i \in DOMAIN new, IsUse(new[i]) PROVE BoundBefore(new, sc, i)
    BY DEF InnermostThen
  <2>1. CASE i \in DOMAIN a
    <3>1. BoundBefore(a, sc, i) /\ new[i] = a[i]
      BY <1>1, <2>1 DEF VisitsOK, InnermostThen
    <3>2. PICK j \in DOMAIN a : j < i /\ Declaring(a[j], a[i].text, a[i].bound)
      BY <3>1 DEF BoundBefore
    <3>3. \E k \in DOMAIN new : k < i /\ Declaring(new[k], new[i].text, new[i].bound)
      BY <1>1, <3>1, <3>2
    <3>4. \A k \in DOMAIN new : k < i => k \in DOMAIN a /\ new[k] = a[k]
      BY <1>1, <2>1
    <3> QED
      BY <3>1, <3>3, <3>4 DEF BoundBefore
  <2>2. CASE i = n
    <3>1. new[i] = v /\ IsUse(v)
      BY <1>1, <2>2
    <3>2. PICK j \in DOMAIN a : Declaring(a[j], v.text, v.bound)
      BY <3>1
    <3>3. \E k \in DOMAIN new : k < i /\ Declaring(new[k], v.text, v.bound)
      BY <1>1, <2>2, <3>2
    <3>4. \A k \in DOMAIN new : k < i => k \in DOMAIN a /\ new[k] = a[k]
      BY <1>1, <1>2, <2>2
    <3> QED
      BY <3>1, <3>3, <3>4 DEF BoundBefore
  <2> QED
    BY <1>1, <2>1, <2>2
<1>8. FreshScopes(new)
  <2>1. v.node \notin ScopedOps
    BY DEF IsDeclaration
  <2> QED
    BY <1>1, <2>1 DEF VisitsOK, FreshScopes
<1> QED
  BY <1>3, <1>4, <1>5, <1>6, <1>7, <1>8 DEF VisitsOK, new

\* A scope with nothing in it.
LEMMA NewScopeKeepsVisitsOK ==
    ASSUME NEW sc, ScopesOK(sc), NEW init \in DOMAIN sc, NEW a \in Seq(Visit),
           VisitsOK(a, sc), TablesOK(sc)
    PROVE  VisitsOK(a, NewScope(sc, init)) /\ TablesOK(NewScope(sc, init))
<1> DEFINE new == NewScope(sc, init)
           n == Len(sc) + 1
<1>1. /\ sc \in Seq(ScopeRecord) /\ init \in {NoScope} \cup DOMAIN sc /\ sc # <<>>
      /\ Len(sc) \in Nat /\ DOMAIN sc = 1..Len(sc)
  BY DEF ScopesOK
<1>2. DOMAIN new = 1..n /\ \A t \in DOMAIN sc : new[t] = sc[t]
  BY <1>1, NewScopeEffect
<1>3. new[n].symbols = <<>> /\ DOMAIN new[n].symbols = {}
  BY <1>1 DEF NewScope
<1>4. DOMAIN new = DOMAIN sc \cup {n} /\ n \notin DOMAIN sc /\ 1 \in DOMAIN sc
  BY <1>1, <1>2
<1> HIDE DEF new, n
<1>5. TablesOK(new)
  BY <1>1, <1>2, <1>3, <1>4 DEF TablesOK
<1>6. Effective(a, new)
  BY <1>2 DEF VisitsOK, Effective, InItsScope
<1>7. Backed(a, new)
  BY <1>2, <1>3, <1>4 DEF VisitsOK, Backed
<1>8. InnermostThen(a, new)
  BY <1>2 DEF VisitsOK, InnermostThen, BoundBefore
<1> QED
  BY <1>4, <1>5, <1>6, <1>7, <1>8 DEF VisitsOK, new

\* BaseScope::Define of a name that the scope does not hold.
LEMMA DefineSymbols ==
    ASSUME NEW sc \in Seq(ScopeRecord), NEW s \in DOMAIN sc, NEW name \in Name \cup Type,
           NEW sym \in Symbol, name \notin DOMAIN sc[s].symbols
    PROVE  /\ Define(sc, s, name, sym)[s].symbols[name] = sym
           /\ \A t \in DOMAIN sc : \A m \in DOMAIN sc[t].symbols :
                 Define(sc, s, name, sym)[t].symbols[m] = sc[t].symbols[m]
<1> DEFINE old == sc[s].symbols
           new == [m \in DOMAIN old \cup {name} |-> IF m \in DOMAIN old THEN old[m] ELSE sym]
<1>1. sc[s] \in ScopeRecord
  OBVIOUS
<1>2. Define(sc, s, name, sym) = [sc EXCEPT ![s] = [sc[s] EXCEPT !.symbols = new]]
  BY DEF Define
<1>3. new[name] = sym /\ \A m \in DOMAIN old : new[m] = old[m]
  OBVIOUS
<1> HIDE DEF new
<1>4. Define(sc, s, name, sym)[s].symbols = new
  BY <1>1, <1>2 DEF ScopeRecord
<1>5. \A t \in DOMAIN sc : t # s => Define(sc, s, name, sym)[t] = sc[t]
  BY <1>2
<1> QED
  BY <1>3, <1>4, <1>5

\* A declaration.
LEMMA DeclarationKeepsVisitsOK ==
    ASSUME NEW sc, ScopesOK(sc), NEW a \in Seq(Visit), VisitsOK(a, sc), TablesOK(sc),
           NEW v \in Visit, IsDeclaration(v), v.text \in Name, v.scope \in DOMAIN sc,
           v.text \notin DOMAIN sc[v.scope].symbols, DeclaredType(v) \in Type,
           v.node \in ScopedOps => \A i \in DOMAIN a : a[i].scope < v.scope
    PROVE  LET new == Define(sc, v.scope, v.text, VarSymbol(DeclaredType(v)))
           IN  VisitsOK(Append(a, v), new) /\ TablesOK(new)
<1> DEFINE sym == VarSymbol(DeclaredType(v))
           grown == Define(sc, v.scope, v.text, sym)
           new == Append(a, v)
           n == Len(a) + 1
<1>1. sym \in Symbol
  BY DEF VarSymbol, Symbol
<1>2. sc \in Seq(ScopeRecord)
  BY DEF ScopesOK
<1> HIDE DEF sym
<1>3. /\ DOMAIN grown = DOMAIN sc
      /\ \A t \in DOMAIN sc :
            /\ grown[t].chain = sc[t].chain
            /\ DOMAIN grown[t].symbols = DOMAIN sc[t].symbols \cup (IF t = v.scope THEN {v.text} ELSE {})
  BY <1>1, <1>2, DefineEffect
<1>4. /\ grown[v.scope].symbols[v.text] = sym
      /\ \A t \in DOMAIN sc : \A m \in DOMAIN sc[t].symbols :
            grown[t].symbols[m] = sc[t].symbols[m]
  BY <1>1, <1>2, DefineSymbols
<1>5. /\ DOMAIN new = DOMAIN a \cup {n} /\ new[n] = v /\ n \notin DOMAIN a
      /\ \A i \in DOMAIN a : new[i] = a[i] /\ i < n /\ ~(n < i)
      /\ ~(n < n)
  BY AppendedVisit
<1> HIDE DEF grown, new, n
<1>6. TablesOK(grown)
  <2>1. \A s \in DOMAIN grown : s # 1 => DOMAIN grown[s].symbols \subseteq Name
    BY <1>3 DEF TablesOK
  <2>2. sc # <<>> /\ 1 \in DOMAIN sc /\ Type \subseteq DOMAIN sc[1].symbols
    BY <1>2 DEF ScopesOK
  <2> QED
    BY <1>3, <1>4, <2>1, <2>2 DEF TablesOK
<1>7. Effective(new, grown)
  <2>1. ASSUME NEW i \in DOMAIN a, IsDeclaration(a[i]) PROVE InItsScope(new[i], grown)
    <3>1. a[i].scope \in DOMAIN sc /\ InItsScope(a[i], sc)
      BY <2>1 DEF VisitsOK, Effective
    <3> QED
      BY <1>3, <1>4, <1>5, <3>1 DEF InItsScope
  <2>2. InItsScope(v, grown)
    BY <1>3, <1>4 DEF InItsScope, sym
  <2> QED
    BY <1>5, <2>1, <2>2 DEF Effective
<1>8. Unique(new)
  <2>1. ASSUME NEW i \in DOMAIN a, IsDeclaration(a[i]) PROVE a[i].text # v.text \/ a[i].scope # v.scope
    BY <2>1 DEF VisitsOK, Effective, InItsScope
  <2>2. Unique(a)
    BY DEF VisitsOK
  <2> QED
    BY <1>5, <2>1, <2>2 DEF Unique, Declaring
<1>9. Backed(new, grown)
  <2> SUFFICES ASSUME NEW s \in DOMAIN grown, NEW m \in Name, m \in DOMAIN grown[s].symbols
               PROVE  \E j \in DOMAIN new : Declaring(new[j], m, s)
    BY DEF Backed
  <2>1. CASE m \in DOMAIN sc[s].symbols
    <3>1. PICK j \in DOMAIN a : Declaring(a[j], m, s)
      BY <1>3, <2>1 DEF VisitsOK, Backed
    <3> QED
      BY <1>5, <3>1
  <2>2. CASE s = v.scope /\ m = v.text
    BY <1>5, <2>2 DEF Declaring
  <2> QED
    BY <1>3, <2>1, <2>2
<1>10. InnermostThen(new, grown)
  <2> SUFFICES ASSUME NEW i \in DOMAIN new, IsUse(new[i]) PROVE BoundBefore(new, grown, i)
    BY DEF InnermostThen
  <2>1. i \in DOMAIN a
    BY <1>5 DEF IsUse, IsDeclaration, ScopedOps
  <2>2. BoundBefore(a, sc, i) /\ new[i] = a[i] /\ a[i].scope \in DOMAIN sc
    BY <1>5, <2>1 DEF VisitsOK, InnermostThen
  <2>3. PICK j \in DOMAIN a : j < i /\ Declaring(a[j], a[i].text, a[i].bound)
    BY <2>2 DEF BoundBefore
  <2>4. \E k \in DOMAIN new : k < i /\ Declaring(new[k], new[i].text, new[i].bound)
    BY <1>5, <2>2, <2>3
  <2>5. \A k \in DOMAIN new : k < i => k \in DOMAIN a /\ new[k] = a[k]
    BY <1>5, <2>1
  <2> QED
    BY <1>3, <2>2, <2>4, <2>5 DEF BoundBefore
<1>11. FreshScopes(new)
  BY <1>5 DEF VisitsOK, FreshScopes
<1>12. \A i \in DOMAIN new : new[i].scope \in DOMAIN grown
  BY <1>3, <1>5 DEF VisitsOK
<1> QED
  BY <1>6, <1>7, <1>8, <1>9, <1>10, <1>11, <1>12 DEF VisitsOK, new, grown, sym

\* The visit starts in the scope that the one before it left.
LEMMA VisitKeepsLinked ==
    ASSUME NEW sc, NEW current, NEW a \in Seq(Visit), Linked(a, sc, current), NEW v \in Visit,
           ScopeBefore(v, sc) = current
    PROVE  Linked(Append(a, v), sc, ScopeAfter(v, sc))
<1> DEFINE new == Append(a, v)
           n == Len(a) + 1
<1>1. /\ DOMAIN new = DOMAIN a \cup {n} /\ new[n] = v /\ n \notin DOMAIN a /\ n + 1 \notin DOMAIN new
      /\ new # <<>> /\ Top(new) = v
      /\ \A i \in DOMAIN a : new[i] = a[i]
  BY AppendedVisit
<1>2. a = <<>> => n = 1
  OBVIOUS
<1>3. a # <<>> => 1 \in DOMAIN a /\ Top(a) = a[Len(a)] /\ \A i \in DOMAIN a : i + 1 = n => i = Len(a)
  BY DEF Top
<1> HIDE DEF new, n
<1>4. ScopeBefore(new[1], sc) = NoScope
  BY <1>1, <1>2, <1>3 DEF Linked
<1>5. ASSUME NEW i \in DOMAIN new, i + 1 \in DOMAIN new
      PROVE  ScopeBefore(new[i + 1], sc) = ScopeAfter(new[i], sc)
  <2>1. i \in DOMAIN a /\ new[i] = a[i]
    BY <1>1, <1>5
  <2>2. CASE i + 1 \in DOMAIN a
    BY <1>1, <2>1, <2>2 DEF Linked
  <2>3. CASE i + 1 = n
    <3>1. a # <<>> /\ a[i] = Top(a)
      BY <1>3, <2>1, <2>3
    <3> QED
      BY <1>1, <2>1, <2>3, <3>1 DEF Linked
  <2> QED
    BY <1>1, <1>5, <2>2, <2>3
<1> QED
  BY <1>1, <1>4, <1>5 DEF Linked, new

LEMMA GrownScopesKeepLinked ==
    ASSUME NEW sc, NEW grown, NEW current, NEW a \in Seq(Visit), Linked(a, sc, current),
           \A i \in DOMAIN a : a[i].scope \in DOMAIN sc,
           \A t \in DOMAIN sc : grown[t].enclosing = sc[t].enclosing
    PROVE  Linked(a, grown, current)
<1>1. \A i \in DOMAIN a : ScopeBefore(a[i], grown) = ScopeBefore(a[i], sc)
                        /\ ScopeAfter(a[i], grown) = ScopeAfter(a[i], sc)
  BY DEF ScopeBefore, ScopeAfter
<1>2. a # <<>> => 1 \in DOMAIN a /\ Len(a) \in DOMAIN a /\ Top(a) = a[Len(a)]
  BY DEF Top
<1> QED
  BY <1>1, <1>2 DEF Linked

----------------------------------------------------------------------------
(* The invariant of the walk. *)

CallsNamed(cs) == \A i \in DOMAIN cs : cs[i].visit = "ASSIGN" => cs[i].text \in Name

VisitsInv ==
    /\ TablesOK(scopes)
    /\ VisitsOK(ast, scopes)
    /\ Linked(ast, scopes, current_scope)
    /\ CallsNamed(calls)
    /\ status = "validated" => calls = <<>> /\ ast # <<>>

\* What an action has to show of the visits it adds and of the calls.
VisitsKept ==
    /\ TablesOK(scopes') /\ VisitsOK(ast', scopes')
    /\ Linked(ast', scopes', current_scope')

LEMMA VisitsInvInit == DefRefInit => VisitsInv
<1> SUFFICES ASSUME DefRefInit PROVE VisitsInv
  OBVIOUS
<1>1. ast = <<>> /\ scopes = <<>> /\ calls = <<>> /\ current_scope = NoScope /\ status = "visiting"
  BY DEF DefRefInit
<1>2. DOMAIN ast = {} /\ DOMAIN scopes = {} /\ DOMAIN calls = {}
  BY <1>1
<1> QED
  BY <1>1, <1>2 DEF VisitsInv, TablesOK, VisitsOK, Effective, Unique, Backed, InnermostThen,
     FreshScopes, Linked, CallsNamed

LEMMA UnchangedVisits ==
    ASSUME VisitsInv, UNCHANGED <<ast, scopes, current_scope>> PROVE VisitsKept
  BY DEF VisitsInv, VisitsKept

\* int and vector mean the built in types everywhere.
LEMMA BuiltInTypeIsItself ==
    ASSUME NEW sc, ScopesOK(sc), TablesOK(sc), NEW s \in DOMAIN sc, NEW t \in Type
    PROVE  ResolvedSymbol(sc, s, t) = BuiltInTypeSymbol(t)
<1> DEFINE h == Resolve(sc, s, t)
<1>1. h \in DOMAIN sc /\ t \in DOMAIN sc[h].symbols
  BY BuiltInTypeIsFound, ResolveIsHolder
<1>2. h = 1
  BY <1>1, KeywordsAreNotNames DEF TablesOK
<1>3. sc # <<>>
  BY DEF ScopesOK
<1> QED
  BY <1>2, <1>3 DEF ResolvedSymbol, TablesOK

\* A visit of a node that is no declaration and no use, in the current scope.
LEMMA PlainVisit ==
    ASSUME DefRefInv, VisitsInv, calls # <<>>,
           NEW node \in Visits \ ({"BLOCK", "DECL", "ID", "ASSIGN"} \cup ScopedOps),
           NEW text \in Text, NEW types \in Seq(Type), NEW current,
           current = IF node \in {"BLOCK_END", "GENERATOR_END", "FILTER_END"}
                     THEN scopes[current_scope].enclosing ELSE current_scope
    PROVE  /\ VisitsOK(Visited(node, text, 0, types), scopes)
           /\ Linked(Visited(node, text, 0, types), scopes, current)
<1> DEFINE v == [node |-> node, text |-> text, scope |-> current_scope, bound |-> 0, refs |-> types]
<1>1. current_scope \in DOMAIN scopes /\ current_scope \in Nat
  BY Running
<1>2. v \in Visit
  BY <1>1 DEF Visit
<1>3. Visited(node, text, 0, types) = Append(ast, v)
  BY DEF Visited
<1>4. v.node = node /\ v.scope = current_scope
  OBVIOUS
<1> HIDE DEF v
<1>5. ~IsDeclaration(v) /\ ~IsUse(v)
  BY <1>4 DEF IsDeclaration, IsUse
<1>6. VisitsOK(Append(ast, v), scopes)
  BY <1>1, <1>2, <1>4, <1>5, VisitKeepsVisitsOK DEF VisitsInv, DefRefInv
<1>7. ScopeBefore(v, scopes) = current_scope /\ ScopeAfter(v, scopes) = current
  BY <1>4 DEF ScopeBefore, ScopeAfter
<1>8. Linked(Append(ast, v), scopes, current)
  BY <1>2, <1>7, VisitKeepsLinked DEF VisitsInv, DefRefInv
<1> QED
  BY <1>3, <1>6, <1>8

\* A use: Resolve's answer is the innermost declaration so far.
LEMMA UseVisit ==
    ASSUME DefRefInv, VisitsInv, calls # <<>>, NEW node \in {"ID", "ASSIGN"}, NEW name \in Name,
           NEW types \in Seq(Type), Resolve(scopes, current_scope, name) # NoScope
    PROVE  LET new == Visited(node, name, Resolve(scopes, current_scope, name), types)
           IN  VisitsOK(new, scopes) /\ Linked(new, scopes, current_scope)
<1> DEFINE bound == Resolve(scopes, current_scope, name)
           v == [node |-> node, text |-> name, scope |-> current_scope, bound |-> bound,
                 refs |-> types]
           H == Holders(scopes, current_scope, name)
<1>1. current_scope \in DOMAIN scopes /\ current_scope \in Nat /\ ScopesOK(scopes)
      /\ scopes \in Seq(ScopeRecord)
  BY Running DEF DefRefInv
<1>2. /\ bound \in Nat /\ bound \in DOMAIN scopes /\ bound \in scopes[current_scope].chain
      /\ name \in DOMAIN scopes[bound].symbols
  BY <1>1, ResolveIsHolder
<1>3. \A u \in H : u <= bound
  <2>1. H \subseteq 1..current_scope /\ H # {}
    BY <1>1 DEF ScopesOK, Holders, Resolve
  <2>2. \E t \in H : \A u \in H : u <= t
    BY <1>1, <2>1, LargestOf
  <2> QED
    BY <2>1, <2>2 DEF Resolve
<1>4. v \in Visit
  BY <1>1, <1>2 DEF Visit, Visits, NodeKinds, Leaves, Statements, Text
<1>5. Visited(node, name, bound, types) = Append(ast, v)
  BY DEF Visited
<1>6. v.node = node /\ v.scope = current_scope /\ v.text = name /\ v.bound = bound
  OBVIOUS
<1> HIDE DEF v
<1>7. \E j \in DOMAIN ast : Declaring(ast[j], name, bound)
  BY <1>2 DEF VisitsInv, VisitsOK, Backed
<1>8. ASSUME NEW j \in DOMAIN ast, NEW s \in scopes[current_scope].chain,
             Declaring(ast[j], name, s)
      PROVE  s <= bound
  <2>1. s \in DOMAIN scopes /\ name \in DOMAIN scopes[s].symbols
    BY <1>8 DEF VisitsInv, VisitsOK, Effective, InItsScope, Declaring
  <2> QED
    BY <1>3, <2>1 DEF Holders, Declares
<1>9. ~IsDeclaration(v)
  BY <1>6 DEF IsDeclaration, ScopedOps
<1>10. VisitsOK(Append(ast, v), scopes)
  <2> HIDE DEF bound
  <2> QED
    BY <1>1, <1>2, <1>4, <1>6, <1>7, <1>8, <1>9, VisitKeepsVisitsOK DEF VisitsInv, DefRefInv
<1>11. ScopeBefore(v, scopes) = current_scope /\ ScopeAfter(v, scopes) = current_scope
  BY <1>6 DEF ScopeBefore, ScopeAfter, ScopedOps
<1>12. Linked(Append(ast, v), scopes, current_scope)
  BY <1>4, <1>11, VisitKeepsLinked DEF VisitsInv, DefRefInv
<1> QED
  BY <1>5, <1>10, <1>12

\* A declaration in scope s, which may have been made for it.
LEMMA DeclarationVisit ==
    ASSUME NEW sc, ScopesOK(sc), TablesOK(sc), NEW a \in Seq(Visit), VisitsOK(a, sc),
           NEW current, Linked(a, sc, current),
           NEW v \in Visit, IsDeclaration(v), v.text \in Name, v.scope \in DOMAIN sc,
           v.text \notin DOMAIN sc[v.scope].symbols, DeclaredType(v) \in Type,
           v.node \in ScopedOps => \A i \in DOMAIN a : a[i].scope < v.scope,
           ScopeBefore(v, sc) = current
    PROVE  LET new == Define(sc, v.scope, v.text, VarSymbol(DeclaredType(v)))
           IN  VisitsOK(Append(a, v), new) /\ TablesOK(new) /\ Linked(Append(a, v), new, v.scope)
<1> DEFINE new == Define(sc, v.scope, v.text, VarSymbol(DeclaredType(v)))
<1>1. VisitsOK(Append(a, v), new) /\ TablesOK(new)
  BY DeclarationKeepsVisitsOK
<1>2. VarSymbol(DeclaredType(v)) \in Symbol /\ sc \in Seq(ScopeRecord)
  BY DEF VarSymbol, Symbol, ScopesOK
<1>3. \A t \in DOMAIN sc : new[t].enclosing = sc[t].enclosing
  BY <1>2, DefineEffect
<1> HIDE DEF new
<1>4. Linked(a, new, current)
  BY <1>3, GrownScopesKeepLinked DEF VisitsOK
<1>5. ScopeBefore(v, new) = current /\ ScopeAfter(v, new) = v.scope
  BY <1>3 DEF ScopeBefore, ScopeAfter, IsDeclaration, ScopedOps
<1>6. Linked(Append(a, v), new, v.scope)
  BY <1>4, <1>5, VisitKeepsLinked
<1> QED
  BY <1>1, <1>6 DEF new

----------------------------------------------------------------------------
(* The steps. *)

LEMMA PushKeepsNamed ==
    ASSUME NEW cs \in Seq(CallRecord), CallsNamed(cs), NEW c \in CallRecord,
           c.visit = "ASSIGN" => c.text \in Name
    PROVE  CallsNamed(Append(cs, c))
  BY DEF CallsNamed

LEMMA PopKeepsNamed ==
    ASSUME NEW cs \in Seq(CallRecord), CallsNamed(cs), cs # <<>>
    PROVE  CallsNamed(Pop(cs)) /\ (Top(cs).visit = "ASSIGN" => Top(cs).text \in Name)
<1>1. /\ Len(cs) \in Nat \ {0} /\ Top(cs) = cs[Len(cs)]
      /\ Pop(cs) \in Seq(CallRecord) /\ Len(Pop(cs)) = Len(cs) - 1
      /\ \A i \in 1..(Len(cs) - 1) : Pop(cs)[i] = cs[i]
  BY TopAndPop
<1>2. DOMAIN Pop(cs) = 1..(Len(cs) - 1) /\ DOMAIN cs = 1..Len(cs)
  BY <1>1
<1> QED
  BY <1>1, <1>2 DEF CallsNamed

\* The root block.
LEMMA EnterFileKeepsVisits == ASSUME DefRefInv, VisitsInv, EnterFile PROVE VisitsKept
<1> DEFINE global == NewScope(scopes, NoScope)
           int    == BuiltInTypeSymbol("int")
           vector == BuiltInTypeSymbol("vector")
           ints   == Define(global, 1, "int", int)
           typed  == Define(ints, 1, "vector", vector)
           root   == [node |-> "BLOCK", text |-> NoText, scope |-> 1, bound |-> 0, refs |-> <<>>]
<1>1. scopes = <<>> /\ ast \in Seq(Visit) /\ scopes \in Seq(ScopeRecord)
  BY DEF EnterFile, DefRefInv, ScopesOK
<1>2. ast = <<>>
  BY <1>1 DEF VisitsInv, VisitsOK
<1>3. global = <<[enclosing |-> NoScope, symbols |-> <<>>, chain |-> {1}]>>
  BY <1>1 DEF NewScope
<1>4. /\ int \in Symbol /\ vector \in Symbol /\ "int" \in Name \cup Type
      /\ "vector" \in Name \cup Type /\ "int" # "vector"
  BY DEF BuiltInTypeSymbol, Symbol, Type
<1>5. global \in Seq(ScopeRecord) /\ DOMAIN global = {1} /\ global[1].enclosing = NoScope
      /\ DOMAIN global[1].symbols = {}
  <2>1. NoScope \in {NoScope} \cup DOMAIN scopes
    OBVIOUS
  <2>2. global \in Seq(ScopeRecord)
    BY <1>1, <2>1, NewScopeEffect
  <2> QED
    BY <1>3, <2>2
<1> HIDE DEF global, int, vector
<1>6. /\ ints \in Seq(ScopeRecord) /\ DOMAIN ints = {1} /\ ints[1].enclosing = NoScope
      /\ DOMAIN ints[1].symbols = {"int"} /\ ints[1].symbols["int"] = int
  <2>1. 1 \in DOMAIN global /\ "int" \notin DOMAIN global[1].symbols
        /\ global \in Seq(ScopeRecord)
    BY <1>5
  <2>2. ints[1].symbols["int"] = int
    BY <1>4, <2>1, DefineSymbols
  <2>3. /\ ints \in Seq(ScopeRecord) /\ DOMAIN ints = DOMAIN global
        /\ ints[1].enclosing = global[1].enclosing
        /\ DOMAIN ints[1].symbols = DOMAIN global[1].symbols \cup {"int"}
    BY <1>4, <2>1, DefineEffect
  <2> QED
    BY <1>5, <2>2, <2>3
<1> HIDE DEF ints
<1>7. /\ typed \in Seq(ScopeRecord) /\ DOMAIN typed = {1} /\ typed[1].enclosing = NoScope
      /\ DOMAIN typed[1].symbols = {"int", "vector"}
      /\ typed[1].symbols["int"] = int /\ typed[1].symbols["vector"] = vector
  BY <1>4, <1>6, DefineEffect, DefineSymbols
<1> HIDE DEF typed
<1>8. scopes' = typed /\ current_scope' = 1 /\ ast' = <<root>>
  BY <1>2 DEF EnterFile, global, ints, typed, int, vector
<1>9. TablesOK(typed)
  BY <1>7 DEF TablesOK, Type, int, vector
<1>10. DOMAIN <<root>> = {1} /\ <<root>>[1] = root /\ root.node = "BLOCK" /\ root.scope = 1
       /\ Top(<<root>>) = root
  BY DEF Top
<1> HIDE DEF root
<1>11. ~IsDeclaration(root) /\ ~IsUse(root) /\ root.node \notin ScopedOps
  BY <1>10 DEF IsDeclaration, IsUse, ScopedOps
<1>12. VisitsOK(<<root>>, typed)
  <2>1. Backed(<<root>>, typed)
    BY <1>7, KeywordsAreNotNames DEF Backed, Type
  <2> QED
    BY <1>7, <1>10, <1>11, <2>1 DEF VisitsOK, Effective, Unique, InnermostThen, FreshScopes
<1>13. Linked(<<root>>, typed, 1)
  BY <1>7, <1>10 DEF Linked, ScopeBefore, ScopeAfter
<1> QED
  BY <1>8, <1>9, <1>12, <1>13 DEF VisitsKept

\* Two visits: the body's in the scope of the statement, its block's in a new one.
LEMMA EnterBodyKeepsVisits ==
    ASSUME DefRefInv, VisitsInv, NEW k \in Conditionals, EnterBody(k)
    PROVE  VisitsKept
<1> DEFINE opened == NewScope(scopes, current_scope)
           n      == Len(scopes) + 1
           first  == Visited(BodyOf(k), NoText, 0, <<Top(refs)>>)
           node   == [node |-> "BLOCK", text |-> NoText, scope |-> n, bound |-> 0, refs |-> <<>>]
<1>1. calls # <<>>
  BY DEF EnterBody, InCall
<1>2. ScopesOK(scopes) /\ current_scope \in DOMAIN scopes /\ scopes \in Seq(ScopeRecord)
      /\ Len(scopes) \in Nat /\ Len(refs) \in Nat /\ Top(calls).base \in Nat
  BY <1>1, Running DEF DefRefInv, CallRecord
<1>3. Top(refs) \in Type
  <2>1. Len(refs) >= Top(calls).base + 1
    BY <1>2 DEF EnterBody
  <2> QED
    BY <1>1, <2>1, OperandsAreTyped
<1>4. BodyOf(k) \in Visits \ ({"BLOCK", "DECL", "ID", "ASSIGN"} \cup ScopedOps)
      /\ BodyOf(k) \notin {"BLOCK_END", "GENERATOR_END", "FILTER_END"}
      /\ NoText \in Text /\ <<Top(refs)>> \in Seq(Type)
  BY <1>3 DEF BodyOf, Visits, ScopedOps, Text
<1>5. VisitsOK(first, scopes) /\ Linked(first, scopes, current_scope)
  BY <1>1, <1>4, PlainVisit
<1>6. first \in Seq(Visit)
  BY <1>1, <1>4, VisitedIsTyped
<1> HIDE DEF first
<1>7. VisitsOK(first, opened) /\ TablesOK(opened)
  BY <1>2, <1>5, <1>6, NewScopeKeepsVisitsOK DEF VisitsInv
<1>8. n \in DOMAIN opened /\ n \in Nat /\ opened[n].enclosing = current_scope
      /\ \A t \in DOMAIN scopes : opened[t] = scopes[t]
  BY <1>2, NewScopeEffect
<1> HIDE DEF opened
<1>9. Linked(first, opened, current_scope)
  BY <1>5, <1>6, <1>8, GrownScopesKeepLinked DEF VisitsOK
<1>10. node \in Visit /\ node.node = "BLOCK" /\ node.scope = n
  BY <1>4, <1>8 DEF Visit, Visits
<1> HIDE DEF node, n
<1>11. ~IsDeclaration(node) /\ ~IsUse(node) /\ ScopeBefore(node, opened) = current_scope
       /\ ScopeAfter(node, opened) = n
  BY <1>8, <1>10 DEF IsDeclaration, IsUse, ScopedOps, ScopeBefore, ScopeAfter
<1>12. VisitsOK(Append(first, node), opened) /\ Linked(Append(first, node), opened, n)
  BY <1>6, <1>7, <1>8, <1>9, <1>10, <1>11, VisitKeepsVisitsOK, VisitKeepsLinked
<1>13. ast' = Append(first, node)
  <2>1. ast' = first \o <<node>>
    BY DEF EnterBody, first, node, n
  <2> QED
    BY <1>6, <1>10, <2>1
<1>14. scopes' = opened /\ current_scope' = n
  BY DEF EnterBody, opened, n
<1> QED
  BY <1>7, <1>12, <1>13, <1>14 DEF VisitsKept

\* The iterator of a generator or filter is declared in a new scope.
LEMMA EnterScopedKeepsVisits ==
    ASSUME DefRefInv, VisitsInv, NEW op \in ScopedOps, NEW name \in Name, EnterScoped(op, name),
           ~Throw
    PROVE  VisitsKept
<1> DEFINE opened == NewScope(scopes, current_scope)
           n      == Len(opened)
           sym    == VarSymbol(ResolvedSymbol(opened, n, "int").type)
           v      == [node |-> op, text |-> name, scope |-> n, bound |-> n, refs |-> <<Top(refs)>>]
<1>1. /\ scopes' = Define(opened, n, name, sym) /\ current_scope' = n /\ ast' = Append(ast, v)
      /\ calls # <<>>
  BY DEF EnterScoped, InExpr, InCall
<1>2. ScopesOK(scopes) /\ current_scope \in DOMAIN scopes /\ scopes \in Seq(ScopeRecord)
      /\ Len(scopes) \in Nat /\ DOMAIN scopes = 1..Len(scopes) /\ ast \in Seq(Visit)
      /\ Len(refs) \in Nat /\ Top(calls).base \in Nat
  BY <1>1, Running DEF DefRefInv, CallRecord
<1>3. Top(refs) \in Type
  <2>1. Len(refs) >= Top(calls).base + 1
    BY <1>2 DEF EnterScoped, Operands
  <2> QED
    BY <1>1, <2>1, OperandsAreTyped
<1>4. n = Len(scopes) + 1 /\ n \in DOMAIN opened
      /\ opened[n].enclosing = current_scope
      /\ \A t \in DOMAIN scopes : opened[t] = scopes[t]
  <2>1. /\ opened \in Seq(ScopeRecord) /\ Len(opened) = Len(scopes) + 1
        /\ DOMAIN opened = 1..(Len(scopes) + 1)
        /\ opened[Len(scopes) + 1].enclosing = current_scope
        /\ \A t \in DOMAIN scopes : opened[t] = scopes[t]
    BY <1>2, NewScopeEffect
  <2> HIDE DEF opened
  <2> QED
    BY <1>2, <2>1
<1>5. DOMAIN opened[n].symbols = {}
  <2>1. opened[Len(scopes) + 1].symbols = <<>>
    BY <1>2 DEF NewScope
  <2> QED
    BY <1>4, <2>1
<1>6. ScopesOK(opened) /\ VisitsOK(ast, opened) /\ TablesOK(opened)
  BY <1>2, NewScopeKeepsScopesOK, NewScopeKeepsVisitsOK DEF VisitsInv
<1> HIDE DEF opened, n
<1>7. Linked(ast, opened, current_scope)
  BY <1>2, <1>4, GrownScopesKeepLinked DEF VisitsInv, VisitsOK
<1>8. v \in Visit /\ v.node = op /\ v.text = name /\ v.scope = n
  BY <1>2, <1>3, <1>4 DEF Visit, Visits, NodeKinds, Text
<1> HIDE DEF v
<1>9. IsDeclaration(v) /\ DeclaredType(v) = "int" /\ ScopeBefore(v, opened) = current_scope
  BY <1>4, <1>8 DEF IsDeclaration, DeclaredType, ScopedOps, ScopeBefore
<1>10. sym = VarSymbol(DeclaredType(v)) /\ DeclaredType(v) \in Type
  <2>1. ResolvedSymbol(opened, n, "int") = BuiltInTypeSymbol("int")
    BY <1>4, <1>6, BuiltInTypeIsItself DEF Type
  <2> QED
    BY <1>9, <2>1 DEF BuiltInTypeSymbol, Type
<1>11. \A i \in DOMAIN ast : ast[i].scope < n
  BY <1>2, <1>4 DEF VisitsInv, VisitsOK
<1>12. /\ VisitsOK(Append(ast, v), scopes') /\ TablesOK(scopes')
       /\ Linked(Append(ast, v), scopes', n)
  <2> DEFINE new == Define(opened, v.scope, v.text, VarSymbol(DeclaredType(v)))
  <2>1. VisitsOK(Append(ast, v), new) /\ TablesOK(new) /\ Linked(Append(ast, v), new, v.scope)
    BY <1>2, <1>4, <1>5, <1>6, <1>7, <1>8, <1>9, <1>10, <1>11, DeclarationVisit
  <2>2. scopes' = new
    BY <1>1, <1>8, <1>10
  <2> HIDE DEF new
  <2> QED
    BY <1>8, <2>1, <2>2
<1> QED
  BY <1>1, <1>12 DEF VisitsKept

LEMMA VisitDECLKeepsVisits ==
    ASSUME DefRefInv, VisitsInv, NEW name \in Name, NEW type \in Type, NEW initialized \in BOOLEAN,
           VisitDECL(name, type, initialized), ~Throw
    PROVE  VisitsKept
<1> DEFINE v == [node |-> "DECL", text |-> name, scope |-> current_scope, bound |-> current_scope,
                 refs |-> <<type>>]
<1>1. /\ calls # <<>> /\ name \notin DOMAIN scopes[current_scope].symbols
      /\ scopes' = Define(scopes, current_scope, name, VarSymbol(GetBuiltInTypeData(type)))
      /\ ast' = Append(ast, v) /\ current_scope' = current_scope
  BY DEF VisitDECL, InCall, DeclaredTwice, Declares, Visited
<1>2. ScopesOK(scopes) /\ current_scope \in DOMAIN scopes /\ current_scope \in Nat
      /\ ast \in Seq(Visit)
  BY <1>1, Running DEF DefRefInv
<1>3. v \in Visit /\ v.node = "DECL" /\ v.text = name /\ v.scope = current_scope
      /\ v.refs[1] = type
  BY <1>2 DEF Visit, Visits, NodeKinds, Statements, Text
<1> HIDE DEF v
<1>4. IsDeclaration(v) /\ DeclaredType(v) = type /\ ScopeBefore(v, scopes) = current_scope
      /\ v.node \notin ScopedOps
  BY <1>3 DEF IsDeclaration, DeclaredType, ScopedOps, ScopeBefore
<1>5. GetBuiltInTypeData(type) = type
  <2>1. ResolvedSymbol(scopes, current_scope, type) = BuiltInTypeSymbol(type)
    BY <1>2, BuiltInTypeIsItself DEF VisitsInv
  <2> QED
    BY <2>1 DEF BuiltInTypeSymbol, GetBuiltInTypeData
<1>6. /\ VisitsOK(Append(ast, v), scopes') /\ TablesOK(scopes')
      /\ Linked(Append(ast, v), scopes', current_scope)
  <2> DEFINE new == Define(scopes, v.scope, v.text, VarSymbol(DeclaredType(v)))
  <2>1. VisitsOK(Append(ast, v), new) /\ TablesOK(new) /\ Linked(Append(ast, v), new, v.scope)
    BY <1>1, <1>2, <1>3, <1>4, DeclarationVisit DEF VisitsInv
  <2>2. scopes' = new
    BY <1>1, <1>3, <1>4, <1>5
  <2> HIDE DEF new
  <2> QED
    BY <1>3, <2>1, <2>2
<1> QED
  BY <1>1, <1>6 DEF VisitsKept

LEMMA ThrowKeepsVisitsInv == ASSUME VisitsInv, Throw PROVE VisitsInv'
  BY DEF VisitsInv, Throw

\* The walk goes on.
LEMMA StillVisiting ==
    ASSUME VisitsKept, CallsNamed(calls'), status' # "validated" PROVE VisitsInv'
  BY DEF VisitsKept, VisitsInv

LEMMA BlocksKeepVisitsInv == ASSUME DefRefInv, VisitsInv, VisitBlocks PROVE VisitsInv'
<1>1. calls \in Seq(CallRecord) /\ CallsNamed(calls)
  BY DEF DefRefInv, StackOK, VisitsInv
<1>2. CASE EnterFile
  <2> DEFINE root == [Call("BLOCK", NoText) EXCEPT !.scope = 1]
  <2>1. calls' = <<root>> /\ status' # "validated"
    BY <1>2 DEF EnterFile
  <2>2. root.visit = "BLOCK"
    BY DEF Call
  <2> HIDE DEF root
  <2>3. CallsNamed(<<root>>)
    BY <2>2 DEF CallsNamed
  <2> QED
    BY <1>2, <2>1, <2>3, EnterFileKeepsVisits, StillVisiting
<1>3. ASSUME NEW k \in Conditionals, EnterBody(k) PROVE VisitsInv'
  <2> DEFINE body  == [Top(calls) EXCEPT !.visit = BodyOf(k), !.type = Top(refs)]
             block == [Call("BLOCK", NoText) EXCEPT !.scope = Len(scopes) + 1, !.base = Len(refs) - 1]
  <2>1. calls # <<>> /\ calls' = Pop(calls) \o <<body, block>> /\ status' # "validated"
    BY <1>3 DEF EnterBody, InCall
  <2>2. body.visit # "ASSIGN" /\ block.visit = "BLOCK"
    <3>1. BodyOf(k) # "ASSIGN" /\ Top(calls) \in CallRecord
      BY <2>1, Running DEF BodyOf
    <3> QED
      BY <3>1 DEF Call, CallRecord
  <2>3. CallsNamed(Pop(calls)) /\ Pop(calls) \in Seq(CallRecord)
    BY <1>1, <2>1, PopKeepsNamed, TopAndPop
  <2> HIDE DEF body, block
  <2>4. CallsNamed(Pop(calls) \o <<body, block>>)
    BY <2>2, <2>3 DEF CallsNamed
  <2> QED
    BY <1>3, <2>1, <2>4, EnterBodyKeepsVisits, StillVisiting
<1>4. CASE LeaveBlock
  <2>1. /\ calls # <<>> /\ calls' = Pop(calls) /\ scopes' = scopes
        /\ ast' = Visited("BLOCK_END", NoText, 0, <<>>)
        /\ current_scope' = scopes[current_scope].enclosing
        /\ status' = IF Len(calls) = 1 THEN "validated" ELSE "visiting"
    BY <1>4 DEF LeaveBlock, InCall, GetEnclosingScope
  <2>2. VisitsKept
    <3>1. "BLOCK_END" \in Visits \ ({"BLOCK", "DECL", "ID", "ASSIGN"} \cup ScopedOps)
          /\ NoText \in Text /\ <<>> \in Seq(Type)
      BY DEF Visits, ScopedOps, Text
    <3> QED
      BY <2>1, <3>1, PlainVisit DEF VisitsKept, VisitsInv
  <2>3. CallsNamed(calls')
    BY <1>1, <2>1, PopKeepsNamed
  <2>4. status' = "validated" => calls' = <<>> /\ ast' # <<>>
    BY <2>1, PoppedCall DEF DefRefInv, Visited
  <2> QED
    BY <2>2, <2>3, <2>4 DEF VisitsKept, VisitsInv
<1>5. ASSUME NEW k \in Conditionals, EndConditional(k) PROVE VisitsInv'
  <2>1. CASE Throw
    BY <2>1, ThrowKeepsVisitsInv
  <2>2. CASE ~Throw
    <3>1. /\ calls # <<>> /\ calls' = Pop(calls) /\ scopes' = scopes
          /\ ast' = Visited(EndOf(k), NoText, 0, <<>>)
          /\ current_scope' = current_scope /\ status' # "validated"
      BY <1>5, <2>2 DEF EndConditional, InCall
    <3>2. EndOf(k) \in {"IF_END", "LOOP_END"}
      BY DEF EndOf, Conditionals
    <3>3. EndOf(k) \in Visits \ ({"BLOCK", "DECL", "ID", "ASSIGN"} \cup ScopedOps)
          /\ EndOf(k) \notin {"BLOCK_END", "GENERATOR_END", "FILTER_END"}
          /\ NoText \in Text /\ <<>> \in Seq(Type)
      BY <3>2 DEF Visits, ScopedOps, Text
    <3>4. VisitsKept
      BY <3>1, <3>3, PlainVisit DEF VisitsKept, VisitsInv
    <3>5. CallsNamed(calls')
      BY <1>1, <3>1, PopKeepsNamed
    <3> QED
      BY <3>1, <3>4, <3>5, StillVisiting
  <2> QED
    BY <2>1, <2>2
<1> QED
  BY <1>2, <1>3, <1>4, <1>5 DEF VisitBlocks

LEMMA StatementsKeepVisitsInv == ASSUME DefRefInv, VisitsInv, VisitStatement PROVE VisitsInv'
<1>1. calls \in Seq(CallRecord) /\ CallsNamed(calls)
  BY DEF DefRefInv, StackOK, VisitsInv
<1>2. CASE Throw
  BY <1>2, ThrowKeepsVisitsInv
<1>3. ASSUME NEW n \in Name, NEW t \in Type, NEW initialized \in BOOLEAN,
             VisitDECL(n, t, initialized), ~Throw
      PROVE  VisitsInv'
  <2>1. /\ calls # <<>> /\ status' # "validated"
        /\ calls' = IF initialized THEN Append(calls, Call("ASSIGN", n)) ELSE calls
    BY <1>3 DEF VisitDECL, InCall
  <2>2. CallsNamed(calls')
    <3>1. "ASSIGN" \in Visits /\ n \in Text
      BY DEF Visits, NodeKinds, Statements, Text
    <3>2. Call("ASSIGN", n) \in CallRecord /\ Call("ASSIGN", n).text = n
      BY <2>1, <3>1, CallIsTyped DEF Call
    <3> QED
      BY <1>1, <2>1, <3>2, PushKeepsNamed
  <2> QED
    BY <1>3, <2>1, <2>2, VisitDECLKeepsVisits, StillVisiting
<1>4. ASSUME NEW k \in Statements \ {"DECL"}, NEW n \in Name \cup {NoText}, BeginStatement(k, n)
      PROVE  VisitsInv'
  <2>1. /\ calls # <<>> /\ status' # "validated" /\ (k = "ASSIGN" => n \in Name)
        /\ calls' = Append(calls, Call(k, n))
        /\ UNCHANGED <<scopes, current_scope>>
        /\ ast' = IF k = "LOOP" THEN Visited("LOOP", NoText, 0, <<>>) ELSE ast
    BY <1>4 DEF BeginStatement, InCall
  <2>2. CallsNamed(calls')
    <3>1. k \in Visits /\ n \in Text
      BY DEF Visits, NodeKinds, Text
    <3>2. Call(k, n) \in CallRecord /\ Call(k, n).text = n /\ Call(k, n).visit = k
      BY <2>1, <3>1, CallIsTyped DEF Call
    <3> QED
      BY <1>1, <2>1, <3>2, PushKeepsNamed
  <2>3. VisitsKept
    <3>1. "LOOP" \in Visits \ ({"BLOCK", "DECL", "ID", "ASSIGN"} \cup ScopedOps)
          /\ NoText \in Text /\ <<>> \in Seq(Type)
      BY DEF Visits, NodeKinds, Statements, Conditionals, ScopedOps, Text
    <3>2. CASE k = "LOOP"
      BY <2>1, <3>1, <3>2, PlainVisit DEF VisitsKept, VisitsInv
    <3>3. CASE k # "LOOP"
      BY <2>1, <3>3, UnchangedVisits
    <3> QED
      BY <3>2, <3>3
  <2> QED
    BY <2>1, <2>2, <2>3, StillVisiting
<1>5. CASE EndASSIGN /\ ~Throw
  <2> DEFINE name  == Top(calls).text
             bound == Resolve(scopes, current_scope, name)
  <2>1. /\ calls # <<>> /\ Top(calls).visit = "ASSIGN" /\ status' # "validated"
        /\ bound # NoScope /\ Len(refs) = Top(calls).base + 1
        /\ ast' = Visited("ASSIGN", name, bound, <<Top(refs)>>)
        /\ calls' = Pop(calls)
        /\ UNCHANGED <<scopes, current_scope>>
    BY <1>5 DEF EndASSIGN, InCall
  <2>2. name \in Name /\ CallsNamed(calls')
    BY <1>1, <2>1, PopKeepsNamed
  <2>3. <<Top(refs)>> \in Seq(Type)
    <3>1. Top(calls).base \in Nat
      BY <2>1, Running DEF CallRecord
    <3>2. Len(refs) >= Top(calls).base + 1
      BY <2>1, <3>1
    <3>3. Top(refs) \in Type
      BY <2>1, <3>2, OperandsAreTyped
    <3> QED
      BY <3>3
  <2> HIDE DEF name
  <2>4. VisitsKept
    BY <2>1, <2>2, <2>3, UseVisit DEF VisitsKept, VisitsInv
  <2> QED
    BY <2>1, <2>2, <2>4, StillVisiting
<1>6. CASE EndPRINT
  <2>1. /\ calls # <<>> /\ status' # "validated" /\ Len(refs) = Top(calls).base + 1
        /\ ast' = Visited("PRINT", NoText, 0, <<Top(refs)>>)
        /\ calls' = Pop(calls)
        /\ UNCHANGED <<scopes, current_scope>>
    BY <1>6 DEF EndPRINT, InCall
  <2>2. CallsNamed(calls')
    BY <1>1, <2>1, PopKeepsNamed
  <2>3. <<Top(refs)>> \in Seq(Type)
    <3>1. Top(calls).base \in Nat
      BY <2>1, Running DEF CallRecord
    <3>2. Len(refs) >= Top(calls).base + 1
      BY <2>1, <3>1
    <3>3. Top(refs) \in Type
      BY <2>1, <3>2, OperandsAreTyped
    <3> QED
      BY <3>3
  <2>4. "PRINT" \in Visits \ ({"BLOCK", "DECL", "ID", "ASSIGN"} \cup ScopedOps) /\ NoText \in Text
    BY DEF Visits, NodeKinds, Statements, Conditionals, ScopedOps, Text
  <2>5. VisitsKept
    BY <2>1, <2>3, <2>4, PlainVisit DEF VisitsKept, VisitsInv
  <2> QED
    BY <2>1, <2>2, <2>5, StillVisiting
<1> QED
  BY <1>2, <1>3, <1>4, <1>5, <1>6 DEF VisitStatement

LEMMA EXPRKeepsVisitsInv == ASSUME DefRefInv, VisitsInv, VisitEXPR PROVE VisitsInv'
<1>1. calls \in Seq(CallRecord) /\ CallsNamed(calls)
  BY DEF DefRefInv, StackOK, VisitsInv
<1>2. CASE Throw
  BY <1>2, ThrowKeepsVisitsInv
<1>3. ASSUME NEW text \in Literal, VisitINT(text) PROVE VisitsInv'
  <2>1. /\ calls # <<>> /\ status' # "validated" /\ ast' = Visited("INT", text, 0, <<>>)
        /\ UNCHANGED <<scopes, current_scope, calls>>
    BY <1>3 DEF VisitINT, InExpr, InCall
  <2>2. "INT" \in Visits \ ({"BLOCK", "DECL", "ID", "ASSIGN"} \cup ScopedOps)
        /\ text \in Text /\ <<>> \in Seq(Type)
    BY DEF Visits, NodeKinds, Leaves, ScopedOps, Text
  <2>3. VisitsKept
    BY <2>1, <2>2, PlainVisit DEF VisitsKept, VisitsInv
  <2> QED
    BY <1>1, <2>1, <2>3, StillVisiting
<1>4. ASSUME NEW name \in Name, VisitID(name), ~Throw PROVE VisitsInv'
  <2>1. /\ calls # <<>> /\ status' # "validated" /\ Resolve(scopes, current_scope, name) # NoScope
        /\ ast' = Visited("ID", name, Resolve(scopes, current_scope, name), <<>>)
        /\ UNCHANGED <<scopes, current_scope, calls>>
    BY <1>4 DEF VisitID, InExpr, InCall
  <2>2. <<>> \in Seq(Type)
    OBVIOUS
  <2>3. VisitsKept
    BY <2>1, <2>2, UseVisit DEF VisitsKept, VisitsInv
  <2> QED
    BY <1>1, <2>1, <2>3, StillVisiting
<1>5. ASSUME NEW op \in Ops, VisitOp(op), ~Throw PROVE VisitsInv'
  <2>1. /\ calls # <<>> /\ status' # "validated" /\ Operands >= 2
        /\ ast' = Visited(op, NoText, 0, <<refs[Len(refs) - 1], Top(refs)>>)
        /\ UNCHANGED <<scopes, current_scope, calls>>
    BY <1>5 DEF VisitOp, InExpr, InCall
  <2>2. <<refs[Len(refs) - 1], Top(refs)>> \in Seq(Type)
    <3>1. Len(refs) >= Top(calls).base + 2
      BY <2>1, Running DEF Operands, CallRecord
    <3>2. refs[Len(refs) - 1] \in Type /\ Top(refs) \in Type
      BY <2>1, <3>1, OperandsAreTyped
    <3> QED
      BY <3>2
  <2>3. op \in Visits \ ({"BLOCK", "DECL", "ID", "ASSIGN"} \cup ScopedOps)
        /\ op \notin {"BLOCK_END", "GENERATOR_END", "FILTER_END"} /\ NoText \in Text
    BY DEF Ops, Visits, NodeKinds, ScopedOps, Text
  <2>4. VisitsKept
    BY <2>1, <2>2, <2>3, PlainVisit DEF VisitsKept, VisitsInv
  <2> QED
    BY <1>1, <2>1, <2>4, StillVisiting
<1>6. ASSUME NEW op \in ScopedOps, NEW name \in Name, EnterScoped(op, name), ~Throw
      PROVE  VisitsInv'
  <2> DEFINE c == [Call(op, name) EXCEPT !.scope = Len(NewScope(scopes, current_scope)),
                                         !.base = Len(refs) - 1]
  <2>1. /\ calls # <<>> /\ status' # "validated" /\ calls' = Append(calls, c)
    BY <1>6 DEF EnterScoped, InExpr, InCall
  <2>2. c.visit = op /\ op # "ASSIGN"
    BY DEF Call, ScopedOps
  <2> HIDE DEF c
  <2>3. CallsNamed(calls')
    BY <1>1, <2>1, <2>2 DEF CallsNamed
  <2> QED
    BY <1>6, <2>1, <2>3, EnterScopedKeepsVisits, StillVisiting
<1>7. ASSUME NEW op \in ScopedOps, LeaveScoped(op) PROVE VisitsInv'
  <2>1. /\ calls # <<>> /\ status' # "validated" /\ Len(refs) = Top(calls).base + 1
        /\ ast' = Visited(EndOf(op), Top(calls).text, 0, <<Top(refs)>>)
        /\ current_scope' = scopes[current_scope].enclosing
        /\ calls' = Pop(calls) /\ UNCHANGED scopes
    BY <1>7 DEF LeaveScoped, InCall, GetEnclosingScope
  <2>2. Top(calls).text \in Text /\ <<Top(refs)>> \in Seq(Type)
    <3>1. Top(calls).base \in Nat /\ Top(calls).text \in Text
      BY <2>1, Running DEF CallRecord
    <3>2. Len(refs) >= Top(calls).base + 1
      BY <2>1, <3>1
    <3>3. Top(refs) \in Type
      BY <2>1, <3>2, OperandsAreTyped
    <3> QED
      BY <3>1, <3>3
  <2>3. EndOf(op) \in {"GENERATOR_END", "FILTER_END"}
    BY DEF EndOf, ScopedOps
  <2>4. EndOf(op) \in Visits \ ({"BLOCK", "DECL", "ID", "ASSIGN"} \cup ScopedOps)
    BY <2>3 DEF Visits, ScopedOps
  <2>5. VisitsKept
    BY <2>1, <2>2, <2>3, <2>4, PlainVisit DEF VisitsKept, VisitsInv
  <2>6. CallsNamed(calls')
    BY <1>1, <2>1, PopKeepsNamed
  <2> QED
    BY <2>1, <2>5, <2>6, StillVisiting
<1> QED
  BY <1>2, <1>3, <1>4, <1>5, <1>6, <1>7 DEF VisitEXPR

LEMMA VisitsInvStep ==
    DefRefInv /\ VisitsInv /\ [DefRefNext \/ Returned]_defref_vars => VisitsInv'
<1> SUFFICES ASSUME DefRefInv, VisitsInv, [DefRefNext \/ Returned]_defref_vars PROVE VisitsInv'
  OBVIOUS
<1>1. CASE UNCHANGED defref_vars
  BY <1>1 DEF defref_vars, VisitsInv
<1> QED
  BY <1>1, BlocksKeepVisitsInv, StatementsKeepVisitsInv, EXPRKeepsVisitsInv
     DEF DefRefNext, Returned

LEMMA VisitsInvImplies ==
    ASSUME DefRefInv, VisitsInv PROVE UseAfterDeclaration /\ DeclarationsTakeEffect
<1>1. UseAfterDeclaration
  <2> SUFFICES ASSUME NEW i \in Uses
               PROVE  /\ ast[i].bound \in scopes[ast[i].scope].chain
                      /\ \E j \in DeclaredBy(i) : ast[j].scope = ast[i].bound
                      /\ \A j \in DeclaredBy(i) : ast[j].scope \in scopes[ast[i].bound].chain
    BY DEF UseAfterDeclaration
  <2>1. i \in DOMAIN ast /\ BoundBefore(ast, scopes, i)
    BY DEF Uses, IsUse, VisitsInv, VisitsOK, InnermostThen
  <2>2. PICK j \in DOMAIN ast : j < i /\ Declaring(ast[j], ast[i].text, ast[i].bound)
    BY <2>1 DEF BoundBefore
  <2>3. j \in DeclaredBy(i)
    BY <2>1, <2>2 DEF Declarations, Declaring, IsDeclaration, DeclaredBy, BoundBefore
  <2>4. ASSUME NEW k \in DeclaredBy(i) PROVE ast[k].scope \in scopes[ast[i].bound].chain
    <3>1. /\ k \in DOMAIN ast /\ k < i /\ ast[k].scope \in scopes[ast[i].scope].chain
          /\ Declaring(ast[k], ast[i].text, ast[k].scope)
      BY DEF DeclaredBy, Declarations, Declaring, IsDeclaration
    <3>2. ast[k].scope <= ast[i].bound
      BY <2>1, <3>1 DEF BoundBefore
    <3>3. ast[i].scope \in DOMAIN scopes /\ ChainsNested(scopes)
      BY <2>1 DEF VisitsInv, VisitsOK, DefRefInv, ScopesOK
    <3> QED
      BY <2>1, <3>1, <3>2, <3>3 DEF BoundBefore, ChainsNested
  <2> QED
    BY <2>1, <2>2, <2>3, <2>4 DEF BoundBefore, Declaring
<1>2. DeclarationsTakeEffect
  <2>1. ASSUME NEW i \in Declarations
        PROVE  InItsScope(ast[i], scopes) /\ IsDeclaration(ast[i]) /\ i \in DOMAIN ast
    BY DEF Declarations, IsDeclaration, VisitsInv, VisitsOK, Effective
  <2>2. ASSUME NEW i \in Declarations, NEW j \in Declarations,
               ast[i].scope = ast[j].scope, ast[i].text = ast[j].text
        PROVE  i = j
    BY <2>1, <2>2 DEF VisitsInv, VisitsOK, Unique, Declaring
  <2> QED
    BY <2>1, <2>2 DEF DeclarationsTakeEffect, InItsScope, Declares
<1> QED
  BY <1>1, <1>2

\* A name that DefRef accepts is declared before its use, around it, and bound to the
\* nearest such declaration (Scope.cpp:22-31, AstVisitor.cpp:160-179, 254-258).
THEOREM DefRefUseAfterDeclaration == DefRefSpec => []UseAfterDeclaration
<1>1. DefRefInv /\ VisitsInv => UseAfterDeclaration
  BY VisitsInvImplies
<1> QED
  BY <1>1, DefRefInvInit, DefRefInvStep, VisitsInvInit, VisitsInvStep, PTL DEF DefRefSpec

\* The symbol a declaration's node refers to is the one lookups find: no second
\* declaration gets past the check (AstVisitor.cpp:129-137, Scope.cpp:6).
THEOREM DefRefDeclarationsTakeEffect == DefRefSpec => []DeclarationsTakeEffect
<1>1. DefRefInv /\ VisitsInv => DeclarationsTakeEffect
  BY VisitsInvImplies
<1> QED
  BY <1>1, DefRefInvInit, DefRefInvStep, VisitsInvInit, VisitsInvStep, PTL DEF DefRefSpec

=============================================================================
