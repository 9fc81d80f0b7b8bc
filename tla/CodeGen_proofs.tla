---------------------------- MODULE CodeGen_proofs ----------------------------
(***************************************************************************)
(* CodeGen's walk follows DefRef's.  DefRef's operand types and the        *)
(* constructs it is in are kept in a trace, one element before each visit; *)
(* CodeGen, which repeats the visits, has the stacks of that trace.  It is *)
(* in the same scopes, and it finds storage for a variable exactly when    *)
(* its own lookup and DefRef's agree.                                      *)
(***************************************************************************)
EXTENDS CodeGen, DefRef_proofs

----------------------------------------------------------------------------
(* The trace of DefRef's walk. *)

\* s is the stack "rest" with the elements of "top" on it.
Stacked(s, rest, top) ==
    /\ Len(s) = Len(rest) + Len(top)
    /\ \A k \in 1..Len(rest) : s[k] = rest[k]
    /\ \A k \in 1..Len(top) : s[Len(rest) + k] = top[k]

\* Visits that leave locals in CodeGen's functions, and visits that use them up.
LocalKind == {"IF", "LOOP", "LOOP_BODY", "GENERATOR", "FILTER"}
Opening == {"IF_BODY", "LOOP"} \cup ScopedOps
Closing == {"IF_END", "LOOP_END", "GENERATOR_END", "FILTER_END"}
KindOf(node) == CASE node \in {"IF_BODY", "IF_END"} -> "IF"
                  [] node = "LOOP" -> "LOOP"
                  [] node \in {"LOOP_BODY", "LOOP_END"} -> "LOOP_BODY"
                  [] node \in {"GENERATOR", "GENERATOR_END"} -> "GENERATOR"
                  [] node \in {"FILTER", "FILTER_END"} -> "FILTER"

\* Both stacks before a visit.
Stacks == [refs: Seq(Type), open: Seq(LocalKind)]
NoStacks == [refs |-> <<>>, open |-> <<>>]

\* The operands a visit takes, the one it leaves, what it opens and closes.
Arity(node) == IF node \in Ops THEN 2
               ELSE IF node \in {"IF_BODY", "LOOP_BODY", "ASSIGN", "PRINT", "GENERATOR_END",
                                 "FILTER_END"} \cup ScopedOps THEN 1
               ELSE 0
Consumed(v) == IF v.node = "DECL" THEN <<>> ELSE v.refs
DeclaredBefore(a, i, type) ==
    \E j \in DOMAIN a : /\ j < i /\ Declaring(a[j], a[i].text, a[i].bound)
                        /\ type = DeclaredType(a[j])
Pushed(v, p) ==
    /\ v.node = "INT" => p = <<"int">>
    /\ v.node \in Ops => p = <<Returns(Callee(v.node, v.refs[1], v.refs[2]))>>
    /\ v.node \in {"GENERATOR_END", "FILTER_END"} => p = <<"vector">>
    /\ v.node \notin {"INT", "ID", "GENERATOR_END", "FILTER_END"} \cup Ops => p = <<>>
Opened(node, before, after) ==
    /\ node \in Opening => after = Append(before, KindOf(node))
    /\ node \in Closing => before = Append(after, KindOf(node))
    /\ node = "LOOP_BODY" => \E o \in Seq(LocalKind) : /\ before = Append(o, "LOOP")
                                                       /\ after = Append(o, "LOOP_BODY")
    /\ node \notin Opening \cup Closing \cup {"LOOP_BODY"} => after = before
OutsideExpressions == {"BLOCK", "BLOCK_END", "DECL", "LOOP"}
Branching == {"IF_BODY", "IF_END", "LOOP", "LOOP_BODY", "LOOP_END"}
NoneScoped(open) == \A k \in 1..Len(open) : open[k] \notin ScopedOps
TraceStep(a, i, s, t) ==
    /\ \E rest, p \in Seq(Type) : /\ Stacked(s.refs, rest, Consumed(a[i]))
                                  /\ Stacked(t.refs, rest, p)
                                  /\ Pushed(a[i], p)
                                  /\ a[i].node = "ID" => \E type \in Type :
                                        p = <<type>> /\ DeclaredBefore(a, i, type)
    /\ Len(Consumed(a[i])) = Arity(a[i].node)
    /\ Opened(a[i].node, s.open, t.open)
    /\ a[i].node \in OutsideExpressions => s.refs = <<>>
    /\ a[i].node \in Branching => NoneScoped(s.open)

Walked(a, T) ==
    /\ Len(T) = Len(a) + 1 /\ T[1] = NoStacks
    /\ \A i \in DOMAIN a : TraceStep(a, i, T[i], T[i + 1])
Reaches(a, s) == \E T \in Seq(Stacks) : Walked(a, T) /\ T[Len(a) + 1] = s

----------------------------------------------------------------------------
(* Stacks. *)

LEMMA StackedNone == ASSUME NEW S, NEW s \in Seq(S) PROVE Stacked(s, s, <<>>)
  BY DEF Stacked

LEMMA StackedAppend ==
    ASSUME NEW S, NEW s \in Seq(S), NEW e \in S
    PROVE  Append(s, e) \in Seq(S) /\ Stacked(Append(s, e), s, <<e>>)
  BY DEF Stacked

LEMMA StackedOne ==
    ASSUME NEW S, NEW s \in Seq(S), s # <<>>
    PROVE  Pop(s) \in Seq(S) /\ Stacked(s, Pop(s), <<Top(s)>>)
<1>1. /\ Len(s) \in Nat \ {0} /\ Top(s) = s[Len(s)] /\ Pop(s) \in Seq(S)
      /\ Len(Pop(s)) = Len(s) - 1 /\ \A i \in 1..(Len(s) - 1) : Pop(s)[i] = s[i]
  BY TopAndPop
<1> DEFINE rest == Pop(s)
           top == <<Top(s)>>
<1>2. Len(top) = 1 /\ top[1] = s[Len(s)]
  BY <1>1
<1> HIDE DEF rest, top
<1>3. Stacked(s, rest, top)
  BY <1>1, <1>2 DEF Stacked, rest
<1> QED
  BY <1>1, <1>3 DEF rest, top

LEMMA StackedTwo ==
    ASSUME NEW S, NEW s \in Seq(S), Len(s) >= 2
    PROVE  /\ Pop(Pop(s)) \in Seq(S)
           /\ Stacked(s, Pop(Pop(s)), <<s[Len(s) - 1], Top(s)>>)
<1>0. s # <<>>
  OBVIOUS
<1>1. /\ Len(s) \in Nat /\ Top(s) = s[Len(s)] /\ Pop(s) \in Seq(S)
      /\ Len(Pop(s)) = Len(s) - 1 /\ \A i \in 1..(Len(s) - 1) : Pop(s)[i] = s[i]
  BY <1>0, TopAndPop
<1>2. /\ Pop(Pop(s)) \in Seq(S) /\ Len(Pop(Pop(s))) = Len(s) - 2
      /\ \A i \in 1..(Len(s) - 2) : Pop(Pop(s))[i] = s[i]
  <2>1. Pop(s) # <<>>
    BY <1>1
  <2>2. /\ Pop(Pop(s)) \in Seq(S) /\ Len(Pop(Pop(s))) = Len(Pop(s)) - 1
        /\ \A i \in 1..(Len(Pop(s)) - 1) : Pop(Pop(s))[i] = Pop(s)[i]
    BY <1>1, <2>1, TopAndPop
  <2> QED
    BY <1>1, <2>2
<1> DEFINE rest == Pop(Pop(s))
           top == <<s[Len(s) - 1], Top(s)>>
<1>3. Len(top) = 2 /\ top[1] = s[Len(s) - 1] /\ top[2] = s[Len(s)]
  BY <1>1
<1> HIDE DEF rest, top
<1>4. \A k \in 1..Len(top) : s[Len(rest) + k] = top[k]
  <2> SUFFICES ASSUME NEW k \in {1, 2} PROVE s[Len(rest) + k] = top[k]
    BY <1>3
  <2> QED
    BY <1>1, <1>2, <1>3 DEF rest
<1>5. Stacked(s, rest, top)
  BY <1>1, <1>2, <1>3, <1>4 DEF Stacked, rest
<1> QED
  BY <1>2, <1>5 DEF rest, top

----------------------------------------------------------------------------
(* One more visit. *)

LEMMA StepInLongerWalk ==
    ASSUME NEW a, NEW b, NEW i \in DOMAIN a, NEW s, NEW t, TraceStep(a, i, s, t),
           DOMAIN a \subseteq DOMAIN b, \A j \in DOMAIN a : b[j] = a[j]
    PROVE  TraceStep(b, i, s, t)
<1>1. b[i] = a[i]
  OBVIOUS
<1>2. \A type : DeclaredBefore(a, i, type) => DeclaredBefore(b, i, type)
  BY <1>1 DEF DeclaredBefore
<1> QED
  BY <1>1, <1>2 DEF TraceStep

LEMMA NextReached ==
    ASSUME NEW a \in Seq(Visit), NEW v \in Visit, NEW s \in Stacks, NEW t \in Stacks,
           Reaches(a, s), TraceStep(Append(a, v), Len(a) + 1, s, t)
    PROVE  Reaches(Append(a, v), t)
<1>1. PICK T \in Seq(Stacks) : Walked(a, T) /\ T[Len(a) + 1] = s
  BY DEF Reaches
<1> DEFINE new == Append(a, v)
           U == Append(T, t)
           n == Len(a) + 1
<1>2. /\ Len(new) = n /\ DOMAIN new = DOMAIN a \cup {n} /\ n \notin DOMAIN a
      /\ DOMAIN a = 1..Len(a) /\ Len(a) \in Nat
      /\ \A i \in DOMAIN a : new[i] = a[i]
  BY AppendedVisit
<1>3. /\ U \in Seq(Stacks) /\ Len(U) = n + 1 /\ U[n + 1] = t /\ Len(T) = n
      /\ \A i \in 1..n : U[i] = T[i]
  BY <1>1, <1>2 DEF Walked
<1>4. TraceStep(new, n, s, t)
  OBVIOUS
<1> HIDE DEF new, U
<1>5. ASSUME NEW i \in DOMAIN new PROVE TraceStep(new, i, U[i], U[i + 1])
  <2>1. CASE i \in DOMAIN a
    <3>1. U[i] = T[i] /\ U[i + 1] = T[i + 1]
      BY <1>2, <1>3, <2>1
    <3>2. TraceStep(a, i, T[i], T[i + 1])
      BY <1>1, <2>1 DEF Walked
    <3>3. TraceStep(new, i, T[i], T[i + 1])
      BY <1>2, <2>1, <3>2, StepInLongerWalk
    <3> QED
      BY <3>1, <3>3
  <2>2. CASE i = n
    <3>1. U[n] = s /\ U[n + 1] = t
      BY <1>1, <1>2, <1>3
    <3> QED
      BY <1>4, <2>2, <3>1
  <2> QED
    BY <1>2, <2>1, <2>2
<1>6. Walked(new, U)
  <2>1. U[1] = T[1]
    BY <1>2, <1>3
  <2> QED
    BY <1>1, <1>2, <1>3, <1>5, <2>1 DEF Walked
<1> QED
  BY <1>2, <1>3, <1>6 DEF Reaches, new

----------------------------------------------------------------------------
(* The constructs that are open are those of the calls that are running. *)

NeedsLocal(c) == c.visit \in {"IF_BODY", "LOOP", "LOOP_BODY"} \cup ScopedOps
CallKind(c) == IF c.visit = "IF_BODY" THEN "IF" ELSE c.visit

\* "depth" counts the locals of the first calls.
LocalsOf(cs, open, depth) ==
    /\ depth \in [0..Len(cs) -> Nat]
    /\ depth[0] = 0 /\ depth[Len(cs)] = Len(open)
    /\ \A i \in 1..Len(cs) : depth[i] = depth[i - 1] + (IF NeedsLocal(cs[i]) THEN 1 ELSE 0)
    /\ \A i, j \in 0..Len(cs) : i <= j => depth[i] <= depth[j]
    /\ \A i \in 1..Len(cs) : NeedsLocal(cs[i]) => open[depth[i]] = CallKind(cs[i])
    /\ \A k \in 1..Len(open) : \E i \in 1..Len(cs) : NeedsLocal(cs[i]) /\ depth[i] = k
Localized(cs, open) == \E depth : LocalsOf(cs, open, depth)

LEMMA LocalizedPush ==
    ASSUME NEW cs \in Seq(CallRecord), NEW open \in Seq(LocalKind), Localized(cs, open),
           NEW c \in CallRecord
    PROVE  /\ ~NeedsLocal(c) => Localized(Append(cs, c), open)
           /\ NeedsLocal(c) => CallKind(c) \in LocalKind
                               /\ Localized(Append(cs, c), Append(open, CallKind(c)))
<1>1. PICK depth : LocalsOf(cs, open, depth)
  BY DEF Localized
<1> DEFINE new == Append(cs, c)
           n == Len(cs)
           one == IF NeedsLocal(c) THEN 1 ELSE 0
           d == [i \in 0..(n + 1) |-> IF i = n + 1 THEN depth[n] + one ELSE depth[i]]
           grown == IF NeedsLocal(c) THEN Append(open, CallKind(c)) ELSE open
<1>2. NeedsLocal(c) => CallKind(c) \in LocalKind
  BY DEF NeedsLocal, CallKind, LocalKind, ScopedOps
<1>3. /\ n \in Nat /\ Len(new) = n + 1 /\ new[n + 1] = c
      /\ \A i \in 1..n : new[i] = cs[i]
  OBVIOUS
<1>4. /\ depth \in [0..n -> Nat] /\ depth[0] = 0 /\ depth[n] = Len(open) /\ Len(open) \in Nat
      /\ \A i \in 1..n : depth[i] = depth[i - 1] + (IF NeedsLocal(cs[i]) THEN 1 ELSE 0)
      /\ \A i, j \in 0..n : i <= j => depth[i] <= depth[j]
      /\ \A i \in 1..n : NeedsLocal(cs[i]) => open[depth[i]] = CallKind(cs[i])
      /\ \A k \in 1..Len(open) : \E i \in 1..n : NeedsLocal(cs[i]) /\ depth[i] = k
  BY <1>1 DEF LocalsOf
<1>5. one \in {0, 1} /\ one = IF NeedsLocal(c) THEN 1 ELSE 0
  OBVIOUS
<1>6. /\ Len(grown) = Len(open) + one
      /\ \A k \in 1..Len(open) : grown[k] = open[k]
      /\ NeedsLocal(c) => grown[Len(open) + 1] = CallKind(c)
  BY <1>2
<1>7. /\ d \in [0..(n + 1) -> Nat]
      /\ d[n + 1] = depth[n] + one
      /\ \A i \in 0..n : d[i] = depth[i]
  BY <1>3, <1>4, <1>5
<1> HIDE DEF new, n, one, d, grown
<1>8. \A i \in 1..(n + 1) : d[i] = d[i - 1] + (IF NeedsLocal(new[i]) THEN 1 ELSE 0)
  <2> SUFFICES ASSUME NEW i \in 1..(n + 1)
               PROVE  d[i] = d[i - 1] + (IF NeedsLocal(new[i]) THEN 1 ELSE 0)
    OBVIOUS
  <2>1. CASE i \in 1..n
    <3>1. i - 1 \in 0..n /\ i \in 0..n
      BY <1>3, <2>1
    <3> QED
      BY <1>3, <1>4, <1>7, <2>1, <3>1
  <2>2. CASE i = n + 1
    BY <1>3, <1>5, <1>7, <2>2
  <2> QED
    BY <1>3, <2>1, <2>2
<1>9. \A i, j \in 0..(n + 1) : i <= j => d[i] <= d[j]
  <2> SUFFICES ASSUME NEW i \in 0..(n + 1), NEW j \in 0..(n + 1), i <= j PROVE d[i] <= d[j]
    OBVIOUS
  <2>1. CASE j \in 0..n
    <3>1. i \in 0..n
      BY <1>3, <2>1
    <3> QED
      BY <1>4, <1>7, <2>1, <3>1
  <2>2. CASE j = n + 1 /\ i \in 0..n
    <3>1. depth[i] <= depth[n] /\ depth[n] \in Nat /\ depth[i] \in Nat
      BY <1>3, <1>4, <2>2
    <3> QED
      BY <1>5, <1>7, <2>2, <3>1
  <2>3. CASE i = n + 1
    <3>1. i = j /\ d[i] \in Nat
      BY <1>3, <1>7, <2>3
    <3> QED
      BY <3>1
  <2> QED
    BY <1>3, <2>1, <2>2, <2>3
<1>10. \A i \in 1..(n + 1) : NeedsLocal(new[i]) => grown[d[i]] = CallKind(new[i])
  <2> SUFFICES ASSUME NEW i \in 1..(n + 1), NeedsLocal(new[i])
               PROVE  grown[d[i]] = CallKind(new[i])
    OBVIOUS
  <2>1. CASE i \in 1..n
    <3>1. depth[i] \in 1..Len(open)
      <4>1. i - 1 \in 0..n /\ i \in 0..n /\ n \in 0..n /\ i <= n
        BY <1>3, <2>1
      <4>2. depth[i] = depth[i - 1] + 1
        BY <1>3, <1>4, <2>1
      <4>3. depth[i] <= depth[n] /\ depth[i - 1] \in Nat /\ depth[i] \in Nat
        BY <1>4, <4>1
      <4> QED
        BY <1>4, <4>2, <4>3
    <3>2. i \in 0..n /\ new[i] = cs[i]
      BY <1>3, <2>1
    <3> QED
      BY <1>4, <1>6, <1>7, <2>1, <3>1, <3>2, SMTT(30)
  <2>2. CASE i = n + 1
    BY <1>3, <1>4, <1>5, <1>6, <1>7, <2>2
  <2> QED
    BY <1>3, <2>1, <2>2
<1>11. d[0] = 0 /\ d[n + 1] = Len(grown)
  BY <1>3, <1>4, <1>6, <1>7
<1>12. \A k \in 1..Len(grown) : \E i \in 1..(n + 1) : NeedsLocal(new[i]) /\ d[i] = k
  <2> SUFFICES ASSUME NEW k \in 1..Len(grown)
               PROVE  \E i \in 1..(n + 1) : NeedsLocal(new[i]) /\ d[i] = k
    OBVIOUS
  <2>1. CASE k \in 1..Len(open)
    <3>1. PICK i \in 1..n : NeedsLocal(cs[i]) /\ depth[i] = k
      BY <1>4, <2>1
    <3>2. i \in 1..(n + 1) /\ i \in 0..n
      BY <1>3
    <3> QED
      BY <1>3, <1>7, <3>1, <3>2
  <2>2. CASE k \notin 1..Len(open)
    <3>1. one = 1 /\ k = Len(open) + 1
      BY <1>4, <1>5, <1>6, <2>2
    <3>2. n + 1 \in 1..(n + 1) /\ d[n + 1] = k /\ NeedsLocal(new[n + 1])
      BY <1>3, <1>4, <1>5, <1>7, <3>1
    <3> QED
      BY <3>2
  <2> QED
    BY <2>1, <2>2
<1>13. LocalsOf(new, grown, d)
  BY <1>3, <1>7, <1>8, <1>9, <1>10, <1>11, <1>12 DEF LocalsOf
<1>14. Localized(new, grown)
  BY <1>13 DEF Localized
<1> QED
  BY <1>2, <1>14 DEF new, grown

LEMMA LocalizedPop ==
    ASSUME NEW cs \in Seq(CallRecord), NEW open \in Seq(LocalKind), Localized(cs, open), cs # <<>>
    PROVE  /\ ~NeedsLocal(Top(cs)) => Localized(Pop(cs), open)
           /\ NeedsLocal(Top(cs)) => \E rest \in Seq(LocalKind) :
                                        /\ open = Append(rest, CallKind(Top(cs)))
                                        /\ Localized(Pop(cs), rest)
<1>1. PICK depth : LocalsOf(cs, open, depth)
  BY DEF Localized
<1> DEFINE new == Pop(cs)
           n == Len(cs) - 1
           d == [i \in 0..n |-> depth[i]]
           rest == IF NeedsLocal(Top(cs)) THEN Pop(open) ELSE open
<1>2. /\ n \in Nat /\ Len(cs) = n + 1 /\ Len(new) = n /\ Top(cs) = cs[n + 1]
      /\ \A i \in 1..n : new[i] = cs[i]
  BY TopAndPop
<1>3. /\ depth \in [0..(n + 1) -> Nat] /\ depth[0] = 0 /\ depth[n + 1] = Len(open)
      /\ \A i \in 1..(n + 1) : depth[i] = depth[i - 1] + (IF NeedsLocal(cs[i]) THEN 1 ELSE 0)
      /\ \A i, j \in 0..(n + 1) : i <= j => depth[i] <= depth[j]
      /\ \A i \in 1..(n + 1) : NeedsLocal(cs[i]) => open[depth[i]] = CallKind(cs[i])
      /\ \A k \in 1..Len(open) : \E i \in 1..(n + 1) : NeedsLocal(cs[i]) /\ depth[i] = k
  BY <1>1, <1>2 DEF LocalsOf
<1>4. /\ d \in [0..n -> Nat] /\ \A i \in 0..n : d[i] = depth[i]
  BY <1>2, <1>3
<1>5. depth[n + 1] = depth[n] + (IF NeedsLocal(Top(cs)) THEN 1 ELSE 0) /\ depth[n] \in Nat
  <2>1. n + 1 \in 1..(n + 1) /\ (n + 1) - 1 = n /\ n \in 0..(n + 1)
    BY <1>2
  <2> QED
    BY <1>2, <1>3, <2>1
<1>6. /\ rest \in Seq(LocalKind) /\ Len(rest) = depth[n]
      /\ \A k \in 1..Len(rest) : rest[k] = open[k]
      /\ NeedsLocal(Top(cs)) => open = Append(rest, CallKind(Top(cs)))
  <2>0. depth[n + 1] = Len(open) /\ n \in Nat
    BY <1>2, <1>3
  <2> HIDE DEF n
  <2>1. CASE ~NeedsLocal(Top(cs))
    BY <1>5, <2>0, <2>1
  <2>2. CASE NeedsLocal(Top(cs))
    <3>1. Len(open) = depth[n] + 1 /\ open # <<>>
      BY <1>5, <2>0, <2>2
    <3>2. /\ Pop(open) \in Seq(LocalKind) /\ Len(Pop(open)) = Len(open) - 1
          /\ \A i \in 1..(Len(open) - 1) : Pop(open)[i] = open[i]
          /\ open[Len(open)] \in LocalKind
      BY <3>1, TopAndPop
    <3>3. open[Len(open)] = CallKind(Top(cs))
      <4>1. n + 1 \in 1..(n + 1)
        BY <1>2
      <4> QED
        BY <1>2, <1>3, <2>2, <4>1
    <3>4. open = Append(Pop(open), CallKind(Top(cs)))
      <4> DEFINE last == CallKind(Top(cs))
      <4>1. last \in LocalKind
        BY <3>2, <3>3
      <4> HIDE DEF last
      <4>2. \A s \in Seq(LocalKind) : Len(s) = Len(open) - 1 /\ (\A i \in 1..(Len(open) - 1) : s[i] = open[i])
               /\ open[Len(open)] = last => open = Append(s, last)
        BY <3>1, <4>1
      <4> QED
        BY <3>2, <3>3, <4>2 DEF last
    <3> QED
      BY <1>5, <2>2, <3>1, <3>2, <3>4
  <2> QED
    BY <2>1, <2>2
<1> HIDE DEF new, n, d, rest
<1>7. \A i \in 1..n : d[i] = d[i - 1] + (IF NeedsLocal(new[i]) THEN 1 ELSE 0)
  <2> SUFFICES ASSUME NEW i \in 1..n
               PROVE  d[i] = d[i - 1] + (IF NeedsLocal(new[i]) THEN 1 ELSE 0)
    OBVIOUS
  <2>1. i - 1 \in 0..n /\ i \in 0..n /\ i \in 1..(n + 1)
    BY <1>2
  <2> QED
    BY <1>2, <1>3, <1>4, <2>1, SMTT(30)
<1>8. \A i, j \in 0..n : i <= j => d[i] <= d[j]
  <2>1. 0..n \subseteq 0..(n + 1)
    BY <1>2
  <2> QED
    BY <1>3, <1>4, <2>1
<1>9. \A i \in 1..n : NeedsLocal(new[i]) => rest[d[i]] = CallKind(new[i])
  <2> SUFFICES ASSUME NEW i \in 1..n, NeedsLocal(new[i]) PROVE rest[d[i]] = CallKind(new[i])
    OBVIOUS
  <2>1. i - 1 \in 0..n /\ i \in 0..n /\ i \in 1..(n + 1) /\ n \in 0..n /\ i <= n
    BY <1>2
  <2>2. d[i] = d[i - 1] + 1 /\ d[i - 1] \in Nat /\ d[i] <= d[n]
    BY <1>4, <1>7, <1>8, <2>1
  <2>3. d[i] \in 1..Len(rest)
    BY <1>4, <1>6, <2>1, <2>2
  <2>4. open[depth[i]] = CallKind(cs[i])
    BY <1>2, <1>3, <2>1
  <2> QED
    BY <1>2, <1>4, <1>6, <2>1, <2>3, <2>4
<1>10. d[0] = 0 /\ d[n] = Len(rest)
  BY <1>2, <1>3, <1>4, <1>6
<1>11. \A k \in 1..Len(rest) : \E i \in 1..n : NeedsLocal(new[i]) /\ d[i] = k
  <2> SUFFICES ASSUME NEW k \in 1..Len(rest) PROVE \E i \in 1..n : NeedsLocal(new[i]) /\ d[i] = k
    OBVIOUS
  <2>1. k \in 1..Len(open) /\ k <= depth[n]
    BY <1>3, <1>5, <1>6
  <2>2. PICK i \in 1..(n + 1) : NeedsLocal(cs[i]) /\ depth[i] = k
    BY <1>3, <2>1
  <2>3. i # n + 1
    BY <1>2, <1>5, <2>1, <2>2
  <2>4. i \in 1..n /\ i \in 0..n
    BY <1>2, <2>3
  <2> QED
    BY <1>2, <1>4, <2>2, <2>4
<1>12. LocalsOf(new, rest, d)
  BY <1>2, <1>4, <1>7, <1>8, <1>9, <1>10, <1>11 DEF LocalsOf
<1>13. Localized(new, rest)
  BY <1>12 DEF Localized
<1> QED
  BY <1>6, <1>13 DEF new, rest

LEMMA NothingOpen ==
    /\ Localized(<<>>, <<>>)
    /\ \A open \in Seq(LocalKind) : Localized(<<>>, open) => open = <<>>
<1>1. LocalsOf(<<>>, <<>>, [i \in {0} |-> 0])
  BY DEF LocalsOf
<1>2. ASSUME NEW open \in Seq(LocalKind), NEW depth, LocalsOf(<<>>, open, depth)
      PROVE  open = <<>>
  BY <1>2 DEF LocalsOf
<1> QED
  BY <1>1, <1>2 DEF Localized

----------------------------------------------------------------------------
(* DefRef's walk. *)

\* Operands are pending only in a call that takes them.  Generators and filters are
\* on top of the statement they are in.
ExprVisits == {"ASSIGN", "PRINT"} \cup Conditionals \cup ScopedOps
BasesOK(cs) ==
    /\ \A i \in 1..Len(cs) :
          IF cs[i].visit \in ScopedOps THEN i # 1 /\ cs[i - 1].visit \in ExprVisits
                                       ELSE cs[i].base = 0
    /\ \A i, j \in 1..Len(cs) : i < j /\ cs[i].visit \in ScopedOps => cs[j].visit \in ScopedOps
NothingPending(cs, r) == cs = <<>> \/ Top(cs).visit \notin ExprVisits => r = <<>>

TraceInv ==
    /\ BasesOK(calls) /\ NothingPending(calls, refs)
    /\ \E open \in Seq(LocalKind) : /\ Localized(calls, open)
                                    /\ Reaches(ast, [refs |-> refs, open |-> open])

LEMMA BasesPush ==
    ASSUME NEW cs \in Seq(CallRecord), BasesOK(cs), NEW c \in CallRecord,
           IF c.visit \in ScopedOps THEN cs # <<>> /\ Top(cs).visit \in ExprVisits
           ELSE c.base = 0 /\ (cs = <<>> \/ Top(cs).visit \notin ScopedOps)
    PROVE  BasesOK(Append(cs, c))
<1> DEFINE new == Append(cs, c)
           n == Len(cs) + 1
<1>1. /\ n \in Nat /\ Len(new) = n /\ new[n] = c /\ Len(cs) = n - 1
      /\ \A i \in 1..(n - 1) : new[i] = cs[i]
      /\ cs # <<>> => n - 1 # 0 /\ Top(cs) = cs[n - 1]
  BY DEF Top
<1> HIDE DEF new, n
<1>2. ASSUME NEW i \in 1..n
      PROVE IF new[i].visit \in ScopedOps THEN i # 1 /\ new[i - 1].visit \in ExprVisits
                                          ELSE new[i].base = 0
  <2>1. CASE i = n
    <3>1. cs # <<>> => n # 1 /\ new[n - 1] = Top(cs)
      BY <1>1
    <3> QED
      BY <1>1, <2>1, <3>1
  <2>2. CASE i \in 1..(n - 1)
    <3>1. i # 1 => i - 1 \in 1..(n - 1)
      BY <1>1, <2>2
    <3> QED
      BY <1>1, <2>2, <3>1 DEF BasesOK
  <2> QED
    BY <1>1, <2>1, <2>2
<1>3. ASSUME NEW i \in 1..n, NEW j \in 1..n, i < j, new[i].visit \in ScopedOps
      PROVE  new[j].visit \in ScopedOps
  <2>1. i \in 1..(n - 1) /\ n - 1 \in 1..(n - 1) /\ cs # <<>> /\ cs[i].visit \in ScopedOps
    BY <1>1, <1>3
  <2>2. CASE j = n
    <3>1. Top(cs).visit \in ScopedOps
      BY <1>1, <2>1 DEF BasesOK
    <3> QED
      BY <1>1, <2>1, <2>2, <3>1
  <2>3. CASE j \in 1..(n - 1)
    BY <1>1, <1>3, <2>1, <2>3 DEF BasesOK
  <2> QED
    BY <1>1, <2>2, <2>3
<1> QED
  BY <1>1, <1>2, <1>3 DEF BasesOK, new

LEMMA BasesPop ==
    ASSUME NEW cs \in Seq(CallRecord), BasesOK(cs), cs # <<>>
    PROVE  /\ BasesOK(Pop(cs))
           /\ IF Top(cs).visit \in ScopedOps
              THEN Pop(cs) # <<>> /\ Top(Pop(cs)).visit \in ExprVisits
              ELSE Top(cs).base = 0 /\ (Pop(cs) = <<>> \/ Top(Pop(cs)).visit \notin ScopedOps)
<1> DEFINE new == Pop(cs)
           n == Len(cs)
<1>1. /\ n \in Nat \ {0} /\ Top(cs) = cs[n] /\ new \in Seq(CallRecord) /\ Len(new) = n - 1
      /\ \A i \in 1..(n - 1) : new[i] = cs[i]
  BY TopAndPop
<1> HIDE DEF new, n
<1>2. n # 1 => new # <<>> /\ Top(new) = cs[n - 1]
  BY <1>1 DEF Top
<1>3. BasesOK(new)
  <2>1. ASSUME NEW i \in 1..(n - 1)
        PROVE IF new[i].visit \in ScopedOps THEN i # 1 /\ new[i - 1].visit \in ExprVisits
                                            ELSE new[i].base = 0
    <3>1. i \in 1..n /\ (i # 1 => i - 1 \in 1..(n - 1))
      BY <1>1
    <3> QED
      BY <1>1, <3>1 DEF BasesOK, n
  <2>2. 1..(n - 1) \subseteq 1..n
    BY <1>1
  <2> QED
    BY <1>1, <2>1, <2>2 DEF BasesOK, n
<1>4. n \in 1..n
  BY <1>1
<1>5. n # 1 => n - 1 \in 1..n /\ n - 1 < n
  BY <1>1
<1>6. n = 1 => new = <<>>
  BY <1>1
<1> QED
  BY <1>1, <1>2, <1>3, <1>4, <1>5, <1>6 DEF BasesOK, new, n

\* In a statement no generator or filter is open.
LEMMA OutsideScoped ==
    ASSUME NEW cs \in Seq(CallRecord), BasesOK(cs), cs # <<>>, Top(cs).visit \notin ScopedOps,
           NEW open \in Seq(LocalKind), Localized(cs, open)
    PROVE  NoneScoped(open)
<1>1. PICK depth : LocalsOf(cs, open, depth)
  BY DEF Localized
<1>2. Len(cs) \in Nat \ {0} /\ Top(cs) = cs[Len(cs)]
  BY TopAndPop
<1> SUFFICES ASSUME NEW k \in 1..Len(open) PROVE open[k] \notin ScopedOps
  BY DEF NoneScoped
<1>3. PICK i \in 1..Len(cs) : NeedsLocal(cs[i]) /\ depth[i] = k
  BY <1>1 DEF LocalsOf
<1>4. open[k] = CallKind(cs[i])
  BY <1>1, <1>3 DEF LocalsOf
<1>5. cs[i].visit \notin ScopedOps
  <2>1. i = Len(cs) \/ i < Len(cs)
    BY <1>2
  <2>2. Len(cs) \in 1..Len(cs)
    BY <1>2
  <2> QED
    BY <1>2, <2>1, <2>2 DEF BasesOK
<1> QED
  BY <1>4, <1>5 DEF CallKind, ScopedOps

LEMMA VisitTraced ==
    ASSUME DefRefInv, calls # <<>>, NEW node \in Visits, NEW text \in Text, NEW bound \in Nat,
           NEW types \in Seq(Type), NEW before \in Seq(LocalKind), NEW after \in Seq(LocalKind),
           NEW left \in Seq(Type), NEW rest \in Seq(Type), NEW p \in Seq(Type),
           NEW v, v = [node |-> node, text |-> text, scope |-> current_scope, bound |-> bound,
                       refs |-> types],
           Reaches(ast, [refs |-> refs, open |-> before]),
           Stacked(refs, rest, IF node = "DECL" THEN <<>> ELSE types), Stacked(left, rest, p),
           node # "DECL" => Len(types) = Arity(node),
           Pushed(v, p),
           node = "ID" => \E type \in Type : p = <<type>> /\ \E j \in DOMAIN ast :
                              Declaring(ast[j], text, bound) /\ type = DeclaredType(ast[j]),
           Opened(node, before, after),
           node \in OutsideExpressions => refs = <<>>,
           node \in Branching => NoneScoped(before)
    PROVE  Reaches(Visited(node, text, bound, types), [refs |-> left, open |-> after])
<1> DEFINE s == [refs |-> refs, open |-> before]
           t == [refs |-> left, open |-> after]
           new == Append(ast, v)
           n == Len(ast) + 1
<1>1. v \in Visit /\ ast \in Seq(Visit) /\ refs \in Seq(Type)
  BY Running DEF Visit, DefRefInv
<1>2. s \in Stacks /\ t \in Stacks
  BY <1>1 DEF Stacks
<1>3. /\ new[n] = v /\ n \in Nat /\ DOMAIN ast \subseteq DOMAIN new
      /\ \A j \in DOMAIN ast : new[j] = ast[j] /\ j < n
  BY <1>1, AppendedVisit
<1>4. /\ v.node = node /\ v.text = text /\ v.bound = bound
      /\ Consumed(v) = IF node = "DECL" THEN <<>> ELSE types
      /\ s.refs = refs /\ s.open = before /\ t.refs = left /\ t.open = after
  BY DEF Consumed
<1>5. Len(Consumed(v)) = Arity(node)
  <2>1. CASE node = "DECL"
    <3>1. Consumed(v) = <<>> /\ Arity("DECL") = 0
      BY <1>4, <2>1 DEF Arity, Ops, ScopedOps
    <3> QED
      BY <2>1, <3>1
  <2> QED
    BY <1>4, <2>1
<1> HIDE DEF s, t, new, n
<1>6. node = "ID" => \E type \in Type : p = <<type>> /\ DeclaredBefore(new, n, type)
  BY <1>3, <1>4 DEF DeclaredBefore
<1>7. TraceStep(new, n, s, t)
  BY <1>3, <1>4, <1>5, <1>6 DEF TraceStep
<1>8. Reaches(new, t)
  BY <1>1, <1>2, <1>7, NextReached DEF new, n, s
<1> QED
  BY <1>8 DEF new, t, Visited

LEMMA BuiltIns ==
    ASSUME DefRefInv, VisitsInv, calls # <<>> PROVE \A t \in Type : GetBuiltInTypeData(t) = t
<1>1. current_scope \in DOMAIN scopes /\ ScopesOK(scopes) /\ TablesOK(scopes)
  BY Running DEF DefRefInv, VisitsInv
<1> QED
  BY <1>1, BuiltInTypeIsItself DEF GetBuiltInTypeData, BuiltInTypeSymbol

\* An operand, or an operation, within an expression.
LEMMA WithinExpression ==
    ASSUME TraceInv, calls # <<>>, InExpr, calls' = calls,
           \A open \in Seq(LocalKind) : Reaches(ast, [refs |-> refs, open |-> open]) =>
                                        Reaches(ast', [refs |-> refs', open |-> open])
    PROVE  TraceInv'
  BY DEF TraceInv, InExpr, InCall, NothingPending, ExprVisits

LEMMA PlainOpened ==
    ASSUME NEW node \in Visits \ (Opening \cup Closing \cup Branching), NEW open
    PROVE  Opened(node, open, open)
  BY DEF Opened, Branching

LEMMA VisitINTKeepsTrace ==
    ASSUME DefRefInv, VisitsInv, TraceInv, NEW text \in Literal, VisitINT(text) PROVE TraceInv'
<1>1. /\ calls # <<>> /\ InExpr /\ calls' = calls /\ ast' = Visited("INT", text, 0, <<>>)
      /\ refs' = Append(refs, "int") /\ refs \in Seq(Type) /\ "int" \in Type
  <2>1. calls # <<>>
    BY DEF VisitINT, InExpr, InCall
  <2>2. "int" \in Type
    BY DEF Type
  <2> QED
    BY <2>1, <2>2, BuiltIns DEF VisitINT, DefRefInv
<1>2. ASSUME NEW open \in Seq(LocalKind), Reaches(ast, [refs |-> refs, open |-> open])
      PROVE  Reaches(ast', [refs |-> refs', open |-> open])
  <2> DEFINE v == [node |-> "INT", text |-> text, scope |-> current_scope, bound |-> 0,
                   refs |-> <<>>]
             node == "INT"
  <2>1. /\ node \in Visits \ (Opening \cup Closing \cup Branching) /\ text \in Text
        /\ node \notin OutsideExpressions \cup {"DECL", "ID"}
        /\ Arity(node) = 0
    BY DEF Visits, NodeKinds, Leaves, Opening, Closing, Branching, ScopedOps, Text, OutsideExpressions,
           Arity, Ops
  <2>2. Stacked(refs, refs, <<>>) /\ Append(refs, "int") \in Seq(Type)
        /\ Stacked(Append(refs, "int"), refs, <<"int">>)
    BY <1>1, StackedNone, StackedAppend
  <2>3. Pushed(v, <<"int">>)
    BY DEF Pushed, Ops
  <2>4. Opened(node, open, open) /\ Len(<<>>) = 0 /\ <<>> \in Seq(Type) /\ <<"int">> \in Seq(Type)
    BY <1>1, <2>1, PlainOpened
  <2>5. v = [node |-> node, text |-> text, scope |-> current_scope, bound |-> 0, refs |-> <<>>]
        /\ Visited("INT", text, 0, <<>>) = Visited(node, text, 0, <<>>)
    OBVIOUS
  <2> HIDE DEF v, node
  <2> QED
    BY <1>1, <1>2, <2>1, <2>2, <2>3, <2>4, <2>5, VisitTraced
<1> QED
  BY <1>1, <1>2, WithinExpression

\* A variable in scope has the type its declaration gave it.
LEMMA ResolvedIsDeclared ==
    ASSUME DefRefInv, VisitsInv, NEW s \in DOMAIN scopes, NEW name \in Name,
           Resolve(scopes, s, name) # NoScope
    PROVE  \E j \in DOMAIN ast :
              /\ Declaring(ast[j], name, Resolve(scopes, s, name))
              /\ ResolvedSymbol(scopes, s, name).type = DeclaredType(ast[j])
<1> DEFINE bound == Resolve(scopes, s, name)
<1>1. bound \in DOMAIN scopes /\ name \in DOMAIN scopes[bound].symbols
  BY ResolveIsHolder DEF DefRefInv
<1> HIDE DEF bound
<1>2. PICK j \in DOMAIN ast : Declaring(ast[j], name, bound)
  BY <1>1 DEF VisitsInv, VisitsOK, Backed
<1>3. scopes[bound].symbols[name] = VarSymbol(DeclaredType(ast[j]))
  BY <1>2 DEF VisitsInv, VisitsOK, Effective, InItsScope, Declaring
<1>4. ResolvedSymbol(scopes, s, name).type = DeclaredType(ast[j])
  BY <1>3 DEF ResolvedSymbol, VarSymbol, bound
<1> QED
  BY <1>2, <1>4 DEF bound

LEMMA VisitIDKeepsTrace ==
    ASSUME DefRefInv, VisitsInv, TraceInv, NEW name \in Name, VisitID(name), ~Throw PROVE TraceInv'
<1> DEFINE bound == Resolve(scopes, current_scope, name)
           type == ResolvedSymbol(scopes, current_scope, name).type
<1>1. /\ calls # <<>> /\ InExpr /\ calls' = calls /\ bound # NoScope
      /\ ast' = Visited("ID", name, bound, <<>>)
      /\ refs' = Append(refs, type) /\ refs \in Seq(Type)
  BY DEF VisitID, InExpr, InCall, DefRefInv
<1>2. /\ type \in Type /\ bound \in Nat
      /\ \E j \in DOMAIN ast : Declaring(ast[j], name, bound) /\ type = DeclaredType(ast[j])
  <2>1. current_scope \in DOMAIN scopes /\ ScopesOK(scopes)
    BY <1>1, Running DEF DefRefInv
  <2> QED
    BY <1>1, <2>1, ResolvedIsDeclared, ResolvedSymbolHasType, ResolveIsHolder
<1> HIDE DEF bound, type
<1>3. ASSUME NEW open \in Seq(LocalKind), Reaches(ast, [refs |-> refs, open |-> open])
      PROVE  Reaches(ast', [refs |-> refs', open |-> open])
  <2> DEFINE v == [node |-> "ID", text |-> name, scope |-> current_scope, bound |-> bound,
                   refs |-> <<>>]
             node == "ID"
  <2>1. /\ node \in Visits \ (Opening \cup Closing \cup Branching) /\ name \in Text
        /\ node \notin OutsideExpressions \cup {"DECL"}
        /\ Arity(node) = 0
    BY DEF Visits, NodeKinds, Leaves, Opening, Closing, Branching, ScopedOps, Text, OutsideExpressions,
           Arity, Ops
  <2>2. Stacked(refs, refs, <<>>) /\ Append(refs, type) \in Seq(Type)
        /\ Stacked(Append(refs, type), refs, <<type>>)
    BY <1>1, <1>2, StackedNone, StackedAppend
  <2>3. Pushed(v, <<type>>)
    BY DEF Pushed, Ops
  <2>4. Opened(node, open, open) /\ Len(<<>>) = 0 /\ <<>> \in Seq(Type) /\ <<type>> \in Seq(Type)
    BY <1>2, <2>1, PlainOpened
  <2>5. v = [node |-> node, text |-> name, scope |-> current_scope, bound |-> bound, refs |-> <<>>]
        /\ Visited("ID", name, bound, <<>>) = Visited(node, name, bound, <<>>)
    OBVIOUS
  <2> HIDE DEF v, node
  <2> QED
    BY <1>1, <1>2, <1>3, <2>1, <2>2, <2>3, <2>4, <2>5, VisitTraced
<1> QED
  BY <1>1, <1>3, WithinExpression

\* The type DefRef gives an operation is the one its callee returns.
LEMMA ReturnsItsType ==
    ASSUME DefRefInv, VisitsInv, calls # <<>>, NEW op \in Ops, NEW l \in Type, NEW r \in Type
    PROVE  OpType(op, l, r) = Returns(Callee(op, l, r)) /\ OpType(op, l, r) \in Type
<1>1. GetBuiltInTypeData("int") = "int" /\ GetBuiltInTypeData("vector") = "vector"
  BY BuiltIns DEF Type
<1>2. l \in {"int", "vector"} /\ r \in {"int", "vector"}
  BY DEF Type
<1>3. CASE op = "ARITH"
  BY <1>1, <1>2, <1>3 DEF OpType, Returns, Callee, Type
<1>4. CASE op = "BOOL"
  BY <1>1, <1>2, <1>4 DEF OpType, Returns, Callee, Type
<1>5. CASE op = "DOTS"
  BY <1>1, <1>2, <1>5 DEF OpType, Returns, Callee, Type
<1>6. CASE op = "INDEX"
  BY <1>1, <1>2, <1>6 DEF OpType, Returns, Callee, Type
<1> QED
  BY <1>3, <1>4, <1>5, <1>6 DEF Ops

LEMMA VisitOpKeepsTrace ==
    ASSUME DefRefInv, VisitsInv, TraceInv, NEW op \in Ops, VisitOp(op), ~Throw PROVE TraceInv'
<1> DEFINE l == refs[Len(refs) - 1]
           r == Top(refs)
           type == Returns(Callee(op, l, r))
           rest == Pop(Pop(refs))
<1>1. /\ calls # <<>> /\ InExpr /\ calls' = calls /\ Operands >= 2
      /\ ast' = Visited(op, NoText, 0, <<l, r>>)
      /\ refs' = Append(rest, OpType(op, l, r)) /\ refs \in Seq(Type)
  BY DEF VisitOp, InExpr, InCall, DefRefInv
<1>2. Len(refs) >= Top(calls).base + 2 /\ Len(refs) >= 2
  BY <1>1, Running DEF Operands, CallRecord
<1>3. /\ l \in Type /\ r \in Type /\ rest \in Seq(Type)
      /\ Stacked(refs, rest, <<l, r>>)
  BY <1>1, <1>2, OperandsAreTyped, StackedTwo
<1>4. OpType(op, l, r) = type /\ type \in Type
  BY <1>1, <1>3, ReturnsItsType
<1> HIDE DEF l, r, rest
<1>5. ASSUME NEW open \in Seq(LocalKind), Reaches(ast, [refs |-> refs, open |-> open])
      PROVE  Reaches(ast', [refs |-> refs', open |-> open])
  <2> DEFINE v == [node |-> op, text |-> NoText, scope |-> current_scope, bound |-> 0,
                   refs |-> <<l, r>>]
  <2>1. /\ op \in Visits \ (Opening \cup Closing \cup Branching) /\ NoText \in Text
        /\ op \notin OutsideExpressions \cup {"DECL", "ID", "INT", "GENERATOR_END", "FILTER_END"}
        /\ Arity(op) = 2
    BY DEF Visits, NodeKinds, Opening, Closing, Branching, ScopedOps, Text, OutsideExpressions, Arity, Ops
  <2>2. v.node = op /\ v.refs = <<l, r>> /\ <<l, r>>[1] = l /\ <<l, r>>[2] = r
        /\ <<l, r>> \in Seq(Type) /\ Len(<<l, r>>) = 2
    BY <1>3
  <2>3. Pushed(v, <<type>>)
    BY <2>1, <2>2 DEF Pushed
  <2> HIDE DEF type
  <2>4. Append(rest, type) \in Seq(Type) /\ Stacked(Append(rest, type), rest, <<type>>)
        /\ <<type>> \in Seq(Type)
    BY <1>3, <1>4, StackedAppend
  <2>5. Opened(op, open, open)
    BY <2>1, PlainOpened
  <2>6. v = [node |-> op, text |-> NoText, scope |-> current_scope, bound |-> 0, refs |-> <<l, r>>]
    OBVIOUS
  <2> HIDE DEF v
  <2> QED
    BY <1>1, <1>3, <1>4, <1>5, <2>1, <2>2, <2>3, <2>4, <2>5, <2>6, VisitTraced
<1> QED
  BY <1>1, <1>5, WithinExpression

LEMMA NoOperandInBlock ==
    ASSUME TraceInv, calls # <<>>, Top(calls).visit \in {"BLOCK", "IF_BODY", "LOOP_BODY"}
    PROVE  refs = <<>>
  BY DEF TraceInv, NothingPending, ExprVisits, Conditionals, ScopedOps

\* A call on an expression without a local of its own begins.
LEMMA PlainCall ==
    ASSUME DefRefInv, TraceInv, calls # <<>>, Top(calls).visit = "BLOCK", refs = <<>>,
           NEW visit \in Visits \ ScopedOps, NEW text \in Text
    PROVE  LET c == Call(visit, text)
           IN  /\ c \in CallRecord /\ c.visit = visit /\ c.base = 0
               /\ BasesOK(Append(calls, c)) /\ NothingPending(Append(calls, c), <<>>)
<1> DEFINE c == Call(visit, text)
<1>1. c \in CallRecord /\ c.visit = visit
  BY CallIsTyped
<1>2. c.base = 0
  BY DEF Call
<1> HIDE DEF c
<1>3. calls \in Seq(CallRecord) /\ BasesOK(calls)
  BY DEF DefRefInv, StackOK, TraceInv
<1>4. BasesOK(Append(calls, c))
  BY <1>1, <1>2, <1>3, BasesPush DEF ScopedOps
<1> QED
  BY <1>1, <1>2, <1>4 DEF NothingPending, c

LEMMA VisitDECLKeepsTrace ==
    ASSUME DefRefInv, VisitsInv, TraceInv, NEW name \in Name, NEW type \in Type,
           NEW initialized \in BOOLEAN, VisitDECL(name, type, initialized), ~Throw
    PROVE  TraceInv'
<1> DEFINE c == Call("ASSIGN", name)
<1>1. /\ calls # <<>> /\ Top(calls).visit = "BLOCK"
      /\ ast' = Visited("DECL", name, current_scope, <<type>>)
      /\ calls' = IF initialized THEN Append(calls, c) ELSE calls
      /\ refs' = refs
  BY DEF VisitDECL, InCall
<1>2. refs = <<>> /\ current_scope \in Nat /\ calls \in Seq(CallRecord) /\ refs \in Seq(Type)
  BY <1>1, NoOperandInBlock, Running DEF DefRefInv
<1>3. PICK open \in Seq(LocalKind) :
         Localized(calls, open) /\ Reaches(ast, [refs |-> refs, open |-> open])
  BY DEF TraceInv
<1>4. /\ c \in CallRecord /\ c.visit = "ASSIGN"
      /\ BasesOK(Append(calls, c)) /\ NothingPending(Append(calls, c), <<>>)
  <2>1. "ASSIGN" \in Visits \ ScopedOps /\ name \in Text
    BY DEF Visits, NodeKinds, Statements, ScopedOps, Text
  <2> QED
    BY <1>1, <1>2, <2>1, PlainCall
<1> HIDE DEF c
<1>5. Reaches(ast', [refs |-> refs', open |-> open])
  <2> DEFINE v == [node |-> "DECL", text |-> name, scope |-> current_scope,
                   bound |-> current_scope, refs |-> <<type>>]
             node == "DECL"
  <2>1. /\ node \in Visits \ (Opening \cup Closing \cup Branching) /\ name \in Text
        /\ node # "ID"
    BY DEF Visits, NodeKinds, Statements, Opening, Closing, Branching, ScopedOps, Text
  <2>2. Stacked(refs, refs, <<>>) /\ <<>> \in Seq(Type) /\ refs \in Seq(Type)
        /\ Stacked(refs, refs, IF node = "DECL" THEN <<>> ELSE <<type>>)
    BY <1>2, StackedNone
  <2>3. Pushed(v, <<>>)
    BY DEF Pushed, Ops
  <2>4. Opened(node, open, open) /\ <<type>> \in Seq(Type)
    BY <2>1, PlainOpened
  <2>5. v = [node |-> node, text |-> name, scope |-> current_scope, bound |-> current_scope,
             refs |-> <<type>>]
        /\ Visited("DECL", name, current_scope, <<type>>) = Visited(node, name, current_scope, <<type>>)
        /\ node = "DECL"
    OBVIOUS
  <2> HIDE DEF v, node
  <2> QED
    BY <1>1, <1>2, <1>3, <2>1, <2>2, <2>3, <2>4, <2>5, VisitTraced
<1>6. BasesOK(calls') /\ NothingPending(calls', refs')
  BY <1>1, <1>2, <1>4 DEF TraceInv, NothingPending
<1>7. Localized(calls', open)
  <2>1. ~NeedsLocal(c)
    BY <1>4 DEF NeedsLocal, ScopedOps
  <2> QED
    BY <1>1, <1>2, <1>3, <1>4, <2>1, LocalizedPush
<1> QED
  BY <1>5, <1>6, <1>7 DEF TraceInv

LEMMA BeginStatementKeepsTrace ==
    ASSUME DefRefInv, VisitsInv, TraceInv, NEW k \in Statements \ {"DECL"},
           NEW n \in Name \cup {NoText}, BeginStatement(k, n)
    PROVE  TraceInv'
<1> DEFINE c == Call(k, n)
<1>1. /\ calls # <<>> /\ Top(calls).visit = "BLOCK" /\ calls' = Append(calls, c) /\ refs' = refs
      /\ ast' = IF k = "LOOP" THEN Visited("LOOP", NoText, 0, <<>>) ELSE ast
  BY DEF BeginStatement, InCall
<1>2. refs = <<>> /\ calls \in Seq(CallRecord) /\ refs \in Seq(Type)
  BY <1>1, NoOperandInBlock, Running DEF DefRefInv
<1>3. PICK open \in Seq(LocalKind) :
         Localized(calls, open) /\ Reaches(ast, [refs |-> refs, open |-> open])
  BY DEF TraceInv
<1>4. /\ c \in CallRecord /\ c.visit = k
      /\ BasesOK(Append(calls, c)) /\ NothingPending(Append(calls, c), <<>>)
  <2>1. k \in Visits \ ScopedOps /\ n \in Text
    BY DEF Visits, NodeKinds, Statements, Conditionals, ScopedOps, Text
  <2> QED
    BY <1>1, <1>2, <2>1, PlainCall
<1> HIDE DEF c
<1>5. CASE k # "LOOP"
  <2>1. ~NeedsLocal(c)
    BY <1>4, <1>5 DEF NeedsLocal, ScopedOps, Statements, Conditionals
  <2>2. Localized(calls', open)
    BY <1>1, <1>2, <1>3, <1>4, <2>1, LocalizedPush
  <2> QED
    BY <1>1, <1>2, <1>3, <1>4, <1>5, <2>2 DEF TraceInv
<1>6. CASE k = "LOOP"
  <2> DEFINE v == [node |-> "LOOP", text |-> NoText, scope |-> current_scope, bound |-> 0,
                   refs |-> <<>>]
             node == "LOOP"
             after == Append(open, "LOOP")
  <2>1. NeedsLocal(c) /\ CallKind(c) = "LOOP"
    BY <1>4, <1>6 DEF NeedsLocal, CallKind
  <2>2. Localized(calls', after) /\ after \in Seq(LocalKind)
    BY <1>1, <1>2, <1>3, <1>4, <2>1, LocalizedPush
  <2>3. node \in Visits /\ NoText \in Text /\ node # "ID" /\ node # "DECL" /\ Arity(node) = 0
    BY DEF Visits, NodeKinds, Statements, Conditionals, Text, Arity, Ops, ScopedOps
  <2>4. Stacked(refs, refs, <<>>) /\ <<>> \in Seq(Type) /\ refs \in Seq(Type) /\ Len(<<>>) = 0
    BY <1>2, StackedNone
  <2>5. Pushed(v, <<>>)
    BY DEF Pushed, Ops
  <2>6. Opened(node, open, after)
    BY DEF Opened, Opening, Closing, ScopedOps, KindOf
  <2>7. v = [node |-> node, text |-> NoText, scope |-> current_scope, bound |-> 0, refs |-> <<>>]
        /\ Visited("LOOP", NoText, 0, <<>>) = Visited(node, NoText, 0, <<>>)
    OBVIOUS
  <2> HIDE DEF v, node, after
  <2>8. NoneScoped(open)
    <3>1. Top(calls).visit \notin ScopedOps /\ BasesOK(calls)
      BY <1>1 DEF ScopedOps, TraceInv
    <3> QED
      BY <1>1, <1>2, <1>3, <3>1, OutsideScoped
  <2>9. Reaches(Visited(node, NoText, 0, <<>>), [refs |-> refs, open |-> after])
    BY <1>1, <1>2, <1>3, <2>2, <2>3, <2>4, <2>5, <2>6, <2>7, <2>8, VisitTraced
  <2> QED
    BY <1>1, <1>2, <1>4, <1>6, <2>2, <2>7, <2>9 DEF TraceInv
<1> QED
  BY <1>5, <1>6

LEMMA OnlyElement ==
    ASSUME NEW S, NEW s \in Seq(S), Len(s) = 1
    PROVE  /\ <<Top(s)>> \in Seq(S) /\ Len(<<Top(s)>>) = 1 /\ Stacked(s, Pop(s), <<Top(s)>>)
           /\ Pop(s) = <<>> /\ Pop(s) \in Seq(S) /\ s # <<>>
<1>1. s # <<>>
  OBVIOUS
<1>2. Top(s) \in S /\ Len(Pop(s)) = 0 /\ Pop(s) \in Seq(S)
  BY <1>1, TopAndPop
<1>3. Pop(s) = <<>> /\ <<Top(s)>> \in Seq(S) /\ Len(<<Top(s)>>) = 1
  BY <1>2
<1> QED
  BY <1>1, <1>2, <1>3, StackedOne

\* The visit of an assignment or a print, when its expression has been visited.
EndsStatement(node, text, bound) ==
    /\ calls # <<>> /\ Top(calls).visit = node /\ Len(refs) = Top(calls).base + 1
    /\ ast' = Visited(node, text, bound, <<Top(refs)>>)
    /\ refs' = Pop(refs) /\ calls' = Pop(calls)

LEMMA EndStatementKeepsTrace ==
    ASSUME DefRefInv, TraceInv, NEW node \in {"ASSIGN", "PRINT"}, NEW text \in Text,
           NEW bound \in Nat, EndsStatement(node, text, bound)
    PROVE  TraceInv'
<1> DEFINE last == <<Top(refs)>>
           rest == Pop(refs)
<1>1. /\ calls # <<>> /\ ast' = Visited(node, text, bound, last) /\ refs' = rest
      /\ calls' = Pop(calls)
  BY DEF EndsStatement
<1>2. calls \in Seq(CallRecord) /\ refs \in Seq(Type)
  BY DEF DefRefInv, StackOK
<1>3. Top(calls).visit \notin ScopedOps /\ ~NeedsLocal(Top(calls))
  BY DEF EndsStatement, ScopedOps, NeedsLocal
<1>4. BasesOK(Pop(calls)) /\ Len(refs) = 1
  <2>1. BasesOK(Pop(calls)) /\ Top(calls).base = 0
    BY <1>1, <1>2, <1>3, BasesPop DEF TraceInv
  <2> QED
    BY <2>1 DEF EndsStatement
<1>5. /\ last \in Seq(Type) /\ Len(last) = 1 /\ Stacked(refs, rest, last)
      /\ rest = <<>> /\ rest \in Seq(Type)
  BY <1>2, <1>4, OnlyElement
<1>6. PICK open \in Seq(LocalKind) :
         Localized(calls, open) /\ Reaches(ast, [refs |-> refs, open |-> open])
  BY DEF TraceInv
<1>7. Localized(Pop(calls), open)
  BY <1>1, <1>2, <1>3, <1>6, LocalizedPop
<1> HIDE DEF last, rest
<1>8. Reaches(ast', [refs |-> refs', open |-> open])
  <2> DEFINE v == [node |-> node, text |-> text, scope |-> current_scope, bound |-> bound,
                   refs |-> last]
  <2>1. /\ node \in Visits \ (Opening \cup Closing \cup Branching)
        /\ node \notin OutsideExpressions \cup {"ID", "DECL"} /\ Arity(node) = 1
    BY DEF Visits, NodeKinds, Statements, Opening, Closing, Branching, ScopedOps, Text, OutsideExpressions,
           Arity, Ops
  <2>2. Stacked(rest, rest, <<>>) /\ <<>> \in Seq(Type)
    BY <1>5, StackedNone
  <2>3. Pushed(v, <<>>)
    BY DEF Pushed, Ops
  <2>4. Opened(node, open, open)
    BY <2>1, PlainOpened
  <2>5. v = [node |-> node, text |-> text, scope |-> current_scope, bound |-> bound,
             refs |-> last]
    OBVIOUS
  <2> HIDE DEF v
  <2> QED
    BY <1>1, <1>5, <1>6, <2>1, <2>2, <2>3, <2>4, <2>5, VisitTraced
<1>9. refs' = <<>>
  BY <1>1, <1>5
<1> QED
  BY <1>1, <1>4, <1>7, <1>8, <1>9 DEF TraceInv, NothingPending

LEMMA StatementsKeepTrace == ASSUME DefRefInv, VisitsInv, TraceInv, VisitStatement PROVE TraceInv'
<1>1. CASE Throw
  BY <1>1 DEF Throw, TraceInv
<1>2. CASE EndASSIGN /\ ~Throw
  <2> DEFINE name == Top(calls).text
             bound == Resolve(scopes, current_scope, name)
  <2>1. EndsStatement("ASSIGN", name, bound) /\ calls # <<>>
    BY <1>2 DEF EndASSIGN, InCall, EndsStatement
  <2>2. name \in Text /\ bound \in Nat
    <3>1. current_scope \in DOMAIN scopes /\ ScopesOK(scopes) /\ Top(calls) \in CallRecord
      BY <2>1, Running DEF DefRefInv
    <3> QED
      BY <3>1, ResolveIsHolder DEF CallRecord
  <2> HIDE DEF name, bound
  <2> QED
    BY <2>1, <2>2, EndStatementKeepsTrace
<1>3. CASE EndPRINT
  <2>1. EndsStatement("PRINT", NoText, 0)
    BY <1>3 DEF EndPRINT, InCall, EndsStatement
  <2>2. NoText \in Text /\ 0 \in Nat
    BY DEF Text
  <2> QED
    BY <2>1, <2>2, EndStatementKeepsTrace
<1> QED
  BY <1>1, <1>2, <1>3, VisitDECLKeepsTrace, BeginStatementKeepsTrace DEF VisitStatement

LEMMA EnterScopedKeepsTrace ==
    ASSUME DefRefInv, VisitsInv, TraceInv, NEW op \in ScopedOps, NEW name \in Name,
           EnterScoped(op, name), ~Throw, VisitsInv', DefRefInv'
    PROVE  TraceInv'
<1> DEFINE n == Len(NewScope(scopes, current_scope))
           c == [Call(op, name) EXCEPT !.scope = n, !.base = Len(refs) - 1]
           v == [node |-> op, text |-> name, scope |-> n, bound |-> n, refs |-> <<"vector">>]
           last == <<"vector">>
           rest == Pop(refs)
<1>1. /\ calls # <<>> /\ Top(calls).visit \in ExprVisits /\ Operands >= 1 /\ Top(refs) = "vector"
      /\ ast' = Append(ast, v) /\ refs' = rest /\ calls' = Append(calls, c)
  BY DEF EnterScoped, InExpr, InCall, ExprVisits
<1>2. /\ calls \in Seq(CallRecord) /\ refs \in Seq(Type) /\ ast \in Seq(Visit)
      /\ calls' \in Seq(CallRecord) /\ ast' \in Seq(Visit)
  BY DEF DefRefInv, StackOK
<1>3. c.visit = op
  BY DEF Call
<1>4. refs # <<>>
  <2>1. Len(refs) >= Top(calls).base + 1 /\ Top(calls).base \in Nat
    BY <1>1, Running DEF Operands, CallRecord
  <2> QED
    BY <1>2, <2>1
<1>5. rest \in Seq(Type) /\ Stacked(refs, rest, last) /\ last \in Seq(Type) /\ Len(last) = 1
  <2>1. Top(refs) \in Type /\ last \in Seq(Type) /\ Len(last) = 1
    BY <1>1, <1>2, <1>4, TopAndPop
  <2>2. Pop(refs) \in Seq(Type) /\ Stacked(refs, Pop(refs), <<Top(refs)>>)
    BY <1>2, <1>4, StackedOne
  <2> QED
    BY <1>1, <2>1, <2>2
<1> HIDE DEF c, v
<1>6. c \in CallRecord /\ v \in Visit
  <2>1. /\ Append(calls, c)[Len(calls) + 1] = c /\ Len(calls) + 1 \in 1..Len(Append(calls, c))
        /\ Append(ast, v)[Len(ast) + 1] = v /\ Len(ast) + 1 \in 1..Len(Append(ast, v))
    BY <1>2
  <2> QED
    BY <1>1, <1>2, <2>1
<1>7. BasesOK(calls') /\ NothingPending(calls', refs')
  <2>1. BasesOK(Append(calls, c))
    BY <1>1, <1>2, <1>3, <1>6, BasesPush DEF TraceInv
  <2>2. Top(Append(calls, c)) = c /\ Append(calls, c) # <<>>
    BY <1>2, <1>6, TopOfAppend
  <2> QED
    BY <1>1, <1>3, <2>1, <2>2 DEF NothingPending, ExprVisits
<1>8. PICK open \in Seq(LocalKind) :
         Localized(calls, open) /\ Reaches(ast, [refs |-> refs, open |-> open])
  BY DEF TraceInv
<1> DEFINE after == Append(open, op)
<1>9. Localized(calls', after) /\ after \in Seq(LocalKind)
  <2>1. NeedsLocal(c) /\ CallKind(c) = op
    BY <1>3 DEF NeedsLocal, CallKind, ScopedOps
  <2> QED
    BY <1>1, <1>2, <1>6, <1>8, <2>1, LocalizedPush
<1> HIDE DEF after
<1>10. Reaches(ast', [refs |-> refs', open |-> after])
  <2> DEFINE s == [refs |-> refs, open |-> open]
             t == [refs |-> rest, open |-> after]
             new == Append(ast, v)
             k == Len(ast) + 1
  <2>1. s \in Stacks /\ t \in Stacks
    BY <1>2, <1>5, <1>9 DEF Stacks
  <2>2. new[k] = v /\ v.node = op /\ Consumed(v) = last
    <3>1. v.node = op /\ Consumed(v) = last
      BY DEF v, Consumed, ScopedOps
    <3> QED
      BY <1>2, <1>6, <3>1, AppendedVisit
  <2>3. Stacked(rest, rest, <<>>) /\ <<>> \in Seq(Type)
    BY <1>5, StackedNone
  <2>4. /\ Pushed(v, <<>>) /\ Arity(op) = 1 /\ op # "ID" /\ op \notin OutsideExpressions
        /\ Opened(op, open, after)
    BY <2>2 DEF Pushed, Arity, Ops, ScopedOps, OutsideExpressions, Opened, Opening, Closing, KindOf,
                after
  <2>5. s.refs = refs /\ t.refs = rest /\ s.open = open /\ t.open = after /\ op \notin Branching
    BY DEF Branching, ScopedOps
  <2> HIDE DEF s, t, new, k
  <2>6. TraceStep(new, k, s, t)
    BY <1>5, <2>2, <2>3, <2>4, <2>5 DEF TraceStep
  <2>7. Reaches(new, t)
    BY <1>2, <1>6, <1>8, <2>1, <2>6, NextReached DEF s, new, k
  <2> QED
    BY <1>1, <2>7 DEF new, t
<1> QED
  BY <1>7, <1>9, <1>10 DEF TraceInv

LEMMA LeaveScopedKeepsTrace ==
    ASSUME DefRefInv, VisitsInv, TraceInv, NEW op \in ScopedOps, LeaveScoped(op) PROVE TraceInv'
<1> DEFINE rest == Pop(refs)
           last == <<Top(refs)>>
           text == Top(calls).text
           node == EndOf(op)
<1>1. /\ calls # <<>> /\ Top(calls).visit = op /\ Len(refs) = Top(calls).base + 1
      /\ ast' = Visited(node, text, 0, last) /\ calls' = Pop(calls)
      /\ refs' = Append(rest, ResolvedSymbol(scopes, scopes[current_scope].enclosing, "vector").type)
  BY DEF LeaveScoped, InCall, GetEnclosingScope
<1>2. calls \in Seq(CallRecord) /\ refs \in Seq(Type) /\ text \in Text /\ Top(calls).base \in Nat
  BY <1>1, Running DEF DefRefInv, CallRecord
<1>3. /\ BasesOK(calls') /\ calls' # <<>> /\ Top(calls').visit \in ExprVisits
      /\ NothingPending(calls', refs')
  BY <1>1, <1>2, BasesPop DEF TraceInv, NothingPending
<1>4. refs' = Append(rest, "vector")
  <2>1. current_scope = Top(calls).scope /\ StackOK(calls, scopes) /\ ScopesOK(scopes)
        /\ TablesOK(scopes)
    BY <1>1, Running DEF DefRefInv, VisitsInv
  <2>2. scopes[current_scope].enclosing = Top(Pop(calls)).scope
    BY <1>1, <1>3, <2>1, PoppedCall DEF Opens
  <2>3. Top(Pop(calls)).scope \in DOMAIN scopes
    BY <1>1, <1>3, <2>1, PoppedCall
  <2>4. "vector" \in Type
    BY DEF Type
  <2>5. ResolvedSymbol(scopes, scopes[current_scope].enclosing, "vector") = BuiltInTypeSymbol("vector")
    BY <2>1, <2>2, <2>3, <2>4, BuiltInTypeIsItself
  <2> QED
    BY <1>1, <2>5 DEF BuiltInTypeSymbol
<1>5. /\ rest \in Seq(Type) /\ last \in Seq(Type) /\ Len(last) = 1 /\ Stacked(refs, rest, last)
      /\ "vector" \in Type
  <2>1. refs # <<>>
    BY <1>1, <1>2
  <2>2. last \in Seq(Type) /\ Len(last) = 1
    <3>1. Top(refs) \in Type
      BY <1>2, <2>1, TopAndPop
    <3> QED
      BY <3>1
  <2>3. Pop(refs) \in Seq(Type) /\ Stacked(refs, Pop(refs), <<Top(refs)>>)
    BY <1>2, <2>1, StackedOne
  <2>4. "vector" \in Type
    BY DEF Type
  <2> QED
    BY <2>2, <2>3, <2>4
<1>6. PICK open \in Seq(LocalKind) :
         Localized(calls, open) /\ Reaches(ast, [refs |-> refs, open |-> open])
  BY DEF TraceInv
<1>7. PICK after \in Seq(LocalKind) : open = Append(after, op) /\ Localized(calls', after)
  <2>1. NeedsLocal(Top(calls)) /\ CallKind(Top(calls)) = op
    BY <1>1 DEF NeedsLocal, CallKind, ScopedOps
  <2> QED
    BY <1>1, <1>2, <1>6, <2>1, LocalizedPop
<1> HIDE DEF rest, last, text, node
<1>8. Reaches(ast', [refs |-> refs', open |-> after])
  <2> DEFINE v == [node |-> node, text |-> text, scope |-> current_scope, bound |-> 0,
                   refs |-> last]
  <2>1. /\ node \in {"GENERATOR_END", "FILTER_END"} /\ node \in Visits
        /\ node \notin OutsideExpressions \cup Branching \cup {"ID", "DECL"} /\ Arity(node) = 1
    BY DEF EndOf, node, Visits, ScopedOps, OutsideExpressions, Branching, Arity, Ops
  <2>2. /\ Append(rest, "vector") \in Seq(Type) /\ <<"vector">> \in Seq(Type)
        /\ Stacked(Append(rest, "vector"), rest, <<"vector">>)
    BY <1>5, StackedAppend
  <2>3. Pushed(v, <<"vector">>)
    BY <2>1 DEF Pushed, Ops
  <2>4. Opened(node, open, after)
    BY <1>7 DEF Opened, Opening, Closing, ScopedOps, KindOf, node, EndOf
  <2>5. v = [node |-> node, text |-> text, scope |-> current_scope, bound |-> 0, refs |-> last]
    OBVIOUS
  <2> HIDE DEF v
  <2> QED
    BY <1>1, <1>2, <1>4, <1>5, <1>6, <2>1, <2>2, <2>3, <2>4, <2>5, VisitTraced
<1> QED
  BY <1>3, <1>7, <1>8 DEF TraceInv

LEMMA EXPRKeepsTrace ==
    ASSUME DefRefInv, VisitsInv, TraceInv, VisitEXPR, DefRefInv', VisitsInv' PROVE TraceInv'
<1>1. CASE Throw
  BY <1>1 DEF Throw, TraceInv
<1> QED
  BY <1>1, VisitINTKeepsTrace, VisitIDKeepsTrace, VisitOpKeepsTrace, EnterScopedKeepsTrace,
     LeaveScopedKeepsTrace DEF VisitEXPR

\* A visit with nothing pending that takes and leaves nothing.
LEMMA IdleVisit ==
    ASSUME NEW a \in Seq(Visit), NEW v \in Visit, v.refs = <<>>,
           v.node \in {"BLOCK", "BLOCK_END", "IF_END", "LOOP_END"},
           NEW before \in Seq(LocalKind), NEW after \in Seq(LocalKind),
           Reaches(a, [refs |-> <<>>, open |-> before]), Opened(v.node, before, after),
           v.node \in Branching => NoneScoped(before)
    PROVE  Reaches(Append(a, v), [refs |-> <<>>, open |-> after])
<1> DEFINE s == [refs |-> <<>>, open |-> before]
           t == [refs |-> <<>>, open |-> after]
           new == Append(a, v)
           n == Len(a) + 1
<1>1. s \in Stacks /\ t \in Stacks
  BY DEF Stacks
<1>2. new[n] = v /\ Consumed(v) = <<>> /\ Len(<<>>) = 0
  BY AppendedVisit DEF Consumed
<1>3. Stacked(<<>>, <<>>, <<>>) /\ <<>> \in Seq(Type)
  BY DEF Stacked
<1>4. Pushed(v, <<>>) /\ Arity(v.node) = 0 /\ v.node # "ID"
  BY DEF Pushed, Arity, Ops, ScopedOps
<1>5. s.refs = <<>> /\ t.refs = <<>> /\ s.open = before /\ t.open = after
  OBVIOUS
<1> HIDE DEF s, t, new, n
<1>6. TraceStep(new, n, s, t)
  BY <1>2, <1>3, <1>4, <1>5 DEF TraceStep
<1> QED
  BY <1>1, <1>6, NextReached DEF s, t, new, n

LEMMA EnterFileKeepsTrace == ASSUME DefRefInv, TraceInv, EnterFile PROVE TraceInv'
<1> DEFINE root == [Call("BLOCK", NoText) EXCEPT !.scope = 1]
           v == [node |-> "BLOCK", text |-> NoText, scope |-> 1, bound |-> 0, refs |-> <<>>]
<1>1. calls = <<>> /\ calls' = <<root>> /\ ast' = Append(ast, v) /\ refs' = refs
  BY DEF EnterFile
<1>2. refs = <<>> /\ ast \in Seq(Visit) /\ BasesOK(<<>>)
  BY <1>1 DEF TraceInv, NothingPending, DefRefInv
<1>3. Localized(<<>>, <<>>) /\ Reaches(ast, [refs |-> <<>>, open |-> <<>>])
  BY <1>1, <1>2, NothingOpen DEF TraceInv
<1>4. root \in CallRecord /\ root.visit = "BLOCK" /\ root.base = 0
  BY <1>2 DEF Call, CallRecord, Visits, Text, Type
<1>5. v \in Visit /\ v.node = "BLOCK" /\ v.refs = <<>>
  BY DEF Visit, Visits, Text
<1> HIDE DEF root, v
<1>6. Append(<<>>, root) = <<root>> /\ <<>> \in Seq(CallRecord) /\ <<>> \in Seq(LocalKind)
  BY <1>4
<1>7. BasesOK(<<root>>)
  BY <1>2, <1>4, <1>6, BasesPush DEF ScopedOps
<1>8. Localized(<<root>>, <<>>)
  <2>1. ~NeedsLocal(root)
    BY <1>4 DEF NeedsLocal, ScopedOps
  <2> QED
    BY <1>3, <1>4, <1>6, <2>1, LocalizedPush
<1>9. Reaches(Append(ast, v), [refs |-> <<>>, open |-> <<>>])
  <2>1. Opened("BLOCK", <<>>, <<>>)
    BY DEF Opened, Opening, Closing, ScopedOps
  <2> QED
    BY <1>2, <1>3, <1>5, <1>6, <2>1, IdleVisit DEF Branching
<1> QED
  BY <1>1, <1>2, <1>6, <1>7, <1>8, <1>9 DEF TraceInv, NothingPending

\* The end of a block, of a conditional.
Ending(visits, node) ==
    /\ calls # <<>> /\ Top(calls).visit \in visits
    /\ ast' = Visited(node, NoText, 0, <<>>) /\ refs' = refs /\ calls' = Pop(calls)

LEMMA EndingKeepsTrace ==
    ASSUME DefRefInv, TraceInv, NEW node,
           \/ node = "BLOCK_END" /\ Ending({"BLOCK"}, node)
           \/ node = "IF_END" /\ Ending({"IF_BODY"}, node)
           \/ node = "LOOP_END" /\ Ending({"LOOP_BODY"}, node)
    PROVE  TraceInv'
<1> DEFINE v == [node |-> node, text |-> NoText, scope |-> current_scope, bound |-> 0,
                 refs |-> <<>>]
<1>1. /\ calls # <<>> /\ ast' = Append(ast, v) /\ refs' = refs /\ calls' = Pop(calls)
      /\ Top(calls).visit \in {"BLOCK", "IF_BODY", "LOOP_BODY"}
  BY DEF Ending, Visited
<1>2. calls \in Seq(CallRecord) /\ refs = <<>> /\ ast \in Seq(Visit) /\ current_scope \in Nat
  BY <1>1, NoOperandInBlock, Running DEF DefRefInv
<1>3. BasesOK(Pop(calls))
  BY <1>1, <1>2, BasesPop DEF TraceInv
<1>4. /\ v \in Visit /\ v.node = node /\ v.refs = <<>>
      /\ node \in {"BLOCK", "BLOCK_END", "IF_END", "LOOP_END"}
  <2>1. node \in {"BLOCK_END", "IF_END", "LOOP_END"}
    OBVIOUS
  <2> QED
    BY <1>2, <2>1 DEF Visit, Visits, Text
<1> HIDE DEF v
<1>5. PICK open \in Seq(LocalKind) :
         Localized(calls, open) /\ Reaches(ast, [refs |-> refs, open |-> open])
  BY DEF TraceInv
<1>6. \E after \in Seq(LocalKind) : Localized(Pop(calls), after) /\ Opened(node, open, after)
  <2>1. CASE node = "BLOCK_END" /\ Ending({"BLOCK"}, node)
    <3>1. ~NeedsLocal(Top(calls))
      BY <2>1 DEF Ending, NeedsLocal, ScopedOps
    <3>2. Localized(Pop(calls), open)
      BY <1>1, <1>2, <1>5, <3>1, LocalizedPop
    <3>3. Opened(node, open, open)
      BY <2>1 DEF Opened, Opening, Closing, ScopedOps
    <3> QED
      BY <3>2, <3>3
  <2>2. CASE node \in {"IF_END", "LOOP_END"} /\ Top(calls).visit \in {"IF_BODY", "LOOP_BODY"}
             /\ KindOf(node) = CallKind(Top(calls))
    <3>1. NeedsLocal(Top(calls))
      BY <2>2 DEF NeedsLocal
    <3>2. PICK after \in Seq(LocalKind) :
             open = Append(after, CallKind(Top(calls))) /\ Localized(Pop(calls), after)
      BY <1>1, <1>2, <1>5, <3>1, LocalizedPop
    <3>3. Opened(node, open, after)
      BY <2>2, <3>2 DEF Opened, Opening, Closing, ScopedOps
    <3> QED
      BY <3>2, <3>3
  <2>3. CASE node = "IF_END" /\ Ending({"IF_BODY"}, node)
    BY <2>2, <2>3 DEF Ending, KindOf, CallKind
  <2>4. CASE node = "LOOP_END" /\ Ending({"LOOP_BODY"}, node)
    BY <2>2, <2>4 DEF Ending, KindOf, CallKind
  <2> QED
    BY <2>1, <2>3, <2>4
<1>7. PICK after \in Seq(LocalKind) : Localized(Pop(calls), after) /\ Opened(node, open, after)
  BY <1>6
<1>8. Reaches(Append(ast, v), [refs |-> <<>>, open |-> after])
  <2>1. Top(calls).visit \notin ScopedOps /\ BasesOK(calls)
    BY <1>1 DEF ScopedOps, TraceInv
  <2>2. NoneScoped(open)
    BY <1>1, <1>2, <1>5, <2>1, OutsideScoped
  <2> QED
    BY <1>2, <1>4, <1>5, <1>7, <2>2, IdleVisit
<1> QED
  BY <1>1, <1>2, <1>3, <1>7, <1>8 DEF TraceInv, NothingPending

LEMMA CallMoved ==
    ASSUME NEW c \in CallRecord, NEW scope \in Nat, NEW base \in Nat
    PROVE  /\ [c EXCEPT !.scope = scope, !.base = base] \in CallRecord
           /\ [c EXCEPT !.scope = scope, !.base = base].visit = c.visit
           /\ [c EXCEPT !.scope = scope, !.base = base].base = base
  BY DEF CallRecord

\* The condition has been visited, the body's block begins: two visits.
LEMMA EnterBodyKeepsTrace ==
    ASSUME DefRefInv, TraceInv, NEW k \in Conditionals, EnterBody(k) PROVE TraceInv'
<1> DEFINE below == Pop(calls)
           rest  == Pop(refs)
           last  == <<Top(refs)>>
           node  == BodyOf(k)
           first == Visited(node, NoText, 0, last)
           v     == [node |-> node, text |-> NoText, scope |-> current_scope, bound |-> 0,
                     refs |-> last]
           w     == [node |-> "BLOCK", text |-> NoText, scope |-> Len(scopes) + 1, bound |-> 0,
                     refs |-> <<>>]
           body  == [Top(calls) EXCEPT !.visit = node, !.type = Top(refs)]
           block == [Call("BLOCK", NoText) EXCEPT !.scope = Len(scopes) + 1, !.base = Len(refs) - 1]
<1>1. /\ calls # <<>> /\ Top(calls).visit = k /\ Len(refs) = Top(calls).base + 1
      /\ ast' = first \o <<w>> /\ refs' = rest /\ calls' = below \o <<body, block>>
  BY DEF EnterBody, InCall
<1>2. /\ calls \in Seq(CallRecord) /\ refs \in Seq(Type) /\ Top(calls) \in CallRecord
      /\ Len(scopes) \in Nat
  BY <1>1, Running DEF DefRefInv
<1>3. /\ below \in Seq(CallRecord) /\ BasesOK(below) /\ Top(calls).base = 0
      /\ below = <<>> \/ Top(below).visit \notin ScopedOps
  <2>1. Top(calls).visit \notin ScopedOps
    BY <1>1 DEF Conditionals, ScopedOps
  <2> QED
    BY <1>1, <1>2, <2>1, BasesPop, TopAndPop DEF TraceInv
<1>4. Len(refs) = 1
  BY <1>1, <1>3
<1>5. /\ last \in Seq(Type) /\ Len(last) = 1 /\ Stacked(refs, rest, last)
      /\ rest = <<>> /\ rest \in Seq(Type) /\ Top(refs) \in Type
  BY <1>2, <1>4, OnlyElement, TopAndPop
<1>6. node \in {"IF_BODY", "LOOP_BODY"} /\ (node = "IF_BODY" <=> k = "IF")
      /\ (node = "LOOP_BODY" <=> k = "LOOP")
  BY DEF BodyOf, Conditionals
<1>7. body \in CallRecord /\ body.visit = node /\ body.base = 0
  <2>1. node \in Visits
    BY <1>6 DEF Visits
  <2> QED
    BY <1>2, <1>3, <1>5, <2>1 DEF CallRecord
<1>8. block \in CallRecord /\ block.visit = "BLOCK" /\ block.base = 0
  <2> DEFINE b == Call("BLOCK", NoText)
  <2>1. b \in CallRecord /\ b.visit = "BLOCK"
    <3>1. "BLOCK" \in Visits /\ NoText \in Text
      BY DEF Visits, Text
    <3> QED
      BY <1>1, <3>1, CallIsTyped
  <2>2. Len(refs) - 1 \in Nat /\ Len(refs) - 1 = 0 /\ Len(scopes) + 1 \in Nat
    BY <1>2, <1>4
  <2> HIDE DEF b
  <2> QED
    BY <2>1, <2>2, CallMoved, ZenonT(40) DEF b
<1>9. w \in Visit /\ w.node = "BLOCK" /\ w.refs = <<>>
  BY <1>2 DEF Visit, Visits, Text
<1>10. first \in Seq(Visit)
  <2>1. node \in Visits /\ NoText \in Text
    BY <1>6 DEF Visits, Text
  <2> QED
    BY <1>1, <1>5, <2>1, VisitedIsTyped
<1> HIDE DEF below, rest, last, node, first, v, w, body, block
<1>11. ast' = Append(first, w) /\ calls' = Append(Append(below, body), block)
       /\ Append(below, body) \in Seq(CallRecord)
  BY <1>1, <1>3, <1>7, <1>8, <1>9, <1>10
<1>12. BasesOK(Append(Append(below, body), block))
  <2>1. BasesOK(Append(below, body))
    BY <1>3, <1>6, <1>7, BasesPush DEF ScopedOps
  <2>2. Top(Append(below, body)).visit \notin ScopedOps
    BY <1>3, <1>6, <1>7, TopOfAppend DEF ScopedOps
  <2>3. block.visit \notin ScopedOps
    BY <1>8 DEF ScopedOps
  <2> QED
    BY <1>8, <1>11, <2>1, <2>2, <2>3, BasesPush
<1>13. NothingPending(calls', refs')
  BY <1>1, <1>5 DEF NothingPending
<1>14. PICK open \in Seq(LocalKind) :
         Localized(calls, open) /\ Reaches(ast, [refs |-> refs, open |-> open])
  BY DEF TraceInv
<1>15. \E o \in Seq(LocalKind) : /\ Localized(below, o)
                                 /\ open = IF k = "IF" THEN o ELSE Append(o, "LOOP")
  <2>1. CASE k = "IF"
    <3>1. ~NeedsLocal(Top(calls))
      BY <1>1, <2>1 DEF NeedsLocal, ScopedOps
    <3> QED
      BY <1>1, <1>2, <1>14, <2>1, <3>1, LocalizedPop DEF below
  <2>2. CASE k = "LOOP"
    <3>1. NeedsLocal(Top(calls)) /\ CallKind(Top(calls)) = "LOOP"
      BY <1>1, <2>2 DEF NeedsLocal, CallKind
    <3> QED
      BY <1>1, <1>2, <1>14, <2>2, <3>1, LocalizedPop DEF below
  <2> QED
    BY <2>1, <2>2 DEF Conditionals
<1>16. PICK o \in Seq(LocalKind) : /\ Localized(below, o)
                                   /\ open = IF k = "IF" THEN o ELSE Append(o, "LOOP")
  BY <1>15
<1> DEFINE kind == IF k = "IF" THEN "IF" ELSE "LOOP_BODY"
           after == Append(o, kind)
<1>17. after \in Seq(LocalKind) /\ Localized(Append(Append(below, body), block), after)
  <2>1. NeedsLocal(body) /\ CallKind(body) = kind /\ ~NeedsLocal(block)
    BY <1>6, <1>7, <1>8 DEF NeedsLocal, CallKind, ScopedOps
  <2>2. kind \in LocalKind
    BY DEF LocalKind
  <2> HIDE DEF kind
  <2>3. Localized(Append(below, body), after) /\ after \in Seq(LocalKind)
    BY <1>3, <1>7, <1>16, <2>1, <2>2, LocalizedPush
  <2> QED
    BY <1>8, <1>11, <2>1, <2>3, LocalizedPush
<1>18. Opened(node, open, after)
  <2>1. CASE k = "IF"
    BY <1>6, <1>16, <2>1 DEF Opened, Opening, Closing, ScopedOps, KindOf
  <2>2. CASE k = "LOOP"
    BY <1>6, <1>16, <2>2 DEF Opened, Opening, Closing, ScopedOps
  <2> QED
    BY <2>1, <2>2 DEF Conditionals
<1> HIDE DEF after
<1>19. NoneScoped(open)
  <2>1. Top(calls).visit \notin ScopedOps /\ BasesOK(calls)
    BY <1>1 DEF ScopedOps, TraceInv, Conditionals
  <2> QED
    BY <1>1, <1>2, <1>14, <2>1, OutsideScoped
<1>20. Reaches(first, [refs |-> rest, open |-> after])
  <2>1. /\ node \in Visits /\ NoText \in Text
        /\ node \notin OutsideExpressions \cup {"ID", "DECL"} /\ Arity(node) = 1
    BY <1>6 DEF Visits, Text, OutsideExpressions, Arity, Ops
  <2>2. Stacked(rest, rest, <<>>) /\ <<>> \in Seq(Type)
    BY <1>5, StackedNone
  <2>3. Pushed(v, <<>>)
    BY <1>6 DEF Pushed, Ops, v
  <2>4. v = [node |-> node, text |-> NoText, scope |-> current_scope, bound |-> 0, refs |-> last]
    BY DEF v
  <2> QED
    BY <1>1, <1>5, <1>14, <1>17, <1>18, <1>19, <2>1, <2>2, <2>3, <2>4, VisitTraced DEF first
<1>21. Reaches(Append(first, w), [refs |-> <<>>, open |-> after])
  <2>1. Opened("BLOCK", after, after)
    BY DEF Opened, Opening, Closing, ScopedOps
  <2> QED
    BY <1>5, <1>9, <1>10, <1>17, <1>20, <2>1, IdleVisit DEF Branching
<1> QED
  BY <1>1, <1>5, <1>11, <1>12, <1>13, <1>17, <1>21 DEF TraceInv

LEMMA BlocksKeepTrace == ASSUME DefRefInv, TraceInv, VisitBlocks PROVE TraceInv'
<1>1. CASE Throw
  BY <1>1 DEF Throw, TraceInv
<1>2. CASE LeaveBlock
  <2>1. Ending({"BLOCK"}, "BLOCK_END")
    BY <1>2 DEF LeaveBlock, InCall, Ending
  <2> QED
    BY <2>1, EndingKeepsTrace
<1>3. ASSUME NEW k \in Conditionals, EndConditional(k), ~Throw PROVE TraceInv'
  <2>1. Ending({BodyOf(k)}, EndOf(k))
    BY <1>3 DEF EndConditional, InCall, Ending
  <2>2. \/ BodyOf(k) = "IF_BODY" /\ EndOf(k) = "IF_END"
        \/ BodyOf(k) = "LOOP_BODY" /\ EndOf(k) = "LOOP_END"
    BY DEF BodyOf, EndOf, Conditionals
  <2> QED
    BY <2>1, <2>2, EndingKeepsTrace
<1> QED
  BY <1>1, <1>2, <1>3, EnterFileKeepsTrace, EnterBodyKeepsTrace DEF VisitBlocks

LEMMA TraceInvInit == DefRefInit => TraceInv
<1> SUFFICES ASSUME DefRefInit PROVE TraceInv
  OBVIOUS
<1>1. ast = <<>> /\ calls = <<>> /\ refs = <<>>
  BY DEF DefRefInit
<1>2. Localized(<<>>, <<>>) /\ <<>> \in Seq(LocalKind)
  BY NothingOpen
<1>3. Reaches(<<>>, NoStacks)
  <2>1. NoStacks \in Stacks
    BY DEF NoStacks, Stacks
  <2> DEFINE T == <<NoStacks>>
             none == <<>>
  <2>2. /\ T \in Seq(Stacks) /\ Len(T) = 1 /\ T[1] = NoStacks
        /\ Len(none) = 0 /\ DOMAIN none = {} /\ Len(none) + 1 = 1
    BY <2>1
  <2> HIDE DEF T, none
  <2>3. Walked(none, T)
    BY <2>2 DEF Walked
  <2>4. Reaches(none, NoStacks)
    BY <2>2, <2>3 DEF Reaches
  <2> QED
    BY <2>4 DEF none
<1>4. BasesOK(<<>>) /\ NothingPending(<<>>, <<>>)
  BY DEF BasesOK, NothingPending
<1> QED
  BY <1>1, <1>2, <1>3, <1>4 DEF TraceInv, NoStacks

LEMMA TraceInvStep ==
    DefRefInv /\ VisitsInv /\ TraceInv /\ [DefRefNext \/ Returned]_defref_vars => TraceInv'
<1> SUFFICES ASSUME DefRefInv, VisitsInv, TraceInv, [DefRefNext \/ Returned]_defref_vars
             PROVE  TraceInv'
  OBVIOUS
<1>1. DefRefInv' /\ VisitsInv'
  BY DefRefInvStep, VisitsInvStep
<1>2. CASE UNCHANGED defref_vars
  BY <1>2 DEF defref_vars, TraceInv
<1> QED
  BY <1>1, <1>2, BlocksKeepTrace, StatementsKeepTrace, EXPRKeepsTrace DEF DefRefNext, Returned

\* When the walk has come to its end nothing is pending and nothing is open.
LEMMA TraceOfWholeWalk ==
    ASSUME TraceInv, calls = <<>> PROVE Reaches(ast, NoStacks)
<1>1. refs = <<>>
  BY DEF TraceInv, NothingPending
<1>2. PICK open \in Seq(LocalKind) :
         Localized(calls, open) /\ Reaches(ast, [refs |-> refs, open |-> open])
  BY DEF TraceInv
<1>3. open = <<>>
  BY <1>2, NothingOpen
<1> QED
  BY <1>1, <1>2, <1>3 DEF NoStacks

----------------------------------------------------------------------------
(* A lookup walks a scope and then what encloses it. *)

Chain(sc, s) == IF s = NoScope THEN {} ELSE sc[s].chain
ChainsOK(sc) == \A s \in DOMAIN sc : sc[s].chain = {s} \cup Chain(sc, sc[s].enclosing)

LEMMA NewScopeKeepsChains ==
    ASSUME NEW sc \in Seq(ScopeRecord), NEW init \in {NoScope} \cup DOMAIN sc, ChainsOK(sc),
           \A s \in DOMAIN sc : sc[s].enclosing \in 0..(s - 1)
    PROVE  ChainsOK(NewScope(sc, init))
<1> DEFINE new == NewScope(sc, init)
           n == Len(sc) + 1
<1>1. /\ DOMAIN new = 1..n /\ \A t \in DOMAIN sc : new[t] = sc[t]
      /\ new[n].enclosing = init /\ new[n].chain = {n} \cup Chain(sc, init)
      /\ DOMAIN sc = 1..(n - 1) /\ n \in Nat
  <2>1. DOMAIN sc = 1..(n - 1) /\ n \in Nat
    OBVIOUS
  <2> QED
    BY <2>1, NewScopeEffect DEF Chain
<1> HIDE DEF new, n
<1>2. \A s \in {NoScope} \cup DOMAIN sc : Chain(new, s) = Chain(sc, s)
  BY <1>1 DEF Chain
<1>3. \A s \in DOMAIN sc : sc[s].enclosing \in {NoScope} \cup DOMAIN sc
  BY <1>1 DEF NoScope
<1>4. ASSUME NEW s \in DOMAIN new PROVE new[s].chain = {s} \cup Chain(new, new[s].enclosing)
  <2>1. CASE s \in DOMAIN sc
    BY <1>1, <1>2, <1>3, <2>1 DEF ChainsOK
  <2>2. CASE s = n
    BY <1>1, <1>2, <2>2
  <2> QED
    BY <1>1, <2>1, <2>2
<1> QED
  BY <1>4 DEF ChainsOK, new

LEMMA DefineKeepsChains ==
    ASSUME NEW sc \in Seq(ScopeRecord), NEW s \in DOMAIN sc, NEW name, NEW sym, ChainsOK(sc),
           \A t \in DOMAIN sc : sc[t].enclosing \in {NoScope} \cup DOMAIN sc
    PROVE  ChainsOK(Define(sc, s, name, sym))
<1> DEFINE new == Define(sc, s, name, sym)
<1>1. /\ DOMAIN new = DOMAIN sc
      /\ \A t \in DOMAIN sc : new[t].chain = sc[t].chain /\ new[t].enclosing = sc[t].enclosing
  <2>1. \A t \in DOMAIN sc : sc[t] \in ScopeRecord
    OBVIOUS
  <2> QED
    BY <2>1 DEF Define, ScopeRecord
<1> HIDE DEF new
<1> QED
  BY <1>1 DEF ChainsOK, Chain, new

LEMMA ChainsStep ==
    ASSUME DefRefInv, ChainsOK(scopes), [DefRefNext \/ Returned]_defref_vars PROVE ChainsOK(scopes')
<1>1. /\ scopes \in Seq(ScopeRecord)
      /\ \A t \in DOMAIN scopes : scopes[t].enclosing \in 0..(t - 1)
      /\ calls # <<>> => current_scope \in DOMAIN scopes
  BY Running DEF DefRefInv, ScopesOK
<1>2. \A t \in DOMAIN scopes : scopes[t].enclosing \in {NoScope} \cup DOMAIN scopes
  BY <1>1 DEF NoScope
<1>3. CASE UNCHANGED scopes
  BY <1>3
<1>4. ASSUME NEW init \in {NoScope} \cup DOMAIN scopes, scopes' = NewScope(scopes, init)
      PROVE  ChainsOK(scopes')
  BY <1>1, <1>4, NewScopeKeepsChains
<1>5. ASSUME NEW init \in {NoScope} \cup DOMAIN scopes
      PROVE  /\ ChainsOK(NewScope(scopes, init))
             /\ NewScope(scopes, init) \in Seq(ScopeRecord)
             /\ Len(NewScope(scopes, init)) \in DOMAIN NewScope(scopes, init)
             /\ \A t \in DOMAIN NewScope(scopes, init) :
                   NewScope(scopes, init)[t].enclosing \in {NoScope} \cup DOMAIN NewScope(scopes, init)
  <2> DEFINE new == NewScope(scopes, init)
             n == Len(scopes) + 1
  <2>1. ChainsOK(new)
    BY <1>1, NewScopeKeepsChains
  <2>2. /\ new \in Seq(ScopeRecord) /\ Len(new) = n /\ DOMAIN new = 1..n
        /\ \A t \in DOMAIN scopes : new[t] = scopes[t]
        /\ new[n].enclosing = init
    BY <1>1, NewScopeEffect
  <2>3. DOMAIN scopes = 1..(n - 1) /\ n \in Nat \ {0}
    BY <1>1
  <2> HIDE DEF new, n
  <2>4. \A t \in DOMAIN new : new[t].enclosing \in {NoScope} \cup DOMAIN new
    BY <1>2, <2>2, <2>3
  <2> QED
    BY <2>1, <2>2, <2>3, <2>4 DEF new
<1>6. ASSUME EnterFile PROVE ChainsOK(scopes')
  <2> DEFINE global == NewScope(scopes, NoScope)
             ints   == Define(global, 1, "int", BuiltInTypeSymbol("int"))
  <2>1. /\ ChainsOK(global) /\ global \in Seq(ScopeRecord) /\ Len(global) \in DOMAIN global
        /\ \A t \in DOMAIN global : global[t].enclosing \in {NoScope} \cup DOMAIN global
    BY <1>5
  <2>2. scopes' = Define(ints, 1, "vector", BuiltInTypeSymbol("vector"))
    BY <1>6 DEF EnterFile
  <2> HIDE DEF global
  <2>3. 1 \in DOMAIN global
    BY <2>1
  <2>4. BuiltInTypeSymbol("int") \in Symbol /\ "int" \in Name \cup Type
    BY DEF BuiltInTypeSymbol, Symbol, Type
  <2>5. ints \in Seq(ScopeRecord) /\ DOMAIN ints = DOMAIN global
        /\ \A t \in DOMAIN global : ints[t].enclosing = global[t].enclosing
    BY <2>1, <2>3, <2>4, DefineEffect
  <2>6. ChainsOK(ints)
    BY <2>1, <2>3, DefineKeepsChains
  <2> HIDE DEF ints
  <2> QED
    BY <2>1, <2>2, <2>3, <2>5, <2>6, DefineKeepsChains
<1>7. ASSUME NEW k \in Conditionals, EnterBody(k) PROVE ChainsOK(scopes')
  BY <1>1, <1>4, <1>7 DEF EnterBody, InCall
<1>8. ASSUME NEW name, NEW type, NEW initialized, VisitDECL(name, type, initialized)
      PROVE  ChainsOK(scopes')
  <2>1. calls # <<>>
    BY <1>8 DEF VisitDECL, InCall
  <2>2. scopes' = scopes \/ scopes' = Define(scopes, current_scope, name,
                                             VarSymbol(GetBuiltInTypeData(type)))
    BY <1>8 DEF VisitDECL, Throw
  <2> QED
    BY <1>1, <1>2, <2>1, <2>2, DefineKeepsChains
<1>9. ASSUME NEW op, NEW name, EnterScoped(op, name) PROVE ChainsOK(scopes')
  <2> DEFINE opened == NewScope(scopes, current_scope)
             sym == VarSymbol(ResolvedSymbol(opened, Len(opened), "int").type)
  <2>1. calls # <<>>
    BY <1>9 DEF EnterScoped, InExpr, InCall
  <2>2. /\ ChainsOK(opened) /\ opened \in Seq(ScopeRecord) /\ Len(opened) \in DOMAIN opened
        /\ \A t \in DOMAIN opened : opened[t].enclosing \in {NoScope} \cup DOMAIN opened
    BY <1>1, <1>5, <2>1
  <2>3. scopes' = scopes \/ scopes' = Define(opened, Len(opened), name, sym)
    BY <1>9 DEF EnterScoped, Throw
  <2> HIDE DEF opened, sym
  <2> QED
    BY <2>2, <2>3, DefineKeepsChains
<1>10. CASE UNCHANGED defref_vars
  BY <1>10 DEF defref_vars
<1>11. CASE VisitBlocks
  <2>1. LeaveBlock => UNCHANGED scopes
    BY DEF LeaveBlock
  <2>2. \A k \in Conditionals : EndConditional(k) => UNCHANGED scopes
    BY DEF EndConditional, Throw
  <2> QED
    BY <1>6, <1>7, <1>11, <2>1, <2>2 DEF VisitBlocks
<1>12. CASE VisitStatement
  <2>1. \A k, n : BeginStatement(k, n) => UNCHANGED scopes
    BY DEF BeginStatement
  <2>2. EndASSIGN \/ EndPRINT => UNCHANGED scopes
    BY DEF EndASSIGN, EndPRINT, Throw
  <2> QED
    BY <1>8, <1>12, <2>1, <2>2 DEF VisitStatement
<1>13. CASE VisitEXPR
  <2>1. \A v : VisitINT(v) => UNCHANGED scopes
    BY DEF VisitINT
  <2>2. \A n : VisitID(n) => UNCHANGED scopes
    BY DEF VisitID, Throw
  <2>3. \A op : VisitOp(op) => UNCHANGED scopes
    BY DEF VisitOp, Throw
  <2>4. \A op : LeaveScoped(op) => UNCHANGED scopes
    BY DEF LeaveScoped
  <2> QED
    BY <1>9, <1>13, <2>1, <2>2, <2>3, <2>4 DEF VisitEXPR
<1> QED
  BY <1>10, <1>11, <1>12, <1>13 DEF DefRefNext, Returned

----------------------------------------------------------------------------
(* The operand types that DefRef accepts. *)

Referred(v) ==
    /\ v.node = "DOTS" => v.refs = <<"int", "int">>
    /\ v.node = "INDEX" => v.refs[1] = "vector"
    /\ v.node \in ScopedOps => v.refs = <<"vector">>

\* A condition's type is looked at when the body has been visited.
Tests == {"IF_BODY", "LOOP_BODY"}
Untested(c) == c.visit \in Tests /\ c.type # "int"
TestsOK(a, cs) ==
    \A i \in DOMAIN a : a[i].node \in Tests /\ a[i].refs # <<"int">> =>
                           \E j \in DOMAIN cs : Untested(cs[j])
RefsInv == (\A i \in DOMAIN ast : Referred(ast[i])) /\ TestsOK(ast, calls)

StillUntested(cs, new) ==
    (\E j \in DOMAIN cs : Untested(cs[j])) => \E j \in DOMAIN new : Untested(new[j])

LEMMA UntestedPush ==
    ASSUME NEW cs \in Seq(CallRecord), NEW c PROVE StillUntested(cs, Append(cs, c))
<1>1. \A j \in DOMAIN cs : j \in DOMAIN Append(cs, c) /\ Append(cs, c)[j] = cs[j]
  OBVIOUS
<1> QED
  BY <1>1 DEF StillUntested

LEMMA UntestedPop ==
    ASSUME NEW cs \in Seq(CallRecord), cs # <<>>, ~Untested(Top(cs)) PROVE StillUntested(cs, Pop(cs))
<1>1. /\ Len(cs) \in Nat \ {0} /\ Top(cs) = cs[Len(cs)] /\ Len(Pop(cs)) = Len(cs) - 1
      /\ Pop(cs) \in Seq(CallRecord) /\ \A i \in 1..(Len(cs) - 1) : Pop(cs)[i] = cs[i]
  BY TopAndPop
<1> SUFFICES ASSUME NEW j \in DOMAIN cs, Untested(cs[j])
             PROVE  \E i \in DOMAIN Pop(cs) : Untested(Pop(cs)[i])
  BY DEF StillUntested
<1>2. j # Len(cs)
  BY <1>1
<1>3. j \in 1..(Len(cs) - 1) /\ j \in DOMAIN Pop(cs)
  BY <1>1, <1>2
<1> QED
  BY <1>1, <1>3

LEMMA VisitKeepsRefs ==
    ASSUME NEW a \in Seq(Visit), \A i \in DOMAIN a : Referred(a[i]), NEW cs, TestsOK(a, cs),
           NEW v, Referred(v), NEW new, StillUntested(cs, new),
           v.node \in Tests /\ v.refs # <<"int">> => \E j \in DOMAIN new : Untested(new[j])
    PROVE  (\A i \in DOMAIN Append(a, v) : Referred(Append(a, v)[i])) /\ TestsOK(Append(a, v), new)
<1> DEFINE b == Append(a, v)
<1>1. /\ DOMAIN b = DOMAIN a \cup {Len(a) + 1} /\ b[Len(a) + 1] = v
      /\ \A i \in DOMAIN a : b[i] = a[i]
  OBVIOUS
<1> HIDE DEF b
<1> QED
  BY <1>1 DEF TestsOK, StillUntested, b

\* A visit that is no condition's.
LEMMA PlainVisitKeepsRefs ==
    ASSUME DefRefInv, RefsInv, NEW v, ast' = Append(ast, v), v.node \notin Tests, Referred(v),
           StillUntested(calls, calls')
    PROVE  RefsInv'
  BY VisitKeepsRefs DEF DefRefInv, RefsInv

LEMMA SameCalls == StillUntested(calls, calls)
  BY DEF StillUntested

LEMMA StatementsKeepRefs == ASSUME DefRefInv, RefsInv, VisitStatement PROVE RefsInv'
<1>0. calls \in Seq(CallRecord)
  BY DEF DefRefInv, StackOK
<1>1. CASE Throw
  BY <1>1 DEF Throw, RefsInv
<1>2. ASSUME NEW name, NEW type, NEW initialized, VisitDECL(name, type, initialized), ~Throw
      PROVE  RefsInv'
  <2> DEFINE v == [node |-> "DECL", text |-> name, scope |-> current_scope,
                   bound |-> current_scope, refs |-> <<type>>]
  <2>1. ast' = Append(ast, v) /\ (calls' = calls \/ calls' = Append(calls, Call("ASSIGN", name)))
    BY <1>2 DEF VisitDECL, Visited
  <2>2. v.node \notin Tests /\ Referred(v)
    BY DEF Tests, Referred, ScopedOps
  <2> HIDE DEF v
  <2> QED
    BY <1>0, <2>1, <2>2, SameCalls, UntestedPush, PlainVisitKeepsRefs
<1>3. ASSUME NEW k \in Statements \ {"DECL"}, NEW n \in Name \cup {NoText}, BeginStatement(k, n)
      PROVE  RefsInv'
  <2> DEFINE v == [node |-> "LOOP", text |-> NoText, scope |-> current_scope, bound |-> 0,
                   refs |-> <<>>]
  <2>1. (ast' = ast \/ ast' = Append(ast, v)) /\ calls' = Append(calls, Call(k, n))
    BY <1>3 DEF BeginStatement, Visited
  <2>2. v.node \notin Tests /\ Referred(v)
    BY DEF Tests, Referred, ScopedOps
  <2> HIDE DEF v
  <2>3. StillUntested(calls, calls')
    BY <1>0, <2>1, UntestedPush
  <2>4. CASE ast' = ast
    BY <2>3, <2>4 DEF RefsInv, TestsOK, StillUntested
  <2> QED
    BY <2>1, <2>2, <2>3, <2>4, PlainVisitKeepsRefs
<1>4. ASSUME NEW node \in {"ASSIGN", "PRINT"}, NEW text, NEW bound, EndsStatement(node, text, bound)
      PROVE  RefsInv'
  <2> DEFINE v == [node |-> node, text |-> text, scope |-> current_scope, bound |-> bound,
                   refs |-> <<Top(refs)>>]
  <2>1. ast' = Append(ast, v) /\ calls' = Pop(calls) /\ calls # <<>> /\ ~Untested(Top(calls))
    BY <1>4 DEF EndsStatement, Visited, Untested, Tests
  <2>2. v.node \notin Tests /\ Referred(v)
    BY DEF Tests, Referred, ScopedOps
  <2> HIDE DEF v
  <2> QED
    BY <1>0, <2>1, <2>2, UntestedPop, PlainVisitKeepsRefs
<1>5. CASE EndASSIGN /\ ~Throw
  BY <1>4, <1>5 DEF EndASSIGN, InCall, EndsStatement
<1>6. CASE EndPRINT
  BY <1>4, <1>6 DEF EndPRINT, InCall, EndsStatement
<1> QED
  BY <1>1, <1>2, <1>3, <1>5, <1>6 DEF VisitStatement

LEMMA EXPRKeepsRefs == ASSUME DefRefInv, RefsInv, VisitEXPR PROVE RefsInv'
<1>0. calls \in Seq(CallRecord)
  BY DEF DefRefInv, StackOK
<1>1. CASE Throw
  BY <1>1 DEF Throw, RefsInv
<1>2. ASSUME NEW node \in {"INT", "ID"}, NEW text, NEW bound,
             ast' = Visited(node, text, bound, <<>>), calls' = calls
      PROVE  RefsInv'
  <2> DEFINE v == [node |-> node, text |-> text, scope |-> current_scope, bound |-> bound,
                   refs |-> <<>>]
  <2>1. ast' = Append(ast, v)
    BY <1>2 DEF Visited
  <2>2. v.node \notin Tests /\ Referred(v)
    BY DEF Tests, Referred, ScopedOps
  <2> HIDE DEF v
  <2> QED
    BY <1>2, <2>1, <2>2, SameCalls, PlainVisitKeepsRefs
<1>3. ASSUME NEW op \in Ops, VisitOp(op), ~Throw PROVE RefsInv'
  <2> DEFINE l == refs[Len(refs) - 1]
             r == Top(refs)
             v == [node |-> op, text |-> NoText, scope |-> current_scope, bound |-> 0,
                   refs |-> <<l, r>>]
  <2>1. ast' = Append(ast, v) /\ calls' = calls /\ OpAccepts(op, l, r)
    BY <1>3 DEF VisitOp, Visited
  <2> HIDE DEF l, r
  <2>2. v.node \notin Tests /\ Referred(v)
    BY <2>1 DEF Tests, Referred, ScopedOps, OpAccepts, Ops
  <2> HIDE DEF v
  <2> QED
    BY <2>1, <2>2, SameCalls, PlainVisitKeepsRefs
<1>4. ASSUME NEW op \in ScopedOps, NEW name, EnterScoped(op, name), ~Throw PROVE RefsInv'
  <2> DEFINE n == Len(NewScope(scopes, current_scope))
             c == [Call(op, name) EXCEPT !.scope = n, !.base = Len(refs) - 1]
             v == [node |-> op, text |-> name, scope |-> n, bound |-> n, refs |-> <<Top(refs)>>]
  <2>1. ast' = Append(ast, v) /\ calls' = Append(calls, c) /\ Top(refs) = "vector"
    BY <1>4 DEF EnterScoped
  <2> HIDE DEF n
  <2>2. v.node \notin Tests /\ Referred(v)
    BY <2>1 DEF Tests, Referred, ScopedOps
  <2> HIDE DEF v, c
  <2> QED
    BY <1>0, <2>1, <2>2, UntestedPush, PlainVisitKeepsRefs
<1>5. ASSUME NEW op \in ScopedOps, LeaveScoped(op) PROVE RefsInv'
  <2> DEFINE v == [node |-> EndOf(op), text |-> Top(calls).text, scope |-> current_scope, bound |-> 0,
                   refs |-> <<Top(refs)>>]
  <2>1. ast' = Append(ast, v) /\ calls' = Pop(calls) /\ calls # <<>> /\ ~Untested(Top(calls))
    BY <1>5 DEF LeaveScoped, Visited, Untested, Tests, InCall, ScopedOps
  <2>2. v.node \notin Tests /\ Referred(v)
    BY DEF Tests, Referred, ScopedOps, EndOf
  <2> HIDE DEF v
  <2> QED
    BY <1>0, <2>1, <2>2, UntestedPop, PlainVisitKeepsRefs
<1>6. \A text : VisitINT(text) => ast' = Visited("INT", text, 0, <<>>) /\ calls' = calls
  BY DEF VisitINT
<1>7. \A name : VisitID(name) /\ ~Throw =>
         \E bound : ast' = Visited("ID", name, bound, <<>>) /\ calls' = calls
  BY DEF VisitID
<1> QED
  BY <1>1, <1>2, <1>3, <1>4, <1>5, <1>6, <1>7 DEF VisitEXPR

LEMMA BlocksKeepRefs == ASSUME DefRefInv, RefsInv, VisitBlocks PROVE RefsInv'
<1>0. calls \in Seq(CallRecord) /\ ast \in Seq(Visit)
  BY DEF DefRefInv, StackOK
<1>1. CASE Throw
  BY <1>1 DEF Throw, RefsInv
<1>2. ASSUME NEW node \in {"BLOCK_END", "IF_END", "LOOP_END"}, ast' = Visited(node, NoText, 0, <<>>),
             calls # <<>>, calls' = Pop(calls), ~Untested(Top(calls))
      PROVE  RefsInv'
  <2> DEFINE v == [node |-> node, text |-> NoText, scope |-> current_scope, bound |-> 0, refs |-> <<>>]
  <2>1. ast' = Append(ast, v)
    BY <1>2 DEF Visited
  <2>2. v.node \notin Tests /\ Referred(v)
    BY DEF Tests, Referred, ScopedOps
  <2> HIDE DEF v
  <2> QED
    BY <1>0, <1>2, <2>1, <2>2, UntestedPop, PlainVisitKeepsRefs
<1>3. CASE LeaveBlock
  <2>1. /\ ast' = Visited("BLOCK_END", NoText, 0, <<>>) /\ calls' = Pop(calls) /\ calls # <<>>
        /\ ~Untested(Top(calls))
    BY <1>3 DEF LeaveBlock, InCall, Untested, Tests
  <2> QED
    BY <1>2, <2>1
<1>4. ASSUME NEW k \in Conditionals, EndConditional(k), ~Throw PROVE RefsInv'
  <2>1. /\ ast' = Visited(EndOf(k), NoText, 0, <<>>) /\ calls' = Pop(calls) /\ calls # <<>>
        /\ ~Untested(Top(calls)) /\ EndOf(k) \in {"BLOCK_END", "IF_END", "LOOP_END"}
    BY <1>4 DEF EndConditional, InCall, Untested, EndOf, Conditionals
  <2> QED
    BY <1>2, <2>1
<1>5. CASE EnterFile
  <2> DEFINE v == [node |-> "BLOCK", text |-> NoText, scope |-> 1, bound |-> 0, refs |-> <<>>]
  <2>1. ast' = Append(ast, v) /\ calls = <<>>
    BY <1>5 DEF EnterFile
  <2>2. v.node \notin Tests /\ Referred(v) /\ StillUntested(calls, calls')
    BY <2>1 DEF Tests, Referred, ScopedOps, StillUntested
  <2> HIDE DEF v
  <2> QED
    BY <2>1, <2>2, PlainVisitKeepsRefs
<1>6. ASSUME NEW k \in Conditionals, EnterBody(k) PROVE RefsInv'
  <2> DEFINE v == [node |-> BodyOf(k), text |-> NoText, scope |-> current_scope, bound |-> 0,
                   refs |-> <<Top(refs)>>]
             w == [node |-> "BLOCK", text |-> NoText, scope |-> Len(scopes) + 1, bound |-> 0,
                   refs |-> <<>>]
             body == [Top(calls) EXCEPT !.visit = BodyOf(k), !.type = Top(refs)]
             block == [Call("BLOCK", NoText) EXCEPT !.scope = Len(scopes) + 1, !.base = Len(refs) - 1]
             below == Pop(calls)
  <2>1. /\ calls # <<>> /\ Top(calls).visit = k
        /\ ast' = Append(ast, v) \o <<w>> /\ calls' = below \o <<body, block>>
    BY <1>6 DEF EnterBody, InCall, Visited
  <2>2. below \in Seq(CallRecord) /\ StillUntested(calls, below) /\ Top(calls) \in CallRecord
    <3>1. ~Untested(Top(calls))
      BY <2>1 DEF Untested, Tests, Conditionals
    <3> QED
      BY <1>0, <2>1, <3>1, UntestedPop, TopAndPop
  <2>3. ast' \in Seq(Visit) /\ calls' \in Seq(CallRecord)
    BY <1>6, EnterBodyKeepsInv DEF DefRefInv, StackOK
  <2>4. Referred(v) /\ Referred(w) /\ w.node \notin Tests /\ v.refs = <<Top(refs)>>
    BY DEF Referred, Tests, ScopedOps, BodyOf
  <2>5. Top(refs) # "int" => Untested(body)
    BY <2>2 DEF Untested, Tests, BodyOf, CallRecord
  <2> HIDE DEF v, w, body, block, below
  <2>6. \A j \in DOMAIN below : j \in DOMAIN calls' /\ calls'[j] = below[j]
    BY <2>1, <2>2, <2>3
  <2>7. calls'[Len(below) + 1] = body /\ Len(below) + 1 \in DOMAIN calls'
    BY <2>1, <2>2, <2>3
  <2>8. StillUntested(calls, calls')
    BY <2>2, <2>6 DEF StillUntested
  <2>9. v.refs # <<"int">> => \E j \in DOMAIN calls' : Untested(calls'[j])
    BY <2>4, <2>5, <2>7
  <2>10. (\A i \in DOMAIN Append(ast, v) : Referred(Append(ast, v)[i])) /\ TestsOK(Append(ast, v), calls')
    BY <1>0, <2>4, <2>8, <2>9, VisitKeepsRefs DEF RefsInv
  <2>11. Append(ast, v) \in Seq(Visit) /\ ast' = Append(Append(ast, v), w)
    <3>1. v \in Visit
      <4>1. v = (Append(ast, v) \o <<w>>)[Len(ast) + 1] /\ Len(ast) + 1 \in 1..Len(Append(ast, v) \o <<w>>)
        BY <1>0
      <4> QED
        BY <2>1, <2>3, <4>1
    <3>2. Append(ast, v) \in Seq(Visit)
      BY <1>0, <3>1
    <3> DEFINE first == Append(ast, v)
    <3> HIDE DEF first
    <3>3. first \in Seq(Visit) => first \o <<w>> = Append(first, w)
      OBVIOUS
    <3> QED
      BY <2>1, <3>2, <3>3 DEF first
  <2>12. StillUntested(calls', calls')
    BY DEF StillUntested
  <2> QED
    BY <2>4, <2>10, <2>11, <2>12, VisitKeepsRefs DEF RefsInv
<1> QED
  BY <1>1, <1>3, <1>4, <1>5, <1>6 DEF VisitBlocks

LEMMA RefsInvStep ==
    ASSUME DefRefInv, RefsInv, [DefRefNext \/ Returned]_defref_vars PROVE RefsInv'
<1>1. CASE UNCHANGED defref_vars
  BY <1>1 DEF defref_vars, RefsInv
<1> QED
  BY <1>1, BlocksKeepRefs, StatementsKeepRefs, EXPRKeepsRefs DEF DefRefNext, Returned

----------------------------------------------------------------------------
(* The nesting of constructs.  A construct that leaves locals in CodeGen's  *)
(* functions is marked with the scope it is in (the one it opens, for a     *)
(* generator or filter) and the operands that were pending below it.        *)

Mark == [scope: Nat, base: Nat, scoped: BOOLEAN]
MarkOf(c) == [scope |-> c.scope, base |-> c.base, scoped |-> c.visit \in ScopedOps]

\* A mark is not above the call.
LowMark(m, c) == /\ m.base <= c.base /\ m.scope <= c.scope
                 /\ c.visit = "BLOCK" => m.scope < c.scope
Below(marks, c) == \A k \in 1..Len(marks) : LowMark(marks[k], c)

\* f gives the marks of the first calls.
MarkedBy(cs, f) ==
    /\ f \in [0..Len(cs) -> Seq(Mark)] /\ f[0] = <<>>
    /\ \A i \in 1..Len(cs) :
          /\ f[i] = IF NeedsLocal(cs[i]) THEN Append(f[i - 1], MarkOf(cs[i])) ELSE f[i - 1]
          /\ Below(f[i], cs[i])
Marked(cs, marks) == \E f : MarkedBy(cs, f) /\ marks = f[Len(cs)]

LEMMA MarkIsTyped == ASSUME NEW c \in CallRecord PROVE MarkOf(c) \in Mark
  BY DEF MarkOf, Mark, CallRecord

LEMMA MarksTyped ==
    ASSUME NEW marks \in Seq(Mark)
    PROVE  \A k \in 1..Len(marks) : /\ marks[k] \in Mark
                                   /\ marks[k].base \in Nat /\ marks[k].scope \in Nat
<1>1. \A k \in 1..Len(marks) : marks[k] \in Mark
  OBVIOUS
<1> QED
  BY <1>1 DEF Mark

LEMMA MarkPush ==
    ASSUME NEW cs \in Seq(CallRecord), NEW marks, Marked(cs, marks), NEW c \in CallRecord,
           Below(marks, c), NeedsLocal(c) => c.visit # "BLOCK"
    PROVE  Marked(Append(cs, c), IF NeedsLocal(c) THEN Append(marks, MarkOf(c)) ELSE marks)
<1>1. PICK f : MarkedBy(cs, f) /\ marks = f[Len(cs)]
  BY DEF Marked
<1> DEFINE new == Append(cs, c)
           n == Len(cs)
           more == IF NeedsLocal(c) THEN Append(marks, MarkOf(c)) ELSE marks
           g == [i \in 0..(n + 1) |-> IF i = n + 1 THEN more ELSE f[i]]
<1>2. /\ n \in Nat /\ Len(new) = n + 1 /\ new[n + 1] = c
      /\ \A i \in 1..n : new[i] = cs[i]
  OBVIOUS
<1>3. /\ f \in [0..n -> Seq(Mark)] /\ f[0] = <<>> /\ marks = f[n] /\ marks \in Seq(Mark)
      /\ \A i \in 1..n :
            /\ f[i] = IF NeedsLocal(cs[i]) THEN Append(f[i - 1], MarkOf(cs[i])) ELSE f[i - 1]
            /\ Below(f[i], cs[i])
  BY <1>1, <1>2 DEF MarkedBy
<1>4. MarkOf(c) \in Mark
  BY MarkIsTyped
<1>5. more \in Seq(Mark) /\ Below(more, c)
  <2>1. more \in Seq(Mark)
    BY <1>3, <1>4
  <2>2. ~NeedsLocal(c) => Below(more, c)
    OBVIOUS
  <2>3. ASSUME NeedsLocal(c) PROVE Below(more, c)
    <3> DEFINE m == MarkOf(c)
    <3>1. m \in Mark /\ LowMark(m, c)
      BY <1>4, <2>3 DEF MarkOf, LowMark, Mark
    <3>2. more = Append(marks, m)
      BY <2>3
    <3> HIDE DEF m, more
    <3>3. /\ Len(more) = Len(marks) + 1 /\ more[Len(marks) + 1] = m /\ Len(marks) \in Nat
          /\ \A k \in 1..Len(marks) : more[k] = marks[k]
      BY <1>3, <3>1, <3>2
    <3>4. ASSUME NEW k \in 1..Len(more) PROVE LowMark(more[k], c)
      BY <3>1, <3>3 DEF Below
    <3> QED
      BY <2>1, <3>4 DEF Below
  <2> HIDE DEF more
  <2> QED
    BY <2>1, <2>2, <2>3
<1> HIDE DEF more
<1>6. /\ g \in [0..(n + 1) -> Seq(Mark)] /\ g[n + 1] = more
      /\ \A i \in 0..n : g[i] = f[i]
  BY <1>2, <1>3, <1>5
<1> HIDE DEF new, n, g
<1>7. ASSUME NEW i \in 1..(n + 1)
      PROVE  /\ g[i] = IF NeedsLocal(new[i]) THEN Append(g[i - 1], MarkOf(new[i])) ELSE g[i - 1]
             /\ Below(g[i], new[i])
  <2>1. CASE i \in 1..n
    <3>1. i - 1 \in 0..n /\ i \in 0..n
      BY <1>2, <2>1
    <3> QED
      BY <1>2, <1>3, <1>6, <2>1, <3>1
  <2>2. CASE i = n + 1
    <3>1. i - 1 = n /\ g[n] = marks
      BY <1>2, <1>3, <1>6, <2>2
    <3> QED
      BY <1>2, <1>5, <1>6, <2>2, <3>1 DEF more
  <2> QED
    BY <1>2, <2>1, <2>2
<1>8. g[0] = <<>>
  BY <1>2, <1>3, <1>6
<1>9. MarkedBy(new, g)
  BY <1>2, <1>6, <1>7, <1>8 DEF MarkedBy
<1> QED
  BY <1>2, <1>6, <1>9 DEF Marked, new, more

LEMMA MarkPop ==
    ASSUME NEW cs \in Seq(CallRecord), NEW marks, Marked(cs, marks), cs # <<>>
    PROVE  /\ marks \in Seq(Mark) /\ Below(marks, Top(cs))
           /\ \E rest \in Seq(Mark) :
                 /\ Marked(Pop(cs), rest) /\ Below(rest, Top(cs))
                 /\ marks = IF NeedsLocal(Top(cs)) THEN Append(rest, MarkOf(Top(cs))) ELSE rest
<1>1. PICK f : MarkedBy(cs, f) /\ marks = f[Len(cs)]
  BY DEF Marked
<1> DEFINE new == Pop(cs)
           n == Len(cs) - 1
           g == [i \in 0..n |-> f[i]]
           rest == f[n]
<1>2. /\ n \in Nat /\ Len(cs) = n + 1 /\ Len(new) = n /\ Top(cs) = cs[n + 1]
      /\ \A i \in 1..n : new[i] = cs[i]
  BY TopAndPop
<1>3. /\ f \in [0..(n + 1) -> Seq(Mark)] /\ f[0] = <<>> /\ marks = f[n + 1]
      /\ \A i \in 1..(n + 1) :
            /\ f[i] = IF NeedsLocal(cs[i]) THEN Append(f[i - 1], MarkOf(cs[i])) ELSE f[i - 1]
            /\ Below(f[i], cs[i])
  BY <1>1, <1>2 DEF MarkedBy
<1>4. /\ g \in [0..n -> Seq(Mark)] /\ \A i \in 0..n : g[i] = f[i]
  BY <1>2, <1>3
<1>5. /\ marks = IF NeedsLocal(Top(cs)) THEN Append(rest, MarkOf(Top(cs))) ELSE rest
      /\ Below(marks, Top(cs)) /\ rest \in Seq(Mark) /\ marks \in Seq(Mark)
  <2>1. n + 1 \in 1..(n + 1) /\ (n + 1) - 1 = n /\ n \in 0..(n + 1) /\ n + 1 \in 0..(n + 1)
    BY <1>2
  <2> QED
    BY <1>2, <1>3, <2>1
<1> HIDE DEF new, n, g, rest
<1>6. ASSUME NEW i \in 1..n
      PROVE  /\ g[i] = IF NeedsLocal(new[i]) THEN Append(g[i - 1], MarkOf(new[i])) ELSE g[i - 1]
             /\ Below(g[i], new[i])
  <2>1. i - 1 \in 0..n /\ i \in 0..n /\ i \in 1..(n + 1)
    BY <1>2
  <2> QED
    BY <1>2, <1>3, <1>4, <2>1
<1>7. g[0] = <<>> /\ g[n] = rest
  BY <1>2, <1>3, <1>4 DEF rest
<1>8. Marked(new, rest)
  BY <1>2, <1>4, <1>6, <1>7 DEF Marked, MarkedBy
<1>9. Below(rest, Top(cs))
  <2> DEFINE m == MarkOf(Top(cs))
  <2>1. m \in Mark
    BY TopAndPop, MarkIsTyped
  <2> HIDE DEF m
  <2>2. NeedsLocal(Top(cs)) => /\ Len(marks) = Len(rest) + 1
                               /\ \A k \in 1..Len(rest) : k \in 1..Len(marks) /\ marks[k] = rest[k]
    BY <1>5, <2>1 DEF m
  <2>3. \A k \in 1..Len(rest) : k \in 1..Len(marks) /\ marks[k] = rest[k]
    BY <1>5, <2>2
  <2> QED
    BY <1>5, <2>3 DEF Below
<1> QED
  BY <1>5, <1>8, <1>9 DEF new

LEMMA NothingMarked ==
    /\ Marked(<<>>, <<>>)
    /\ \A marks : Marked(<<>>, marks) => marks = <<>>
<1>1. MarkedBy(<<>>, [i \in {0} |-> <<>>])
  BY DEF MarkedBy
<1>2. ASSUME NEW f, MarkedBy(<<>>, f) PROVE f[0] = <<>>
  BY <1>2 DEF MarkedBy
<1> QED
  BY <1>1, <1>2 DEF Marked

\* Before a visit: how many operands are pending and what is marked.
Nest == [n: Nat, marks: Seq(Mark)]
Pushes(node) == IF node \in {"INT", "ID", "GENERATOR_END", "FILTER_END"} \cup Ops THEN 1 ELSE 0
MarkAt(v, n) == [scope |-> v.scope, base |-> n,
                 scoped |-> v.node \in ScopedOps \cup {"GENERATOR_END", "FILTER_END"}]
Low(marks, n) == \A k \in 1..Len(marks) : marks[k].base <= n
NestVisit(v, n, marks, t) ==
    /\ n \in Nat /\ t.n = n + Pushes(v.node)
    /\ Low(marks, n)
    /\ v.node \in Opening => t.marks = Append(marks, MarkAt(v, n))
    /\ v.node \in Closing => marks = Append(t.marks, MarkAt(v, n))
    /\ v.node = "LOOP_BODY" => \E rest \in Seq(Mark) : marks = Append(rest, MarkAt(v, n))
    /\ v.node \notin Opening \cup Closing => t.marks = marks
    /\ IsDeclaration(v) => \A k \in 1..Len(marks) : marks[k].scope < v.scope
NestStep(v, s, t) == NestVisit(v, s.n - Arity(v.node), s.marks, t)
Nested(a, M) == /\ Len(M) = Len(a) + 1 /\ M[1] = [n |-> 0, marks |-> <<>>]
                /\ \A i \in DOMAIN a : NestStep(a[i], M[i], M[i + 1])
NestReached(a, n, marks) ==
    \E M \in Seq(Nest) : Nested(a, M) /\ M[Len(a) + 1] = [n |-> n, marks |-> marks]

\* The scope of a block was not there before it.
BlockScopes(a) == \A i, j \in DOMAIN a : a[j].node = "BLOCK" /\ i < j => a[i].scope < a[j].scope

NestInv ==
    /\ BlockScopes(ast)
    /\ \E marks \in Seq(Mark) : /\ Marked(calls, marks) /\ Low(marks, Len(refs))
                                /\ NestReached(ast, Len(refs), marks)

LEMMA NextNested ==
    ASSUME NEW a \in Seq(Visit), NEW v \in Visit, NEW n \in Nat, NEW marks \in Seq(Mark),
           NEW m \in Nat, NEW after \in Seq(Mark), NestReached(a, n, marks),
           NestVisit(v, n - Arity(v.node), marks, [n |-> m, marks |-> after])
    PROVE  NestReached(Append(a, v), m, after)
<1> DEFINE s == [n |-> n, marks |-> marks]
           t == [n |-> m, marks |-> after]
<1>0. s \in Nest /\ t \in Nest /\ NestStep(v, s, t)
  BY DEF Nest, NestStep
<1>1. PICK M \in Seq(Nest) : Nested(a, M) /\ M[Len(a) + 1] = s
  BY DEF NestReached
<1> DEFINE new == Append(a, v)
           U == Append(M, t)
           k == Len(a) + 1
<1>2. /\ Len(new) = k /\ DOMAIN new = DOMAIN a \cup {k} /\ k \notin DOMAIN a
      /\ DOMAIN a = 1..(k - 1) /\ k \in Nat \ {0} /\ new[k] = v
      /\ \A i \in DOMAIN a : new[i] = a[i]
  BY AppendedVisit
<1> HIDE DEF s, t
<1>3. /\ U \in Seq(Nest) /\ Len(U) = k + 1 /\ U[k + 1] = t /\ Len(M) = k
      /\ \A i \in 1..k : U[i] = M[i]
  BY <1>0, <1>1, <1>2 DEF Nested
<1> HIDE DEF new, U, k
<1>4. M[k] = s
  BY <1>1 DEF k
<1>5. ASSUME NEW i \in DOMAIN new PROVE NestStep(new[i], U[i], U[i + 1])
  <2>1. CASE i \in DOMAIN a
    <3>1. U[i] = M[i] /\ U[i + 1] = M[i + 1]
      BY <1>2, <1>3, <2>1
    <3> QED
      BY <1>1, <1>2, <2>1, <3>1 DEF Nested
  <2>2. CASE i = k
    <3>1. U[k] = s /\ U[k + 1] = t
      BY <1>2, <1>3, <1>4
    <3> QED
      BY <1>0, <1>2, <2>2, <3>1
  <2> QED
    BY <1>2, <2>1, <2>2
<1>6. Nested(new, U)
  <2>1. U[1] = M[1]
    BY <1>2, <1>3
  <2> QED
    BY <1>1, <1>2, <1>3, <1>5, <2>1 DEF Nested
<1> QED
  BY <1>2, <1>3, <1>6 DEF NestReached, new, k, t

LEMMA VisitKeepsBlockScopes ==
    ASSUME NEW a \in Seq(Visit), NEW v \in Visit, BlockScopes(a),
           v.node = "BLOCK" => \A i \in DOMAIN a : a[i].scope < v.scope
    PROVE  BlockScopes(Append(a, v))
<1> DEFINE b == Append(a, v)
<1>1. /\ DOMAIN b = DOMAIN a \cup {Len(a) + 1} /\ b[Len(a) + 1] = v /\ Len(a) \in Nat
      /\ \A i \in DOMAIN a : b[i] = a[i] /\ i \in Nat /\ i < Len(a) + 1
  BY AppendedVisit
<1> HIDE DEF b
<1> QED
  BY <1>1 DEF BlockScopes, b

LEMMA OneNested ==
    ASSUME DefRefInv, DefRefInv', BlockScopes(ast), NEW v, ast' = Append(ast, v),
           v.node # "BLOCK", NEW marks \in Seq(Mark), NestReached(ast, Len(refs), marks),
           NEW after \in Seq(Mark),
           NestVisit(v, Len(refs) - Arity(v.node), marks, [n |-> Len(refs'), marks |-> after]),
           Marked(calls', after), Low(after, Len(refs'))
    PROVE  NestInv'
<1>1. ast \in Seq(Visit) /\ ast' \in Seq(Visit) /\ Len(refs) \in Nat /\ Len(refs') \in Nat
  BY DEF DefRefInv
<1>2. v \in Visit
  <2>1. v = Append(ast, v)[Len(ast) + 1] /\ Len(ast) + 1 \in 1..Len(Append(ast, v))
    BY <1>1
  <2> QED
    BY <1>1, <2>1
<1>3. NestReached(ast', Len(refs'), after)
  BY <1>1, <1>2, NextNested
<1>4. BlockScopes(ast')
  BY <1>1, <1>2, VisitKeepsBlockScopes
<1> QED
  BY <1>3, <1>4 DEF NestInv

\* A visit that opens and closes nothing.
LEMMA PlainNested ==
    ASSUME DefRefInv, DefRefInv', BlockScopes(ast), NEW v, ast' = Append(ast, v),
           v.node \notin Opening \cup Closing \cup {"LOOP_BODY", "BLOCK"},
           NEW marks \in Seq(Mark), NestReached(ast, Len(refs), marks),
           IsDeclaration(v) => \A k \in 1..Len(marks) : marks[k].scope < v.scope,
           NEW n \in Nat, n = Len(refs) - Arity(v.node), Len(refs') = n + Pushes(v.node),
           Low(marks, n), Marked(calls', marks)
    PROVE  NestInv'
<1>1. Low(marks, Len(refs'))
  <2>1. Pushes(v.node) \in {0, 1}
    BY DEF Pushes
  <2>2. \A k \in 1..Len(marks) : marks[k].base \in Nat
    BY MarksTyped
  <2> QED
    BY <2>1, <2>2 DEF Low
<1>2. NestVisit(v, n, marks, [n |-> Len(refs'), marks |-> marks])
  BY DEF NestVisit
<1> QED
  BY <1>1, <1>2, OneNested

\* What a running call may use.
LEMMA NestHere ==
    ASSUME DefRefInv, NestInv, calls # <<>>
    PROVE  \E marks \in Seq(Mark) : \E rest \in Seq(Mark) :
              /\ Marked(calls, marks) /\ Low(marks, Len(refs)) /\ NestReached(ast, Len(refs), marks)
              /\ Below(marks, Top(calls)) /\ Marked(Pop(calls), rest) /\ Below(rest, Top(calls))
              /\ marks = IF NeedsLocal(Top(calls)) THEN Append(rest, MarkOf(Top(calls))) ELSE rest
<1>1. PICK marks \in Seq(Mark) :
         Marked(calls, marks) /\ Low(marks, Len(refs)) /\ NestReached(ast, Len(refs), marks)
  BY DEF NestInv
<1>2. calls \in Seq(CallRecord)
  BY DEF DefRefInv, StackOK
<1>3. /\ Below(marks, Top(calls))
      /\ \E rest \in Seq(Mark) :
                 /\ Marked(Pop(calls), rest) /\ Below(rest, Top(calls))
                 /\ marks = IF NeedsLocal(Top(calls)) THEN Append(rest, MarkOf(Top(calls))) ELSE rest
  BY <1>1, <1>2, MarkPop
<1> QED
  BY <1>1, <1>3

LEMMA BelowIsLow ==
    ASSUME NEW marks \in Seq(Mark), NEW c \in CallRecord, Below(marks, c), NEW n \in Nat, c.base <= n
    PROVE  Low(marks, n)
<1>1. \A k \in 1..Len(marks) : marks[k].base \in Nat
  BY MarksTyped
<1> QED
  BY <1>1 DEF Low, Below, LowMark, CallRecord

NestReady == DefRefInv /\ VisitsInv /\ TraceInv /\ NestInv /\ DefRefInv'

LEMMA LeafKeepsNest ==
    ASSUME NestReady, calls # <<>>, calls' = calls, NEW node \in {"INT", "ID"}, NEW text, NEW bound,
           ast' = Visited(node, text, bound, <<>>), NEW type, refs' = Append(refs, type)
    PROVE  NestInv'
<1> DEFINE v == [node |-> node, text |-> text, scope |-> current_scope, bound |-> bound,
                 refs |-> <<>>]
           n == Len(refs)
<1>1. /\ ast' = Append(ast, v) /\ v.node = node /\ n \in Nat /\ Len(refs') = n + 1
      /\ BlockScopes(ast)
  BY DEF Visited, NestReady, DefRefInv, NestInv
<1>2. PICK marks \in Seq(Mark) : /\ Marked(calls, marks) /\ Low(marks, n)
                                 /\ NestReached(ast, n, marks)
  BY DEF NestReady, NestInv
<1>3. /\ node \notin Opening \cup Closing \cup {"LOOP_BODY", "BLOCK"}
      /\ Arity(node) = 0 /\ Pushes(node) = 1 /\ ~IsDeclaration(v)
  BY <1>1 DEF Opening, Closing, ScopedOps, Arity, Ops, Pushes, IsDeclaration
<1> HIDE DEF v
<1>4. n = n - Arity(v.node) /\ Len(refs') = n + Pushes(v.node)
  BY <1>1, <1>3
<1> QED
  BY <1>1, <1>2, <1>3, <1>4, PlainNested DEF NestReady

LEMMA VisitOpKeepsNest == ASSUME NestReady, NEW op \in Ops, VisitOp(op), ~Throw PROVE NestInv'
<1> DEFINE v == [node |-> op, text |-> NoText, scope |-> current_scope, bound |-> 0,
                 refs |-> <<refs[Len(refs) - 1], Top(refs)>>]
           n == Len(refs) - 2
           rest == Pop(Pop(refs))
           type == OpType(op, refs[Len(refs) - 1], Top(refs))
<1>1. /\ calls # <<>> /\ ast' = Append(ast, v) /\ v.node = op /\ calls' = calls
      /\ Operands >= 2 /\ refs' = Append(rest, type) /\ BlockScopes(ast)
  BY DEF Visited, VisitOp, InExpr, InCall, NestReady, NestInv
<1>2. /\ Top(calls) \in CallRecord /\ Top(calls).base \in Nat
      /\ Len(refs) >= Top(calls).base + 2 /\ Len(refs) \in Nat /\ refs \in Seq(Type)
  BY <1>1, Running DEF Operands, CallRecord, NestReady, DefRefInv
<1>3. Len(rest) = n /\ rest \in Seq(Type)
  <2>1. Stacked(refs, rest, <<refs[Len(refs) - 1], Top(refs)>>) /\ rest \in Seq(Type)
    <3>1. Len(refs) >= 2 /\ refs \in Seq(Type)
      BY <1>2
    <3> QED
      BY <3>1, StackedTwo
  <2>2. Len(<<refs[Len(refs) - 1], Top(refs)>>) = 2
    OBVIOUS
  <2> HIDE DEF rest
  <2> QED
    BY <1>2, <2>1, <2>2 DEF Stacked
<1>4. PICK marks \in Seq(Mark) : /\ Marked(calls, marks) /\ NestReached(ast, Len(refs), marks)
                                 /\ Below(marks, Top(calls))
  BY <1>1, NestHere DEF NestReady
<1>5. n \in Nat /\ Top(calls).base <= n /\ Len(refs) = n + 2
  BY <1>2
<1> HIDE DEF v, rest, n, type
<1>6. Low(marks, n)
  BY <1>2, <1>4, <1>5, BelowIsLow
<1>7. /\ op \notin Opening \cup Closing \cup {"LOOP_BODY", "BLOCK"}
      /\ Arity(op) = 2 /\ Pushes(op) = 1 /\ ~IsDeclaration(v)
  BY <1>1 DEF Opening, Closing, ScopedOps, Arity, Ops, Pushes, IsDeclaration
<1>8. n = Len(refs) - Arity(v.node) /\ Len(refs') = n + Pushes(v.node)
  BY <1>1, <1>3, <1>5, <1>7
<1> QED
  BY <1>1, <1>4, <1>5, <1>6, <1>7, <1>8, PlainNested DEF NestReady

\* A call on a statement begins.
LEMMA StatementCall ==
    ASSUME DefRefInv, calls # <<>>, NEW visit \in Visits \ {"BLOCK"}, NEW text \in Text,
           NEW marks \in Seq(Mark), Below(marks, Top(calls)), Low(marks, Len(refs))
    PROVE  /\ Call(visit, text) \in CallRecord /\ Call(visit, text).visit = visit
           /\ Call(visit, text).scope = current_scope /\ Call(visit, text).base = Len(refs)
           /\ Below(marks, Call(visit, text))
<1> DEFINE c == Call(visit, text)
<1>1. c \in CallRecord /\ c.scope = current_scope /\ c.visit = visit
  BY CallIsTyped
<1>2. c.base = Len(refs)
  BY DEF Call
<1> HIDE DEF c
<1>3. Top(calls).scope = current_scope
  BY Running
<1>4. Below(marks, c)
  BY <1>1, <1>2, <1>3 DEF Below, LowMark, Low
<1> QED
  BY <1>1, <1>2, <1>4 DEF c

LEMMA VisitDECLKeepsNest ==
    ASSUME NestReady, NEW name \in Name, NEW type \in Type,
           NEW initialized \in BOOLEAN, VisitDECL(name, type, initialized), ~Throw
    PROVE  NestInv'
<1> DEFINE v == [node |-> "DECL", text |-> name, scope |-> current_scope,
                 bound |-> current_scope, refs |-> <<type>>]
           c == Call("ASSIGN", name)
           n == Len(refs)
<1>1. /\ calls # <<>> /\ Top(calls).visit = "BLOCK" /\ ast' = Append(ast, v)
      /\ calls' = IF initialized THEN Append(calls, c) ELSE calls
      /\ refs' = refs /\ v.node = "DECL" /\ v.scope = current_scope /\ BlockScopes(ast)
  BY DEF Visited, VisitDECL, InCall, NestReady, NestInv
<1>2. n \in Nat /\ calls \in Seq(CallRecord) /\ Top(calls).scope = current_scope
  BY <1>1, Running DEF NestReady
<1>3. PICK marks \in Seq(Mark) : /\ Marked(calls, marks) /\ NestReached(ast, n, marks)
                                 /\ Below(marks, Top(calls)) /\ Low(marks, n)
  BY <1>1, NestHere DEF NestReady
<1>4. c \in CallRecord /\ c.visit = "ASSIGN" /\ Below(marks, c)
  <2>1. "ASSIGN" \in Visits \ {"BLOCK"} /\ name \in Text
    BY DEF Visits, NodeKinds, Statements, Text
  <2> QED
    BY <1>1, <1>3, <2>1, StatementCall DEF NestReady
<1> HIDE DEF v, c
<1>5. Marked(calls', marks)
  <2>1. ~NeedsLocal(c)
    BY <1>4 DEF NeedsLocal, ScopedOps
  <2>2. Marked(Append(calls, c), marks)
    BY <1>2, <1>3, <1>4, <2>1, MarkPush
  <2> QED
    BY <1>1, <1>3, <2>2
<1>6. \A k \in 1..Len(marks) : marks[k].scope < v.scope
  BY <1>1, <1>2, <1>3 DEF Below, LowMark
<1>7. /\ v.node \notin Opening \cup Closing \cup {"LOOP_BODY", "BLOCK"}
      /\ n = n - Arity(v.node) /\ Len(refs') = n + Pushes(v.node)
  <2>1. v.node \notin Opening \cup Closing \cup {"LOOP_BODY", "BLOCK"}
        /\ Arity(v.node) = 0 /\ Pushes(v.node) = 0
    BY <1>1 DEF Opening, Closing, ScopedOps, Arity, Ops, Pushes
  <2> QED
    BY <1>1, <1>2, <2>1
<1> QED
  BY <1>1, <1>2, <1>3, <1>5, <1>6, <1>7, PlainNested DEF NestReady

LEMMA BeginStatementKeepsNest ==
    ASSUME NestReady, NEW k \in Statements \ {"DECL"},
           NEW text \in Name \cup {NoText}, BeginStatement(k, text)
    PROVE  NestInv'
<1> DEFINE v == [node |-> "LOOP", text |-> NoText, scope |-> current_scope, bound |-> 0,
                 refs |-> <<>>]
           c == Call(k, text)
           n == Len(refs)
<1>1. /\ calls # <<>> /\ Top(calls).visit = "BLOCK" /\ calls' = Append(calls, c) /\ refs' = refs
      /\ ast' = (IF k = "LOOP" THEN Append(ast, v) ELSE ast) /\ BlockScopes(ast)
      /\ v.node = "LOOP" /\ v.scope = current_scope
  BY DEF Visited, BeginStatement, InCall, NestReady, NestInv
<1>2. n \in Nat /\ calls \in Seq(CallRecord) /\ Top(calls).scope = current_scope
  BY <1>1, Running DEF NestReady
<1>3. PICK marks \in Seq(Mark) : /\ Marked(calls, marks) /\ NestReached(ast, n, marks)
                                 /\ Below(marks, Top(calls)) /\ Low(marks, n)
  BY <1>1, NestHere DEF NestReady
<1>4. c \in CallRecord /\ c.visit = k /\ c.scope = current_scope /\ c.base = n /\ Below(marks, c)
  <2>1. k \in Visits \ {"BLOCK"} /\ text \in Text
    BY DEF Visits, NodeKinds, Statements, Conditionals, Text
  <2> QED
    BY <1>1, <1>3, <2>1, StatementCall DEF NestReady
<1> HIDE DEF v, c, n
<1>5. CASE k # "LOOP"
  <2>1. ~NeedsLocal(c)
    BY <1>4, <1>5 DEF NeedsLocal, ScopedOps, Statements, Conditionals
  <2>2. Marked(calls', marks)
    BY <1>1, <1>2, <1>3, <1>4, <2>1, MarkPush
  <2> QED
    BY <1>1, <1>3, <1>5, <2>2 DEF NestInv, n
<1>6. CASE k = "LOOP"
  <2> DEFINE after == Append(marks, MarkOf(c))
  <2>1. NeedsLocal(c) /\ c.visit # "BLOCK"
    BY <1>4, <1>6 DEF NeedsLocal
  <2>2. Marked(calls', after)
    BY <1>1, <1>2, <1>3, <1>4, <2>1, MarkPush
  <2>3. MarkOf(c) = MarkAt(v, n) /\ MarkOf(c).base = n
    BY <1>1, <1>4, <1>6 DEF MarkOf, MarkAt, ScopedOps
  <2>4. MarkOf(c) \in Mark
    BY <1>4, MarkIsTyped
  <2>5. after \in Seq(Mark) /\ Low(after, n)
    <3>1. ASSUME NEW i \in 1..Len(after) PROVE after[i].base <= n
      <4>1. after[i] = MarkOf(c) \/ (i \in 1..Len(marks) /\ after[i] = marks[i])
        BY <2>4
      <4> HIDE DEF after
      <4> QED
        BY <1>2, <1>3, <2>3, <4>1 DEF Low
    <3> QED
      BY <2>4, <3>1 DEF Low
  <2> HIDE DEF after
  <2>6. /\ n - Arity("LOOP") = n /\ Pushes("LOOP") = 0
        /\ "LOOP" \in Opening /\ "LOOP" \notin Closing
    BY <1>2 DEF Arity, Ops, ScopedOps, Pushes, Opening, Closing
  <2>7. NestVisit(v, n - Arity(v.node), marks, [n |-> Len(refs'), marks |-> after])
    BY <1>1, <1>2, <1>3, <2>3, <2>6 DEF NestVisit, IsDeclaration, ScopedOps, n, after
  <2> QED
    BY <1>1, <1>2, <1>3, <1>6, <2>2, <2>5, <2>7, OneNested DEF NestReady, n
<1> QED
  BY <1>5, <1>6

LEMMA EndStatementKeepsNest ==
    ASSUME NestReady, NEW node \in {"ASSIGN", "PRINT"}, NEW text, NEW bound,
           EndsStatement(node, text, bound)
    PROVE  NestInv'
<1> DEFINE v == [node |-> node, text |-> text, scope |-> current_scope, bound |-> bound,
                 refs |-> <<Top(refs)>>]
           n == Top(calls).base
<1>1. /\ calls # <<>> /\ Top(calls).visit = node /\ Len(refs) = n + 1
      /\ ast' = Append(ast, v) /\ refs' = Pop(refs) /\ calls' = Pop(calls)
      /\ v.node = node /\ BlockScopes(ast)
  BY DEF EndsStatement, Visited, NestReady, NestInv
<1>2. /\ n \in Nat /\ Top(calls) \in CallRecord /\ refs \in Seq(Type)
  BY <1>1, Running DEF CallRecord, NestReady, DefRefInv
<1>3. Len(refs') = n
  <2>1. refs # <<>>
    BY <1>1, <1>2
  <2>2. Len(Pop(refs)) = Len(refs) - 1
    BY <1>2, <2>1, TopAndPop
  <2> QED
    BY <1>1, <1>2, <2>2
<1>4. ~NeedsLocal(Top(calls))
  BY <1>1 DEF NeedsLocal, ScopedOps
<1>5. PICK marks \in Seq(Mark) : /\ Marked(Pop(calls), marks) /\ NestReached(ast, Len(refs), marks)
                                 /\ Below(marks, Top(calls))
  BY <1>1, <1>4, NestHere DEF NestReady
<1> HIDE DEF v, n
<1>6. Low(marks, n)
  BY <1>2, <1>5, BelowIsLow DEF n
<1>7. /\ v.node \notin Opening \cup Closing \cup {"LOOP_BODY", "BLOCK"} /\ ~IsDeclaration(v)
      /\ Arity(v.node) = 1 /\ Pushes(v.node) = 0
  BY <1>1 DEF Opening, Closing, ScopedOps, Arity, Ops, Pushes, IsDeclaration
<1>8. n = Len(refs) - Arity(v.node) /\ Len(refs') = n + Pushes(v.node)
  BY <1>1, <1>2, <1>3, <1>7
<1> QED
  BY <1>1, <1>2, <1>5, <1>6, <1>7, <1>8, PlainNested DEF NestReady

LEMMA StatementsKeepNest == ASSUME NestReady, VisitStatement PROVE NestInv'
<1>1. CASE Throw
  BY <1>1 DEF Throw, NestInv, NestReady
<1>2. CASE EndASSIGN /\ ~Throw
  <2>1. EndsStatement("ASSIGN", Top(calls).text, Resolve(scopes, current_scope, Top(calls).text))
    BY <1>2 DEF EndASSIGN, InCall, EndsStatement
  <2> QED
    BY <2>1, EndStatementKeepsNest
<1>3. CASE EndPRINT
  <2>1. EndsStatement("PRINT", NoText, 0)
    BY <1>3 DEF EndPRINT, InCall, EndsStatement
  <2> QED
    BY <2>1, EndStatementKeepsNest
<1> QED
  BY <1>1, <1>2, <1>3, VisitDECLKeepsNest, BeginStatementKeepsNest DEF VisitStatement

LEMMA EnterScopedKeepsNest ==
    ASSUME NestReady, NEW op \in ScopedOps, NEW name \in Name, EnterScoped(op, name), ~Throw
    PROVE  NestInv'
<1> DEFINE new == Len(NewScope(scopes, current_scope))
           n == Len(refs) - 1
           c == [Call(op, name) EXCEPT !.scope = new, !.base = n]
           v == [node |-> op, text |-> name, scope |-> new, bound |-> new, refs |-> <<Top(refs)>>]
<1>1. /\ calls # <<>> /\ Operands >= 1 /\ ast' = Append(ast, v) /\ refs' = Pop(refs)
      /\ calls' = Append(calls, c) /\ v.node = op /\ v.scope = new /\ BlockScopes(ast)
  BY DEF EnterScoped, InExpr, InCall, NestReady, NestInv
<1>2. /\ calls \in Seq(CallRecord) /\ Top(calls) \in CallRecord /\ refs \in Seq(Type)
      /\ Top(calls).base \in Nat /\ Top(calls).scope \in 1..Len(scopes)
      /\ Len(refs) >= Top(calls).base + 1 /\ Len(refs) \in Nat /\ Len(scopes) \in Nat
      /\ new = Len(scopes) + 1
  <2>1. scopes \in Seq(ScopeRecord) /\ current_scope \in {NoScope} \cup DOMAIN scopes
        /\ DefRefInv
    BY <1>1, Running DEF NestReady
  <2>2. new = Len(scopes) + 1
    BY <2>1, NewScopeEffect
  <2> HIDE DEF new
  <2> QED
    BY <1>1, <2>1, <2>2, Running DEF Operands, CallRecord, DefRefInv
<1>3. n \in Nat /\ Len(refs) = n + 1 /\ Len(refs') = n /\ Top(calls).base <= n
  <2>1. refs # <<>>
    BY <1>2
  <2>2. Len(Pop(refs)) = Len(refs) - 1
    BY <1>2, <2>1, TopAndPop
  <2> QED
    BY <1>1, <1>2, <2>2
<1> HIDE DEF new, n
<1>4. c \in CallRecord /\ c.visit = op /\ c.scope = new /\ c.base = n
  <2>1. op \in Visits /\ name \in Text
    BY DEF Visits, NodeKinds, Text
  <2> DEFINE d == Call(op, name)
  <2>2. d \in CallRecord /\ d.visit = op
    BY <1>1, <2>1, CallIsTyped DEF NestReady
  <2> HIDE DEF d
  <2>3. new \in Nat
    BY <1>2
  <2>4. /\ [d EXCEPT !.scope = new, !.base = n] \in CallRecord
        /\ [d EXCEPT !.scope = new, !.base = n].visit = op
        /\ [d EXCEPT !.scope = new, !.base = n].scope = new
        /\ [d EXCEPT !.scope = new, !.base = n].base = n
    BY <1>3, <2>2, <2>3 DEF CallRecord
  <2> QED
    BY <2>4 DEF d
<1> HIDE DEF c, v
<1>5. PICK marks \in Seq(Mark) : /\ Marked(calls, marks) /\ NestReached(ast, Len(refs), marks)
                                 /\ Below(marks, Top(calls))
  BY <1>1, NestHere DEF NestReady
<1>6. Below(marks, c) /\ Low(marks, n) /\ \A k \in 1..Len(marks) : marks[k].scope < new
  <2>1. ASSUME NEW k \in 1..Len(marks)
        PROVE  marks[k].base <= n /\ marks[k].scope < new
    <3>1. LowMark(marks[k], Top(calls)) /\ marks[k].base \in Nat /\ marks[k].scope \in Nat
      BY <1>5, MarksTyped DEF Below
    <3> QED
      BY <1>2, <1>3, <3>1, SMTT(30) DEF LowMark
  <2>2. \A k \in 1..Len(marks) : marks[k].scope <= new
    BY <1>2, <2>1, MarksTyped
  <2> QED
    BY <1>4, <2>1, <2>2 DEF Below, LowMark, Low
<1> DEFINE after == Append(marks, MarkOf(c))
<1>7. NeedsLocal(c) /\ c.visit # "BLOCK"
  BY <1>4 DEF NeedsLocal, ScopedOps
<1>8. Marked(calls', after)
  BY <1>1, <1>2, <1>4, <1>5, <1>6, <1>7, MarkPush
<1>9. MarkOf(c) = MarkAt(v, n) /\ MarkOf(c).base = n
  BY <1>1, <1>4 DEF MarkOf, MarkAt
<1>10. MarkOf(c) \in Mark
  BY <1>4, MarkIsTyped
<1>11. after \in Seq(Mark) /\ Low(after, n)
  <2>1. ASSUME NEW i \in 1..Len(after) PROVE after[i].base <= n
    <3>1. after[i] = MarkOf(c) \/ (i \in 1..Len(marks) /\ after[i] = marks[i])
      BY <1>10
    <3> HIDE DEF after
    <3> QED
      BY <1>3, <1>6, <1>9, <3>1 DEF Low
  <2> QED
    BY <1>10, <2>1 DEF Low
<1> HIDE DEF after
<1>12. /\ Arity(op) = 1 /\ Pushes(op) = 0 /\ op \in Opening /\ op \notin Closing /\ op # "BLOCK"
       /\ op # "LOOP_BODY"
  BY DEF Arity, Ops, ScopedOps, Pushes, Opening, Closing
<1>13. NestVisit(v, n, marks, [n |-> Len(refs'), marks |-> after])
  BY <1>1, <1>3, <1>6, <1>9, <1>12 DEF NestVisit, after
<1>14. n = Len(refs) - Arity(v.node)
  BY <1>1, <1>3, <1>12
<1> QED
  BY <1>1, <1>3, <1>5, <1>8, <1>11, <1>12, <1>13, <1>14, OneNested DEF NestReady

LEMMA LeaveScopedKeepsNest == ASSUME NestReady, NEW op \in ScopedOps, LeaveScoped(op) PROVE NestInv'
<1> DEFINE v == [node |-> EndOf(op), text |-> Top(calls).text, scope |-> current_scope, bound |-> 0,
                 refs |-> <<Top(refs)>>]
           n == Top(calls).base
           type == ResolvedSymbol(scopes, GetEnclosingScope(scopes, current_scope), "vector").type
<1>1. /\ calls # <<>> /\ Top(calls).visit = op /\ Len(refs) = n + 1
      /\ ast' = Append(ast, v) /\ refs' = Append(Pop(refs), type) /\ calls' = Pop(calls)
      /\ v.node = EndOf(op) /\ v.scope = current_scope /\ BlockScopes(ast)
  BY DEF LeaveScoped, InCall, Visited, NestReady, NestInv
<1>2. /\ n \in Nat /\ Top(calls) \in CallRecord /\ refs \in Seq(Type)
      /\ Top(calls).scope = current_scope
  BY <1>1, Running DEF CallRecord, NestReady, DefRefInv
<1> HIDE DEF v, type
<1>3. Len(refs') = n + 1
  <2>1. refs # <<>>
    BY <1>1, <1>2
  <2>2. Len(Pop(refs)) = Len(refs) - 1 /\ Pop(refs) \in Seq(Type)
    BY <1>2, <2>1, TopAndPop
  <2> QED
    BY <1>1, <1>2, <2>2
<1>4. NeedsLocal(Top(calls))
  BY <1>1 DEF NeedsLocal, ScopedOps
<1>5. PICK marks \in Seq(Mark) : \E rest \in Seq(Mark) :
              /\ NestReached(ast, Len(refs), marks)
              /\ Below(marks, Top(calls)) /\ Marked(Pop(calls), rest) /\ Below(rest, Top(calls))
              /\ marks = Append(rest, MarkOf(Top(calls)))
  BY <1>1, <1>4, NestHere DEF NestReady
<1>6. PICK rest \in Seq(Mark) : /\ Marked(Pop(calls), rest) /\ Below(rest, Top(calls))
                                /\ marks = Append(rest, MarkOf(Top(calls)))
  BY <1>5
<1>7. Low(marks, n) /\ Low(rest, n + 1)
  <2>1. n + 1 \in Nat /\ Top(calls).base <= n + 1 /\ Top(calls).base <= n
    BY <1>2
  <2> QED
    BY <1>2, <1>5, <1>6, <2>1, BelowIsLow
<1>8. /\ v.node \in {"GENERATOR_END", "FILTER_END"} /\ ~IsDeclaration(v)
      /\ Arity(v.node) = 1 /\ Pushes(v.node) = 1 /\ v.node \in Closing /\ v.node \notin Opening
  BY <1>1 DEF Opening, Closing, ScopedOps, Arity, Ops, Pushes, IsDeclaration, EndOf
<1>9. MarkOf(Top(calls)) = MarkAt(v, n)
  BY <1>1, <1>2, <1>8 DEF MarkOf, MarkAt
<1>10. NestVisit(v, n, marks, [n |-> Len(refs'), marks |-> rest])
  BY <1>2, <1>3, <1>6, <1>7, <1>8, <1>9 DEF NestVisit
<1>11. n = Len(refs) - Arity(v.node)
  BY <1>1, <1>2, <1>8
<1> QED
  BY <1>1, <1>3, <1>5, <1>6, <1>7, <1>8, <1>10, <1>11, OneNested DEF NestReady

LEMMA EXPRKeepsNest == ASSUME NestReady, VisitEXPR PROVE NestInv'
<1>1. CASE Throw
  BY <1>1 DEF Throw, NestInv, NestReady
<1>2. ASSUME NEW text, VisitINT(text) PROVE NestInv'
  <2>1. /\ calls # <<>> /\ calls' = calls /\ ast' = Visited("INT", text, 0, <<>>)
        /\ refs' = Append(refs, GetBuiltInTypeData("int"))
    BY <1>2 DEF VisitINT, InExpr, InCall
  <2> QED
    BY <2>1, LeafKeepsNest
<1>3. ASSUME NEW name, VisitID(name), ~Throw PROVE NestInv'
  <2>1. /\ calls # <<>> /\ calls' = calls
        /\ ast' = Visited("ID", name, Resolve(scopes, current_scope, name), <<>>)
        /\ refs' = Append(refs, ResolvedSymbol(scopes, current_scope, name).type)
    BY <1>3 DEF VisitID, InExpr, InCall
  <2> QED
    BY <2>1, LeafKeepsNest
<1> QED
  BY <1>1, <1>2, <1>3, VisitOpKeepsNest, EnterScopedKeepsNest, LeaveScopedKeepsNest DEF VisitEXPR

LEMMA EnterFileKeepsNest == ASSUME NestReady, EnterFile PROVE NestInv'
<1> DEFINE root == [Call("BLOCK", NoText) EXCEPT !.scope = 1]
           v == [node |-> "BLOCK", text |-> NoText, scope |-> 1, bound |-> 0, refs |-> <<>>]
<1>1. calls = <<>> /\ calls' = <<root>> /\ ast' = Append(ast, v) /\ refs' = refs
      /\ BlockScopes(ast) /\ status = "visiting" /\ v.node = "BLOCK"
  BY DEF EnterFile, NestReady, NestInv
<1>2. refs = <<>> /\ ast \in Seq(Visit) /\ ast' \in Seq(Visit) /\ calls' \in Seq(CallRecord)
      /\ scopes = <<>>
  BY <1>1 DEF TraceInv, NothingPending, DefRefInv, NestReady, StackOK
<1>3. DOMAIN ast = {}
  <2>1. \A i \in DOMAIN ast : ast[i].scope \in DOMAIN scopes
    BY DEF NestReady, VisitsInv, VisitsOK
  <2>2. DOMAIN scopes = {}
    BY <1>2
  <2> QED
    BY <2>1, <2>2
<1>4. NestReached(ast, 0, <<>>)
  <2>1. PICK marks \in Seq(Mark) : Marked(calls, marks) /\ NestReached(ast, Len(refs), marks)
    BY DEF NestReady, NestInv
  <2> QED
    BY <1>1, <1>2, <2>1, NothingMarked
<1> HIDE DEF root, v
<1>5. root \in CallRecord /\ v \in Visit
  <2>1. /\ <<root>>[1] = root /\ 1 \in 1..Len(<<root>>)
        /\ Append(ast, v)[Len(ast) + 1] = v /\ Len(ast) + 1 \in 1..Len(Append(ast, v))
    BY <1>2
  <2> QED
    BY <1>1, <1>2, <2>1
<1>6. Marked(calls', <<>>)
  <2>1. root.visit = "BLOCK" /\ ~NeedsLocal(root) /\ Below(<<>>, root)
    BY DEF root, Call, NeedsLocal, ScopedOps, Below
  <2>2. Append(<<>>, root) = <<root>> /\ <<>> \in Seq(CallRecord)
    BY <1>5
  <2>3. Marked(Append(<<>>, root), <<>>)
    BY <1>5, <2>1, <2>2, NothingMarked, MarkPush
  <2> QED
    BY <1>1, <2>2, <2>3
<1>7. NestReached(ast', 0, <<>>)
  <2>1. /\ Arity("BLOCK") = 0 /\ Pushes("BLOCK") = 0
        /\ "BLOCK" \notin Opening /\ "BLOCK" \notin Closing /\ ~IsDeclaration(v)
    BY <1>1 DEF Opening, Closing, ScopedOps, Arity, Ops, Pushes, IsDeclaration
  <2> DEFINE none == <<>>
         zero == 0
  <2>2. none \in Seq(Mark) /\ Len(none) = 0 /\ zero \in Nat
    OBVIOUS
  <2>3. zero - Arity(v.node) = zero /\ Pushes(v.node) = 0
    BY <1>1, <2>1
  <2>4. NestReached(ast, zero, none)
    BY <1>4
  <2> HIDE DEF none, zero
  <2>5. NestVisit(v, zero - Arity(v.node), none, [n |-> zero, marks |-> none])
    BY <1>1, <2>1, <2>2, <2>3 DEF NestVisit, Low
  <2>6. NestReached(Append(ast, v), zero, none)
    BY <1>2, <1>5, <2>2, <2>4, <2>5, NextNested
  <2> QED
    BY <1>1, <2>6 DEF none, zero
<1>8. BlockScopes(ast')
  BY <1>1, <1>2, <1>3, <1>5, VisitKeepsBlockScopes
<1>9. Len(refs') = 0 /\ <<>> \in Seq(Mark) /\ Low(<<>>, 0)
  BY <1>1, <1>2 DEF Low
<1> QED
  BY <1>6, <1>7, <1>8, <1>9 DEF NestInv

LEMMA EndingKeepsNest ==
    ASSUME NestReady, NEW node,
           \/ node = "BLOCK_END" /\ Ending({"BLOCK"}, node)
           \/ node = "IF_END" /\ Ending({"IF_BODY"}, node)
           \/ node = "LOOP_END" /\ Ending({"LOOP_BODY"}, node)
    PROVE  NestInv'
<1> DEFINE v == [node |-> node, text |-> NoText, scope |-> current_scope, bound |-> 0,
                 refs |-> <<>>]
<1>1. /\ calls # <<>> /\ ast' = Append(ast, v) /\ refs' = refs /\ calls' = Pop(calls)
      /\ Top(calls).visit \in {"BLOCK", "IF_BODY", "LOOP_BODY"}
      /\ v.node = node /\ v.scope = current_scope /\ BlockScopes(ast)
  BY DEF Ending, Visited, NestReady, NestInv
<1>2. /\ refs = <<>> /\ Top(calls).scope = current_scope /\ Top(calls) \in CallRecord
      /\ calls \in Seq(CallRecord)
  BY <1>1, NoOperandInBlock, Running DEF NestReady
<1>3. Len(refs) = 0 /\ Len(refs') = 0
  BY <1>1, <1>2
<1>4. Top(calls).base = 0
  <2>1. Top(calls).visit \notin ScopedOps /\ BasesOK(calls)
    BY <1>1 DEF ScopedOps, TraceInv, NestReady
  <2> QED
    BY <1>1, <1>2, <2>1, BasesPop
<1>5. PICK marks \in Seq(Mark) : \E rest \in Seq(Mark) :
              /\ NestReached(ast, Len(refs), marks)
              /\ Below(marks, Top(calls)) /\ Marked(Pop(calls), rest) /\ Below(rest, Top(calls))
              /\ marks = IF NeedsLocal(Top(calls)) THEN Append(rest, MarkOf(Top(calls))) ELSE rest
  BY <1>1, NestHere DEF NestReady
<1>6. PICK rest \in Seq(Mark) :
              /\ Marked(Pop(calls), rest) /\ Below(rest, Top(calls))
              /\ marks = IF NeedsLocal(Top(calls)) THEN Append(rest, MarkOf(Top(calls))) ELSE rest
  BY <1>5
<1> HIDE DEF v
<1>7. Low(marks, 0) /\ Low(rest, 0)
  <2>1. 0 \in Nat /\ Top(calls).base <= 0
    BY <1>4
  <2> QED
    BY <1>2, <1>5, <1>6, <2>1, BelowIsLow
<1>8. /\ Arity(node) = 0 /\ Pushes(node) = 0 /\ node \notin Opening \cup {"LOOP_BODY", "BLOCK"}
      /\ ~IsDeclaration(v)
  BY <1>1 DEF Opening, Closing, ScopedOps, Arity, Ops, Pushes, IsDeclaration
<1>9. NestVisit(v, 0, marks, [n |-> 0, marks |-> rest])
  <2>1. CASE node = "BLOCK_END" /\ Ending({"BLOCK"}, node)
    <3>1. ~NeedsLocal(Top(calls)) /\ node \notin Closing
      BY <2>1 DEF Ending, NeedsLocal, ScopedOps, Closing
    <3> QED
      BY <1>1, <1>6, <1>7, <1>8, <3>1 DEF NestVisit
  <2>2. CASE node \in {"IF_END", "LOOP_END"} /\ Top(calls).visit \in {"IF_BODY", "LOOP_BODY"}
    <3>1. NeedsLocal(Top(calls)) /\ node \in Closing
      BY <2>2 DEF NeedsLocal, ScopedOps, Closing
    <3>2. MarkOf(Top(calls)) = MarkAt(v, 0)
      BY <1>1, <1>2, <1>4, <2>2 DEF MarkOf, MarkAt, ScopedOps
    <3> QED
      BY <1>1, <1>6, <1>7, <1>8, <3>1, <3>2 DEF NestVisit
  <2> QED
    BY <2>1, <2>2 DEF Ending
<1>10. 0 = Len(refs) - Arity(v.node)
  BY <1>1, <1>3, <1>8
<1> QED
  BY <1>1, <1>3, <1>5, <1>6, <1>7, <1>8, <1>9, <1>10, OneNested DEF NestReady

LEMMA NotEmpty == ASSUME NEW S, NEW s \in Seq(S), Len(s) = 1 PROVE s # <<>>
  OBVIOUS

\* The condition has been visited, the body's block begins: two visits.
LEMMA EnterBodyKeepsNest == ASSUME NestReady, NEW k \in Conditionals, EnterBody(k) PROVE NestInv'
<1> DEFINE below == Pop(calls)
           node  == BodyOf(k)
           n     == Len(refs) - 1
           v     == [node |-> node, text |-> NoText, scope |-> current_scope, bound |-> 0,
                     refs |-> <<Top(refs)>>]
           w     == [node |-> "BLOCK", text |-> NoText, scope |-> Len(scopes) + 1, bound |-> 0,
                     refs |-> <<>>]
           body  == [Top(calls) EXCEPT !.visit = node, !.type = Top(refs)]
           block == [Call("BLOCK", NoText) EXCEPT !.scope = Len(scopes) + 1, !.base = Len(refs) - 1]
           first == Append(ast, v)
<1>1. /\ calls # <<>> /\ Top(calls).visit = k /\ Len(refs) = Top(calls).base + 1
      /\ ast' = first \o <<w>> /\ refs' = Pop(refs) /\ calls' = below \o <<body, block>>
      /\ BlockScopes(ast) /\ DefRefInv
  BY DEF EnterBody, InCall, Visited, NestReady, NestInv
<1>2. /\ calls \in Seq(CallRecord) /\ refs \in Seq(Type) /\ Top(calls) \in CallRecord
      /\ Len(scopes) \in Nat /\ Top(calls).scope = current_scope /\ current_scope \in 1..Len(scopes)
      /\ below \in Seq(CallRecord) /\ ast \in Seq(Visit)
  BY <1>1, Running, TopAndPop DEF DefRefInv
<1>3. Top(calls).base = 0
  <2>1. Top(calls).visit \notin ScopedOps /\ BasesOK(calls)
    BY <1>1 DEF Conditionals, ScopedOps, TraceInv, NestReady
  <2> QED
    BY <1>1, <1>2, <2>1, BasesPop
<1>4. n = 0 /\ n \in Nat /\ Len(refs') = 0 /\ Top(refs) \in Type
  <2>1. refs # <<>>
    <3>1. Len(refs) = 1 /\ refs \in Seq(Type)
      BY <1>1, <1>2, <1>3
    <3> HIDE DEF v, w, body, block, first
    <3> QED
      BY <3>1, NotEmpty
  <2>2. Len(Pop(refs)) = Len(refs) - 1 /\ Top(refs) \in Type
    BY <1>2, <2>1, TopAndPop
  <2> QED
    BY <1>1, <1>3, <2>2
<1>5. node \in {"IF_BODY", "LOOP_BODY"} /\ (node = "IF_BODY" <=> k = "IF")
      /\ (node = "LOOP_BODY" <=> k = "LOOP")
  BY DEF BodyOf, Conditionals
<1>6. /\ body \in CallRecord /\ body.visit = node /\ body.base = 0 /\ body.scope = current_scope
  <2>1. node \in Visits
    BY <1>5 DEF Visits
  <2> QED
    BY <1>2, <1>3, <1>4, <2>1 DEF CallRecord
<1>7. /\ block \in CallRecord /\ block.visit = "BLOCK" /\ block.base = 0
      /\ block.scope = Len(scopes) + 1
  <2> DEFINE b == Call("BLOCK", NoText)
  <2>1. b \in CallRecord /\ b.visit = "BLOCK"
    <3>1. "BLOCK" \in Visits /\ NoText \in Text
      BY DEF Visits, Text
    <3> QED
      BY <1>1, <3>1, CallIsTyped
  <2> HIDE DEF b
  <2>2. Len(scopes) + 1 \in Nat
    BY <1>2
  <2>3. /\ [b EXCEPT !.scope = Len(scopes) + 1, !.base = Len(refs) - 1] \in CallRecord
        /\ [b EXCEPT !.scope = Len(scopes) + 1, !.base = Len(refs) - 1].visit = "BLOCK"
        /\ [b EXCEPT !.scope = Len(scopes) + 1, !.base = Len(refs) - 1].base = Len(refs) - 1
        /\ [b EXCEPT !.scope = Len(scopes) + 1, !.base = Len(refs) - 1].scope = Len(scopes) + 1
    BY <1>4, <2>1, <2>2 DEF CallRecord
  <2> QED
    BY <1>4, <2>3 DEF b
<1>8. v \in Visit /\ w \in Visit
  <2>1. node \in Visits /\ "BLOCK" \in Visits /\ NoText \in Text
    BY <1>5 DEF Visits, Text
  <2>2. <<Top(refs)>> \in Seq(Type) /\ <<>> \in Seq(Type) /\ Len(scopes) + 1 \in Nat
        /\ current_scope \in Nat
    BY <1>2, <1>4
  <2> QED
    BY <2>1, <2>2 DEF Visit
<1>9. /\ v.node = node /\ v.scope = current_scope
      /\ w.node = "BLOCK" /\ w.scope = Len(scopes) + 1
  OBVIOUS
<1> HIDE DEF v, w, body, block, node, n, below
<1>10. first \in Seq(Visit) /\ ast' = Append(first, w)
       /\ Append(below, body) \in Seq(CallRecord)
       /\ calls' = Append(Append(below, body), block)
  <2>1. first \in Seq(Visit)
    BY <1>2, <1>8
  <2> HIDE DEF first
  <2> QED
    BY <1>1, <1>2, <1>6, <1>7, <1>8, <2>1
<1>11. PICK marks \in Seq(Mark) : \E rest \in Seq(Mark) :
              /\ NestReached(ast, Len(refs), marks)
              /\ Below(marks, Top(calls)) /\ Marked(below, rest) /\ Below(rest, Top(calls))
              /\ marks = IF NeedsLocal(Top(calls)) THEN Append(rest, MarkOf(Top(calls))) ELSE rest
  BY <1>1, NestHere DEF NestReady, below
<1>12. PICK rest \in Seq(Mark) :
              /\ Marked(below, rest) /\ Below(rest, Top(calls))
              /\ marks = IF NeedsLocal(Top(calls)) THEN Append(rest, MarkOf(Top(calls))) ELSE rest
  BY <1>11
<1> DEFINE after == Append(rest, MarkOf(body))
<1>13. /\ MarkOf(body) \in Mark /\ MarkOf(body) = MarkAt(v, n)
       /\ MarkOf(body).base = 0 /\ MarkOf(body).scope = current_scope
  BY <1>4, <1>5, <1>6, <1>9, MarkIsTyped DEF MarkOf, MarkAt, ScopedOps
<1>14. after \in Seq(Mark) /\ Marked(Append(below, body), after)
  <2>1. Below(rest, body)
    BY <1>2, <1>3, <1>5, <1>6, <1>12 DEF Below, LowMark
  <2>2. NeedsLocal(body) /\ body.visit # "BLOCK"
    BY <1>5, <1>6 DEF NeedsLocal
  <2> QED
    BY <1>2, <1>6, <1>12, <1>13, <2>1, <2>2, MarkPush
<1>15. \A i \in 1..Len(after) : after[i].base <= 0 /\ after[i].scope <= current_scope
  <2>1. ASSUME NEW i \in 1..Len(after) PROVE after[i].base <= 0 /\ after[i].scope <= current_scope
    <3>1. after[i] = MarkOf(body) \/ (i \in 1..Len(rest) /\ after[i] = rest[i])
      BY <1>13
    <3> HIDE DEF after
    <3> QED
      BY <1>2, <1>3, <1>12, <1>13, <3>1 DEF Below, LowMark
  <2> QED
    BY <2>1
<1>16. node = "LOOP_BODY" => marks = after
  <2>1. ASSUME k = "LOOP" PROVE marks = after
    <3>1. NeedsLocal(Top(calls)) /\ MarkOf(Top(calls)) = MarkOf(body)
      BY <1>1, <1>2, <1>3, <1>5, <1>6, <2>1 DEF NeedsLocal, MarkOf, ScopedOps
    <3> QED
      BY <1>12, <3>1
  <2> QED
    BY <1>5, <2>1
<1>17. node = "IF_BODY" => marks = rest
  <2>1. ASSUME k = "IF" PROVE marks = rest
    <3>1. ~NeedsLocal(Top(calls))
      BY <1>1, <2>1 DEF NeedsLocal, ScopedOps
    <3> QED
      BY <1>12, <3>1
  <2> QED
    BY <1>5, <2>1
<1>18. Low(marks, n) /\ Low(after, 0)
  <2>1. Top(calls).base <= n
    BY <1>3, <1>4
  <2>2. Low(marks, n)
    BY <1>2, <1>4, <1>11, <2>1, BelowIsLow
  <2> QED
    BY <1>15, <2>2 DEF Low
<1>19. NestVisit(v, n, marks, [n |-> 0, marks |-> after])
  <2>1. /\ Pushes(node) = 0 /\ node \notin Closing /\ (node \in Opening <=> node = "IF_BODY")
        /\ ~IsDeclaration(v)
    BY <1>5, <1>9 DEF Opening, Closing, ScopedOps, Ops, Pushes, IsDeclaration
  <2>2. node = "IF_BODY" => after = Append(marks, MarkAt(v, n))
    BY <1>13, <1>17
  <2>3. node = "LOOP_BODY" => after = marks /\ marks = Append(rest, MarkAt(v, n))
    BY <1>13, <1>16
  <2> HIDE DEF after
  <2> QED
    BY <1>4, <1>5, <1>9, <1>18, <2>1, <2>2, <2>3 DEF NestVisit
<1> HIDE DEF after
<1>20. NestReached(first, 0, after)
  <2>1. Len(refs) \in Nat /\ 0 \in Nat /\ n = Len(refs) - Arity(v.node)
    <3>1. Arity(node) = 1
      BY <1>5 DEF Arity, Ops
    <3> QED
      BY <1>2, <1>9, <3>1 DEF n
  <2> QED
    BY <1>2, <1>8, <1>11, <1>14, <1>19, <2>1, NextNested
<1>21. NestReached(Append(first, w), 0, after)
  <2> DEFINE zero == 0
  <2>1. Arity("BLOCK") = 0 /\ Pushes("BLOCK") = 0 /\ ~IsDeclaration(w)
        /\ "BLOCK" \notin Opening \cup Closing
    BY <1>9 DEF Opening, Closing, ScopedOps, Arity, Ops, Pushes, IsDeclaration
  <2>2. zero \in Nat /\ zero - Arity(w.node) = zero /\ zero + Pushes(w.node) = zero
        /\ Low(after, zero) /\ NestReached(first, zero, after)
    BY <1>9, <1>18, <1>20, <2>1
  <2> HIDE DEF zero
  <2>3. NestVisit(w, zero - Arity(w.node), after, [n |-> zero, marks |-> after])
    BY <1>9, <2>1, <2>2 DEF NestVisit
  <2>4. NestReached(Append(first, w), zero, after)
    BY <1>8, <1>10, <1>14, <2>2, <2>3, NextNested
  <2> QED
    BY <2>4 DEF zero
<1>22. BlockScopes(ast')
  <2>1. BlockScopes(first)
    BY <1>1, <1>2, <1>5, <1>8, <1>9, VisitKeepsBlockScopes
  <2>2. \A i \in DOMAIN first : first[i].scope < w.scope
    <3>1. \A i \in DOMAIN ast : ast[i].scope \in DOMAIN scopes
      BY DEF NestReady, VisitsInv, VisitsOK
    <3>2. DOMAIN scopes = 1..Len(scopes)
      BY <1>1, Running
    <3>3. ASSUME NEW i \in DOMAIN first PROVE first[i] = v \/ (i \in DOMAIN ast /\ first[i] = ast[i])
      BY <1>2, <1>8, AppendedVisit
    <3> HIDE DEF first
    <3>4. v.scope < w.scope /\ \A i \in DOMAIN ast : ast[i].scope < w.scope
      BY <1>2, <1>9, <3>1, <3>2
    <3> QED
      BY <3>3, <3>4
  <2> HIDE DEF first
  <2> QED
    BY <1>8, <1>10, <2>1, <2>2, VisitKeepsBlockScopes
<1>23. Marked(calls', after)
  <2>1. Below(after, block)
    <3>1. \A i \in 1..Len(after) : after[i].scope \in Nat
      BY <1>14, MarksTyped
    <3> QED
      BY <1>2, <1>7, <1>15, <3>1 DEF Below, LowMark
  <2>2. ~NeedsLocal(block)
    BY <1>7 DEF NeedsLocal, ScopedOps
  <2> QED
    BY <1>7, <1>10, <1>14, <2>1, <2>2, MarkPush
<1> QED
  BY <1>4, <1>10, <1>14, <1>18, <1>21, <1>22, <1>23 DEF NestInv

LEMMA BlocksKeepNest == ASSUME NestReady, VisitBlocks PROVE NestInv'
<1>1. CASE Throw
  BY <1>1 DEF Throw, NestInv, NestReady
<1>2. CASE LeaveBlock
  <2>1. Ending({"BLOCK"}, "BLOCK_END")
    BY <1>2 DEF LeaveBlock, InCall, Ending
  <2> QED
    BY <2>1, EndingKeepsNest
<1>3. ASSUME NEW k \in Conditionals, EndConditional(k), ~Throw PROVE NestInv'
  <2>1. Ending({BodyOf(k)}, EndOf(k))
    BY <1>3 DEF EndConditional, InCall, Ending
  <2>2. \/ BodyOf(k) = "IF_BODY" /\ EndOf(k) = "IF_END"
        \/ BodyOf(k) = "LOOP_BODY" /\ EndOf(k) = "LOOP_END"
    BY DEF BodyOf, EndOf, Conditionals
  <2> QED
    BY <2>1, <2>2, EndingKeepsNest
<1> QED
  BY <1>1, <1>2, <1>3, EnterFileKeepsNest, EnterBodyKeepsNest DEF VisitBlocks

\* The three invariants that CodeGen's proofs need of the walk.
WalkedInv == ChainsOK(scopes) /\ RefsInv /\ NestInv

LEMMA WalkedInvInit == ASSUME DefRefInit PROVE WalkedInv
<1>1. ast = <<>> /\ calls = <<>> /\ refs = <<>> /\ scopes = <<>>
  BY DEF DefRefInit
<1>2. ChainsOK(scopes) /\ RefsInv
  BY <1>1 DEF ChainsOK, RefsInv, TestsOK
<1>3. NestReached(<<>>, 0, <<>>)
  <2> DEFINE s == [n |-> 0, marks |-> <<>>]
             M == <<s>>
             none == <<>>
  <2>1. s \in Nest
    BY DEF Nest
  <2>2. /\ M \in Seq(Nest) /\ Len(M) = 1 /\ M[1] = s
        /\ Len(none) = 0 /\ DOMAIN none = {} /\ Len(none) + 1 = 1
    BY <2>1
  <2> HIDE DEF M, none
  <2>3. Nested(none, M)
    BY <2>2 DEF Nested
  <2>4. NestReached(none, 0, <<>>)
    BY <2>2, <2>3 DEF NestReached
  <2> QED
    BY <2>4 DEF none
<1>4. BlockScopes(<<>>) /\ <<>> \in Seq(Mark) /\ Low(<<>>, 0) /\ Len(<<>>) = 0
  BY DEF BlockScopes, Low
<1>5. NestInv
  BY <1>1, <1>3, <1>4, NothingMarked DEF NestInv
<1> QED
  BY <1>2, <1>5 DEF WalkedInv

LEMMA WalkedInvStep ==
    ASSUME DefRefInv, VisitsInv, TraceInv, WalkedInv, [DefRefNext \/ Returned]_defref_vars
    PROVE  WalkedInv'
<1>1. DefRefInv' /\ ChainsOK(scopes)' /\ RefsInv'
  BY DefRefInvStep, ChainsStep, RefsInvStep DEF WalkedInv
<1>2. NestReady
  BY <1>1 DEF NestReady, WalkedInv
<1>3. NestInv'
  <2>1. CASE UNCHANGED defref_vars
    BY <1>2, <2>1 DEF defref_vars, NestInv, NestReady
  <2> QED
    BY <1>2, <2>1, BlocksKeepNest, StatementsKeepNest, EXPRKeepsNest DEF DefRefNext, Returned
<1> QED
  BY <1>1, <1>3 DEF WalkedInv

\* When the walk has come to its end nothing is marked, and every condition was an int.
LEMMA NestOfWholeWalk ==
    ASSUME TraceInv, WalkedInv, calls = <<>>
    PROVE  /\ NestReached(ast, 0, <<>>) /\ BlockScopes(ast) /\ ChainsOK(scopes)
           /\ \A i \in DOMAIN ast : /\ Referred(ast[i])
                                    /\ ast[i].node \in Tests => ast[i].refs = <<"int">>
<1>1. refs = <<>>
  BY DEF TraceInv, NothingPending
<1>2. PICK marks \in Seq(Mark) : Marked(calls, marks) /\ NestReached(ast, Len(refs), marks)
  BY DEF WalkedInv, NestInv
<1>3. marks = <<>> /\ Len(refs) = 0
  BY <1>1, <1>2, NothingMarked
<1> QED
  BY <1>2, <1>3 DEF WalkedInv, NestInv, RefsInv, TestsOK

----------------------------------------------------------------------------
(* The walk of CodeGen. *)

Ends == {"BLOCK_END", "GENERATOR_END", "FILTER_END"}

\* CodeGen works on a tree that DefRef has finished.  It has visited everything in
\* front of pos: its scope is the one that was left, the variables declared there
\* have storage.
ReplayInv ==
    /\ codegen \in {"idle", "emitting", "generated", "crashed", "threw"}
    /\ codegen # "idle" => status = "validated"
    /\ pos \in 1..(Len(ast) + 1)
    /\ codegen = "idle" => pos = 1
    /\ cg_scope = IF pos = 1 THEN NoScope ELSE ScopeAfter(ast[pos - 1], scopes)
    /\ DOMAIN storage = {<<ast[j].scope, ast[j].text>> :
                            j \in {i \in DOMAIN ast : i < pos /\ IsDeclaration(ast[i])}}

\* One visit of CodeGen, as far as the scope and the storage are concerned.
Replayed ==
    /\ codegen = "emitting" /\ codegen' = "emitting"
    /\ pos <= Len(ast) /\ pos' = pos + 1
    /\ cg_scope' = IF ThisVisit.node \in {"BLOCK"} \cup ScopedOps THEN ThisVisit.scope
                   ELSE IF ThisVisit.node \in Ends THEN scopes[cg_scope].enclosing
                   ELSE cg_scope
    /\ DOMAIN storage' = DOMAIN storage \cup
                            (IF IsDeclaration(ThisVisit)
                             THEN {<<ThisVisit.scope, ThisVisit.text>>} ELSE {})

LEMMA StorageGiven ==
    ASSUME NEW symbol, GiveStorage(symbol) PROVE DOMAIN storage' = DOMAIN storage \cup {symbol}
<1> DEFINE given == [s \in DOMAIN storage \cup {symbol} |->
                        IF s = symbol THEN Result("address") ELSE storage[s]]
<1>1. DOMAIN given = DOMAIN storage \cup {symbol}
  OBVIOUS
<1> QED
  BY <1>1 DEF GiveStorage

\* A step of CodeGen is the beginning, the end, a crash or one visit.
LEMMA CodeGenStepIsReplay ==
    ASSUME CodeGenNext
    PROVE  /\ UNCHANGED defref_vars
           /\ \/ /\ codegen = "idle" /\ codegen' = "emitting" /\ status = "validated"
                 /\ pos' = 1 /\ UNCHANGED <<cg_scope, storage>>
              \/ /\ codegen = "emitting" /\ codegen' \in {"generated", "crashed", "threw"}
                 /\ UNCHANGED <<pos, cg_scope, storage>>
              \/ Replayed
<1> DEFINE G == \/ /\ codegen = "idle" /\ codegen' = "emitting" /\ status = "validated"
                   /\ pos' = 1 /\ UNCHANGED <<cg_scope, storage>>
                \/ /\ codegen = "emitting" /\ codegen' \in {"generated", "crashed", "threw"}
                   /\ UNCHANGED <<pos, cg_scope, storage>>
                \/ Replayed
<1> SUFFICES G
  BY DEF CodeGenNext
<1>1. CASE GenerateMlir \/ GenReturn
  BY <1>1 DEF GenerateMlir, GenReturn
<1>2. CASE GenBLOCK
  BY <1>2 DEF GenBLOCK, Visiting, Advance, Replayed, LeaveCgScope, GetEnclosingScope,
     IsDeclaration, ScopedOps, Ends
<1>3. CASE GenIF_BLOCK \/ GenEndIF_BLOCK \/ GenLOOP_BLOCK \/ GenLoopBody \/ GenEndLOOP_BLOCK
  <2>1. ThisVisit.node \in {"IF_BODY", "IF_END", "LOOP", "LOOP_BODY", "LOOP_END"}
    BY <1>3 DEF GenIF_BLOCK, GenEndIF_BLOCK, GenLOOP_BLOCK, GenLoopBody, GenEndLOOP_BLOCK, Visiting
  <2>2. /\ codegen = "emitting" /\ pos <= Len(ast) /\ pos' = pos + 1
        /\ UNCHANGED <<cg_scope, storage, codegen>>
    BY <1>3 DEF GenIF_BLOCK, GenEndIF_BLOCK, GenLOOP_BLOCK, GenLoopBody, GenEndLOOP_BLOCK,
       Visiting, Advance
  <2> QED
    BY <2>1, <2>2 DEF Replayed, IsDeclaration, ScopedOps, Ends
<1>4. CASE GenDECL
  <2>1. DOMAIN storage' = DOMAIN storage \cup {<<ThisVisit.scope, ThisVisit.text>>}
    BY <1>4, StorageGiven DEF GenDECL
  <2> QED
    BY <1>4, <2>1 DEF GenDECL, Visiting, Advance, Replayed, IsDeclaration, ScopedOps, Ends
<1>5. CASE GenASSIGN \/ GenID \/ GenINT
  <2>1. ThisVisit.node \in {"ASSIGN", "ID", "INT"} /\ codegen = "emitting" /\ pos <= Len(ast)
    BY <1>5 DEF GenASSIGN, GenID, GenINT, Visiting
  <2>2. \/ codegen' \in {"crashed", "threw"} /\ UNCHANGED <<pos, cg_scope, storage>>
        \/ pos' = pos + 1 /\ UNCHANGED <<cg_scope, storage, codegen>>
    BY <1>5 DEF GenASSIGN, GenID, GenINT, CrashCodegen, Advance
  <2> QED
    BY <2>1, <2>2 DEF Replayed, IsDeclaration, ScopedOps, Ends
<1>6. CASE GenPRINT \/ GenOp
  <2>1. ThisVisit.node \in {"PRINT"} \cup Ops
    BY <1>6 DEF GenPRINT, GenOp, Visiting
  <2>2. /\ codegen = "emitting" /\ pos <= Len(ast) /\ pos' = pos + 1
        /\ UNCHANGED <<cg_scope, storage, codegen>>
    BY <1>6 DEF GenPRINT, GenOp, Visiting, Advance
  <2> QED
    BY <2>1, <2>2 DEF Replayed, IsDeclaration, Ops, ScopedOps, Ends
<1>7. CASE GenScoped
  <2>1. DOMAIN storage' = DOMAIN storage \cup {<<ThisVisit.scope, ThisVisit.text>>}
    BY <1>7, StorageGiven DEF GenScoped
  <2>2. /\ codegen = "emitting" /\ codegen' = codegen /\ pos <= Len(ast) /\ pos' = pos + 1
        /\ ThisVisit.node \in ScopedOps /\ cg_scope' = ThisVisit.scope
    BY <1>7 DEF GenScoped, Visiting, Advance
  <2> QED
    BY <2>1, <2>2 DEF Replayed, IsDeclaration
<1>8. CASE GenEndScoped
  <2>1. /\ codegen = "emitting" /\ codegen' = codegen /\ pos <= Len(ast) /\ pos' = pos + 1
        /\ ThisVisit.node \in {"GENERATOR_END", "FILTER_END"}
        /\ cg_scope' = scopes[cg_scope].enclosing /\ storage' = storage
    BY <1>8 DEF GenEndScoped, Visiting, Advance, LeaveCgScope, GetEnclosingScope
  <2> QED
    BY <2>1 DEF Replayed, IsDeclaration, ScopedOps, Ends
<1> QED
  BY <1>1, <1>2, <1>3, <1>4, <1>5, <1>6, <1>7, <1>8 DEF CodeGenNext

\* The scope that CodeGen is in before a visit is the scope DefRef was in.
LEMMA SameScope ==
    ASSUME DefRefInv, VisitsInv, ReplayInv, codegen = "emitting"
    PROVE  cg_scope = IF pos <= Len(ast) THEN ScopeBefore(ast[pos], scopes) ELSE NoScope
<1>1. ast \in Seq(Visit) /\ Len(ast) \in Nat /\ pos \in 1..(Len(ast) + 1) /\ ast # <<>>
      /\ DOMAIN ast = 1..Len(ast) /\ Len(ast) # 0
  BY DEF DefRefInv, ReplayInv, VisitsInv
<1>2. current_scope = NoScope /\ Linked(ast, scopes, current_scope)
  BY DEF DefRefInv, ReplayInv, VisitsInv
<1>3. CASE pos = 1
  BY <1>1, <1>2, <1>3 DEF ReplayInv, Linked
<1>4. CASE pos # 1 /\ pos <= Len(ast)
  <2>1. pos - 1 \in DOMAIN ast /\ pos \in DOMAIN ast /\ (pos - 1) + 1 = pos
    BY <1>1, <1>4
  <2>2. ScopeBefore(ast[pos], scopes) = ScopeAfter(ast[pos - 1], scopes)
    BY <1>2, <2>1 DEF Linked
  <2> QED
    BY <1>4, <2>2 DEF ReplayInv
<1>5. CASE pos = Len(ast) + 1
  <2>1. ScopeAfter(Top(ast), scopes) = NoScope /\ Top(ast) = ast[pos - 1] /\ pos # 1 /\ ~(pos <= Len(ast))
    BY <1>1, <1>2, <1>5 DEF Linked, Top
  <2> QED
    BY <2>1 DEF ReplayInv
<1> QED
  BY <1>1, <1>3, <1>4, <1>5

LEMMA ReplayedKeepsInv == ASSUME DefRefInv, VisitsInv, ReplayInv, UNCHANGED defref_vars, Replayed
                          PROVE ReplayInv'
<1>1. Len(ast) \in Nat /\ pos \in Nat /\ pos \in DOMAIN ast /\ DOMAIN ast = 1..Len(ast)
  BY DEF DefRefInv, ReplayInv, Replayed
<1>2. pos' = pos + 1 /\ codegen' = "emitting" /\ status' = "validated" /\ ast' = ast
      /\ scopes' = scopes
  BY DEF Replayed, ReplayInv, defref_vars
<1>3. cg_scope' = ScopeAfter(ast[pos], scopes)
  <2>1. cg_scope = ScopeBefore(ast[pos], scopes)
    BY <1>1, SameScope DEF Replayed
  <2> QED
    BY <2>1 DEF Replayed, ScopeBefore, ScopeAfter, ThisVisit, Ends, ScopedOps
<1>4. DOMAIN storage' = {<<ast[j].scope, ast[j].text>> :
                            j \in {i \in DOMAIN ast : i < pos' /\ IsDeclaration(ast[i])}}
  <2> DEFINE Sym(j) == <<ast[j].scope, ast[j].text>>
             Before(p) == {i \in DOMAIN ast : i < p /\ IsDeclaration(ast[i])}
  <2>1. Before(pos + 1) = Before(pos) \cup (IF IsDeclaration(ast[pos]) THEN {pos} ELSE {})
    BY <1>1
  <2>2. {Sym(j) : j \in Before(pos + 1)} =
           {Sym(j) : j \in Before(pos)} \cup (IF IsDeclaration(ast[pos]) THEN {Sym(pos)} ELSE {})
    <3> HIDE DEF Sym, Before
    <3> QED
      BY <2>1
  <2>3. DOMAIN storage = {Sym(j) : j \in Before(pos)}
    BY DEF ReplayInv
  <2> QED
    BY <1>2, <2>2, <2>3 DEF Replayed, ThisVisit
<1> QED
  BY <1>1, <1>2, <1>3, <1>4 DEF ReplayInv

LEMMA ReplayInvInit == DefRefInit /\ CodeGenInit => ReplayInv
<1> SUFFICES ASSUME DefRefInit, CodeGenInit PROVE ReplayInv
  OBVIOUS
<1>1. DOMAIN storage = {} /\ DOMAIN ast = {}
  BY DEF DefRefInit, CodeGenInit
<1> QED
  BY <1>1 DEF DefRefInit, CodeGenInit, ReplayInv

\* DefRef is done when CodeGen begins.
LEMMA ValidateKeepsReplayInv ==
    ASSUME DefRefInv, ReplayInv, DefRefInv', DefRefNext, UNCHANGED codegen_vars
    PROVE  ReplayInv'
<1>1. status = "visiting"
  BY DEF DefRefNext, VisitBlocks, VisitStatement, VisitEXPR, EnterFile, EnterBody, LeaveBlock,
     EndConditional, VisitDECL, BeginStatement, EndASSIGN, EndPRINT, VisitINT, VisitID, VisitOp,
     EnterScoped, LeaveScoped
<1>2. codegen = "idle" /\ pos = 1 /\ cg_scope = NoScope /\ DOMAIN storage = {}
  BY <1>1 DEF ReplayInv, DefRefInv
<1>3. /\ codegen' = "idle" /\ pos' = 1 /\ cg_scope' = NoScope /\ DOMAIN storage' = {}
      /\ Len(ast') \in Nat /\ DOMAIN ast' = 1..Len(ast')
  BY <1>2 DEF codegen_vars, DefRefInv
<1>4. {i \in DOMAIN ast' : i < pos' /\ IsDeclaration(ast'[i])} = {}
  BY <1>3
<1> QED
  BY <1>3, <1>4 DEF ReplayInv

LEMMA GenerateKeepsReplayInv ==
    ASSUME DefRefInv, VisitsInv, ReplayInv, CodeGenNext PROVE ReplayInv'
<1>1. CASE Replayed
  BY <1>1, CodeGenStepIsReplay, ReplayedKeepsInv
<1>2. CASE ~Replayed
  <2>1. /\ UNCHANGED defref_vars
        /\ UNCHANGED <<pos, cg_scope, storage>>
        /\ codegen' \in {"emitting", "generated", "crashed", "threw"}
        /\ status = "validated"
    BY <1>2, CodeGenStepIsReplay DEF ReplayInv
  <2> QED
    BY <2>1 DEF ReplayInv, defref_vars
<1> QED
  BY <1>1, <1>2

----------------------------------------------------------------------------
(* What the lookups of the two walks say of each other. *)

\* Complete tables: the scopes that hold a name are those with a declaration of it.
LEMMA HoldersAreDeclarations ==
    ASSUME DefRefInv, VisitsInv, NEW i \in DOMAIN ast, IsUse(ast[i])
    PROVE  /\ CgBound(i) \in scopes[ast[i].scope].chain
           /\ CgBound(i) \in Nat /\ ast[i].bound \in Nat /\ ast[i].bound <= CgBound(i)
           /\ \E j \in DOMAIN ast : Declaring(ast[j], ast[i].text, CgBound(i))
           /\ \A j \in DOMAIN ast : \A s \in scopes[ast[i].scope].chain :
                  Declaring(ast[j], ast[i].text, s) => s <= CgBound(i)
<1> DEFINE s0 == ast[i].scope
           name == ast[i].text
           H == Holders(scopes, s0, name)
<1>1. s0 \in DOMAIN scopes /\ ScopesOK(scopes) /\ BoundBefore(ast, scopes, i) /\ name \in Name
      /\ s0 \in Nat
  <2>1. BoundBefore(ast, scopes, i) /\ s0 \in DOMAIN scopes
    BY DEF VisitsInv, VisitsOK, InnermostThen
  <2>2. scopes \in Seq(ScopeRecord) /\ ScopesOK(scopes)
    BY DEF DefRefInv, ScopesOK
  <2> QED
    BY <2>1, <2>2 DEF BoundBefore
<1>2. ASSUME NEW j \in DOMAIN ast, NEW s \in scopes[s0].chain, Declaring(ast[j], name, s)
      PROVE  s \in H
  <2>1. InItsScope(ast[j], scopes)
    BY <1>2 DEF VisitsInv, VisitsOK, Effective, Declaring
  <2> QED
    BY <1>2, <2>1 DEF Holders, Declares, InItsScope, Declaring
<1>3. ast[i].bound \in H
  BY <1>1, <1>2 DEF BoundBefore
<1>4. H \subseteq 1..s0
  BY <1>1 DEF ScopesOK, Holders
<1>5. CgBound(i) \in H /\ \A u \in H : u <= CgBound(i)
  <2>1. \E t \in H : \A u \in H : u <= t
    BY <1>1, <1>3, <1>4, LargestOf
  <2> QED
    BY <1>3, <2>1 DEF CgBound, Resolve
<1>6. \E j \in DOMAIN ast : Declaring(ast[j], name, CgBound(i))
  <2>1. CgBound(i) \in DOMAIN scopes /\ name \in DOMAIN scopes[CgBound(i)].symbols
    <3>1. 1..s0 \subseteq DOMAIN scopes
      BY <1>1 DEF ScopesOK
    <3> QED
      BY <1>4, <1>5, <3>1 DEF Holders, Declares
  <2> QED
    BY <1>1, <2>1 DEF VisitsInv, VisitsOK, Backed
<1>7. CgBound(i) \in scopes[s0].chain /\ CgBound(i) \in Nat /\ ast[i].bound \in Nat
  BY <1>3, <1>4, <1>5 DEF Holders
<1> QED
  BY <1>2, <1>3, <1>5, <1>6, <1>7

\* The lookup with complete tables differs from DefRef's exactly when a declaration
\* of the name follows, in a block between the use and what it was bound to.
LEMMA Rebound ==
    ASSUME DefRefInv, VisitsInv, NEW i \in DOMAIN ast, IsUse(ast[i])
    PROVE  CgBound(i) # ast[i].bound <=> ShadowedLater(i)
<1>1. ast[i].scope \in DOMAIN scopes /\ BoundBefore(ast, scopes, i) /\ ScopesOK(scopes)
      /\ ast[i].scope \in Nat /\ Len(ast) \in Nat /\ DOMAIN ast = 1..Len(ast)
  BY DEF VisitsInv, VisitsOK, DefRefInv, InnermostThen, ScopesOK
<1>2. ASSUME CgBound(i) # ast[i].bound PROVE ShadowedLater(i)
  <2>1. PICK j \in DOMAIN ast : Declaring(ast[j], ast[i].text, CgBound(i))
    BY HoldersAreDeclarations
  <2>2. CgBound(i) > ast[i].bound
    BY <1>2, HoldersAreDeclarations
  <2>3. ~(j < i)
    BY <1>1, <2>1, <2>2, HoldersAreDeclarations DEF BoundBefore
  <2>4. j # i
    BY <2>1 DEF IsUse, Declaring, IsDeclaration, ScopedOps
  <2>5. j > i
    BY <1>1, <2>3, <2>4
  <2>6. ast[j].scope \in scopes[ast[i].scope].chain /\ ast[j].text = ast[i].text
        /\ ast[j].scope > ast[i].bound
    BY <2>1, <2>2, HoldersAreDeclarations DEF Declaring
  <2>7. ast[j].scope <= ast[i].scope /\ ast[j].scope \in Nat
    BY <1>1, <2>6 DEF ScopesOK
  <2>8. ast[j].node \notin ScopedOps
    BY <1>1, <2>5, <2>7 DEF VisitsInv, VisitsOK, FreshScopes
  <2>9. ast[j].node = "DECL"
    BY <2>1, <2>8 DEF Declaring, IsDeclaration
  <2> QED
    BY <2>5, <2>6, <2>9 DEF ShadowedLater
<1>3. ASSUME ShadowedLater(i) PROVE CgBound(i) # ast[i].bound
  <2>1. PICK j \in DOMAIN ast : /\ ast[j].node = "DECL" /\ ast[j].text = ast[i].text
                                /\ ast[j].scope \in scopes[ast[i].scope].chain
                                /\ ast[j].scope > ast[i].bound
    BY <1>3 DEF ShadowedLater
  <2>2. Declaring(ast[j], ast[i].text, ast[j].scope)
    BY <2>1 DEF Declaring, IsDeclaration
  <2>3. ast[j].scope <= CgBound(i)
    BY <2>1, <2>2, HoldersAreDeclarations
  <2>4. ast[j].scope \in Nat
    BY <1>1, <2>1 DEF ScopesOK
  <2> QED
    BY <2>1, <2>3, <2>4, HoldersAreDeclarations
<1> QED
  BY <1>2, <1>3

LEMMA ReboundOnlyByLater == ASSUME DefRefInv, VisitsInv PROVE ReboundOnlyByLaterDeclaration
  BY Rebound DEF ReboundOnlyByLaterDeclaration, Uses, IsUse

LEMMA ReplayIsAligned == ASSUME DefRefInv, VisitsInv, ReplayInv PROVE ScopesAligned
  BY SameScope DEF ScopesAligned, ScopeAtVisit, ScopeBefore

\* A variable has storage when CodeGen comes to a use of it iff it is the one that
\* DefRef meant.
LEMMA StorageIffNotRebound ==
    ASSUME DefRefInv, VisitsInv, ReplayInv, Visiting({"ID", "ASSIGN"})
    PROVE  /\ pos \in DOMAIN ast /\ IsUse(ast[pos]) /\ cg_scope = ast[pos].scope
           /\ HasStorage <=> CgBound(pos) = ast[pos].bound
<1>1. /\ codegen = "emitting" /\ pos \in DOMAIN ast /\ IsUse(ast[pos])
      /\ DOMAIN ast = 1..Len(ast) /\ Len(ast) \in Nat
      /\ ast[pos].node \notin {"BLOCK"} \cup ScopedOps
  BY DEF Visiting, ThisVisit, IsUse, ReplayInv, DefRefInv, ScopedOps
<1>2. cg_scope = ast[pos].scope
  BY <1>1, SameScope DEF ScopeBefore
<1>3. CgSymbol(ThisVisit.text) = <<CgBound(pos), ast[pos].text>>
  BY <1>2 DEF CgSymbol, CgBound, ThisVisit
<1>4. BoundBefore(ast, scopes, pos)
  BY <1>1 DEF VisitsInv, VisitsOK, InnermostThen
<1>5. ASSUME CgBound(pos) = ast[pos].bound PROVE HasStorage
  <2>1. PICK j \in DOMAIN ast : j < pos /\ Declaring(ast[j], ast[pos].text, ast[pos].bound)
    BY <1>4 DEF BoundBefore
  <2>2. <<ast[j].scope, ast[j].text>> \in DOMAIN storage
    BY <2>1 DEF ReplayInv, Declaring
  <2> QED
    BY <1>3, <1>5, <2>1, <2>2 DEF HasStorage, Declaring
<1>6. ASSUME HasStorage PROVE CgBound(pos) = ast[pos].bound
  <2>1. PICK j \in DOMAIN ast : /\ j < pos /\ IsDeclaration(ast[j])
                                /\ <<CgBound(pos), ast[pos].text>> = <<ast[j].scope, ast[j].text>>
    BY <1>3, <1>6 DEF HasStorage, ReplayInv
  <2>2. Declaring(ast[j], ast[pos].text, CgBound(pos))
    BY <2>1 DEF Declaring
  <2>3. CgBound(pos) <= ast[pos].bound
    BY <1>1, <1>4, <2>1, <2>2, HoldersAreDeclarations DEF BoundBefore
  <2> QED
    BY <1>1, <2>3, HoldersAreDeclarations
<1> QED
  BY <1>1, <1>2, <1>5, <1>6

LEMMA StorageUnlessShadowed == ASSUME DefRefInv, VisitsInv, ReplayInv PROVE StorageUnlessShadowedLater
<1> SUFFICES ASSUME Visiting({"ID", "ASSIGN"}) PROVE HasStorage <=> ~ShadowedLater(pos)
  BY DEF StorageUnlessShadowedLater
<1> QED
  BY StorageIffNotRebound, Rebound

----------------------------------------------------------------------------
(* The blocks CodeGen has begun. *)

Operations == Terminators \cup
              {"one", "zero", "constant", "alloca", "load", "store", "for", "if", "size",
               "new_vector", "empty", "put", "keep", "int_op", "vector_op", "int_to_vector",
               "vector_range", "vector_index", "vector_index_vector", "printf", "print_vector"}
Operation == [op: Operations, text: Text \cup Type \cup Ops,
              args: Seq([type: Type \cup {"address"}, block: Nat, at: Nat]), to: Seq(Nat)]
BlockRecord == [body: Seq(Operation), within: SUBSET Nat]
Value(bs) == [type: Type, block: DOMAIN bs, at: Nat]

\* A block of main has no terminator as long as CodeGen is going to add to it; a
\* region's block has its yield from the beginning.
Straight(ops) == \A i \in DOMAIN ops : ops[i].op \notin Terminators
Terminated(ops) == /\ ops # <<>>
                   /\ \A i \in DOMAIN ops : ops[i].op \in Terminators <=> i = Len(ops)
BlockOK(block, pending) ==
    IF block.within = {} THEN IF pending THEN Straight(block.body) ELSE Terminated(block.body)
                         ELSE Terminated(block.body) /\ Top(block.body).op = "yield"

\* A place where CodeGen is adding operations, a block it will add to.
PlaceOK(bs, p, inside) ==
    /\ p \in [block: DOMAIN bs, at: Nat]
    /\ bs[p.block].within # {} <=> inside
    /\ p.at = Len(bs[p.block].body) - (IF inside THEN 1 ELSE 0)
Blank(bs, b) == b \in DOMAIN bs /\ bs[b] = Block(<<>>, {})

\* The locals of a visit that has not returned, and the blocks they keep pending.
LocalOK(bs, l, kind, inside) ==
    IF kind \in ScopedOps
    THEN /\ l \in [save: [block: Nat, at: Nat], result: Value(bs), region: DOMAIN bs]
         /\ l.result.type = "vector" /\ PlaceOK(bs, l.save, inside)
    ELSE /\ l \in [header: Nat, body: Nat, merge: Nat]
         /\ Blank(bs, l.merge)
         /\ kind = "LOOP" => Blank(bs, l.body) /\ l.body # l.merge
         /\ kind # "IF" => l.header # 0
Pending(l, kind) == IF kind \in ScopedOps THEN {l.save.block}
                    ELSE IF kind = "LOOP" THEN {l.body, l.merge} ELSE {l.merge}
Inside(open, k) == k # 0 /\ open[k] \in ScopedOps

AnyLocal == [save: [block: Nat, at: Nat], result: [type: Type, block: Nat, at: Nat], region: Nat]
            \cup [header: Nat, body: Nat, merge: Nat]
Locals(bs, ls, open) ==
    /\ ls \in Seq(AnyLocal) /\ open \in Seq(LocalKind) /\ Len(ls) = Len(open)
    /\ \A k \in 1..Len(open) : LocalOK(bs, ls[k], open[k], Inside(open, k - 1))
    /\ \A j, k \in 1..Len(open) : j < k => Pending(ls[j], open[j]) \cap Pending(ls[k], open[k]) = {}
Awaited(b, ls, open) == \E k \in 1..Len(open) : b \in Pending(ls[k], open[k])

BlocksTyped(bs) == bs \in Seq(BlockRecord) /\ \A b \in DOMAIN bs : bs[b].within \subseteq DOMAIN bs

\* Every block is finished, but for those the locals keep and those in "free".
Suspended(bs, free, ls, open) ==
    /\ BlocksTyped(bs) /\ Locals(bs, ls, open)
    /\ \A b \in free : Blank(bs, b) /\ ~Awaited(b, ls, open)
    /\ \A b \in DOMAIN bs : BlockOK(bs[b], b \in free \/ Awaited(b, ls, open))

\* ... and for the one CodeGen is adding to.
Emitting(bs, p, ls, open) ==
    /\ BlocksTyped(bs) /\ Locals(bs, ls, open)
    /\ PlaceOK(bs, p, Inside(open, Len(open))) /\ ~Awaited(p.block, ls, open)
    /\ \A b \in DOMAIN bs : BlockOK(bs[b], b = p.block \/ Awaited(b, ls, open))

LEMMA Concatenated ==
    ASSUME NEW S, NEW s \in Seq(S), NEW t \in Seq(S)
    PROVE  /\ s \o t \in Seq(S) /\ Len(s \o t) = Len(s) + Len(t)
           /\ \A i \in 1..Len(s) : (s \o t)[i] = s[i]
           /\ \A i \in 1..Len(t) : (s \o t)[Len(s) + i] = t[i]
<1> DEFINE r == s \o t
<1>1. /\ r \in Seq(S) /\ Len(r) = Len(s) + Len(t) /\ Len(s) \in Nat /\ Len(t) \in Nat
      /\ \A i \in 1..(Len(s) + Len(t)) : r[i] = IF i <= Len(s) THEN s[i] ELSE t[i - Len(s)]
  BY ConcatProperties
<1> HIDE DEF r
<1>2. \A i \in 1..Len(s) : r[i] = s[i]
  BY <1>1
<1>3. \A i \in 1..Len(t) : r[Len(s) + i] = t[i]
  BY <1>1
<1> QED
  BY <1>1, <1>2, <1>3 DEF r

LEMMA Inserted ==
    ASSUME NEW S, NEW s \in Seq(S), NEW new \in Seq(S), NEW at \in 0..Len(s)
    PROVE  LET r == SubSeq(s, 1, at) \o new \o SubSeq(s, at + 1, Len(s))
           IN  /\ r \in Seq(S) /\ Len(r) = Len(s) + Len(new)
               /\ \A i \in 1..at : r[i] = s[i]
               /\ \A i \in 1..Len(new) : r[at + i] = new[i]
               /\ \A i \in (at + 1)..Len(s) : r[Len(new) + i] = s[i]
<1> DEFINE before == SubSeq(s, 1, at)
           after == SubSeq(s, at + 1, Len(s))
<1>1. /\ before \in Seq(S) /\ Len(before) = at /\ \A i \in 1..at : before[i] = s[i]
  OBVIOUS
<1>2. /\ after \in Seq(S) /\ Len(after) = Len(s) - at
      /\ \A i \in 1..(Len(s) - at) : after[i] = s[at + i]
  OBVIOUS
<1> HIDE DEF before, after
<1> DEFINE first == before \o new
<1>3. /\ first \in Seq(S) /\ Len(first) = at + Len(new)
      /\ \A i \in 1..at : first[i] = s[i]
      /\ \A i \in 1..Len(new) : first[at + i] = new[i]
  <2>1. first \in Seq(S) /\ Len(first) = Len(before) + Len(new)
    BY <1>1, Concatenated
  <2>2. \A i \in 1..Len(before) : first[i] = before[i]
    BY <1>1, Concatenated
  <2>3. \A i \in 1..Len(new) : first[Len(before) + i] = new[i]
    BY <1>1, Concatenated
  <2> HIDE DEF first
  <2> QED
    BY <1>1, <2>1, <2>2, <2>3
<1> HIDE DEF first
<1> DEFINE r == first \o after
<1>4. /\ r \in Seq(S) /\ Len(r) = Len(s) + Len(new)
      /\ \A i \in 1..Len(first) : r[i] = first[i]
      /\ \A i \in 1..Len(after) : r[Len(first) + i] = after[i]
  <2>1. Len(first) + Len(after) = Len(s) + Len(new)
    BY <1>2, <1>3
  <2>2. r \in Seq(S) /\ Len(r) = Len(first) + Len(after)
    BY <1>2, <1>3, Concatenated
  <2>3. \A i \in 1..Len(first) : r[i] = first[i]
    BY <1>2, <1>3, Concatenated
  <2>4. \A i \in 1..Len(after) : r[Len(first) + i] = after[i]
    BY <1>2, <1>3, Concatenated
  <2> HIDE DEF r
  <2> QED
    BY <2>1, <2>2, <2>3, <2>4
<1> HIDE DEF r
<1>5. ASSUME NEW i \in (at + 1)..Len(s) PROVE r[Len(new) + i] = s[i]
  <2>1. i - at \in 1..Len(after) /\ Len(first) + (i - at) = Len(new) + i /\ at + (i - at) = i
    BY <1>2, <1>3
  <2>2. r[Len(first) + (i - at)] = after[i - at] /\ after[i - at] = s[at + (i - at)]
    BY <1>2, <1>4, <2>1
  <2> QED
    BY <2>1, <2>2
<1>6. \A i \in 1..at : r[i] = s[i]
  BY <1>3, <1>4
<1>7. \A i \in 1..Len(new) : r[at + i] = new[i]
  BY <1>3, <1>4
<1> QED
  BY <1>4, <1>5, <1>6, <1>7 DEF r, first, before, after

\* "new" is "old" with "ops" inserted behind its first "at" operations.
Spliced(old, at, ops, new) ==
    /\ new \in Seq(Operation) /\ Len(new) = Len(old) + Len(ops)
    /\ \A i \in 1..at : new[i] = old[i]
    /\ \A i \in 1..Len(ops) : new[at + i] = ops[i]
    /\ \A i \in (at + 1)..Len(old) : new[Len(ops) + i] = old[i]

LEMMA SplicedStraight ==
    ASSUME NEW old \in Seq(Operation), NEW ops \in Seq(Operation), NEW new, Straight(old),
           Straight(ops), Spliced(old, Len(old), ops, new)
    PROVE  Straight(new)
<1> SUFFICES ASSUME NEW i \in 1..Len(new) PROVE new[i].op \notin Terminators
  BY DEF Straight, Spliced
<1>1. CASE i \in 1..Len(old)
  BY <1>1 DEF Straight, Spliced
<1>2. CASE i > Len(old)
  <2> DEFINE k == i - Len(old)
  <2>1. Len(new) = Len(old) + Len(ops)
    BY DEF Spliced
  <2>2. k \in 1..Len(ops) /\ Len(old) + k = i
    BY <1>2, <2>1
  <2> HIDE DEF k
  <2>3. new[i] = ops[k]
    BY <2>2 DEF Spliced
  <2> QED
    BY <2>2, <2>3 DEF Straight
<1> QED
  BY <1>1, <1>2

LEMMA SplicedInRegion ==
    ASSUME NEW old \in Seq(Operation), NEW ops \in Seq(Operation), NEW new, Terminated(old),
           Straight(ops), Spliced(old, Len(old) - 1, ops, new)
    PROVE  Terminated(new) /\ Top(new) = Top(old)
<1>1. Len(old) \in Nat \ {0} /\ Len(ops) \in Nat /\ Len(new) = Len(old) + Len(ops)
      /\ new \in Seq(Operation)
  BY DEF Terminated, Spliced
<1>2. Top(new) = Top(old)
  <2>1. Len(old) \in ((Len(old) - 1) + 1)..Len(old) /\ Len(ops) + Len(old) = Len(new)
    BY <1>1
  <2> QED
    BY <2>1 DEF Spliced, Top
<1>3. ASSUME NEW i \in 1..Len(new) PROVE new[i].op \in Terminators <=> i = Len(new)
  <2>1. CASE i \in 1..(Len(old) - 1)
    <3>1. new[i] = old[i] /\ i \in DOMAIN old /\ i # Len(old) /\ i # Len(new)
      BY <1>1, <2>1 DEF Spliced
    <3> QED
      BY <3>1 DEF Terminated
  <2>2. CASE i \in Len(old)..(Len(new) - 1)
    <3>1. i - (Len(old) - 1) \in 1..Len(ops) /\ (Len(old) - 1) + (i - (Len(old) - 1)) = i
      BY <1>1, <2>2
    <3>2. new[i] = ops[i - (Len(old) - 1)]
      BY <3>1 DEF Spliced
    <3> QED
      BY <1>1, <2>2, <3>1, <3>2 DEF Straight
  <2>3. CASE i = Len(new)
    <3>1. Len(old) \in DOMAIN old
      BY <1>1
    <3> QED
      BY <1>2, <2>3, <3>1 DEF Terminated, Top
  <2> QED
    BY <1>1, <2>1, <2>2, <2>3
<1> QED
  BY <1>1, <1>2, <1>3 DEF Terminated

LEMMA SplicedTerminator ==
    ASSUME NEW old \in Seq(Operation), NEW op \in Operation, NEW new, Straight(old),
           op.op \in Terminators, Spliced(old, Len(old), <<op>>, new)
    PROVE  Terminated(new) /\ Top(new) = op
<1>1. Len(old) \in Nat /\ Len(new) = Len(old) + 1 /\ new \in Seq(Operation)
  BY DEF Spliced
<1>2. new[Len(new)] = op
  <2>1. 1 \in 1..Len(<<op>>) /\ <<op>>[1] = op
    OBVIOUS
  <2> QED
    BY <1>1, <2>1 DEF Spliced
<1>3. ASSUME NEW i \in 1..Len(new) PROVE new[i].op \in Terminators <=> i = Len(new)
  <2>1. CASE i \in 1..Len(old)
    BY <1>1, <2>1 DEF Straight, Spliced
  <2> QED
    BY <1>1, <1>2, <2>1
<1> QED
  BY <1>1, <1>2, <1>3 DEF Terminated, Top

LEMMA OpsInserted ==
    ASSUME NEW bs, BlocksTyped(bs), NEW p, p.block \in DOMAIN bs,
           p.at \in 0..Len(bs[p.block].body), NEW ops \in Seq(Operation)
    PROVE  LET new == InsertOps(bs, p, ops)
           IN  /\ BlocksTyped(new) /\ Len(new) = Len(bs) /\ DOMAIN new = DOMAIN bs
               /\ \A b \in DOMAIN bs : b # p.block => new[b] = bs[b]
               /\ new[p.block].within = bs[p.block].within
               /\ Spliced(bs[p.block].body, p.at, ops, new[p.block].body)
<1> DEFINE old == bs[p.block]
           body == SubSeq(old.body, 1, p.at) \o ops \o SubSeq(old.body, p.at + 1, Len(old.body))
           block == [old EXCEPT !.body = body]
           new == [bs EXCEPT ![p.block] = block]
<1>1. bs \in Seq(BlockRecord) /\ old \in BlockRecord /\ old.body \in Seq(Operation)
      /\ old.within \subseteq DOMAIN bs
  <2>1. bs \in Seq(BlockRecord) /\ old.within \subseteq DOMAIN bs
    BY DEF BlocksTyped
  <2>2. old \in BlockRecord
    BY <2>1
  <2> QED
    BY <2>1, <2>2 DEF BlockRecord
<1>2. Spliced(old.body, p.at, ops, body)
  <2> DEFINE text == old.body
  <2>1. text \in Seq(Operation) /\ p.at \in 0..Len(text)
    BY <1>1
  <2> HIDE DEF text
  <2> DEFINE r == SubSeq(text, 1, p.at) \o ops \o SubSeq(text, p.at + 1, Len(text))
  <2>2. r \in Seq(Operation) /\ Len(r) = Len(text) + Len(ops)
    BY <2>1, Inserted
  <2>3. \A i \in 1..p.at : r[i] = text[i]
    BY <2>1, Inserted
  <2>4. \A i \in 1..Len(ops) : r[p.at + i] = ops[i]
    BY <2>1, Inserted
  <2>5. \A i \in (p.at + 1)..Len(text) : r[Len(ops) + i] = text[i]
    BY <2>1, Inserted
  <2> HIDE DEF r
  <2>6. Spliced(text, p.at, ops, r)
    BY <2>2, <2>3, <2>4, <2>5 DEF Spliced
  <2> QED
    BY <2>6 DEF r, text
<1>3. InsertOps(bs, p, ops) = new
  BY DEF InsertOps
<1> HIDE DEF body
<1>4. block \in BlockRecord /\ block.body = body /\ block.within = old.within
  BY <1>1, <1>2 DEF BlockRecord, Spliced
<1> HIDE DEF block
<1>5. /\ new \in Seq(BlockRecord) /\ Len(new) = Len(bs) /\ DOMAIN new = DOMAIN bs
      /\ new[p.block] = block /\ \A b \in DOMAIN bs : b # p.block => new[b] = bs[b]
  BY <1>1, <1>4
<1> HIDE DEF new, old
<1>6. BlocksTyped(new)
  BY <1>1, <1>4, <1>5 DEF BlocksTyped, old
<1> QED
  BY <1>2, <1>3, <1>4, <1>5, <1>6 DEF old

LEMMA LocalsKept ==
    ASSUME NEW bs, NEW new, NEW ls, NEW open, Locals(bs, ls, open), DOMAIN bs \subseteq DOMAIN new,
           \A b \in DOMAIN bs : Awaited(b, ls, open) => new[b] = bs[b]
    PROVE  Locals(new, ls, open)
<1> SUFFICES ASSUME NEW k \in 1..Len(open) PROVE LocalOK(new, ls[k], open[k], Inside(open, k - 1))
  BY DEF Locals
<1>1. LocalOK(bs, ls[k], open[k], Inside(open, k - 1))
  BY DEF Locals
<1>2. \A b \in DOMAIN bs \cap Pending(ls[k], open[k]) : new[b] = bs[b]
  BY DEF Awaited
<1>3. CASE open[k] \in ScopedOps
  <2>1. ls[k].save.block \in DOMAIN bs /\ new[ls[k].save.block] = bs[ls[k].save.block]
    BY <1>1, <1>2, <1>3 DEF LocalOK, Pending, PlaceOK
  <2>2. PlaceOK(new, ls[k].save, Inside(open, k - 1))
    BY <1>1, <1>3, <2>1 DEF LocalOK, PlaceOK
  <2> QED
    BY <1>1, <1>3, <2>2 DEF LocalOK, Value
<1>4. CASE open[k] \notin ScopedOps
  BY <1>1, <1>2, <1>4 DEF LocalOK, Pending, Blank
<1> QED
  BY <1>3, <1>4

LEMMA LocalsPush ==
    ASSUME NEW bs, NEW ls, NEW open, Locals(bs, ls, open), NEW l \in AnyLocal,
           NEW kind \in LocalKind, LocalOK(bs, l, kind, Inside(open, Len(open))),
           \A b \in Pending(l, kind) : ~Awaited(b, ls, open)
    PROVE  /\ Locals(bs, Append(ls, l), Append(open, kind))
           /\ \A b : Awaited(b, Append(ls, l), Append(open, kind))
                        <=> Awaited(b, ls, open) \/ b \in Pending(l, kind)
           /\ Inside(Append(open, kind), Len(Append(open, kind))) <=> kind \in ScopedOps
<1> DEFINE ms == Append(ls, l)
           now == Append(open, kind)
           n == Len(open) + 1
<1>1. /\ ls \in Seq(AnyLocal) /\ open \in Seq(LocalKind) /\ Len(ls) = Len(open) /\ Len(open) \in Nat
      /\ \A k \in 1..Len(open) : LocalOK(bs, ls[k], open[k], Inside(open, k - 1))
      /\ \A j, k \in 1..Len(open) : j < k => Pending(ls[j], open[j]) \cap Pending(ls[k], open[k]) = {}
  <2>1. ls \in Seq(AnyLocal) /\ open \in Seq(LocalKind) /\ Len(ls) = Len(open)
    BY DEF Locals
  <2>2. Len(open) \in Nat
    BY <2>1
  <2> QED
    BY <2>1, <2>2, Zenon DEF Locals
<1>2. /\ ms \in Seq(AnyLocal) /\ Len(ms) = n /\ ms[n] = l /\ \A k \in 1..Len(open) : ms[k] = ls[k]
      /\ now \in Seq(LocalKind) /\ Len(now) = n /\ now[n] = kind
      /\ \A k \in 1..Len(open) : now[k] = open[k]
  BY <1>1
<1>3. n \in Nat /\ n # 0 /\ n - 1 = Len(open) /\ 1..n = 1..Len(open) \cup {n}
  BY <1>1
<1> HIDE DEF ms, now, n
<1>4. \A k \in 0..Len(open) : Inside(now, k) <=> Inside(open, k)
  BY <1>1, <1>2 DEF Inside
<1>5. ASSUME NEW k \in 1..n PROVE LocalOK(bs, ms[k], now[k], Inside(now, k - 1))
  <2>1. CASE k \in 1..Len(open)
    <3>1. k - 1 \in 0..Len(open) /\ (Inside(now, k - 1) <=> Inside(open, k - 1))
      BY <1>1, <1>4, <2>1
    <3>2. LocalOK(bs, ls[k], open[k], Inside(open, k - 1)) <=> LocalOK(bs, ls[k], open[k], Inside(now, k - 1))
      BY <3>1 DEF LocalOK, PlaceOK
    <3> QED
      BY <1>1, <1>2, <2>1, <3>2
  <2>2. CASE k = n
    <3>1. Inside(now, n - 1) <=> Inside(open, Len(open))
      BY <1>1, <1>3, <1>4
    <3>2. LocalOK(bs, l, kind, Inside(open, Len(open))) <=> LocalOK(bs, l, kind, Inside(now, n - 1))
      BY <3>1 DEF LocalOK, PlaceOK
    <3> QED
      BY <1>2, <2>2, <3>2
  <2> QED
    BY <1>3, <2>1, <2>2
<1>6. ASSUME NEW j \in 1..n, NEW k \in 1..n, j < k
      PROVE  Pending(ms[j], now[j]) \cap Pending(ms[k], now[k]) = {}
  <2>1. j \in 1..Len(open)
    BY <1>3, <1>6
  <2>2. CASE k \in 1..Len(open)
    BY <1>1, <1>2, <1>6, <2>1, <2>2
  <2>3. CASE k = n
    <3>1. \A b \in Pending(l, kind) : b \notin Pending(ls[j], open[j])
      BY <2>1 DEF Awaited
    <3> QED
      BY <1>2, <2>1, <2>3, <3>1
  <2> QED
    BY <1>3, <2>2, <2>3
<1>7. ASSUME NEW b PROVE Awaited(b, ms, now) <=> Awaited(b, ls, open) \/ b \in Pending(l, kind)
  BY <1>2, <1>3 DEF Awaited
<1>8. Locals(bs, ms, now)
  BY <1>2, <1>5, <1>6 DEF Locals
<1>9. Inside(now, Len(now)) <=> kind \in ScopedOps
  BY <1>2, <1>3 DEF Inside
<1> QED
  BY <1>7, <1>8, <1>9 DEF ms, now

LEMMA LocalsPop ==
    ASSUME NEW bs, NEW ls, NEW o \in Seq(LocalKind), NEW kind \in LocalKind,
           Locals(bs, ls, Append(o, kind))
    PROVE  /\ ls # <<>> /\ Top(ls) \in AnyLocal /\ Locals(bs, Pop(ls), o)
           /\ LocalOK(bs, Top(ls), kind, Inside(o, Len(o)))
           /\ \A b : Awaited(b, ls, Append(o, kind))
                        <=> Awaited(b, Pop(ls), o) \/ b \in Pending(Top(ls), kind)
           /\ \A b \in Pending(Top(ls), kind) : ~Awaited(b, Pop(ls), o)
<1> DEFINE ms == Pop(ls)
           l == Top(ls)
           open == Append(o, kind)
           n == Len(o) + 1
<1>1. /\ Len(o) \in Nat /\ open \in Seq(LocalKind) /\ Len(open) = n /\ open[n] = kind
      /\ \A k \in 1..Len(o) : open[k] = o[k]
  OBVIOUS
<1>2. n \in Nat /\ n # 0 /\ n - 1 = Len(o) /\ 1..n = 1..Len(o) \cup {n}
  BY <1>1
<1> HIDE DEF open, n
<1>3. /\ ls \in Seq(AnyLocal) /\ Len(ls) = n
      /\ \A k \in 1..n : LocalOK(bs, ls[k], open[k], Inside(open, k - 1))
      /\ \A j, k \in 1..n : j < k => Pending(ls[j], open[j]) \cap Pending(ls[k], open[k]) = {}
  BY <1>1 DEF Locals, open
<1>4. ls # <<>>
  BY <1>2, <1>3
<1>5. /\ ms \in Seq(AnyLocal) /\ Len(ms) = Len(o) /\ l = ls[n] /\ l \in AnyLocal
      /\ \A k \in 1..Len(o) : ms[k] = ls[k]
  BY <1>2, <1>3, <1>4, TopAndPop
<1> HIDE DEF ms, l
<1>6. \A k \in 0..Len(o) : Inside(open, k) <=> Inside(o, k)
  BY <1>1 DEF Inside
<1>7. ASSUME NEW k \in 1..Len(o) PROVE LocalOK(bs, ms[k], o[k], Inside(o, k - 1))
  <2>1. k - 1 \in 0..Len(o) /\ k \in 1..n
    BY <1>1, <1>2
  <2>2. LocalOK(bs, ls[k], open[k], Inside(open, k - 1)) <=> LocalOK(bs, ls[k], open[k], Inside(o, k - 1))
    BY <1>6, <2>1 DEF LocalOK, PlaceOK
  <2> QED
    BY <1>1, <1>3, <1>5, <2>1, <2>2
<1>8. LocalOK(bs, l, kind, Inside(o, Len(o)))
  <2>1. n \in 1..n /\ Len(o) \in 0..Len(o)
    BY <1>1, <1>2
  <2>2. Inside(open, n - 1) <=> Inside(o, Len(o))
    BY <1>2, <1>6, <2>1
  <2>3. LocalOK(bs, l, kind, Inside(open, n - 1)) <=> LocalOK(bs, l, kind, Inside(o, Len(o)))
    BY <2>2 DEF LocalOK, PlaceOK
  <2> QED
    BY <1>1, <1>3, <1>5, <2>1, <2>3
<1>9. ASSUME NEW b PROVE Awaited(b, ls, open) <=> Awaited(b, ms, o) \/ b \in Pending(l, kind)
  BY <1>1, <1>2, <1>5 DEF Awaited
<1>10. ASSUME NEW b \in Pending(l, kind) PROVE ~Awaited(b, ms, o)
  <2> SUFFICES ASSUME NEW k \in 1..Len(o) PROVE b \notin Pending(ms[k], o[k])
    BY DEF Awaited
  <2>1. k \in 1..n /\ n \in 1..n /\ k < n
    BY <1>1, <1>2
  <2>2. Pending(ls[k], open[k]) \cap Pending(ls[n], open[n]) = {}
    BY <1>3, <2>1
  <2> QED
    BY <1>1, <1>5, <2>2
<1>11. \A j, k \in 1..Len(o) : j < k => Pending(ms[j], o[j]) \cap Pending(ms[k], o[k]) = {}
  BY <1>1, <1>2, <1>3, <1>5
<1>12. Locals(bs, ms, o)
  BY <1>5, <1>7, <1>11 DEF Locals
<1> QED
  BY <1>4, <1>5, <1>8, <1>9, <1>10, <1>12 DEF ms, l, open

LEMMA AfterIsPlace ==
    ASSUME NEW D, NEW p \in [block: D, at: Nat], NEW ops \in Seq(Operation)
    PROVE  /\ After(p, ops) \in [block: D, at: Nat]
           /\ After(p, ops).block = p.block /\ After(p, ops).at = p.at + Len(ops)
<1> DEFINE n == p.at + Len(ops)
<1>1. n \in Nat /\ After(p, ops) = [p EXCEPT !.at = n]
  BY DEF After
<1> HIDE DEF n
<1>2. /\ [p EXCEPT !.at = n] \in [block: D, at: Nat]
      /\ [p EXCEPT !.at = n].block = p.block /\ [p EXCEPT !.at = n].at = n
  BY <1>1
<1> QED
  BY <1>1, <1>2 DEF n

\* The place behind the operations just emitted.
LEMMA StraightEmitted ==
    ASSUME NEW bs, NEW p, NEW ls, NEW open, Emitting(bs, p, ls, open),
           NEW ops \in Seq(Operation), Straight(ops)
    PROVE  /\ Emitting(InsertOps(bs, p, ops), After(p, ops), ls, open)
           /\ Len(InsertOps(bs, p, ops)) = Len(bs) /\ After(p, ops).block = p.block
<1> DEFINE new == InsertOps(bs, p, ops)
           q == After(p, ops)
           inside == Inside(open, Len(open))
           old == bs[p.block]
<1>1. /\ BlocksTyped(bs) /\ Locals(bs, ls, open) /\ ~Awaited(p.block, ls, open)
      /\ p \in [block: DOMAIN bs, at: Nat] /\ p.block \in DOMAIN bs /\ p.at \in Nat
      /\ old.within # {} <=> inside
      /\ p.at = Len(old.body) - (IF inside THEN 1 ELSE 0)
      /\ \A b \in DOMAIN bs : BlockOK(bs[b], b = p.block \/ Awaited(b, ls, open))
  BY DEF Emitting, PlaceOK
<1>2. old \in BlockRecord /\ old.body \in Seq(Operation) /\ Len(old.body) \in Nat
  <2>1. bs \in Seq(BlockRecord)
    BY <1>1 DEF BlocksTyped
  <2>2. old \in BlockRecord
    BY <1>1, <2>1
  <2> QED
    BY <2>2 DEF BlockRecord
<1>3. p.at \in 0..Len(old.body)
  <2> HIDE DEF inside, old
  <2> DEFINE n == Len(old.body)
  <2>1. n \in Nat /\ p.at \in Nat
    BY <1>1, <1>2
  <2>2. p.at = n - 1 \/ p.at = n - 0
    BY <1>1
  <2> HIDE DEF n
  <2>3. p.at \in 0..n
    BY <2>1, <2>2
  <2> QED
    BY <2>3 DEF n
<1>4. /\ BlocksTyped(new) /\ Len(new) = Len(bs) /\ DOMAIN new = DOMAIN bs
      /\ \A b \in DOMAIN bs : b # p.block => new[b] = bs[b]
      /\ new[p.block].within = old.within
      /\ Spliced(old.body, p.at, ops, new[p.block].body)
  BY <1>1, <1>3, OpsInserted
<1>5. q \in [block: DOMAIN bs, at: Nat] /\ q.block = p.block /\ q.at = p.at + Len(ops)
  BY <1>1, AfterIsPlace, ZenonT(40)
<1> HIDE DEF new, q, inside, old
<1>6. BlockOK(old, TRUE)
  BY <1>1 DEF old
<1>7. /\ BlockOK(new[p.block], TRUE)
      /\ Len(new[p.block].body) = Len(old.body) + Len(ops)
  <2>1. CASE inside
    <3>1. Terminated(old.body) /\ Top(old.body).op = "yield" /\ old.within # {}
      BY <1>1, <1>6, <2>1 DEF BlockOK
    <3>2. p.at = Len(old.body) - 1
      BY <1>1, <2>1
    <3>3. Terminated(new[p.block].body) /\ Top(new[p.block].body) = Top(old.body)
      BY <1>2, <1>4, <3>1, <3>2, SplicedInRegion
    <3> QED
      BY <1>4, <3>1, <3>3 DEF BlockOK, Spliced
  <2>2. CASE ~inside
    <3>1. Straight(old.body) /\ old.within = {}
      BY <1>1, <1>6, <2>2 DEF BlockOK
    <3>2. p.at = Len(old.body)
      BY <1>1, <1>2, <2>2
    <3>3. Straight(new[p.block].body)
      BY <1>2, <1>4, <3>1, <3>2, SplicedStraight
    <3> QED
      BY <1>4, <3>1, <3>3 DEF BlockOK, Spliced
  <2> QED
    BY <2>1, <2>2
<1>8. Locals(new, ls, open)
  BY <1>1, <1>4, LocalsKept
<1>9. PlaceOK(new, q, inside)
  BY <1>1, <1>2, <1>4, <1>5, <1>7 DEF PlaceOK
<1>10. ASSUME NEW b \in DOMAIN new PROVE BlockOK(new[b], b = q.block \/ Awaited(b, ls, open))
  <2>1. CASE b = p.block
    BY <1>5, <1>7, <2>1 DEF BlockOK
  <2>2. CASE b # p.block
    BY <1>1, <1>4, <1>5, <2>2
  <2> QED
    BY <2>1, <2>2
<1>11. Emitting(new, q, ls, open)
  BY <1>1, <1>4, <1>5, <1>8, <1>9, <1>10 DEF Emitting, inside
<1> QED
  BY <1>4, <1>5, <1>11 DEF new, q

\* A block of main is finished.
LEMMA TerminatorEmitted ==
    ASSUME NEW bs, NEW p, NEW ls, NEW open, Emitting(bs, p, ls, open),
           ~Inside(open, Len(open)), NEW op \in Operation, op.op \in Terminators
    PROVE  Suspended(InsertOps(bs, p, <<op>>), {}, ls, open)
           /\ Len(InsertOps(bs, p, <<op>>)) = Len(bs)
<1> DEFINE ops == <<op>>
           new == InsertOps(bs, p, ops)
           old == bs[p.block]
<1>1. /\ BlocksTyped(bs) /\ Locals(bs, ls, open) /\ ~Awaited(p.block, ls, open)
      /\ p.block \in DOMAIN bs /\ old.within = {} /\ p.at = Len(old.body) - 0
      /\ \A b \in DOMAIN bs : BlockOK(bs[b], b = p.block \/ Awaited(b, ls, open))
  BY DEF Emitting, PlaceOK
<1>2. old.body \in Seq(Operation) /\ Len(old.body) \in Nat
  <2>1. bs \in Seq(BlockRecord)
    BY <1>1 DEF BlocksTyped
  <2>2. old \in BlockRecord
    BY <1>1, <2>1
  <2> QED
    BY <2>2 DEF BlockRecord
<1>3. p.at \in 0..Len(old.body) /\ p.at = Len(old.body) /\ ops \in Seq(Operation)
  BY <1>1, <1>2
<1>4. /\ BlocksTyped(new) /\ Len(new) = Len(bs) /\ DOMAIN new = DOMAIN bs
      /\ \A b \in DOMAIN bs : b # p.block => new[b] = bs[b]
      /\ new[p.block].within = old.within
      /\ Spliced(old.body, p.at, ops, new[p.block].body)
  BY <1>1, <1>3, OpsInserted
<1> HIDE DEF new, old
<1>5. BlockOK(old, TRUE)
  BY <1>1 DEF old
<1>6. BlockOK(new[p.block], FALSE)
  <2>1. Straight(old.body)
    BY <1>1, <1>5 DEF BlockOK
  <2>2. Terminated(new[p.block].body)
    BY <1>2, <1>3, <1>4, <2>1, SplicedTerminator
  <2> QED
    BY <1>1, <1>4, <2>2 DEF BlockOK
<1>7. Locals(new, ls, open)
  BY <1>1, <1>4, LocalsKept
<1>8. ASSUME NEW b \in DOMAIN new PROVE BlockOK(new[b], b \in {} \/ Awaited(b, ls, open))
  <2>1. CASE b = p.block
    BY <1>1, <1>6, <2>1 DEF BlockOK
  <2>2. CASE b # p.block
    BY <1>1, <1>4, <2>2
  <2> QED
    BY <2>1, <2>2
<1>9. Suspended(new, {}, ls, open)
  BY <1>4, <1>7, <1>8 DEF Suspended
<1> QED
  BY <1>4, <1>9 DEF new

LEMMA AwaitedExists ==
    ASSUME NEW bs, NEW ls, NEW open, Locals(bs, ls, open), NEW b, Awaited(b, ls, open)
    PROVE  b \in DOMAIN bs
<1>1. PICK k \in 1..Len(open) : b \in Pending(ls[k], open[k])
  BY DEF Awaited
<1>2. LocalOK(bs, ls[k], open[k], Inside(open, k - 1))
  BY DEF Locals
<1> QED
  BY <1>1, <1>2 DEF LocalOK, Pending, PlaceOK, Blank

\* Blank blocks are added.
LEMMA BlanksAdded ==
    ASSUME NEW bs, NEW free, NEW ls, NEW open, Suspended(bs, free, ls, open), NEW n \in Nat
    PROVE  LET new == bs \o [i \in 1..n |-> Block(<<>>, {})]
           IN  /\ Suspended(new, free \cup (Len(bs) + 1)..(Len(bs) + n), ls, open)
               /\ Len(new) = Len(bs) + n
<1> DEFINE none == Block(<<>>, {})
           added == [i \in 1..n |-> none]
           new == bs \o added
           fresh == (Len(bs) + 1)..(Len(bs) + n)
<1>1. /\ bs \in Seq(BlockRecord) /\ Len(bs) \in Nat /\ DOMAIN bs = 1..Len(bs) /\ Locals(bs, ls, open)
      /\ \A b \in DOMAIN bs : bs[b].within \subseteq DOMAIN bs
      /\ \A b \in free : Blank(bs, b) /\ ~Awaited(b, ls, open)
      /\ \A b \in DOMAIN bs : BlockOK(bs[b], b \in free \/ Awaited(b, ls, open))
  BY DEF Suspended, BlocksTyped
<1>2. none \in BlockRecord /\ none.within = {} /\ BlockOK(none, TRUE)
  BY DEF Block, BlockRecord, BlockOK, Straight
<1> HIDE DEF none
<1>3. added \in Seq(BlockRecord) /\ Len(added) = n /\ \A i \in 1..n : added[i] = none
  BY <1>2
<1> HIDE DEF added
<1>4. new \in Seq(BlockRecord) /\ Len(new) = Len(bs) + n
  BY <1>1, <1>3, Concatenated
<1>5. \A b \in 1..Len(bs) : new[b] = bs[b]
  BY <1>1, <1>3, Concatenated
<1>6. \A i \in 1..n : new[Len(bs) + i] = none
  <2>1. \A i \in 1..Len(added) : new[Len(bs) + i] = added[i]
    BY <1>1, <1>3, Concatenated
  <2> QED
    BY <1>3, <2>1
<1> HIDE DEF new
<1>7. ASSUME NEW b \in fresh PROVE b \in DOMAIN new /\ b \notin DOMAIN bs /\ new[b] = none
  <2>1. b - Len(bs) \in 1..n /\ Len(bs) + (b - Len(bs)) = b
    BY <1>1
  <2>2. new[Len(bs) + (b - Len(bs))] = none
    BY <1>6, <2>1
  <2> QED
    BY <1>1, <1>4, <2>1, <2>2
<1>8. DOMAIN bs \subseteq DOMAIN new /\ \A b \in DOMAIN new : b \in DOMAIN bs \/ b \in fresh
  BY <1>1, <1>4
<1> HIDE DEF fresh
<1>9. Locals(new, ls, open)
  BY <1>1, <1>5, <1>8, LocalsKept
<1>10. BlocksTyped(new)
  <2> SUFFICES ASSUME NEW b \in DOMAIN new PROVE new[b].within \subseteq DOMAIN new
    BY <1>4 DEF BlocksTyped
  <2> QED
    BY <1>1, <1>2, <1>5, <1>7, <1>8
<1>11. ASSUME NEW b \in free \cup fresh PROVE Blank(new, b) /\ ~Awaited(b, ls, open)
  <2>1. CASE b \in free
    BY <1>1, <1>5, <1>8, <2>1 DEF Blank
  <2>2. CASE b \in fresh
    BY <1>1, <1>7, <2>2, AwaitedExists DEF Blank, none
  <2> QED
    BY <2>1, <2>2
<1>12. ASSUME NEW b \in DOMAIN new
       PROVE  BlockOK(new[b], b \in free \cup fresh \/ Awaited(b, ls, open))
  <2>1. CASE b \in DOMAIN bs
    <3>1. b \notin fresh /\ new[b] = bs[b]
      BY <1>1, <1>5, <1>7, <2>1
    <3> QED
      BY <1>1, <2>1, <3>1 DEF BlockOK
  <2>2. CASE b \in fresh
    BY <1>2, <1>7, <2>2 DEF BlockOK
  <2> QED
    BY <1>8, <2>1, <2>2
<1>13. Suspended(new, free \cup fresh, ls, open)
  BY <1>9, <1>10, <1>11, <1>12 DEF Suspended
<1> QED
  BY <1>4, <1>13 DEF new, fresh, added, none

\* The locals of a conditional take blank blocks.
LEMMA BranchPushed ==
    ASSUME NEW bs, NEW free, NEW ls, NEW open, Suspended(bs, free, ls, open),
           NEW l \in [header: Nat, body: Nat, merge: Nat], NEW kind \in LocalKind \ ScopedOps,
           Pending(l, kind) \subseteq free, kind = "LOOP" => l.body # l.merge,
           kind # "IF" => l.header # 0
    PROVE  Suspended(bs, free \ Pending(l, kind), Append(ls, l), Append(open, kind))
<1> DEFINE ms == Append(ls, l)
           now == Append(open, kind)
           rest == free \ Pending(l, kind)
<1>1. /\ BlocksTyped(bs) /\ Locals(bs, ls, open)
      /\ \A b \in free : Blank(bs, b) /\ ~Awaited(b, ls, open)
      /\ \A b \in DOMAIN bs : BlockOK(bs[b], b \in free \/ Awaited(b, ls, open))
  BY DEF Suspended
<1>2. l \in AnyLocal /\ LocalOK(bs, l, kind, Inside(open, Len(open)))
  <2>1. kind \notin ScopedOps /\ l.merge \in Pending(l, kind)
        /\ (kind = "LOOP" => l.body \in Pending(l, kind))
    BY DEF Pending
  <2> QED
    BY <1>1, <2>1 DEF AnyLocal, LocalOK
<1>3. /\ Locals(bs, ms, now)
      /\ \A b : Awaited(b, ms, now) <=> Awaited(b, ls, open) \/ b \in Pending(l, kind)
  BY <1>1, <1>2, LocalsPush
<1> HIDE DEF ms, now
<1>4. \A b \in rest : Blank(bs, b) /\ ~Awaited(b, ms, now)
  BY <1>1, <1>3
<1>5. ASSUME NEW b \in DOMAIN bs PROVE BlockOK(bs[b], b \in rest \/ Awaited(b, ms, now))
  <2>1. (b \in free \/ Awaited(b, ls, open)) <=> (b \in rest \/ Awaited(b, ms, now))
    BY <1>3
  <2> QED
    BY <1>1, <2>1 DEF BlockOK
<1>6. Suspended(bs, rest, ms, now)
  BY <1>1, <1>3, <1>4, <1>5 DEF Suspended
<1> QED
  BY <1>6 DEF ms, now

\* ... and give them back.
LEMMA BranchPopped ==
    ASSUME NEW bs, NEW free, NEW ls, NEW o \in Seq(LocalKind), NEW kind \in LocalKind \ ScopedOps,
           Suspended(bs, free, ls, Append(o, kind))
    PROVE  /\ Suspended(bs, free \cup Pending(Top(ls), kind), Pop(ls), o)
           /\ Top(ls) \in [header: Nat, body: Nat, merge: Nat] /\ ls # <<>>
           /\ kind = "LOOP" => Top(ls).body # Top(ls).merge
           /\ kind # "IF" => Top(ls).header # 0
<1> DEFINE l == Top(ls)
           ms == Pop(ls)
           open == Append(o, kind)
           more == free \cup Pending(l, kind)
<1>1. /\ BlocksTyped(bs) /\ Locals(bs, ls, open)
      /\ \A b \in free : Blank(bs, b) /\ ~Awaited(b, ls, open)
      /\ \A b \in DOMAIN bs : BlockOK(bs[b], b \in free \/ Awaited(b, ls, open))
  BY DEF Suspended
<1>2. /\ ls # <<>> /\ Locals(bs, ms, o) /\ LocalOK(bs, l, kind, Inside(o, Len(o)))
      /\ \A b : Awaited(b, ls, open) <=> Awaited(b, ms, o) \/ b \in Pending(l, kind)
      /\ \A b \in Pending(l, kind) : ~Awaited(b, ms, o)
  BY <1>1, LocalsPop
<1> HIDE DEF ms, open, l
<1>3. /\ l \in [header: Nat, body: Nat, merge: Nat]
      /\ kind = "LOOP" => l.body # l.merge
      /\ kind # "IF" => l.header # 0
      /\ \A b \in Pending(l, kind) : Blank(bs, b)
  BY <1>2 DEF LocalOK, Pending
<1>4. \A b \in more : Blank(bs, b) /\ ~Awaited(b, ms, o)
  BY <1>1, <1>2, <1>3
<1>5. ASSUME NEW b \in DOMAIN bs PROVE BlockOK(bs[b], b \in more \/ Awaited(b, ms, o))
  <2>1. (b \in free \/ Awaited(b, ls, open)) <=> (b \in more \/ Awaited(b, ms, o))
    BY <1>2
  <2> QED
    BY <1>1, <2>1 DEF BlockOK
<1>6. Suspended(bs, more, ms, o)
  BY <1>1, <1>2, <1>4, <1>5 DEF Suspended
<1> QED
  BY <1>2, <1>3, <1>6 DEF ms, l

\* CodeGen goes on in a blank block.
LEMMA Resumed ==
    ASSUME NEW bs, NEW b, NEW ls, NEW open, Suspended(bs, {b}, ls, open),
           ~Inside(open, Len(open))
    PROVE  Emitting(bs, StartOf(b), ls, open)
<1> DEFINE p == StartOf(b)
<1>1. Blank(bs, b) /\ ~Awaited(b, ls, open) /\ BlocksTyped(bs) /\ Locals(bs, ls, open)
  BY DEF Suspended
<1>2. p \in [block: DOMAIN bs, at: Nat] /\ p.block = b /\ p.at = 0
  BY <1>1 DEF Blank, StartOf
<1> HIDE DEF p
<1>3. PlaceOK(bs, p, Inside(open, Len(open)))
  <2>1. bs[p.block].within = {} /\ Len(bs[p.block].body) = 0
    BY <1>1, <1>2 DEF Blank, Block
  <2> DEFINE inside == Inside(open, Len(open))
  <2>2. ~inside
    OBVIOUS
  <2> HIDE DEF inside
  <2>3. p.at = Len(bs[p.block].body) - (IF inside THEN 1 ELSE 0)
    <3> DEFINE n == Len(bs[p.block].body)
    <3>1. n = 0 /\ p.at = 0
      BY <1>2, <2>1
    <3> HIDE DEF n
    <3>2. p.at = n - 0
      BY <3>1
    <3>3. p.at = n - (IF inside THEN 1 ELSE 0)
      BY <2>2, <3>2
    <3> QED
      BY <3>3 DEF n
  <2>4. PlaceOK(bs, p, inside)
    BY <1>2, <2>1, <2>2, <2>3 DEF PlaceOK
  <2> QED
    BY <2>4 DEF inside
<1>4. ASSUME NEW c \in DOMAIN bs PROVE BlockOK(bs[c], c = p.block \/ Awaited(c, ls, open))
  <2>1. BlockOK(bs[c], c \in {b} \/ Awaited(c, ls, open))
    BY DEF Suspended
  <2> QED
    BY <1>2, <2>1 DEF BlockOK
<1>5. Emitting(bs, p, ls, open)
  BY <1>1, <1>2, <1>3, <1>4 DEF Emitting
<1> QED
  BY <1>5 DEF p

LEMMA Appended ==
    ASSUME NEW S, NEW s \in Seq(S), NEW e \in S
    PROVE  LET n == Len(s) + 1
           IN  /\ Append(s, e) \in Seq(S) /\ Len(Append(s, e)) = n /\ n \in Nat
               /\ DOMAIN Append(s, e) = DOMAIN s \cup {n} /\ n \notin DOMAIN s
               /\ Append(s, e)[n] = e /\ \A i \in DOMAIN s : Append(s, e)[i] = s[i]
<1>1. /\ Append(s, e) \in Seq(S) /\ Len(Append(s, e)) = Len(s) + 1 /\ Len(s) \in Nat
      /\ Append(s, e)[Len(s) + 1] = e /\ \A i \in 1..Len(s) : Append(s, e)[i] = s[i]
      /\ DOMAIN s = 1..Len(s) /\ DOMAIN Append(s, e) = 1..(Len(s) + 1)
  OBVIOUS
<1>2. 1..(Len(s) + 1) = 1..Len(s) \cup {Len(s) + 1} /\ Len(s) + 1 \notin 1..Len(s)
  BY <1>1
<1> QED
  BY <1>1, <1>2

\* A block nested in others is added: the body of a loop, the scf.if of a filter.
LEMMA RegionAppended ==
    ASSUME NEW bs, NEW p, NEW ls, NEW open, Emitting(bs, p, ls, open), NEW block \in BlockRecord,
           block.within # {}, block.within \subseteq DOMAIN bs, Terminated(block.body),
           Top(block.body).op = "yield"
    PROVE  Emitting(Append(bs, block), p, ls, open)
<1> DEFINE new == Append(bs, block)
           n == Len(bs) + 1
<1>1. /\ bs \in Seq(BlockRecord) /\ \A b \in DOMAIN bs : bs[b].within \subseteq DOMAIN bs
      /\ Locals(bs, ls, open) /\ PlaceOK(bs, p, Inside(open, Len(open)))
      /\ ~Awaited(p.block, ls, open) /\ p \in [block: DOMAIN bs, at: Nat]
      /\ \A b \in DOMAIN bs : BlockOK(bs[b], b = p.block \/ Awaited(b, ls, open))
  BY DEF Emitting, BlocksTyped, PlaceOK
<1>2. /\ new \in Seq(BlockRecord) /\ Len(new) = n /\ DOMAIN new = DOMAIN bs \cup {n}
      /\ n \notin DOMAIN bs /\ new[n] = block /\ \A b \in DOMAIN bs : new[b] = bs[b]
  BY <1>1, Appended
<1> HIDE DEF new, n
<1>3. BlocksTyped(new)
  <2> SUFFICES ASSUME NEW b \in DOMAIN new PROVE new[b].within \subseteq DOMAIN new
    BY <1>2 DEF BlocksTyped
  <2> QED
    BY <1>1, <1>2
<1>4. Locals(new, ls, open)
  BY <1>1, <1>2, LocalsKept
<1>5. PlaceOK(new, p, Inside(open, Len(open)))
  BY <1>1, <1>2 DEF PlaceOK
<1>6. ASSUME NEW b \in DOMAIN new PROVE BlockOK(new[b], b = p.block \/ Awaited(b, ls, open))
  <2>1. CASE b \in DOMAIN bs
    BY <1>1, <1>2, <2>1
  <2>2. CASE b = n
    BY <1>2, <2>2 DEF BlockOK
  <2> QED
    BY <1>2, <2>1, <2>2
<1> QED
  BY <1>1, <1>3, <1>4, <1>5, <1>6 DEF Emitting, new

\* CodeGen goes into the region of a generator or filter ...
LEMMA RegionPushed ==
    ASSUME NEW bs, NEW p, NEW ls, NEW open, Emitting(bs, p, ls, open), NEW within \in SUBSET DOMAIN bs,
           within # {}, NEW y \in Operation, y.op = "yield", NEW result \in Value(bs),
           result.type = "vector", NEW kind \in ScopedOps
    PROVE  LET n == Len(bs) + 1
           IN  Emitting(Append(bs, Block(<<y>>, within)), StartOf(n),
                        Append(ls, [save |-> p, result |-> result, region |-> n]),
                        Append(open, kind))
<1> DEFINE block == Block(<<y>>, within)
           new == Append(bs, block)
           n == Len(bs) + 1
           q == StartOf(n)
           l == [save |-> p, result |-> result, region |-> n]
           ms == Append(ls, l)
           now == Append(open, kind)
<1>1. bs \in Seq(BlockRecord) /\ p \in [block: DOMAIN bs, at: Nat] /\ p.block \in DOMAIN bs
      /\ ~Awaited(p.block, ls, open)
  BY DEF Emitting, BlocksTyped, PlaceOK
<1>2. /\ block.body = <<y>> /\ block.within = within /\ block \in BlockRecord
  <2>1. within \in SUBSET Nat /\ <<y>> \in Seq(Operation)
    BY <1>1
  <2> QED
    BY <2>1 DEF Block, BlockRecord
<1>3. Terminated(block.body) /\ Top(block.body) = y
  <2>1. y.op \in Terminators
    BY DEF Terminators
  <2> DEFINE ops == <<y>>
  <2>2. ops # <<>> /\ Len(ops) = 1 /\ DOMAIN ops = 1..1 /\ ops[1] = y
    OBVIOUS
  <2> HIDE DEF ops
  <2>3. Terminated(ops) /\ Top(ops) = y
    BY <2>1, <2>2 DEF Terminated, Top
  <2> QED
    BY <1>2, <2>3 DEF ops
<1> HIDE DEF block
<1>4. /\ Len(new) = n /\ DOMAIN new = DOMAIN bs \cup {n} /\ n \in Nat
      /\ n \notin DOMAIN bs /\ new[n] = block /\ \A b \in DOMAIN bs : new[b] = bs[b]
  BY <1>1, <1>2, Appended
<1>5. Emitting(new, p, ls, open)
  BY <1>2, <1>3, RegionAppended
<1> HIDE DEF new, n
<1>6. /\ BlocksTyped(new) /\ Locals(new, ls, open) /\ PlaceOK(new, p, Inside(open, Len(open)))
      /\ \A b \in DOMAIN new : BlockOK(new[b], b = p.block \/ Awaited(b, ls, open))
  BY <1>5 DEF Emitting
<1>7. kind \in LocalKind
  BY DEF LocalKind, ScopedOps
<1>8. /\ l.save = p /\ l.result = result /\ l.region = n
      /\ l \in [save: [block: Nat, at: Nat], result: Value(new), region: DOMAIN new]
      /\ l \in AnyLocal
  <2>1. p \in [block: Nat, at: Nat]
    BY <1>1
  <2>2. result \in Value(new) /\ result \in [type: Type, block: Nat, at: Nat]
    BY <1>1, <1>4 DEF Value
  <2> QED
    BY <1>4, <2>1, <2>2 DEF AnyLocal
<1> HIDE DEF l
<1>9. LocalOK(new, l, kind, Inside(open, Len(open)))
  BY <1>6, <1>8 DEF LocalOK
<1>10. Pending(l, kind) = {p.block}
  BY <1>8 DEF Pending
<1>11. /\ Locals(new, ms, now)
       /\ \A b : Awaited(b, ms, now) <=> Awaited(b, ls, open) \/ b = p.block
       /\ Inside(now, Len(now))
  BY <1>1, <1>6, <1>7, <1>8, <1>9, <1>10, LocalsPush
<1>12. q \in [block: DOMAIN new, at: Nat] /\ q.block = n /\ q.at = 0
  BY <1>4 DEF StartOf
<1> HIDE DEF ms, now, q
<1>13. PlaceOK(new, q, Inside(now, Len(now)))
  <2>1. Len(new[n].body) = 1
    BY <1>2, <1>4
  <2> QED
    BY <1>2, <1>4, <1>11, <1>12, <2>1 DEF PlaceOK
<1>14. ~Awaited(q.block, ms, now)
  <2>1. ~Awaited(n, ls, open)
    <3>1. Locals(bs, ls, open)
      BY DEF Emitting
    <3> QED
      BY <1>4, <3>1, AwaitedExists
  <2> QED
    BY <1>1, <1>4, <1>11, <1>12, <2>1
<1>15. ASSUME NEW b \in DOMAIN new PROVE BlockOK(new[b], b = q.block \/ Awaited(b, ms, now))
  <2>1. CASE b = n
    BY <1>2, <1>3, <1>4, <2>1 DEF BlockOK
  <2>2. CASE b # n
    BY <1>6, <1>11, <1>12, <2>2 DEF BlockOK
  <2> QED
    BY <2>1, <2>2
<1>16. Emitting(new, q, ms, now)
  BY <1>6, <1>11, <1>13, <1>14, <1>15 DEF Emitting
<1> QED
  BY <1>16 DEF new, n, q, l, ms, now, block

\* ... and back to where it came from.
LEMMA RegionPopped ==
    ASSUME NEW bs, NEW p, NEW ls, NEW o \in Seq(LocalKind), NEW kind \in ScopedOps,
           Emitting(bs, p, ls, Append(o, kind))
    PROVE  /\ Emitting(bs, Top(ls).save, Pop(ls), o) /\ ls # <<>>
           /\ Top(ls).result \in Value(bs) /\ Top(ls).result.type = "vector"
           /\ Top(ls).region \in DOMAIN bs
<1> DEFINE l == Top(ls)
           ms == Pop(ls)
           open == Append(o, kind)
           q == l.save
<1>1. /\ BlocksTyped(bs) /\ Locals(bs, ls, open) /\ PlaceOK(bs, p, Inside(open, Len(open)))
      /\ \A b \in DOMAIN bs : BlockOK(bs[b], b = p.block \/ Awaited(b, ls, open))
  BY DEF Emitting
<1>2. kind \in LocalKind
  BY DEF LocalKind, ScopedOps
<1>3. /\ ls # <<>> /\ Locals(bs, ms, o) /\ LocalOK(bs, l, kind, Inside(o, Len(o)))
      /\ \A b : Awaited(b, ls, open) <=> Awaited(b, ms, o) \/ b \in Pending(l, kind)
      /\ \A b \in Pending(l, kind) : ~Awaited(b, ms, o)
  BY <1>1, <1>2, LocalsPop
<1>4. Inside(open, Len(open))
  BY DEF Inside
<1> HIDE DEF ms, open, l
<1>5. /\ l.result \in Value(bs) /\ l.result.type = "vector" /\ PlaceOK(bs, q, Inside(o, Len(o)))
      /\ l.region \in DOMAIN bs /\ Pending(l, kind) = {q.block}
  BY <1>3 DEF LocalOK, Pending
<1> HIDE DEF q
<1>6. ASSUME NEW b \in DOMAIN bs PROVE BlockOK(bs[b], b = q.block \/ Awaited(b, ms, o))
  <2>1. CASE b = p.block
    <3>1. bs[b].within # {}
      BY <1>1, <1>4, <2>1 DEF PlaceOK
    <3> QED
      BY <1>1, <3>1 DEF BlockOK
  <2>2. CASE b # p.block
    <3>1. (b = p.block \/ Awaited(b, ls, open)) <=> (b = q.block \/ Awaited(b, ms, o))
      BY <1>3, <1>5, <2>2
    <3> QED
      BY <1>1, <3>1 DEF BlockOK
  <2> QED
    BY <2>1, <2>2
<1>7. Emitting(bs, q, ms, o)
  BY <1>1, <1>3, <1>5, <1>6 DEF Emitting
<1> QED
  BY <1>3, <1>5, <1>7 DEF q, ms, l

----------------------------------------------------------------------------
(* CodeGen's operands have the types of DefRef's. *)

Matching(vals, types) == /\ Len(vals) = Len(types)
                         /\ \A k \in 1..Len(types) : vals[k].type = types[k]

LEMMA OperandsMoved ==
    ASSUME NEW s \in Seq(Type), NEW t \in Seq(Type), NEW rest \in Seq(Type), NEW c \in Seq(Type),
           NEW p \in Seq(Type), Stacked(s, rest, c), Stacked(t, rest, p),
           NEW S, NEW vals \in Seq(S), NEW new \in Seq(S), NEW vrest \in Seq(S),
           NEW vc \in Seq(S), NEW vp \in Seq(S), Stacked(vals, vrest, vc), Stacked(new, vrest, vp),
           Len(vc) = Len(c), Matching(vals, s), Matching(vp, p)
    PROVE  Matching(new, t) /\ Matching(vc, c)
<1>1. /\ Len(s) \in Nat /\ Len(t) \in Nat /\ Len(rest) \in Nat /\ Len(c) \in Nat /\ Len(p) \in Nat
      /\ Len(vrest) \in Nat /\ Len(vc) \in Nat /\ Len(vp) \in Nat
  OBVIOUS
<1>2. Len(s) = Len(rest) + Len(c) /\ Len(t) = Len(rest) + Len(p)
      /\ Len(vals) = Len(vrest) + Len(vc) /\ Len(new) = Len(vrest) + Len(vp)
      /\ Len(vals) = Len(s) /\ Len(vp) = Len(p)
  BY DEF Stacked, Matching
<1>3. Len(vrest) = Len(rest) /\ Len(new) = Len(t)
  <2>1. Len(vrest) + Len(c) = Len(rest) + Len(c)
    BY <1>2
  <2>2. Len(vrest) = Len(rest)
    BY <1>1, <2>1
  <2> QED
    BY <1>2, <2>2
<1>4. ASSUME NEW k \in 1..Len(c) PROVE vc[k].type = c[k]
  <2>1. Len(rest) + k \in 1..Len(s)
    BY <1>1, <1>2
  <2>2. vals[Len(rest) + k].type = s[Len(rest) + k]
    BY <2>1 DEF Matching
  <2>3. s[Len(rest) + k] = c[k] /\ vals[Len(rest) + k] = vc[k]
    BY <1>3 DEF Stacked
  <2> QED
    BY <2>2, <2>3
<1>5. ASSUME NEW k \in 1..Len(t) PROVE new[k].type = t[k]
  <2>1. CASE k \in 1..Len(rest)
    <3>1. k \in 1..Len(s)
      BY <1>1, <1>2, <2>1
    <3>2. vals[k].type = s[k]
      BY <3>1 DEF Matching
    <3> QED
      BY <1>3, <2>1, <3>2 DEF Stacked
  <2>2. CASE k \notin 1..Len(rest)
    <3> DEFINE i == k - Len(rest)
    <3>1. i \in 1..Len(p) /\ Len(rest) + i = k
      BY <1>1, <1>2, <2>2
    <3> HIDE DEF i
    <3>2. t[k] = p[i] /\ new[k] = vp[i]
      BY <1>2, <1>3, <3>1 DEF Stacked
    <3> QED
      BY <3>1, <3>2 DEF Matching
  <2> QED
    BY <2>1, <2>2
<1> QED
  BY <1>2, <1>3, <1>4, <1>5 DEF Matching

\* What a visit takes is there, with the types it has in the node.
LEMMA OperandsTaken ==
    ASSUME NEW a, NEW i, NEW s \in Stacks, NEW t \in Stacks, TraceStep(a, i, s, t),
           Consumed(a[i]) \in Seq(Type), NEW S, NEW vals \in Seq(S), Matching(vals, s.refs)
    PROVE  /\ Arity(a[i].node) = 1 => /\ vals # <<>> /\ Len(vals) >= 1
                                      /\ Top(vals).type = Consumed(a[i])[1]
           /\ Arity(a[i].node) = 2 => /\ Len(vals) >= 2 /\ Top(vals).type = Consumed(a[i])[2]
                                      /\ vals[Len(vals) - 1].type = Consumed(a[i])[1]
<1> DEFINE c == Consumed(a[i])
           r == s.refs
<1>1. PICK rest \in Seq(Type) : Stacked(r, rest, c)
  BY DEF TraceStep
<1>2. Len(c) = Arity(a[i].node) /\ c \in Seq(Type) /\ r \in Seq(Type)
  BY DEF TraceStep, Stacks
<1> HIDE DEF c, r
<1>3. /\ Len(rest) \in Nat /\ Len(c) \in Nat /\ Len(r) = Len(rest) + Len(c) /\ Len(vals) = Len(r)
      /\ \A k \in 1..Len(c) : r[Len(rest) + k] = c[k]
      /\ \A k \in 1..Len(r) : vals[k].type = r[k]
  BY <1>1, <1>2 DEF Stacked, Matching, r
<1>4. \A k \in 1..Len(c) : Len(rest) + k \in 1..Len(r) /\ vals[Len(rest) + k].type = c[k]
  BY <1>3
<1>5. CASE Len(c) = 1
  <2>1. Len(vals) = Len(rest) + 1 /\ vals[Len(rest) + 1].type = c[1]
    BY <1>3, <1>4, <1>5
  <2>2. vals # <<>> /\ Len(vals) >= 1 /\ Top(vals).type = c[1]
    BY <1>3, <2>1 DEF Top
  <2> QED
    BY <1>2, <1>5, <2>2 DEF c
<1>6. CASE Len(c) = 2
  <2>1. /\ Len(vals) = Len(rest) + 2 /\ vals[Len(rest) + 1].type = c[1]
        /\ vals[Len(rest) + 2].type = c[2]
    BY <1>3, <1>4, <1>6
  <2>2. Len(vals) >= 2 /\ Top(vals).type = c[2] /\ Len(vals) - 1 = Len(rest) + 1
    BY <1>3, <2>1 DEF Top
  <2>3. vals[Len(vals) - 1].type = c[1]
    BY <2>1, <2>2
  <2> QED
    BY <1>2, <1>6, <2>2, <2>3 DEF c
<1>7. CASE Len(c) # 1 /\ Len(c) # 2
  BY <1>2, <1>7 DEF c
<1> QED
  BY <1>5, <1>6, <1>7

\* ... and what is there after it.
LEMMA OperandsAfter ==
    ASSUME NEW a, NEW i, NEW s \in Stacks, NEW t \in Stacks, TraceStep(a, i, s, t),
           Consumed(a[i]) \in Seq(Type), NEW S, NEW vals \in Seq(S), NEW new \in Seq(S),
           Matching(vals, s.refs), NEW vrest \in Seq(S), NEW vc \in Seq(S), NEW vp \in Seq(S),
           Stacked(vals, vrest, vc), Stacked(new, vrest, vp), Len(vc) = Arity(a[i].node),
           \A p \in Seq(Type) :
              Pushed(a[i], p) /\ (a[i].node = "ID" => \E type \in Type :
                                     p = <<type>> /\ DeclaredBefore(a, i, type))
              => Matching(vp, p)
    PROVE  Matching(new, t.refs)
<1>1. PICK rest \in Seq(Type), p \in Seq(Type) :
         /\ Stacked(s.refs, rest, Consumed(a[i])) /\ Stacked(t.refs, rest, p) /\ Pushed(a[i], p)
         /\ a[i].node = "ID" => \E type \in Type : p = <<type>> /\ DeclaredBefore(a, i, type)
  BY DEF TraceStep
<1>2. Len(vc) = Len(Consumed(a[i])) /\ s.refs \in Seq(Type) /\ t.refs \in Seq(Type)
  BY DEF TraceStep, Stacks
<1>3. Matching(vp, p)
  BY <1>1
<1> DEFINE c == Consumed(a[i])
           r == s.refs
           q == t.refs
<1>4. c \in Seq(Type) /\ r \in Seq(Type) /\ q \in Seq(Type) /\ Stacked(r, rest, c)
      /\ Stacked(q, rest, p) /\ Len(vc) = Len(c) /\ Matching(vals, r)
  BY <1>1, <1>2
<1> HIDE DEF c, r, q
<1>5. Matching(new, q)
  BY <1>3, <1>4, OperandsMoved, SMTT(30)
<1> QED
  BY <1>5 DEF q

LEMMA MatchingOne ==
    ASSUME NEW v, NEW type, v.type = type PROVE Matching(<<v>>, <<type>>)
<1> DEFINE vals == <<v>>
           types == <<type>>
<1>1. Len(vals) = 1 /\ Len(types) = 1 /\ vals[1] = v /\ types[1] = type
  OBVIOUS
<1> HIDE DEF vals, types
<1>2. Matching(vals, types)
  BY <1>1 DEF Matching
<1> QED
  BY <1>2 DEF vals, types

LEMMA MatchingNone == ASSUME NEW vals, NEW types, vals = <<>>, types = <<>> PROVE Matching(vals, types)
  BY DEF Matching

----------------------------------------------------------------------------
(* The invariant of CodeGen's stacks and blocks. *)

Address(bs) == [type: {"address"}, block: DOMAIN bs, at: Nat]
StorageTyped(st, bs) == \A s \in DOMAIN st : st[s] \in Address(bs)

\* CodeGen's stacks are those of the trace of DefRef's walk.
Traced(T) == T \in Seq(Stacks) /\ Walked(ast, T) /\ T[Len(ast) + 1] = NoStacks
Follows(T) == /\ Matching(opperands, T[pos].refs)
              /\ Emitting(blocks, ip, locals, T[pos].open)

EmitInv ==
    /\ codegen = "idle" => blocks = <<>> /\ opperands = <<>> /\ locals = <<>>
    /\ BlocksTyped(blocks)
    /\ opperands \in Seq(Value(blocks))
    /\ StorageTyped(storage, blocks)
    /\ codegen # "idle" => /\ ip \in [block: DOMAIN blocks, at: Nat]
                           /\ ip.at <= Len(blocks[ip.block].body)
    /\ codegen = "emitting" => \E T : Traced(T) /\ Follows(T)
    /\ codegen = "generated" => /\ opperands = <<>> /\ locals = <<>>
                                /\ \A b \in DOMAIN blocks : Terminated(blocks[b].body)

\* Blocks are added, and only block b gets operations.
Grown(bs, new, b) == /\ DOMAIN bs \subseteq DOMAIN new
                     /\ \A c \in DOMAIN bs : c # b => new[c] = bs[c]

LEMMA GrownTwice ==
    ASSUME NEW bs, NEW mid, NEW new, NEW b, Grown(bs, mid, b),
           \/ Grown(mid, new, b)
           \/ \E c : c \notin DOMAIN bs /\ Grown(mid, new, c)
    PROVE  Grown(bs, new, b)
  BY DEF Grown

LEMMA GrownBlank ==
    ASSUME NEW bs, BlocksTyped(bs), NEW n \in Nat, NEW b
    PROVE  Grown(bs, bs \o [i \in 1..n |-> Block(<<>>, {})], b)
<1> DEFINE none == Block(<<>>, {})
           added == [i \in 1..n |-> none]
           new == bs \o added
<1>1. bs \in Seq(BlockRecord)
  BY DEF BlocksTyped
<1>2. none \in BlockRecord
  BY DEF Block, BlockRecord
<1> HIDE DEF none
<1>3. added \in Seq(BlockRecord) /\ Len(added) = n
  BY <1>2
<1> HIDE DEF added
<1>4. new \in Seq(BlockRecord) /\ Len(new) = Len(bs) + n
  BY <1>1, <1>3, Concatenated
<1>5. \A c \in 1..Len(bs) : new[c] = bs[c]
  BY <1>1, <1>3, Concatenated
<1> HIDE DEF new
<1>6. Grown(bs, new, b)
  BY <1>1, <1>3, <1>4, <1>5 DEF Grown
<1> QED
  BY <1>6 DEF new, added, none

LEMMA GrownAppend ==
    ASSUME NEW bs \in Seq(BlockRecord), NEW block \in BlockRecord, NEW b
    PROVE  Grown(bs, Append(bs, block), b)
<1> DEFINE new == Append(bs, block)
<1>1. DOMAIN bs \subseteq DOMAIN new /\ \A c \in DOMAIN bs : new[c] = bs[c]
  BY Appended
<1> HIDE DEF new
<1>2. Grown(bs, new, b)
  BY <1>1 DEF Grown
<1> QED
  BY <1>2 DEF new

LEMMA GrownInsert ==
    ASSUME NEW bs, BlocksTyped(bs), NEW p, p.block \in DOMAIN bs,
           p.at \in 0..Len(bs[p.block].body), NEW ops \in Seq(Operation)
    PROVE  Grown(bs, InsertOps(bs, p, ops), p.block)
  BY OpsInserted DEF Grown

\* What is known of the place and the operands at a visit.
Here(T) ==
    /\ Traced(T) /\ Follows(T)
    /\ pos \in DOMAIN ast /\ ThisVisit = ast[pos] /\ ThisVisit \in Visit
    /\ T[pos] \in Stacks /\ T[pos + 1] \in Stacks
    /\ TraceStep(ast, pos, T[pos], T[pos + 1])

LEMMA AtVisit ==
    ASSUME DefRefInv, EmitInv, NEW nodes, Visiting(nodes), pos \in Nat \ {0}
    PROVE  \E T : Here(T)
<1>1. codegen = "emitting" /\ ast \in Seq(Visit) /\ pos \in 1..Len(ast) /\ Len(ast) \in Nat
      /\ DOMAIN ast = 1..Len(ast) /\ ThisVisit.node \in nodes
  BY DEF Visiting, DefRefInv
<1>2. PICK T : Traced(T) /\ Follows(T)
  BY <1>1 DEF EmitInv
<1>3. T \in Seq(Stacks) /\ Len(T) = Len(ast) + 1
  BY <1>2 DEF Traced, Walked
<1>4. pos \in 1..Len(T) /\ pos + 1 \in 1..Len(T)
  BY <1>1, <1>3
<1>5. T[pos] \in Stacks /\ T[pos + 1] \in Stacks
  BY <1>3, <1>4
<1>6. TraceStep(ast, pos, T[pos], T[pos + 1]) /\ ThisVisit = ast[pos] /\ ThisVisit \in Visit
  BY <1>1, <1>2 DEF Traced, Walked, ThisVisit
<1> QED
  BY <1>1, <1>2, <1>5, <1>6 DEF Here

\* A visit that has brought the stacks and the blocks on to the next element of the trace.
LEMMA VisitKeepsEmitInv ==
    ASSUME EmitInv, NEW T, Traced(T), UNCHANGED ast, codegen = "emitting", codegen' = "emitting",
           pos' = pos + 1, opperands' \in Seq(Value(blocks')), StorageTyped(storage', blocks'),
           Matching(opperands', T[pos + 1].refs),
           Emitting(blocks', ip', locals', T[pos + 1].open)
    PROVE  EmitInv'
<1>1. BlocksTyped(blocks') /\ ip' \in [block: DOMAIN blocks', at: Nat]
      /\ ip'.at = Len(blocks'[ip'.block].body)
                    - (IF Inside(T[pos + 1].open, Len(T[pos + 1].open)) THEN 1 ELSE 0)
  BY DEF Emitting, PlaceOK
<1>2. ip'.at <= Len(blocks'[ip'.block].body)
  <2> DEFINE n == Len(blocks'[ip'.block].body)
             inside == Inside(T[pos + 1].open, Len(T[pos + 1].open))
  <2>1. blocks' \in Seq(BlockRecord) /\ ip'.block \in DOMAIN blocks'
    BY <1>1 DEF BlocksTyped
  <2>2. blocks'[ip'.block] \in BlockRecord
    BY <2>1
  <2>3. n \in Nat
    BY <2>2 DEF BlockRecord
  <2> HIDE DEF n, inside
  <2>4. ip'.at = n - 1 \/ ip'.at = n - 0
    BY <1>1 DEF n, inside
  <2>5. ip'.at <= n
    BY <2>3, <2>4
  <2> QED
    BY <2>5 DEF n
<1>3. Traced(T)' /\ Follows(T)'
  BY DEF Traced, Follows
<1> QED
  BY <1>1, <1>2, <1>3 DEF EmitInv

\* Values stay values when blocks are added.
LEMMA ValuesKept ==
    ASSUME NEW bs, NEW new, DOMAIN bs \subseteq DOMAIN new
    PROVE  /\ Value(bs) \subseteq Value(new) /\ Address(bs) \subseteq Address(new)
           /\ \A vals \in Seq(Value(bs)) : vals \in Seq(Value(new))
           /\ \A st : StorageTyped(st, bs) => StorageTyped(st, new)
<1>1. Value(bs) \subseteq Value(new)
  BY DEF Value
<1>2. Address(bs) \subseteq Address(new)
  BY DEF Address
<1>3. ASSUME NEW vals \in Seq(Value(bs)) PROVE vals \in Seq(Value(new))
  BY <1>1
<1>4. \A st : StorageTyped(st, bs) => StorageTyped(st, new)
  BY <1>2 DEF StorageTyped
<1> QED
  BY <1>1, <1>2, <1>3, <1>4

\* An argument of an operation.
Arg == [type: Type \cup {"address"}, block: Nat, at: Nat]

LEMMA ValuesAreArgs ==
    ASSUME NEW bs \in Seq(BlockRecord)
    PROVE  Value(bs) \subseteq Arg /\ Address(bs) \subseteq Arg /\ const_one \in Arg /\ const_zero \in Arg
<1>1. DOMAIN bs \subseteq Nat
  OBVIOUS
<1>2. Value(bs) \subseteq Arg
  BY <1>1 DEF Value, Arg
<1>3. Address(bs) \subseteq Arg
  BY <1>1 DEF Address, Arg
<1>4. const_one \in Arg /\ const_zero \in Arg
  BY DEF Arg, const_one, const_zero, Type
<1> QED
  BY <1>2, <1>3, <1>4

LEMMA AnOperation ==
    ASSUME NEW op \in Operations, NEW text \in Text \cup Type \cup Ops, NEW args \in Seq(Arg), NEW to \in Seq(Nat)
    PROVE  Op(op, text, args, to) \in Operation /\ Op(op, text, args, to).op = op
  BY DEF Op, Operation, Arg

LEMMA AnOperationTo ==
    ASSUME NEW op \in Operations, NEW args \in Seq(Arg), NEW to \in Seq(Nat)
    PROVE  Op(op, NoText, args, to) \in Operation /\ Op(op, NoText, args, to).op = op
  BY AnOperation DEF Text

\* Sequences of operations none of which ends a block.
LEMMA OneStraight ==
    ASSUME NEW op \in Operation, op.op \notin Terminators
    PROVE  <<op>> \in Seq(Operation) /\ Straight(<<op>>) /\ Len(<<op>>) = 1
<1> DEFINE ops == <<op>>
<1>1. ops \in Seq(Operation) /\ Len(ops) = 1 /\ DOMAIN ops = 1..1 /\ ops[1] = op
  OBVIOUS
<1> HIDE DEF ops
<1>2. Straight(ops)
  BY <1>1 DEF Straight
<1> QED
  BY <1>1, <1>2 DEF ops

LEMMA StraightAppended ==
    ASSUME NEW ops \in Seq(Operation), Straight(ops), NEW op \in Operation, op.op \notin Terminators
    PROVE  /\ Append(ops, op) \in Seq(Operation) /\ Straight(Append(ops, op))
           /\ Len(Append(ops, op)) = Len(ops) + 1
<1> DEFINE new == Append(ops, op)
<1>1. /\ new \in Seq(Operation) /\ DOMAIN new = DOMAIN ops \cup {Len(ops) + 1}
      /\ new[Len(ops) + 1] = op /\ \A i \in DOMAIN ops : new[i] = ops[i]
      /\ Len(new) = Len(ops) + 1
  BY Appended
<1> HIDE DEF new
<1>2. Straight(new)
  BY <1>1 DEF Straight
<1> QED
  BY <1>1, <1>2 DEF new

----------------------------------------------------------------------------
(* The operands after a visit. *)

PushesNothing == ThisVisit.node \notin {"INT", "ID", "GENERATOR_END", "FILTER_END"} \cup Ops

LEMMA OperandsHere ==
    ASSUME NEW T, Here(T)
    PROVE  /\ Consumed(ThisVisit) \in Seq(Type) /\ Matching(opperands, T[pos].refs)
           /\ ThisVisit.node \in Visits
           /\ ThisVisit.node # "DECL" => Consumed(ThisVisit) = ThisVisit.refs
  BY DEF Here, Follows, Visit, Consumed

\* The operands the visit leaves have the types "p".
Leaving(p) == /\ p \in Seq(Type) /\ Pushed(ThisVisit, p)
              /\ ThisVisit.node = "ID" => \E type \in Type :
                    p = <<type>> /\ DeclaredBefore(ast, pos, type)

LEMMA OperandsAfterVisit ==
    ASSUME NEW T, Here(T), NEW S, opperands \in Seq(S), NEW new \in Seq(S), NEW rest \in Seq(S),
           NEW c \in Seq(S), NEW left \in Seq(S), Stacked(opperands, rest, c),
           Stacked(new, rest, left), Len(c) = Arity(ThisVisit.node),
           \A p : Leaving(p) => Matching(left, p)
    PROVE  Matching(new, T[pos + 1].refs)
<1> DEFINE s == T[pos]
           t == T[pos + 1]
<1>1. /\ s \in Stacks /\ t \in Stacks /\ TraceStep(ast, pos, s, t) /\ ThisVisit = ast[pos]
      /\ Matching(opperands, s.refs) /\ Consumed(ast[pos]) \in Seq(Type)
  BY OperandsHere DEF Here
<1>2. \A p \in Seq(Type) :
         Pushed(ast[pos], p) /\ (ast[pos].node = "ID" => \E type \in Type :
                                    p = <<type>> /\ DeclaredBefore(ast, pos, type))
         => Matching(left, p)
  BY <1>1 DEF Leaving
<1> HIDE DEF s, t
<1>3. Matching(new, t.refs)
  BY <1>1, <1>2, OperandsAfter
<1> QED
  BY <1>3 DEF t

LEMMA OperandsStay ==
    ASSUME NEW T, Here(T), NEW S, opperands \in Seq(S), Arity(ThisVisit.node) = 0, PushesNothing
    PROVE  Matching(opperands, T[pos + 1].refs)
<1>1. <<>> \in Seq(S) /\ Len(<<>>) = 0
  OBVIOUS
<1>2. Stacked(opperands, opperands, <<>>)
  BY StackedNone
<1>3. \A p : Leaving(p) => Matching(<<>>, p)
  BY MatchingNone DEF Leaving, Pushed, PushesNothing
<1> DEFINE none == <<>>
<1>4. /\ none \in Seq(S) /\ Len(none) = 0 /\ Stacked(opperands, opperands, none)
      /\ \A p : Leaving(p) => Matching(none, p)
  BY <1>1, <1>2, <1>3
<1> HIDE DEF none
<1> QED
  BY <1>4, OperandsAfterVisit

LEMMA OperandPopped ==
    ASSUME NEW T, Here(T), NEW S, opperands \in Seq(S), Arity(ThisVisit.node) = 1
    PROVE  /\ opperands # <<>> /\ TopValue \in S /\ TopValue.type = Consumed(ThisVisit)[1]
           /\ Pop(opperands) \in Seq(S) /\ Stacked(opperands, Pop(opperands), <<TopValue>>)
           /\ PushesNothing => Matching(Pop(opperands), T[pos + 1].refs)
<1>1. opperands # <<>> /\ TopValue.type = Consumed(ThisVisit)[1]
  BY OperandsHere, OperandsTaken DEF Here, TopValue
<1>2. TopValue \in S /\ Pop(opperands) \in Seq(S) /\ Stacked(opperands, Pop(opperands), <<TopValue>>)
  BY <1>1, StackedOne, TopAndPop DEF TopValue
<1>3. ASSUME PushesNothing PROVE Matching(Pop(opperands), T[pos + 1].refs)
  <2> DEFINE none == <<>>
             one == <<TopValue>>
             rest == Pop(opperands)
  <2>1. /\ none \in Seq(S) /\ one \in Seq(S) /\ Len(one) = 1 /\ rest \in Seq(S)
        /\ Stacked(opperands, rest, one)
    BY <1>2
  <2>2. Stacked(rest, rest, none)
    BY <2>1, StackedNone
  <2>3. \A p : Leaving(p) => Matching(none, p)
    BY <1>3, MatchingNone DEF Leaving, Pushed, PushesNothing
  <2> HIDE DEF none, one, rest
  <2>4. Matching(rest, T[pos + 1].refs)
    BY <2>1, <2>2, <2>3, OperandsAfterVisit
  <2> QED
    BY <2>4 DEF rest
<1> QED
  BY <1>1, <1>2, <1>3

\* The one operand a visit leaves.
Leaves1(v) == \A p : Leaving(p) => p = <<v.type>>

LEMMA OperandsReplaced ==
    ASSUME NEW T, Here(T), NEW S, opperands \in Seq(S), NEW rest \in Seq(S), NEW c \in Seq(S),
           Stacked(opperands, rest, c), Len(c) = Arity(ThisVisit.node), NEW v \in S, Leaves1(v)
    PROVE  Append(rest, v) \in Seq(S) /\ Matching(Append(rest, v), T[pos + 1].refs)
<1> DEFINE new == Append(rest, v)
           one == <<v>>
<1>1. new \in Seq(S) /\ one \in Seq(S) /\ Stacked(new, rest, one)
  BY StackedAppend
<1>2. ASSUME NEW p, Leaving(p) PROVE Matching(one, p)
  <2>1. p = <<v.type>>
    BY <1>2 DEF Leaves1
  <2>2. Matching(<<v>>, <<v.type>>)
    BY MatchingOne
  <2> QED
    BY <2>1, <2>2
<1> HIDE DEF new, one
<1>3. Matching(new, T[pos + 1].refs)
  BY <1>1, <1>2, OperandsAfterVisit
<1> QED
  BY <1>1, <1>3 DEF new

LEMMA OperandPushed ==
    ASSUME NEW T, Here(T), NEW S, opperands \in Seq(S), Arity(ThisVisit.node) = 0, NEW v \in S,
           Leaves1(v)
    PROVE  Append(opperands, v) \in Seq(S) /\ Matching(Append(opperands, v), T[pos + 1].refs)
<1> DEFINE none == <<>>
<1>1. none \in Seq(S) /\ Len(none) = 0 /\ Stacked(opperands, opperands, none)
  BY StackedNone
<1> HIDE DEF none
<1> QED
  BY <1>1, OperandsReplaced

----------------------------------------------------------------------------
(* Visits that emit operations at the insertion point and stay there. *)

LEMMA StraightVisit ==
    ASSUME EmitInv, NEW T, Here(T), codegen # "idle",
           ThisVisit.node \notin Opening \cup Closing \cup {"LOOP_BODY"},
           NEW ops \in Seq(Operation), Straight(ops), Emit(ops), locals' = locals
    PROVE  /\ Emitting(blocks', ip', locals', T[pos + 1].open)
           /\ Grown(blocks, blocks', ip.block) /\ DOMAIN blocks' = DOMAIN blocks
           /\ ip'.block = ip.block
<1>1. T[pos + 1].open = T[pos].open
  BY DEF Here, TraceStep, Opened
<1>2. Emitting(blocks, ip, locals, T[pos].open)
  BY DEF Here, Follows
<1>3. blocks' = InsertOps(blocks, ip, ops) /\ ip' = After(ip, ops)
  BY DEF Emit
<1>4. Emitting(blocks', ip', locals, T[pos].open) /\ ip'.block = ip.block
  BY <1>2, <1>3, StraightEmitted
<1>5. ip.block \in DOMAIN blocks /\ ip.at \in 0..Len(blocks[ip.block].body) /\ BlocksTyped(blocks)
  <2>1. /\ ip \in [block: DOMAIN blocks, at: Nat] /\ ip.at <= Len(blocks[ip.block].body)
        /\ BlocksTyped(blocks)
    BY DEF EmitInv
  <2>2. blocks[ip.block] \in BlockRecord
    BY <2>1 DEF BlocksTyped
  <2> QED
    BY <2>1, <2>2 DEF BlockRecord
<1>6. Grown(blocks, blocks', ip.block) /\ DOMAIN blocks' = DOMAIN blocks
  BY <1>3, <1>5, OpsInserted DEF Grown
<1> QED
  BY <1>1, <1>4, <1>6

LEMMA PlaceTyped ==
    ASSUME EmitInv, codegen # "idle"
    PROVE  /\ ip.block \in DOMAIN blocks /\ ip.at \in Nat /\ blocks \in Seq(BlockRecord)
           /\ ip.at \in 0..Len(blocks[ip.block].body) /\ ip \in [block: Nat, at: Nat]
           /\ BlocksTyped(blocks)
<1>1. /\ ip \in [block: DOMAIN blocks, at: Nat] /\ ip.at <= Len(blocks[ip.block].body)
      /\ BlocksTyped(blocks) /\ blocks \in Seq(BlockRecord)
  BY DEF EmitInv, BlocksTyped
<1>2. blocks[ip.block] \in BlockRecord /\ DOMAIN blocks \subseteq Nat
  BY <1>1
<1>3. Len(blocks[ip.block].body) \in Nat
  BY <1>2 DEF BlockRecord
<1> QED
  BY <1>1, <1>2, <1>3

LEMMA ResultTyped ==
    ASSUME EmitInv, codegen # "idle", NEW bs, DOMAIN blocks \subseteq DOMAIN bs, NEW n \in Nat
    PROVE  /\ \A type \in Type : ResultAt(ip, n, type) \in Value(bs) /\ ResultAt(ip, n, type) \in Arg
           /\ ResultAt(ip, n, "address") \in Address(bs) /\ ResultAt(ip, n, "address") \in Arg
           /\ \A type : ResultAt(ip, n, type).type = type
<1>1. ip.block \in DOMAIN bs /\ ip.at + n \in Nat /\ ip.block \in Nat
  BY PlaceTyped
<1> QED
  BY <1>1 DEF ResultAt, Value, Address, Arg

----------------------------------------------------------------------------
(* The visits, one by one. *)

EmitKept == EmitInv' /\ Grown(blocks, blocks', ip.block)
Ready == DefRefInv /\ EmitInv /\ UNCHANGED defref_vars /\ pos \in Nat \ {0}

LEMMA NothingGrown ==
    ASSUME UNCHANGED blocks PROVE Grown(blocks, blocks', ip.block)
  BY DEF Grown

LEMMA CrashKeepsEmit ==
    ASSUME Ready, codegen = "emitting", NEW how \in {"crashed", "threw"}, CrashCodegen(how)
    PROVE  EmitKept
<1>1. UNCHANGED <<ast, pos, opperands, storage, blocks, ip, locals>> /\ codegen' = how
  BY DEF CrashCodegen, Ready, defref_vars
<1>2. EmitInv'
  BY <1>1 DEF EmitInv, Ready
<1> QED
  BY <1>1, <1>2, NothingGrown DEF EmitKept

LEMMA GenBLOCKKeepsEmit == ASSUME Ready, GenBLOCK PROVE EmitKept
<1>1. /\ Visiting({"BLOCK", "BLOCK_END"}) /\ pos' = pos + 1 /\ codegen = "emitting"
      /\ UNCHANGED <<ast, opperands, storage, blocks, ip, locals, codegen>>
      /\ ThisVisit.node \in {"BLOCK", "BLOCK_END"}
  BY DEF GenBLOCK, Advance, Ready, defref_vars, Visiting
<1>2. PICK T : Here(T)
  BY <1>1, AtVisit DEF Ready
<1>3. opperands \in Seq(Value(blocks)) /\ StorageTyped(storage, blocks) /\ EmitInv
  BY DEF Ready, EmitInv
<1>4. Arity(ThisVisit.node) = 0 /\ PushesNothing /\ ThisVisit.node \notin Opening \cup Closing \cup {"LOOP_BODY"}
  BY <1>1 DEF Arity, PushesNothing, Opening, Closing, Ops, ScopedOps
<1>5. Matching(opperands, T[pos + 1].refs)
  BY <1>2, <1>3, <1>4, OperandsStay
<1>6. Emitting(blocks, ip, locals, T[pos + 1].open)
  BY <1>2, <1>4 DEF Here, TraceStep, Opened, Follows
<1>7. EmitInv'
  BY <1>1, <1>2, <1>3, <1>5, <1>6, VisitKeepsEmitInv DEF Here
<1> QED
  BY <1>1, <1>7, NothingGrown DEF EmitKept

\* A visit that emits operations, and what is left for it to show.
LEMMA StraightVisitKeepsEmit ==
    ASSUME Ready, codegen = "emitting", NEW T, Here(T),
           ThisVisit.node \notin Opening \cup Closing \cup {"LOOP_BODY"},
           NEW ops \in Seq(Operation), Straight(ops), Emit(ops), UNCHANGED <<locals, codegen>>,
           pos' = pos + 1, opperands' \in Seq(Value(blocks)),
           Matching(opperands', T[pos + 1].refs), StorageTyped(storage', blocks)
    PROVE  EmitKept
<1>1. EmitInv /\ UNCHANGED ast
  BY DEF Ready, defref_vars
<1>2. /\ Emitting(blocks', ip', locals', T[pos + 1].open)
      /\ Grown(blocks, blocks', ip.block) /\ DOMAIN blocks \subseteq DOMAIN blocks'
  BY <1>1, StraightVisit
<1>3. opperands' \in Seq(Value(blocks')) /\ StorageTyped(storage', blocks')
  BY <1>2, ValuesKept
<1>4. EmitInv'
  BY <1>1, <1>2, <1>3, VisitKeepsEmitInv DEF Here
<1> QED
  BY <1>2, <1>4 DEF EmitKept

LEMMA StorageGivenTyped ==
    ASSUME EmitInv, codegen # "idle", NEW symbol, GiveStorage(symbol)
    PROVE  StorageTyped(storage', blocks)
<1>1. StorageTyped(storage, blocks) /\ Result("address") \in Address(blocks)
  BY ResultTyped DEF EmitInv, Result
<1> DEFINE given == [s \in DOMAIN storage \cup {symbol} |->
                        IF s = symbol THEN Result("address") ELSE storage[s]]
<1>2. \A s \in DOMAIN given : given[s] \in Address(blocks)
  BY <1>1 DEF StorageTyped
<1>3. storage' = given
  BY DEF GiveStorage
<1> HIDE DEF given
<1> QED
  BY <1>2, <1>3 DEF StorageTyped

LEMMA AllocaIsOperation == Alloca \in Operation /\ Alloca.op \notin Terminators
<1> DEFINE args == <<const_one>>
           to == <<>>
<1>1. const_one \in Arg
  BY DEF Arg, const_one, Type
<1>2. args \in Seq(Arg) /\ to \in Seq(Nat)
  BY <1>1
<1> HIDE DEF args, to
<1> DEFINE op == "alloca"
<1>3. op \in Operations
  BY DEF Operations
<1> HIDE DEF op
<1>4. Op(op, NoText, args, to) \in Operation /\ Op(op, NoText, args, to).op = op
  BY <1>2, <1>3, AnOperationTo
<1> QED
  BY <1>4 DEF Alloca, args, to, op, Terminators

LEMMA GenDECLKeepsEmit == ASSUME Ready, GenDECL PROVE EmitKept
<1> DEFINE ops == <<Alloca>>
<1>1. /\ Visiting({"DECL"}) /\ pos' = pos + 1 /\ codegen = "emitting" /\ Emit(ops)
      /\ UNCHANGED <<opperands, locals, codegen>> /\ ThisVisit.node = "DECL" /\ EmitInv
  BY DEF GenDECL, Advance, Ready, Visiting
<1>2. PICK T : Here(T)
  BY <1>1, AtVisit DEF Ready
<1>3. opperands \in Seq(Value(blocks))
  BY <1>1 DEF EmitInv
<1>4. Arity(ThisVisit.node) = 0 /\ PushesNothing /\ ThisVisit.node \notin Opening \cup Closing \cup {"LOOP_BODY"}
  BY <1>1 DEF Arity, PushesNothing, Opening, Closing, Ops, ScopedOps
<1>5. Matching(opperands, T[pos + 1].refs)
  BY <1>2, <1>3, <1>4, OperandsStay
<1>6. ops \in Seq(Operation) /\ Straight(ops)
  BY AllocaIsOperation, OneStraight
<1>7. StorageTyped(storage', blocks)
  BY <1>1, StorageGivenTyped DEF GenDECL
<1> HIDE DEF ops
<1> QED
  BY <1>1, <1>2, <1>3, <1>4, <1>5, <1>6, <1>7, StraightVisitKeepsEmit

\* Operations on one and on two values.
LEMMA OneArgument ==
    ASSUME NEW op \in Operations, op \notin Terminators, NEW text \in Text \cup Type \cup Ops, NEW x \in Arg
    PROVE  <<Op(op, text, <<x>>, <<>>)>> \in Seq(Operation) /\ Straight(<<Op(op, text, <<x>>, <<>>)>>)
<1> DEFINE args == <<x>>
           to == <<>>
<1>1. args \in Seq(Arg) /\ to \in Seq(Nat)
  OBVIOUS
<1> HIDE DEF args, to
<1>2. Op(op, text, args, to) \in Operation /\ Op(op, text, args, to).op = op
  BY <1>1, AnOperation
<1>3. <<Op(op, text, args, to)>> \in Seq(Operation) /\ Straight(<<Op(op, text, args, to)>>)
  BY <1>2, OneStraight
<1> QED
  BY <1>3 DEF args, to

LEMMA TwoArguments ==
    ASSUME NEW op \in Operations, op \notin Terminators, NEW text \in Text \cup Type \cup Ops,
           NEW x \in Arg, NEW y \in Arg
    PROVE  Op(op, text, <<x, y>>, <<>>) \in Operation /\ Op(op, text, <<x, y>>, <<>>).op \notin Terminators
<1> DEFINE args == <<x, y>>
           to == <<>>
<1>1. args \in Seq(Arg) /\ to \in Seq(Nat)
  OBVIOUS
<1> HIDE DEF args, to
<1>2. Op(op, text, args, to) \in Operation /\ Op(op, text, args, to).op = op
  BY <1>1, AnOperation
<1> QED
  BY <1>2 DEF args, to

LEMMA OperandsAreArgs ==
    ASSUME EmitInv
    PROVE  /\ Value(blocks) \subseteq Arg /\ Address(blocks) \subseteq Arg /\ const_one \in Arg
           /\ const_zero \in Arg /\ \A s \in DOMAIN storage : storage[s] \in Arg
<1>1. blocks \in Seq(BlockRecord) /\ \A s \in DOMAIN storage : storage[s] \in Address(blocks)
  BY DEF EmitInv, BlocksTyped, StorageTyped
<1> QED
  BY <1>1, ValuesAreArgs

LEMMA GenASSIGNKeepsEmit == ASSUME Ready, GenASSIGN PROVE EmitKept
<1> DEFINE symbol == CgSymbol(ThisVisit.text)
           op == "store"
           store == Op(op, NoText, <<TopValue, storage[symbol]>>, <<>>)
           ops == <<store>>
<1>1. Visiting({"ASSIGN"}) /\ codegen = "emitting" /\ ThisVisit.node = "ASSIGN" /\ EmitInv
  BY DEF GenASSIGN, Ready, Visiting
<1>2. CASE symbol \notin DOMAIN storage
  BY <1>1, <1>2, CrashKeepsEmit DEF GenASSIGN
<1>3. CASE symbol \in DOMAIN storage
  <2>1. /\ Emit(ops) /\ opperands' = Pop(opperands) /\ pos' = pos + 1
        /\ UNCHANGED <<storage, locals, codegen>>
    BY <1>3 DEF GenASSIGN, Advance, PopOperand
  <2>2. PICK T : Here(T)
    BY <1>1, AtVisit DEF Ready
  <2>3. opperands \in Seq(Value(blocks)) /\ StorageTyped(storage, blocks)
    BY <1>1 DEF EmitInv
  <2>4. Arity(ThisVisit.node) = 1 /\ PushesNothing
        /\ ThisVisit.node \notin Opening \cup Closing \cup {"LOOP_BODY"}
    BY <1>1 DEF Arity, PushesNothing, Opening, Closing, Ops, ScopedOps
  <2>5. /\ TopValue \in Value(blocks) /\ Pop(opperands) \in Seq(Value(blocks))
        /\ Matching(Pop(opperands), T[pos + 1].refs)
    BY <2>2, <2>3, <2>4, OperandPopped
  <2>6. TopValue \in Arg /\ storage[symbol] \in Arg
    BY <1>1, <1>3, <2>5, OperandsAreArgs
  <2>7. op \in Operations /\ op \notin Terminators /\ NoText \in Text
    BY DEF Operations, Terminators, Text
  <2> HIDE DEF op, symbol
  <2>8. store \in Operation /\ store.op \notin Terminators
    BY <2>6, <2>7, TwoArguments
  <2> HIDE DEF store
  <2>9. ops \in Seq(Operation) /\ Straight(ops)
    BY <2>8, OneStraight
  <2> HIDE DEF ops
  <2> QED
    BY <1>1, <2>1, <2>2, <2>3, <2>4, <2>5, <2>9, StraightVisitKeepsEmit
<1> QED
  BY <1>2, <1>3

LEMMA GenPRINTKeepsEmit == ASSUME Ready, GenPRINT PROVE EmitKept
<1> DEFINE callee == IF ThisVisit.refs[1] = "int" THEN "printf" ELSE "print_vector"
           ops == <<Op(callee, NoText, <<TopValue>>, <<>>)>>
<1>1. /\ Visiting({"PRINT"}) /\ codegen = "emitting" /\ ThisVisit.node = "PRINT" /\ EmitInv
      /\ Emit(ops) /\ opperands' = Pop(opperands) /\ pos' = pos + 1
      /\ UNCHANGED <<storage, locals, codegen>>
  BY DEF GenPRINT, Ready, Visiting, Advance, PopOperand
<1>2. PICK T : Here(T)
  BY <1>1, AtVisit DEF Ready
<1>3. opperands \in Seq(Value(blocks)) /\ StorageTyped(storage, blocks)
  BY <1>1 DEF EmitInv
<1>4. Arity(ThisVisit.node) = 1 /\ PushesNothing
      /\ ThisVisit.node \notin Opening \cup Closing \cup {"LOOP_BODY"}
  BY <1>1 DEF Arity, PushesNothing, Opening, Closing, Ops, ScopedOps
<1>5. /\ TopValue \in Value(blocks) /\ Pop(opperands) \in Seq(Value(blocks))
      /\ Matching(Pop(opperands), T[pos + 1].refs)
  BY <1>2, <1>3, <1>4, OperandPopped
<1>6. TopValue \in Arg
  BY <1>1, <1>5, OperandsAreArgs
<1>7. callee \in Operations /\ callee \notin Terminators
  <2>1. callee = "printf" \/ callee = "print_vector"
    OBVIOUS
  <2> HIDE DEF callee
  <2> QED
    BY <2>1 DEF Operations, Terminators
<1> HIDE DEF callee
<1>8. ops \in Seq(Operation) /\ Straight(ops)
  BY <1>6, <1>7, OneArgument DEF Text
<1> HIDE DEF ops
<1> QED
  BY <1>1, <1>2, <1>3, <1>4, <1>5, <1>8, StraightVisitKeepsEmit

\* CodeGen's lookup, where it finds storage, gives the type DefRef gave the node.
LEMMA TypeOfID ==
    ASSUME DefRefInv, VisitsInv, ReplayInv, Visiting({"ID"}), HasStorage, NEW T, Here(T)
    PROVE  LET type == ResolvedSymbol(scopes, cg_scope, ThisVisit.text).type
           IN  type \in Type /\ \A p : Leaving(p) => p = <<type>>
<1> DEFINE type == ResolvedSymbol(scopes, cg_scope, ThisVisit.text).type
<1>1. /\ ThisVisit = ast[pos] /\ ThisVisit.node = "ID" /\ pos \in DOMAIN ast
      /\ TraceStep(ast, pos, T[pos], T[pos + 1]) /\ Visiting({"ID", "ASSIGN"})
  BY DEF Here, Visiting
<1>2. cg_scope = ast[pos].scope /\ CgBound(pos) = ast[pos].bound
  BY <1>1, StorageIffNotRebound
<1>3. Resolve(scopes, cg_scope, ThisVisit.text) = ast[pos].bound
  BY <1>1, <1>2 DEF CgBound
<1>4. ASSUME NEW t \in Type, DeclaredBefore(ast, pos, t) PROVE t = type
  <2>1. PICK j \in DOMAIN ast : /\ Declaring(ast[j], ast[pos].text, ast[pos].bound)
                                /\ t = DeclaredType(ast[j])
    BY <1>4 DEF DeclaredBefore
  <2>2. InItsScope(ast[j], scopes)
    BY <2>1 DEF VisitsInv, VisitsOK, Effective, Declaring
  <2>3. scopes[ast[pos].bound].symbols[ast[pos].text] = VarSymbol(t)
    BY <2>1, <2>2 DEF InItsScope, Declaring
  <2> QED
    BY <1>1, <1>3, <2>3 DEF ResolvedSymbol, VarSymbol
<1>5. PICK p \in Seq(Type), t \in Type : p = <<t>> /\ DeclaredBefore(ast, pos, t)
  BY <1>1 DEF TraceStep
<1>6. type \in Type
  BY <1>4, <1>5
<1>7. \A q : Leaving(q) => q = <<type>>
  BY <1>1, <1>4 DEF Leaving
<1> QED
  BY <1>6, <1>7

LEMMA GenIDKeepsEmit == ASSUME Ready, VisitsInv, ReplayInv, GenID PROVE EmitKept
<1> DEFINE symbol == CgSymbol(ThisVisit.text)
           type == ResolvedSymbol(scopes, cg_scope, ThisVisit.text).type
           op == "load"
           ops == <<Op(op, type, <<storage[symbol]>>, <<>>)>>
           v == Result(type)
<1>1. Visiting({"ID"}) /\ codegen = "emitting" /\ ThisVisit.node = "ID" /\ EmitInv /\ DefRefInv
  BY DEF GenID, Ready, Visiting
<1>2. CASE symbol \notin DOMAIN storage
  BY <1>1, <1>2, CrashKeepsEmit DEF GenID
<1>3. CASE symbol \in DOMAIN storage
  <2>1. /\ Emit(ops) /\ opperands' = Append(opperands, v) /\ pos' = pos + 1
        /\ UNCHANGED <<storage, locals, codegen>>
    BY <1>3 DEF GenID, Advance
  <2>2. PICK T : Here(T)
    BY <1>1, AtVisit DEF Ready
  <2>3. opperands \in Seq(Value(blocks)) /\ StorageTyped(storage, blocks)
    BY <1>1 DEF EmitInv
  <2>4. Arity(ThisVisit.node) = 0 /\ ThisVisit.node \notin Opening \cup Closing \cup {"LOOP_BODY"}
    BY <1>1 DEF Arity, Opening, Closing, Ops, ScopedOps
  <2>5. type \in Type /\ \A p : Leaving(p) => p = <<type>>
    BY <1>1, <1>3, <2>2, TypeOfID DEF HasStorage
  <2> HIDE DEF type
  <2>6. v \in Value(blocks) /\ v.type = type
    BY <1>1, <2>5, ResultTyped DEF Result
  <2> HIDE DEF v
  <2>7. Append(opperands, v) \in Seq(Value(blocks)) /\ Matching(Append(opperands, v), T[pos + 1].refs)
    <3>1. Leaves1(v)
      BY <2>5, <2>6 DEF Leaves1
    <3> QED
      BY <2>2, <2>3, <2>4, <2>6, <3>1, OperandPushed
  <2>8. storage[symbol] \in Arg
    BY <1>1, <1>3, OperandsAreArgs
  <2>9. op \in Operations /\ op \notin Terminators /\ type \in Text \cup Type \cup Ops
    BY <2>5 DEF Operations, Terminators
  <2> HIDE DEF op, symbol
  <2>10. ops \in Seq(Operation) /\ Straight(ops)
    BY <2>8, <2>9, OneArgument
  <2> HIDE DEF ops
  <2> QED
    BY <1>1, <2>1, <2>2, <2>3, <2>4, <2>7, <2>10, StraightVisitKeepsEmit
<1> QED
  BY <1>2, <1>3

LEMMA GenINTKeepsEmit == ASSUME Ready, GenINT PROVE EmitKept
<1> DEFINE text == ThisVisit.text
           op == "constant"
           none == <<>>
           ops == <<Op(op, text, none, none)>>
           v == Result("int")
<1>1. Visiting({"INT"}) /\ codegen = "emitting" /\ ThisVisit.node = "INT" /\ EmitInv
  BY DEF GenINT, Ready, Visiting
<1>2. CASE text \notin IntLiteral
  BY <1>1, <1>2, CrashKeepsEmit DEF GenINT
<1>3. CASE text \in IntLiteral
  <2>1. /\ Emit(ops) /\ opperands' = Append(opperands, v) /\ pos' = pos + 1
        /\ UNCHANGED <<storage, locals, codegen>>
    BY <1>3 DEF GenINT, Advance
  <2>2. PICK T : Here(T)
    BY <1>1, AtVisit DEF Ready
  <2>3. opperands \in Seq(Value(blocks)) /\ StorageTyped(storage, blocks)
    BY <1>1 DEF EmitInv
  <2>4. Arity(ThisVisit.node) = 0 /\ ThisVisit.node \notin Opening \cup Closing \cup {"LOOP_BODY"}
    BY <1>1 DEF Arity, Opening, Closing, Ops, ScopedOps
  <2>5. v \in Value(blocks) /\ v.type = "int"
    BY <1>1, ResultTyped DEF Result, Type
  <2> HIDE DEF v
  <2>6. Append(opperands, v) \in Seq(Value(blocks)) /\ Matching(Append(opperands, v), T[pos + 1].refs)
    <3>1. Leaves1(v)
      BY <1>1, <2>5 DEF Leaves1, Leaving, Pushed
    <3> QED
      BY <2>2, <2>3, <2>4, <2>5, <3>1, OperandPushed
  <2>7. op \in Operations /\ op \notin Terminators /\ text \in Text \cup Type \cup Ops
    BY <2>2 DEF Operations, Terminators, Here, Visit
  <2>8. none \in Seq(Arg) /\ none \in Seq(Nat)
    OBVIOUS
  <2> HIDE DEF op, text, none
  <2>9. ops \in Seq(Operation) /\ Straight(ops)
    <3>1. Op(op, text, none, none) \in Operation /\ Op(op, text, none, none).op = op
      BY <2>7, <2>8, AnOperation
    <3> QED
      BY <2>7, <3>1, OneStraight
  <2> HIDE DEF ops
  <2> QED
    BY <1>1, <2>1, <2>2, <2>3, <2>4, <2>6, <2>9, StraightVisitKeepsEmit
<1> QED
  BY <1>2, <1>3

LEMMA CalleeIsOperation ==
    ASSUME NEW op \in Ops, NEW l, NEW r
    PROVE  /\ Callee(op, l, r) \in Operations /\ Callee(op, l, r) \notin Terminators
           /\ Returns(Callee(op, l, r)) \in Type
<1> DEFINE callee == Callee(op, l, r)
<1>1. callee \in {"vector_range", "vector_index", "vector_index_vector", "int_op", "vector_op"}
  <2>1. CASE op = "DOTS"
    BY <2>1 DEF Callee
  <2>2. CASE op = "INDEX"
    BY <2>2 DEF Callee
  <2>3. CASE op \notin {"DOTS", "INDEX"}
    BY <2>3 DEF Callee
  <2> QED
    BY <2>1, <2>2, <2>3
<1> HIDE DEF callee
<1>2. callee \in Operations /\ callee \notin Terminators /\ Returns(callee) \in Type
  BY <1>1 DEF Operations, Terminators, Returns, Type
<1> QED
  BY <1>2 DEF callee

LEMMA ThreeStraight ==
    ASSUME NEW x \in Operation, x.op \notin Terminators, NEW y \in Operation, y.op \notin Terminators,
           NEW z \in Operation, z.op \notin Terminators
    PROVE  <<x, y, z>> \in Seq(Operation) /\ Straight(<<x, y, z>>)
<1> DEFINE ops == <<x, y, z>>
<1>1. ops \in Seq(Operation) /\ DOMAIN ops = 1..3 /\ ops[1] = x /\ ops[2] = y /\ ops[3] = z
  OBVIOUS
<1> HIDE DEF ops
<1>2. ASSUME NEW i \in DOMAIN ops PROVE ops[i].op \notin Terminators
  <2>1. i = 1 \/ i = 2 \/ i = 3
    BY <1>1
  <2> QED
    BY <1>1, <2>1
<1> QED
  BY <1>1, <1>2 DEF ops, Straight

LEMMA CallsAreStraight ==
    ASSUME EmitInv, codegen # "idle", NEW op \in Ops, NEW l, NEW r, NEW left \in Arg, NEW right \in Arg
    PROVE  /\ Calls(op, l, r, left, right) \in Seq(Operation)
           /\ Straight(Calls(op, l, r, left, right)) /\ Len(Calls(op, l, r, left, right)) \in Nat
<1> DEFINE int == IF l = "int" THEN left ELSE right
           vector == IF l = "int" THEN right ELSE left
           promoted == ResultAt(ip, 2, "vector")
           size == Op("size", NoText, <<vector>>, <<>>)
           convert == Op("int_to_vector", NoText, <<Result("int"), int>>, <<>>)
           call == Op(Callee(op, l, r), op, IF l = "int" THEN <<promoted, vector>>
                                                         ELSE <<vector, promoted>>, <<>>)
           direct == Op(Callee(op, l, r), op, <<left, right>>, <<>>)
           ops == Calls(op, l, r, left, right)
<1>1. int \in Arg /\ vector \in Arg
  OBVIOUS
<1>2. promoted \in Arg /\ Result("int") \in Arg
  BY ResultTyped DEF Result, Type
<1>3. /\ Callee(op, l, r) \in Operations /\ Callee(op, l, r) \notin Terminators
      /\ op \in Text \cup Type \cup Ops /\ NoText \in Text \cup Type \cup Ops
      /\ "size" \in Operations \ Terminators /\ "int_to_vector" \in Operations \ Terminators
  BY CalleeIsOperation DEF Text, Operations, Terminators
<1>4. ops = IF op \in {"ARITH", "BOOL"} /\ l # r THEN <<size, convert, call>> ELSE <<direct>>
  BY DEF Calls
<1> HIDE DEF int, vector, promoted, ops
<1>5. direct \in Operation /\ direct.op \notin Terminators
  BY <1>3, TwoArguments
<1>6. call \in Operation /\ call.op \notin Terminators
  <2>1. CASE l = "int"
    BY <1>1, <1>2, <1>3, <2>1, TwoArguments
  <2>2. CASE l # "int"
    BY <1>1, <1>2, <1>3, <2>2, TwoArguments
  <2> QED
    BY <2>1, <2>2
<1>7. convert \in Operation /\ convert.op \notin Terminators
  BY <1>1, <1>2, <1>3, TwoArguments
<1>8. <<size>> \in Seq(Operation) /\ Straight(<<size>>)
  BY <1>1, <1>3, OneArgument
<1> HIDE DEF size, convert, call, direct
<1>9. <<direct>> \in Seq(Operation) /\ Straight(<<direct>>)
  BY <1>5, OneStraight
<1>10. <<size, convert, call>> \in Seq(Operation) /\ Straight(<<size, convert, call>>)
  <2>1. size \in Operation /\ size.op \notin Terminators
    <3>1. <<size>>[1] = size /\ 1 \in DOMAIN <<size>>
      OBVIOUS
    <3> QED
      BY <1>8, <3>1 DEF Straight
  <2> QED
    BY <1>6, <1>7, <2>1, ThreeStraight
<1>11. ops \in Seq(Operation) /\ Straight(ops)
  BY <1>4, <1>9, <1>10
<1> QED
  BY <1>11 DEF ops

LEMMA GenOpKeepsEmit == ASSUME Ready, GenOp PROVE EmitKept
<1> DEFINE right == TopValue
           left == opperands[Len(opperands) - 1]
           callee == Callee(ThisVisit.node, ThisVisit.refs[1], ThisVisit.refs[2])
           ops == Calls(ThisVisit.node, ThisVisit.refs[1], ThisVisit.refs[2], left, right)
           v == ResultAt(ip, Len(ops), Returns(callee))
           rest == Pop(Pop(opperands))
<1>1. /\ Visiting(Ops) /\ codegen = "emitting" /\ ThisVisit.node \in Ops /\ EmitInv
      /\ Emit(ops) /\ opperands' = Append(rest, v) /\ pos' = pos + 1
      /\ UNCHANGED <<storage, locals, codegen>>
  BY DEF GenOp, Ready, Visiting, Advance
<1>2. PICK T : Here(T)
  BY <1>1, AtVisit DEF Ready
<1>3. opperands \in Seq(Value(blocks)) /\ StorageTyped(storage, blocks)
  BY <1>1 DEF EmitInv
<1>4. Arity(ThisVisit.node) = 2 /\ ThisVisit.node \notin Opening \cup Closing \cup {"LOOP_BODY"}
  BY <1>1 DEF Arity, Opening, Closing, Ops, ScopedOps
<1>5. Len(opperands) >= 2
  <2> DEFINE s == T[pos]
             t == T[pos + 1]
  <2>1. /\ TraceStep(ast, pos, s, t) /\ s \in Stacks /\ t \in Stacks /\ Matching(opperands, s.refs)
        /\ Consumed(ast[pos]) \in Seq(Type) /\ Arity(ast[pos].node) = 2
    BY <1>2, <1>4, OperandsHere DEF Here
  <2> HIDE DEF s, t
  <2> QED
    BY <1>3, <2>1, OperandsTaken
<1>6. left \in Value(blocks) /\ right \in Value(blocks)
  <2>1. Len(opperands) \in Nat /\ Len(opperands) - 1 \in 1..Len(opperands)
        /\ Len(opperands) \in 1..Len(opperands)
    BY <1>3, <1>5
  <2> QED
    BY <1>3, <2>1 DEF TopValue, Top
<1>7. rest \in Seq(Value(blocks)) /\ Stacked(opperands, rest, <<left, right>>)
  BY <1>3, <1>5, StackedTwo DEF TopValue
<1>8. ops \in Seq(Operation) /\ Straight(ops) /\ Len(ops) \in Nat
  <2>1. left \in Arg /\ right \in Arg
    BY <1>1, <1>6, OperandsAreArgs
  <2> HIDE DEF left, right
  <2> QED
    BY <1>1, <2>1, CallsAreStraight
<1>9. v \in Value(blocks) /\ v.type = Returns(callee)
  <2>1. Returns(callee) \in Type
    BY <1>1, CalleeIsOperation
  <2> HIDE DEF ops, callee
  <2> QED
    BY <1>1, <1>8, <2>1, ResultTyped
<1>10. Leaves1(v)
  BY <1>1, <1>9 DEF Leaves1, Leaving, Pushed
<1> DEFINE c == <<left, right>>
<1>11. c \in Seq(Value(blocks)) /\ Len(c) = 2 /\ Stacked(opperands, rest, c)
  BY <1>6, <1>7
<1> HIDE DEF ops, v, rest, left, right, c, callee
<1>12. Append(rest, v) \in Seq(Value(blocks)) /\ Matching(Append(rest, v), T[pos + 1].refs)
  BY <1>2, <1>3, <1>4, <1>7, <1>9, <1>10, <1>11, OperandsReplaced
<1> QED
  BY <1>1, <1>2, <1>3, <1>4, <1>8, <1>12, StraightVisitKeepsEmit

----------------------------------------------------------------------------
(* Visits that finish a block of main. *)

LEMMA PopPush ==
    ASSUME NEW S, NEW s \in Seq(S), s # <<>> PROVE Append(Pop(s), Top(s)) = s
<1> DEFINE r == Append(Pop(s), Top(s))
<1>1. /\ Len(s) \in Nat \ {0} /\ Top(s) = s[Len(s)] /\ Top(s) \in S /\ Pop(s) \in Seq(S)
      /\ Len(Pop(s)) = Len(s) - 1 /\ \A i \in 1..(Len(s) - 1) : Pop(s)[i] = s[i]
  BY TopAndPop
<1>2. /\ r \in Seq(S) /\ Len(r) = Len(Pop(s)) + 1 /\ r[Len(Pop(s)) + 1] = Top(s)
      /\ \A i \in 1..Len(Pop(s)) : r[i] = Pop(s)[i]
  BY <1>1
<1>3. Len(r) = Len(s) /\ Len(Pop(s)) + 1 = Len(s)
  BY <1>1, <1>2
<1> HIDE DEF r
<1>4. \A i \in 1..Len(r) : r[i] = s[i]
  BY <1>1, <1>2, <1>3
<1>5. r = s
  BY <1>2, <1>3, <1>4, SeqEqual
<1> QED
  BY <1>5 DEF r

LEMMA TerminatorIsOperation ==
    ASSUME NEW x \in Arg, NEW y \in Nat, NEW z \in Nat
    PROVE  /\ CondBr(x, y, z) \in Operation /\ CondBr(x, y, z).op \in Terminators
           /\ Br(y) \in Operation /\ Br(y).op \in Terminators
<1> DEFINE none == <<>>
           args == <<x, const_zero>>
           both == <<y, z>>
           one == <<y>>
           c == "cond_br"
           b == "br"
<1>1. /\ none \in Seq(Arg) /\ both \in Seq(Nat) /\ one \in Seq(Nat) /\ const_zero \in Arg
      /\ c \in Operations /\ b \in Operations /\ c \in Terminators /\ b \in Terminators
  BY DEF Arg, const_zero, Type, Operations, Terminators
<1>2. args \in Seq(Arg)
  BY <1>1
<1> HIDE DEF none, args, both, one, c, b
<1>3. Op(c, NoText, args, both) \in Operation /\ Op(c, NoText, args, both).op = c
  BY <1>1, <1>2, AnOperationTo
<1>4. Op(b, NoText, none, one) \in Operation /\ Op(b, NoText, none, one).op = b
  BY <1>1, AnOperationTo
<1>5. Op(c, NoText, args, both) = CondBr(x, y, z) /\ Op(b, NoText, none, one) = Br(y)
  BY DEF CondBr, Br, none, args, both, one, c, b
<1> QED
  BY <1>1, <1>3, <1>4, <1>5

LEMMA BranchEmitted ==
    ASSUME EmitInv, codegen # "idle", NEW T, Here(T), ThisVisit.node \in Branching,
           NEW op \in Operation, op.op \in Terminators, NEW n \in Nat
    PROVE  LET new == BranchTo(op, n)
           IN  /\ Suspended(new, (Len(blocks) + 1)..(Len(blocks) + n), locals, T[pos].open)
               /\ Len(new) = Len(blocks) + n
               /\ Grown(blocks, new, ip.block) /\ DOMAIN blocks \subseteq DOMAIN new
<1> DEFINE ops == <<op>>
           mid == InsertOps(blocks, ip, ops)
           added == [i \in 1..n |-> Block(<<>>, {})]
           new == mid \o added
           open == T[pos].open
           fresh == (Len(mid) + 1)..(Len(mid) + n)
<1>1. Emitting(blocks, ip, locals, open) /\ NoneScoped(open) /\ open \in Seq(LocalKind)
  BY DEF Here, Follows, TraceStep, Stacks
<1>2. ~Inside(open, Len(open))
  <2> HIDE DEF open
  <2>1. Len(open) \in Nat
    BY <1>1
  <2>2. Len(open) # 0 => Len(open) \in 1..Len(open)
    BY <2>1
  <2> QED
    BY <1>1, <2>2 DEF NoneScoped, Inside
<1> HIDE DEF open
<1>3. Suspended(mid, {}, locals, open) /\ Len(mid) = Len(blocks)
  BY <1>1, <1>2, TerminatorEmitted
<1>4. ops \in Seq(Operation)
  OBVIOUS
<1> HIDE DEF ops
<1>5. Grown(blocks, mid, ip.block)
  BY <1>4, PlaceTyped, GrownInsert
<1>6. BlocksTyped(mid)
  BY <1>3 DEF Suspended
<1> HIDE DEF mid
<1>7. Suspended(new, {} \cup fresh, locals, open) /\ Len(new) = Len(mid) + n
  BY <1>3, BlanksAdded
<1>8. Grown(mid, new, ip.block)
  BY <1>6, GrownBlank
<1> HIDE DEF added, new
<1>9. Grown(blocks, new, ip.block)
  BY <1>5, <1>8, GrownTwice
<1>10. fresh = (Len(blocks) + 1)..(Len(blocks) + n) /\ {} \cup fresh = fresh
       /\ Len(new) = Len(blocks) + n
  BY <1>3, <1>7
<1> HIDE DEF fresh
<1>11. Suspended(new, fresh, locals, open)
  BY <1>7, <1>10
<1>12. new = BranchTo(op, n)
  BY DEF BranchTo, new, mid, added, ops
<1>13. DOMAIN blocks \subseteq DOMAIN new
  BY <1>9 DEF Grown
<1> QED
  BY <1>9, <1>10, <1>11, <1>12, <1>13 DEF open

\* What is left for such a visit to show.
LEMMA BranchVisitKeepsEmit ==
    ASSUME Ready, codegen = "emitting", NEW T, Here(T), UNCHANGED codegen,
           UNCHANGED storage \/ StorageTyped(storage', blocks),
           pos' = pos + 1, opperands' \in Seq(Value(blocks)),
           Matching(opperands', T[pos + 1].refs),
           Grown(blocks, blocks', ip.block), Emitting(blocks', ip', locals', T[pos + 1].open)
    PROVE  EmitKept
<1>1. EmitInv /\ UNCHANGED ast /\ DOMAIN blocks \subseteq DOMAIN blocks' /\ StorageTyped(storage', blocks)
  BY DEF Ready, defref_vars, Grown, EmitInv, StorageTyped
<1>2. opperands' \in Seq(Value(blocks')) /\ StorageTyped(storage', blocks')
  BY <1>1, ValuesKept
<1>3. EmitInv'
  BY <1>1, <1>2, VisitKeepsEmitInv DEF Here
<1> QED
  BY <1>3 DEF EmitKept

LEMMA NotInside ==
    ASSUME NEW o \in Seq(LocalKind), NEW kind \in LocalKind \ ScopedOps
    PROVE  ~Inside(Append(o, kind), Len(Append(o, kind)))
<1>1. Len(Append(o, kind)) = Len(o) + 1 /\ Append(o, kind)[Len(o) + 1] = kind
  OBVIOUS
<1> QED
  BY <1>1 DEF Inside

LEMMA OutsideAfterPop ==
    ASSUME NEW o \in Seq(LocalKind), NEW kind, NoneScoped(Append(o, kind))
    PROVE  ~Inside(o, Len(o))
<1>1. /\ Len(o) \in Nat /\ Len(Append(o, kind)) = Len(o) + 1
      /\ \A k \in 1..Len(o) : Append(o, kind)[k] = o[k]
  OBVIOUS
<1>2. ASSUME Len(o) # 0 PROVE o[Len(o)] \notin ScopedOps
  <2>1. Len(o) \in 1..Len(o) /\ Len(o) \in 1..(Len(o) + 1)
    BY <1>1, <1>2
  <2> QED
    BY <1>1, <2>1 DEF NoneScoped
<1> QED
  BY <1>2 DEF Inside

LEMMA TopLocal ==
    ASSUME NEW bs, NEW ls, NEW o \in Seq(LocalKind), NEW kind \in LocalKind \ ScopedOps,
           Locals(bs, ls, Append(o, kind))
    PROVE  ls # <<>> /\ Top(ls) \in [header: Nat, body: Nat, merge: Nat] /\ ls \in Seq(AnyLocal)
<1>1. ls # <<>> /\ LocalOK(bs, Top(ls), kind, Inside(o, Len(o)))
  BY LocalsPop
<1> QED
  BY <1>1 DEF LocalOK, Locals

LEMMA GenIF_BLOCKKeepsEmit == ASSUME Ready, GenIF_BLOCK PROVE EmitKept
<1> DEFINE n == Len(blocks)
           op == CondBr(TopValue, n + 1, n + 2)
           l == [header |-> 0, body |-> n + 1, merge |-> n + 2]
           kind == "IF"
<1>1. /\ Visiting({"IF_BODY"}) /\ codegen = "emitting" /\ ThisVisit.node = "IF_BODY" /\ EmitInv
      /\ blocks' = BranchTo(op, 2) /\ ip' = StartOf(n + 1) /\ locals' = Append(locals, l)
      /\ opperands' = Pop(opperands) /\ pos' = pos + 1 /\ UNCHANGED <<storage, codegen>>
  BY DEF GenIF_BLOCK, Ready, Visiting, Advance, PopOperand
<1>2. PICK T : Here(T)
  BY <1>1, AtVisit DEF Ready
<1>3. opperands \in Seq(Value(blocks)) /\ n \in Nat
  BY <1>1, PlaceTyped DEF EmitInv
<1>4. /\ Arity(ThisVisit.node) = 1 /\ PushesNothing /\ ThisVisit.node \in Branching
      /\ T[pos + 1].open = Append(T[pos].open, kind) /\ kind \in LocalKind \ ScopedOps
  BY <1>1, <1>2 DEF Arity, PushesNothing, Branching, Opening, Ops, ScopedOps, Here, TraceStep,
     Opened, KindOf, LocalKind
<1>5. /\ TopValue \in Value(blocks) /\ Pop(opperands) \in Seq(Value(blocks))
      /\ Matching(Pop(opperands), T[pos + 1].refs)
  BY <1>2, <1>3, <1>4, OperandPopped
<1>6. op \in Operation /\ op.op \in Terminators
  <2>1. TopValue \in Arg
    BY <1>1, <1>5, OperandsAreArgs
  <2> QED
    BY <1>3, <2>1, TerminatorIsOperation
<1> HIDE DEF op
<1>7. /\ Suspended(blocks', (n + 1)..(n + 2), locals, T[pos].open)
      /\ Grown(blocks, blocks', ip.block)
  BY <1>1, <1>2, <1>4, <1>6, BranchEmitted
<1>8. /\ l \in [header: Nat, body: Nat, merge: Nat] /\ Pending(l, kind) = {n + 2}
      /\ (n + 1)..(n + 2) = {n + 1, n + 2} /\ (n + 1)..(n + 2) \ {n + 2} = {n + 1}
  BY <1>3 DEF Pending, ScopedOps
<1>9. T[pos].open \in Seq(LocalKind) /\ kind # "LOOP" /\ kind = "IF"
  BY <1>2 DEF Here, Stacks
<1> HIDE DEF l, kind, n
<1>10. Suspended(blocks', {n + 1}, locals', T[pos + 1].open)
  <2>1. Pending(l, kind) \subseteq (n + 1)..(n + 2)
    BY <1>8
  <2>2. Suspended(blocks', (n + 1)..(n + 2) \ Pending(l, kind), Append(locals, l), Append(T[pos].open, kind))
    BY <1>4, <1>7, <1>8, <1>9, <2>1, BranchPushed
  <2> QED
    BY <1>1, <1>4, <1>8, <2>2
<1>11. ~Inside(T[pos + 1].open, Len(T[pos + 1].open))
  BY <1>4, <1>9, NotInside
<1>12. Emitting(blocks', ip', locals', T[pos + 1].open)
  BY <1>1, <1>10, <1>11, Resumed
<1> QED
  BY <1>1, <1>2, <1>5, <1>7, <1>12, BranchVisitKeepsEmit

LEMMA GenLOOP_BLOCKKeepsEmit == ASSUME Ready, GenLOOP_BLOCK PROVE EmitKept
<1> DEFINE n == Len(blocks)
           op == Br(n + 1)
           l == [header |-> n + 1, body |-> n + 1 + 1, merge |-> n + 1 + 2]
           kind == "LOOP"
<1>1. /\ Visiting({"LOOP"}) /\ codegen = "emitting" /\ ThisVisit.node = "LOOP" /\ EmitInv
      /\ blocks' = BranchTo(op, 3) /\ ip' = StartOf(n + 1) /\ locals' = Append(locals, l)
      /\ opperands' = opperands /\ pos' = pos + 1 /\ UNCHANGED <<storage, codegen>>
  BY DEF GenLOOP_BLOCK, Ready, Visiting, Advance
<1>2. PICK T : Here(T)
  BY <1>1, AtVisit DEF Ready
<1>3. opperands \in Seq(Value(blocks)) /\ n \in Nat
  BY <1>1, PlaceTyped DEF EmitInv
<1>4. /\ Arity(ThisVisit.node) = 0 /\ PushesNothing /\ ThisVisit.node \in Branching
      /\ T[pos + 1].open = Append(T[pos].open, kind) /\ kind \in LocalKind \ ScopedOps
  BY <1>1, <1>2 DEF Arity, PushesNothing, Branching, Opening, Ops, ScopedOps, Here, TraceStep,
     Opened, KindOf, LocalKind
<1>5. Matching(opperands, T[pos + 1].refs)
  BY <1>2, <1>3, <1>4, OperandsStay
<1>6. op \in Operation /\ op.op \in Terminators
  BY <1>3, TerminatorIsOperation, OperandsAreArgs, <1>1
<1> HIDE DEF op
<1>7. /\ Suspended(blocks', (n + 1)..(n + 3), locals, T[pos].open)
      /\ Grown(blocks, blocks', ip.block)
  BY <1>1, <1>2, <1>4, <1>6, BranchEmitted
<1>8. /\ l \in [header: Nat, body: Nat, merge: Nat] /\ Pending(l, kind) = {n + 2, n + 3}
      /\ (n + 1)..(n + 3) = {n + 1, n + 2, n + 3}
      /\ {n + 1, n + 2, n + 3} \ {n + 2, n + 3} = {n + 1} /\ l.body # l.merge
      /\ l.header # 0
  BY <1>3 DEF Pending, ScopedOps
<1>9. T[pos].open \in Seq(LocalKind)
  BY <1>2 DEF Here, Stacks
<1> HIDE DEF l, kind, n
<1>10. Suspended(blocks', {n + 1}, locals', T[pos + 1].open)
  <2>1. Pending(l, kind) \subseteq (n + 1)..(n + 3)
    BY <1>8
  <2>2. Suspended(blocks', (n + 1)..(n + 3) \ Pending(l, kind), Append(locals, l), Append(T[pos].open, kind))
    BY <1>4, <1>7, <1>8, <1>9, <2>1, BranchPushed
  <2> QED
    BY <1>1, <1>4, <1>8, <2>2
<1>11. ~Inside(T[pos + 1].open, Len(T[pos + 1].open))
  BY <1>4, <1>9, NotInside
<1>12. Emitting(blocks', ip', locals', T[pos + 1].open)
  BY <1>1, <1>10, <1>11, Resumed
<1> QED
  BY <1>1, <1>2, <1>3, <1>5, <1>7, <1>12, BranchVisitKeepsEmit

LEMMA GenLoopBodyKeepsEmit == ASSUME Ready, GenLoopBody PROVE EmitKept
<1> DEFINE l == Top(locals)
           op == CondBr(TopValue, l.body, l.merge)
           kind == "LOOP_BODY"
           n == Len(blocks)
<1>1. /\ Visiting({"LOOP_BODY"}) /\ codegen = "emitting" /\ ThisVisit.node = "LOOP_BODY" /\ EmitInv
      /\ blocks' = BranchTo(op, 0) /\ ip' = StartOf(l.body) /\ locals' = locals
      /\ opperands' = Pop(opperands) /\ pos' = pos + 1 /\ UNCHANGED <<storage, codegen>>
  BY DEF GenLoopBody, Ready, Visiting, Advance, PopOperand
<1>2. PICK T : Here(T)
  BY <1>1, AtVisit DEF Ready
<1>3. opperands \in Seq(Value(blocks)) /\ n \in Nat
  BY <1>1, PlaceTyped DEF EmitInv
<1>4. /\ Arity(ThisVisit.node) = 1 /\ PushesNothing /\ ThisVisit.node \in Branching
      /\ kind \in LocalKind \ ScopedOps /\ "LOOP" \in LocalKind \ ScopedOps
  BY <1>1 DEF Arity, PushesNothing, Branching, Ops, ScopedOps, LocalKind
<1>5. /\ TopValue \in Value(blocks) /\ Pop(opperands) \in Seq(Value(blocks))
      /\ Matching(Pop(opperands), T[pos + 1].refs)
  BY <1>2, <1>3, <1>4, OperandPopped
<1>6. PICK o \in Seq(LocalKind) : T[pos].open = Append(o, "LOOP") /\ T[pos + 1].open = Append(o, kind)
  BY <1>1, <1>2 DEF Here, TraceStep, Opened
<1>7. /\ locals # <<>> /\ l \in [header: Nat, body: Nat, merge: Nat] /\ locals \in Seq(AnyLocal)
  <2>1. Locals(blocks, locals, Append(o, "LOOP"))
    BY <1>2, <1>6 DEF Here, Follows, Emitting
  <2> QED
    BY <1>4, <2>1, TopLocal
<1> HIDE DEF l
<1>8. op \in Operation /\ op.op \in Terminators
  <2>1. TopValue \in Arg
    BY <1>1, <1>5, OperandsAreArgs
  <2> QED
    BY <1>7, <2>1, TerminatorIsOperation
<1> HIDE DEF op, kind
<1>9. Suspended(blocks', {}, locals, Append(o, "LOOP")) /\ Grown(blocks, blocks', ip.block)
  <2>1. (n + 1)..(n + 0) = {}
    BY <1>3
  <2>2. /\ Suspended(blocks', (n + 1)..(n + 0), locals, T[pos].open)
        /\ Grown(blocks, blocks', ip.block)
    BY <1>1, <1>2, <1>4, <1>8, BranchEmitted
  <2> QED
    BY <1>6, <2>1, <2>2
<1>10. Suspended(blocks', {} \cup Pending(l, "LOOP"), Pop(locals), o) /\ l.body # l.merge
       /\ l.header # 0
  <2>1. /\ Suspended(blocks', {} \cup Pending(Top(locals), "LOOP"), Pop(locals), o)
        /\ "LOOP" = "LOOP" => Top(locals).body # Top(locals).merge
        /\ "LOOP" # "IF" => Top(locals).header # 0
    BY <1>4, <1>9, BranchPopped
  <2> QED
    BY <2>1 DEF l
<1>11. Pending(l, "LOOP") = {l.body, l.merge} /\ Pending(l, kind) = {l.merge} /\ kind # "LOOP"
       /\ ({} \cup {l.body, l.merge}) \ {l.merge} = {l.body}
  BY <1>10 DEF Pending, kind, ScopedOps
<1>12. Suspended(blocks', {l.body}, locals, T[pos + 1].open)
  <2>1. Suspended(blocks', ({} \cup Pending(l, "LOOP")) \ Pending(l, kind), Append(Pop(locals), l), Append(o, kind))
    BY <1>4, <1>7, <1>10, <1>11, BranchPushed
  <2>2. Append(Pop(locals), l) = locals
    BY <1>7, PopPush DEF l
  <2> QED
    BY <1>6, <1>11, <2>1, <2>2
<1>13. ~Inside(T[pos + 1].open, Len(T[pos + 1].open))
  BY <1>4, <1>6, NotInside
<1>14. Emitting(blocks', ip', locals', T[pos + 1].open)
  BY <1>1, <1>12, <1>13, Resumed
<1> QED
  BY <1>1, <1>2, <1>5, <1>9, <1>14, BranchVisitKeepsEmit

\* The end of an if or a loop: the walk goes on in the merge block.
LEMMA MergeKeepsEmit ==
    ASSUME Ready, NEW node \in {"IF_END", "LOOP_END"}, Visiting({node}), NEW target \in {"header", "merge"},
           blocks' = BranchTo(Br(Top(locals)[target]), 0), ip' = StartOf(Top(locals).merge),
           locals' = Pop(locals), pos' = pos + 1, UNCHANGED <<opperands, storage, codegen>>
    PROVE  EmitKept
<1> DEFINE l == Top(locals)
           op == Br(l[target])
           kind == KindOf(node)
           n == Len(blocks)
<1>1. codegen = "emitting" /\ ThisVisit.node = node /\ EmitInv
  BY DEF Ready, Visiting
<1>2. PICK T : Here(T)
  BY <1>1, AtVisit DEF Ready
<1>3. opperands \in Seq(Value(blocks)) /\ n \in Nat
  BY <1>1, PlaceTyped DEF EmitInv
<1>4. /\ Arity(node) = 0 /\ PushesNothing /\ node \in Branching
      /\ kind \in LocalKind \ ScopedOps /\ kind # "LOOP"
  <2>1. node = "IF_END" \/ node = "LOOP_END"
    OBVIOUS
  <2>2. kind = IF node = "IF_END" THEN "IF" ELSE "LOOP_BODY"
    BY <2>1 DEF KindOf
  <2> HIDE DEF kind
  <2> QED
    BY <1>1, <2>1, <2>2 DEF Arity, PushesNothing, Branching, Ops, ScopedOps, LocalKind
<1>5. Matching(opperands, T[pos + 1].refs)
  BY <1>1, <1>2, <1>3, <1>4, OperandsStay
<1> DEFINE o == T[pos + 1].open
<1>6. T[pos].open = Append(o, kind) /\ o \in Seq(LocalKind) /\ NoneScoped(T[pos].open)
  BY <1>1, <1>2, <1>4 DEF Here, TraceStep, Opened, Closing, Stacks
<1> HIDE DEF kind, o
<1>7. l \in [header: Nat, body: Nat, merge: Nat]
  <2>1. Locals(blocks, locals, Append(o, kind))
    BY <1>2, <1>6 DEF Here, Follows, Emitting
  <2> QED
    BY <1>4, <1>6, <2>1, TopLocal
<1>8. op \in Operation /\ op.op \in Terminators
  <2>1. l[target] \in Nat
    BY <1>7
  <2>2. const_zero \in Arg
    BY <1>1, OperandsAreArgs
  <2> QED
    BY <2>1, <2>2, TerminatorIsOperation
<1> HIDE DEF l
<1>9. Suspended(blocks', {}, locals, Append(o, kind)) /\ Grown(blocks, blocks', ip.block)
  <2>1. (n + 1)..(n + 0) = {}
    BY <1>3
  <2>2. blocks' = BranchTo(op, 0)
    BY DEF l
  <2> HIDE DEF op
  <2>3. /\ Suspended(blocks', (n + 1)..(n + 0), locals, T[pos].open)
        /\ Grown(blocks, blocks', ip.block)
    BY <1>1, <1>2, <1>4, <1>8, <2>2, BranchEmitted
  <2> QED
    BY <1>6, <2>1, <2>3
<1>10. Suspended(blocks', {} \cup Pending(l, kind), Pop(locals), o)
  BY <1>4, <1>6, <1>9, BranchPopped DEF l
<1>11. {} \cup Pending(l, kind) = {l.merge}
  BY <1>4 DEF Pending
<1>12. ~Inside(o, Len(o))
  BY <1>6, OutsideAfterPop
<1>13. Emitting(blocks', ip', locals', o)
  <2>1. Suspended(blocks', {l.merge}, locals', o)
    BY <1>10, <1>11
  <2> QED
    BY <1>12, <2>1, Resumed DEF l
<1> QED
  BY <1>1, <1>2, <1>3, <1>5, <1>9, <1>13, BranchVisitKeepsEmit DEF o

LEMMA GenEndBranchKeepsEmit == ASSUME Ready, GenEndIF_BLOCK \/ GenEndLOOP_BLOCK PROVE EmitKept
<1>1. CASE GenEndIF_BLOCK
  BY <1>1, MergeKeepsEmit DEF GenEndIF_BLOCK, ResumeAtMerge, Advance
<1>2. CASE GenEndLOOP_BLOCK
  BY <1>2, MergeKeepsEmit DEF GenEndLOOP_BLOCK, ResumeAtMerge, Advance
<1> QED
  BY <1>1, <1>2

----------------------------------------------------------------------------
(* Generators and filters. *)

LEMMA StraightConcatenated ==
    ASSUME NEW s \in Seq(Operation), NEW t \in Seq(Operation), Straight(s), Straight(t)
    PROVE  s \o t \in Seq(Operation) /\ Straight(s \o t)
<1> DEFINE r == s \o t
<1>1. r \in Seq(Operation) /\ Len(r) = Len(s) + Len(t) /\ Len(s) \in Nat /\ Len(t) \in Nat
  BY Concatenated
<1>2. \A i \in 1..Len(s) : r[i] = s[i]
  BY Concatenated
<1>3. \A i \in 1..Len(t) : r[Len(s) + i] = t[i]
  BY Concatenated
<1> HIDE DEF r
<1>4. ASSUME NEW i \in 1..Len(r) PROVE r[i].op \notin Terminators
  <2>1. CASE i \in 1..Len(s)
    BY <1>2, <2>1 DEF Straight
  <2>2. CASE i \notin 1..Len(s)
    <3> DEFINE k == i - Len(s)
    <3>1. k \in 1..Len(t) /\ Len(s) + k = i
      BY <1>1, <2>2
    <3> HIDE DEF k
    <3> QED
      BY <1>3, <3>1 DEF Straight
  <2> QED
    BY <2>1, <2>2
<1>5. Straight(r)
  BY <1>1, <1>4 DEF Straight
<1> QED
  BY <1>1, <1>5 DEF r

LEMMA AheadIsStraight ==
    ASSUME EmitInv, codegen # "idle", NEW node, NEW domain \in Arg, NEW region \in Nat
    PROVE  AheadOfLoop(node, domain, region) \in Seq(Operation)
           /\ Straight(AheadOfLoop(node, domain, region))
<1> DEFINE size == ResultAt(ip, 2, "int")
           result == ResultAt(ip, 3, "vector")
           measure == Op("size", NoText, <<domain>>, <<>>)
           allocate == Op("new_vector", NoText, <<size>>, <<>>)
           three == <<Alloca, measure, allocate>>
           empty == Op("empty", NoText, <<result, const_zero>>, <<>>)
           reset == IF node = "FILTER" THEN <<empty>> ELSE <<>>
           args == <<const_zero, size, const_one>>
           to == <<region>>
           for == "for"
           loop == <<Op(for, NoText, args, to)>>
<1>1. size \in Arg /\ result \in Arg /\ const_zero \in Arg /\ const_one \in Arg
  BY ResultTyped, OperandsAreArgs DEF Type
<1>2. /\ "size" \in Operations \ Terminators /\ "new_vector" \in Operations \ Terminators
      /\ "empty" \in Operations \ Terminators /\ for \in Operations \ Terminators
      /\ NoText \in Text \cup Type \cup Ops
  BY DEF Operations, Terminators, Text
<1>3. AheadOfLoop(node, domain, region) = three \o reset \o loop
  BY DEF AheadOfLoop
<1> HIDE DEF size, result, for
<1>4. measure \in Operation /\ measure.op \notin Terminators
  <2> DEFINE ops == <<measure>>
  <2>1. ops \in Seq(Operation) /\ Straight(ops)
    BY <1>2, OneArgument
  <2>2. ops[1] = measure /\ 1 \in DOMAIN ops
    OBVIOUS
  <2> HIDE DEF measure, ops
  <2> QED
    BY <2>1, <2>2 DEF Straight
<1>5. allocate \in Operation /\ allocate.op \notin Terminators
  <2> DEFINE ops == <<allocate>>
  <2>1. ops \in Seq(Operation) /\ Straight(ops)
    BY <1>1, <1>2, OneArgument
  <2>2. ops[1] = allocate /\ 1 \in DOMAIN ops
    OBVIOUS
  <2> HIDE DEF allocate, ops
  <2> QED
    BY <2>1, <2>2 DEF Straight
<1>6. empty \in Operation /\ empty.op \notin Terminators
  BY <1>1, <1>2, TwoArguments
<1>7. loop \in Seq(Operation) /\ Straight(loop)
  <2>1. args \in Seq(Arg) /\ to \in Seq(Nat)
    BY <1>1
  <2> HIDE DEF args, to
  <2>2. Op(for, NoText, args, to) \in Operation /\ Op(for, NoText, args, to).op = for
    BY <1>2, <2>1, AnOperationTo
  <2> QED
    BY <1>2, <2>2, OneStraight
<1> HIDE DEF measure, allocate, empty, loop
<1>8. three \in Seq(Operation) /\ Straight(three)
  BY <1>4, <1>5, AllocaIsOperation, ThreeStraight
<1>9. reset \in Seq(Operation) /\ Straight(reset)
  <2>1. <<empty>> \in Seq(Operation) /\ Straight(<<empty>>)
    BY <1>6, OneStraight
  <2>2. <<>> \in Seq(Operation) /\ Straight(<<>>)
    BY DEF Straight
  <2> QED
    BY <2>1, <2>2
<1> HIDE DEF three, reset
<1>10. three \o reset \in Seq(Operation) /\ Straight(three \o reset)
  BY <1>8, <1>9, StraightConcatenated
<1>11. three \o reset \o loop \in Seq(Operation) /\ Straight(three \o reset \o loop)
  BY <1>7, <1>10, StraightConcatenated
<1> QED
  BY <1>3, <1>11

LEMMA IteratorIsStraight ==
    ASSUME EmitInv, codegen # "idle", NEW domain \in Arg, NEW region \in Nat
    PROVE  SetIterator(domain, region) \in Seq(Operation) /\ Straight(SetIterator(domain, region))
<1> DEFINE read == Op("vector_index", NoText, <<domain, InductionVar(region)>>, <<>>)
           elem == ResultAt(StartOf(region), 1, "int")
           write == Op("store", NoText, <<elem, Result("address")>>, <<>>)
           ops == <<read, write>>
<1>1. elem \in Arg /\ InductionVar(region) \in Arg
  BY DEF ResultAt, StartOf, InductionVar, Arg, Type
<1>2. Result("address") \in Arg
  BY ResultTyped DEF Result
<1>3. /\ "vector_index" \in Operations \ Terminators /\ "store" \in Operations \ Terminators
      /\ NoText \in Text \cup Type \cup Ops
  BY DEF Operations, Terminators, Text
<1> HIDE DEF elem
<1>4. read \in Operation /\ read.op \notin Terminators
  BY <1>1, <1>3, TwoArguments
<1>5. write \in Operation /\ write.op \notin Terminators
  BY <1>1, <1>2, <1>3, TwoArguments
<1>6. SetIterator(domain, region) = ops
  BY DEF SetIterator, elem
<1> HIDE DEF read, write
<1>7. ops \in Seq(Operation) /\ DOMAIN ops = 1..2 /\ ops[1] = read /\ ops[2] = write
  BY <1>4, <1>5
<1> HIDE DEF ops
<1>8. ASSUME NEW i \in DOMAIN ops PROVE ops[i].op \notin Terminators
  <2>1. i = 1 \/ i = 2
    BY <1>7
  <2> QED
    BY <1>4, <1>5, <1>7, <2>1
<1> QED
  BY <1>6, <1>7, <1>8 DEF Straight

LEMMA YieldIsOperation ==
    Op("yield", NoText, <<>>, <<>>) \in Operation /\ Op("yield", NoText, <<>>, <<>>).op = "yield"
<1> DEFINE op == "yield"
           none == <<>>
<1>1. none \in Seq(Arg) /\ none \in Seq(Nat) /\ op \in Operations
  BY DEF Operations, Terminators
<1> HIDE DEF op, none
<1>2. Op(op, NoText, none, none) \in Operation /\ Op(op, NoText, none, none).op = op
  BY <1>1, AnOperationTo
<1> QED
  BY <1>2 DEF op, none

\* Straight operations that are inserted where CodeGen is.
LEMMA EmittedHere ==
    ASSUME NEW bs, NEW p, NEW ls, NEW open, Emitting(bs, p, ls, open), NEW ops \in Seq(Operation),
           Straight(ops)
    PROVE  /\ Emitting(InsertOps(bs, p, ops), After(p, ops), ls, open)
           /\ Len(InsertOps(bs, p, ops)) = Len(bs) /\ DOMAIN InsertOps(bs, p, ops) = DOMAIN bs
           /\ After(p, ops).block = p.block /\ p.block \in DOMAIN bs
           /\ Grown(bs, InsertOps(bs, p, ops), p.block)
<1> DEFINE inside == Inside(open, Len(open))
           n == Len(bs[p.block].body)
<1>1. /\ BlocksTyped(bs) /\ p \in [block: DOMAIN bs, at: Nat]
      /\ p.at = n - (IF inside THEN 1 ELSE 0)
  BY DEF Emitting, PlaceOK
<1>2. bs \in Seq(BlockRecord) /\ p.block \in DOMAIN bs /\ p.at \in Nat
  BY <1>1 DEF BlocksTyped
<1>3. bs[p.block] \in BlockRecord
  BY <1>2
<1>4. n \in Nat
  BY <1>3 DEF BlockRecord
<1> HIDE DEF n, inside
<1>5. p.at = n - 1 \/ p.at = n - 0
  BY <1>1
<1>6. p.at \in 0..n
  BY <1>2, <1>4, <1>5
<1>7. /\ Emitting(InsertOps(bs, p, ops), After(p, ops), ls, open)
      /\ Len(InsertOps(bs, p, ops)) = Len(bs) /\ After(p, ops).block = p.block
  BY StraightEmitted
<1>8. Grown(bs, InsertOps(bs, p, ops), p.block) /\ DOMAIN InsertOps(bs, p, ops) = DOMAIN bs
  <2>1. p.at \in 0..Len(bs[p.block].body)
    BY <1>6 DEF n
  <2>2. Grown(bs, InsertOps(bs, p, ops), p.block)
    BY <1>1, <1>2, <2>1, GrownInsert
  <2>3. DOMAIN InsertOps(bs, p, ops) = DOMAIN bs
    BY <1>1, <1>2, <2>1, OpsInserted
  <2> QED
    BY <2>2, <2>3
<1> QED
  BY <1>2, <1>7, <1>8

LEMMA GenScopedKeepsEmit == ASSUME Ready, GenScoped PROVE EmitKept
<1> DEFINE region == Len(blocks) + 1
           node == ThisVisit.node
           ahead == AheadOfLoop(node, TopValue, region)
           inside == SetIterator(TopValue, region)
           yield == Op("yield", NoText, <<>>, <<>>)
           within == blocks[ip.block].within \cup {ip.block}
           mid == InsertOps(blocks, ip, ahead)
           more == Append(mid, Block(<<yield>>, within))
           q == After(ip, ahead)
           result == ResultAt(ip, 3, "vector")
           l == [save |-> q, result |-> result, region |-> region]
<1>1. /\ Visiting(ScopedOps) /\ codegen = "emitting" /\ node \in ScopedOps /\ EmitInv
      /\ blocks' = InsertOps(more, StartOf(region), inside)
      /\ ip' = After(StartOf(region), inside)
      /\ locals' = Append(locals, l) /\ opperands' = Pop(opperands) /\ pos' = pos + 1
      /\ UNCHANGED codegen
  BY DEF GenScoped, Ready, Visiting, Advance, PopOperand
<1>2. PICK T : Here(T)
  BY <1>1, AtVisit DEF Ready
<1> DEFINE open == T[pos].open
<1>3. /\ opperands \in Seq(Value(blocks)) /\ region \in Nat /\ BlocksTyped(blocks)
      /\ ip.block \in DOMAIN blocks /\ region \notin DOMAIN blocks
  BY <1>1, PlaceTyped DEF EmitInv
<1>4. /\ Arity(node) = 1 /\ PushesNothing /\ node \in Opening /\ KindOf(node) = node
      /\ T[pos + 1].open = Append(open, node) /\ Emitting(blocks, ip, locals, open)
  <2>1. Arity(node) = 1 /\ PushesNothing /\ node \in Opening
    BY <1>1 DEF Arity, PushesNothing, Opening, Ops, ScopedOps
  <2>2. KindOf(node) = node
    <3>1. node = "GENERATOR" \/ node = "FILTER"
      BY <1>1 DEF ScopedOps
    <3> HIDE DEF node
    <3> QED
      BY <3>1 DEF KindOf
  <2>3. T[pos + 1].open = Append(open, KindOf(node)) /\ Emitting(blocks, ip, locals, open)
    BY <1>2, <2>1 DEF Here, TraceStep, Opened, Follows
  <2> QED
    BY <2>1, <2>2, <2>3
<1>5. /\ TopValue \in Value(blocks) /\ Pop(opperands) \in Seq(Value(blocks))
      /\ Matching(Pop(opperands), T[pos + 1].refs)
  BY <1>2, <1>3, <1>4, OperandPopped
<1>6. TopValue \in Arg
  BY <1>1, <1>5, OperandsAreArgs
<1>7. ahead \in Seq(Operation) /\ Straight(ahead)
  BY <1>1, <1>3, <1>6, AheadIsStraight
<1>8. inside \in Seq(Operation) /\ Straight(inside)
  BY <1>1, <1>3, <1>6, IteratorIsStraight
<1> HIDE DEF ahead, inside, node, open
<1>9. /\ Emitting(mid, q, locals, open) /\ Len(mid) = Len(blocks) /\ DOMAIN mid = DOMAIN blocks
      /\ Grown(blocks, mid, ip.block)
  BY <1>4, <1>7, EmittedHere
<1> HIDE DEF q
<1>10. within \in SUBSET DOMAIN mid /\ within # {}
  BY <1>3, <1>9 DEF BlocksTyped
<1>11. yield \in Operation /\ yield.op = "yield"
  BY YieldIsOperation
<1>12. result \in Value(mid) /\ result.type = "vector"
  <2>1. DOMAIN blocks \subseteq DOMAIN mid /\ "vector" \in Type
    BY <1>9 DEF Type
  <2> HIDE DEF mid
  <2> QED
    BY <1>1, <2>1, ResultTyped
<1> HIDE DEF mid, within, yield, result
<1>13. Emitting(more, StartOf(region), locals', Append(open, node))
  <2>1. LET n == Len(mid) + 1
        IN  Emitting(Append(mid, Block(<<yield>>, within)), StartOf(n),
                     Append(locals, [save |-> q, result |-> result, region |-> n]),
                     Append(open, node))
    BY <1>1, <1>9, <1>10, <1>11, <1>12, RegionPushed
  <2> QED
    BY <1>1, <1>9, <2>1
<1>14. Grown(mid, more, ip.block)
  <2>1. mid \in Seq(BlockRecord)
    BY <1>9 DEF Emitting, BlocksTyped
  <2>2. Block(<<yield>>, within) \in BlockRecord
    <3>1. <<yield>> \in Seq(Operation) /\ within \in SUBSET Nat
      BY <1>10, <1>11, <2>1
    <3> QED
      BY <3>1 DEF Block, BlockRecord
  <2> QED
    BY <2>1, <2>2, GrownAppend
<1> HIDE DEF more, region, l
<1>15. /\ Emitting(blocks', ip', locals', Append(open, node))
       /\ Grown(more, blocks', region)
  <2>1. StartOf(region).block = region
    BY DEF StartOf
  <2> QED
    BY <1>1, <1>8, <1>13, <2>1, EmittedHere
<1>16. Grown(blocks, blocks', ip.block)
  <2>1. Grown(blocks, more, ip.block)
    BY <1>9, <1>14, GrownTwice
  <2> QED
    BY <1>3, <1>15, <2>1, GrownTwice
<1>17. StorageTyped(storage', blocks)
  BY <1>1, StorageGivenTyped DEF GenScoped
<1> QED
  BY <1>1, <1>2, <1>4, <1>5, <1>15, <1>16, <1>17, BranchVisitKeepsEmit

\* The block of a filter's scf.if.
LEMMA KeepIsTerminated ==
    ASSUME NEW x \in Operation, x.op \notin Terminators, NEW y \in Operation, y.op = "yield",
           NEW within \in SUBSET Nat
    PROVE  LET block == Block(<<x, y>>, within)
           IN  /\ block \in BlockRecord /\ block.within = within
               /\ Terminated(block.body) /\ Top(block.body).op = "yield"
<1> DEFINE ops == <<x, y>>
<1>1. ops \in Seq(Operation) /\ Len(ops) = 2 /\ DOMAIN ops = 1..2 /\ ops[1] = x /\ ops[2] = y
  OBVIOUS
<1> HIDE DEF ops
<1>2. Terminated(ops) /\ Top(ops).op = "yield"
  <2>1. y.op \in Terminators /\ ops # <<>>
    <3>1. y.op \in Terminators
      BY DEF Terminators
    <3>2. ops # <<>>
      <4>1. Len(ops) = 2 /\ Len(<<>>) = 0
        BY <1>1
      <4> QED
        BY <4>1
    <3> QED
      BY <3>1, <3>2
  <2>2. ASSUME NEW i \in DOMAIN ops PROVE ops[i].op \in Terminators <=> i = Len(ops)
    <3>1. i = 1 \/ i = 2
      BY <1>1
    <3> QED
      BY <1>1, <2>1, <3>1
  <2> QED
    BY <1>1, <2>1, <2>2 DEF Terminated, Top
<1>3. Block(ops, within) \in BlockRecord
  BY <1>1 DEF Block, BlockRecord
<1> QED
  BY <1>2, <1>3 DEF Block, ops

LEMMA GenEndScopedKeepsEmit == ASSUME Ready, GenEndScoped PROVE EmitKept
<1> DEFINE l == Top(locals)
           node == ThisVisit.node
           kind == KindOf(node)
           kept == Len(blocks) + 1
           elem == ResultAt(StartOf(l.region), 1, "int")
           yield == Op("yield", NoText, <<>>, <<>>)
           keeps == Op("keep", NoText, <<l.result, elem, const_one>>, <<>>)
           within == blocks[ip.block].within \cup {ip.block}
           keep == Block(<<keeps, yield>>, within)
           if == Op("if", NoText, <<TopValue, const_zero>>, <<kept>>)
           put == Op("put", NoText, <<l.result, InductionVar(l.region), TopValue>>, <<>>)
           ops == IF node = "FILTER_END" THEN <<if>> ELSE <<put>>
           mid == InsertOps(blocks, ip, ops)
           q == After(ip, ops)
           rest == Pop(opperands)
<1>1. /\ Visiting({"GENERATOR_END", "FILTER_END"}) /\ codegen = "emitting"
      /\ node \in {"GENERATOR_END", "FILTER_END"} /\ EmitInv
      /\ blocks' = (IF node = "FILTER_END" THEN Append(mid, keep) ELSE mid)
      /\ ip' = l.save /\ locals' = Pop(locals) /\ opperands' = Append(rest, l.result)
      /\ pos' = pos + 1 /\ UNCHANGED <<storage, codegen>>
  BY DEF GenEndScoped, Ready, Visiting, Advance, PopOperand, WithResult
<1>2. PICK T : Here(T)
  BY <1>1, AtVisit DEF Ready
<1> DEFINE o == T[pos + 1].open
<1>3. /\ opperands \in Seq(Value(blocks)) /\ kept \in Nat /\ BlocksTyped(blocks)
      /\ ip.block \in DOMAIN blocks /\ blocks \in Seq(BlockRecord)
  BY <1>1, PlaceTyped DEF EmitInv
<1>4. /\ Arity(node) = 1 /\ kind \in ScopedOps /\ o \in Seq(LocalKind)
      /\ Emitting(blocks, ip, locals, Append(o, kind))
  <2>1. Arity(node) = 1 /\ node \in Closing
    BY <1>1 DEF Arity, Closing, Ops, ScopedOps
  <2>2. kind \in ScopedOps
    <3> HIDE DEF node
    <3> QED
      BY <1>1 DEF KindOf, ScopedOps
  <2>3. T[pos].open = Append(o, kind) /\ o \in Seq(LocalKind) /\ Emitting(blocks, ip, locals, T[pos].open)
    BY <1>2, <2>1 DEF Here, TraceStep, Opened, Follows, Stacks
  <2> QED
    BY <2>1, <2>2, <2>3
<1> HIDE DEF o, kind
<1>5. l.result \in Value(blocks) /\ l.result.type = "vector" /\ l.region \in DOMAIN blocks
  BY <1>4, RegionPopped
<1>6. /\ TopValue \in Value(blocks) /\ rest \in Seq(Value(blocks))
      /\ Stacked(opperands, rest, <<TopValue>>)
  BY <1>2, <1>3, <1>4, OperandPopped
<1>7. /\ TopValue \in Arg /\ l.result \in Arg /\ const_zero \in Arg /\ const_one \in Arg
      /\ elem \in Arg /\ InductionVar(l.region) \in Arg
  <2>1. l.region \in Nat
    BY <1>3, <1>5
  <2>2. elem \in Arg /\ InductionVar(l.region) \in Arg
    BY <2>1 DEF ResultAt, StartOf, InductionVar, Arg, Type
  <2> QED
    BY <1>1, <1>5, <1>6, <2>2, OperandsAreArgs
<1> HIDE DEF l, elem, rest, kept
<1>8. keeps \in Operation /\ keeps.op \notin Terminators
  <2> DEFINE args == <<l.result, elem, const_one>>
             to == <<>>
             op == "keep"
  <2>1. args \in Seq(Arg) /\ to \in Seq(Nat) /\ op \in Operations \ Terminators
    BY <1>7 DEF Operations, Terminators
  <2> HIDE DEF args, to, op
  <2>2. Op(op, NoText, args, to) \in Operation /\ Op(op, NoText, args, to).op = op
    BY <2>1, AnOperationTo
  <2> QED
    BY <2>1, <2>2 DEF args, to, op
<1>9. if \in Operation /\ if.op \notin Terminators
  <2> DEFINE args == <<TopValue, const_zero>>
             to == <<kept>>
             op == "if"
  <2>1. args \in Seq(Arg) /\ to \in Seq(Nat) /\ op \in Operations \ Terminators
    BY <1>3, <1>7 DEF Operations, Terminators
  <2> HIDE DEF args, to, op
  <2>2. Op(op, NoText, args, to) \in Operation /\ Op(op, NoText, args, to).op = op
    BY <2>1, AnOperationTo
  <2> QED
    BY <2>1, <2>2 DEF args, to, op
<1>10. put \in Operation /\ put.op \notin Terminators
  <2> DEFINE args == <<l.result, InductionVar(l.region), TopValue>>
             to == <<>>
             op == "put"
  <2>1. args \in Seq(Arg) /\ to \in Seq(Nat) /\ op \in Operations \ Terminators
    BY <1>7 DEF Operations, Terminators
  <2> HIDE DEF args, to, op
  <2>2. Op(op, NoText, args, to) \in Operation /\ Op(op, NoText, args, to).op = op
    BY <2>1, AnOperationTo
  <2> QED
    BY <2>1, <2>2 DEF args, to, op
<1>11. yield \in Operation /\ yield.op = "yield"
  BY YieldIsOperation
<1> HIDE DEF keeps, if, put, yield
<1>12. ops \in Seq(Operation) /\ Straight(ops)
  BY <1>9, <1>10, OneStraight
<1> HIDE DEF ops
<1>13. /\ Emitting(mid, q, locals, Append(o, kind)) /\ Len(mid) = Len(blocks)
       /\ DOMAIN mid = DOMAIN blocks /\ Grown(blocks, mid, ip.block)
  BY <1>4, <1>12, EmittedHere
<1> HIDE DEF mid, q
<1>14. within \in SUBSET DOMAIN mid /\ within # {} /\ within \in SUBSET Nat
  <2>1. blocks[ip.block].within \subseteq DOMAIN blocks
    BY <1>3 DEF BlocksTyped
  <2>2. DOMAIN blocks \subseteq Nat
    BY <1>3
  <2>3. within \subseteq DOMAIN blocks
    BY <1>3, <2>1
  <2> QED
    BY <1>13, <2>2, <2>3
<1> HIDE DEF within
<1>15. /\ keep \in BlockRecord /\ keep.within = within
       /\ Terminated(keep.body) /\ Top(keep.body).op = "yield"
  BY <1>8, <1>11, <1>14, KeepIsTerminated
<1> HIDE DEF keep
<1>16. /\ Emitting(Append(mid, keep), q, locals, Append(o, kind))
       /\ Grown(mid, Append(mid, keep), ip.block)
  <2>1. mid \in Seq(BlockRecord)
    BY <1>13 DEF Emitting, BlocksTyped
  <2>2. Grown(mid, Append(mid, keep), ip.block)
    BY <1>15, <2>1, GrownAppend
  <2>3. Emitting(Append(mid, keep), q, locals, Append(o, kind))
    BY <1>13, <1>14, <1>15, RegionAppended
  <2> QED
    BY <2>2, <2>3
<1>17. Emitting(blocks', q, locals, Append(o, kind)) /\ Grown(blocks, blocks', ip.block)
  <2>1. CASE node = "FILTER_END"
    BY <1>1, <1>13, <1>16, <2>1, GrownTwice
  <2>2. CASE node # "FILTER_END"
    BY <1>1, <1>13, <2>2
  <2> QED
    BY <2>1, <2>2
<1>18. Emitting(blocks', ip', locals', o)
  BY <1>1, <1>4, <1>17, RegionPopped DEF l
<1>19. /\ Append(rest, l.result) \in Seq(Value(blocks))
       /\ Matching(Append(rest, l.result), T[pos + 1].refs)
  <2> DEFINE c == <<TopValue>>
  <2>1. c \in Seq(Value(blocks)) /\ Len(c) = 1 /\ Stacked(opperands, rest, c)
    BY <1>6
  <2> HIDE DEF c
  <2>2. Leaves1(l.result)
    BY <1>1, <1>5 DEF Leaves1, Leaving, Pushed
  <2> QED
    BY <1>2, <1>3, <1>4, <1>5, <1>6, <2>1, <2>2, OperandsReplaced
<1> QED
  BY <1>1, <1>2, <1>17, <1>18, <1>19, BranchVisitKeepsEmit DEF o

----------------------------------------------------------------------------
(* The beginning and the end of CodeGen. *)

LEMMA GenReturnKeepsEmit == ASSUME Ready, GenReturn PROVE EmitKept
<1> DEFINE args == <<const_zero>>
           none == <<>>
           op == Op("return", NoText, args, none)
           ops == <<op>>
           new == InsertOps(blocks, ip, ops)
           old == blocks[ip.block].body
<1>1. /\ codegen = "emitting" /\ codegen' = "generated" /\ pos = Len(ast) + 1 /\ EmitInv
      /\ blocks' = new /\ ip' = After(ip, ops)
      /\ UNCHANGED <<ast, opperands, storage, locals>>
  BY DEF GenReturn, Emit, Ready, defref_vars
<1>2. op \in Operation /\ op.op \in Terminators /\ ops \in Seq(Operation) /\ Len(ops) = 1
  <2> DEFINE what == "return"
  <2>1. what \in Operations /\ what \in Terminators /\ args \in Seq(Arg) /\ none \in Seq(Nat)
    BY <1>1, OperandsAreArgs DEF Operations, Terminators
  <2> HIDE DEF what, args, none
  <2>2. Op(what, NoText, args, none) \in Operation /\ Op(what, NoText, args, none).op = what
    BY <2>1, AnOperationTo
  <2>3. op \in Operation /\ op.op = what
    BY <2>2 DEF what
  <2> HIDE DEF op
  <2> QED
    BY <2>1, <2>3
<1>3. PICK T : Traced(T) /\ Follows(T)
  BY <1>1 DEF EmitInv
<1>4. T[pos].refs = <<>> /\ T[pos].open = <<>>
  BY <1>1, <1>3 DEF Traced, NoStacks
<1>5. opperands = <<>> /\ locals = <<>>
  <2>1. opperands \in Seq(Value(blocks)) /\ Len(opperands) = 0
    BY <1>1, <1>3, <1>4 DEF Follows, Matching, EmitInv
  <2>2. Locals(blocks, locals, <<>>)
    BY <1>3, <1>4 DEF Follows, Emitting
  <2>3. locals \in Seq(AnyLocal) /\ Len(locals) = 0
    BY <2>2 DEF Locals
  <2> QED
    BY <2>1, <2>3
<1>6. Emitting(blocks, ip, locals, none) /\ ~Inside(none, Len(none))
  <2>1. ~Inside(<<>>, Len(<<>>))
    BY DEF Inside
  <2> QED
    BY <1>3, <1>4, <2>1 DEF Follows
<1>7. Suspended(new, {}, locals, none) /\ Len(new) = Len(blocks)
  <2> HIDE DEF op, none
  <2> QED
    BY <1>2, <1>6, TerminatorEmitted
<1>8. /\ ip.block \in DOMAIN blocks /\ blocks \in Seq(BlockRecord) /\ ip \in [block: Nat, at: Nat]
      /\ ip.at \in 0..Len(old) /\ BlocksTyped(blocks) /\ blocks[ip.block] \in BlockRecord
  <2>1. /\ ip.block \in DOMAIN blocks /\ blocks \in Seq(BlockRecord) /\ ip \in [block: Nat, at: Nat]
        /\ ip.at \in 0..Len(old) /\ BlocksTyped(blocks)
    BY <1>1, PlaceTyped
  <2> QED
    BY <2>1
<1> HIDE DEF op, ops
<1>9. /\ DOMAIN new = DOMAIN blocks /\ BlocksTyped(new) /\ Grown(blocks, new, ip.block)
      /\ Len(new[ip.block].body) = Len(old) + 1
  <2>1. /\ DOMAIN new = DOMAIN blocks /\ BlocksTyped(new)
        /\ Spliced(old, ip.at, ops, new[ip.block].body)
    BY <1>2, <1>8, OpsInserted
  <2>2. Grown(blocks, new, ip.block)
    BY <1>2, <1>8, GrownInsert
  <2> QED
    BY <1>2, <2>1, <2>2 DEF Spliced
<1> HIDE DEF new
<1>10. ip' \in [block: DOMAIN blocks', at: Nat] /\ ip'.at <= Len(blocks'[ip'.block].body)
  <2>1. Len(old) \in Nat
    BY <1>8 DEF BlockRecord
  <2> HIDE DEF old
  <2>2. ip' = [block |-> ip.block, at |-> ip.at + 1]
    BY <1>1, <1>2, <1>8 DEF After
  <2> QED
    BY <1>1, <1>8, <1>9, <2>1, <2>2
<1>11. ASSUME NEW b \in DOMAIN blocks' PROVE Terminated(blocks'[b].body)
  <2>1. BlockOK(blocks'[b], b \in {} \/ Awaited(b, locals, none))
    BY <1>1, <1>7, <1>11 DEF Suspended
  <2>2. ~Awaited(b, locals, none)
    <3>1. 1..Len(none) = {}
      OBVIOUS
    <3> QED
      BY <3>1 DEF Awaited
  <2> QED
    BY <2>1, <2>2 DEF BlockOK
<1>12. StorageTyped(storage', blocks') /\ opperands' \in Seq(Value(blocks'))
  <2>1. DOMAIN blocks \subseteq DOMAIN blocks' /\ opperands \in Seq(Value(blocks))
        /\ StorageTyped(storage, blocks)
    BY <1>1, <1>9 DEF EmitInv
  <2> QED
    BY <1>1, <2>1, ValuesKept
<1>13. EmitInv'
  BY <1>1, <1>5, <1>9, <1>10, <1>11, <1>12 DEF EmitInv
<1> QED
  BY <1>1, <1>9, <1>13 DEF EmitKept

\* GenerateMlir up to Visit(root), on a tree DefRef has accepted.
LEMMA GenerateMlirKeepsEmit ==
    ASSUME DefRefInv, VisitsInv, TraceInv, ReplayInv, EmitInv, UNCHANGED defref_vars, GenerateMlir
    PROVE  EmitInv'
<1> DEFINE none == <<>>
           one == Op("one", NoText, none, none)
           zero == Op("zero", NoText, none, none)
           ops == <<one, zero>>
           entry == Block(ops, {})
           bs == <<entry>>
           p == [block |-> 1, at |-> 2]
<1>1. /\ codegen = "idle" /\ status = "validated" /\ codegen' = "emitting" /\ pos' = 1
      /\ blocks' = bs /\ ip' = p /\ UNCHANGED <<ast, opperands, storage, locals>>
      /\ opperands = none /\ locals = none
  BY DEF GenerateMlir, EmitInv, defref_vars
<1>2. DOMAIN storage = {}
  <2>1. pos = 1
    BY <1>1 DEF ReplayInv
  <2>2. \A i \in DOMAIN ast : ~(i < pos)
    BY <2>1 DEF DefRefInv
  <2> QED
    BY <2>2 DEF ReplayInv
<1>3. PICK T : Traced(T)
  <2>1. Reaches(ast, NoStacks)
    BY <1>1, TraceOfWholeWalk DEF VisitsInv
  <2> QED
    BY <2>1 DEF Reaches, Traced
<1>4. T[1] = NoStacks
  BY <1>3 DEF Traced, Walked
<1>5. /\ one \in Operation /\ one.op \notin Terminators
      /\ zero \in Operation /\ zero.op \notin Terminators
  <2> DEFINE x == "one"
             y == "zero"
  <2>1. /\ none \in Seq(Arg) /\ none \in Seq(Nat)
        /\ x \in Operations /\ y \in Operations /\ x \notin Terminators /\ y \notin Terminators
    BY DEF Operations, Terminators
  <2> HIDE DEF none, x, y
  <2>2. /\ Op(x, NoText, none, none) \in Operation /\ Op(x, NoText, none, none).op = x
        /\ Op(y, NoText, none, none) \in Operation /\ Op(y, NoText, none, none).op = y
    BY <2>1, AnOperationTo
  <2> QED
    BY <2>1, <2>2 DEF x, y
<1> HIDE DEF one, zero
<1>6. ops \in Seq(Operation) /\ Len(ops) = 2 /\ Straight(ops)
  <2>1. ops \in Seq(Operation) /\ Len(ops) = 2 /\ DOMAIN ops = 1..2 /\ ops[1] = one /\ ops[2] = zero
    BY <1>5
  <2> HIDE DEF ops
  <2>2. ASSUME NEW i \in DOMAIN ops PROVE ops[i].op \notin Terminators
    <3>1. i = 1 \/ i = 2
      BY <2>1
    <3> QED
      BY <1>5, <2>1, <3>1
  <2> QED
    BY <2>1, <2>2 DEF Straight
<1> HIDE DEF ops
<1>7. entry \in BlockRecord /\ entry.body = ops /\ entry.within = {}
  BY <1>6 DEF Block, BlockRecord
<1> HIDE DEF entry
<1>8. bs \in Seq(BlockRecord) /\ Len(bs) = 1 /\ DOMAIN bs = {1} /\ bs[1] = entry
  <2>1. bs \in Seq(BlockRecord) /\ Len(bs) = 1 /\ DOMAIN bs = 1..1 /\ bs[1] = entry
    BY <1>7
  <2> QED
    BY <2>1
<1> HIDE DEF bs
<1>9. BlocksTyped(bs)
  BY <1>7, <1>8 DEF BlocksTyped
<1>10. Len(none) = 0 /\ 1..Len(none) = {} /\ none \in Seq(AnyLocal) /\ none \in Seq(LocalKind)
       /\ none \in Seq(Value(bs)) /\ none \in Seq(Type)
  OBVIOUS
<1> HIDE DEF none
<1>11. Emitting(bs, p, none, none)
  <2>1. Locals(bs, none, none)
    BY <1>10 DEF Locals
  <2>2. \A b : ~Awaited(b, none, none)
    BY <1>10 DEF Awaited
  <2>3. ~Inside(none, Len(none))
    BY <1>10 DEF Inside
  <2>4. p.block \in DOMAIN bs /\ p.block = 1 /\ p.at = 2 /\ p \in [block: DOMAIN bs, at: Nat]
    BY <1>8
  <2> HIDE DEF p
  <2>5. PlaceOK(bs, p, Inside(none, Len(none)))
    BY <1>6, <1>7, <1>8, <2>3, <2>4 DEF PlaceOK
  <2>6. \A b \in DOMAIN bs : BlockOK(bs[b], b = p.block \/ Awaited(b, none, none))
    BY <1>6, <1>7, <1>8, <2>4 DEF BlockOK
  <2> QED
    BY <1>9, <2>1, <2>2, <2>5, <2>6 DEF Emitting
<1>12. p \in [block: DOMAIN bs, at: Nat] /\ p.at <= Len(bs[p.block].body)
  <2>1. p.block = 1 /\ p.at = 2 /\ p \in [block: DOMAIN bs, at: Nat]
    BY <1>8
  <2> HIDE DEF p
  <2>2. Len(bs[p.block].body) = 2
    BY <1>6, <1>7, <1>8, <2>1
  <2> QED
    BY <2>1, <2>2
<1> HIDE DEF p
<1>13. StorageTyped(storage, bs)
  BY <1>2 DEF StorageTyped
<1>14. Traced(T)' /\ Follows(T)'
  <2>1. Matching(none, none)
    BY <1>10 DEF Matching
  <2>2. T[1].refs = none /\ T[1].open = none
    BY <1>4 DEF NoStacks, none
  <2> QED
    BY <1>1, <1>3, <1>11, <2>1, <2>2 DEF Traced, Follows
<1>15. codegen' = "emitting" /\ BlocksTyped(blocks') /\ opperands' \in Seq(Value(blocks'))
       /\ StorageTyped(storage', blocks') /\ ip' \in [block: DOMAIN blocks', at: Nat]
       /\ ip'.at <= Len(blocks'[ip'.block].body)
  BY <1>1, <1>9, <1>10, <1>12, <1>13
<1> QED
  BY <1>14, <1>15 DEF EmitInv

LEMMA GenerateKeepsEmit ==
    ASSUME DefRefInv, VisitsInv, TraceInv, ReplayInv, EmitInv, CodeGenNext
    PROVE  EmitInv' /\ (codegen # "idle" => EmitKept)
<1>1. UNCHANGED defref_vars /\ pos \in Nat \ {0}
  BY DEF CodeGenNext, ReplayInv, DefRefInv
<1>2. Ready
  BY <1>1 DEF Ready
<1>3. CASE GenerateMlir
  BY <1>1, <1>3, GenerateMlirKeepsEmit DEF GenerateMlir
<1>4. CASE ~GenerateMlir
  <2>1. EmitKept
    BY <1>2, <1>4, GenReturnKeepsEmit, GenBLOCKKeepsEmit, GenIF_BLOCKKeepsEmit,
       GenLOOP_BLOCKKeepsEmit, GenLoopBodyKeepsEmit, GenEndBranchKeepsEmit, GenDECLKeepsEmit,
       GenASSIGNKeepsEmit, GenPRINTKeepsEmit, GenIDKeepsEmit, GenINTKeepsEmit, GenOpKeepsEmit,
       GenScopedKeepsEmit, GenEndScopedKeepsEmit DEF CodeGenNext
  <2> QED
    BY <2>1 DEF EmitKept
<1> QED
  BY <1>3, <1>4

LEMMA EmitInvInit == CodeGenInit => EmitInv
<1> SUFFICES ASSUME CodeGenInit PROVE EmitInv
  OBVIOUS
<1> DEFINE none == <<>>
<1>1. codegen = "idle" /\ blocks = none /\ opperands = none /\ locals = none /\ storage = none
  BY DEF CodeGenInit
<1>2. DOMAIN none = {} /\ none \in Seq(BlockRecord) /\ none \in Seq(Value(blocks))
  OBVIOUS
<1> HIDE DEF none
<1>3. BlocksTyped(blocks) /\ StorageTyped(storage, blocks)
  BY <1>1, <1>2 DEF BlocksTyped, StorageTyped
<1> QED
  BY <1>1, <1>2, <1>3 DEF EmitInv, none

----------------------------------------------------------------------------
(* What the invariants say of CodeGen. *)

LEMMA ScopeAfterExists ==
    ASSUME DefRefInv, VisitsInv, NEW i \in DOMAIN ast PROVE ScopeAfter(ast[i], scopes) \in 0..Len(scopes)
<1>1. scopes \in Seq(ScopeRecord) /\ ast[i].scope \in DOMAIN scopes /\ Len(scopes) \in Nat
  BY DEF DefRefInv, ScopesOK, VisitsInv, VisitsOK
<1>2. scopes[ast[i].scope].enclosing \in 0..(ast[i].scope - 1) /\ ast[i].scope \in 1..Len(scopes)
  BY <1>1 DEF DefRefInv, ScopesOK
<1>3. ScopeAfter(ast[i], scopes) \in {scopes[ast[i].scope].enclosing, ast[i].scope}
  BY DEF ScopeAfter
<1> QED
  BY <1>1, <1>2, <1>3

LEMMA CodeGenTyped == ASSUME DefRefInv, VisitsInv, ReplayInv, EmitInv PROVE CodeGenTypeOK
<1>1. ast \in Seq(Visit) /\ Len(ast) \in Nat /\ DOMAIN ast = 1..Len(ast) /\ scopes \in Seq(ScopeRecord)
  BY DEF DefRefInv, ScopesOK
<1>2. cg_scope \in 0..Len(scopes)
  <2>1. CASE pos = 1
    BY <1>1, <2>1 DEF ReplayInv, NoScope
  <2>2. CASE pos # 1
    <3>1. pos - 1 \in DOMAIN ast
      BY <1>1, <2>2 DEF ReplayInv
    <3> QED
      BY <2>2, <3>1, ScopeAfterExists DEF ReplayInv
  <2> QED
    BY <2>1, <2>2
<1>3. DOMAIN storage \subseteq (DOMAIN scopes) \X Name
  <2>1. ASSUME NEW j \in DOMAIN ast, IsDeclaration(ast[j])
        PROVE  ast[j].scope \in DOMAIN scopes /\ ast[j].text \in Name
    BY <2>1 DEF VisitsInv, VisitsOK, Effective, InItsScope
  <2> QED
    BY <2>1 DEF ReplayInv
<1>4. BlocksTyped(blocks) /\ blocks \in Seq(BlockRecord) /\ opperands \in Seq(Value(blocks))
  BY DEF EmitInv, BlocksTyped
<1>5. {storage[s] : s \in DOMAIN storage} \subseteq [type: {"address"}, block: Blocks, at: Nat]
  BY DEF EmitInv, StorageTyped, Address, Blocks
<1>6. opperands \in Seq([type: Type, block: Blocks, at: Nat])
  BY <1>4 DEF Value, Blocks
<1>7. \A b \in Blocks : blocks[b].within \subseteq Blocks
  BY <1>4 DEF BlocksTyped, Blocks
<1>8. ASSUME codegen # "idle" PROVE ip.block \in Blocks /\ ip.at \in 0..Len(blocks[ip.block].body)
  BY <1>8, PlaceTyped DEF Blocks
<1>9. pos \in 1..(Len(ast) + 1) /\ codegen \in {"idle", "emitting", "generated", "crashed", "threw"}
  BY DEF ReplayInv
<1>10. ASSUME Visiting(Consumes) PROVE Len(opperands) >= (IF ThisVisit.node \in Ops THEN 2 ELSE 1)
  <2>1. pos \in Nat \ {0}
    BY DEF ReplayInv, DefRefInv
  <2>2. PICK T : Here(T)
    BY <1>10, <2>1, AtVisit
  <2>3. ThisVisit = ast[pos] /\ ThisVisit.node \in Consumes
    BY <1>10, <2>2 DEF Here, Visiting
  <2>4. Len(Consumed(ast[pos])) = IF ThisVisit.node \in Ops THEN 2 ELSE 1
    BY <2>2, <2>3 DEF Here, TraceStep, Arity, Consumes
  <2>5. Len(T[pos].refs) >= Len(Consumed(ast[pos])) /\ Len(opperands) = Len(T[pos].refs)
    <3>1. PICK rest \in Seq(Type) : Stacked(T[pos].refs, rest, Consumed(ast[pos]))
      BY <2>2 DEF Here, TraceStep
    <3>2. Matching(opperands, T[pos].refs)
      BY <2>2 DEF Here, Follows
    <3>3. Len(rest) \in Nat
      OBVIOUS
    <3> QED
      BY <2>3, <2>4, <3>1, <3>2, <3>3 DEF Stacked, Matching
  <2> QED
    BY <2>4, <2>5
<1> QED
  BY <1>2, <1>3, <1>5, <1>6, <1>7, <1>8, <1>9, <1>10 DEF CodeGenTypeOK

LEMMA OperandsAsReferred ==
    ASSUME DefRefInv, VisitsInv, ReplayInv, EmitInv PROVE OperandsMatchReferences
<1> SUFFICES ASSUME Visiting(Consumes)
             PROVE  /\ Len(opperands) >= Len(ThisVisit.refs)
                    /\ \A i \in 1..Len(ThisVisit.refs) :
                          opperands[Len(opperands) - Len(ThisVisit.refs) + i].type = ThisVisit.refs[i]
  BY DEF OperandsMatchReferences
<1> DEFINE c == ThisVisit.refs
<1>1. pos \in Nat \ {0}
  BY DEF ReplayInv, DefRefInv
<1>2. PICK T : Here(T)
  BY <1>1, AtVisit
<1> DEFINE r == T[pos].refs
<1>3. Matching(opperands, r) /\ r \in Seq(Type) /\ c \in Seq(Type) /\ Consumed(ast[pos]) = c
  <2>1. Matching(opperands, r) /\ r \in Seq(Type)
    BY <1>2 DEF Here, Follows, Stacks
  <2>2. c \in Seq(Type) /\ ThisVisit = ast[pos]
    BY <1>2 DEF Here, Visit
  <2>3. ThisVisit.node # "DECL"
    BY DEF Visiting, Consumes, Ops, ScopedOps
  <2> QED
    BY <2>1, <2>2, <2>3 DEF Consumed
<1>4. PICK rest \in Seq(Type) : Stacked(r, rest, c)
  BY <1>2, <1>3 DEF Here, TraceStep
<1>5. opperands \in Seq(Value(blocks))
  BY DEF EmitInv
<1> HIDE DEF c, r
<1>6. /\ Len(rest) \in Nat /\ Len(c) \in Nat /\ Len(r) = Len(rest) + Len(c)
      /\ Len(opperands) = Len(rest) + Len(c)
      /\ \A k \in 1..Len(c) : r[Len(rest) + k] = c[k]
      /\ \A k \in 1..Len(r) : opperands[k].type = r[k]
  BY <1>3, <1>4, <1>5 DEF Stacked, Matching
<1>7. ASSUME NEW i \in 1..Len(c) PROVE opperands[Len(opperands) - Len(c) + i].type = c[i]
  <2>1. Len(opperands) - Len(c) + i = Len(rest) + i /\ Len(rest) + i \in 1..Len(r)
    BY <1>6
  <2> QED
    BY <1>6, <2>1
<1>8. Len(opperands) >= Len(c)
  BY <1>6
<1> QED
  BY <1>7, <1>8 DEF c

LEMMA NothingLeftOver == ASSUME DefRefInv, ReplayInv, EmitInv PROVE NoOperandLeftOver
<1>1. ASSUME Visiting({"BLOCK", "BLOCK_END", "DECL", "LOOP"}) PROVE opperands = <<>>
  <2>1. pos \in Nat \ {0}
    BY DEF ReplayInv, DefRefInv
  <2>2. PICK T : Here(T)
    BY <1>1, <2>1, AtVisit
  <2>3. T[pos].refs = <<>>
    BY <1>1, <2>2 DEF Here, TraceStep, Visiting, OutsideExpressions
  <2>4. Len(opperands) = 0 /\ opperands \in Seq(Value(blocks))
    BY <2>2, <2>3 DEF Here, Follows, Matching, EmitInv
  <2> QED
    BY <2>4
<1> QED
  BY <1>1 DEF NoOperandLeftOver, EmitInv

\* CodeGen is never in a block that it has finished.
LEMMA PlaceIsOpen == ASSUME EmitInv, codegen = "emitting" PROVE ~Closed(blocks, ip.block)
<1>1. PICK T : Follows(T)
  BY DEF EmitInv
<1>2. BlockOK(blocks[ip.block], TRUE)
  <2>1. Emitting(blocks, ip, locals, T[pos].open)
    BY <1>1 DEF Follows
  <2> QED
    BY <2>1 DEF Emitting, PlaceOK
<1> DEFINE ops == blocks[ip.block].body
<1>3. ops \in Seq(Operation)
  <2>1. blocks[ip.block] \in BlockRecord
    BY PlaceTyped
  <2> QED
    BY <2>1 DEF BlockRecord
<1>4. CASE Top(ops).op = "yield"
  BY <1>4 DEF Closed
<1>5. CASE Straight(ops)
  <2> SUFFICES ASSUME ops # <<>> PROVE Top(ops).op \notin Terminators
    BY DEF Closed
  <2>1. Len(ops) \in DOMAIN ops
    BY <1>3
  <2> QED
    BY <1>5, <2>1 DEF Straight, Top
<1> QED
  BY <1>2, <1>4, <1>5 DEF BlockOK

LEMMA ClosedBlocksKept ==
    ASSUME DefRefInv, VisitsInv, TraceInv, ReplayInv, EmitInv, CodeGenNext
    PROVE  \A b \in Blocks : Closed(blocks, b) => blocks'[b] = blocks[b]
<1>1. CASE codegen = "idle"
  <2>1. Blocks = {}
    BY <1>1 DEF EmitInv, Blocks
  <2> QED
    BY <2>1
<1>2. CASE codegen # "idle"
  <2>1. codegen = "emitting"
    BY <1>2, CodeGenStepIsReplay DEF Replayed
  <2>2. Grown(blocks, blocks', ip.block)
    BY <1>2, GenerateKeepsEmit DEF EmitKept
  <2> QED
    BY <2>1, <2>2, PlaceIsOpen DEF Grown, Blocks
<1> QED
  BY <1>1, <1>2

=============================================================================
