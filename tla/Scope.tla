------------------------------- MODULE Scope -------------------------------
(***************************************************************************)
(* The symbol tables of vcalc: Scope::BaseScope (src/src/Scope.cpp,        *)
(* src/include/Scope.h) and the two kinds of Symbol::BaseSymbol it holds   *)
(* (src/include/Symbol.h).                                                 *)
(*                                                                         *)
(* Every scope that was ever constructed is an element of a sequence       *)
(* "scopes"; a shared_ptr<BaseScope> is an index into it and the null      *)
(* pointer is 0.  A scope is constructed from a pointer to one that        *)
(* exists, and SetEnclosingScope has no caller, so an enclosing scope      *)
(* always has a smaller index than the scopes it encloses.  "chain" is the *)
(* set of scopes that BaseScope::Resolve walks: the scope itself and       *)
(* everything that encloses it.                                            *)
(***************************************************************************)
EXTENDS Integers, Sequences, FiniteSets, TLC

CONSTANT Name      \* identifiers (lexer rule ID) a program may use

Type == {"int", "vector"}           \* Type::VCalcTypes

\* The lexer gives the words "int" and "vector" to TYPE (VCalc.g4:59), so a
\* variable is never called like a built in type.
ASSUME KeywordsAreNotNames == Name \cap Type = {}

NoScope == 0

\* Symbol::BuiltInTypeSymbol and Symbol::VarSymbol.
Symbol == [kind: {"BuiltInTypeSymbol", "VarSymbol"}, type: Type]
BuiltInTypeSymbol(t) == [kind |-> "BuiltInTypeSymbol", type |-> t]
VarSymbol(t) == [kind |-> "VarSymbol", type |-> t]

----------------------------------------------------------------------------
\* BaseScope(init_scope): an empty scope, enclosed by init_scope.
NewScope(scopes, init_scope) ==
    Append(scopes,
           [enclosing |-> init_scope,
            symbols   |-> <<>>,
            chain     |-> {Len(scopes) + 1} \cup
                          (IF init_scope = NoScope THEN {} ELSE scopes[init_scope].chain)])

\* BaseScope::GetSymbols().find(name) != end()
Declares(scopes, s, name) == name \in DOMAIN scopes[s].symbols

\* BaseScope::Define: std::map::emplace keeps the symbol that is already there.
Define(scopes, s, name, sym) ==
    [scopes EXCEPT ![s].symbols =
        [n \in DOMAIN @ \cup {name} |-> IF n \in DOMAIN @ THEN @[n] ELSE sym]]

ScopeReset(scopes, s) == NoScope     \* mutant: the pointer is reset
ScopeKept(scopes, s) == s            \* mutant: the scope is not popped
GetEnclosingScope(scopes, s) == scopes[s].enclosing

\* The scopes that Resolve(name), called on scope s, could answer from.
HoldersAnywhere(scopes, s, name) ==     \* mutant: every scope is searched
    {t \in DOMAIN scopes : Declares(scopes, t, name)}
Holders(scopes, s, name) == {t \in scopes[s].chain : Declares(scopes, t, name)}

\* mutant: enclosing scopes are asked first
ResolveOutermost(scopes, s, name) ==
    LET holders == Holders(scopes, s, name)
    IN  IF holders = {} THEN NoScope
        ELSE CHOOSE t \in holders : \A u \in holders : t <= u

\* BaseScope::Resolve: the innermost scope of the chain that declares the name,
\* or the null pointer.
Resolve(scopes, s, name) ==
    LET holders == Holders(scopes, s, name)
    IN  IF holders = {} THEN NoScope
        ELSE CHOOSE t \in holders : \A u \in holders : u <= t

\* The symbol Resolve returns, where it returns one.
ResolvedSymbol(scopes, s, name) == scopes[Resolve(scopes, s, name)].symbols[name]

----------------------------------------------------------------------------
\* The tables DefRef can build.  Used as a type.
SymbolTable == UNION {[D -> Symbol] : D \in SUBSET (Name \cup Type)}
ScopeRecord == [enclosing: Nat, symbols: SymbolTable, chain: SUBSET Nat]
=============================================================================
