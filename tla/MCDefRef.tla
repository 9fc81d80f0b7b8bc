----------------------------- MODULE MCDefRef -----------------------------
(***************************************************************************)
(* Model checking DefRef on its own.                                       *)
(***************************************************************************)
EXTENDS DefRef

\* BaseScope::Resolve as it is written: look here, then ask enclosing_scope.
RECURSIVE Walk(_, _)
Walk(s, name) ==
    IF s = NoScope \/ Declares(scopes, s, name) THEN s
    ELSE Walk(scopes[s].enclosing, name)

(***************************************************************************)
(* ResolveIsTheWalk: the innermost holder among the enclosing scopes is    *)
(* what the recursion over enclosing_scope in Scope.cpp:22-31 finds, for   *)
(* every scope and name, declared or not.                                  *)
(***************************************************************************)
ResolveIsTheWalk ==
    \A s \in DOMAIN scopes, n \in Name \cup Type : Walk(s, n) = Resolve(scopes, s, n)
===========================================================================
