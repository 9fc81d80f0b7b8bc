---------------------------- MODULE MCCompiler ----------------------------
(***************************************************************************)
(* Model checking the whole compiler.                                      *)
(***************************************************************************)
EXTENDS Compiler
===========================================================================
