----------------------------- MODULE MCCompiler -----------------------------
(***************************************************************************)
(* The three pipelines as they are; the model is finite without bounds.    *)
(***************************************************************************)
EXTENDS Compiler
=============================================================================
