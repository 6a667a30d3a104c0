------------------------------ MODULE MCCodeGen ------------------------------
(* A small instance of CodeGen: one label, one function, few statements. *)
EXTENDS CodeGenFlow
==============================================================================
