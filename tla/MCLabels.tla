------------------------------ MODULE MCLabels ------------------------------
(***************************************************************************)
(* All programs of MaxLen statements, and with that all shorter ones, with *)
(* two labels; only gotos and returns stand in an `if`.                    *)
(***************************************************************************)
EXTENDS Labels

CONSTANTS MaxLen

SomeStmts ==
  {s \in Stmts : s.if => s.op \in {"goto", "return"}}
SomePrograms ==
  {p \in [1..MaxLen -> SomeStmts] : IsProgram(p)}
===============================================================================
