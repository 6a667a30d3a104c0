----------------------------- MODULE MCWinRuntime -----------------------------
(* A small instance of WinRuntime: two points, two colours. *)
EXTENDS WinRuntime
==============================================================================
