------------------------------- MODULE MCStick -------------------------------
(* A small instance of Stick: three keys. *)
EXTENDS Stick
===============================================================================
