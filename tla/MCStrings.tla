----------------------------- MODULE MCStrings -----------------------------
(***************************************************************************)
(* Three variables.  Concatenation does not make longer texts than MaxLen, *)
(* but files hold longer ones: every kind of line end, one that the buffer *)
(* of fgets breaks up, a CR in the middle and one at the end.              *)
(***************************************************************************)
EXTENDS Strings, TLC

CONSTANTS x, y, z, a, b, c, d

SomeLiterals == {<<LF>>}
SomeFiles == {<<Nine, CR, LF, Nine, Nine, Nine>>, <<Nine, CR, Nine, LF, CR>>}
SomeNumbers == {-20, -19}
SomeSpans == {<<2, 1>>}
Symmetric == Permutations(Vars) \cup Permutations(Addrs)
===============================================================================
