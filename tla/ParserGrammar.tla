---------------------------- MODULE ParserGrammar ----------------------------
(***************************************************************************)
(* What the parser is held against: the grammar of type specifiers.        *)
(***************************************************************************)
EXTENDS ParserBrackets

(***************************************************************************)
(* The grammar of type specifiers, as the code has it:                     *)
(*   T    ::= { "mod" } ( "Type" | "[" T "]" | "(" T ")" )                 *)
(*            { "." "Type" } [ "->" T ]                                    *)
(* IsType[i, j] is whether tokens i to j - 1 are a T, IsSimple the part of *)
(* it without "->" and IsAtom the one without modifiers and members.       *)
(***************************************************************************)
RECURSIVE IsType(_, _), IsSimple(_, _), IsAtom(_, _)
IsAtom(i, j) ==
  \/ j = i + 1 /\ input[i] = "Type"
  \/ j > i + 2 /\ <<input[i], input[j - 1]>> \in (Bracket \X {"]"}) \cup (Paren \X {")"})
     /\ IsType(i + 1, j - 1)
IsSimple(i, j) ==
  \/ j > i /\ IsAtom(i, j)
  \/ j > i + 2 /\ input[j - 2] = "." /\ input[j - 1] = "Type" /\ IsSimple(i, j - 2)
IsType(i, j) ==
  \/ j > i /\ IsSimple(i, j)
  \/ j > i + 1 /\ input[i] = "mod" /\ IsType(i + 1, j)
  \/ \E k \in (i + 1)..(j - 2) :
       input[k] = "->" /\ IsSimple(i, k) /\ IsType(k + 1, j)

\* Where a type specifier that begins behind the consumed tokens ends: not where
\* it goes on, because the parser does not take back that it goes on.
GoesOn(j) ==
  \/ input[j] = "->"
  \/ input[j] = "." /\ input[j + 1] = "Type"
TypeEnds(consumed) ==
  {j \in (consumed + 2)..Len(input) : IsType(consumed + 1, j) /\ ~GoesOn(j)}

\* An operand is taken for a type specifier exactly when the grammar has one there.
AcceptsTheGrammar ==
  /\ Here.at = "no type" => TypeEnds(guess.from) = {}
  /\ Here.at = "constructed" => TypeEnds(guess.from) = {Consumed + 1}
===============================================================================
