---------------------------- MODULE ParserBrackets ----------------------------
(***************************************************************************)
(* The brackets of a source, read from the left: parentheses, square       *)
(* brackets, braces, and `repeat` with `loop`.                             *)
(***************************************************************************)
EXTENDS Parser

Closing == {")", "]", "}", "loop"}
Opening == Paren \cup Bracket \cup {"{", "repeat", "#runtime"}

\* A runtime directive swallows the two tokens behind it, whatever they are.
SwallowsTwo == "two"
SwallowsOne == "one"
Mismatch == "mismatch"  \* after a closing bracket that was not awaited; no token closes it

\* What is awaited behind a token that opens something.
ClosedBy(token) ==
  IF token \in Paren THEN ")"
  ELSE IF token \in Bracket THEN "]"
  ELSE IF token = "{" THEN "}"
  ELSE IF token = "repeat" THEN "loop"
  ELSE SwallowsTwo

\* What is awaited, the innermost last, when one more token has been read.
Read(awaited, token) ==
  LET outer == SubSeq(awaited, 1, Len(awaited) - 1)
      IsNext(a) == awaited # <<>> /\ awaited[Len(awaited)] = a
  IN  IF IsNext(SwallowsTwo) THEN outer \o <<SwallowsOne>>
      ELSE IF IsNext(SwallowsOne) \/ (token \in Closing /\ IsNext(token)) THEN outer
      ELSE IF token \in Opening THEN awaited \o <<ClosedBy(token)>>
      ELSE IF token \in Closing THEN awaited \o <<Mismatch>>
      ELSE awaited

\* Awaited(source)[n] is what is awaited behind the first n tokens.
Awaited(source) ==
  LET after[n \in Nat] == IF n = 0 THEN <<>> ELSE Read(after[n - 1], source[n])
  IN  after

\* In what the parser accepts, parentheses, brackets, braces and loops nest:
\* nothing is awaited any more, but for a token to swallow.
BracketsMatch == status = "done" => Awaited(input)[Consumed] \in {<<>>, <<SwallowsOne>>}
===============================================================================
