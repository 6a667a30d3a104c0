----------------------------- MODULE TokenCursor -----------------------------
(***************************************************************************)
(* What the parser may rely on when it looks ahead: the tokens of the      *)
(* source, a position in them, and the positions to be returned to when    *)
(* a speculation is over.  The last token is END and is never passed.      *)
(***************************************************************************)
EXTENDS Integers, Sequences

CONSTANTS
  Inputs, Nothing,
  MaxLook  \* bound on how far ahead the parser looks

VARIABLES
  input,  \* all tokens
  pos,    \* the current one
  saved,  \* the positions speculations began at
  seen    \* the token looked at last

vars == <<input, pos, saved, seen>>

AtMostEnd(p) == IF p > Len(input) THEN Len(input) ELSE p

Init ==
  /\ input \in Inputs
  /\ pos = 1
  /\ saved = <<>>
  /\ seen = Nothing

Look(n) ==
  /\ seen' = input[AtMostEnd(pos + n)]
  /\ UNCHANGED <<input, pos, saved>>

Consume(n) ==
  /\ pos' = AtMostEnd(pos + n)
  /\ UNCHANGED <<input, saved, seen>>

Mark ==
  /\ saved' = Append(saved, pos)
  /\ UNCHANGED <<input, pos, seen>>

Release ==
  /\ saved # <<>>
  /\ pos' = saved[Len(saved)]
  /\ saved' = SubSeq(saved, 1, Len(saved) - 1)
  /\ UNCHANGED <<input, seen>>

Next ==
  \/ \E n \in 0..MaxLook : Look(n)
  \/ \E n \in 1..(MaxLook + 1) : Consume(n)
  \/ Mark
  \/ Release

Spec == Init /\ [][Next]_vars
===============================================================================
