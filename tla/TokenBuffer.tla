----------------------------- MODULE TokenBuffer -----------------------------
(***************************************************************************)
(* The parser's lookahead: tokens that were read from the lexer and not    *)
(* consumed yet.  While it speculates, the parser's position is the last   *)
(* marker, an index into the buffer, and nothing leaves the buffer.        *)
(***************************************************************************)
EXTENDS Integers, Sequences

CONSTANTS
  Tokens, END,
  Inputs,    \* the sequences of tokens of whole sources
  Nothing,   \* what has been seen before the first look
  MaxLook,   \* bound on how far ahead the parser looks
  MaxDepth   \* bound on how deep speculations nest

IsInput(s) == s # <<>> /\ \A i \in DOMAIN s : s[i] = END <=> i = Len(s)

ASSUME InputsAssumption ==
  /\ Nothing \notin Tokens
  /\ \A s \in Inputs : s \in Seq(Tokens) /\ IsInput(s)
ASSUME BoundsAssumption == MaxLook \in Nat /\ MaxDepth \in Nat

VARIABLES
  input,    \* what the lexer turns the source into
  lexer,    \* what getNextToken has not returned yet
  tokens,   \* tokens_
  markers,  \* markers_
  seen      \* the token lt returned last

bufferVars == <<input, lexer, tokens, markers, seen>>

BufferTypeOK ==
  /\ input \in Inputs
  /\ lexer \in Seq(Tokens)
  /\ tokens \in Seq(Tokens)
  /\ markers \in Seq(Nat)
  /\ seen \in Tokens \cup {Nothing}

BufferInit ==
  /\ input \in Inputs
  /\ lexer = input
  /\ tokens = <<>>
  /\ markers = <<>>
  /\ seen = Nothing

-----------------------------------------------------------------------------
IsSpeculating == markers # <<>>
Top == IF IsSpeculating THEN markers[Len(markers)] ELSE 0

HasEnd == tokens # <<>> /\ tokens[Len(tokens)] = END

\* How many tokens lt reads to have the one at index i (from 0): none past END.
Missing(i) ==
  IF HasEnd \/ i < Len(tokens) THEN 0
  ELSE IF i + 1 - Len(tokens) > Len(lexer) THEN Len(lexer)
  ELSE i + 1 - Len(tokens)

\* The token at index i, or END, which then is the last one.
TokenAt(buffer, i) ==
  IF i < Len(buffer) THEN buffer[i + 1] ELSE buffer[Len(buffer)]

LookFrom(n) == Top + n

Look(n) ==
  LET k == Missing(LookFrom(n))
      buffer == tokens \o SubSeq(lexer, 1, k)
  IN  /\ tokens' = buffer
      /\ lexer' = SubSeq(lexer, k + 1, Len(lexer))
      /\ seen' = TokenAt(buffer, LookFrom(n))
      /\ UNCHANGED <<input, markers>>

\* The parser consumes what it has looked at and nothing else: consume would
\* stop where the buffer ends.
IsBuffered(n) == Top + n <= Len(tokens)

\* What consume drops from the front of the buffer when it does not speculate:
\* not END.
Dropped_End(n) == IF n > Len(tokens) THEN Len(tokens) ELSE n
Dropped(n) ==
  IF HasEnd /\ n >= Len(tokens) THEN Len(tokens) - 1
  ELSE IF n > Len(tokens) THEN Len(tokens)
  ELSE n

Remaining_AlwaysDropped(n) == SubSeq(tokens, Dropped(n) + 1, Len(tokens))
Remaining(n) ==
  IF IsSpeculating THEN tokens ELSE SubSeq(tokens, Dropped(n) + 1, Len(tokens))

Consume(n) ==
  /\ IsBuffered(n)
  /\ tokens' = Remaining(n)
  /\ markers' = IF IsSpeculating THEN [markers EXCEPT ![Len(markers)] = @ + n]
                ELSE markers
  /\ UNCHANGED <<input, lexer, seen>>

NewMarker_PastLookahead == Len(tokens)
NewMarker == Top

Mark ==
  /\ markers' = Append(markers, NewMarker)
  /\ UNCHANGED <<input, lexer, tokens, seen>>

Released == SubSeq(markers, 1, Len(markers) - 1)

Release ==
  /\ IsSpeculating
  /\ markers' = Released
  /\ UNCHANGED <<input, lexer, tokens, seen>>

BufferNext ==
  \/ \E n \in 0..MaxLook : Look(n)
  \/ \E n \in 1..(MaxLook + 1) : Consume(n)
  \/ Len(markers) < MaxDepth /\ Mark
  \/ Release

BufferSpec == BufferInit /\ [][BufferNext]_bufferVars

-----------------------------------------------------------------------------
Consumed == Len(input) - Len(lexer) - Len(tokens)

\* The buffer and the lexer hold what was not consumed, in order, and END is
\* never consumed.
NothingIsLost ==
  /\ Consumed >= 0
  /\ \A i \in 1..Len(tokens) : tokens[i] = input[Consumed + i]
  /\ \A i \in 1..Len(lexer) : lexer[i] = input[Consumed + Len(tokens) + i]
  /\ Len(lexer) + Len(tokens) > 0

\* A speculation is never behind the one it is nested in, nor ahead of the buffer.
MarkersAreOrdered ==
  /\ \A i \in 1..(Len(markers) - 1) : markers[i] <= markers[i + 1]
  /\ Top <= Len(tokens)

(***************************************************************************)
(* The buffer implements the cursor: looking ahead and speculating change  *)
(* neither the tokens that are seen nor their order, and after a           *)
(* speculation the parser is where it was before.                          *)
(***************************************************************************)
AtMostEnd(p) == IF p > Len(input) THEN Len(input) ELSE p

Position == AtMostEnd(Consumed + Top + 1)
SavedPositions ==
  [i \in 1..Len(markers) |->
     AtMostEnd(Consumed + 1 + (IF i = 1 THEN 0 ELSE markers[i - 1]))]

Cursor == INSTANCE TokenCursor WITH pos <- Position, saved <- SavedPositions
ImplementsCursor == Cursor!Spec
===============================================================================
