---------------------------- MODULE ParserProofs ----------------------------
(***************************************************************************)
(* The token buffer implements the cursor, for every set of tokens and     *)
(* sources and whatever the bounds; the parser uses it as a parser may,    *)
(* parses again what it speculated on just as it did then, and ends only   *)
(* behind the last token and when all brackets are closed: for every       *)
(* source, however deep its activations.                                   *)
(***************************************************************************)
EXTENDS ParserBrackets, SequenceTheorems, WellFoundedInduction, TLAPS

BufferInv == BufferTypeOK /\ NothingIsLost /\ MarkersAreOrdered

\* The source ends with END, which is nowhere else in it.
LEMMA InputIsSource ==
  ASSUME BufferTypeOK
  PROVE  /\ input \in Seq(Tokens)
         /\ Len(input) \in Nat /\ Len(input) > 0
         /\ \A i \in 1..Len(input) : input[i] = END <=> i = Len(input)
  BY InputsAssumption DEF BufferTypeOK, IsInput

\* Once END is in the buffer the lexer has nothing left.
LEMMA EndIsTheLast ==
  ASSUME BufferInv, tokens # <<>>
  PROVE  HasEnd <=> Len(lexer) = 0
<1>1. Len(tokens) \in Nat /\ Len(tokens) > 0 /\ Len(lexer) \in Nat
  BY DEF BufferInv, BufferTypeOK
<1>2. /\ Consumed + Len(tokens) \in 1..Len(input)
      /\ tokens[Len(tokens)] = input[Consumed + Len(tokens)]
  BY <1>1, InputIsSource DEF BufferInv, NothingIsLost, Consumed
<1>3. HasEnd <=> Consumed + Len(tokens) = Len(input)
  BY <1>2, InputIsSource DEF BufferInv, HasEnd
<1> QED BY <1>1, <1>3, InputIsSource DEF BufferInv, Consumed

LEMMA TopIsNat ==
  ASSUME BufferInv
  PROVE  Top \in Nat /\ (IsSpeculating => Top = markers[Len(markers)]) /\ Top <= Len(tokens)
<1>1. markers \in Seq(Nat) /\ Top <= Len(tokens)
  BY DEF BufferInv, BufferTypeOK, MarkersAreOrdered
<1>2. markers # <<>> => markers[Len(markers)] \in Nat
  BY <1>1
<1> QED BY <1>1, <1>2 DEF Top, IsSpeculating

\* The parts of the invariant the proofs below use.
LEMMA Basics ==
  ASSUME BufferInv
  PROVE  /\ lexer \in Seq(Tokens) /\ tokens \in Seq(Tokens) /\ markers \in Seq(Nat)
         /\ Len(lexer) \in Nat /\ Len(tokens) \in Nat /\ Len(markers) \in Nat
         /\ Len(input) \in Nat /\ Len(input) > 0
         /\ Consumed \in Nat /\ Consumed = Len(input) - Len(lexer) - Len(tokens)
         /\ \A i \in 1..Len(tokens) : tokens[i] = input[Consumed + i]
         /\ \A i \in 1..Len(lexer) : lexer[i] = input[Consumed + Len(tokens) + i]
         /\ Len(lexer) + Len(tokens) > 0
<1>1. /\ lexer \in Seq(Tokens) /\ tokens \in Seq(Tokens) /\ markers \in Seq(Nat)
      /\ Len(lexer) \in Nat /\ Len(tokens) \in Nat /\ Len(markers) \in Nat
      /\ Len(input) \in Nat /\ Len(input) > 0
  BY InputIsSource DEF BufferInv, BufferTypeOK
<1>2. NothingIsLost
  BY DEF BufferInv
<1>3. Consumed \in Nat /\ Consumed = Len(input) - Len(lexer) - Len(tokens)
  BY <1>1, <1>2 DEF NothingIsLost, Consumed
<1> QED BY <1>1, <1>2, <1>3 DEF NothingIsLost

-----------------------------------------------------------------------------
(* Each operation preserves the invariant and is the cursor's. *)

LEMMA LookStep ==
  ASSUME BufferInv, NEW n \in Nat, Look(n)
  PROVE  BufferInv' /\ Cursor!Look(n) /\ Consumed' = Consumed /\ Top' = Top
<1> DEFINE i == Top + n
           k == Missing(i)
           buffer == tokens \o SubSeq(lexer, 1, k)
<1>1. /\ input \in Seq(Tokens) /\ lexer \in Seq(Tokens) /\ tokens \in Seq(Tokens)
      /\ Len(tokens) \in Nat /\ Len(lexer) \in Nat /\ Len(input) \in Nat
      /\ markers \in Seq(Nat) /\ i \in Nat
  BY TopIsNat, InputIsSource, Basics DEF BufferInv
<1>2. k \in 0..Len(lexer)
  BY <1>1 DEF Missing
<1>3. /\ tokens' = buffer
      /\ lexer' = SubSeq(lexer, k + 1, Len(lexer))
      /\ seen' = TokenAt(buffer, i)
      /\ input' = input /\ markers' = markers
  BY DEF Look, LookFrom
<1> HIDE DEF k
<1>4. /\ buffer \in Seq(Tokens) /\ Len(buffer) = Len(tokens) + k
      /\ \A j \in 1..Len(buffer) :
           buffer[j] = IF j <= Len(tokens) THEN tokens[j] ELSE lexer[j - Len(tokens)]
  BY <1>1, <1>2
<1>5. /\ lexer' \in Seq(Tokens) /\ Len(lexer') = Len(lexer) - k
      /\ \A j \in 1..Len(lexer') : lexer'[j] = lexer[k + j]
  BY <1>1, <1>2, <1>3
<1> HIDE DEF buffer
<1>6. Consumed' = Consumed /\ Consumed \in Nat
  <2>1. Len(lexer') = Len(lexer) - k /\ Len(tokens') = Len(tokens) + k
    BY <1>3, <1>4, <1>5
  <2>2. Consumed' = Len(input) - Len(lexer') - Len(tokens')
    BY <1>3 DEF Consumed
  <2> QED BY <2>1, <2>2, <1>1, <1>2, Basics
<1>7. ASSUME NEW j \in 1..Len(buffer)
      PROVE  buffer[j] = input[Consumed + j]
  <2>1. CASE j <= Len(tokens)
    <3>1. buffer[j] = tokens[j] /\ j \in 1..Len(tokens)
      BY <2>1, <1>1, <1>2, <1>4
    <3> QED BY <3>1, Basics
  <2>2. CASE j > Len(tokens)
    <3>1. buffer[j] = lexer[j - Len(tokens)] /\ j - Len(tokens) \in 1..Len(lexer)
      BY <2>2, <1>1, <1>2, <1>4
    <3>2. lexer[j - Len(tokens)] = input[Consumed + Len(tokens) + (j - Len(tokens))]
      BY <3>1, Basics
    <3>3. Consumed + Len(tokens) + (j - Len(tokens)) = Consumed + j
      BY <1>1, <1>2, <1>4, <1>6
    <3> QED BY <3>1, <3>2, <3>3
  <2> QED BY <2>1, <2>2, <1>1, <1>2, <1>4
<1>8. NothingIsLost'
  <2>1. ASSUME NEW j \in 1..Len(lexer')
        PROVE  lexer'[j] = input[Consumed + Len(buffer) + j]
    <3>1. lexer'[j] = lexer[k + j] /\ k + j \in 1..Len(lexer)
      <4>1. j \in 1..(Len(lexer) - k)
        BY <1>5
      <4> QED BY <1>1, <1>2, <1>5, <4>1
    <3>2. lexer[k + j] = input[Consumed + Len(tokens) + (k + j)]
      BY <3>1, Basics
    <3>3. Consumed + Len(tokens) + (k + j) = Consumed + Len(buffer) + j
      BY <1>1, <1>2, <1>4, <1>5, <1>6
    <3> QED BY <3>1, <3>2, <3>3
  <2>2. Len(lexer') + Len(buffer) > 0
    BY <1>1, <1>2, <1>4, <1>5, Basics
  <2>3. \A j \in 1..Len(tokens') : tokens'[j] = input'[Consumed' + j]
    BY <1>3, <1>6, <1>7
  <2>4. \A j \in 1..Len(lexer') : lexer'[j] = input'[Consumed' + Len(tokens') + j]
    BY <2>1, <1>3, <1>6
  <2>5. Len(lexer') + Len(tokens') > 0
    BY <2>2, <1>3
  <2>6. Consumed' >= 0
    BY <1>6
  <2> QED BY <2>3, <2>4, <2>5, <2>6 DEF NothingIsLost
<1>9. Len(buffer) > 0 /\ (i < Len(buffer) \/ Len(lexer') = 0)
  <2>1. CASE HasEnd
    BY <2>1, <1>1, <1>2, <1>4, <1>5, EndIsTheLast DEF HasEnd
  <2>2. CASE ~HasEnd
    <3>1. tokens = <<>> => Len(lexer) > 0
      BY <1>1, Basics
    <3>2. k = IF i < Len(tokens) THEN 0
              ELSE IF i + 1 - Len(tokens) > Len(lexer) THEN Len(lexer)
              ELSE i + 1 - Len(tokens)
      BY <2>2 DEF Missing, k
    <3>3. /\ Len(buffer) = Len(tokens) + k /\ Len(lexer') = Len(lexer) - k
          /\ Len(tokens) \in Nat /\ Len(lexer) \in Nat /\ i \in Nat
      BY <1>1, <1>4, <1>5
    <3>4. Len(tokens) + Len(lexer) > 0
      BY <3>1, <1>1
    <3> HIDE DEF i
    <3> QED BY <3>2, <3>3, <3>4
  <2> QED BY <2>1, <2>2
<1>10. seen' = input[AtMostEnd(Consumed + Top + 1 + n)]
  <2>1. CASE i < Len(buffer)
    <3>1. Consumed + i + 1 <= Len(input)
      BY <2>1, <1>1, <1>2, <1>4, Basics
    <3>2. seen' = buffer[i + 1]
      BY <2>1, <1>3 DEF TokenAt
    <3>3. Top \in Nat /\ AtMostEnd(Consumed + Top + 1 + n) = Consumed + i + 1
      BY <3>1, <1>1, <1>6, TopIsNat DEF AtMostEnd
    <3> QED BY <3>2, <3>3, <2>1, <1>1, <1>4, <1>6, <1>7
  <2>2. CASE i >= Len(buffer)
    <3>1. Consumed + Len(buffer) = Len(input)
      <4>1. Len(lexer) - k = 0
        BY <2>2, <1>1, <1>2, <1>4, <1>5, <1>9
      <4> QED BY <4>1, <1>1, <1>2, <1>4, Basics
    <3>2. seen' = buffer[Len(buffer)]
      BY <2>2, <1>1, <1>2, <1>3, <1>4 DEF TokenAt
    <3>3. seen' = input[Len(input)]
      BY <3>1, <3>2, <1>1, <1>2, <1>4, <1>7, <1>9
    <3>4. Top \in Nat /\ AtMostEnd(Consumed + Top + 1 + n) = Len(input)
      <4>1. Top \in Nat /\ Consumed \in Nat /\ Consumed + Top + 1 + n = Consumed + i + 1
        BY <1>6, TopIsNat
      <4>2. Consumed + i + 1 > Len(input)
        BY <2>2, <3>1, <1>1, <1>2, <1>4, <1>6
      <4> QED BY <1>1, <4>1, <4>2 DEF AtMostEnd
    <3> QED BY <3>3, <3>4
  <2> QED BY <2>1, <2>2, <1>1, <1>2, <1>4
<1>11. BufferTypeOK'
  <2>1. seen' \in Tokens
    BY <1>1, <1>2, <1>3, <1>4, <1>9 DEF TokenAt
  <2> QED BY <2>1, <1>1, <1>3, <1>4, <1>5 DEF BufferInv, BufferTypeOK
<1>12. MarkersAreOrdered' /\ Top' = Top
  BY <1>1, <1>2, <1>3, <1>4, TopIsNat
     DEF BufferInv, MarkersAreOrdered, Top, IsSpeculating
<1>13. Position' = Position /\ SavedPositions' = SavedPositions
  BY <1>3, <1>6, <1>12 DEF Position, SavedPositions, AtMostEnd
<1>14. Position = AtMostEnd(Consumed + Top + 1) /\ AtMostEnd(Position + n) = AtMostEnd(Consumed + Top + 1 + n)
  BY <1>1, <1>6, TopIsNat DEF Position, AtMostEnd
<1>15. Cursor!Look(n)
  BY <1>3, <1>10, <1>13, <1>14 DEF Cursor!Look, Cursor!AtMostEnd, AtMostEnd
<1> QED BY <1>6, <1>8, <1>11, <1>12, <1>15 DEF BufferInv

LEMMA ConsumeStep ==
  ASSUME BufferInv, NEW n \in Nat \ {0}, Consume(n)
  PROVE  /\ BufferInv' /\ Cursor!Consume(n)
         /\ Len(markers') = Len(markers)
         /\ IsSpeculating => Consumed' = Consumed
         /\ tokens[Top + n] # END => Consumed' + Top' = Consumed + Top + n
<1>1. /\ lexer \in Seq(Tokens) /\ tokens \in Seq(Tokens) /\ markers \in Seq(Nat)
      /\ Len(tokens) \in Nat /\ Len(lexer) \in Nat /\ Len(input) \in Nat
      /\ Len(markers) \in Nat /\ Top \in Nat /\ Consumed \in Nat
      /\ Consumed = Len(input) - Len(lexer) - Len(tokens)
  BY TopIsNat, Basics
<1>2. input' = input /\ lexer' = lexer /\ seen' = seen /\ Top + n <= Len(tokens)
  BY DEF Consume, IsBuffered
<1>3. CASE IsSpeculating
  <2>1. /\ tokens' = tokens
        /\ markers' = [markers EXCEPT ![Len(markers)] = @ + n]
    BY <1>3 DEF Consume, Remaining
  <2>2. Len(markers) > 0 /\ Top = markers[Len(markers)]
    BY <1>3, <1>1, TopIsNat DEF IsSpeculating
  <2>3. /\ markers' \in Seq(Nat) /\ Len(markers') = Len(markers)
        /\ \A j \in 1..(Len(markers) - 1) : markers'[j] = markers[j]
        /\ markers'[Len(markers)] = Top + n
    BY <2>1, <2>2, <1>1
  <2>4. Top' = Top + n /\ Consumed' = Consumed
    <3>1. markers' # <<>>
      BY <2>2, <2>3
    <3>2. Top' = markers'[Len(markers')]
      BY <3>1 DEF Top, IsSpeculating
    <3> QED BY <3>2, <2>1, <2>3, <1>1, <1>2 DEF Consumed
  <2>5. MarkersAreOrdered'
    <3>1. ASSUME NEW j \in 1..(Len(markers) - 1)
          PROVE  markers'[j] <= markers'[j + 1]
      <4>1. markers[j] <= markers[j + 1] /\ markers[j] \in Nat /\ markers[j + 1] \in Nat
        <5>1. j \in 1..Len(markers) /\ j + 1 \in 1..Len(markers)
          BY <1>1
        <5>2. markers[j] <= markers[j + 1]
          BY DEF BufferInv, MarkersAreOrdered
        <5>3. \A m \in 1..Len(markers) : markers[m] \in Nat
          BY <1>1
        <5> QED BY <5>1, <5>2, <5>3
      <4>2. CASE j + 1 = Len(markers)
        <5>1. markers'[j] = markers[j] /\ markers'[j + 1] = Top + n
          BY <4>2, <2>3
        <5>2. Top = markers[j + 1]
          BY <4>2, <2>2
        <5>3. n \in Nat
          OBVIOUS
        <5> QED BY <4>1, <5>1, <5>2, <5>3
      <4>3. CASE j + 1 # Len(markers)
        <5>1. j + 1 \in 1..(Len(markers) - 1)
          BY <4>3, <1>1
        <5> QED BY <5>1, <4>1, <2>3
      <4> QED BY <4>2, <4>3
    <3>2. Top' <= Len(tokens')
      BY <2>1, <2>4, <1>1, <1>2
    <3> QED BY <3>1, <3>2, <2>3 DEF MarkersAreOrdered
  <2>6. BufferTypeOK' /\ NothingIsLost'
    BY <2>1, <2>3, <2>4, <1>2 DEF BufferInv, BufferTypeOK, NothingIsLost
  <2>7. SavedPositions' = SavedPositions
    <3>1. ASSUME NEW j \in 1..Len(markers)
          PROVE  AtMostEnd(Consumed + 1 + (IF j = 1 THEN 0 ELSE markers'[j - 1]))
                 = AtMostEnd(Consumed + 1 + (IF j = 1 THEN 0 ELSE markers[j - 1]))
      <4>1. CASE j = 1
        BY <4>1
      <4>2. CASE j # 1
        <5>1. j - 1 \in 1..(Len(markers) - 1)
          BY <4>2, <1>1
        <5>2. markers'[j - 1] = markers[j - 1]
          BY <5>1, <2>3
        <5> QED BY <5>2
      <4> QED BY <4>1, <4>2
    <3> QED BY <3>1, <2>3, <2>4, <1>2 DEF SavedPositions, AtMostEnd
  <2>8. Position' = AtMostEnd(Position + n)
    BY <2>4, <1>1, <1>2 DEF Position, AtMostEnd
  <2>9. Consumed' + Top' = Consumed + Top + n
    BY <2>4, <1>1
  <2> QED BY <2>3, <2>4, <2>5, <2>6, <2>7, <2>8, <2>9, <1>2
          DEF BufferInv, Cursor!Consume, Cursor!AtMostEnd, AtMostEnd
<1>4. CASE ~IsSpeculating
  <2> DEFINE d == Dropped(n)
  <2>1. /\ tokens' = SubSeq(tokens, d + 1, Len(tokens))
        /\ markers' = markers /\ markers = <<>> /\ Top = 0
    BY <1>4 DEF Consume, Remaining, IsSpeculating, Top
  <2>2. n <= Len(tokens) /\ tokens # <<>>
    BY <2>1, <1>1, <1>2
  <2>3. d = IF HasEnd /\ n = Len(tokens) THEN n - 1 ELSE n
    BY <2>2, <1>1 DEF Dropped
  <2>4. HasEnd <=> Len(lexer) = 0
    BY <2>2, EndIsTheLast
  <2> HIDE DEF d
  <2>5. /\ tokens' \in Seq(Tokens) /\ Len(tokens') = Len(tokens) - d
        /\ \A j \in 1..Len(tokens') : tokens'[j] = tokens[d + j]
    <3>1. d \in 0..Len(tokens) /\ d + 1 \in 1..(Len(tokens) + 1)
      BY <2>2, <2>3, <1>1
    <3> QED BY <3>1, <2>1, <1>1, SubSeqProperties
  <2>6. Consumed' = Consumed + d /\ d \in Nat
    BY <2>2, <2>3, <2>5, <1>1, <1>2 DEF Consumed
  <2>7. NothingIsLost'
    <3>1. ASSUME NEW j \in 1..Len(tokens')
          PROVE  tokens'[j] = input[Consumed + d + j]
      <4>1. tokens'[j] = tokens[d + j] /\ d + j \in 1..Len(tokens)
        BY <2>5, <2>6, <1>1
      <4>2. tokens[d + j] = input[Consumed + (d + j)]
        BY <4>1, Basics
      <4>3. Consumed + (d + j) = Consumed + d + j
        BY <2>5, <2>6, <1>1
      <4> QED BY <4>1, <4>2, <4>3
    <3>2. ASSUME NEW j \in 1..Len(lexer)
          PROVE  lexer[j] = input[Consumed + d + Len(tokens') + j]
      <4>1. lexer[j] = input[Consumed + Len(tokens) + j]
        BY Basics
      <4>2. Consumed + Len(tokens) + j = Consumed + d + Len(tokens') + j
        BY <2>5, <2>6, <1>1
      <4> QED BY <4>1, <4>2
    <3>3. Len(lexer) + Len(tokens') > 0
      BY <2>2, <2>3, <2>4, <2>5, <1>1
    <3>4. Consumed' = Consumed + d /\ Consumed + d >= 0
      BY <2>6, <1>1, Basics
    <3>5. /\ \A j \in 1..Len(tokens') : tokens'[j] = input[Consumed' + j]
          /\ \A j \in 1..Len(lexer) : lexer[j] = input[Consumed' + Len(tokens') + j]
      BY <3>1, <3>2, <3>4
    <3>6. lexer' = lexer /\ input' = input
      BY <1>1, <1>2
    <3> HIDE DEF d
    <3> QED BY <3>3, <3>4, <3>5, <3>6 DEF NothingIsLost
  <2>8. Top' = 0 /\ MarkersAreOrdered'
    BY <2>1, <2>5, <1>1 DEF Top, IsSpeculating, MarkersAreOrdered
  <2>9. BufferTypeOK'
    BY <2>1, <2>5, <1>2 DEF BufferInv, BufferTypeOK
  <2>10. Position' = AtMostEnd(Position + n)
    BY <2>1, <2>2, <2>3, <2>4, <2>6, <2>8, <1>1, <1>2 DEF Position, AtMostEnd
  <2>11. SavedPositions' = SavedPositions
    BY <2>1 DEF SavedPositions
  <2>12. tokens[Top + n] # END => Consumed' + Top' = Consumed + Top + n
    <3>1. tokens[Top + n] # END => d = n
      BY <2>1, <2>3, <1>1 DEF HasEnd
    <3> QED BY <3>1, <2>1, <2>6, <2>8, <1>1
  <2> QED BY <2>1, <2>7, <2>8, <2>9, <2>10, <2>11, <2>12, <1>2, <1>4
          DEF BufferInv, Cursor!Consume, Cursor!AtMostEnd, AtMostEnd
<1> QED BY <1>3, <1>4

LEMMA MarkStep ==
  ASSUME BufferInv, Mark
  PROVE  /\ BufferInv' /\ Cursor!Mark
         /\ Len(markers') = Len(markers) + 1 /\ Consumed' = Consumed /\ Top' = Top
<1>1. /\ markers \in Seq(Nat) /\ Len(markers) \in Nat /\ Top \in Nat
      /\ Len(tokens) \in Nat /\ Top <= Len(tokens)
  BY TopIsNat DEF BufferInv, BufferTypeOK
<1>2. /\ markers' = Append(markers, Top)
      /\ input' = input /\ lexer' = lexer /\ tokens' = tokens /\ seen' = seen
  BY DEF Mark, NewMarker
<1>3. /\ markers' \in Seq(Nat) /\ Len(markers') = Len(markers) + 1
      /\ \A j \in 1..Len(markers) : markers'[j] = markers[j]
      /\ markers'[Len(markers) + 1] = Top
  BY <1>1, <1>2
<1>4. Top' = Top /\ Consumed' = Consumed
  BY <1>1, <1>2, <1>3 DEF Top, IsSpeculating, Consumed
<1>5. Len(markers) > 0 => Top = markers[Len(markers)]
  BY <1>1, TopIsNat DEF IsSpeculating
<1>6. MarkersAreOrdered'
  BY <1>1, <1>2, <1>3, <1>4, <1>5 DEF BufferInv, MarkersAreOrdered
<1>7. BufferTypeOK' /\ NothingIsLost'
  BY <1>2, <1>3, <1>4 DEF BufferInv, BufferTypeOK, NothingIsLost
<1>8. Position' = Position
  BY <1>2, <1>4 DEF Position, AtMostEnd
<1>9. SavedPositions' = Append(SavedPositions, Position)
  <2> DEFINE At(m, j) == AtMostEnd(Consumed + 1 + (IF j = 1 THEN 0 ELSE m[j - 1]))
             Old == [j \in 1..Len(markers) |-> At(markers, j)]
             New == [j \in 1..(Len(markers) + 1) |-> At(markers', j)]
  <2>1. SavedPositions = Old
    BY DEF SavedPositions
  <2>2. SavedPositions' = New
    BY <1>2, <1>3, <1>4 DEF SavedPositions, AtMostEnd
  <2>3. ASSUME NEW j \in 1..Len(markers)
        PROVE  At(markers', j) = At(markers, j)
    <3>1. CASE j = 1
      BY <3>1
    <3>2. CASE j # 1
      <4>1. j - 1 \in 1..Len(markers)
        BY <3>2, <1>1
      <4>2. markers'[j - 1] = markers[j - 1]
        BY <4>1, <1>3
      <4> QED BY <4>2
    <3> QED BY <3>1, <3>2
  <2>4. At(markers', Len(markers) + 1) = Position
    <3>1. Consumed \in Nat
      BY InputIsSource DEF BufferInv, BufferTypeOK, NothingIsLost, Consumed
    <3>2. CASE Len(markers) = 0
      <4>1. markers = <<>> /\ Top = 0
        BY <3>2, <1>1 DEF Top, IsSpeculating
      <4> QED BY <4>1, <3>1, <3>2, <1>1 DEF Position
    <3>3. CASE Len(markers) > 0
      <4>1. At(markers', Len(markers) + 1) = AtMostEnd(Consumed + 1 + Top)
        <5>1. Len(markers) \in Nat /\ Len(markers) \in 1..Len(markers)
          BY <3>3, <1>1
        <5>2. Len(markers) + 1 # 1 /\ (Len(markers) + 1) - 1 = Len(markers)
          BY <3>3, <5>1
        <5>3. markers'[Len(markers)] = Top
          BY <3>3, <5>1, <1>3, <1>5
        <5> QED BY <5>2, <5>3
      <4>2. Consumed + 1 + Top = Consumed + Top + 1
        BY <3>1, <1>1
      <4> QED BY <4>1, <4>2 DEF Position
    <3> QED BY <3>2, <3>3, <1>1
  <2> HIDE DEF At
  <2>5. Len(Old) = Len(markers) /\ Append(Old, Position) =
          [j \in 1..(Len(markers) + 1) |-> IF j <= Len(markers) THEN Old[j] ELSE Position]
    BY <1>1
  <2>6. New = Append(Old, Position)
    BY <1>1, <2>3, <2>4, <2>5
  <2> QED BY <2>1, <2>2, <2>6
<1> QED BY <1>2, <1>3, <1>4, <1>6, <1>7, <1>8, <1>9 DEF BufferInv, Cursor!Mark

LEMMA ReleaseStep ==
  ASSUME BufferInv, Release
  PROVE  /\ BufferInv' /\ Cursor!Release
         /\ Len(markers') = Len(markers) - 1 /\ Consumed' = Consumed
<1>1. /\ markers \in Seq(Nat) /\ Len(markers) \in Nat /\ Len(markers) > 0
      /\ Len(tokens) \in Nat /\ Top = markers[Len(markers)] /\ Top <= Len(tokens)
      /\ Top \in Nat
  BY TopIsNat DEF Release, IsSpeculating, BufferInv, BufferTypeOK
<1>0. Len(markers) = 1 \/ Len(markers) >= 2
  <2>1. \A k \in Nat : k > 0 => k = 1 \/ k >= 2
    OBVIOUS
  <2> QED BY <2>1, <1>1
<1>2. /\ markers' = SubSeq(markers, 1, Len(markers) - 1)
      /\ input' = input /\ lexer' = lexer /\ tokens' = tokens /\ seen' = seen
  BY DEF Release, Released
<1>3. /\ markers' \in Seq(Nat) /\ Len(markers') = Len(markers) - 1
      /\ \A j \in 1..(Len(markers) - 1) : markers'[j] = markers[j]
  <2> DEFINE last == Len(markers) - 1
  <2>1. /\ last \in Nat /\ markers' = SubSeq(markers, 1, last)
        /\ \A j \in 1..last : markers[j] \in Nat
    BY <1>1, <1>2
  <2> HIDE DEF last
  <2>2. /\ markers' \in Seq(Nat)
        /\ Len(markers') = IF 1 <= last THEN last - 1 + 1 ELSE 0
        /\ \A j \in 1..(last - 1 + 1) : markers'[j] = markers[1 + j - 1]
    BY <2>1, SubSeqProperties
  <2>3. Len(markers') = last /\ \A j \in 1..last : markers'[j] = markers[j]
    BY <2>1, <2>2
  <2> QED BY <2>2, <2>3 DEF last
<1>4. Consumed' = Consumed /\ Top' = IF Len(markers) = 1 THEN 0 ELSE markers[Len(markers) - 1]
  <2>1. markers' = <<>> <=> Len(markers) = 1
    BY <1>1, <1>3
  <2>2. Top' = IF markers' = <<>> THEN 0 ELSE markers'[Len(markers')]
    BY DEF Top, IsSpeculating
  <2>3. Len(markers) # 1 => markers'[Len(markers')] = markers[Len(markers) - 1]
    <3>1. Len(markers) \in Nat /\ Len(markers) > 0
      BY <1>1
    <3>0. \A k \in Nat : k > 0 /\ k # 1 => k - 1 \in 1..(k - 1)
      OBVIOUS
    <3>2. Len(markers) # 1 => Len(markers) - 1 \in 1..(Len(markers) - 1)
      BY <3>0, <3>1
    <3> QED BY <1>3, <3>2
  <2> QED BY <2>1, <2>2, <2>3, <1>2 DEF Consumed
<1>5. Top' <= Top
  <2>1. CASE Len(markers) = 1
    BY <2>1, <1>1, <1>4
  <2>2. CASE Len(markers) >= 2
    <3>1. Len(markers) - 1 \in 1..(Len(markers) - 1)
      BY <2>2, <1>1
    <3>2. markers[Len(markers) - 1] <= markers[(Len(markers) - 1) + 1]
      BY <3>1 DEF BufferInv, MarkersAreOrdered
    <3>3. (Len(markers) - 1) + 1 = Len(markers)
      BY <1>1
    <3> QED BY <2>2, <3>2, <3>3, <1>1, <1>4
  <2> QED BY <2>1, <2>2, <1>0
<1>6. MarkersAreOrdered'
  <2>1. ASSUME NEW j \in 1..(Len(markers') - 1)
        PROVE  markers'[j] <= markers'[j + 1]
    <3>1. /\ j \in 1..(Len(markers) - 1) /\ j \in 1..(Len(markers) - 2)
          /\ j + 1 \in 1..(Len(markers) - 1)
      BY <1>1, <1>3
    <3>2. markers'[j] = markers[j] /\ markers'[j + 1] = markers[j + 1]
      BY <1>3, <3>1
    <3>3. markers[j] <= markers[j + 1]
      BY <3>1 DEF BufferInv, MarkersAreOrdered
    <3> QED BY <3>2, <3>3
  <2>2. Top' <= Len(tokens')
    BY <1>1, <1>2, <1>4, <1>5 DEF BufferInv, MarkersAreOrdered
  <2> QED BY <2>1, <2>2 DEF MarkersAreOrdered
<1>7. BufferTypeOK' /\ NothingIsLost'
  BY <1>2, <1>3, <1>4 DEF BufferInv, BufferTypeOK, NothingIsLost
<1> DEFINE At(m, j) == AtMostEnd(Consumed + 1 + (IF j = 1 THEN 0 ELSE m[j - 1]))
           Old == [j \in 1..Len(markers) |-> At(markers, j)]
           New == [j \in 1..(Len(markers) - 1) |-> At(markers', j)]
<1>8. SavedPositions = Old /\ SavedPositions' = New
  BY <1>2, <1>3, <1>4 DEF SavedPositions, AtMostEnd
<1>9. Position' = Old[Len(markers)]
  <2>1. Position' = AtMostEnd(Consumed + Top' + 1)
    BY <1>2, <1>4 DEF Position, AtMostEnd
  <2>2. Top' \in Nat /\ Consumed \in Nat
    <3>1. Len(markers) >= 2 => Len(markers) - 1 \in 1..Len(markers)
      BY <1>1
    <3>2. Len(markers) >= 2 => markers[Len(markers) - 1] \in Nat
      BY <3>1, <1>1
    <3> QED BY <3>2, <1>0, <1>4, Basics
  <2>3. Old[Len(markers)] = AtMostEnd(Consumed + 1 + Top')
    BY <1>1, <1>4
  <2>4. Consumed + 1 + Top' = Consumed + Top' + 1
    BY <2>2
  <2> QED BY <2>1, <2>3, <2>4
<1>10. ASSUME NEW j \in 1..(Len(markers) - 1)
       PROVE  At(markers', j) = At(markers, j)
  <2>1. j # 1 => j - 1 \in 1..(Len(markers) - 1)
    BY <1>1
  <2> QED BY <2>1, <1>3
<1> HIDE DEF At
<1>11. /\ Len(Old) = Len(markers) /\ Old # <<>>
       /\ SubSeq(Old, 1, Len(markers) - 1) = [j \in 1..(Len(markers) - 1) |-> Old[j]]
  BY <1>1
<1>12. New = SubSeq(Old, 1, Len(markers) - 1)
  BY <1>1, <1>10, <1>11
<1> QED BY <1>2, <1>3, <1>4, <1>6, <1>7, <1>8, <1>9, <1>11, <1>12 DEF BufferInv, Cursor!Release

-----------------------------------------------------------------------------
LEMMA InitStep ==
  ASSUME BufferInit
  PROVE  BufferInv /\ Cursor!Init
<1>1. /\ input \in Inputs /\ input \in Seq(Tokens) /\ Len(input) \in Nat /\ Len(input) > 0
      /\ lexer = input /\ tokens = <<>> /\ markers = <<>> /\ seen = Nothing
  BY InputsAssumption DEF BufferInit, IsInput
<1>2. BufferTypeOK
  BY <1>1 DEF BufferTypeOK
<1>3. Consumed = 0 /\ Top = 0
  <2>1. Len(tokens) = 0 /\ Len(lexer) = Len(input)
    BY <1>1
  <2>2. Consumed = 0
    BY <2>1, <1>1 DEF Consumed
  <2> QED BY <2>2, <1>1 DEF Top, IsSpeculating
<1>4. NothingIsLost /\ MarkersAreOrdered
  BY <1>1, <1>3 DEF NothingIsLost, MarkersAreOrdered
<1>5. Position = 1 /\ SavedPositions = <<>>
  BY <1>1, <1>3 DEF Position, SavedPositions, AtMostEnd
<1> QED BY <1>1, <1>2, <1>4, <1>5 DEF BufferInv, Cursor!Init

LEMMA NextStep ==
  ASSUME BufferInv, [BufferNext]_bufferVars
  PROVE  BufferInv' /\ [Cursor!Next]_(Cursor!vars)
<1> USE BoundsAssumption
<1>1. CASE \E n \in 0..MaxLook : Look(n)
  BY <1>1, LookStep DEF Cursor!Next
<1>2. CASE \E n \in 1..(MaxLook + 1) : Consume(n)
  BY <1>2, ConsumeStep DEF Cursor!Next
<1>3. CASE Mark
  BY <1>3, MarkStep DEF Cursor!Next
<1>4. CASE Release
  BY <1>4, ReleaseStep DEF Cursor!Next
<1>5. CASE UNCHANGED bufferVars
  <2>1. /\ input' = input /\ lexer' = lexer /\ tokens' = tokens
        /\ markers' = markers /\ seen' = seen
    BY <1>5 DEF bufferVars
  <2>2. BufferInv'
    BY <2>1 DEF BufferInv, BufferTypeOK, NothingIsLost, MarkersAreOrdered, Consumed, Top, IsSpeculating
  <2>3. UNCHANGED Cursor!vars
    BY <2>1 DEF Cursor!vars, Position, SavedPositions, AtMostEnd, Consumed, Top, IsSpeculating
  <2> QED BY <2>2, <2>3
<1> QED BY <1>1, <1>2, <1>3, <1>4, <1>5 DEF BufferNext

\* The buffer and the lexer always hold what was not consumed, in order, and a
\* marker is always inside the buffer (Parser.h, Parser::lt).
THEOREM BufferIsSound == BufferSpec => []BufferInv
<1>1. BufferInit => BufferInv
  BY InitStep
<1>2. BufferInv /\ [BufferNext]_bufferVars => BufferInv'
  BY NextStep
<1> QED BY <1>1, <1>2, PTL DEF BufferSpec

\* No token is lost, whatever the parser looks at, consumes and marks.
THEOREM NoTokenIsLost == BufferSpec => []NothingIsLost
<1>1. BufferInv => NothingIsLost
  BY DEF BufferInv
<1> QED BY <1>1, BufferIsSound, PTL

\* Looking ahead and speculating show the parser the tokens of the source at
\* its position, and a speculation ends where it began.
THEOREM BufferImplementsCursor == BufferSpec => ImplementsCursor
<1>1. BufferInit => Cursor!Init
  BY InitStep
<1>2. BufferInv /\ [BufferNext]_bufferVars => [Cursor!Next]_(Cursor!vars)
  BY NextStep
<1> QED BY <1>1, <1>2, BufferIsSound, PTL DEF BufferSpec, ImplementsCursor, Cursor!Spec

-----------------------------------------------------------------------------
(* Sequences of frames. *)

IsSeq(s) == \E S : s \in Seq(S)

LEMMA LenFacts ==
  ASSUME NEW s, IsSeq(s)
  PROVE  Len(s) \in Nat /\ DOMAIN s = 1..Len(s) /\ (s = <<>> <=> Len(s) = 0)
<1>1. PICK S : s \in Seq(S)
  BY DEF IsSeq
<1> QED BY <1>1, LenProperties, EmptySeq

LEMMA ConcatFacts ==
  ASSUME NEW s, NEW t, IsSeq(s), IsSeq(t)
  PROVE  /\ IsSeq(s \o t)
         /\ Len(s \o t) = Len(s) + Len(t)
         /\ \A i \in 1..Len(s) : (s \o t)[i] = s[i]
         /\ \A i \in 1..Len(t) : (s \o t)[Len(s) + i] = t[i]
<1>1. PICK S : s \in Seq(S)
  BY DEF IsSeq
<1>2. PICK T : t \in Seq(T)
  BY DEF IsSeq
<1> DEFINE U == S \cup T
<1>3. s \in Seq(U) /\ t \in Seq(U)
  <2>1. S \subseteq U /\ T \subseteq U
    OBVIOUS
  <2> HIDE DEF U
  <2> QED BY <1>1, <1>2, <2>1, SeqMonotonic
<1> HIDE DEF U
<1>4. /\ s \o t \in Seq(U) /\ Len(s \o t) = Len(s) + Len(t)
      /\ \A i \in 1..Len(s) + Len(t) :
           (s \o t)[i] = IF i <= Len(s) THEN s[i] ELSE t[i - Len(s)]
  BY <1>3, ConcatProperties
<1>5. Len(s) \in Nat /\ Len(t) \in Nat
  BY LenFacts
<1>6. \A i \in 1..Len(s) : (s \o t)[i] = s[i]
  BY <1>4, <1>5
<1>7. ASSUME NEW i \in 1..Len(t)
      PROVE  (s \o t)[Len(s) + i] = t[i]
  <2>1. Len(s) + i \in 1..Len(s) + Len(t) /\ ~ (Len(s) + i <= Len(s)) /\ (Len(s) + i) - Len(s) = i
    BY <1>5
  <2> QED BY <1>4, <2>1
<1> QED BY <1>4, <1>6, <1>7 DEF IsSeq

LEMMA PrefixFacts ==
  ASSUME NEW s, IsSeq(s), NEW n \in 0..Len(s)
  PROVE  /\ IsSeq(SubSeq(s, 1, n))
         /\ Len(SubSeq(s, 1, n)) = n
         /\ \A i \in 1..n : SubSeq(s, 1, n)[i] = s[i]
<1>1. PICK S : s \in Seq(S)
  BY DEF IsSeq
<1>2. Len(s) \in Nat
  BY LenFacts
<1>3. \A i \in 1..n : s[i] \in S
  BY <1>1, <1>2, ElementOfSeq
<1>4. /\ SubSeq(s, 1, n) \in Seq(S)
      /\ Len(SubSeq(s, 1, n)) = IF 1 <= n THEN n - 1 + 1 ELSE 0
      /\ \A i \in 1..n - 1 + 1 : SubSeq(s, 1, n)[i] = s[1 + i - 1]
  BY <1>2, <1>3, SubSeqProperties
<1> QED BY <1>2, <1>4 DEF IsSeq

LEMMA SuffixFacts ==
  ASSUME NEW s, IsSeq(s), NEW n \in 0..Len(s)
  PROVE  /\ IsSeq(SubSeq(s, n + 1, Len(s)))
         /\ Len(SubSeq(s, n + 1, Len(s))) = Len(s) - n
         /\ \A i \in 1..Len(s) - n : SubSeq(s, n + 1, Len(s))[i] = s[n + i]
<1>1. PICK S : s \in Seq(S)
  BY DEF IsSeq
<1>2. Len(s) \in Nat
  BY LenFacts
<1>3. \A i \in n + 1..Len(s) : s[i] \in S
  BY <1>1, <1>2, ElementOfSeq
<1> DEFINE m == n + 1
<1>4. m \in Int /\ m > 0
  BY <1>2
<1>5. /\ SubSeq(s, m, Len(s)) \in Seq(S)
      /\ Len(SubSeq(s, m, Len(s))) = IF m <= Len(s) THEN Len(s) - m + 1 ELSE 0
      /\ \A i \in 1..Len(s) - m + 1 : SubSeq(s, m, Len(s))[i] = s[m + i - 1]
  <2>1. \A i \in m..Len(s) : s[i] \in S
    BY <1>3
  <2> HIDE DEF m
  <2> QED BY <1>2, <1>4, <2>1, SubSeqProperties
<1>6. Len(SubSeq(s, m, Len(s))) = Len(s) - n
  BY <1>2, <1>5
<1>7. ASSUME NEW i \in 1..Len(s) - n
      PROVE  SubSeq(s, m, Len(s))[i] = s[n + i]
  <2>1. i \in 1..Len(s) - m + 1 /\ m + i - 1 = n + i
    BY <1>2
  <2> QED BY <1>5, <2>1
<1> QED BY <1>5, <1>6, <1>7 DEF IsSeq

\* One frame and the last one.
LEMMA OneElement ==
  ASSUME NEW a
  PROVE  IsSeq(<<a>>) /\ Len(<<a>>) = 1 /\ <<a>>[1] = a
<1>1. <<a>> \in Seq({a})
  OBVIOUS
<1> QED BY <1>1 DEF IsSeq

\* t is s with a at its end.
IsOneMore(t, s, a) ==
  /\ IsSeq(t) /\ Len(t) = Len(s) + 1
  /\ \A i \in 1..Len(s) : t[i] = s[i]
  /\ t[Len(s) + 1] = a

LEMMA OneMore == \A s, a : IsSeq(s) => IsOneMore(s \o <<a>>, s, a)
<1> SUFFICES ASSUME NEW s, NEW a, IsSeq(s) PROVE IsOneMore(s \o <<a>>, s, a)
  OBVIOUS
<1> DEFINE t == <<a>>
<1>1. IsSeq(t) /\ Len(t) = 1 /\ t[1] = a
  BY OneElement
<1> HIDE DEF t
<1>2. /\ IsSeq(s \o t) /\ Len(s \o t) = Len(s) + Len(t)
      /\ \A i \in 1..Len(s) : (s \o t)[i] = s[i]
      /\ \A i \in 1..Len(t) : (s \o t)[Len(s) + i] = t[i]
  BY <1>1, ConcatFacts
<1>3. IsOneMore(s \o t, s, a)
  BY <1>1, <1>2 DEF IsOneMore
<1> QED BY <1>3 DEF t

LEMMA EmptyIsSeq == IsSeq(<<>>) /\ Len(<<>>) = 0
<1>1. <<>> \in Seq({})
  OBVIOUS
<1> QED BY <1>1 DEF IsSeq

LEMMA SameSeq ==
  ASSUME NEW s, NEW t, IsSeq(s), IsSeq(t), Len(s) = Len(t),
         \A i \in 1..Len(s) : s[i] = t[i]
  PROVE  s = t
<1>1. PICK S : s \in Seq(S)
  BY DEF IsSeq
<1>2. PICK T : t \in Seq(T)
  BY DEF IsSeq
<1>3. s = [i \in 1..Len(s) |-> s[i]] /\ t = [i \in 1..Len(t) |-> t[i]]
  BY <1>1, <1>2
<1>4. [i \in 1..Len(s) |-> s[i]] = [i \in 1..Len(s) |-> t[i]]
  OBVIOUS
<1> QED BY <1>3, <1>4

-----------------------------------------------------------------------------
(* What the rules of the parse functions have in common. *)

TypePoints == {"type", "type )", "type ]", "type members"}
\* Where an activation waits for a type specifier that it speculates on.
Held == {"speculated", "constructed"}
\* Where an activation may go on in another way than it was called.
ExprPoints ==
  Held \cup {"binary", "unary", "operand", "member", "postfix", "subscript", "no type",
             "paren )", "elements", "more elements"}

\* Where no rule goes on but those that are named below.
Special == Held \cup {"no type", "var", "unit"}
IsFrame(f) == f = [at |-> f.at, how |-> f.how]
Continues(point, to) ==
  /\ IsSeq(to)
  /\ \A i \in 1..Len(to) : IsFrame(to[i]) /\ to[i].at \notin Special
  /\ point \notin ExprPoints /\ Len(to) > 0 => to[1].at \notin ExprPoints /\ to[1].how = Same
Reserved == TypePoints \cup {"unit", "speculated"}
IsPlain(r) ==
  /\ r = [at |-> r.at, how |-> r.how, look |-> r.look, eat |-> r.eat, to |-> r.to]
  /\ r.at \notin Reserved
  /\ r.eat \in 0..3
  /\ Continues(r.at, r.to)

LEMMA OnIsPlain ==
  ASSUME NEW point, point \notin Reserved, NEW look, NEW n \in 0..3, NEW to,
         Continues(point, to)
  PROVE  IsPlain(On(point, look, n, to))
BY DEF IsPlain, On

LEMMA UnderIsPlain ==
  \A hows, rules, r : r \in Under(hows, rules) =>
    \E s \in rules : IsPlain(s) => IsPlain(r)
<1> TAKE hows, rules, r
<1> HAVE r \in Under(hows, rules)
<1>1. PICK s \in rules : r = [s EXCEPT !.how = hows]
  BY DEF Under
<1>2. ASSUME IsPlain(s)
      PROVE  IsPlain(r)
  <2>1. s = [at |-> s.at, how |-> s.how, look |-> s.look, eat |-> s.eat, to |-> s.to]
    BY <1>2 DEF IsPlain
  <2>2. r = [at |-> s.at, how |-> hows, look |-> s.look, eat |-> s.eat, to |-> s.to]
    BY <1>1, <2>1
  <2> QED BY <1>2, <2>2 DEF IsPlain
<1> QED BY <1>2

\* One frame, two and three.
LEMMA OneFrame ==
  ASSUME NEW point, NEW a, IsFrame(a), a.at \notin Special,
         point \in ExprPoints \/ (a.at \notin ExprPoints /\ a.how = Same)
  PROVE  Continues(point, <<a>>) /\ Len(<<a>>) > 0
<1> DEFINE to == <<a>>
<1>1. IsSeq(to) /\ Len(to) = 1 /\ to[1] = a
  BY OneElement
<1> HIDE DEF to
<1> QED BY <1>1 DEF Continues, to

LEMMA OneMoreFrame ==
  ASSUME NEW point, NEW to, Continues(point, to), Len(to) > 0,
         NEW a, IsFrame(a), a.at \notin Special
  PROVE  Continues(point, to \o <<a>>) /\ Len(to \o <<a>>) > 0
<1> DEFINE more == to \o <<a>>
<1>1. IsSeq(to) /\ Len(to) \in Nat
  BY LenFacts DEF Continues
<1>2. /\ IsSeq(more) /\ Len(more) = Len(to) + 1
      /\ \A i \in 1..Len(to) : more[i] = to[i]
      /\ more[Len(to) + 1] = a
  <2>1. IsOneMore(more, to, a)
    BY <1>1, OneMore
  <2> QED BY <2>1 DEF IsOneMore
<1>3. \A i \in 1..Len(more) : i \in 1..Len(to) \/ i = Len(to) + 1
  BY <1>1, <1>2
<1>4. 1 \in 1..Len(to)
  BY <1>1
<1> HIDE DEF more
<1>5. Continues(point, more) /\ Len(more) > 0
  BY <1>1, <1>2, <1>3, <1>4 DEF Continues
<1> QED BY <1>5 DEF more

\* The rules that are written with Return, Go, Call, CallExpr and Become.
LEMMA Continuations ==
  ASSUME NEW point
  PROVE  /\ Continues(point, Return)
         /\ \A p : p \notin Special /\ (point \in ExprPoints \/ p \notin ExprPoints) =>
              /\ Continues(point, Go(p))
              /\ \A how : Continues(point, CallExpr(how, p))
              /\ \A f, how : f \notin Special => Continues(point, Call(f, how, p))
         /\ point \in ExprPoints =>
              \A p, q, how, other : p \notin Special /\ q \notin Special =>
                /\ Continues(point, Become(p, how))
                /\ Continues(point, Become(p, how) \o Become(q, other))
<1> DEFINE F(p, how) == [at |-> p, how |-> how]
<1>1. "binary" \notin Special /\ "unary" \notin Special
  <2>1. "binary" \notin Special
    BY DEF Special, Held
  <2>2. "unary" \notin Special
    BY DEF Special, Held
  <2> QED BY <2>1, <2>2
<1>2. \A p, how : F(p, how).at = p /\ F(p, how).how = how /\ IsFrame(F(p, how))
  BY DEF IsFrame
<1>3. /\ \A p, how : Become(p, how) = <<F(p, how)>>
      /\ \A p : Go(p) = <<F(p, Same)>>
      /\ \A p, f, how : Call(f, how, p) = <<F(p, Same)>> \o <<F(f, how)>>
      /\ \A p, how : CallExpr(how, p) = (<<F(p, Same)>> \o <<F("binary", how)>>) \o <<F("unary", how)>>
  BY DEF Become, Go, Call, CallExpr
<1> HIDE DEF F
<1>4. Continues(point, Return)
  BY EmptyIsSeq DEF Continues, Return
<1>5. ASSUME NEW p, p \notin Special, point \in ExprPoints \/ p \notin ExprPoints
      PROVE  /\ Continues(point, Go(p))
             /\ \A how : Continues(point, CallExpr(how, p))
             /\ \A f, how : f \notin Special => Continues(point, Call(f, how, p))
  <2>0. F(p, Same).at \notin Special /\ IsFrame(F(p, Same))
        /\ (point \in ExprPoints \/ (F(p, Same).at \notin ExprPoints /\ F(p, Same).how = Same))
    BY <1>2, <1>5
  <2>1. Continues(point, Go(p)) /\ Len(Go(p)) > 0
    BY <1>3, <2>0, OneFrame
  <2>2. ASSUME NEW f, NEW how, f \notin Special
        PROVE  Continues(point, Call(f, how, p)) /\ Len(Call(f, how, p)) > 0
    BY <1>2, <1>3, <2>1, <2>2, OneMoreFrame
  <2>3. ASSUME NEW how
        PROVE  Continues(point, CallExpr(how, p))
    <3>1. CallExpr(how, p) = Call("binary", how, p) \o <<F("unary", how)>>
      BY <1>3
    <3>2. Continues(point, Call("binary", how, p)) /\ Len(Call("binary", how, p)) > 0
      BY <1>1, <2>2
    <3> QED BY <1>1, <1>2, <3>1, <3>2, OneMoreFrame
  <2> QED BY <2>1, <2>2, <2>3
<1>6. ASSUME point \in ExprPoints, NEW p, NEW q, NEW how, NEW other,
             p \notin Special, q \notin Special
      PROVE  /\ Continues(point, Become(p, how))
             /\ Continues(point, Become(p, how) \o Become(q, other))
  <2>1. Continues(point, Become(p, how)) /\ Len(Become(p, how)) > 0
    BY <1>2, <1>3, <1>6, OneFrame
  <2> QED BY <1>2, <1>3, <1>6, <2>1, OneMoreFrame
<1> QED BY <1>4, <1>5, <1>6

\* Every way in which a rule that is plain is written.
LEMMA PlainRules ==
  /\ \A point, look, n : n \in {0, 1, 2, 3} /\ point \notin Reserved =>
       IsPlain(On(point, look, n, Return))
  /\ \A point, look, n, p :
       /\ n \in {0, 1, 2, 3} /\ point \notin Reserved
       /\ p \notin Special /\ (point \in ExprPoints \/ p \notin ExprPoints)
       => IsPlain(On(point, look, n, Go(p)))
  /\ \A point, look, n, p, how :
       /\ n \in {0, 1, 2, 3} /\ point \notin Reserved
       /\ p \notin Special /\ (point \in ExprPoints \/ p \notin ExprPoints)
       => IsPlain(On(point, look, n, CallExpr(how, p)))
  /\ \A point, look, n, p, f, how :
       /\ n \in {0, 1, 2, 3} /\ point \notin Reserved
       /\ p \notin Special /\ (point \in ExprPoints \/ p \notin ExprPoints) /\ f \notin Special
       => IsPlain(On(point, look, n, Call(f, how, p)))
  /\ \A point, look, n, p, how :
       /\ n \in {0, 1, 2, 3} /\ point \notin Reserved
       /\ point \in ExprPoints /\ p \notin Special
       => IsPlain(On(point, look, n, Become(p, how)))
  /\ \A point, look, n, p, how, q, other :
       /\ n \in {0, 1, 2, 3} /\ point \notin Reserved
       /\ point \in ExprPoints /\ p \notin Special /\ q \notin Special
       => IsPlain(On(point, look, n, Become(p, how) \o Become(q, other)))
<1>1. \A point, look, n, to :
        /\ n \in {0, 1, 2, 3} /\ point \notin Reserved /\ Continues(point, to)
        => IsPlain(On(point, look, n, to))
  BY OnIsPlain
<1>2. \A point, look, n : n \in {0, 1, 2, 3} /\ point \notin Reserved =>
        IsPlain(On(point, look, n, Return))
  BY <1>1, Continuations
<1>3. \A point, look, n, p :
        /\ n \in {0, 1, 2, 3} /\ point \notin Reserved
        /\ p \notin Special /\ (point \in ExprPoints \/ p \notin ExprPoints)
        => IsPlain(On(point, look, n, Go(p)))
  BY <1>1, Continuations
<1>4. \A point, look, n, p, how :
        /\ n \in {0, 1, 2, 3} /\ point \notin Reserved
        /\ p \notin Special /\ (point \in ExprPoints \/ p \notin ExprPoints)
        => IsPlain(On(point, look, n, CallExpr(how, p)))
  BY <1>1, Continuations
<1>5. \A point, look, n, p, f, how :
        /\ n \in {0, 1, 2, 3} /\ point \notin Reserved
        /\ p \notin Special /\ (point \in ExprPoints \/ p \notin ExprPoints) /\ f \notin Special
        => IsPlain(On(point, look, n, Call(f, how, p)))
  BY <1>1, Continuations
<1>6. \A point, look, n, p, how :
        /\ n \in {0, 1, 2, 3} /\ point \notin Reserved
        /\ point \in ExprPoints /\ p \notin Special
        => IsPlain(On(point, look, n, Become(p, how)))
  BY <1>1, Continuations
<1>7. \A point, look, n, p, how, q, other :
        /\ n \in {0, 1, 2, 3} /\ point \notin Reserved
        /\ point \in ExprPoints /\ p \notin Special /\ q \notin Special
        => IsPlain(On(point, look, n, Become(p, how) \o Become(q, other)))
  BY <1>1, Continuations
<1> QED BY <1>2, <1>3, <1>4, <1>5, <1>6, <1>7

AllPlain(rules) == \A r \in rules : IsPlain(r)

LEMMA UnderAll == \A hows, rules : AllPlain(rules) => AllPlain(Under(hows, rules))
BY UnderIsPlain DEF AllPlain

LEMMA PlainEndings == AllPlain(Ending) /\ AllPlain(EndOfLine) /\ AllPlain(EndOfList)
<1>1. /\ AllPlain({On("ending", <<Stop>>, 1, Return), On("ending", <<{"}"}>>, 0, Return)})
      /\ AllPlain({On("ending", <<>>, 0, Return)})
  BY PlainRules DEF AllPlain, Reserved, TypePoints, Special, Held, ExprPoints
<1>2. /\ AllPlain({On("end of line", <<{"term"}>>, 1, Return)})
      /\ AllPlain({On("end of line", <<>>, 0, Return)})
  BY PlainRules DEF AllPlain, Reserved, TypePoints, Special, Held, ExprPoints
<1>3. /\ AllPlain({On("end of list", <<Stop>>, 1, Return)})
      /\ AllPlain({On("end of list", <<>>, 0, Return)})
  BY PlainRules DEF AllPlain, Reserved, TypePoints, Special, Held, ExprPoints
<1> QED BY <1>1, <1>2, <1>3, UnderAll DEF Ending, EndOfLine, EndOfList, AllPlain

LEMMA PlainDeclarations == AllPlain(Declarations) /\ AllPlain(FuncExpr)
<1> USE PlainRules DEF AllPlain, Reserved, TypePoints, Special, Held, ExprPoints
<1>1. AllPlain(
        {On("stmt", <<{"func"}, {"id"}>>, 2, Go("func (")),
         On("stmt", <<{"extern"}>>, 1, Go("extern")),
         On("stmt", <<{"namespace"}>>, 1, Call("type", "name", "namespace")),
         On("stmt", <<{"#runtime"}>>, 1, Go("runtime")),
         On("runtime", <<{"str"}, AllBut({"term"})>>, 2, Go("stmt"))})
  OBVIOUS
<1>2. AllPlain({On("default", <<>>, 0, Go("params"))})
  OBVIOUS
<1> QED BY <1>1, <1>2, UnderAll DEF Declarations, FuncExpr

LEMMA PlainFuncDef == AllPlain(FuncDefStmt)
<1>1. AllPlain(FuncDefStmt \ Under({"top"},
    {On("default", <<{"="}>>, 1, CallExpr("eql", "params")),
     On("default", <<AllBut({"="})>>, 0, Go("params"))}))
  BY PlainRules DEF FuncDefStmt, AllPlain, Reserved, TypePoints, Special, Held, ExprPoints
<1>2. AllPlain(
    {On("default", <<{"="}>>, 1, CallExpr("eql", "params")),
     On("default", <<AllBut({"="})>>, 0, Go("params"))})
  BY PlainRules DEF AllPlain, Reserved, TypePoints, Special, Held, ExprPoints
<1> QED BY <1>1, <1>2, UnderAll DEF AllPlain

LEMMA PlainValues ==
  \A first, more, next, stop, end :
    /\ first \notin Reserved
    /\ next \notin Reserved /\ next \notin Special /\ next \notin ExprPoints
    /\ more \notin Reserved /\ more \notin Special /\ more \notin ExprPoints
    /\ end \notin Special /\ end \notin ExprPoints
    => AllPlain(Values(first, more, next, stop, end))
<1> TAKE first, more, next, stop, end
<1> HAVE
    /\ first \notin Reserved
    /\ next \notin Reserved /\ next \notin Special /\ next \notin ExprPoints
    /\ more \notin Reserved /\ more \notin Special /\ more \notin ExprPoints
    /\ end \notin Special /\ end \notin ExprPoints
<1> USE PlainRules
<1>1. \A look : /\ IsPlain(On(first, look, 0, Go(end)))
                /\ IsPlain(On(first, look, 0, Go(more)))
                /\ IsPlain(On(first, look, 0, CallExpr("eql", more)))
  OBVIOUS
<1>2. \A look : /\ IsPlain(On(more, look, 0, Go(end)))
                /\ IsPlain(On(more, look, 1, Go(next)))
  OBVIOUS
<1>3. \A look : /\ IsPlain(On(next, look, 0, Go(more)))
                /\ IsPlain(On(next, look, 0, CallExpr("eql", more)))
  OBVIOUS
<1> QED BY <1>1, <1>2, <1>3 DEF Values, AllPlain

LEMMA PlainBlocks == AllPlain(CompStmt) /\ AllPlain(NamespaceStmt)
<1>1. AllPlain(CompStmt)
  BY PlainRules DEF CompStmt, AllPlain, Reserved, TypePoints, Special, Held, ExprPoints
<1>2. AllPlain(NamespaceStmt)
  BY PlainRules DEF NamespaceStmt, AllPlain, Reserved, TypePoints, Special, Held, ExprPoints
<1> QED BY <1>1, <1>2

LEMMA PlainVarDef == AllPlain(VarDefStmt)
BY PlainRules DEF VarDefStmt, AllPlain, Reserved, TypePoints, Special, Held, ExprPoints

LEMMA PlainIf == AllPlain(IfStmt)
BY PlainRules DEF IfStmt, AllPlain, Reserved, TypePoints, Special, Held, ExprPoints

LEMMA PlainRepeat == AllPlain(RepeatStmt)
BY PlainRules DEF RepeatStmt, AllPlain, Reserved, TypePoints, Special, Held, ExprPoints

LEMMA PlainLabels == AllPlain(GotoGosubStmt) /\ AllPlain(LabelStmt)
BY PlainRules DEF GotoGosubStmt, LabelStmt, LabelAt, AllPlain, Reserved, TypePoints, Special, Held, ExprPoints

LEMMA PlainExtern == AllPlain(ExternStmt)
<1>1. AllPlain(Values("first default", "more defaults", "next default", Stop \cup {"}"}, "ending"))
  <2>1. /\ "first default" \notin Reserved
        /\ "next default" \notin Reserved /\ "next default" \notin Special /\ "next default" \notin ExprPoints
        /\ "more defaults" \notin Reserved /\ "more defaults" \notin Special /\ "more defaults" \notin ExprPoints
        /\ "ending" \notin Special /\ "ending" \notin ExprPoints
    BY DEF Reserved, TypePoints, Special, Held, ExprPoints
  <2> QED BY <2>1, PlainValues
<1>2. AllPlain(
  {On("extern", <<{"id"}>>, 1, Go("extern ::")),
   On("extern ::", <<{"::"}>>, 1, Call("type", "type", "defaults")),
   On("defaults", <<{"="}>>, 1, Go("first default")),
   On("defaults", <<AllBut({"="})>>, 0, Go("ending"))})
  BY PlainRules DEF AllPlain, Reserved, TypePoints, Special, Held, ExprPoints
<1> QED BY <1>1, <1>2 DEF ExternStmt, AllPlain

LEMMA PlainInst == AllPlain(InstOrAssignStmt)
<1>1. AllPlain(Values("first value", "more values", "next value", Stop, "end of list"))
  <2>1. /\ "first value" \notin Reserved
        /\ "next value" \notin Reserved /\ "next value" \notin Special /\ "next value" \notin ExprPoints
        /\ "more values" \notin Reserved /\ "more values" \notin Special /\ "more values" \notin ExprPoints
        /\ "end of list" \notin Special /\ "end of list" \notin ExprPoints
    BY DEF Reserved, TypePoints, Special, Held, ExprPoints
  <2> QED BY <2>1, PlainValues
<1>2. AllPlain(
  {On("inst", <<{"++"}>>, 1, Go("ending")),
   On("inst", <<{"=", "+="}>>, 1, CallExpr("eql", "ending")),
   On("inst", <<AllBut({"++", "=", "+="})>>, 0, Go("first value"))})
  BY PlainRules DEF AllPlain, Reserved, TypePoints, Special, Held, ExprPoints
<1> QED BY <1>1, <1>2 DEF InstOrAssignStmt, AllPlain

LEMMA PlainOperators == AllPlain(BinaryExpr) /\ AllPlain(UnaryExpr)
<1> USE PlainRules DEF AllPlain, Reserved, TypePoints, Special, Held, ExprPoints
<1>1. AllPlain(
  {On("binary", <<{"&"}>>, 1, Become("binary", "eql") \o Become("unary", "eql")),
   On("binary", <<{"<", "!", "-"} \cup Star>>, 1, Call("unary", "eql", "binary")),
   On("binary", <<AllBut({"&", "<", "!", "-", "="} \cup Star)>>, 0, Return)})
  OBVIOUS
<1>2. /\ AllPlain({On("binary", <<{"="}>>, 1, Call("unary", "eql", "binary"))})
      /\ AllPlain({On("binary", <<{"="}>>, 0, Return)})
  OBVIOUS
<1>3. AllPlain(
  {On("unary", <<{"!", "-"}>>, 1, Become("unary", "eql")),
   On("unary", <<AllBut({"!", "-", "partial"})>>, 0, Go("operand"))})
  OBVIOUS
<1>4. /\ AllPlain({On("unary", <<{"partial"}>>, 1, Become("operand", "partial eql"))})
      /\ AllPlain({On("unary", <<{"partial"}>>, 1, Become("operand", "partial noeql"))})
  OBVIOUS
<1>5. AllPlain(BinaryExpr)
  BY <1>1, <1>2, UnderAll DEF BinaryExpr
<1>6. AllPlain(UnaryExpr)
  BY <1>3, <1>4, UnderAll DEF UnaryExpr
<1> QED BY <1>5, <1>6

LEMMA PlainOperands == AllPlain(TypedOperand) /\ AllPlain(PrimaryExpr)
<1>1. AllPlain(TypedOperand)
  BY PlainRules DEF TypedOperand, AllPlain, Reserved, TypePoints, Special, Held, ExprPoints
<1>2. AllPlain(PrimaryExpr)
  BY PlainRules DEF PrimaryExpr, LabelAt, AllPlain, Reserved, TypePoints, Special, Held, ExprPoints
<1> QED BY <1>1, <1>2

LEMMA PlainSuffixes == \A how, partial, paren, bracket : AllPlain(Suffixes(how, partial, paren, bracket))
<1> TAKE how, partial, paren, bracket
<1>1. AllPlain(
    {On("postfix", <<bracket>>, 1, CallExpr("eql", "subscript")),
     On("postfix", <<paren>>, 1, Become("postfix", how) \o Become("elements", ")")),
     On("postfix", <<{"."}>>, 1, Go("member"))})
  BY PlainRules DEF AllPlain, Reserved, TypePoints, Special, Held, ExprPoints
<1>2. AllPlain({On("postfix", <<AllBut(paren \cup bracket \cup {"."})>>, 0, Return)})
  BY PlainRules DEF AllPlain, Reserved, TypePoints, Special, Held, ExprPoints
<1> QED BY <1>1, <1>2, UnderAll DEF Suffixes, AllPlain

LEMMA PlainPostfix == AllPlain(PostfixExpr)
<1>1. AllPlain({On("subscript", <<ClosesSubscript>>, 1, Go("postfix"))})
  BY PlainRules DEF AllPlain, Reserved, TypePoints, Special, Held, ExprPoints
<1> QED BY <1>1, PlainSuffixes DEF PostfixExpr, AllPlain

LEMMA PlainElements == AllPlain(Elements)
<1>1. \A close : AllPlain(
    {On("elements", <<{close}>>, 1, Return),
     On("elements", <<AllBut({close, "term", END})>>, 0, CallExpr("eql", "more elements")),
     On("more elements", <<{close}>>, 1, Return),
     On("more elements", <<{","}>>, 1, CallExpr("eql", "more elements")),
     On("more elements", <<AllBut({close, ",", "term", END})>>, 0, CallExpr("eql", "more elements"))})
  BY PlainRules DEF AllPlain, Reserved, TypePoints, Special, Held, ExprPoints
<1>2. \A close : AllPlain(Under({close},
    {On("elements", <<{close}>>, 1, Return),
     On("elements", <<AllBut({close, "term", END})>>, 0, CallExpr("eql", "more elements")),
     On("more elements", <<{close}>>, 1, Return),
     On("more elements", <<{","}>>, 1, CallExpr("eql", "more elements")),
     On("more elements", <<AllBut({close, ",", "term", END})>>, 0, CallExpr("eql", "more elements"))}))
  BY <1>1, UnderAll
<1> QED BY <1>2 DEF Elements, AllPlain

\* The one rule of a statement that goes on to the variables.
VarRule == On("stmt", <<{"var"}>>, 1, Go("var"))
UnitRule == On("unit", <<>>, 0, Call("stmt", "top", "unit"))

LEMMA PlainStmt == \A r \in Stmt : r = VarRule \/ IsPlain(r)
<1>1. AllPlain(
  {On("stmt", <<{"{"}>>, 1, Call("block", "term", "end of line")),
   On("stmt", <<{"if"}>>, 1, CallExpr("eql", "if")),
   On("stmt", <<{"repeat"}>>, 1, Go("repeat")),
   On("stmt", <<Star>>, 0, Go("label")),
   On("stmt", <<{"goto"}>>, 1, Go("goto")),
   On("stmt", <<{"break"}>>, 1, Go("ending")),
   On("stmt", <<{"return"}>>, 1, Go("return")),
   On("return", <<Stop>>, 0, Go("ending")),
   On("return", <<AllBut(Stop)>>, 0, CallExpr("eql", "ending"))})
  BY PlainRules DEF AllPlain, Reserved, TypePoints, Special, Held, ExprPoints
<1>2. AllPlain({On("stmt", <<{"term"}>>, 1, Go("stmt"))})
  BY PlainRules DEF AllPlain, Reserved, TypePoints, Special, Held, ExprPoints
<1>3. \A start : AllPlain({On("stmt", <<start>>, 0, Instruction)})
  BY PlainRules DEF Instruction, AllPlain, Reserved, TypePoints, Special, Held, ExprPoints
<1>4. AllPlain(
    {On("stmt", <<{"func"}, AllBut({"id"})>>, 0, Instruction),
     On("stmt", <<InstructionsStart \ {"func", "extern", "namespace", "#runtime"}>>, 0, Instruction)})
  BY PlainRules DEF Instruction, AllPlain, Reserved, TypePoints, Special, Held, ExprPoints
<1> QED BY <1>1, <1>2, <1>3, <1>4, UnderAll DEF Stmt, VarRule, AllPlain

\* All rules but those of a type specifier.
LEMMA OtherRules == \A r \in Rules : r \in TypeSpec \/ r = VarRule \/ r = UnitRule \/ IsPlain(r)
<1> USE DEF AllPlain
<1>1. \A r \in UNION {Ending, EndOfLine, EndOfList, Declarations, FuncExpr, FuncDefStmt,
                      ExternStmt, GotoGosubStmt, LabelStmt} : IsPlain(r)
  BY PlainEndings, PlainDeclarations, PlainFuncDef, PlainExtern, PlainLabels
<1>2. \A r \in UNION {CompStmt, NamespaceStmt, VarDefStmt, IfStmt, RepeatStmt,
                      InstOrAssignStmt, BinaryExpr, UnaryExpr} : IsPlain(r)
  BY PlainBlocks, PlainVarDef, PlainIf, PlainRepeat, PlainInst, PlainOperators
<1>3. \A r \in UNION {TypedOperand, PostfixExpr, PrimaryExpr, Elements} : IsPlain(r)
  BY PlainOperands, PlainPostfix, PlainElements
<1>4. TransUnit = {UnitRule}
  BY DEF TransUnit, UnitRule
<1> QED BY <1>1, <1>2, <1>3, <1>4, PlainStmt DEF Rules

-----------------------------------------------------------------------------
(* The rules of a type specifier: which of them it is, the next two tokens tell. *)

Move(at, a, b) ==
  IF at = "type" /\ a = "mod" THEN [eat |-> 1, to |-> Go("type")]
  ELSE IF at = "type" /\ a = "Type" THEN [eat |-> 1, to |-> Go("type members")]
  ELSE IF at = "type" /\ a \in Paren THEN [eat |-> 1, to |-> Call("type", Same, "type )")]
  ELSE IF at = "type" THEN [eat |-> 1, to |-> Call("type", Same, "type ]")]
  ELSE IF at \in {"type )", "type ]"} THEN [eat |-> 1, to |-> Go("type members")]
  ELSE IF a = "->" THEN [eat |-> 1, to |-> Go("type")]
  ELSE IF a = "." /\ b = "Type" THEN [eat |-> 2, to |-> Go("type members")]
  ELSE [eat |-> 0, to |-> Return]

Allows(look, a, b) ==
  a \in look[1] /\ (Len(look) = 2 => b \in look[2])

IsTypeLook(look, n) ==
  /\ Len(look) \in {1, 2} /\ DOMAIN look = 1..Len(look)
  /\ n = 0 \/ (n = Len(look) /\ \A i \in 1..n : END \notin look[i])
AreTypeFrames(to) ==
  /\ IsSeq(to)
  /\ \A i \in 1..Len(to) : IsFrame(to[i]) /\ to[i].at \in TypePoints /\ to[i].how = Same
IsTypeRule(r) ==
  /\ r = [at |-> r.at, how |-> r.how, look |-> r.look, eat |-> r.eat, to |-> r.to]
  /\ r.at \in TypePoints
  /\ IsTypeLook(r.look, r.eat)
  /\ AreTypeFrames(r.to)
  /\ \A a, b : Allows(r.look, a, b) => Move(r.at, a, b) = [eat |-> r.eat, to |-> r.to]

LEMMA OnIsTypeRule ==
  \A point, look, n, to :
    /\ point \in TypePoints /\ IsTypeLook(look, n) /\ AreTypeFrames(to)
    /\ \A a, b : Allows(look, a, b) => Move(point, a, b) = [eat |-> n, to |-> to]
    => IsTypeRule(On(point, look, n, to))
BY DEF IsTypeRule, On

LEMMA UnderIsTypeRule ==
  \A hows, rules : (\A r \in rules : IsTypeRule(r)) => \A r \in Under(hows, rules) : IsTypeRule(r)
<1> TAKE hows, rules
<1> HAVE \A r \in rules : IsTypeRule(r)
<1> TAKE r \in Under(hows, rules)
<1>1. PICK s \in rules : r = [s EXCEPT !.how = hows]
  BY DEF Under
<1>2. IsTypeRule(s)
  BY <1>1
<1>3. s = [at |-> s.at, how |-> s.how, look |-> s.look, eat |-> s.eat, to |-> s.to]
  BY <1>2 DEF IsTypeRule
<1>4. r = [at |-> s.at, how |-> hows, look |-> s.look, eat |-> s.eat, to |-> s.to]
  BY <1>1, <1>3
<1> QED BY <1>2, <1>4 DEF IsTypeRule

LEMMA TypeLooks ==
  /\ \A A, a, b : Allows(<<A>>, a, b) <=> a \in A
  /\ \A A, B, a, b : Allows(<<A, B>>, a, b) <=> a \in A /\ b \in B
  /\ \A A : IsTypeLook(<<A>>, 0) /\ (END \notin A => IsTypeLook(<<A>>, 1))
  /\ \A A, B : /\ IsTypeLook(<<A, B>>, 0)
               /\ END \notin A /\ END \notin B => IsTypeLook(<<A, B>>, 2)
<1>1. \A A, a, b : Allows(<<A>>, a, b) <=> a \in A
  BY DEF Allows
<1>2. \A A, B, a, b : Allows(<<A, B>>, a, b) <=> a \in A /\ b \in B
  BY DEF Allows
<1>3. \A A : IsTypeLook(<<A>>, 0) /\ (END \notin A => IsTypeLook(<<A>>, 1))
  BY DEF IsTypeLook
<1>4. \A A, B : /\ IsTypeLook(<<A, B>>, 0)
                /\ END \notin A /\ END \notin B => IsTypeLook(<<A, B>>, 2)
  BY DEF IsTypeLook
<1> QED BY <1>1, <1>2, <1>3, <1>4

LEMMA TypeTargets ==
  /\ AreTypeFrames(Return)
  /\ \A p \in TypePoints : AreTypeFrames(Go(p)) /\ AreTypeFrames(Call("type", Same, p))
<1> DEFINE F(p) == [at |-> p, how |-> Same]
<1>1. AreTypeFrames(Return)
  BY EmptyIsSeq DEF AreTypeFrames, Return
<1>2. \A p : F(p).at = p /\ F(p).how = Same /\ IsFrame(F(p))
  BY DEF IsFrame
<1>3. "type" \in TypePoints
  BY DEF TypePoints
<1>4. \A p : Go(p) = <<F(p)>> /\ Call("type", Same, p) = <<F(p)>> \o <<F("type")>>
  BY DEF Go, Call, Become
<1> HIDE DEF F
<1> SUFFICES ASSUME NEW p \in TypePoints
             PROVE  AreTypeFrames(Go(p)) /\ AreTypeFrames(Call("type", Same, p))
  BY <1>1
<1> DEFINE one == <<F(p)>>
           ty == F("type")
           two == one \o <<ty>>
<1>5. IsSeq(one) /\ Len(one) = 1 /\ one[1] = F(p)
  BY OneElement
<1> HIDE DEF one
<1>6. /\ IsSeq(two) /\ Len(two) = 2 /\ two[2] = F("type")
      /\ \A i \in 1..1 : two[i] = one[i]
  <2> HIDE DEF ty
  <2>1. /\ IsSeq(two) /\ Len(two) = Len(one) + 1 /\ two[Len(one) + 1] = ty
        /\ \A i \in 1..Len(one) : two[i] = one[i]
    <3>1. IsOneMore(two, one, ty)
      BY <1>5, OneMore
    <3> QED BY <3>1 DEF IsOneMore
  <2> QED BY <1>5, <2>1 DEF ty
<1> HIDE DEF two
<1>7. AreTypeFrames(one)
  BY <1>2, <1>5 DEF AreTypeFrames
<1>8. AreTypeFrames(two)
  <2>1. \A i \in 1..2 : i = 1 \/ i = 2
    OBVIOUS
  <2>2. two[1] = F(p)
    BY <1>5, <1>6
  <2> QED BY <1>2, <1>3, <1>6, <2>1, <2>2 DEF AreTypeFrames
<1> QED BY <1>4, <1>7, <1>8 DEF one, two

LEMMA TypeRules == \A r \in TypeSpec : IsTypeRule(r)
<1>1. /\ "type" \in TypePoints /\ "type )" \in TypePoints /\ "type ]" \in TypePoints
      /\ "type members" \in TypePoints
  BY DEF TypePoints
<1>2. /\ END \notin {"mod"} /\ END \notin {"Type"} /\ END \notin Paren /\ END \notin {")"}
      /\ END \notin ClosesArray /\ END \notin Bracket /\ END \notin {"."} /\ END \notin {"->"}
  BY TokensAssumption DEF ParserTokens, Paren, Bracket, ClosesArray
<1>3. \A point, A, n, to :
        /\ point \in TypePoints /\ (n = 0 \/ (n = 1 /\ END \notin A)) /\ AreTypeFrames(to)
        /\ \A a, b : a \in A => Move(point, a, b) = [eat |-> n, to |-> to]
        => IsTypeRule(On(point, <<A>>, n, to))
  BY OnIsTypeRule, TypeLooks
<1>4. \A point, A, B, n, to :
        /\ point \in TypePoints /\ (n = 0 \/ (n = 2 /\ END \notin A /\ END \notin B)) /\ AreTypeFrames(to)
        /\ \A a, b : a \in A /\ b \in B => Move(point, a, b) = [eat |-> n, to |-> to]
        => IsTypeRule(On(point, <<A, B>>, n, to))
  BY OnIsTypeRule, TypeLooks
<1>5. /\ \A a, b : a \in {"mod"} => Move("type", a, b) = [eat |-> 1, to |-> Go("type")]
      /\ \A a, b : a \in {"Type"} => Move("type", a, b) = [eat |-> 1, to |-> Go("type members")]
      /\ \A a, b : a \in Paren => Move("type", a, b) = [eat |-> 1, to |-> Call("type", Same, "type )")]
      /\ \A a, b : a \in Bracket => Move("type", a, b) = [eat |-> 1, to |-> Call("type", Same, "type ]")]
  BY DEF Move, Paren, Bracket
<1>6. /\ \A a, b : a \in {")"} => Move("type )", a, b) = [eat |-> 1, to |-> Go("type members")]
      /\ \A a, b : a \in ClosesArray => Move("type ]", a, b) = [eat |-> 1, to |-> Go("type members")]
      /\ \A a, b : a \in {"->"} => Move("type members", a, b) = [eat |-> 1, to |-> Go("type")]
      /\ \A a, b : a \in {"."} /\ b \in {"Type"} =>
           Move("type members", a, b) = [eat |-> 2, to |-> Go("type members")]
      /\ \A a, b : a \in {"."} /\ b \in AllBut({"Type"}) =>
           Move("type members", a, b) = [eat |-> 0, to |-> Return]
      /\ \A a, b : a \in AllBut({".", "->"}) =>
           Move("type members", a, b) = [eat |-> 0, to |-> Return]
  BY DEF Move, AllBut
<1>7. /\ IsTypeRule(On("type", <<{"mod"}>>, 1, Go("type")))
      /\ IsTypeRule(On("type", <<{"Type"}>>, 1, Go("type members")))
      /\ IsTypeRule(On("type", <<Paren>>, 1, Call("type", Same, "type )")))
      /\ IsTypeRule(On("type", <<Bracket>>, 1, Call("type", Same, "type ]")))
  BY <1>1, <1>2, <1>3, <1>5, TypeTargets
<1>8. /\ IsTypeRule(On("type )", <<{")"}>>, 1, Go("type members")))
      /\ IsTypeRule(On("type ]", <<ClosesArray>>, 1, Go("type members")))
      /\ IsTypeRule(On("type members", <<{"->"}>>, 1, Go("type")))
  BY <1>1, <1>2, <1>3, <1>6, TypeTargets
<1>9. /\ IsTypeRule(On("type members", <<AllBut({".", "->"})>>, 0, Return))
      /\ IsTypeRule(On("type members", <<{"."}, AllBut({"Type"})>>, 0, Return))
      /\ IsTypeRule(On("type members", <<{"."}, {"Type"}>>, 2, Go("type members")))
  BY <1>1, <1>2, <1>3, <1>4, <1>6, TypeTargets
<1>10. \A r \in
    {On("type", <<Bracket>>, 1, Call("type", Same, "type ]")),
     On("type members", <<{"."}, {"Type"}>>, 2, Go("type members")),
     On("type members", <<{"->"}>>, 1, Go("type"))} : IsTypeRule(r)
  BY <1>7, <1>8, <1>9
<1> QED BY <1>7, <1>8, <1>9, <1>10, UnderIsTypeRule DEF TypeSpec

-----------------------------------------------------------------------------
(* The parser's use of the buffer. *)

\* What la sees is the source's, and the buffer has it unless it is END.
LEMMA LaIsInput ==
  ASSUME BufferInv, NEW n \in Nat, IsKnown(n)
  PROVE  /\ La(n) = input[AtMostEnd(Consumed + Top + 1 + n)]
         /\ La(n) # END => /\ Top + n < Len(tokens)
                           /\ La(n) = tokens[Top + n + 1]
                           /\ Consumed + Top + 1 + n < Len(input)
<1> DEFINE i == Top + n
<1>1. /\ lexer \in Seq(Tokens) /\ tokens \in Seq(Tokens)
      /\ Len(tokens) \in Nat /\ Len(lexer) \in Nat /\ Len(input) \in Nat
      /\ Top \in Nat /\ Consumed \in Nat /\ i \in Nat
      /\ Consumed = Len(input) - Len(lexer) - Len(tokens)
  BY TopIsNat, Basics
<1>2. Len(tokens) > 0 /\ Missing(i) = 0 /\ La(n) = TokenAt(tokens, i)
  BY <1>1 DEF IsKnown, La, LookFrom
<1>3. i < Len(tokens) \/ Len(lexer) = 0
  BY <1>1, <1>2, EndIsTheLast DEF Missing
<1>4. CASE i < Len(tokens)
  <2>1. La(n) = tokens[i + 1] /\ i + 1 \in 1..Len(tokens)
    BY <1>1, <1>2, <1>4 DEF TokenAt
  <2>2. tokens[i + 1] = input[Consumed + (i + 1)]
    BY <2>1, Basics
  <2>3. /\ Consumed + (i + 1) \in 1..Len(input) /\ Consumed + (i + 1) = Consumed + Top + 1 + n
        /\ i + 1 = Top + n + 1
    BY <1>1, <2>1
  <2>4. AtMostEnd(Consumed + Top + 1 + n) = Consumed + (i + 1)
    BY <2>3, <1>1 DEF AtMostEnd
  <2>5. La(n) # END => Consumed + (i + 1) # Len(input)
    BY <2>1, <2>2, <2>3, InputIsSource DEF BufferInv
  <2>6. La(n) = input[AtMostEnd(Consumed + Top + 1 + n)]
    BY <2>1, <2>2, <2>4
  <2>7. La(n) = tokens[Top + n + 1]
    BY <2>1, <2>3
  <2>8. La(n) # END => Consumed + (i + 1) < Len(input)
    <3> HIDE DEF i
    <3> QED BY <1>1, <2>3, <2>5
  <2>9. La(n) # END => Consumed + Top + 1 + n < Len(input)
    BY <2>3, <2>8
  <2> QED BY <1>4, <2>6, <2>7, <2>9
<1>5. CASE ~ (i < Len(tokens))
  <2>1. La(n) = tokens[Len(tokens)] /\ Len(tokens) \in 1..Len(tokens)
    BY <1>1, <1>2, <1>5 DEF TokenAt
  <2>2. tokens[Len(tokens)] = input[Consumed + Len(tokens)]
    BY <2>1, Basics
  <2>3. Consumed + Len(tokens) = Len(input) /\ AtMostEnd(Consumed + Top + 1 + n) = Len(input)
    BY <1>1, <1>3, <1>5 DEF AtMostEnd
  <2>4. input[Len(input)] = END
    BY InputIsSource DEF BufferInv
  <2> QED BY <2>1, <2>2, <2>3, <2>4
<1> QED BY <1>4, <1>5

\* Consuming what is buffered is a step of the buffer, and marks nothing.
LEMMA EatStep ==
  ASSUME BufferInv, NEW n \in 0..3, Eat(n)
  PROVE  /\ BufferInv' /\ [BufferNext]_bufferVars /\ input' = input
         /\ Len(markers') = Len(markers)
         /\ IsSpeculating => Consumed' = Consumed
         /\ (n = 0 \/ tokens[Top + n] # END) => Consumed' + Top' = Consumed + Top + n
<1>1. CASE n = 0
  <2>1. /\ input' = input /\ lexer' = lexer /\ tokens' = tokens
        /\ markers' = markers /\ seen' = seen
    BY <1>1 DEF Eat, bufferVars
  <2>2. BufferInv' /\ Consumed' = Consumed /\ Top' = Top
    BY <2>1 DEF BufferInv, BufferTypeOK, NothingIsLost, MarkersAreOrdered, Consumed, Top, IsSpeculating
  <2>3. Consumed \in Nat /\ Top \in Nat
    BY Basics, TopIsNat
  <2> QED BY <2>1, <2>2, <2>3, <1>1 DEF bufferVars
<1>2. CASE n # 0
  <2>1. n \in Nat \ {0} /\ n \in 1..(MaxLook + 1) /\ Consume(n)
    BY <1>2, TokensAssumption, BoundsAssumption DEF Eat
  <2>2. BufferNext /\ input' = input
    BY <2>1 DEF BufferNext, Consume
  <2> QED BY <1>2, <2>1, <2>2, ConsumeStep
<1> QED BY <1>1, <1>2

-----------------------------------------------------------------------------
(* The activations. *)

\* Where only the innermost activation is.
Innermost == {"var", "no type"}
\* The outermost activation is parseTransUnit's, the next one a statement's at
\* the top level, and above one that waits for a type specifier is nothing else.
Nested ==
  /\ IsSeq(calls) /\ Len(calls) > 0
  /\ \A k \in 1..Len(calls) : IsFrame(calls[k]) /\ (calls[k].at = "unit" <=> k = 1)
  /\ Len(calls) > 1 => calls[2].at \notin ExprPoints /\ calls[2].how = "top"
  /\ \A k \in 1..Len(calls) : calls[k].at \in Innermost => k = Len(calls)
  /\ \A k \in 1..Len(calls) : calls[k].at \in Held =>
       \A i \in 1..Len(calls) : i > k => calls[i].at \in TypePoints /\ calls[i].how = "type"

NothingIsHeld == \A k \in 1..Len(calls) : calls[k].at \notin Held

\* The innermost activation is replaced.
LEMMA CallsAfter ==
  ASSUME IsSeq(calls), Len(calls) > 0,
         NEW to, IsSeq(to), \A i \in 1..Len(to) : IsFrame(to[i]),
         calls' = Callers \o Frames(to)
  PROVE  /\ IsSeq(calls') /\ Len(calls') = Len(calls) - 1 + Len(to)
         /\ \A k \in 1..(Len(calls) - 1) : calls'[k] = calls[k]
         /\ \A i \in 1..Len(to) :
              calls'[Len(calls) - 1 + i] =
                [at |-> to[i].at, how |-> IF to[i].how = Same THEN Here.how ELSE to[i].how]
<1> DEFINE how(i) == IF to[i].how = Same THEN Here.how ELSE to[i].how
           new == [i \in 1..Len(to) |-> [at |-> to[i].at, how |-> how(i)]]
           n == Len(calls) - 1
<1>1. Len(calls) \in Nat /\ Len(to) \in Nat /\ DOMAIN to = 1..Len(to) /\ n \in 0..Len(calls)
  BY LenFacts
<1>2. Frames(to) = new
  <2>1. ASSUME NEW i \in 1..Len(to)
        PROVE  [to[i] EXCEPT !.how = IF @ = Same THEN Here.how ELSE @] = [at |-> to[i].at, how |-> how(i)]
    <3>1. to[i] = [at |-> to[i].at, how |-> to[i].how]
      BY DEF IsFrame
    <3> QED BY <3>1
  <2> HIDE DEF how
  <2> QED BY <1>1, <2>1 DEF Frames, how
<1>3. IsSeq(new) /\ Len(new) = Len(to) /\ \A i \in 1..Len(to) : new[i] = [at |-> to[i].at, how |-> how(i)]
  <2> DEFINE S == {[at |-> to[i].at, how |-> how(i)] : i \in 1..Len(to)}
  <2> HIDE DEF how
  <2>1. new \in [1..Len(to) -> S]
    OBVIOUS
  <2> HIDE DEF S
  <2>2. new \in Seq(S) /\ Len(new) = Len(to)
    BY <1>1, <2>1
  <2> QED BY <2>2 DEF IsSeq
<1> HIDE DEF new
<1>4. /\ IsSeq(Callers) /\ Len(Callers) = n
      /\ \A i \in 1..n : Callers[i] = calls[i]
  <2> HIDE DEF n
  <2>1. /\ IsSeq(SubSeq(calls, 1, n)) /\ Len(SubSeq(calls, 1, n)) = n
        /\ \A i \in 1..n : SubSeq(calls, 1, n)[i] = calls[i]
    BY <1>1, PrefixFacts
  <2> QED BY <2>1 DEF Callers, n
<1>5. /\ IsSeq(Callers \o new)
      /\ Len(Callers \o new) = Len(Callers) + Len(new)
      /\ \A i \in 1..Len(Callers) : (Callers \o new)[i] = Callers[i]
      /\ \A i \in 1..Len(new) : (Callers \o new)[Len(Callers) + i] = new[i]
  <2>1. IsSeq(Callers) /\ IsSeq(new)
    BY <1>3, <1>4
  <2> QED BY ONLY <2>1, ConcatFacts
<1>6. calls' = Callers \o new
  BY <1>2
<1>7. \A i \in 1..Len(to) : calls'[n + i] = [at |-> to[i].at, how |-> how(i)]
  <2> HIDE DEF n, how
  <2> QED BY <1>3, <1>4, <1>5, <1>6
<1> QED BY <1>3, <1>4, <1>5, <1>6, <1>7

\* What the innermost activation is, and what is not beneath it.
LEMMA HereFacts ==
  ASSUME Nested
  PROVE  /\ Len(calls) \in Nat /\ Len(calls) >= 1 /\ Here = calls[Len(calls)] /\ IsFrame(Here)
         /\ Here.at = "unit" <=> Len(calls) = 1
         /\ Here.at \in ExprPoints => Len(calls) > 2
         /\ Here.at \notin TypePoints =>
              \A k \in 1..(Len(calls) - 1) : calls[k].at \notin Held
<1>1. Len(calls) \in Nat /\ Len(calls) >= 1 /\ Len(calls) \in 1..Len(calls)
  BY LenFacts DEF Nested
<1>2. Here = calls[Len(calls)] /\ IsFrame(Here) /\ (Here.at = "unit" <=> Len(calls) = 1)
  BY <1>1 DEF Here, Nested
<1>3. Here.at \in ExprPoints => Len(calls) > 2
  <2>1. "unit" \notin ExprPoints
    BY DEF ExprPoints, Held
  <2> QED BY <1>1, <1>2, <2>1 DEF Nested
<1>4. ASSUME Here.at \notin TypePoints, NEW k \in 1..(Len(calls) - 1)
      PROVE  calls[k].at \notin Held
  <2>1. k \in 1..Len(calls) /\ Len(calls) > k
    BY <1>1
  <2> QED BY <1>1, <1>2, <1>4, <2>1 DEF Nested
<1> QED BY <1>1, <1>2, <1>3, <1>4

\* A rule of another part than the type specifier's is taken.
LEMMA NestedAfter ==
  ASSUME Nested, Here.at \notin Reserved, NEW to, IsSeq(to), calls' = Callers \o Frames(to),
         \A i \in 1..Len(to) : /\ IsFrame(to[i]) /\ to[i].at \notin Held \cup {"unit"}
                               /\ to[i].at \in Innermost => i = Len(to),
         Here.at \notin ExprPoints /\ Len(to) > 0 => to[1].at \notin ExprPoints /\ to[1].how = Same
  PROVE  /\ Nested' /\ NothingIsHeld'
         /\ \A k \in 1..Len(calls') : calls'[k].at # "speculated"
         /\ Len(to) = 0 => Here'.at \notin Innermost
         /\ Len(to) > 0 => Here'.at = to[Len(to)].at
<1> DEFINE n == Len(to)
           L == Len(calls)
<1>1. /\ L \in Nat /\ L >= 2 /\ n \in Nat /\ Here = calls[L]
      /\ \A k \in 1..(L - 1) : calls[k].at \notin Held
  <2>1. Here.at \notin TypePoints /\ Here.at # "unit"
    BY DEF Reserved
  <2>2. n \in Nat
    BY LenFacts
  <2>3. L \in Nat /\ L >= 1 /\ Here = calls[L] /\ L # 1
    BY <2>1, HereFacts
  <2>4. \A k \in 1..(L - 1) : calls[k].at \notin Held
    BY <2>1, HereFacts
  <2>5. L >= 2
    <3> HIDE DEF L
    <3> QED BY <2>3
  <2> QED BY <2>2, <2>3, <2>4, <2>5
<1>2. /\ IsSeq(calls') /\ Len(calls') = L - 1 + n
      /\ \A k \in 1..(L - 1) : calls'[k] = calls[k]
      /\ \A i \in 1..n :
           calls'[L - 1 + i] =
             [at |-> to[i].at, how |-> IF to[i].how = Same THEN Here.how ELSE to[i].how]
  BY <1>1, CallsAfter DEF Nested
<1>3. \A k \in 1..(L - 1 + n) :
        \/ k \in 1..(L - 1) /\ calls'[k] = calls[k]
        \/ \E i \in 1..n : k = L - 1 + i
  <2> SUFFICES ASSUME NEW k \in 1..(L - 1 + n), ~ (k \in 1..(L - 1))
               PROVE  k - (L - 1) \in 1..n /\ k = L - 1 + (k - (L - 1))
    BY <1>2
  <2> QED BY <1>1
<1>4. \A i \in 1..n : /\ IsFrame(calls'[L - 1 + i]) /\ calls'[L - 1 + i].at = to[i].at
                      /\ to[i].how = Same => calls'[L - 1 + i].how = Here.how
  <2> SUFFICES ASSUME NEW i \in 1..n
               PROVE  /\ IsFrame(calls'[L - 1 + i]) /\ calls'[L - 1 + i].at = to[i].at
                      /\ to[i].how = Same => calls'[L - 1 + i].how = Here.how
    OBVIOUS
  <2> DEFINE how == IF to[i].how = Same THEN Here.how ELSE to[i].how
             f == calls'[L - 1 + i]
  <2>1. f = [at |-> to[i].at, how |-> how] /\ (to[i].how = Same => how = Here.how)
    BY <1>2
  <2> HIDE DEF how, f
  <2>2. IsFrame(f) /\ f.at = to[i].at /\ f.how = how
    BY <2>1 DEF IsFrame
  <2> QED BY <2>1, <2>2 DEF f
<1> HIDE DEF n, L
<1>5. Len(calls') > 0 /\ Len(calls') \in Nat /\ Len(calls') = L - 1 + n
  BY <1>1, <1>2
<1>6. ASSUME NEW k \in 1..Len(calls')
      PROVE  /\ IsFrame(calls'[k]) /\ (calls'[k].at = "unit" <=> k = 1)
             /\ calls'[k].at \notin Held
             /\ calls'[k].at \in Innermost => k = Len(calls')
  <2>1. CASE k \in 1..(L - 1)
    <3>1. calls'[k] = calls[k] /\ k \in 1..L /\ k # L
      BY <2>1, <1>1, <1>2
    <3>2. /\ IsFrame(calls[k]) /\ (calls[k].at = "unit" <=> k = 1)
          /\ calls[k].at \notin Innermost
      BY <3>1 DEF Nested, L
    <3> QED BY <2>1, <3>1, <3>2, <1>1
  <2>2. CASE k \notin 1..(L - 1)
    <3>1. PICK i \in 1..n : k = L - 1 + i
      BY <2>2, <1>3, <1>5
    <3>2. /\ IsFrame(to[i]) /\ to[i].at \notin Held /\ to[i].at # "unit"
          /\ to[i].at \in Innermost => i = n
      BY <3>1 DEF n
    <3>3. k # 1 /\ (i = n => k = Len(calls'))
      BY <3>1, <1>1, <1>5
    <3>4. IsFrame(calls'[k]) /\ calls'[k].at = to[i].at
      BY <3>1, <1>4
    <3> QED BY <3>2, <3>3, <3>4
  <2> QED BY <2>1, <2>2
<1>7. Len(calls') > 1 => calls'[2].at \notin ExprPoints /\ calls'[2].how = "top"
  <2>1. CASE L > 2
    <3>1. 2 \in 1..(L - 1)
      BY <2>1, <1>1
    <3> QED BY <2>1, <3>1, <1>2 DEF Nested, L
  <2>2. CASE ~ (L > 2)
    <3>1. L = 2
      BY <2>2, <1>1
    <3>2. Here.at \notin ExprPoints /\ Here.how = "top"
      BY <3>1, <1>1 DEF Nested, L
    <3>3. Len(calls') > 1 => 1 \in 1..n /\ n > 0 /\ L - 1 + 1 = 2
      BY <3>1, <1>1, <1>5
    <3>4. n > 0 => to[1].at \notin ExprPoints /\ to[1].how = Same
      BY <3>2 DEF n
    <3> QED BY <3>2, <3>3, <3>4, <1>4
  <2> QED BY <2>1, <2>2
<1>8. Nested'
  BY <1>2, <1>5, <1>6, <1>7 DEF Nested
<1>9. \A k \in 1..Len(calls') : calls'[k].at # "speculated"
  BY <1>6 DEF Held
<1>10. Here' = calls'[Len(calls')]
  BY DEF Here
<1>11. n = 0 => Here'.at \notin Innermost
  <2>1. n = 0 => Len(calls') = L - 1 /\ L - 1 \in 1..(L - 1) /\ L - 1 \in 1..L /\ L - 1 # L
    BY <1>1, <1>5
  <2>2. n = 0 => Here' = calls[L - 1]
    BY <2>1, <1>2, <1>10
  <2>3. n = 0 => calls[L - 1].at \notin Innermost
    BY <2>1 DEF Nested, L
  <2> QED BY <2>2, <2>3
<1>12. n > 0 => Here'.at = to[n].at
  <2>1. n > 0 => n \in 1..n /\ Len(calls') = L - 1 + n
    BY <1>1, <1>5
  <2> QED BY <2>1, <1>4, <1>10
<1>13. NothingIsHeld'
  BY <1>6 DEF NothingIsHeld
<1> QED BY <1>8, <1>9, <1>11, <1>12, <1>13 DEF n


\* There is at most one speculation, and it is one activation's.
SpeculationIsHeld ==
  /\ guess = [from |-> guess.from, upto |-> guess.upto]
  /\ Len(markers) <= 1
  /\ IsSpeculating <=> \E k \in 1..Len(calls) : calls[k].at = "speculated"
  /\ IsSpeculating \/ Here.at = "no type" => Consumed = guess.from
  /\ Here.at = "no type" => ~IsSpeculating

\* The variables of a definition are looked at right behind its `var`.
VarIsConsumed ==
  Here.at = "var" => Consumed >= 1 /\ input[Consumed] = "var"

ParserInv == BufferInv /\ Nested /\ SpeculationIsHeld /\ VarIsConsumed /\ WholeSourceIsRead

LEMMA MarkerFacts ==
  ASSUME BufferInv
  PROVE  (IsSpeculating <=> Len(markers) > 0) /\ (~IsSpeculating => Top = 0)
<1>1. markers \in Seq(Nat)
  BY DEF BufferInv, BufferTypeOK
<1> QED BY <1>1 DEF IsSpeculating, Top

LEMMA OnlyTypesAreSpeculatedOn ==
  ASSUME ParserInv, Here.at \notin TypePoints, Here.at # "speculated"
  PROVE  ~IsSpeculating
<1> SUFFICES ASSUME NEW k \in 1..Len(calls), calls[k].at = "speculated"
             PROVE  FALSE
  BY DEF ParserInv, SpeculationIsHeld
<1>1. /\ Len(calls) \in Nat /\ Here = calls[Len(calls)]
      /\ \A i \in 1..(Len(calls) - 1) : calls[i].at \notin Held
  BY HereFacts DEF ParserInv
<1>2. k # Len(calls)
  BY <1>1
<1>3. k \in 1..(Len(calls) - 1)
  BY <1>1, <1>2
<1> QED BY <1>1, <1>3 DEF Held

\* The rules of the statements and of the expressions.
LEMMA TakePlain ==
  ASSUME ParserInv, status = "running",
         NEW r, r.at = Here.at, IsPlain(r),
         Eat(r.eat), calls' = Callers \o Frames(r.to), UNCHANGED <<status, guess>>
  PROVE  ParserInv' /\ [BufferNext]_bufferVars /\ NothingIsHeld'
<1>1. /\ Here.at \notin Reserved /\ r.eat \in 0..3 /\ IsSeq(r.to)
      /\ \A i \in 1..Len(r.to) : IsFrame(r.to[i]) /\ r.to[i].at \notin Special
      /\ Here.at \notin ExprPoints /\ Len(r.to) > 0 =>
           r.to[1].at \notin ExprPoints /\ r.to[1].how = Same
  BY DEF IsPlain, Continues
<1>2. /\ \A p : p \notin Special => p \notin Held \cup {"unit"} /\ p \notin Innermost
      /\ Here.at \notin TypePoints /\ Here.at # "speculated"
  BY <1>1 DEF Special, Innermost, Reserved
<1>3. /\ BufferInv' /\ [BufferNext]_bufferVars /\ Len(markers') = Len(markers)
      /\ BufferInv
  BY <1>1, EatStep DEF ParserInv
<1>4. ~IsSpeculating /\ ~IsSpeculating' /\ Len(markers') <= 1
  <2>1. ~IsSpeculating
    BY <1>2, OnlyTypesAreSpeculatedOn
  <2>2. ~ (Len(markers) > 0) /\ Len(markers) <= 1
    BY <2>1, <1>3, MarkerFacts DEF ParserInv, SpeculationIsHeld
  <2>3. (IsSpeculating <=> Len(markers) > 0)'
    BY <1>3, MarkerFacts, PTL
  <2> QED BY <2>1, <2>2, <2>3, <1>3
<1> DEFINE to == r.to
<1>5. \A i \in 1..Len(to) : /\ IsFrame(to[i]) /\ to[i].at \notin Held \cup {"unit"}
                            /\ to[i].at \in Innermost => i = Len(to)
  BY <1>1, <1>2
<1>6. IsSeq(to) /\ (Len(to) > 0 => Len(to) \in 1..Len(to))
  <2>1. IsSeq(to) /\ Len(to) \in Nat
    BY <1>1, LenFacts
  <2> QED BY <2>1
<1>7. Here.at \notin ExprPoints /\ Len(to) > 0 => to[1].at \notin ExprPoints /\ to[1].how = Same
  BY <1>1
<1>8. Nested /\ calls' = Callers \o Frames(to)
  BY DEF ParserInv
<1>9. Len(to) > 0 => to[Len(to)].at \notin Innermost
  BY <1>1, <1>2, <1>6
<1>10. Len(to) = 0 \/ Len(to) > 0
  <2>1. Len(to) \in Nat
    BY <1>1, LenFacts
  <2> QED BY <2>1
<1> HIDE DEF to
<1>11. /\ Nested' /\ NothingIsHeld' /\ \A k \in 1..Len(calls') : calls'[k].at # "speculated"
       /\ Len(to) = 0 => Here'.at \notin Innermost
       /\ Len(to) > 0 => Here'.at = to[Len(to)].at
  BY <1>1, <1>5, <1>6, <1>7, <1>8, NestedAfter
<1>12. Here'.at # "var" /\ Here'.at # "no type"
  <2>1. Here'.at \notin Innermost
    BY <1>9, <1>10, <1>11
  <2> QED BY <2>1 DEF Innermost
<1>13. status' = "running" /\ guess' = guess
  OBVIOUS
<1>14. SpeculationIsHeld'
  <2>1. guess' = [from |-> guess'.from, upto |-> guess'.upto]
    BY <1>13 DEF ParserInv, SpeculationIsHeld
  <2> QED BY <2>1, <1>4, <1>11, <1>12 DEF SpeculationIsHeld
<1>15. VarIsConsumed' /\ WholeSourceIsRead'
  BY <1>12, <1>13 DEF VarIsConsumed, WholeSourceIsRead
<1> QED BY <1>3, <1>11, <1>14, <1>15 DEF ParserInv


LEMMA CallFrames ==
  \A f, how, p :
    /\ IsSeq(Call(f, how, p)) /\ Len(Call(f, how, p)) = 2
    /\ Call(f, how, p)[1] = [at |-> p, how |-> Same]
    /\ Call(f, how, p)[2] = [at |-> f, how |-> how]
    /\ \A i \in 1..2 : IsFrame(Call(f, how, p)[i])
<1> TAKE f, how, p
<1> DEFINE a == [at |-> p, how |-> Same]
           b == [at |-> f, how |-> how]
           one == <<a>>
           two == one \o <<b>>
<1>1. two = Call(f, how, p)
  BY DEF Call, Go, Become
<1>2. IsFrame(a) /\ IsFrame(b)
  BY DEF IsFrame
<1>3. \A i \in 1..2 : i = 1 \/ i = 2
  OBVIOUS
<1> HIDE DEF a, b
<1>4. IsSeq(one) /\ Len(one) = 1 /\ one[1] = a
  BY OneElement
<1> HIDE DEF one
<1>5. /\ IsSeq(two) /\ Len(two) = Len(one) + 1
      /\ \A i \in 1..Len(one) : two[i] = one[i]
      /\ two[Len(one) + 1] = b
  <2>1. IsOneMore(two, one, b)
    BY <1>4, OneMore
  <2> QED BY <2>1 DEF IsOneMore
<1> HIDE DEF two
<1>6. IsSeq(two) /\ Len(two) = 2 /\ two[1] = a /\ two[2] = b
  BY <1>4, <1>5
<1>7. \A i \in 1..2 : IsFrame(two[i])
  BY <1>2, <1>3, <1>6
<1> QED BY <1>1, <1>6, <1>7 DEF a, b

\* parseTransUnit is where it was, and calls parseStmt.
LEMMA TakeUnit ==
  ASSUME ParserInv, status = "running", UnitRule.at = Here.at, Eat(UnitRule.eat),
         calls' = Callers \o Frames(UnitRule.to), UNCHANGED <<status, guess>>
  PROVE  ParserInv' /\ [BufferNext]_bufferVars /\ NothingIsHeld'
<1> DEFINE to == Call("stmt", "top", "unit")
<1>1. Here.at = "unit" /\ Eat(0) /\ calls' = Callers \o Frames(to)
  BY DEF UnitRule, On
<1>2. Len(calls) = 1
  BY <1>1, HereFacts DEF ParserInv
<1>3. /\ IsSeq(to) /\ Len(to) = 2 /\ \A i \in 1..2 : IsFrame(to[i])
      /\ to[1] = [at |-> "unit", how |-> Same] /\ to[2] = [at |-> "stmt", how |-> "top"]
  BY CallFrames
<1> HIDE DEF to
<1>4. /\ IsSeq(calls') /\ Len(calls') = Len(calls) - 1 + Len(to)
      /\ \A i \in 1..Len(to) :
           calls'[Len(calls) - 1 + i] =
             [at |-> to[i].at, how |-> IF to[i].how = Same THEN Here.how ELSE to[i].how]
  BY <1>1, <1>2, <1>3, CallsAfter DEF ParserInv, Nested
<1>5. /\ Len(calls') = 2
      /\ calls'[1] = [at |-> "unit", how |-> Here.how]
      /\ calls'[2] = [at |-> "stmt", how |-> "top"]
  <2>1. 1 \in 1..Len(to) /\ 2 \in 1..Len(to) /\ Len(calls) - 1 + 1 = 1 /\ Len(calls) - 1 + 2 = 2
    BY <1>2, <1>3
  <2>2. "top" # Same
    BY DEF Same
  <2> QED BY <1>2, <1>3, <1>4, <2>1, <2>2
<1>6. \A k \in 1..2 : k = 1 \/ k = 2
  OBVIOUS
<1>7. \A k \in 1..Len(calls') :
        /\ IsFrame(calls'[k]) /\ (calls'[k].at = "unit" <=> k = 1)
        /\ calls'[k].at \notin Innermost /\ calls'[k].at \notin Held
  <2>1. /\ "unit" \notin Innermost /\ "unit" \notin Held
        /\ "stmt" \notin Innermost /\ "stmt" \notin Held /\ "stmt" # "unit"
    BY DEF Innermost, Held
  <2>2. /\ IsFrame(calls'[1]) /\ calls'[1].at = "unit"
        /\ IsFrame(calls'[2]) /\ calls'[2].at = "stmt"
    BY <1>5 DEF IsFrame
  <2> QED BY <2>1, <2>2, <1>5, <1>6
<1>8. "stmt" \notin ExprPoints
  BY DEF ExprPoints, Held
<1>9. Nested'
  <2>1. IsSeq(calls')
    BY <1>4
  <2>2. \A k \in 1..Len(calls') : k = 1 \/ k = 2
    BY <1>5, <1>6
  <2>3. \A k \in 1..Len(calls') : IsFrame(calls'[k]) /\ (calls'[k].at = "unit" <=> k = 1)
    BY <1>7
  <2>4. /\ \A k \in 1..Len(calls') : calls'[k].at \in Innermost => k = Len(calls')
        /\ \A k \in 1..Len(calls') : calls'[k].at \in Held =>
             \A i \in 1..Len(calls') : i > k => calls'[i].at \in TypePoints /\ calls'[i].how = "type"
    BY <1>7
  <2>5. Len(calls') > 1 => calls'[2].at \notin ExprPoints /\ calls'[2].how = "top"
    BY <1>5, <1>8
  <2> QED BY <1>5, <2>1, <2>3, <2>4, <2>5 DEF Nested
<1>10. ~IsSpeculating
  <2>1. Here.at \notin TypePoints /\ Here.at # "speculated"
    BY <1>1 DEF TypePoints
  <2> QED BY <2>1, OnlyTypesAreSpeculatedOn
<1>11. /\ BufferInv' /\ [BufferNext]_bufferVars /\ Len(markers') = Len(markers)
       /\ BufferInv
  <2>1. 0 \in 0..3
    OBVIOUS
  <2> QED BY <1>1, <2>1, EatStep DEF ParserInv
<1>12. ~IsSpeculating' /\ Len(markers') <= 1
  <2>1. (IsSpeculating <=> Len(markers) > 0)'
    BY <1>11, MarkerFacts, PTL
  <2> QED BY <2>1, <1>10, <1>11, MarkerFacts DEF ParserInv, SpeculationIsHeld
<1>13. Here'.at = "stmt"
  BY <1>5 DEF Here
<1>14. status' = "running" /\ guess' = guess
  OBVIOUS
<1>15. SpeculationIsHeld'
  <2>1. guess' = [from |-> guess'.from, upto |-> guess'.upto]
    BY <1>14 DEF ParserInv, SpeculationIsHeld
  <2>2. \A k \in 1..Len(calls') : calls'[k].at # "speculated"
    BY <1>7 DEF Held
  <2> QED BY <2>1, <2>2, <1>12, <1>13 DEF SpeculationIsHeld
<1>16. VarIsConsumed' /\ WholeSourceIsRead'
  BY <1>13, <1>14 DEF VarIsConsumed, WholeSourceIsRead
<1>17. NothingIsHeld'
  BY <1>7 DEF NothingIsHeld
<1> QED BY <1>9, <1>11, <1>15, <1>16, <1>17 DEF ParserInv

\* What one look shows is what consuming it leaves behind.
LEMMA SeesOne ==
  ASSUME BufferInv, NEW A, Sees(<<A>>), END \notin A
  PROVE  /\ input[Consumed + Top + 1] \in A /\ Consumed + Top + 1 < Len(input)
         /\ tokens[Top + 1] # END
<1>1. 1 \in DOMAIN <<A>> /\ <<A>>[1] = A
  OBVIOUS
<1>2. IsKnown(0) /\ La(0) \in A
  <2>1. IsKnown(1 - 1) /\ La(1 - 1) \in <<A>>[1]
    BY <1>1 DEF Sees
  <2>2. 1 - 1 = 0
    OBVIOUS
  <2> QED BY <1>1, <2>1, <2>2
<1>3. La(0) # END
  BY <1>2
<1>4. /\ La(0) = input[AtMostEnd(Consumed + Top + 1 + 0)]
      /\ La(0) = tokens[Top + 0 + 1]
      /\ Consumed + Top + 1 + 0 < Len(input)
  <2>1. 0 \in Nat
    OBVIOUS
  <2> QED BY <1>2, <1>3, <2>1, LaIsInput
<1>5. /\ Consumed + Top + 1 + 0 = Consumed + Top + 1 /\ Top + 0 + 1 = Top + 1
      /\ AtMostEnd(Consumed + Top + 1) = Consumed + Top + 1
  <2>1. Consumed \in Nat /\ Top \in Nat /\ Len(input) \in Nat
    BY Basics, TopIsNat
  <2>2. Consumed + Top + 1 + 0 = Consumed + Top + 1 /\ Top + 0 + 1 = Top + 1
    BY <2>1
  <2> QED BY <2>1, <2>2, <1>4 DEF AtMostEnd
<1> QED BY <1>2, <1>3, <1>4, <1>5

LEMMA TakeVar ==
  ASSUME ParserInv, status = "running", VarRule.at = Here.at, Sees(VarRule.look),
         Eat(VarRule.eat), calls' = Callers \o Frames(VarRule.to), UNCHANGED <<status, guess>>
  PROVE  ParserInv' /\ [BufferNext]_bufferVars /\ NothingIsHeld'
<1> DEFINE to == <<[at |-> "var", how |-> Same]>>
<1>1. Here.at = "stmt" /\ Sees(<<{"var"}>>) /\ Eat(1) /\ calls' = Callers \o Frames(to)
  BY DEF VarRule, On, Go, Become
<1>2. IsSeq(to) /\ Len(to) = 1 /\ to[1] = [at |-> "var", how |-> Same]
  BY OneElement
<1>3. /\ Here.at \notin Reserved /\ Here.at \notin TypePoints /\ Here.at # "speculated"
      /\ "var" \notin Held \cup {"unit"} /\ "var" \notin ExprPoints
  BY <1>1 DEF Reserved, TypePoints, Held, ExprPoints
<1> HIDE DEF to
<1>4. \A i \in 1..Len(to) : i = 1
  BY <1>2
<1>5. IsFrame(to[1]) /\ to[1].at = "var" /\ to[1].how = Same
  BY <1>2 DEF IsFrame
<1>6. /\ Nested' /\ NothingIsHeld' /\ \A k \in 1..Len(calls') : calls'[k].at # "speculated"
      /\ Len(to) > 0 => Here'.at = to[Len(to)].at
  <2>1. \A i \in 1..Len(to) : /\ IsFrame(to[i]) /\ to[i].at \notin Held \cup {"unit"}
                              /\ to[i].at \in Innermost => i = Len(to)
    BY <1>2, <1>3, <1>4, <1>5
  <2>2. Here.at \notin ExprPoints /\ Len(to) > 0 => to[1].at \notin ExprPoints /\ to[1].how = Same
    BY <1>3, <1>5
  <2>3. Nested /\ IsSeq(to)
    BY <1>2 DEF ParserInv
  <2> QED BY <1>1, <1>3, <2>1, <2>2, <2>3, NestedAfter
<1>7. Here'.at = "var"
  BY <1>2, <1>5, <1>6
<1>8. ~IsSpeculating /\ Top = 0 /\ Len(markers) <= 1 /\ ~ (Len(markers) > 0)
  BY <1>3, OnlyTypesAreSpeculatedOn, MarkerFacts DEF ParserInv, SpeculationIsHeld
<1>9. /\ input[Consumed + Top + 1] \in {"var"} /\ Consumed + Top + 1 < Len(input)
      /\ tokens[Top + 1] # END
  <2>1. END \notin {"var"}
    BY TokensAssumption DEF ParserTokens
  <2> QED BY <1>1, <2>1, SeesOne DEF ParserInv
<1>10. /\ BufferInv' /\ [BufferNext]_bufferVars /\ Len(markers') = Len(markers) /\ input' = input
       /\ Consumed' + Top' = Consumed + Top + 1
  <2>1. 1 \in 0..3
    OBVIOUS
  <2> QED BY <1>1, <1>9, <2>1, EatStep DEF ParserInv
<1>11. ~IsSpeculating' /\ Top' = 0
  <2>1. ((IsSpeculating <=> Len(markers) > 0) /\ (~IsSpeculating => Top = 0))'
    BY <1>10, MarkerFacts, PTL
  <2> QED BY <2>1, <1>8, <1>10
<1>12. Consumed' >= 1 /\ input'[Consumed'] = "var"
  <2>1. Consumed \in Nat /\ Consumed' \in Nat
    <3>1. Consumed \in Nat
      BY Basics DEF ParserInv
    <3>2. (Consumed \in Nat)'
      BY <1>10, Basics, PTL
    <3> QED BY <3>1, <3>2
  <2>2. Consumed' = Consumed + 1 /\ Consumed + Top + 1 = Consumed + 1
    <3>1. Top = 0 /\ Top' = 0 /\ Consumed' + Top' = Consumed + Top + 1
      BY <1>8, <1>10, <1>11
    <3>2. \A c, d \in Nat : d + 0 = c + 0 + 1 => d = c + 1 /\ c + 0 + 1 = c + 1
      OBVIOUS
    <3>3. Consumed' + 0 = Consumed + 0 + 1
      BY <3>1
    <3> QED BY <2>1, <3>1, <3>2, <3>3
  <2> QED BY <2>1, <2>2, <1>9, <1>10
<1>13. status' = "running" /\ guess' = guess
  OBVIOUS
<1>14. SpeculationIsHeld'
  <2>1. guess' = [from |-> guess'.from, upto |-> guess'.upto]
    BY <1>13 DEF ParserInv, SpeculationIsHeld
  <2>2. Len(markers') <= 1
    BY <1>8, <1>10
  <2> QED BY <2>1, <2>2, <1>6, <1>7, <1>11 DEF SpeculationIsHeld
<1>15. VarIsConsumed' /\ WholeSourceIsRead'
  BY <1>12, <1>13 DEF VarIsConsumed, WholeSourceIsRead
<1> QED BY <1>6, <1>10, <1>14, <1>15 DEF ParserInv


LEMMA TypePointFacts ==
  \A p \in TypePoints : p \notin ExprPoints /\ p \notin Held /\ p \notin Innermost /\ p # "unit"
                        /\ p # "speculated" /\ p # "var" /\ p # "no type"
BY DEF TypePoints, ExprPoints, Held, Innermost

\* The activations of a type specifier are replaced by such, called in the same way.
LEMMA TypesAfter ==
  ASSUME Nested, Here.at \in TypePoints, NEW to, AreTypeFrames(to), calls' = Callers \o Frames(to)
  PROVE  /\ Nested'
         /\ IsSeq(calls') /\ Len(calls') = Len(calls) - 1 + Len(to)
         /\ \A k \in 1..(Len(calls) - 1) : calls'[k] = calls[k]
         /\ \A i \in 1..Len(to) :
              calls'[Len(calls) - 1 + i] = [at |-> to[i].at, how |-> Here.how]
         /\ \A k \in 1..Len(calls') : k >= Len(calls) => calls'[k].at \in TypePoints
         /\ Here'.at \notin Innermost
<1> DEFINE n == Len(to)
           L == Len(calls)
<1>1. L \in Nat /\ n \in Nat /\ Here = calls[L] /\ L >= 1 /\ L # 1
  BY HereFacts, LenFacts, TypePointFacts DEF AreTypeFrames
<1>2. L >= 2
  <2> HIDE DEF L
  <2> QED BY <1>1
<1>3. /\ IsSeq(calls') /\ Len(calls') = L - 1 + n
      /\ \A k \in 1..(L - 1) : calls'[k] = calls[k]
      /\ \A i \in 1..n :
           calls'[L - 1 + i] =
             [at |-> to[i].at, how |-> IF to[i].how = Same THEN Here.how ELSE to[i].how]
  <2>1. /\ IsSeq(calls) /\ Len(calls) > 0 /\ IsSeq(to)
        /\ \A i \in 1..Len(to) : IsFrame(to[i])
    BY DEF Nested, AreTypeFrames
  <2> QED BY <2>1, CallsAfter
<1>4. \A i \in 1..n : calls'[L - 1 + i] = [at |-> to[i].at, how |-> Here.how] /\ to[i].at \in TypePoints
  BY <1>3 DEF AreTypeFrames
<1>5. \A i \in 1..n : /\ IsFrame(calls'[L - 1 + i]) /\ calls'[L - 1 + i].at \in TypePoints
                      /\ calls'[L - 1 + i].how = Here.how
  <2> SUFFICES ASSUME NEW i \in 1..n
               PROVE  /\ IsFrame(calls'[L - 1 + i]) /\ calls'[L - 1 + i].at \in TypePoints
                      /\ calls'[L - 1 + i].how = Here.how
    OBVIOUS
  <2> DEFINE f == calls'[L - 1 + i]
  <2>1. f = [at |-> to[i].at, how |-> Here.how] /\ to[i].at \in TypePoints
    BY <1>4
  <2> HIDE DEF f
  <2>2. IsFrame(f) /\ f.at \in TypePoints /\ f.how = Here.how
    BY <2>1 DEF IsFrame
  <2> QED BY <2>2 DEF f
<1> HIDE DEF n, L
<1>6. \A k \in 1..(L - 1 + n) : k \notin 1..(L - 1) => k - (L - 1) \in 1..n /\ k = L - 1 + (k - (L - 1))
  BY <1>1
<1>7. ASSUME NEW k \in 1..Len(calls'), k \notin 1..(L - 1)
      PROVE  IsFrame(calls'[k]) /\ calls'[k].at \in TypePoints /\ calls'[k].how = Here.how /\ k >= L
  <2>1. k - (L - 1) \in 1..n /\ k = L - 1 + (k - (L - 1)) /\ k >= L
    BY <1>1, <1>3, <1>6, <1>7
  <2> QED BY <2>1, <1>5
<1>8. ASSUME NEW k \in 1..(L - 1)
      PROVE  k \in 1..L /\ k # L /\ k < L
  BY <1>1
<1>9. ASSUME NEW k \in 1..Len(calls')
      PROVE  /\ IsFrame(calls'[k]) /\ (calls'[k].at = "unit" <=> k = 1)
             /\ calls'[k].at \notin Innermost
             /\ k >= L => calls'[k].at \in TypePoints
  <2>1. CASE k \in 1..(L - 1)
    <3>1. calls'[k] = calls[k] /\ k \in 1..L /\ k # L /\ k < L
      BY <2>1, <1>3, <1>8
    <3>2. /\ IsFrame(calls[k]) /\ (calls[k].at = "unit" <=> k = 1)
          /\ calls[k].at \notin Innermost
      BY <3>1 DEF Nested, L
    <3> QED BY <3>1, <3>2, <1>1
  <2>2. CASE k \notin 1..(L - 1)
    <3>1. IsFrame(calls'[k]) /\ calls'[k].at \in TypePoints /\ k >= L
      BY <2>2, <1>7
    <3>2. k # 1
      BY <3>1, <1>1, <1>2
    <3> QED BY <3>1, <3>2, TypePointFacts
  <2> QED BY <2>1, <2>2
<1>10. ASSUME NEW k \in 1..Len(calls'), calls'[k].at \in Held,
              NEW i \in 1..Len(calls'), i > k
       PROVE  calls'[i].at \in TypePoints /\ calls'[i].how = "type"
  <2>1. k \in 1..(L - 1)
    BY <1>7, <1>10, TypePointFacts
  <2>2. calls[k].at \in Held /\ k \in 1..L /\ k < L /\ L \in 1..L
    BY <2>1, <1>1, <1>2, <1>3, <1>8, <1>10
  <2>3. \A j \in 1..L : j > k => calls[j].at \in TypePoints /\ calls[j].how = "type"
    BY <2>2 DEF Nested, L
  <2>4. Here.how = "type"
    BY <2>2, <2>3, <1>1
  <2>5. CASE i \in 1..(L - 1)
    BY <2>3, <2>5, <1>3, <1>8, <1>10
  <2>6. CASE i \notin 1..(L - 1)
    BY <2>4, <2>6, <1>7
  <2> QED BY <2>5, <2>6
<1>11. Len(calls') > 1 => calls'[2].at \notin ExprPoints /\ calls'[2].how = "top"
  <2>1. CASE L > 2
    <3>1. 2 \in 1..(L - 1)
      BY <2>1, <1>1
    <3> QED BY <2>1, <3>1, <1>3 DEF Nested, L
  <2>2. CASE ~ (L > 2)
    <3>1. L = 2
      BY <2>2, <1>1, <1>2
    <3>2. Here.how = "top"
      BY <3>1, <1>1 DEF Nested, L
    <3>3. Len(calls') > 1 => 2 \in 1..Len(calls') /\ 2 \notin 1..(L - 1)
      BY <3>1, <1>1, <1>3
    <3> QED BY <3>2, <3>3, <1>7, TypePointFacts
  <2> QED BY <2>1, <2>2
<1>12. Len(calls') > 0 /\ Len(calls') \in 1..Len(calls')
  BY <1>1, <1>2, <1>3
<1>13. Nested'
  BY <1>3, <1>9, <1>10, <1>11, <1>12 DEF Nested
<1>14. Here'.at \notin Innermost
  BY <1>9, <1>12 DEF Here
<1> QED BY <1>3, <1>4, <1>9, <1>13, <1>14 DEF n, L

LEMMA TakeType ==
  ASSUME ParserInv, status = "running", NEW r, r.at = Here.at, IsTypeRule(r),
         Eat(r.eat), calls' = Callers \o Frames(r.to), UNCHANGED <<status, guess>>
  PROVE  ParserInv' /\ [BufferNext]_bufferVars
<1>1. r.eat \in 0..3 /\ Here.at \in TypePoints /\ AreTypeFrames(r.to)
  BY DEF IsTypeRule, IsTypeLook
<1>2. /\ BufferInv' /\ [BufferNext]_bufferVars /\ Len(markers') = Len(markers)
      /\ IsSpeculating => Consumed' = Consumed
      /\ BufferInv
  BY <1>1, EatStep DEF ParserInv
<1>3. IsSpeculating' <=> IsSpeculating
  <2>1. (IsSpeculating <=> Len(markers) > 0)'
    BY <1>2, MarkerFacts, PTL
  <2> QED BY <2>1, <1>2, MarkerFacts
<1>4. /\ Nested' /\ Len(calls') = Len(calls) - 1 + Len(r.to)
      /\ \A k \in 1..(Len(calls) - 1) : calls'[k] = calls[k]
      /\ \A k \in 1..Len(calls') : k >= Len(calls) => calls'[k].at \in TypePoints
      /\ Here'.at \notin Innermost
  BY <1>1, TypesAfter DEF ParserInv
<1>5. /\ Len(calls) \in Nat /\ Len(calls) >= 1 /\ Here = calls[Len(calls)]
      /\ Len(calls') \in Nat /\ Len(calls') >= Len(calls) - 1
  BY <1>1, <1>4, HereFacts, LenFacts DEF ParserInv, AreTypeFrames
<1>6. (\E k \in 1..Len(calls) : calls[k].at = "speculated")
        <=> \E k \in 1..Len(calls') : calls'[k].at = "speculated"
  <2>1. ASSUME NEW k \in 1..Len(calls), calls[k].at = "speculated"
        PROVE  k \in 1..Len(calls') /\ calls'[k].at = "speculated"
    <3>1. k # Len(calls)
      BY <2>1, <1>1, <1>5, TypePointFacts
    <3>2. k \in 1..(Len(calls) - 1) /\ k \in 1..Len(calls')
      BY <3>1, <1>5
    <3> QED BY <3>2, <2>1, <1>4
  <2>2. ASSUME NEW k \in 1..Len(calls'), calls'[k].at = "speculated"
        PROVE  k \in 1..Len(calls) /\ calls[k].at = "speculated"
    <3>1. ~ (k >= Len(calls))
      BY <2>2, <1>4, TypePointFacts
    <3>2. k \in 1..(Len(calls) - 1) /\ k \in 1..Len(calls)
      BY <3>1, <1>5
    <3> QED BY <3>2, <2>2, <1>4
  <2> QED BY <2>1, <2>2
<1>7. Here'.at # "var" /\ Here'.at # "no type"
  BY <1>4 DEF Innermost
<1>8. status' = "running" /\ guess' = guess
  OBVIOUS
<1>9. SpeculationIsHeld'
  <2>1. guess' = [from |-> guess'.from, upto |-> guess'.upto]
    BY <1>8 DEF ParserInv, SpeculationIsHeld
  <2>2. Len(markers') <= 1
    BY <1>2 DEF ParserInv, SpeculationIsHeld
  <2>3. IsSpeculating' <=> \E k \in 1..Len(calls') : calls'[k].at = "speculated"
    BY <1>3, <1>6 DEF ParserInv, SpeculationIsHeld
  <2>4. IsSpeculating' => Consumed' = guess'.from
    BY <1>2, <1>3, <1>8 DEF ParserInv, SpeculationIsHeld
  <2> QED BY <2>1, <2>2, <2>3, <2>4, <1>7 DEF SpeculationIsHeld
<1>10. VarIsConsumed' /\ WholeSourceIsRead'
  BY <1>7, <1>8 DEF VarIsConsumed, WholeSourceIsRead
<1> QED BY <1>2, <1>4, <1>9, <1>10 DEF ParserInv


LEMMA TakeStep ==
  ASSUME ParserInv, NEW rules, rules \subseteq Rules, Take(rules)
  PROVE  /\ ParserInv' /\ [BufferNext]_bufferVars
         /\ \/ NothingIsHeld'
            \/ \E r \in TypeSpec :
                 /\ r.at = Here.at /\ Here.how \in r.how /\ Sees(r.look) /\ Eat(r.eat)
                 /\ calls' = Callers \o Frames(r.to)
<1>1. PICK r \in rules : /\ r.at = Here.at /\ Here.how \in r.how
                         /\ Sees(r.look) /\ Eat(r.eat)
                         /\ calls' = Callers \o Frames(r.to)
  BY DEF Take
<1>2. status = "running" /\ UNCHANGED <<status, guess>>
  BY DEF Take, IsOver
<1>3. r \in TypeSpec \/ r = VarRule \/ r = UnitRule \/ IsPlain(r)
  BY OtherRules
<1>4. CASE r \in TypeSpec
  BY <1>1, <1>2, <1>4, TypeRules, TakeType
<1>5. CASE r = VarRule
  BY <1>1, <1>2, <1>5, TakeVar
<1>6. CASE r = UnitRule
  BY <1>1, <1>2, <1>6, TakeUnit
<1>7. CASE IsPlain(r)
  BY <1>1, <1>2, <1>7, TakePlain
<1> QED BY <1>3, <1>4, <1>5, <1>6, <1>7

\* The activations are what they were.
LEMMA CallsAreKept ==
  ASSUME ParserInv, BufferInv', UNCHANGED <<calls, guess, markers, input>>, Consumed' = Consumed,
         status' = status \/ status' # "done"
  PROVE  ParserInv'
<1>1. calls' = calls /\ guess' = guess /\ markers' = markers /\ input' = input
  OBVIOUS
<1>2. Nested'
  BY <1>1 DEF ParserInv, Nested
<1>3. Here' = Here /\ IsSpeculating' = IsSpeculating
  BY <1>1 DEF Here, IsSpeculating
<1>4. SpeculationIsHeld'
  BY <1>1, <1>3 DEF ParserInv, SpeculationIsHeld
<1>5. VarIsConsumed'
  BY <1>1, <1>3 DEF ParserInv, VarIsConsumed
<1>6. WholeSourceIsRead'
  BY <1>1 DEF ParserInv, WholeSourceIsRead, StopsBehindEmptyVar
<1> QED BY <1>2, <1>4, <1>5, <1>6 DEF ParserInv

LEMMA LookAheadStep ==
  ASSUME ParserInv, LookAhead
  PROVE  ParserInv' /\ [BufferNext]_bufferVars
<1>1. PICK n \in 0..MaxLook : Look(n)
  BY DEF LookAhead
<1>2. n \in Nat
  BY BoundsAssumption
<1>3. BufferInv' /\ Consumed' = Consumed
  BY <1>1, <1>2, LookStep DEF ParserInv
<1>4. UNCHANGED <<calls, guess, status, markers, input>>
  BY <1>1 DEF LookAhead, Look
<1>5. BufferNext
  BY <1>1 DEF BufferNext
<1> QED BY <1>3, <1>4, <1>5, CallsAreKept

LEMMA FailsStep ==
  ASSUME ParserInv, Fails
  PROVE  ParserInv' /\ [BufferNext]_bufferVars
<1>1. /\ UNCHANGED <<calls, guess, markers, input>> /\ UNCHANGED bufferVars
      /\ status' # "done"
  BY DEF Fails, bufferVars
<1>2. Eat(0)
  BY <1>1 DEF Eat
<1>3. 0 \in 0..3
  OBVIOUS
<1>4. BufferInv' /\ [BufferNext]_bufferVars
  BY <1>2, <1>3, EatStep DEF ParserInv
<1>5. Consumed' = Consumed
  BY <1>1 DEF bufferVars, Consumed
<1> QED BY <1>1, <1>4, <1>5, CallsAreKept

LEMMA PopIsAfterNothing == ASSUME Nested PROVE Callers = Callers \o Frames(<<>>)
<1>1. Frames(<<>>) = <<>>
  BY DEF Frames
<1>2. Len(calls) \in Nat /\ Len(calls) >= 1 /\ IsSeq(calls)
  BY HereFacts DEF Nested
<1> DEFINE n == Len(calls) - 1
<1>3. n \in 0..Len(calls)
  BY <1>2
<1>4. IsSeq(Callers)
  <2> HIDE DEF n
  <2>1. IsSeq(SubSeq(calls, 1, n))
    BY <1>2, <1>3, PrefixFacts
  <2> QED BY <2>1 DEF Callers, n
<1>5. PICK S : Callers \in Seq(S)
  BY <1>4 DEF IsSeq
<1> QED BY <1>1, <1>5, ConcatEmptySeq

\* At the end of the source, and behind a `var` that the terminator follows.
LEMMA ReturnNothingStep ==
  ASSUME ParserInv, ReturnNothing
  PROVE  ParserInv' /\ [BufferNext]_bufferVars /\ NothingIsHeld'
<1> DEFINE n == IF Here.at = "var" /\ Here.how \in Term THEN 1 ELSE 0
<1>1. /\ status = "running" /\ HasNoStmt /\ Eat(n) /\ calls' = Callers /\ guess' = guess
      /\ status' = "done" => calls[Len(calls) - 1].at = "unit"
  BY DEF ReturnNothing, IsOver
<1>2. Here.at = "stmt" \/ Here.at = "var"
  BY <1>1 DEF HasNoStmt
<1>3. /\ Here.at \notin Reserved /\ Here.at \notin TypePoints /\ Here.at # "speculated"
      /\ Here.at \notin Held
  BY <1>2 DEF Reserved, TypePoints, Held
<1>4. ~IsSpeculating /\ Top = 0 /\ Len(markers) <= 1 /\ ~ (Len(markers) > 0)
  BY <1>3, OnlyTypesAreSpeculatedOn, MarkerFacts DEF ParserInv, SpeculationIsHeld
<1>5. /\ Nested' /\ NothingIsHeld' /\ \A k \in 1..Len(calls') : calls'[k].at # "speculated"
      /\ Here'.at \notin Innermost
  <2> DEFINE to == <<>>
  <2>1. IsSeq(to) /\ Len(to) = 0
    BY EmptyIsSeq
  <2>2. Nested /\ calls' = Callers \o Frames(to)
    BY <1>1, PopIsAfterNothing DEF ParserInv
  <2> HIDE DEF to
  <2>3. /\ \A i \in 1..Len(to) : FALSE
        /\ ~ (Len(to) > 0)
    BY <2>1
  <2> QED BY <2>1, <2>2, <2>3, <1>3, NestedAfter
<1>6. n = 0 \/ n = 1
  OBVIOUS
<1>7. n \in 0..3
  BY <1>6
<1> HIDE DEF n
<1>8. /\ BufferInv' /\ [BufferNext]_bufferVars /\ Len(markers') = Len(markers) /\ input' = input
      /\ (n = 0 \/ tokens[Top + n] # END) => Consumed' + Top' = Consumed + Top + n
  BY <1>1, <1>7, EatStep DEF ParserInv
<1>9. ~IsSpeculating' /\ Top' = 0
  <2>1. ((IsSpeculating <=> Len(markers) > 0) /\ (~IsSpeculating => Top = 0))'
    BY <1>8, MarkerFacts, PTL
  <2> QED BY <2>1, <1>4, <1>8
<1>10. Here'.at # "var" /\ Here'.at # "no type"
  BY <1>5 DEF Innermost
<1>11. SpeculationIsHeld'
  <2>1. guess' = [from |-> guess'.from, upto |-> guess'.upto]
    BY <1>1 DEF ParserInv, SpeculationIsHeld
  <2>2. Len(markers') <= 1
    BY <1>4, <1>8
  <2> QED BY <2>1, <2>2, <1>5, <1>9, <1>10 DEF SpeculationIsHeld
<1>12. Consumed \in Nat /\ Consumed' \in Nat /\ Len(input) \in Nat /\ Consumed < Len(input)
  <2>1. Consumed \in Nat /\ Len(input) \in Nat /\ Consumed < Len(input)
    BY Basics DEF ParserInv
  <2>2. (Consumed \in Nat)'
    BY <1>8, Basics, PTL
  <2> QED BY <2>1, <2>2
<1>13. ASSUME status' = "done"
       PROVE  Consumed' = Len(input) - 1 \/ (Consumed' > 1 /\ input[Consumed' - 1] = "var" /\ input[Consumed'] \in Stop)
  <2>1. Here.how = "top"
    <3> DEFINE L == Len(calls)
    <3>1. L \in Nat /\ L >= 1 /\ L # 1 /\ Here = calls[L]
      BY <1>3, HereFacts DEF ParserInv, Reserved
    <3>2. calls[L - 1].at = "unit"
      BY <1>1, <1>13
    <3>3. L > 1 /\ L - 1 \in 1..L
      <4> HIDE DEF L
      <4> QED BY <3>1
    <3>4. L - 1 = 1
      BY <3>2, <3>3 DEF ParserInv, Nested
    <3>5. L = 2
      <4> HIDE DEF L
      <4> QED BY <3>1, <3>4
    <3> QED BY <3>1, <3>3, <3>5 DEF ParserInv, Nested
  <2>2. CASE Here.at = "stmt"
    <3>1. n = 0 /\ Sees(<<{END}>>)
      BY <2>2, <1>1 DEF n, HasNoStmt
    <3>2. IsKnown(0) /\ La(0) = END
      <4>1. 1 \in DOMAIN <<{END}>> /\ <<{END}>>[1] = {END} /\ 1 - 1 = 0
        OBVIOUS
      <4>2. IsKnown(1 - 1) /\ La(1 - 1) \in <<{END}>>[1]
        BY <3>1, <4>1 DEF Sees
      <4> QED BY <4>1, <4>2
    <3>3. input[AtMostEnd(Consumed + Top + 1 + 0)] = END
      <4>1. 0 \in Nat
        OBVIOUS
      <4> QED BY <3>2, <4>1, LaIsInput DEF ParserInv
    <3>4. Consumed + Top + 1 + 0 = Consumed + 1 /\ AtMostEnd(Consumed + 1) = Consumed + 1
      <4>1. Consumed + Top + 1 + 0 = Consumed + 1
        BY <1>4, <1>12
      <4>2. ~ (Consumed + 1 > Len(input))
        BY <1>12
      <4> QED BY <4>1, <4>2 DEF AtMostEnd
    <3>5. Consumed + 1 \in 1..Len(input)
      BY <1>12
    <3>6. Consumed + 1 = Len(input)
      BY <3>3, <3>4, <3>5, InputIsSource DEF ParserInv, BufferInv
    <3>7. Consumed' = Consumed
      <4>1. Top = 0 /\ Top' = 0 /\ Consumed' + Top' = Consumed + Top + 0
        BY <3>1, <1>4, <1>8, <1>9
      <4>2. \A c, d \in Nat : d + 0 = c + 0 + 0 => d = c
        OBVIOUS
      <4>3. Consumed' + 0 = Consumed + 0 + 0
        BY <4>1
      <4> QED BY <4>2, <4>3, <1>12
    <3> QED BY <3>6, <3>7, <1>12
  <2>3. CASE Here.at = "var"
    <3>1. n = 1 /\ Sees(<<Stop>>)
      BY <2>1, <2>3, <1>1 DEF n, HasNoStmt, Term
    <3>2. END \notin Stop
      BY TokensAssumption DEF ParserTokens, Stop
    <3>3. /\ input[Consumed + Top + 1] \in Stop /\ tokens[Top + 1] # END
      BY <3>1, <3>2, SeesOne DEF ParserInv
    <3>4. Consumed' = Consumed + 1 /\ Consumed + Top + 1 = Consumed + 1
      <4>1. Top = 0 /\ Top' = 0 /\ Consumed' + Top' = Consumed + Top + 1
        BY <3>1, <3>3, <1>4, <1>8, <1>9
      <4>2. \A c, d \in Nat : d + 0 = c + 0 + 1 => d = c + 1 /\ c + 0 + 1 = c + 1
        OBVIOUS
      <4>3. Consumed' + 0 = Consumed + 0 + 1
        BY <4>1
      <4> QED BY <4>1, <4>2, <4>3, <1>12
    <3>5. Consumed >= 1 /\ input[Consumed] = "var"
      BY <2>3 DEF ParserInv, VarIsConsumed
    <3>6. Consumed' - 1 = Consumed /\ Consumed' > 1
      BY <3>4, <3>5, <1>12
    <3> QED BY <3>3, <3>4, <3>5, <3>6
  <2> QED BY <2>2, <2>3, <1>2
<1>14. WholeSourceIsRead'
  BY <1>8, <1>13 DEF WholeSourceIsRead, StopsBehindEmptyVar
<1>15. VarIsConsumed'
  BY <1>10 DEF VarIsConsumed
<1> QED BY <1>5, <1>8, <1>11, <1>14, <1>15 DEF ParserInv


\* An activation that goes on to wait for a type specifier.
LEMMA HeldAfter ==
  ASSUME Nested, Here.at \in ExprPoints, NEW p \in Held,
         calls' = Callers \o Frames(Call("type", "type", p))
  PROVE  /\ Nested'
         /\ IsSeq(calls') /\ Len(calls') = Len(calls) + 1
         /\ \A k \in 1..(Len(calls) - 1) : calls'[k] = calls[k] /\ calls[k].at \notin Held
         /\ calls'[Len(calls)].at = p
         /\ calls'[Len(calls) + 1] = [at |-> "type", how |-> "type"]
         /\ \A k \in 1..Len(calls') : calls'[k].at \in Held => k = Len(calls)
         /\ Here'.at = "type"
<1> DEFINE to == Call("type", "type", p)
           L == Len(calls)
<1>1. /\ L \in Nat /\ L > 2 /\ Here = calls[L] /\ Here.at \notin TypePoints
      /\ \A k \in 1..(L - 1) : calls[k].at \notin Held
  <2>1. Here.at \notin TypePoints
    BY TypePointFacts
  <2> QED BY <2>1, HereFacts
<1>2. /\ IsSeq(to) /\ Len(to) = 2 /\ \A i \in 1..2 : IsFrame(to[i])
      /\ to[1] = [at |-> p, how |-> Same] /\ to[2] = [at |-> "type", how |-> "type"]
  BY CallFrames
<1> HIDE DEF to
<1>3. /\ IsSeq(calls') /\ Len(calls') = L - 1 + Len(to)
      /\ \A k \in 1..(L - 1) : calls'[k] = calls[k]
      /\ \A i \in 1..Len(to) :
           calls'[L - 1 + i] =
             [at |-> to[i].at, how |-> IF to[i].how = Same THEN Here.how ELSE to[i].how]
  <2>1. IsSeq(calls) /\ Len(calls) > 0
    BY DEF Nested
  <2>2. IsSeq(to) /\ \A i \in 1..Len(to) : IsFrame(to[i])
    BY <1>2
  <2>3. calls' = Callers \o Frames(to)
    BY DEF to
  <2> QED BY <2>1, <2>2, <2>3, CallsAfter
<1>4. /\ calls'[L] = [at |-> p, how |-> Here.how]
      /\ calls'[L + 1] = [at |-> "type", how |-> "type"]
  <2>1. 1 \in 1..Len(to) /\ 2 \in 1..Len(to) /\ L - 1 + 1 = L /\ L - 1 + 2 = L + 1
    BY <1>1, <1>2
  <2>2. "type" # Same
    BY DEF Same
  <2>3. to[1].at = p /\ to[1].how = Same /\ to[2].at = "type" /\ to[2].how = "type"
    BY <1>2
  <2>4. /\ calls'[L - 1 + 1] = [at |-> to[1].at, how |-> IF to[1].how = Same THEN Here.how ELSE to[1].how]
        /\ calls'[L - 1 + 2] = [at |-> to[2].at, how |-> IF to[2].how = Same THEN Here.how ELSE to[2].how]
    BY <1>3, <2>1
  <2>5. calls'[L] = [at |-> to[1].at, how |-> IF to[1].how = Same THEN Here.how ELSE to[1].how]
    BY <2>1, <2>4
  <2>6. calls'[L + 1] = [at |-> to[2].at, how |-> IF to[2].how = Same THEN Here.how ELSE to[2].how]
    BY <2>1, <2>4
  <2>7. calls'[L] = [at |-> p, how |-> Here.how]
    BY <2>3, <2>5
  <2>8. calls'[L + 1] = [at |-> "type", how |-> "type"]
    BY <2>2, <2>3, <2>6
  <2> QED BY <2>7, <2>8
<1> HIDE DEF L
<1>5. Len(calls') = L + 1 /\ L \in Nat /\ L > 2
  BY <1>1, <1>2, <1>3
<1>6. \A k \in 1..(L + 1) : k \in 1..(L - 1) \/ k = L \/ k = L + 1
  BY <1>5
<1>7. /\ p \notin Innermost /\ p # "unit" /\ "type" \notin Innermost /\ "type" # "unit"
      /\ "type" \notin Held /\ "type" \in TypePoints
  BY DEF Held, Innermost, TypePoints
<1>8. /\ IsFrame(calls'[L]) /\ calls'[L].at = p
      /\ IsFrame(calls'[L + 1]) /\ calls'[L + 1].at = "type" /\ calls'[L + 1].how = "type"
  <2> DEFINE f == calls'[L]
             g == calls'[L + 1]
  <2>1. f = [at |-> p, how |-> Here.how] /\ g = [at |-> "type", how |-> "type"]
    BY <1>4
  <2> HIDE DEF f, g
  <2>2. /\ IsFrame(f) /\ f.at = p
        /\ IsFrame(g) /\ g.at = "type" /\ g.how = "type"
    BY <2>1 DEF IsFrame
  <2> QED BY <2>2 DEF f, g
<1>9. ASSUME NEW k \in 1..(L - 1)
      PROVE  /\ IsFrame(calls'[k]) /\ (calls'[k].at = "unit" <=> k = 1)
             /\ calls'[k].at \notin Innermost /\ calls'[k].at \notin Held
  <2>1. calls'[k] = calls[k] /\ calls[k].at \notin Held /\ k \in 1..L /\ k # L
    BY <1>1, <1>3
  <2> QED BY <2>1 DEF Nested, L
<1>10. ASSUME NEW k \in 1..Len(calls')
       PROVE  /\ IsFrame(calls'[k]) /\ (calls'[k].at = "unit" <=> k = 1)
              /\ calls'[k].at \notin Innermost
              /\ calls'[k].at \in Held => k = L
  <2>1. L # 1 /\ L + 1 # 1
    BY <1>5
  <2> QED BY <2>1, <1>5, <1>6, <1>7, <1>8, <1>9
<1>11. ASSUME NEW k \in 1..Len(calls'), calls'[k].at \in Held,
              NEW i \in 1..Len(calls'), i > k
       PROVE  calls'[i].at \in TypePoints /\ calls'[i].how = "type"
  <2>1. k = L
    BY <1>10, <1>11
  <2>2. i = L + 1
    BY <2>1, <1>5, <1>11
  <2> QED BY <2>2, <1>7, <1>8
<1>12. calls'[2].at \notin ExprPoints /\ calls'[2].how = "top"
  <2>1. 2 \in 1..(L - 1) /\ L > 1
    BY <1>5
  <2> QED BY <2>1, <1>3 DEF Nested, L
<1>13. Len(calls') > 0 /\ Len(calls') \in 1..Len(calls')
  BY <1>5
<1>14. Nested'
  BY <1>3, <1>10, <1>11, <1>12, <1>13 DEF Nested
<1>15. Here'.at = "type"
  BY <1>5, <1>8 DEF Here
<1> QED BY <1>1, <1>3, <1>4, <1>5, <1>8, <1>10, <1>14, <1>15 DEF L

LEMMA SpeculateStep ==
  ASSUME ParserInv, SpeculateTypeSpec
  PROVE  ParserInv' /\ [BufferNext]_bufferVars
<1>1. /\ Here.at = "operand" /\ Mark /\ status' = status /\ status = "running"
      /\ calls' = Callers \o Frames(Call("type", "type", "speculated"))
      /\ guess' = [from |-> Consumed, upto |-> Consumed]
  BY DEF SpeculateTypeSpec, IsOver
<1>2. /\ Here.at \in ExprPoints /\ Here.at \notin TypePoints /\ Here.at # "speculated"
      /\ "speculated" \in Held
  BY <1>1 DEF ExprPoints, Held, TypePoints
<1>3. /\ Nested' /\ Len(calls') = Len(calls) + 1 /\ calls'[Len(calls)].at = "speculated"
      /\ Here'.at = "type"
  BY <1>1, <1>2, HeldAfter DEF ParserInv
<1>4. ~ (Len(markers) > 0) /\ Len(markers) \in Nat
  <2>1. ~IsSpeculating
    BY <1>2, OnlyTypesAreSpeculatedOn
  <2> QED BY <2>1, MarkerFacts, Basics DEF ParserInv
<1>5. BufferInv' /\ Len(markers') = Len(markers) + 1 /\ Consumed' = Consumed
  BY <1>1, MarkStep DEF ParserInv
<1>6. BufferNext
  <2>1. Len(markers) < MaxDepth
    BY <1>4, TokensAssumption, BoundsAssumption
  <2> QED BY <2>1, <1>1 DEF BufferNext
<1>7. IsSpeculating' /\ Len(markers') <= 1
  <2>1. (IsSpeculating <=> Len(markers) > 0)'
    BY <1>5, MarkerFacts, PTL
  <2> QED BY <2>1, <1>4, <1>5
<1>8. \E k \in 1..Len(calls') : calls'[k].at = "speculated"
  <2>1. Len(calls) \in 1..Len(calls')
    BY <1>3, HereFacts DEF ParserInv
  <2> QED BY <2>1, <1>3
<1>9. SpeculationIsHeld'
  <2>1. guess' = [from |-> guess'.from, upto |-> guess'.upto] /\ Consumed' = guess'.from
    BY <1>1, <1>5
  <2> QED BY <2>1, <1>3, <1>7, <1>8 DEF SpeculationIsHeld
<1>10. VarIsConsumed' /\ WholeSourceIsRead'
  BY <1>1, <1>3 DEF VarIsConsumed, WholeSourceIsRead
<1> QED BY <1>3, <1>5, <1>6, <1>9, <1>10 DEF ParserInv

LEMMA SucceedStep ==
  ASSUME ParserInv, SpeculationSucceeds
  PROVE  ParserInv' /\ [BufferNext]_bufferVars
<1>1. /\ Here.at = "speculated" /\ Release /\ status' = status /\ status = "running"
      /\ calls' = Callers \o Frames(Call("type", "type", "constructed"))
      /\ guess' = [guess EXCEPT !.upto = Consumed + Top]
  BY DEF SpeculationSucceeds, IsOver
<1>2. Here.at \in ExprPoints /\ "constructed" \in Held
  BY <1>1 DEF ExprPoints, Held
<1>3. /\ Nested' /\ Len(calls') = Len(calls) + 1 /\ calls'[Len(calls)].at = "constructed"
      /\ \A k \in 1..Len(calls') : calls'[k].at \in Held => k = Len(calls)
      /\ Here'.at = "type"
  BY <1>1, <1>2, HeldAfter DEF ParserInv
<1>4. BufferInv' /\ Len(markers') = Len(markers) - 1
  BY <1>1, ReleaseStep DEF ParserInv
<1>5. ~IsSpeculating' /\ Len(markers') <= 1
  <2>1. (IsSpeculating <=> Len(markers) > 0)'
    BY <1>4, MarkerFacts, PTL
  <2>2. Len(markers) \in Nat /\ Len(markers) <= 1
    BY Basics DEF ParserInv, SpeculationIsHeld
  <2> QED BY <2>1, <2>2, <1>4
<1>6. \A k \in 1..Len(calls') : calls'[k].at # "speculated"
  <2>1. "speculated" \in Held /\ "constructed" # "speculated"
    BY DEF Held
  <2> QED BY <2>1, <1>3
<1>7. SpeculationIsHeld'
  <2>1. guess = [from |-> guess.from, upto |-> guess.upto]
    BY DEF ParserInv, SpeculationIsHeld
  <2>2. guess' = [from |-> guess'.from, upto |-> guess'.upto]
    BY <2>1, <1>1
  <2> QED BY <2>2, <1>3, <1>5, <1>6 DEF SpeculationIsHeld
<1>8. VarIsConsumed' /\ WholeSourceIsRead'
  BY <1>1, <1>3 DEF VarIsConsumed, WholeSourceIsRead
<1>9. BufferNext
  BY <1>1 DEF BufferNext
<1> QED BY <1>3, <1>4, <1>7, <1>8, <1>9 DEF ParserInv

LEMMA OtherPoint ==
  \A f, p : IsFrame(f) => IsFrame([f EXCEPT !.at = p]) /\ [f EXCEPT !.at = p].at = p
<1> TAKE f, p
<1> HAVE IsFrame(f)
<1>1. f = [at |-> f.at, how |-> f.how]
  BY DEF IsFrame
<1>2. [f EXCEPT !.at = p] = [at |-> p, how |-> f.how]
  BY <1>1
<1> DEFINE a == [f EXCEPT !.at = p]
<1>3. a = [at |-> p, how |-> f.how]
  BY <1>2
<1> HIDE DEF a
<1>4. IsFrame(a) /\ a.at = p
  BY <1>3 DEF IsFrame
<1> QED BY <1>4 DEF a

LEMMA SpeculationFailsStep ==
  ASSUME ParserInv, SpeculationFails
  PROVE  ParserInv' /\ [BufferNext]_bufferVars /\ NothingIsHeld'
<1>1. /\ Release /\ IsSpeculating /\ status' = status /\ guess' = guess /\ status = "running"
  BY DEF SpeculationFails, IsOver
<1>2. PICK k \in 1..Len(calls) :
        /\ calls[k].at = "speculated"
        /\ calls' = Append(SubSeq(calls, 1, k - 1), [calls[k] EXCEPT !.at = "no type"])
  BY DEF SpeculationFails
<1> DEFINE a == [calls[k] EXCEPT !.at = "no type"]
           n == k - 1
           s == SubSeq(calls, 1, n)
<1>3. IsFrame(a) /\ a.at = "no type"
  <2>1. IsFrame(calls[k])
    BY DEF ParserInv, Nested
  <2> QED BY <2>1, OtherPoint
<1>4. Len(calls) \in Nat /\ IsSeq(calls) /\ n \in 0..Len(calls)
  BY HereFacts DEF ParserInv, Nested
<1> HIDE DEF a, n
<1>5. IsSeq(s) /\ Len(s) = n /\ \A i \in 1..n : s[i] = calls[i]
  BY <1>4, PrefixFacts
<1> HIDE DEF s
<1>6. calls' = Append(s, a)
  BY <1>2 DEF a, s, n
<1>7. IsSeq(calls') /\ Len(calls') = n + 1 /\ calls'[n + 1] = a /\ \A i \in 1..n : calls'[i] = calls[i]
  <2>1. PICK S : s \in Seq(S)
    BY <1>5 DEF IsSeq
  <2> DEFINE T == S \cup {a}
  <2>2. S \subseteq T /\ a \in T
    OBVIOUS
  <2> HIDE DEF T
  <2>3. s \in Seq(T)
    BY <2>1, <2>2, SeqMonotonic
  <2>4. /\ Append(s, a) \in Seq(T) /\ Append(s, a) # << >> /\ Len(Append(s, a)) = Len(s) + 1
        /\ \A i \in 1..Len(s) : Append(s, a)[i] = s[i]
        /\ Append(s, a)[Len(s) + 1] = a
    BY <2>2, <2>3, AppendProperties
  <2>5. IsSeq(Append(s, a))
    BY <2>4 DEF IsSeq
  <2> QED BY <2>4, <2>5, <1>5, <1>6
<1>8. k = n + 1 /\ n \in Nat /\ n >= 2 /\ k <= Len(calls)
  <2>1. calls[k].at \in ExprPoints /\ calls[k].at # "unit"
    BY <1>2 DEF ExprPoints, Held
  <2>2. k # 1 /\ k # 2
    <3>1. k # 1
      BY <2>1 DEF ParserInv, Nested
    <3>2. Len(calls) > 1 => calls[2].at \notin ExprPoints
      BY DEF ParserInv, Nested
    <3>3. k = 2 => Len(calls) > 1
      BY <1>4
    <3> QED BY <2>1, <3>1, <3>2, <3>3
  <2> QED BY <2>2, <1>4 DEF n
<1>9. ASSUME NEW i \in 1..n
      PROVE  /\ calls'[i] = calls[i] /\ i \in 1..Len(calls)
             /\ IsFrame(calls[i]) /\ (calls[i].at = "unit" <=> i = 1)
             /\ calls[i].at \notin Innermost /\ calls[i].at \notin Held
  <2>1. calls'[i] = calls[i] /\ i \in 1..Len(calls) /\ i # Len(calls) /\ k > i
    BY <1>4, <1>7, <1>8
  <2>2. calls[k].at \notin TypePoints
    BY <1>2, TypePointFacts
  <2>3. calls[i].at \notin Held
    BY <2>1, <2>2 DEF ParserInv, Nested
  <2> QED BY <2>1, <2>3 DEF ParserInv, Nested
<1>10. /\ "no type" # "unit" /\ "no type" \notin Held /\ "no type" # "speculated" /\ "speculated" \in Held
  BY DEF Held
<1>11. ASSUME NEW i \in 1..Len(calls')
       PROVE  /\ IsFrame(calls'[i]) /\ (calls'[i].at = "unit" <=> i = 1)
              /\ calls'[i].at \in Innermost => i = Len(calls')
              /\ calls'[i].at \notin Held
  <2>1. i \in 1..n \/ i = n + 1
    BY <1>7, <1>8
  <2>2. CASE i \in 1..n
    BY <2>2, <1>9
  <2>3. CASE i = n + 1
    <3>1. i # 1 /\ i = Len(calls') /\ calls'[i] = a
      BY <2>3, <1>7, <1>8
    <3> QED BY <3>1, <1>3, <1>10
  <2> QED BY <2>1, <2>2, <2>3
<1>12. calls'[2].at \notin ExprPoints /\ calls'[2].how = "top" /\ Len(calls') > 0
  <2>1. 2 \in 1..n /\ Len(calls) > 1
    BY <1>8, <1>4
  <2> QED BY <2>1, <1>7, <1>8 DEF ParserInv, Nested
<1>13. Nested'
  BY <1>7, <1>11, <1>12 DEF Nested
<1>14. Here'.at = "no type"
  BY <1>3, <1>7 DEF Here
<1>15. BufferInv' /\ Len(markers') = Len(markers) - 1 /\ Consumed' = Consumed
  BY <1>1, ReleaseStep DEF ParserInv
<1>16. ~IsSpeculating' /\ Len(markers') <= 1
  <2>1. (IsSpeculating <=> Len(markers) > 0)'
    BY <1>15, MarkerFacts, PTL
  <2>2. Len(markers) \in Nat /\ Len(markers) <= 1
    BY Basics DEF ParserInv, SpeculationIsHeld
  <2> QED BY <2>1, <2>2, <1>15
<1>17. SpeculationIsHeld'
  <2>1. guess' = [from |-> guess'.from, upto |-> guess'.upto] /\ Consumed' = guess'.from
    BY <1>1, <1>15 DEF ParserInv, SpeculationIsHeld
  <2>2. \A i \in 1..Len(calls') : calls'[i].at # "speculated"
    BY <1>10, <1>11
  <2> QED BY <2>1, <2>2, <1>16 DEF SpeculationIsHeld
<1>18. VarIsConsumed' /\ WholeSourceIsRead'
  BY <1>1, <1>14 DEF VarIsConsumed, WholeSourceIsRead
<1>19. BufferNext
  BY <1>1 DEF BufferNext
<1>20. NothingIsHeld'
  BY <1>11 DEF NothingIsHeld
<1> QED BY <1>13, <1>15, <1>17, <1>18, <1>19, <1>20 DEF ParserInv


LEMMA ParserInit ==
  ASSUME Init
  PROVE  ParserInv
<1>1. /\ BufferInit /\ calls = <<[at |-> "unit", how |-> "top"]>> /\ status = "running"
      /\ guess = [from |-> 0, upto |-> 0]
  BY DEF Init
<1>2. BufferInv
  BY <1>1, InitStep
<1>3. /\ IsSeq(calls) /\ Len(calls) = 1 /\ calls[1] = [at |-> "unit", how |-> "top"]
  BY <1>1, OneElement
<1>4. \A k \in 1..Len(calls) : k = 1
  BY <1>3
<1>5. IsFrame(calls[1]) /\ calls[1].at = "unit"
  BY <1>3 DEF IsFrame
<1>6. /\ "unit" \notin Innermost /\ "unit" \notin Held
      /\ "unit" # "speculated" /\ "unit" # "var" /\ "unit" # "no type"
  BY DEF Innermost, Held
<1>7. Nested
  <2>1. ~ (Len(calls) > 1) /\ Len(calls) > 0
    BY <1>3
  <2> QED BY <1>3, <1>4, <1>5, <1>6, <2>1 DEF Nested
<1>8. Here.at = "unit"
  BY <1>3, <1>5 DEF Here
<1>9. ~IsSpeculating /\ Len(markers) <= 1
  BY <1>1 DEF BufferInit, IsSpeculating
<1>10. SpeculationIsHeld
  <2>1. guess = [from |-> guess.from, upto |-> guess.upto]
    BY <1>1
  <2> QED BY <2>1, <1>4, <1>5, <1>6, <1>8, <1>9 DEF SpeculationIsHeld
<1>11. VarIsConsumed /\ WholeSourceIsRead
  BY <1>1, <1>6, <1>8 DEF VarIsConsumed, WholeSourceIsRead
<1> QED BY <1>2, <1>7, <1>10, <1>11 DEF ParserInv

LEMMA Steps ==
  Next => \/ \E rules : rules \subseteq Rules /\ Take(rules)
          \/ LookAhead \/ ReturnNothing \/ Fails
          \/ SpeculateTypeSpec \/ SpeculationSucceeds \/ SpeculationFails
<1>1. \A rules \in
        {Ending, EndOfLine, EndOfList, TransUnit, Declarations, Stmt, FuncDefStmt, FuncExpr,
         ExternStmt, GotoGosubStmt, LabelStmt, CompStmt, NamespaceStmt, VarDefStmt, TypeSpec,
         IfStmt, RepeatStmt, InstOrAssignStmt, BinaryExpr, UnaryExpr, TypedOperand, PostfixExpr,
         PrimaryExpr, Elements} : rules \subseteq Rules
  BY DEF Rules
<1> QED BY <1>1 DEF Next

LEMMA ParserStep ==
  ASSUME ParserInv, [Next]_vars
  PROVE  ParserInv' /\ [BufferNext]_bufferVars
<1>1. CASE \E rules : rules \subseteq Rules /\ Take(rules)
  BY <1>1, TakeStep
<1>2. CASE LookAhead
  BY <1>2, LookAheadStep
<1>3. CASE ReturnNothing
  BY <1>3, ReturnNothingStep
<1>4. CASE Fails
  BY <1>4, FailsStep
<1>5. CASE SpeculateTypeSpec
  BY <1>5, SpeculateStep
<1>6. CASE SpeculationSucceeds
  BY <1>6, SucceedStep
<1>7. CASE SpeculationFails
  BY <1>7, SpeculationFailsStep
<1>8. CASE UNCHANGED vars
  <2>1. UNCHANGED <<calls, guess, status, markers, input>> /\ UNCHANGED bufferVars
    BY <1>8 DEF vars, bufferVars
  <2>2. Eat(0) /\ 0 \in 0..3
    BY <2>1 DEF Eat
  <2>3. BufferInv'
    BY <2>2, EatStep DEF ParserInv
  <2>4. Consumed' = Consumed
    BY <2>1 DEF bufferVars, Consumed
  <2> QED BY <2>1, <2>3, <2>4, CallsAreKept
<1> QED BY <1>1, <1>2, <1>3, <1>4, <1>5, <1>6, <1>7, <1>8, Steps

\* However deep its activations, the parser is in the state it believes to be
\* in: only a type specifier is speculated on, one at a time, and nothing else
\* is parsed meanwhile (Parser::parseTypeSpec's callers).
THEOREM ParserIsSound == Spec => []ParserInv
<1>1. Init => ParserInv
  BY ParserInit
<1>2. ParserInv /\ [Next]_vars => ParserInv'
  BY ParserStep
<1> QED BY <1>1, <1>2, PTL DEF Spec

\* The parser consumes what it has looked at and releases what it has marked:
\* its steps are the buffer's, within the bounds.
THEOREM ParserUsesTheBuffer == Spec => BufferSpec
<1>1. Init => BufferInit
  BY DEF Init
<1>2. ParserInv /\ [Next]_vars => [BufferNext]_bufferVars
  BY ParserStep
<1> QED BY <1>1, <1>2, ParserIsSound, PTL DEF Spec, BufferSpec

\* No token of the source is lost or skipped by the parser.
THEOREM ParserLosesNoToken == Spec => []NothingIsLost
BY ParserUsesTheBuffer, NoTokenIsLost

\* The parser reads the source as with a cursor that it can save and restore.
THEOREM ParserReadsTheSource == Spec => ImplementsCursor
BY ParserUsesTheBuffer, BufferImplementsCursor

\* A source is accepted only when all of it was read, or when it has stopped
\* behind a `var` without variables (Parser::parseTransUnit, parseStmt).
THEOREM AcceptedIsRead == Spec => []WholeSourceIsRead
<1>1. ParserInv => WholeSourceIsRead
  BY DEF ParserInv
<1> QED BY <1>1, ParserIsSound, PTL


-----------------------------------------------------------------------------
(***************************************************************************)
(* Parsing a type specifier is deterministic: the activations above the    *)
(* one that waits for it and the position tell what happens next.  So what *)
(* was speculated on happens again when it is parsed the second time.      *)
(***************************************************************************)

TokenOf(source, p) == source[IF p > Len(source) THEN Len(source) ELSE p]

\* The step of a type specifier from c to d: activations and tokens before the position.
TypeStep(source, c, d) ==
  /\ Len(c.frames) > 0
  /\ \E r \in TypeSpec :
       /\ r.at = c.frames[Len(c.frames)].at
       /\ "type" \in r.how
       /\ Allows(r.look, TokenOf(source, c.pos + 1), TokenOf(source, c.pos + 2))
       /\ d = [frames |-> SubSeq(c.frames, 1, Len(c.frames) - 1)
                            \o [i \in DOMAIN r.to |-> [at |-> r.to[i].at, how |-> "type"]],
               pos |-> c.pos + r.eat]

Reaches(source, c, d) ==
  \E n \in Nat : \E t :
    t[0] = c /\ t[n] = d /\ \A i \in 0..(n - 1) : TypeStep(source, t[i], t[i + 1])

LEMMA TypeMoves ==
  ASSUME NEW r \in TypeSpec, NEW at, r.at = at, NEW a, NEW b, Allows(r.look, a, b)
  PROVE  Move(at, a, b) = [eat |-> r.eat, to |-> r.to]
<1>1. IsTypeRule(r)
  BY TypeRules
<1>2. Move(r.at, a, b) = [eat |-> r.eat, to |-> r.to]
  BY <1>1 DEF IsTypeRule
<1> QED BY <1>2

LEMMA OneTypeStep ==
  ASSUME NEW source, NEW c, NEW d, NEW e, TypeStep(source, c, d), TypeStep(source, c, e)
  PROVE  d = e
<1> DEFINE a == TokenOf(source, c.pos + 1)
           b == TokenOf(source, c.pos + 2)
           at == c.frames[Len(c.frames)].at
           After(eat, to) == [frames |-> SubSeq(c.frames, 1, Len(c.frames) - 1)
                                \o [i \in DOMAIN to |-> [at |-> to[i].at, how |-> "type"]],
                              pos |-> c.pos + eat]
<1>1. PICK r \in TypeSpec : r.at = at /\ Allows(r.look, a, b) /\ d = After(r.eat, r.to)
  BY DEF TypeStep
<1>2. PICK s \in TypeSpec : s.at = at /\ Allows(s.look, a, b) /\ e = After(s.eat, s.to)
  BY DEF TypeStep
<1> HIDE DEF a, b, at, After
<1>3. Move(at, a, b) = [eat |-> r.eat, to |-> r.to]
  BY <1>1, TypeMoves
<1>4. Move(at, a, b) = [eat |-> s.eat, to |-> s.to]
  BY <1>2, TypeMoves
<1>5. r.eat = s.eat /\ r.to = s.to
  BY <1>3, <1>4
<1> QED BY <1>1, <1>2, <1>5

LEMMA ReachesItself == \A source, c : Reaches(source, c, c)
<1> TAKE source, c
<1> DEFINE t == [i \in {0} |-> c]
<1>1. t[0] = c /\ 0 \in Nat /\ \A i \in 0..(0 - 1) : FALSE
  OBVIOUS
<1> HIDE DEF t
<1> QED BY <1>1 DEF Reaches

LEMMA ReachesFurther ==
  ASSUME NEW source, NEW c, NEW d, NEW e, Reaches(source, c, d), TypeStep(source, d, e)
  PROVE  Reaches(source, c, e)
<1>1. PICK n \in Nat : \E t :
        t[0] = c /\ t[n] = d /\ \A i \in 0..(n - 1) : TypeStep(source, t[i], t[i + 1])
  BY DEF Reaches
<1>2. PICK t : t[0] = c /\ t[n] = d /\ \A i \in 0..(n - 1) : TypeStep(source, t[i], t[i + 1])
  BY <1>1
<1> DEFINE u == [i \in 0..(n + 1) |-> IF i <= n THEN t[i] ELSE e]
<1>3. /\ n + 1 \in Nat /\ u[0] = c /\ u[n] = d /\ u[n + 1] = e
      /\ \A i \in 0..n : u[i] = t[i]
  BY <1>2
<1> HIDE DEF u
<1>4. ASSUME NEW i \in 0..((n + 1) - 1)
      PROVE  TypeStep(source, u[i], u[i + 1])
  <2>1. CASE i = n
    BY <2>1, <1>3
  <2>2. CASE i # n
    <3>1. i \in 0..(n - 1) /\ i \in 0..n /\ i + 1 \in 0..n
      BY <2>2
    <3> QED BY <3>1, <1>2, <1>3
  <2> QED BY <2>1, <2>2
<1> QED BY <1>3, <1>4 DEF Reaches

LEMMA NotThere ==
  ASSUME NEW source, NEW c, NEW d, Reaches(source, c, d), Len(d.frames) = 0
  PROVE  IF Len(c.frames) = 0 THEN c = d
         ELSE \E e : TypeStep(source, c, e) /\ Reaches(source, e, d)
<1>1. PICK n \in Nat : \E t :
        t[0] = c /\ t[n] = d /\ \A i \in 0..(n - 1) : TypeStep(source, t[i], t[i + 1])
  BY DEF Reaches
<1>2. PICK t : t[0] = c /\ t[n] = d /\ \A i \in 0..(n - 1) : TypeStep(source, t[i], t[i + 1])
  BY <1>1
<1>3. CASE n = 0
  BY <1>2, <1>3
<1>4. CASE n # 0
  <2>1. 0 \in 0..(n - 1) /\ 0 + 1 = 1 /\ n - 1 \in Nat
    BY <1>4
  <2>2. TypeStep(source, c, t[1])
    BY <2>1, <1>2
  <2>3. Len(c.frames) # 0
    BY <2>2 DEF TypeStep
  <2> DEFINE u == [i \in 0..(n - 1) |-> t[i + 1]]
  <2>4. /\ u[0] = t[1] /\ u[n - 1] = d
        /\ \A i \in 0..((n - 1) - 1) : u[i] = t[i + 1] /\ u[i + 1] = t[(i + 1) + 1] /\ i + 1 \in 0..(n - 1)
    BY <2>1, <1>2
  <2> HIDE DEF u
  <2>5. \A i \in 0..((n - 1) - 1) : TypeStep(source, u[i], u[i + 1])
    BY <2>4, <1>2
  <2>6. Reaches(source, t[1], d)
    BY <2>1, <2>4, <2>5 DEF Reaches
  <2> QED BY <2>2, <2>3, <2>6
<1> QED BY <1>3, <1>4

-----------------------------------------------------------------------------
\* The activations of a type specifier, above the k-th, and the parser's position.
TypeState(k) == [frames |-> SubSeq(calls, k + 1, Len(calls)), pos |-> Consumed + Top]
TypeBegin(p) == [frames |-> <<[at |-> "type", how |-> "type"]>>, pos |-> p]
TypeEnd(p) == [frames |-> <<>>, pos |-> p]

Retraces ==
  /\ \A k \in 1..Len(calls) : calls[k].at = "speculated" =>
       Reaches(input, TypeBegin(guess.from), TypeState(k))
  /\ \A k \in 1..Len(calls) : calls[k].at = "constructed" =>
       Reaches(input, TypeState(k), TypeEnd(guess.upto))
  /\ status = "error" => ~IsReparsing

LEMMA NothingHeldRetraces == NothingIsHeld => Retraces
<1>1. "speculated" \in Held /\ "constructed" \in Held
  BY DEF Held
<1> SUFFICES ASSUME NothingIsHeld
             PROVE  Retraces
  OBVIOUS
<1>2. \A k \in 1..Len(calls) : calls[k].at # "speculated" /\ calls[k].at # "constructed"
  BY <1>1 DEF NothingIsHeld
<1>3. ~IsReparsing
  <2> SUFFICES ASSUME NEW k \in 1..(Len(calls) - 1), calls[k].at = "constructed"
               PROVE  FALSE
    BY DEF IsReparsing
  <2>1. CASE Len(calls) \in Nat
    BY <2>1, <1>2
  <2>2. CASE Len(calls) \notin Nat
    BY <2>2
  <2> QED BY <2>1, <2>2
<1> QED BY <1>2, <1>3 DEF Retraces

\* The last element of s is replaced by those of g.
Replaces(g, s, u) ==
  /\ IsSeq(s) /\ IsSeq(u) /\ IsSeq(g) /\ Len(u) = Len(s) - 1 + Len(g)
  /\ \A i \in 1..(Len(s) - 1) : u[i] = s[i]
  /\ \A i \in 1..Len(g) : u[Len(s) - 1 + i] = g[i]
ReplacesAbove(k, g, s, u) ==
  LET f == SubSeq(s, k + 1, Len(s))
  IN  /\ Len(f) > 0 /\ f[Len(f)] = s[Len(s)]
      /\ SubSeq(u, k + 1, Len(u)) = SubSeq(f, 1, Len(f) - 1) \o g
LEMMA ReplaceLast ==
  \A s, u, g, k : k \in Nat /\ k < Len(s) /\ Replaces(g, s, u) => ReplacesAbove(k, g, s, u)
<1> TAKE s, u, g, k
<1> HAVE k \in Nat /\ k < Len(s) /\ Replaces(g, s, u)
<1> USE DEF Replaces
<1> DEFINE f == SubSeq(s, k + 1, Len(s))
           p == SubSeq(f, 1, Len(f) - 1)
           v == SubSeq(u, k + 1, Len(u))
<1>1. Len(s) \in Nat /\ Len(g) \in Nat /\ k \in 0..Len(s) /\ k \in 0..Len(u)
  BY LenFacts
<1>2. IsSeq(f) /\ Len(f) = Len(s) - k /\ \A i \in 1..Len(s) - k : f[i] = s[k + i]
  BY <1>1, SuffixFacts
<1>3. IsSeq(v) /\ Len(v) = Len(u) - k /\ \A i \in 1..Len(u) - k : v[i] = u[k + i]
  BY <1>1, SuffixFacts
<1> HIDE DEF f, v
<1>4. Len(f) - 1 \in 0..Len(f)
  BY <1>1, <1>2
<1>5. IsSeq(p) /\ Len(p) = Len(f) - 1 /\ \A i \in 1..Len(f) - 1 : p[i] = f[i]
  BY <1>2, <1>4, PrefixFacts
<1> HIDE DEF p
<1>12. IsSeq(p)
  BY <1>5
<1>6. /\ IsSeq(p \o g) /\ Len(p \o g) = Len(p) + Len(g)
      /\ \A i \in 1..Len(p) : (p \o g)[i] = p[i]
      /\ \A i \in 1..Len(g) : (p \o g)[Len(p) + i] = g[i]
  BY <1>12, ConcatFacts
<1>7. Len(v) = Len(p \o g)
  BY <1>1, <1>2, <1>3, <1>5, <1>6
<1>8. ASSUME NEW i \in 1..Len(v)
      PROVE  v[i] = (p \o g)[i]
  <2>1. v[i] = u[k + i]
    BY <1>3
  <2>2. CASE i <= Len(p)
    <3>1. i \in 1..Len(p) /\ i \in 1..Len(f) - 1 /\ i \in 1..Len(s) - k /\ k + i \in 1..(Len(s) - 1)
      BY <2>2, <1>1, <1>2, <1>5
    <3>2. u[k + i] = s[k + i]
      BY <3>1
    <3>3. (p \o g)[i] = p[i] /\ p[i] = f[i] /\ f[i] = s[k + i]
      BY <3>1, <1>2, <1>5, <1>6
    <3> QED BY <2>1, <3>2, <3>3
  <2>3. CASE ~(i <= Len(p))
    <3> DEFINE j == i - Len(p)
    <3>1. j \in 1..Len(g) /\ Len(p) + j = i /\ Len(s) - 1 + j = k + i
      BY <2>3, <1>1, <1>2, <1>3, <1>5
    <3> HIDE DEF j
    <3>2. u[Len(s) - 1 + j] = g[j] /\ (p \o g)[Len(p) + j] = g[j]
      BY <3>1, <1>6
    <3> QED BY <2>1, <3>1, <3>2
  <2> QED BY <2>2, <2>3
<1>9. v = p \o g
  BY <1>3, <1>6, <1>7, <1>8, SameSeq
<1>10. Len(f) \in 1..Len(s) - k /\ k + Len(f) = Len(s)
  BY <1>1, <1>2
<1>11. f[Len(f)] = s[Len(s)] /\ Len(f) > 0
  BY <1>10, <1>2
<1> QED BY <1>9, <1>11 DEF f, p, v, ReplacesAbove

LEMMA KnownToken ==
  ASSUME BufferInv, NEW n \in Nat, IsKnown(n)
  PROVE  /\ La(n) = TokenOf(input, Consumed + Top + (n + 1))
         /\ La(n) # END => tokens[Top + (n + 1)] # END
<1>1. Consumed \in Nat /\ Top \in Nat
  BY Basics, TopIsNat
<1>2. Consumed + Top + 1 + n = Consumed + Top + (n + 1) /\ Top + n + 1 = Top + (n + 1)
  BY <1>1
<1>3. /\ La(n) = input[AtMostEnd(Consumed + Top + 1 + n)]
      /\ La(n) # END => La(n) = tokens[Top + n + 1]
  BY LaIsInput
<1>4. La(n) = input[AtMostEnd(Consumed + Top + (n + 1))]
  BY <1>2, <1>3
<1>5. La(n) # END => La(n) = tokens[Top + (n + 1)]
  BY <1>2, <1>3
<1> QED BY <1>4, <1>5 DEF TokenOf, AtMostEnd

LEMMA SeenIsAllowed ==
  ASSUME BufferInv, NEW look, NEW n, IsTypeLook(look, n), Sees(look)
  PROVE  /\ Allows(look, TokenOf(input, Consumed + Top + 1), TokenOf(input, Consumed + Top + 2))
         /\ n \in 0..3 /\ (n = 0 \/ tokens[Top + n] # END)
<1>1. Len(look) \in {1, 2} /\ DOMAIN look = 1..Len(look)
  BY DEF IsTypeLook
<1>2. \A i \in 1..Len(look) : IsKnown(i - 1) /\ La(i - 1) \in look[i]
  BY <1>1 DEF Sees
<1>3. \A i \in 1..Len(look) : i - 1 \in Nat /\ (i - 1) + 1 = i
  BY <1>1
<1>4. ASSUME NEW i \in 1..Len(look)
      PROVE  /\ La(i - 1) = TokenOf(input, Consumed + Top + i)
             /\ La(i - 1) # END => tokens[Top + i] # END
  <2>1. i - 1 \in Nat /\ (i - 1) + 1 = i /\ IsKnown(i - 1)
    BY <1>2, <1>3
  <2>2. /\ La(i - 1) = TokenOf(input, Consumed + Top + ((i - 1) + 1))
        /\ La(i - 1) # END => tokens[Top + ((i - 1) + 1)] # END
    BY <2>1, KnownToken
  <2> QED BY <2>1, <2>2
<1>5. \A i \in 1..Len(look) : TokenOf(input, Consumed + Top + i) \in look[i]
  BY <1>2, <1>4
<1>6. 1 \in 1..Len(look) /\ (Len(look) = 2 => 2 \in 1..Len(look))
  BY <1>1
<1>7. Allows(look, TokenOf(input, Consumed + Top + 1), TokenOf(input, Consumed + Top + 2))
  BY <1>5, <1>6 DEF Allows
<1>8. n = 0 \/ (n = Len(look) /\ \A i \in 1..n : END \notin look[i])
  BY DEF IsTypeLook
<1>9. CASE n # 0
  <2>1. n = Len(look) /\ n \in 1..Len(look) /\ n \in 1..n /\ n \in 0..3
    BY <1>1, <1>8, <1>9
  <2>2. END \notin look[n]
    BY <1>8, <1>9, <2>1
  <2>3. La(n - 1) # END
    BY <2>1, <2>2, <1>2
  <2> QED BY <2>1, <2>3, <1>4, <1>7
<1> QED BY <1>7, <1>9

\* Allowed tokens are seen, unless one of them is to be looked at first.
LEMMA AllowedIsSeen ==
  ASSUME BufferInv, NEW look, NEW n, IsTypeLook(look, n), ~Sees(look),
         Allows(look, TokenOf(input, Consumed + Top + 1), TokenOf(input, Consumed + Top + 2))
  PROVE  \E i \in {0, 1} : i < Len(look) /\ Sees(SubSeq(look, 1, i)) /\ ~IsKnown(i)
<1>1. Len(look) \in {1, 2} /\ DOMAIN look = 1..Len(look)
  BY DEF IsTypeLook
<1>2. IsKnown(0) => La(0) \in look[1]
  <2>1. 0 \in Nat /\ 0 + 1 = 1
    OBVIOUS
  <2>2. IsKnown(0) => La(0) = TokenOf(input, Consumed + Top + (0 + 1))
    BY <2>1, KnownToken
  <2> QED BY <2>1, <2>2 DEF Allows
<1>3. Len(look) = 2 /\ IsKnown(1) => La(1) \in look[2]
  <2>1. 1 \in Nat /\ 1 + 1 = 2
    OBVIOUS
  <2>2. IsKnown(1) => La(1) = TokenOf(input, Consumed + Top + (1 + 1))
    BY <2>1, KnownToken
  <2> QED BY <2>1, <2>2 DEF Allows
<1>4. CASE ~IsKnown(0)
  <2>1. DOMAIN SubSeq(look, 1, 0) = {}
    OBVIOUS
  <2>2. Sees(SubSeq(look, 1, 0)) /\ 0 < Len(look)
    BY <2>1, <1>1 DEF Sees
  <2> QED BY <2>2, <1>4
<1>5. CASE IsKnown(0)
  <2>1. PICK i \in 1..Len(look) : ~(IsKnown(i - 1) /\ La(i - 1) \in look[i])
    BY <1>1 DEF Sees
  <2>2. i # 1
    <3>1. 1 - 1 = 0
      OBVIOUS
    <3> QED BY <3>1, <2>1, <1>2, <1>5
  <2>3. i = 2 /\ Len(look) = 2 /\ i - 1 = 1
    BY <2>2, <1>1
  <2>4. ~IsKnown(1)
    BY <2>1, <2>3, <1>3
  <2>5. DOMAIN SubSeq(look, 1, 1) = {1} /\ SubSeq(look, 1, 1)[1] = look[1] /\ 1 - 1 = 0
    OBVIOUS
  <2>6. Sees(SubSeq(look, 1, 1))
    BY <2>5, <1>2, <1>5 DEF Sees
  <2>7. 1 < Len(look) /\ 1 \in {0, 1}
    BY <2>3
  <2> QED BY <2>4, <2>6, <2>7
<1> QED BY <1>4, <1>5

\* Above an activation that waits for a type specifier, the step is determined.
LEMMA TypeTaken ==
  ASSUME ParserInv, NEW r \in TypeSpec, r.at = Here.at, Here.how \in r.how, Sees(r.look),
         Eat(r.eat), calls' = Callers \o Frames(r.to),
         NEW k \in 1..(Len(calls) - 1), calls[k].at \in Held
  PROVE  TypeStep(input, TypeState(k), TypeState(k)')
<1>1. IsTypeRule(r)
  BY TypeRules
<1>2. /\ Here.at \in TypePoints /\ IsTypeLook(r.look, r.eat) /\ AreTypeFrames(r.to)
  BY <1>1 DEF IsTypeRule
<1>3. BufferInv /\ Nested /\ IsSeq(calls)
  BY DEF ParserInv, Nested
<1>4. Len(calls) \in Nat /\ Len(calls) >= 1 /\ Here = calls[Len(calls)]
  BY <1>3, HereFacts
<1>5. Here.how = "type"
  <2>1. k \in 1..Len(calls) /\ Len(calls) \in 1..Len(calls) /\ Len(calls) > k
    BY <1>4
  <2> QED BY <2>1, <1>3, <1>4 DEF Nested
<1> DEFINE g == [i \in DOMAIN r.to |-> [at |-> r.to[i].at, how |-> "type"]]
           f == SubSeq(calls, k + 1, Len(calls))
<1>6. IsSeq(r.to) /\ DOMAIN r.to = 1..Len(r.to) /\ Len(r.to) \in Nat
  BY <1>2, LenFacts DEF AreTypeFrames
<1>7. IsSeq(g) /\ Len(g) = Len(r.to) /\ \A i \in 1..Len(g) : g[i] = [at |-> r.to[i].at, how |-> "type"]
  <2>1. g = [i \in 1..Len(r.to) |-> [at |-> r.to[i].at, how |-> "type"]]
    BY <1>6
  <2>2. g \in Seq({g[i] : i \in 1..Len(r.to)})
    BY <2>1, <1>6
  <2>3. IsSeq(g)
    BY <2>2 DEF IsSeq
  <2> QED BY <2>1, <2>3, <1>6
<1>8. /\ IsSeq(calls') /\ Len(calls') = Len(calls) - 1 + Len(r.to)
      /\ \A i \in 1..(Len(calls) - 1) : calls'[i] = calls[i]
      /\ \A i \in 1..Len(r.to) : calls'[Len(calls) - 1 + i] = [at |-> r.to[i].at, how |-> Here.how]
  BY <1>2, <1>3, TypesAfter
<1> HIDE DEF g
<1>9. \A i \in 1..Len(g) : calls'[Len(calls) - 1 + i] = g[i]
  BY <1>5, <1>7, <1>8
<1>10. k \in Nat /\ k < Len(calls) /\ Len(calls') = Len(calls) - 1 + Len(g)
  BY <1>4, <1>7, <1>8
<1>11. /\ Len(f) > 0 /\ f[Len(f)] = Here
       /\ SubSeq(calls', k + 1, Len(calls')) = SubSeq(f, 1, Len(f) - 1) \o g
  <2> DEFINE u == calls'
  <2>1. Replaces(g, calls, u)
    BY <1>3, <1>7, <1>8, <1>9, <1>10 DEF Replaces
  <2> HIDE DEF u
  <2>4. k \in Nat /\ k < Len(calls)
    BY <1>10
  <2>5. ReplacesAbove(k, g, calls, u)
    BY <2>1, <2>4, ReplaceLast
  <2>2. /\ Len(f) > 0 /\ f[Len(f)] = calls[Len(calls)]
        /\ SubSeq(u, k + 1, Len(u)) = SubSeq(f, 1, Len(f) - 1) \o g
    BY <2>5 DEF ReplacesAbove
  <2> QED BY <2>2, <1>4 DEF u
<1>12. /\ Allows(r.look, TokenOf(input, Consumed + Top + 1), TokenOf(input, Consumed + Top + 2))
       /\ r.eat \in 0..3 /\ (r.eat = 0 \/ tokens[Top + r.eat] # END)
  BY <1>2, <1>3, SeenIsAllowed
<1>13. Consumed' + Top' = Consumed + Top + r.eat
  BY <1>3, <1>12, EatStep
<1> DEFINE c == TypeState(k)
           d == [frames |-> SubSeq(calls', k + 1, Len(calls')), pos |-> Consumed' + Top']
<1>14. c.frames = f /\ c.pos = Consumed + Top
  BY DEF TypeState
<1>15. TypeState(k)' = d
  BY DEF TypeState
<1>16. d = [frames |-> SubSeq(c.frames, 1, Len(c.frames) - 1) \o g, pos |-> c.pos + r.eat]
  BY <1>11, <1>13, <1>14
<1> HIDE DEF c, d, f
<1>17. "type" \in r.how /\ r.at = c.frames[Len(c.frames)].at /\ Len(c.frames) > 0
  BY <1>5, <1>11, <1>14
<1>18. Allows(r.look, TokenOf(input, c.pos + 1), TokenOf(input, c.pos + 2))
  BY <1>12, <1>14
<1>19. TypeStep(input, c, d)
  BY <1>16, <1>17, <1>18 DEF TypeStep, g
<1> QED BY <1>15, <1>19 DEF c

LEMMA TypeRetraces ==
  ASSUME ParserInv, Retraces, status = "running", UNCHANGED <<status, guess>>,
         NEW r \in TypeSpec, r.at = Here.at, Here.how \in r.how, Sees(r.look),
         Eat(r.eat), calls' = Callers \o Frames(r.to)
  PROVE  Retraces'
<1>1. IsTypeRule(r)
  BY TypeRules
<1>2. Here.at \in TypePoints /\ IsTypeLook(r.look, r.eat) /\ AreTypeFrames(r.to)
  BY <1>1 DEF IsTypeRule
<1>3. BufferInv /\ Nested
  BY DEF ParserInv
<1>4. r.eat \in 0..3
  BY <1>2 DEF IsTypeLook
<1>5. input' = input /\ guess' = guess /\ status' = "running"
  BY <1>3, <1>4, EatStep
<1>6. /\ Len(calls') = Len(calls) - 1 + Len(r.to)
      /\ \A k \in 1..(Len(calls) - 1) : calls'[k] = calls[k]
      /\ \A k \in 1..Len(calls') : k >= Len(calls) => calls'[k].at \in TypePoints
  BY <1>2, <1>3, TypesAfter
<1>7. Len(calls) \in Nat /\ Len(r.to) \in Nat
  BY <1>2, <1>3, HereFacts, LenFacts DEF AreTypeFrames
<1>8. ASSUME NEW k \in 1..Len(calls'), calls'[k].at \in Held
      PROVE  /\ k \in 1..Len(calls) /\ calls[k].at = calls'[k].at
             /\ TypeStep(input, TypeState(k), TypeState(k)')
  <2>1. ~(k >= Len(calls))
    BY <1>6, <1>8, TypePointFacts
  <2>2. k \in 1..(Len(calls) - 1) /\ k \in 1..Len(calls)
    BY <2>1, <1>6, <1>7
  <2>3. calls[k].at \in Held /\ calls[k].at = calls'[k].at
    BY <2>2, <1>6, <1>8
  <2> QED BY <2>2, <2>3, TypeTaken
<1>9. "speculated" \in Held /\ "constructed" \in Held
  BY DEF Held
<1>10. ASSUME NEW k \in 1..Len(calls'), calls'[k].at = "speculated"
       PROVE  Reaches(input', TypeBegin(guess'.from), TypeState(k)')
  <2>1. /\ k \in 1..Len(calls) /\ calls[k].at = "speculated"
        /\ TypeStep(input, TypeState(k), TypeState(k)')
    BY <1>8, <1>9, <1>10
  <2>2. Reaches(input, TypeBegin(guess.from), TypeState(k))
    BY <2>1 DEF Retraces
  <2>3. Reaches(input, TypeBegin(guess.from), TypeState(k)')
    BY <2>1, <2>2, ReachesFurther
  <2> QED BY <2>3, <1>5
<1>11. ASSUME NEW k \in 1..Len(calls'), calls'[k].at = "constructed"
       PROVE  Reaches(input', TypeState(k)', TypeEnd(guess'.upto))
  <2>1. /\ k \in 1..Len(calls) /\ calls[k].at = "constructed"
        /\ TypeStep(input, TypeState(k), TypeState(k)')
    BY <1>8, <1>9, <1>11
  <2>2. Reaches(input, TypeState(k), TypeEnd(guess.upto))
    BY <2>1 DEF Retraces
  <2>3. Len(TypeEnd(guess.upto).frames) = 0
    BY DEF TypeEnd
  <2>4. Len(TypeState(k).frames) # 0
    BY <2>1 DEF TypeStep
  <2>5. PICK e : TypeStep(input, TypeState(k), e) /\ Reaches(input, e, TypeEnd(guess.upto))
    BY <2>2, <2>3, <2>4, NotThere
  <2>6. e = TypeState(k)'
    BY <2>1, <2>5, OneTypeStep
  <2> QED BY <2>5, <2>6, <1>5
<1> QED BY <1>5, <1>10, <1>11 DEF Retraces, TypeBegin, TypeEnd

LEMMA KeptRetraces ==
  ASSUME Retraces, UNCHANGED <<calls, guess, input>>, Consumed' = Consumed, Top' = Top,
         status' = "error" => ~IsReparsing
  PROVE  Retraces'
<1>1. \A k : TypeState(k)' = TypeState(k)
  BY DEF TypeState
<1>2. IsReparsing' <=> IsReparsing
  BY DEF IsReparsing
<1> QED BY <1>1, <1>2 DEF Retraces, TypeBegin, TypeEnd

\* Nothing that was parsed once is an error when it is parsed again.
LEMMA ReparsingIsNotStuck ==
  ASSUME ParserInv, Retraces, IsStuck
  PROVE  ~IsReparsing
<1> SUFFICES ASSUME NEW k \in 1..(Len(calls) - 1), calls[k].at = "constructed"
             PROVE  FALSE
  BY DEF IsReparsing
<1>1. BufferInv /\ Nested /\ IsSeq(calls)
  BY DEF ParserInv, Nested
<1>2. Len(calls) \in Nat /\ Here = calls[Len(calls)] /\ k \in 1..Len(calls) /\ k \in 0..Len(calls)
      /\ k \in Nat /\ k < Len(calls)
  BY <1>1, HereFacts
<1>3. "constructed" \in Held
  BY DEF Held
<1>4. Here.how = "type"
  <2>1. Len(calls) \in 1..Len(calls) /\ Len(calls) > k
    BY <1>2
  <2> QED BY <2>1, <1>1, <1>2, <1>3 DEF Nested
<1> DEFINE c == TypeState(k)
           f == SubSeq(calls, k + 1, Len(calls))
<1>5. c.frames = f /\ c.pos = Consumed + Top
  BY DEF TypeState
<1>6. Len(f) # 0 /\ f[Len(f)] = Here
  <2>1. /\ Len(f) = Len(calls) - k
        /\ \A i \in 1..Len(calls) - k : f[i] = calls[k + i]
    BY <1>1, <1>2, SuffixFacts
  <2>3. \A l, j \in Nat : j < l => l - j \in 1..(l - j) /\ j + (l - j) = l
    OBVIOUS
  <2>2. Len(calls) - k \in 1..(Len(calls) - k) /\ k + (Len(calls) - k) = Len(calls)
    BY <2>3, <1>2
  <2> HIDE DEF f
  <2>4. f[Len(calls) - k] = calls[k + (Len(calls) - k)]
    BY <2>1, <2>2
  <2>5. f[Len(f)] = calls[Len(calls)]
    BY <2>1, <2>2, <2>4
  <2>6. Len(calls) - k # 0
    BY <1>2
  <2> QED BY <2>1, <2>5, <2>6, <1>2
<1>7. Reaches(input, c, TypeEnd(guess.upto))
  BY <1>2 DEF Retraces
<1> HIDE DEF c, f
<1>8. PICK e : TypeStep(input, c, e)
  <2>1. Len(TypeEnd(guess.upto).frames) = 0
    BY DEF TypeEnd
  <2> QED BY <2>1, <1>5, <1>6, <1>7, NotThere
<1>9. PICK r \in TypeSpec :
        /\ r.at = Here.at /\ "type" \in r.how
        /\ Allows(r.look, TokenOf(input, Consumed + Top + 1), TokenOf(input, Consumed + Top + 2))
  <2>1. PICK r \in TypeSpec :
          /\ r.at = c.frames[Len(c.frames)].at /\ "type" \in r.how
          /\ Allows(r.look, TokenOf(input, c.pos + 1), TokenOf(input, c.pos + 2))
    BY <1>8 DEF TypeStep
  <2> QED BY <2>1, <1>5, <1>6
<1>10. r \in RulesHere
  <2>1. r \in Rules /\ Here.at \in Points
    BY DEF Rules, IsStuck
  <2>2. RulesAt[Here.at] = {s \in Rules : s.at = Here.at}
    BY <2>1 DEF RulesAt
  <2> QED BY <2>1, <2>2, <1>4, <1>9 DEF RulesHere
<1>11. IsTypeLook(r.look, r.eat)
  <2>1. IsTypeRule(r)
    BY TypeRules
  <2> QED BY <2>1 DEF IsTypeRule
<1>12. ~Sees(r.look) /\ \A n \in 0..MaxLook : ~Needs(n)
  BY <1>10 DEF IsStuck
<1>13. PICK i \in {0, 1} : i < Len(r.look) /\ Sees(SubSeq(r.look, 1, i)) /\ ~IsKnown(i)
  BY <1>1, <1>9, <1>11, <1>12, AllowedIsSeen
<1>14. Needs(i)
  BY <1>10, <1>13 DEF Needs
<1>15. i \in 0..MaxLook
  BY TokensAssumption, BoundsAssumption
<1> QED BY <1>12, <1>14, <1>15

LEMMA LastOnly ==
  ASSUME NEW s, IsSeq(s), NEW n \in Nat, Len(s) = n + 1
  PROVE  SubSeq(s, n + 1, Len(s)) = <<s[n + 1]>>
<1> DEFINE t == SubSeq(s, n + 1, Len(s))
           a == s[n + 1]
<1>1. n \in 0..Len(s) /\ Len(s) - n = 1 /\ 1 \in 1..1 /\ \A i \in 1..1 : i = 1
  OBVIOUS
<1>2. IsSeq(t) /\ Len(t) = 1 /\ t[1] = a
  <2>1. IsSeq(t) /\ Len(t) = Len(s) - n /\ \A i \in 1..Len(s) - n : t[i] = s[n + i]
    BY <1>1, SuffixFacts
  <2> QED BY <1>1, <2>1
<1>3. IsSeq(<<a>>) /\ Len(<<a>>) = 1 /\ <<a>>[1] = a
  BY OneElement
<1> HIDE DEF t, a
<1>4. t = <<a>>
  BY <1>1, <1>2, <1>3, SameSeq
<1> QED BY <1>4 DEF t, a

LEMMA NoneAbove ==
  ASSUME NEW s, IsSeq(s)
  PROVE  SubSeq(s, Len(s) + 1, Len(s)) = <<>>
<1>1. Len(s) \in Nat /\ Len(s) \in 0..Len(s) /\ Len(s) - Len(s) = 0
  BY LenFacts
<1> DEFINE t == SubSeq(s, Len(s) + 1, Len(s))
<1>2. IsSeq(t) /\ Len(t) = Len(s) - Len(s)
  BY <1>1, SuffixFacts
<1> HIDE DEF t
<1>3. t = <<>>
  BY <1>1, <1>2, LenFacts
<1> QED BY <1>3 DEF t

LEMMA SpeculateRetraces ==
  ASSUME ParserInv, Retraces, SpeculateTypeSpec
  PROVE  Retraces'
<1>1. /\ Here.at = "operand" /\ Mark /\ status' = status /\ status = "running"
      /\ calls' = Callers \o Frames(Call("type", "type", "speculated"))
      /\ guess' = [from |-> Consumed, upto |-> Consumed] /\ input' = input
  BY DEF SpeculateTypeSpec, IsOver, Mark
<1>2. /\ Here.at \in ExprPoints /\ Here.at \notin TypePoints /\ Here.at # "speculated"
      /\ "speculated" \in Held /\ "constructed" \in Held /\ "constructed" # "speculated"
  BY <1>1 DEF ExprPoints, Held, TypePoints
<1>3. /\ IsSeq(calls') /\ Len(calls') = Len(calls) + 1
      /\ calls'[Len(calls)].at = "speculated"
      /\ calls'[Len(calls) + 1] = [at |-> "type", how |-> "type"]
      /\ \A k \in 1..Len(calls') : calls'[k].at \in Held => k = Len(calls)
  BY <1>1, <1>2, HeldAfter DEF ParserInv
<1>4. Top = 0
  <2>1. ~IsSpeculating
    BY <1>2, OnlyTypesAreSpeculatedOn
  <2> QED BY <2>1, MarkerFacts DEF ParserInv
<1>5. Consumed' = Consumed /\ Top' = Top /\ Consumed \in Nat
  BY <1>1, MarkStep, Basics DEF ParserInv
<1>6. Len(calls) \in Nat
  BY HereFacts DEF ParserInv
<1>7. SubSeq(calls', Len(calls) + 1, Len(calls')) = <<[at |-> "type", how |-> "type"]>>
  <2> DEFINE s == calls'
             n == Len(calls)
             a == [at |-> "type", how |-> "type"]
  <2>1. IsSeq(s) /\ Len(s) = n + 1 /\ n \in Nat /\ s[n + 1] = a
    BY <1>3, <1>6
  <2> HIDE DEF s, n, a
  <2>2. SubSeq(s, n + 1, Len(s)) = <<s[n + 1]>>
    BY <2>1, LastOnly
  <2>3. SubSeq(s, n + 1, Len(s)) = <<a>>
    BY <2>1, <2>2
  <2> QED BY <2>3 DEF s, n, a
<1>8. Consumed' + Top' = guess'.from
  BY <1>1, <1>4, <1>5
<1>9. ASSUME NEW k \in 1..Len(calls'), calls'[k].at \in Held
      PROVE  k = Len(calls) /\ TypeState(k)' = TypeBegin(guess'.from)
  <2>1. k = Len(calls)
    BY <1>3, <1>9
  <2>2. TypeState(k)' = [frames |-> SubSeq(calls', k + 1, Len(calls')), pos |-> Consumed' + Top']
    BY DEF TypeState
  <2>3. SubSeq(calls', k + 1, Len(calls')) = <<[at |-> "type", how |-> "type"]>>
    BY <2>1, <1>7
  <2> QED BY <2>1, <2>2, <2>3, <1>8 DEF TypeBegin
<1>10. ASSUME NEW k \in 1..Len(calls'), calls'[k].at = "speculated"
       PROVE  Reaches(input', TypeBegin(guess'.from), TypeState(k)')
  <2>1. TypeState(k)' = TypeBegin(guess'.from)
    BY <1>2, <1>9, <1>10
  <2> QED BY <2>1, ReachesItself
<1>11. \A k \in 1..Len(calls') : calls'[k].at # "constructed"
  BY <1>2, <1>3
<1>12. status' # "error"
  BY <1>1
<1> QED BY <1>10, <1>11, <1>12 DEF Retraces, TypeBegin

LEMMA SucceedRetraces ==
  ASSUME ParserInv, Retraces, SpeculationSucceeds
  PROVE  Retraces'
<1>1. /\ Here.at = "speculated" /\ Release /\ status' = status /\ status = "running"
      /\ calls' = Callers \o Frames(Call("type", "type", "constructed"))
      /\ guess' = [guess EXCEPT !.upto = Consumed + Top] /\ input' = input
      /\ IsSpeculating
  BY DEF SpeculationSucceeds, IsOver, Release
<1>2. /\ Here.at \in ExprPoints /\ "speculated" \in Held /\ "constructed" \in Held
      /\ "constructed" # "speculated"
  BY <1>1 DEF ExprPoints, Held
<1>3. /\ IsSeq(calls') /\ Len(calls') = Len(calls) + 1
      /\ calls'[Len(calls)].at = "constructed"
      /\ calls'[Len(calls) + 1] = [at |-> "type", how |-> "type"]
      /\ \A k \in 1..Len(calls') : calls'[k].at \in Held => k = Len(calls)
  BY <1>1, <1>2, HeldAfter DEF ParserInv
<1>4. /\ guess = [from |-> guess.from, upto |-> guess.upto]
      /\ Consumed = guess.from /\ Len(markers) <= 1 /\ Len(markers) \in Nat
  BY <1>1, Basics DEF ParserInv, SpeculationIsHeld
<1>5. guess'.from = guess.from /\ guess'.upto = Consumed + Top
  BY <1>1, <1>4
<1>6. BufferInv' /\ Len(markers') = Len(markers) - 1 /\ Consumed' = Consumed /\ Consumed \in Nat
  BY <1>1, ReleaseStep, Basics DEF ParserInv
<1>7. Top' = 0
  <2>1. (IsSpeculating <=> Len(markers) > 0)' /\ (~IsSpeculating => Top = 0)'
    BY <1>6, MarkerFacts, PTL
  <2> QED BY <2>1, <1>4, <1>6
<1>8. Consumed' + Top' = guess'.from
  BY <1>4, <1>5, <1>6, <1>7
<1>9. IsSeq(calls) /\ Len(calls) \in Nat /\ Len(calls) \in 1..Len(calls) /\ Here = calls[Len(calls)]
  BY HereFacts DEF ParserInv, Nested
<1>10. Reaches(input, TypeBegin(guess.from), TypeState(Len(calls)))
  BY <1>1, <1>9 DEF Retraces
<1>11. TypeState(Len(calls)) = TypeEnd(guess'.upto)
  BY <1>5, <1>9, NoneAbove DEF TypeState, TypeEnd
<1>12. SubSeq(calls', Len(calls) + 1, Len(calls')) = <<[at |-> "type", how |-> "type"]>>
  <2> DEFINE s == calls'
             n == Len(calls)
             a == [at |-> "type", how |-> "type"]
  <2>1. IsSeq(s) /\ Len(s) = n + 1 /\ n \in Nat /\ s[n + 1] = a
    BY <1>3, <1>9
  <2> HIDE DEF s, n, a
  <2>2. SubSeq(s, n + 1, Len(s)) = <<s[n + 1]>>
    BY <2>1, LastOnly
  <2>3. SubSeq(s, n + 1, Len(s)) = <<a>>
    BY <2>1, <2>2
  <2> QED BY <2>3 DEF s, n, a
<1>13. ASSUME NEW k \in 1..Len(calls'), calls'[k].at \in Held
       PROVE  TypeState(k)' = TypeBegin(guess.from)
  <2>1. k = Len(calls)
    BY <1>3, <1>13
  <2>2. TypeState(k)' = [frames |-> SubSeq(calls', k + 1, Len(calls')), pos |-> Consumed' + Top']
    BY DEF TypeState
  <2>3. SubSeq(calls', k + 1, Len(calls')) = <<[at |-> "type", how |-> "type"]>>
    BY <2>1, <1>12
  <2> QED BY <2>2, <2>3, <1>5, <1>8 DEF TypeBegin
<1>14. ASSUME NEW k \in 1..Len(calls'), calls'[k].at = "constructed"
       PROVE  Reaches(input', TypeState(k)', TypeEnd(guess'.upto))
  <2>1. TypeState(k)' = TypeBegin(guess.from)
    BY <1>2, <1>13, <1>14
  <2> QED BY <2>1, <1>1, <1>10, <1>11
<1>15. \A k \in 1..Len(calls') : calls'[k].at # "speculated"
  BY <1>2, <1>3
<1>16. status' # "error"
  BY <1>1
<1> QED BY <1>14, <1>15, <1>16 DEF Retraces, TypeEnd

-----------------------------------------------------------------------------
LEMMA RetracesStep ==
  ASSUME ParserInv, Retraces, [Next]_vars
  PROVE  Retraces'
<1>1. BufferInv /\ (NothingIsHeld' => Retraces')
  BY NothingHeldRetraces, PTL DEF ParserInv
<1>2. ASSUME NEW rules, rules \subseteq Rules, Take(rules)
      PROVE  Retraces'
  <2>1. status = "running" /\ UNCHANGED <<status, guess>>
    BY <1>2 DEF Take, IsOver
  <2>2. CASE NothingIsHeld'
    BY <2>2, <1>1
  <2>3. CASE ~NothingIsHeld'
    <3>1. PICK r \in TypeSpec :
            /\ r.at = Here.at /\ Here.how \in r.how /\ Sees(r.look) /\ Eat(r.eat)
            /\ calls' = Callers \o Frames(r.to)
      BY <2>3, <1>2, TakeStep
    <3> QED BY <3>1, <2>1, TypeRetraces
  <2> QED BY <2>2, <2>3
<1>3. CASE LookAhead
  <2>1. PICK n \in 0..MaxLook : Look(n)
    BY <1>3 DEF LookAhead
  <2>2. n \in Nat
    BY BoundsAssumption
  <2>3. UNCHANGED <<calls, guess, input, status>> /\ status = "running"
    BY <1>3, <2>1 DEF LookAhead, Look, IsOver
  <2>4. Consumed' = Consumed /\ Top' = Top
    BY <1>1, <2>1, <2>2, LookStep
  <2> QED BY <2>3, <2>4, KeptRetraces
<1>4. CASE ReturnNothing
  BY <1>1, <1>4, ReturnNothingStep
<1>5. CASE Fails
  <2>1. UNCHANGED <<calls, guess, input, lexer, tokens, markers>>
    BY <1>5 DEF Fails
  <2>2. Consumed' = Consumed /\ Top' = Top
    BY <2>1 DEF Consumed, Top, IsSpeculating
  <2>3. ~IsReparsing
    BY <1>5, ReparsingIsNotStuck DEF Fails
  <2> QED BY <2>1, <2>2, <2>3, KeptRetraces
<1>6. CASE SpeculateTypeSpec
  BY <1>6, SpeculateRetraces
<1>7. CASE SpeculationSucceeds
  BY <1>7, SucceedRetraces
<1>8. CASE SpeculationFails
  BY <1>1, <1>8, SpeculationFailsStep
<1>9. CASE UNCHANGED vars
  <2>1. UNCHANGED <<calls, guess, status, input, lexer, tokens, markers>>
    BY <1>9 DEF vars
  <2>2. Consumed' = Consumed /\ Top' = Top
    BY <2>1 DEF Consumed, Top, IsSpeculating
  <2>3. status' = "error" => ~IsReparsing
    BY <2>1 DEF Retraces
  <2> QED BY <2>1, <2>2, <2>3, KeptRetraces
<1> QED BY <1>2, <1>3, <1>4, <1>5, <1>6, <1>7, <1>8, <1>9, Steps

LEMMA RetracesIsRight ==
  ASSUME ParserInv, Retraces
  PROVE  SpeculationIsRight
<1>1. status = "error" => ~IsReparsing
  BY DEF Retraces
<1>2. Here.at = "no type" => Consumed = guess.from /\ ~IsSpeculating
  BY DEF ParserInv, SpeculationIsHeld
<1>3. ASSUME Here.at = "constructed"
      PROVE  Consumed = guess.upto
  <2>1. IsSeq(calls) /\ Len(calls) \in 1..Len(calls) /\ Here = calls[Len(calls)]
    BY HereFacts DEF ParserInv, Nested
  <2>2. Reaches(input, TypeState(Len(calls)), TypeEnd(guess.upto))
    BY <1>3, <2>1 DEF Retraces
  <2>3. TypeState(Len(calls)) = TypeEnd(Consumed + Top)
    BY <2>1, NoneAbove DEF TypeState, TypeEnd
  <2>4. Len(TypeEnd(guess.upto).frames) = 0 /\ Len(TypeEnd(Consumed + Top).frames) = 0
    BY DEF TypeEnd
  <2>5. TypeEnd(Consumed + Top) = TypeEnd(guess.upto)
    BY <2>2, <2>3, <2>4, NotThere
  <2>6. Consumed + Top = guess.upto
    BY <2>5 DEF TypeEnd
  <2>7. Here.at \notin TypePoints /\ Here.at # "speculated"
    BY <1>3 DEF TypePoints
  <2>8. Top = 0 /\ Consumed \in Nat
    BY <2>7, OnlyTypesAreSpeculatedOn, MarkerFacts, Basics DEF ParserInv
  <2> QED BY <2>6, <2>8
<1> QED BY <1>1, <1>2, <1>3 DEF SpeculationIsRight

\* What was speculated to be a type specifier is parsed as one, from the same
\* token to the same token and without an error; when it is none, nothing has
\* been consumed (Parser::parsePrimaryExpr's speculation, whatever the source).
THEOREM SpeculationIsDeterministic == Spec => []SpeculationIsRight
<1>1. Init => ParserInv /\ Retraces
  <2> SUFFICES ASSUME Init
               PROVE  ParserInv /\ Retraces
    OBVIOUS
  <2>1. \A k \in 1..Len(calls) : calls[k].at = "unit"
    BY DEF Init
  <2>2. "unit" \notin Held
    BY DEF Held
  <2>3. NothingIsHeld
    BY <2>1, <2>2 DEF NothingIsHeld
  <2> QED BY <2>3, ParserInit, NothingHeldRetraces
<1>2. ParserInv /\ Retraces /\ [Next]_vars => ParserInv' /\ Retraces'
  BY ParserStep, RetracesStep
<1>3. ParserInv /\ Retraces => SpeculationIsRight
  BY RetracesIsRight
<1> QED BY <1>1, <1>2, <1>3, PTL DEF Spec

-----------------------------------------------------------------------------
(* What the brackets read so far await: the recursion is defined. *)

\* The value at n, told by the one before.
AfterNext(f, source, n) == IF n = 0 THEN <<>> ELSE Read(f[n - 1], source[n])
IsRun(f, source, m) == f = [n \in 0..m |-> AfterNext(f, source, n)]

LEMMA RunsAgree ==
  ASSUME NEW source, NEW f, NEW g, NEW m \in Nat, NEW k \in Nat,
         IsRun(f, source, m), IsRun(g, source, k)
  PROVE  \A n \in 0..m : n \in 0..k => f[n] = g[n]
<1> DEFINE Bad == {n \in 0..m : n \in 0..k /\ f[n] # g[n]}
<1>1. /\ \A n \in 0..m : f[n] = AfterNext(f, source, n)
      /\ \A n \in 0..k : g[n] = AfterNext(g, source, n)
  <2>1. f = [n \in 0..m |-> AfterNext(f, source, n)]
    BY DEF IsRun
  <2>2. g = [n \in 0..k |-> AfterNext(g, source, n)]
    BY DEF IsRun
  <2>3. \A n \in 0..m : f[n] = AfterNext(f, source, n)
    BY <2>1
  <2>4. \A n \in 0..k : g[n] = AfterNext(g, source, n)
    BY <2>2
  <2> QED BY <2>3, <2>4
<1>2. Bad = {}
  <2> SUFFICES ASSUME Bad # {} PROVE FALSE
    OBVIOUS
  <2>1. Bad \subseteq Nat
    OBVIOUS
  <2>2. PICK n \in Bad : \A y \in Bad : ~(<<y, n>> \in OpToRel(<, Nat))
    <3> HIDE DEF Bad
    <3> QED BY <2>1, NatLessThanWellFounded, WFMin
  <2>3. \A y \in Bad : ~(y < n)
    BY <2>1, <2>2 DEF OpToRel
  <2>4. n \in 0..m /\ n \in 0..k /\ f[n] # g[n]
    OBVIOUS
  <2>5. f[n] = AfterNext(f, source, n) /\ g[n] = AfterNext(g, source, n)
    BY <1>1, <2>4
  <2>6. n # 0
    BY <2>4, <2>5 DEF AfterNext
  <2>7. n - 1 \in 0..m /\ n - 1 \in 0..k /\ n - 1 < n
    BY <2>4, <2>6
  <2>8. f[n - 1] = g[n - 1]
    BY <2>3, <2>7
  <2> QED BY <2>4, <2>5, <2>6, <2>8 DEF AfterNext
<1> QED BY <1>2

LEMMA RunsExist == \A source : \A m \in Nat : \E f : IsRun(f, source, m)
<1> TAKE source
<1> DEFINE Bad == {m \in Nat : ~ \E f : IsRun(f, source, m)}
<1>1. \E f : IsRun(f, source, 0)
  <2> DEFINE f == [n \in 0..0 |-> <<>>]
  <2>1. \A n \in 0..0 : AfterNext(f, source, n) = <<>>
    <3> HIDE DEF f
    <3>1. \A n \in 0..0 : n = 0
      OBVIOUS
    <3> QED BY <3>1 DEF AfterNext
  <2>2. f = [n \in 0..0 |-> AfterNext(f, source, n)]
    BY <2>1
  <2> HIDE DEF f
  <2> QED BY <2>2 DEF IsRun
<1>2. ASSUME NEW m \in Nat, NEW f, IsRun(f, source, m)
      PROVE  \E g : IsRun(g, source, m + 1)
  <2> DEFINE g == [n \in 0..(m + 1) |-> IF n = m + 1 THEN Read(f[m], source[n]) ELSE f[n]]
  <2>1. f = [n \in 0..m |-> AfterNext(f, source, n)]
    BY <1>2 DEF IsRun
  <2>2. \A n \in 0..m : f[n] = AfterNext(f, source, n)
    BY <2>1
  <2>3. /\ \A n \in 0..m : g[n] = f[n]
        /\ g[m + 1] = Read(f[m], source[m + 1])
    OBVIOUS
  <2>4. ASSUME NEW n \in 0..(m + 1)
        PROVE  g[n] = AfterNext(g, source, n)
    <3> HIDE DEF g
    <3>1. CASE n = m + 1
      <4>1. n # 0 /\ n - 1 = m /\ m \in 0..m
        BY <3>1
      <4> QED BY <3>1, <4>1, <2>3 DEF AfterNext
    <3>2. CASE n # m + 1
      <4>1. n \in 0..m
        BY <3>2
      <4>2. g[n] = AfterNext(f, source, n)
        BY <4>1, <2>2, <2>3
      <4>3. n # 0 => n - 1 \in 0..m
        BY <4>1
      <4>4. n # 0 => g[n - 1] = f[n - 1]
        BY <4>3, <2>3
      <4> QED BY <4>2, <4>4 DEF AfterNext
    <3> QED BY <3>1, <3>2
  <2>5. g = [n \in 0..(m + 1) |-> g[n]]
    OBVIOUS
  <2> HIDE DEF g
  <2>6. [n \in 0..(m + 1) |-> g[n]] = [n \in 0..(m + 1) |-> AfterNext(g, source, n)]
    BY <2>4
  <2> QED BY <2>5, <2>6 DEF IsRun
<1>3. Bad = {}
  <2> SUFFICES ASSUME Bad # {} PROVE FALSE
    OBVIOUS
  <2>1. Bad \subseteq Nat
    OBVIOUS
  <2>2. PICK m \in Bad : \A y \in Bad : ~(<<y, m>> \in OpToRel(<, Nat))
    <3> HIDE DEF Bad
    <3> QED BY <2>1, NatLessThanWellFounded, WFMin
  <2>3. \A y \in Bad : ~(y < m)
    BY <2>1, <2>2 DEF OpToRel
  <2>4. m \in Nat /\ ~ \E f : IsRun(f, source, m)
    OBVIOUS
  <2>5. m # 0
    BY <1>1, <2>4
  <2>6. m - 1 \in Nat /\ m - 1 < m /\ (m - 1) + 1 = m
    BY <2>4, <2>5
  <2>7. m - 1 \notin Bad
    BY <2>3, <2>6
  <2>8. \E f : IsRun(f, source, m - 1)
    BY <2>6, <2>7
  <2> HIDE DEF Bad
  <2>9. \E f : IsRun(f, source, (m - 1) + 1)
    BY <1>2, <2>6, <2>8
  <2> QED BY <2>4, <2>6, <2>9
<1> QED BY <1>3

\* What is awaited at first, and after one more token.
LEMMA AwaitedIs ==
  \A source : /\ Awaited(source)[0] = <<>>
              /\ \A n \in Nat : Awaited(source)[n + 1] = Read(Awaited(source)[n], source[n + 1])
<1> TAKE source
<1> DEFINE Run(m) == CHOOSE f : IsRun(f, source, m)
           F == [n \in Nat |-> Run(n)[n]]
<1>1. \A m \in Nat : IsRun(Run(m), source, m)
  BY RunsExist
<1>2. ASSUME NEW n \in Nat
      PROVE  F[n] = AfterNext(F, source, n)
  <2>1. F[n] = Run(n)[n]
    OBVIOUS
  <2> HIDE DEF Run
  <2>2. IsRun(Run(n), source, n) /\ n \in 0..n
    BY <1>1
  <2>3. Run(n) = [i \in 0..n |-> AfterNext(Run(n), source, i)]
    BY <2>2 DEF IsRun
  <2>4. Run(n)[n] = AfterNext(Run(n), source, n)
    BY <2>2, <2>3
  <2>5. CASE n = 0
    BY <2>1, <2>4, <2>5 DEF AfterNext
  <2>6. CASE n # 0
    <3>1. n - 1 \in Nat /\ n - 1 \in 0..(n - 1) /\ n - 1 \in 0..n
      BY <2>6
    <3>2. IsRun(Run(n - 1), source, n - 1)
      BY <1>1, <3>1
    <3>3. Run(n - 1)[n - 1] = Run(n)[n - 1]
      BY <2>2, <3>1, <3>2, RunsAgree
    <3>4. F[n - 1] = Run(n)[n - 1]
      BY <3>1, <3>3
    <3> HIDE DEF F
    <3> QED BY <2>1, <2>4, <2>6, <3>4 DEF AfterNext
  <2> QED BY <2>5, <2>6
<1>3. F = [n \in Nat |-> AfterNext(F, source, n)]
  <2>1. F = [n \in Nat |-> F[n]]
    OBVIOUS
  <2> HIDE DEF F
  <2>2. [n \in Nat |-> F[n]] = [n \in Nat |-> AfterNext(F, source, n)]
    BY <1>2
  <2> QED BY <2>1, <2>2
<1> HIDE DEF F
<1>4. \E f : f = [n \in Nat |-> AfterNext(f, source, n)]
  BY <1>3
<1>5. Awaited(source) = CHOOSE f : f = [n \in Nat |-> AfterNext(f, source, n)]
  BY DEF Awaited, AfterNext
<1> DEFINE A == Awaited(source)
<1>6. A = [n \in Nat |-> AfterNext(A, source, n)]
  BY <1>4, <1>5
<1> HIDE DEF A
<1>7. \A n \in Nat : A[n] = AfterNext(A, source, n)
  BY <1>6
<1>8. A[0] = <<>>
  BY <1>7 DEF AfterNext
<1>9. \A n \in Nat : A[n + 1] = Read(A[n], source[n + 1])
  <2> TAKE n \in Nat
  <2>1. n + 1 \in Nat /\ n + 1 # 0 /\ (n + 1) - 1 = n
    OBVIOUS
  <2>2. A[n + 1] = AfterNext(A, source, n + 1)
    BY <1>7, <2>1
  <2> QED BY <2>1, <2>2 DEF AfterNext
<1> QED BY <1>8, <1>9 DEF A

-----------------------------------------------------------------------------
(* What a token does to what is awaited. *)

\* What is awaited outside a directive.
IsClean(s) == IsSeq(s) /\ \A i \in 1..Len(s) : s[i] \in Closing

LEMMA Emptied == \A s, a : IsSeq(s) =>
  LET t == s \o <<a>>
  IN  t # <<>> /\ t[Len(t)] = a /\ SubSeq(t, 1, Len(t) - 1) = s
<1> SUFFICES ASSUME NEW s, NEW a, IsSeq(s)
             PROVE  LET t == s \o <<a>>
                    IN  t # <<>> /\ t[Len(t)] = a /\ SubSeq(t, 1, Len(t) - 1) = s
  OBVIOUS
<1> DEFINE t == s \o <<a>>
<1>1. IsSeq(t) /\ Len(t) = Len(s) + 1 /\ (\A i \in 1..Len(s) : t[i] = s[i]) /\ t[Len(s) + 1] = a
  <2>1. IsOneMore(t, s, a)
    BY OneMore
  <2> QED BY <2>1 DEF IsOneMore
<1> HIDE DEF t
<1>2. Len(s) \in Nat /\ Len(s) \in 0..Len(t) /\ Len(t) - 1 = Len(s)
  <2>1. Len(s) \in Nat
    BY LenFacts
  <2> QED BY <2>1, <1>1
<1> DEFINE n == Len(s)
           u == SubSeq(t, 1, n)
<1>3. IsSeq(u) /\ Len(u) = n /\ \A i \in 1..n : u[i] = t[i]
  <2>1. n \in 0..Len(t)
    BY <1>2
  <2> HIDE DEF n
  <2> QED BY <1>1, <2>1, PrefixFacts
<1> HIDE DEF u
<1>4. u = s
  <2>1. \A i \in 1..Len(u) : u[i] = s[i]
    BY <1>1, <1>3
  <2> QED BY <1>3, <2>1, SameSeq
<1>5. t # <<>>
  <2>1. Len(t) # 0
    BY <1>1, <1>2
  <2> QED BY <1>1, <2>1, LenFacts
<1>6. t # <<>> /\ t[Len(t)] = a /\ SubSeq(t, 1, Len(t) - 1) = s
  BY <1>1, <1>2, <1>4, <1>5 DEF u
<1> QED BY <1>6 DEF t

LEMMA CleanEnd == \A s : IsClean(s) /\ s # <<>> => s[Len(s)] \in Closing
<1> SUFFICES ASSUME NEW s, IsClean(s), s # <<>> PROVE s[Len(s)] \in Closing
  OBVIOUS
<1>1. Len(s) \in Nat /\ Len(s) # 0
  BY LenFacts DEF IsClean
<1>2. Len(s) \in 1..Len(s)
  BY <1>1
<1> QED BY <1>2 DEF IsClean

LEMMA ClosingFacts ==
  /\ SwallowsTwo \notin Closing /\ SwallowsOne \notin Closing /\ SwallowsTwo # SwallowsOne
  /\ \A t \in Opening : t \notin Closing
BY DEF SwallowsTwo, SwallowsOne, Closing, Opening, Paren, Bracket

\* A token that is no bracket, one that opens and one that closes.
LEMMA ReadOther == \A s, t : IsClean(s) /\ t \notin Opening \cup Closing => Read(s, t) = s
BY CleanEnd, ClosingFacts DEF Read

LEMMA ReadOpening ==
  \A s, t : IsClean(s) /\ t \in Opening => Read(s, t) = s \o <<ClosedBy(t)>>
BY CleanEnd, ClosingFacts DEF Read

LEMMA ReadClosing == \A s, c : IsSeq(s) /\ c \in Closing => Read(s \o <<c>>, c) = s
<1> SUFFICES ASSUME NEW s, NEW c, IsSeq(s), c \in Closing PROVE Read(s \o <<c>>, c) = s
  OBVIOUS
<1> DEFINE t == s \o <<c>>
<1>1. t # <<>> /\ t[Len(t)] = c /\ SubSeq(t, 1, Len(t) - 1) = s
  BY Emptied
<1> HIDE DEF t
<1>2. Read(t, c) = s
  BY <1>1, ClosingFacts DEF Read
<1> QED BY <1>2 DEF t

\* The two tokens a directive swallows.
LEMMA ReadTwo == \A s, t : IsSeq(s) => Read(s \o <<SwallowsTwo>>, t) = s \o <<SwallowsOne>>
<1> SUFFICES ASSUME NEW s, NEW t, IsSeq(s)
             PROVE  Read(s \o <<SwallowsTwo>>, t) = s \o <<SwallowsOne>>
  OBVIOUS
<1> DEFINE u == s \o <<SwallowsTwo>>
<1>1. u # <<>> /\ u[Len(u)] = SwallowsTwo /\ SubSeq(u, 1, Len(u) - 1) = s
  BY Emptied
<1> HIDE DEF u
<1>2. Read(u, t) = s \o <<SwallowsOne>>
  BY <1>1 DEF Read
<1> QED BY <1>2 DEF u

LEMMA ReadOne == \A s, t : IsSeq(s) => Read(s \o <<SwallowsOne>>, t) = s
<1> SUFFICES ASSUME NEW s, NEW t, IsSeq(s) PROVE Read(s \o <<SwallowsOne>>, t) = s
  OBVIOUS
<1> DEFINE u == s \o <<SwallowsOne>>
<1>1. u # <<>> /\ u[Len(u)] = SwallowsOne /\ SubSeq(u, 1, Len(u) - 1) = s
  BY Emptied
<1> HIDE DEF u
<1>2. Read(u, t) = s
  BY <1>1, ClosingFacts DEF Read
<1> QED BY <1>2 DEF u

-----------------------------------------------------------------------------
(* Each activation awaits at most one bracket: what the rules do to it. *)

InParen == {"type )", "first param", "params", "param type", "default", "param", "paren )"}
InBracket == {"type ]", "subscript"}
InList == {"elements", "more elements"}
InBrace == {"block", "members"}
InLoop == {"repeat", "count", "loop"}
Waiting == InParen \cup InBracket \cup InList \cup InBrace \cup InLoop \cup {"runtime"}

\* What an activation at a point awaits before it returns.
Awaits(point, how) ==
  IF point \in InParen THEN <<")">>
  ELSE IF point \in InBracket THEN <<"]">>
  ELSE IF point \in InList THEN (IF how \in {")", "]"} THEN <<how>> ELSE <<>>)
  ELSE IF point \in InBrace THEN <<"}">>
  ELSE IF point \in InLoop THEN <<"loop">>
  ELSE IF point = "runtime" THEN <<SwallowsTwo>>
  ELSE <<>>

\* The same of an activation that is to be called by one called in the way how.
AwaitsAs(f, how) == Awaits(f.at, IF f.how = Same THEN how ELSE f.how)

\* Of the activations that replace one, only one awaits something, namely a.
Gives(to, how, a) ==
  /\ IsSeq(to) /\ \A i \in 1..Len(to) : IsFrame(to[i])
  /\ \/ a = <<>> /\ \A i \in 1..Len(to) : AwaitsAs(to[i], how) = <<>>
     \/ \E j \in 1..Len(to) :
          /\ AwaitsAs(to[j], how) = a
          /\ \A i \in 1..Len(to) : i # j => AwaitsAs(to[i], how) = <<>>
          /\ a = <<SwallowsTwo>> => j = Len(to)

\* Tokens that are no bracket and not the END.
Plain == Tokens \ (Opening \cup Closing \cup {END})

\* Behind the n tokens that are consumed, b is awaited instead of a.
Turns(look, n, a, b) ==
  \/ a = b /\ a # <<SwallowsTwo>> /\ \A i \in 1..n : i \in DOMAIN look /\ look[i] \subseteq Plain
  \/ /\ n = 1 /\ 1 \in DOMAIN look /\ a = <<>>
     /\ \E c : b = <<c>> /\ \A t \in look[1] : t \in Opening /\ ClosedBy(t) = c
  \/ /\ n = 1 /\ 1 \in DOMAIN look /\ b = <<>>
     /\ \E c \in Closing : a = <<c>> /\ look[1] = {c}
  \/ /\ n = 2 /\ a = <<SwallowsTwo>> /\ b = <<>>
     /\ 1 \in DOMAIN look /\ 2 \in DOMAIN look /\ END \notin look[1]

NestsAs(r, how) ==
  \E a : Gives(r.to, how, a) /\ Turns(r.look, r.eat, Awaits(r.at, how), a)
Nests(r) ==
  /\ r = [at |-> r.at, how |-> r.how, look |-> r.look, eat |-> r.eat, to |-> r.to]
  /\ \A how : NestsAs(r, how)

LEMMA AwaitsNothing == \A p, how : p \notin Waiting => Awaits(p, how) = <<>>
BY DEF Awaits, Waiting

LEMMA AwaitsOne ==
  /\ \A p \in InParen : \A how : Awaits(p, how) = <<")">>
  /\ \A p \in InBracket : \A how : Awaits(p, how) = <<"]">>
  /\ \A p \in InBrace : \A how : Awaits(p, how) = <<"}">>
  /\ \A p \in InLoop : \A how : Awaits(p, how) = <<"loop">>
  /\ \A how : Awaits("runtime", how) = <<SwallowsTwo>>
  /\ \A p, q \in InList : \A how : Awaits(p, how) = Awaits(q, how)
  /\ \A p \in InList : Awaits(p, ")") = <<")">> /\ Awaits(p, "]") = <<"]">>
<1>1. \A p \in InParen : \A how : Awaits(p, how) = <<")">>
  BY DEF Awaits
<1>2. \A p \in InBracket : \A how : Awaits(p, how) = <<"]">>
  BY DEF Awaits, InParen, InBracket
<1>3. \A p \in InBrace : \A how : Awaits(p, how) = <<"}">>
  BY DEF Awaits, InParen, InBracket, InList, InBrace
<1>4. \A p \in InLoop : \A how : Awaits(p, how) = <<"loop">>
  BY DEF Awaits, InParen, InBracket, InList, InBrace, InLoop
<1>5. \A how : Awaits("runtime", how) = <<SwallowsTwo>>
  BY DEF Awaits, InParen, InBracket, InList, InBrace, InLoop
<1>6. \A p \in InList : \A how : Awaits(p, how) = IF how \in {")", "]"} THEN <<how>> ELSE <<>>
  BY DEF Awaits, InParen, InBracket, InList
<1> QED BY <1>1, <1>2, <1>3, <1>4, <1>5, <1>6

\* What only the last activation may await.
LEMMA RuntimeIsAlone ==
  \A p, how : p # "runtime" => Awaits(p, how) # <<SwallowsTwo>>
<1> SUFFICES ASSUME NEW p, NEW how, p # "runtime" PROVE Awaits(p, how) # <<SwallowsTwo>>
  OBVIOUS
<1>1. \A c : <<c>> = <<SwallowsTwo>> => c = SwallowsTwo
  OBVIOUS
<1>2. /\ ")" # SwallowsTwo /\ "]" # SwallowsTwo /\ "}" # SwallowsTwo /\ "loop" # SwallowsTwo
  BY DEF SwallowsTwo
<1>3. <<>> # <<SwallowsTwo>>
  OBVIOUS
<1> QED BY <1>1, <1>2, <1>3 DEF Awaits


LEMMA OneGives == \A f, how : IsFrame(f) => Gives(<<f>>, how, AwaitsAs(f, how))
<1> SUFFICES ASSUME NEW f, NEW how, IsFrame(f) PROVE Gives(<<f>>, how, AwaitsAs(f, how))
  OBVIOUS
<1> DEFINE to == <<f>>
<1>1. IsSeq(to) /\ Len(to) = 1 /\ to[1] = f
  BY OneElement
<1> HIDE DEF to
<1>2. \A i \in 1..Len(to) : i = 1
  BY <1>1
<1>3. 1 \in 1..Len(to)
  BY <1>1
<1>4. Gives(to, how, AwaitsAs(f, how))
  BY <1>1, <1>2, <1>3 DEF Gives
<1> QED BY <1>4 DEF to

\* One more activation, which awaits nothing, and one before which none does.
LEMMA MoreGives ==
  \A to, f, how, a : Gives(to, how, a) /\ IsFrame(f) =>
    /\ AwaitsAs(f, how) = <<>> /\ a # <<SwallowsTwo>> => Gives(to \o <<f>>, how, a)
    /\ a = <<>> => Gives(to \o <<f>>, how, AwaitsAs(f, how))
<1> SUFFICES ASSUME NEW to, NEW f, NEW how, NEW a, Gives(to, how, a), IsFrame(f)
             PROVE  /\ AwaitsAs(f, how) = <<>> /\ a # <<SwallowsTwo>> => Gives(to \o <<f>>, how, a)
                    /\ a = <<>> => Gives(to \o <<f>>, how, AwaitsAs(f, how))
  OBVIOUS
<1> DEFINE more == to \o <<f>>
<1>1. IsSeq(to) /\ Len(to) \in Nat
  BY LenFacts DEF Gives
<1>2. /\ IsSeq(more) /\ Len(more) = Len(to) + 1
      /\ \A i \in 1..Len(to) : more[i] = to[i]
      /\ more[Len(to) + 1] = f
  <2>1. IsOneMore(more, to, f)
    BY <1>1, OneMore
  <2> QED BY <2>1 DEF IsOneMore
<1> HIDE DEF more
<1>3. \A i \in 1..Len(more) : i \in 1..Len(to) \/ i = Len(more)
  BY <1>1, <1>2
<1>4. /\ \A i \in 1..Len(to) : i \in 1..Len(more) /\ i # Len(more) /\ more[i] = to[i]
      /\ Len(more) \in 1..Len(more) /\ more[Len(more)] = f
  BY <1>1, <1>2
<1>5. \A i \in 1..Len(more) : IsFrame(more[i])
  <2>1. \A i \in 1..Len(to) : IsFrame(to[i])
    BY DEF Gives
  <2> QED BY <2>1, <1>3, <1>4
<1>6. ASSUME AwaitsAs(f, how) = <<>>, a # <<SwallowsTwo>>
      PROVE  Gives(more, how, a)
  <2>1. CASE a = <<>> /\ \A i \in 1..Len(to) : AwaitsAs(to[i], how) = <<>>
    <3>1. \A i \in 1..Len(more) : AwaitsAs(more[i], how) = <<>>
      BY <2>1, <1>3, <1>4, <1>6
    <3> QED BY <2>1, <3>1, <1>2, <1>5 DEF Gives
  <2>2. CASE \E j \in 1..Len(to) :
               /\ AwaitsAs(to[j], how) = a
               /\ \A i \in 1..Len(to) : i # j => AwaitsAs(to[i], how) = <<>>
    <3>1. PICK j \in 1..Len(to) :
            /\ AwaitsAs(to[j], how) = a
            /\ \A i \in 1..Len(to) : i # j => AwaitsAs(to[i], how) = <<>>
      BY <2>2
    <3>2. j \in 1..Len(more) /\ AwaitsAs(more[j], how) = a
      BY <3>1, <1>4
    <3>3. \A i \in 1..Len(more) : i # j => AwaitsAs(more[i], how) = <<>>
      BY <3>1, <1>3, <1>4, <1>6
    <3> QED BY <3>2, <3>3, <1>2, <1>5, <1>6 DEF Gives
  <2> QED BY <2>1, <2>2 DEF Gives
<1>7. ASSUME a = <<>>
      PROVE  Gives(more, how, AwaitsAs(f, how))
  <2>1. \A i \in 1..Len(to) : AwaitsAs(to[i], how) = <<>>
    BY <1>7 DEF Gives
  <2>2. \A i \in 1..Len(more) : i # Len(more) => AwaitsAs(more[i], how) = <<>>
    BY <2>1, <1>3, <1>4
  <2>3. Len(more) \in 1..Len(more) /\ AwaitsAs(more[Len(more)], how) = AwaitsAs(f, how)
    BY <1>4
  <2> QED BY <2>2, <2>3, <1>2, <1>5 DEF Gives
<1> QED BY <1>6, <1>7 DEF more

\* The activations that the rules write with Return, Go, Call, CallExpr, Become.
LEMMA Targets ==
  /\ \A how : Gives(Return, how, <<>>)
  /\ \A p, how : Gives(Go(p), how, Awaits(p, how))
  /\ \A p, h, how : h # Same => Gives(Become(p, h), how, Awaits(p, h))
  /\ \A p, f, h, how : f \notin Waiting /\ p # "runtime" => Gives(Call(f, h, p), how, Awaits(p, how))
  /\ \A p, f, h, how : p \notin Waiting /\ h # Same => Gives(Call(f, h, p), how, Awaits(f, h))
  /\ \A p, h, how : p # "runtime" => Gives(CallExpr(h, p), how, Awaits(p, how))
  /\ \A p, h, q, o, how : p \notin Waiting /\ o # Same =>
       Gives(Become(p, h) \o Become(q, o), how, Awaits(q, o))
<1> DEFINE F(p, how) == [at |-> p, how |-> how]
<1>1. \A p, h : IsFrame(F(p, h)) /\ F(p, h).at = p /\ F(p, h).how = h
  BY DEF IsFrame
<1>2. /\ \A p, how : Become(p, how) = <<F(p, how)>>
      /\ \A p : Go(p) = <<F(p, Same)>>
      /\ \A p, f, how : Call(f, how, p) = <<F(p, Same)>> \o <<F(f, how)>>
      /\ \A p, how : CallExpr(how, p) = (<<F(p, Same)>> \o <<F("binary", how)>>) \o <<F("unary", how)>>
  BY DEF Become, Go, Call, CallExpr
<1> HIDE DEF F
<1>3. /\ \A p, how : AwaitsAs(F(p, Same), how) = Awaits(p, how)
      /\ \A p, h, how : h # Same => AwaitsAs(F(p, h), how) = Awaits(p, h)
      /\ \A p, h, how : p \notin Waiting => AwaitsAs(F(p, h), how) = <<>>
  <2>1. \A p, how : AwaitsAs(F(p, Same), how) = Awaits(p, how)
    BY <1>1 DEF AwaitsAs
  <2>2. \A p, h, how : h # Same => AwaitsAs(F(p, h), how) = Awaits(p, h)
    BY <1>1 DEF AwaitsAs
  <2>3. \A p, h, how : p \notin Waiting => AwaitsAs(F(p, h), how) = <<>>
    BY <1>1, AwaitsNothing DEF AwaitsAs
  <2> QED BY <2>1, <2>2, <2>3
<1>4. \A how : Gives(Return, how, <<>>)
  <2>1. IsSeq(Return) /\ Len(Return) = 0
    BY EmptyIsSeq DEF Return
  <2> QED BY <2>1 DEF Gives
<1>5. \A p, h, how : Gives(<<F(p, h)>>, how, AwaitsAs(F(p, h), how))
  BY <1>1, OneGives
<1>6. \A p, how : Gives(Go(p), how, Awaits(p, how))
  BY <1>2, <1>3, <1>5
<1>7. ASSUME NEW p, NEW h, NEW how, h # Same
      PROVE  Gives(Become(p, h), how, Awaits(p, h))
  <2>1. Gives(<<F(p, h)>>, how, AwaitsAs(F(p, h), how))
    BY <1>5
  <2>2. AwaitsAs(F(p, h), how) = Awaits(p, h)
    BY <1>3, <1>7
  <2> QED BY <1>2, <2>1, <2>2
<1>8. ASSUME NEW p, NEW f, NEW h, NEW how, f \notin Waiting, p # "runtime"
      PROVE  Gives(Call(f, h, p), how, Awaits(p, how))
  <2>1. Gives(<<F(p, Same)>>, how, Awaits(p, how))
    BY <1>3, <1>5
  <2>2. IsFrame(F(f, h)) /\ AwaitsAs(F(f, h), how) = <<>> /\ Awaits(p, how) # <<SwallowsTwo>>
    BY <1>1, <1>3, <1>8, RuntimeIsAlone
  <2> QED BY <1>2, <2>1, <2>2, MoreGives
<1>9. ASSUME NEW p, NEW f, NEW h, NEW how, p \notin Waiting, h # Same
      PROVE  Gives(Call(f, h, p), how, Awaits(f, h))
  <2>1. Gives(<<F(p, Same)>>, how, <<>>)
    BY <1>3, <1>5, <1>9
  <2>2. IsFrame(F(f, h)) /\ AwaitsAs(F(f, h), how) = Awaits(f, h)
    BY <1>1, <1>3, <1>9
  <2>3. Gives(<<F(p, Same)>> \o <<F(f, h)>>, how, AwaitsAs(F(f, h), how))
    BY <2>1, <2>2, MoreGives
  <2> QED BY <1>2, <2>2, <2>3
<1>10. "binary" \notin Waiting /\ "unary" \notin Waiting
  BY DEF Waiting, InParen, InBracket, InList, InBrace, InLoop
<1>11. ASSUME NEW p, NEW h, NEW how, p # "runtime"
       PROVE  Gives(CallExpr(h, p), how, Awaits(p, how))
  <2>1. Gives(Call("binary", h, p), how, Awaits(p, how))
    BY <1>8, <1>10, <1>11
  <2>2. CallExpr(h, p) = Call("binary", h, p) \o <<F("unary", h)>>
    BY <1>2
  <2>3. IsFrame(F("unary", h)) /\ AwaitsAs(F("unary", h), how) = <<>> /\ Awaits(p, how) # <<SwallowsTwo>>
    BY <1>1, <1>3, <1>10, <1>11, RuntimeIsAlone
  <2> QED BY <2>1, <2>2, <2>3, MoreGives
<1>12. ASSUME NEW p, NEW h, NEW q, NEW o, NEW how, p \notin Waiting, o # Same
       PROVE  Gives(Become(p, h) \o Become(q, o), how, Awaits(q, o))
  <2>1. Gives(<<F(p, h)>>, how, <<>>)
    BY <1>3, <1>5, <1>12
  <2>2. IsFrame(F(q, o)) /\ AwaitsAs(F(q, o), how) = Awaits(q, o)
    BY <1>1, <1>3, <1>12
  <2>3. Gives(<<F(p, h)>> \o <<F(q, o)>>, how, AwaitsAs(F(q, o), how))
    BY <2>1, <2>2, MoreGives
  <2> QED BY <1>2, <2>2, <2>3
<1> QED BY <1>4, <1>6, <1>7, <1>8, <1>9, <1>11, <1>12


\* The rules, by the way they are written.  A point and another one await the same.
Alike(p, q) == q # "runtime" /\ \A how : Awaits(p, how) = Awaits(q, how)
IsAwaiting(p, c) == \A how : Awaits(p, how) = <<c>>
AreOther(look, n) == \A i \in 1..n : i \in DOMAIN look /\ look[i] \subseteq Plain
AllOpen(A, c) == \A t \in A : t \in Opening /\ ClosedBy(t) = c

LEMMA OnNests ==
  \A point, look, n, to :
    (\A how : \E a : Gives(to, how, a) /\ Turns(look, n, Awaits(point, how), a))
    => Nests(On(point, look, n, to))
<1> SUFFICES ASSUME NEW point, NEW look, NEW n, NEW to,
                    \A how : \E a : Gives(to, how, a) /\ Turns(look, n, Awaits(point, how), a)
             PROVE  Nests(On(point, look, n, to))
  OBVIOUS
<1> DEFINE r == On(point, look, n, to)
<1>1. /\ r = [at |-> r.at, how |-> r.how, look |-> r.look, eat |-> r.eat, to |-> r.to]
      /\ r.at = point /\ r.look = look /\ r.eat = n /\ r.to = to
  BY DEF On
<1> HIDE DEF r
<1>2. Nests(r)
  BY <1>1 DEF Nests, NestsAs
<1> QED BY <1>2 DEF r

\* What is consumed is no bracket.
LEMMA NothingIsNotTwo == <<>> # <<SwallowsTwo>>
OBVIOUS

LEMMA NeutralTurns == \A look, n, a : AreOther(look, n) /\ a # <<SwallowsTwo>> => Turns(look, n, a, a)
BY DEF AreOther, Turns

LEMMA GoNests ==
  \A point, look, n, p : AreOther(look, n) /\ Alike(point, p) => Nests(On(point, look, n, Go(p)))
<1> SUFFICES ASSUME NEW point, NEW look, NEW n, NEW p, AreOther(look, n), Alike(point, p)
             PROVE  Nests(On(point, look, n, Go(p)))
  OBVIOUS
<1>1. ASSUME NEW how
      PROVE  Gives(Go(p), how, Awaits(p, how)) /\ Turns(look, n, Awaits(point, how), Awaits(p, how))
  BY Targets, NeutralTurns, RuntimeIsAlone DEF Alike
<1> QED BY <1>1, OnNests

LEMMA CallExprNests ==
  \A point, look, n, p, h :
    AreOther(look, n) /\ Alike(point, p) => Nests(On(point, look, n, CallExpr(h, p)))
<1> SUFFICES ASSUME NEW point, NEW look, NEW n, NEW p, NEW h,
                    AreOther(look, n), Alike(point, p)
             PROVE  Nests(On(point, look, n, CallExpr(h, p)))
  OBVIOUS
<1>1. ASSUME NEW how
      PROVE  Gives(CallExpr(h, p), how, Awaits(p, how)) /\ Turns(look, n, Awaits(point, how), Awaits(p, how))
  BY Targets, NeutralTurns, RuntimeIsAlone DEF Alike
<1> QED BY <1>1, OnNests

LEMMA CallNests ==
  \A point, look, n, p, f, h :
    AreOther(look, n) /\ Alike(point, p) /\ f \notin Waiting
    => Nests(On(point, look, n, Call(f, h, p)))
<1> SUFFICES ASSUME NEW point, NEW look, NEW n, NEW p, NEW f, NEW h,
                    AreOther(look, n), Alike(point, p), f \notin Waiting
             PROVE  Nests(On(point, look, n, Call(f, h, p)))
  OBVIOUS
<1>1. ASSUME NEW how
      PROVE  Gives(Call(f, h, p), how, Awaits(p, how)) /\ Turns(look, n, Awaits(point, how), Awaits(p, how))
  BY Targets, NeutralTurns, RuntimeIsAlone DEF Alike
<1> QED BY <1>1, OnNests

LEMMA ReturnNests ==
  \A point, look, n : AreOther(look, n) /\ point \notin Waiting => Nests(On(point, look, n, Return))
<1> SUFFICES ASSUME NEW point, NEW look, NEW n, AreOther(look, n), point \notin Waiting
             PROVE  Nests(On(point, look, n, Return))
  OBVIOUS
<1>1. ASSUME NEW how
      PROVE  Gives(Return, how, <<>>) /\ Turns(look, n, Awaits(point, how), <<>>)
  BY Targets, NeutralTurns, AwaitsNothing, NothingIsNotTwo
<1> QED BY <1>1, OnNests

LEMMA BecomeNests ==
  \A point, look, n, p, h :
    AreOther(look, n) /\ point \notin Waiting /\ p \notin Waiting /\ h # Same
    => Nests(On(point, look, n, Become(p, h)))
<1> SUFFICES ASSUME NEW point, NEW look, NEW n, NEW p, NEW h,
                    AreOther(look, n), point \notin Waiting, p \notin Waiting, h # Same
             PROVE  Nests(On(point, look, n, Become(p, h)))
  OBVIOUS
<1>1. ASSUME NEW how
      PROVE  Gives(Become(p, h), how, <<>>) /\ Turns(look, n, Awaits(point, how), <<>>)
  <2>1. Gives(Become(p, h), how, Awaits(p, h))
    BY Targets
  <2> QED BY <2>1, NeutralTurns, AwaitsNothing, NothingIsNotTwo
<1> QED BY <1>1, OnNests

\* What is consumed is awaited to be closed by one of the activations, or closes
\* what was awaited.
LEMMA OpeningNests ==
  \A point, A, more, c, to :
    point \notin Waiting /\ AllOpen(A, c) /\ 1 \in DOMAIN more /\ more[1] = A
    /\ (\A how : Gives(to, how, <<c>>))
    => Nests(On(point, more, 1, to))
<1> SUFFICES ASSUME NEW point, NEW A, NEW more, NEW c, NEW to,
                    point \notin Waiting, AllOpen(A, c), 1 \in DOMAIN more, more[1] = A,
                    \A how : Gives(to, how, <<c>>)
             PROVE  Nests(On(point, more, 1, to))
  OBVIOUS
<1>1. ASSUME NEW how
      PROVE  Gives(to, how, <<c>>) /\ Turns(more, 1, Awaits(point, how), <<c>>)
  <2>1. Awaits(point, how) = <<>>
    BY AwaitsNothing
  <2> QED BY <2>1 DEF Turns, AllOpen
<1> QED BY <1>1, OnNests

LEMMA ClosingNests ==
  \A point, c, to :
    c \in Closing /\ IsAwaiting(point, c) /\ (\A how : Gives(to, how, <<>>))
    => Nests(On(point, <<{c}>>, 1, to))
<1> SUFFICES ASSUME NEW point, NEW c, NEW to, c \in Closing, IsAwaiting(point, c),
                    \A how : Gives(to, how, <<>>)
             PROVE  Nests(On(point, <<{c}>>, 1, to))
  OBVIOUS
<1>1. 1 \in DOMAIN <<{c}>> /\ <<{c}>>[1] = {c}
  OBVIOUS
<1>2. ASSUME NEW how
      PROVE  Gives(to, how, <<>>) /\ Turns(<<{c}>>, 1, Awaits(point, how), <<>>)
  <2>1. Awaits(point, how) = <<c>>
    BY DEF IsAwaiting
  <2> QED BY <1>1, <2>1 DEF Turns
<1> QED BY <1>2, OnNests

\* Two points of the same brackets.
Together(p, q) ==
  \/ p \notin Waiting /\ q \notin Waiting
  \/ p \in InParen /\ q \in InParen
  \/ p \in InBracket /\ q \in InBracket
  \/ p \in InList /\ q \in InList
  \/ p \in InBrace /\ q \in InBrace
  \/ p \in InLoop /\ q \in InLoop

LEMMA TogetherAlike == \A p, q : Together(p, q) => Alike(p, q)
<1> TAKE p, q
<1> HAVE Together(p, q)
<1>1. ASSUME NEW how PROVE Awaits(p, how) = Awaits(q, how)
  <2>1. CASE p \notin Waiting /\ q \notin Waiting
    BY <2>1, AwaitsNothing
  <2>2. CASE p \in InParen /\ q \in InParen
    BY <2>2, AwaitsOne
  <2>3. CASE p \in InBracket /\ q \in InBracket
    BY <2>3, AwaitsOne
  <2>4. CASE p \in InList /\ q \in InList
    BY <2>4, AwaitsOne
  <2>5. CASE p \in InBrace /\ q \in InBrace
    BY <2>5, AwaitsOne
  <2>6. CASE p \in InLoop /\ q \in InLoop
    BY <2>6, AwaitsOne
  <2> QED BY <2>1, <2>2, <2>3, <2>4, <2>5, <2>6 DEF Together
<1>2. q # "runtime"
  BY DEF Together, Waiting, InParen, InBracket, InList, InBrace, InLoop
<1> QED BY <1>1, <1>2 DEF Alike

LEMMA Looks ==
  /\ \A look : AreOther(look, 0)
  /\ \A A : A \subseteq Plain => AreOther(<<A>>, 1)
  /\ \A A, B : A \subseteq Plain => AreOther(<<A, B>>, 1)
  /\ \A A, B : A \subseteq Plain /\ B \subseteq Plain => AreOther(<<A, B>>, 2)
  /\ \A A, B, C : A \subseteq Plain => AreOther(<<A, B, C>>, 1)
  /\ \A A, B, C : A \subseteq Plain /\ B \subseteq Plain /\ C \subseteq Plain =>
       AreOther(<<A, B, C>>, 3)
<1>1. \A look : AreOther(look, 0)
  BY DEF AreOther
<1>2. /\ \A i \in 1..1 : i = 1
      /\ \A i \in 1..2 : i = 1 \/ i = 2
      /\ \A i \in 1..3 : i = 1 \/ i = 2 \/ i = 3
  OBVIOUS
<1>3. \A A : 1 \in DOMAIN <<A>> /\ <<A>>[1] = A
  OBVIOUS
<1>4. \A A, B : /\ 1 \in DOMAIN <<A, B>> /\ <<A, B>>[1] = A
                /\ 2 \in DOMAIN <<A, B>> /\ <<A, B>>[2] = B
  OBVIOUS
<1>5. \A A, B, C : /\ 1 \in DOMAIN <<A, B, C>> /\ <<A, B, C>>[1] = A
                   /\ 2 \in DOMAIN <<A, B, C>> /\ <<A, B, C>>[2] = B
                   /\ 3 \in DOMAIN <<A, B, C>> /\ <<A, B, C>>[3] = C
  OBVIOUS
<1>6. ASSUME NEW A, A \subseteq Plain PROVE AreOther(<<A>>, 1)
  BY <1>2, <1>3, <1>6 DEF AreOther
<1>7. ASSUME NEW A, NEW B, A \subseteq Plain PROVE AreOther(<<A, B>>, 1)
  BY <1>2, <1>4, <1>7 DEF AreOther
<1>8. ASSUME NEW A, NEW B, A \subseteq Plain, B \subseteq Plain PROVE AreOther(<<A, B>>, 2)
  BY <1>2, <1>4, <1>8 DEF AreOther
<1>9. ASSUME NEW A, NEW B, NEW C, A \subseteq Plain PROVE AreOther(<<A, B, C>>, 1)
  BY <1>2, <1>5, <1>9 DEF AreOther
<1>10. ASSUME NEW A, NEW B, NEW C, A \subseteq Plain, B \subseteq Plain, C \subseteq Plain
       PROVE  AreOther(<<A, B, C>>, 3)
  BY <1>2, <1>5, <1>10 DEF AreOther
<1> QED BY <1>1, <1>6, <1>7, <1>8, <1>9, <1>10

PlainTokens ==
  {"id", "Type", "lit", "str", "term", ":", ",", ".", "::", "->", "=", "&", "<", "!", "-",
   "*", "*a", "++", "+=", "mod", "var", "if", "else", "goto", "break", "return",
   "func", "extern", "namespace", "partial"}

LEMMA ArePlain == PlainTokens \subseteq Plain
<1> SUFFICES ASSUME NEW t \in PlainTokens PROVE t \in Plain
  OBVIOUS
<1>1. t \in ParserTokens
  BY DEF PlainTokens, ParserTokens
<1>2. t \in Tokens /\ t # END
  BY <1>1, TokensAssumption
<1>3. t \notin Closing
  BY DEF PlainTokens, Closing
<1>4. t \notin Opening
  BY DEF PlainTokens, Opening, Paren, Bracket
<1> QED BY <1>2, <1>3, <1>4 DEF Plain

LEMMA Brackets ==
  /\ AllOpen(Paren, ")") /\ AllOpen(Bracket, "]") /\ AllOpen({"{"}, "}")
  /\ AllOpen({"repeat"}, "loop") /\ AllOpen({"#runtime"}, SwallowsTwo)
  /\ \A A : A \subseteq Paren => AllOpen(A, ")")
  /\ \A A : A \subseteq Bracket => AllOpen(A, "]")
  /\ ")" \in Closing /\ "]" \in Closing /\ "}" \in Closing /\ "loop" \in Closing
<1>1. \A t \in Paren : t \in Opening /\ ClosedBy(t) = ")"
  BY DEF Opening, ClosedBy
<1>2. \A t \in Bracket : t \in Opening /\ ClosedBy(t) = "]"
  BY DEF Opening, ClosedBy, Paren, Bracket
<1>3. "{" \in Opening /\ ClosedBy("{") = "}"
  BY DEF Opening, ClosedBy, Paren, Bracket
<1>4. "repeat" \in Opening /\ ClosedBy("repeat") = "loop"
  BY DEF Opening, ClosedBy, Paren, Bracket
<1>5. "#runtime" \in Opening /\ ClosedBy("#runtime") = SwallowsTwo
  BY DEF Opening, ClosedBy, Paren, Bracket
<1>6. ")" \in Closing /\ "]" \in Closing /\ "}" \in Closing /\ "loop" \in Closing
  BY DEF Closing
<1> QED BY <1>1, <1>2, <1>3, <1>4, <1>5, <1>6 DEF AllOpen

LEMMA AwaitingFacts ==
  /\ \A p \in InParen : IsAwaiting(p, ")")
  /\ \A p \in InBracket : IsAwaiting(p, "]")
  /\ \A p \in InBrace : IsAwaiting(p, "}")
  /\ \A p \in InLoop : IsAwaiting(p, "loop")
BY AwaitsOne DEF IsAwaiting

LEMMA PlainSets ==
  /\ \A t \in PlainTokens : {t} \subseteq Plain
  /\ Stop \subseteq Plain /\ Star \subseteq Plain
  /\ {"id", "Type"} \subseteq Plain /\ {"id", "lit", "str"} \subseteq Plain
  /\ {"=", "+="} \subseteq Plain /\ {"!", "-"} \subseteq Plain
  /\ {"<", "!", "-"} \cup Star \subseteq Plain
<1>1. /\ Stop \subseteq PlainTokens /\ Star \subseteq PlainTokens
      /\ {"id", "Type"} \subseteq PlainTokens /\ {"id", "lit", "str"} \subseteq PlainTokens
      /\ {"=", "+="} \subseteq PlainTokens /\ {"!", "-"} \subseteq PlainTokens
      /\ {"<", "!", "-"} \cup Star \subseteq PlainTokens
  BY DEF PlainTokens, Stop, Star
<1> HIDE DEF PlainTokens
<1> QED BY <1>1, ArePlain

\* The rules that neither open nor close anything, by the way they are written.
LEMMA NeutralRules ==
  /\ \A p, q, look, n : Together(p, q) /\ AreOther(look, n) => Nests(On(p, look, n, Go(q)))
  /\ \A p, q, look, n, h :
       Together(p, q) /\ AreOther(look, n) => Nests(On(p, look, n, CallExpr(h, q)))
  /\ \A p, q, look, n, f, h :
       Together(p, q) /\ AreOther(look, n) /\ f \notin Waiting
       => Nests(On(p, look, n, Call(f, h, q)))
  /\ \A p, look, n : p \notin Waiting /\ AreOther(look, n) => Nests(On(p, look, n, Return))
  /\ \A p, q, look, n, h :
       p \notin Waiting /\ q \notin Waiting /\ AreOther(look, n) /\ h # Same
       => Nests(On(p, look, n, Become(q, h)))
BY TogetherAlike, GoNests, CallExprNests, CallNests, ReturnNests, BecomeNests

AllNest(rules) == \A r \in rules : Nests(r)

\* The rules that open something, which the activation or one it calls awaits
\* to be closed.
LEMMA OpeningRules ==
  /\ \A p, q, A, c :
       p \notin Waiting /\ AllOpen(A, c) /\ IsAwaiting(q, c) => Nests(On(p, <<A>>, 1, Go(q)))
  /\ \A p, q, A, c, h :
       p \notin Waiting /\ AllOpen(A, c) /\ IsAwaiting(q, c) /\ q # "runtime"
       => Nests(On(p, <<A>>, 1, CallExpr(h, q)))
  /\ \A p, q, A, c, f, h :
       /\ p \notin Waiting /\ AllOpen(A, c)
       /\ IsAwaiting(q, c) /\ q # "runtime" /\ f \notin Waiting
       => Nests(On(p, <<A>>, 1, Call(f, h, q)))
  /\ \A p, q, A, c, f, h :
       /\ p \notin Waiting /\ AllOpen(A, c)
       /\ q \notin Waiting /\ h # Same /\ Awaits(f, h) = <<c>>
       => Nests(On(p, <<A>>, 1, Call(f, h, q)))
  /\ \A p, A, c, f, h :
       p \notin Waiting /\ AllOpen(A, c) /\ h # Same /\ Awaits(f, h) = <<c>>
       => Nests(On(p, <<A>>, 1, Become(f, h)))
  /\ \A p, q, A, c, f, h, o :
       /\ p \notin Waiting /\ AllOpen(A, c)
       /\ q \notin Waiting /\ h # Same /\ Awaits(f, h) = <<c>>
       => Nests(On(p, <<A>>, 1, Become(q, o) \o Become(f, h)))
<1>1. \A p, A, c, to :
        p \notin Waiting /\ AllOpen(A, c) /\ (\A how : Gives(to, how, <<c>>))
        => Nests(On(p, <<A>>, 1, to))
  <2> SUFFICES ASSUME NEW p, NEW A, NEW c, NEW to, p \notin Waiting, AllOpen(A, c),
                      \A how : Gives(to, how, <<c>>)
               PROVE  Nests(On(p, <<A>>, 1, to))
    OBVIOUS
  <2>1. 1 \in DOMAIN <<A>> /\ <<A>>[1] = A
    OBVIOUS
  <2> QED BY <2>1, OpeningNests
<1>2. \A q, c : IsAwaiting(q, c) =>
        /\ \A how : Gives(Go(q), how, <<c>>)
        /\ q # "runtime" => \A h, how : Gives(CallExpr(h, q), how, <<c>>)
        /\ q # "runtime" => \A f, h, how : f \notin Waiting => Gives(Call(f, h, q), how, <<c>>)
  BY Targets DEF IsAwaiting
<1>3. \A f, h, c : h # Same /\ Awaits(f, h) = <<c>> =>
        /\ \A how : Gives(Become(f, h), how, <<c>>)
        /\ \A q, how : q \notin Waiting => Gives(Call(f, h, q), how, <<c>>)
        /\ \A q, o, how : q \notin Waiting => Gives(Become(q, o) \o Become(f, h), how, <<c>>)
  <2> SUFFICES ASSUME NEW f, NEW h, NEW c, h # Same, Awaits(f, h) = <<c>>
               PROVE
        /\ \A how : Gives(Become(f, h), how, <<c>>)
        /\ \A q, how : q \notin Waiting => Gives(Call(f, h, q), how, <<c>>)
        /\ \A q, o, how : q \notin Waiting => Gives(Become(q, o) \o Become(f, h), how, <<c>>)
    OBVIOUS
  <2>1. \A how : Gives(Become(f, h), how, Awaits(f, h))
    BY Targets
  <2>2. \A q, how : q \notin Waiting => Gives(Call(f, h, q), how, Awaits(f, h))
    BY Targets
  <2>3. \A q, o, how : q \notin Waiting => Gives(Become(q, o) \o Become(f, h), how, Awaits(f, h))
    BY Targets
  <2> QED BY <2>1, <2>2, <2>3
<1>4. \A p, q, A, c :
       p \notin Waiting /\ AllOpen(A, c) /\ IsAwaiting(q, c) => Nests(On(p, <<A>>, 1, Go(q)))
  BY <1>1, <1>2
<1>5. \A p, q, A, c, h :
       p \notin Waiting /\ AllOpen(A, c) /\ IsAwaiting(q, c) /\ q # "runtime"
       => Nests(On(p, <<A>>, 1, CallExpr(h, q)))
  BY <1>1, <1>2
<1>6. \A p, q, A, c, f, h :
       /\ p \notin Waiting /\ AllOpen(A, c)
       /\ IsAwaiting(q, c) /\ q # "runtime" /\ f \notin Waiting
       => Nests(On(p, <<A>>, 1, Call(f, h, q)))
  BY <1>1, <1>2
<1>7. \A p, q, A, c, f, h :
       /\ p \notin Waiting /\ AllOpen(A, c)
       /\ q \notin Waiting /\ h # Same /\ Awaits(f, h) = <<c>>
       => Nests(On(p, <<A>>, 1, Call(f, h, q)))
  BY <1>1, <1>3
<1>8. \A p, A, c, f, h :
       p \notin Waiting /\ AllOpen(A, c) /\ h # Same /\ Awaits(f, h) = <<c>>
       => Nests(On(p, <<A>>, 1, Become(f, h)))
  BY <1>1, <1>3
<1>9. \A p, q, A, c, f, h, o :
       /\ p \notin Waiting /\ AllOpen(A, c)
       /\ q \notin Waiting /\ h # Same /\ Awaits(f, h) = <<c>>
       => Nests(On(p, <<A>>, 1, Become(q, o) \o Become(f, h)))
  BY <1>1, <1>3
<1> QED BY <1>4, <1>5, <1>6, <1>7, <1>8, <1>9

\* The rules that close what the activation awaits.
LEMMA ClosingRules ==
  /\ \A p, q, c : c \in Closing /\ IsAwaiting(p, c) /\ q \notin Waiting => Nests(On(p, <<{c}>>, 1, Go(q)))
  /\ \A p, c : c \in Closing /\ IsAwaiting(p, c) => Nests(On(p, <<{c}>>, 1, Return))
<1>1. \A q : q \notin Waiting => \A how : Gives(Go(q), how, <<>>)
  <2> SUFFICES ASSUME NEW q, q \notin Waiting, NEW how PROVE Gives(Go(q), how, <<>>)
    OBVIOUS
  <2>1. Awaits(q, how) = <<>>
    BY AwaitsNothing
  <2>2. Gives(Go(q), how, Awaits(q, how))
    BY Targets
  <2> QED BY <2>1, <2>2
<1>2. \A how : Gives(Return, how, <<>>)
  BY Targets
<1>3. \A p, q, c : c \in Closing /\ IsAwaiting(p, c) /\ q \notin Waiting => Nests(On(p, <<{c}>>, 1, Go(q)))
  BY <1>1, ClosingNests
<1>4. \A p, c : c \in Closing /\ IsAwaiting(p, c) => Nests(On(p, <<{c}>>, 1, Return))
  BY <1>2, ClosingNests
<1> QED BY <1>3, <1>4

\* The way an activation was called does not matter to what its rules look at.
LEMMA UnderNests == \A hows, rules : AllNest(rules) => AllNest(Under(hows, rules))
<1> TAKE hows, rules
<1> HAVE AllNest(rules)
<1> SUFFICES ASSUME NEW r \in Under(hows, rules) PROVE Nests(r)
  BY DEF AllNest
<1>1. PICK s \in rules : r = [s EXCEPT !.how = hows]
  BY DEF Under
<1>2. Nests(s)
  BY <1>1 DEF AllNest
<1>3. s = [at |-> s.at, how |-> s.how, look |-> s.look, eat |-> s.eat, to |-> s.to]
  BY <1>2 DEF Nests
<1>4. r = [at |-> s.at, how |-> hows, look |-> s.look, eat |-> s.eat, to |-> s.to]
  BY <1>1, <1>3
<1> QED BY <1>2, <1>4 DEF Nests, NestsAs

LEMMA SomePlain ==
  /\ {"term"} \subseteq Plain /\ {":"} \subseteq Plain /\ {","} \subseteq Plain /\ {"."} \subseteq Plain
  /\ {"id"} \subseteq Plain /\ {"Type"} \subseteq Plain /\ {"::"} \subseteq Plain /\ {"="} \subseteq Plain
  /\ {"->"} \subseteq Plain /\ {"mod"} \subseteq Plain /\ {"var"} \subseteq Plain
  /\ {"if"} \subseteq Plain /\ {"else"} \subseteq Plain /\ {"goto"} \subseteq Plain
  /\ {"break"} \subseteq Plain /\ {"return"} \subseteq Plain /\ {"func"} \subseteq Plain
  /\ {"extern"} \subseteq Plain /\ {"namespace"} \subseteq Plain /\ {"partial"} \subseteq Plain
  /\ {"&"} \subseteq Plain /\ {"++"} \subseteq Plain /\ {"*a"} \subseteq Plain
BY PlainSets DEF PlainTokens

LEMMA SomeAwaiting ==
  /\ IsAwaiting("first param", ")") /\ IsAwaiting("params", ")") /\ IsAwaiting("type )", ")")
  /\ IsAwaiting("paren )", ")") /\ IsAwaiting("type ]", "]") /\ IsAwaiting("subscript", "]")
  /\ IsAwaiting("block", "}") /\ IsAwaiting("members", "}")
  /\ IsAwaiting("repeat", "loop") /\ IsAwaiting("loop", "loop")
  /\ IsAwaiting("runtime", SwallowsTwo)
  /\ Awaits("elements", ")") = <<")">> /\ Awaits("elements", "]") = <<"]">>
  /\ \A how : Awaits("block", how) = <<"}">>
<1>1. /\ "first param" \in InParen /\ "params" \in InParen /\ "type )" \in InParen
      /\ "paren )" \in InParen /\ "type ]" \in InBracket /\ "subscript" \in InBracket
      /\ "block" \in InBrace /\ "members" \in InBrace /\ "repeat" \in InLoop /\ "loop" \in InLoop
      /\ "elements" \in InList
  BY DEF InParen, InBracket, InBrace, InLoop, InList
<1>2. IsAwaiting("runtime", SwallowsTwo)
  BY AwaitsOne DEF IsAwaiting
<1>3. Awaits("elements", ")") = <<")">> /\ Awaits("elements", "]") = <<"]">>
  BY <1>1, AwaitsOne
<1>4. \A how : Awaits("block", how) = <<"}">>
  BY <1>1, AwaitsOne
<1> QED BY <1>1, <1>2, <1>3, <1>4, AwaitingFacts

LEMMA NotSame ==
  /\ Same # "top" /\ Same # "term" /\ Same # "inline" /\ Same # "expr" /\ Same # "type"
  /\ Same # "name" /\ Same # "]" /\ Same # ")" /\ Same # "eql" /\ Same # "noeql"
  /\ Same # "partial eql" /\ Same # "partial noeql"
BY DEF Same

\* The activations of the statements, of the expressions and of the type
\* specifiers.
LEMMA EndingsNest == AllNest(Ending) /\ AllNest(EndOfLine) /\ AllNest(EndOfList)
<1> USE SomePlain, PlainSets, Looks, NeutralRules
    DEF AllNest, Together, Waiting, InParen, InBracket, InList, InBrace, InLoop
<1>1. /\ AllNest({On("ending", <<Stop>>, 1, Return), On("ending", <<{"}"}>>, 0, Return)})
      /\ AllNest({On("ending", <<>>, 0, Return)})
  OBVIOUS
<1>2. /\ AllNest({On("end of line", <<{"term"}>>, 1, Return)})
      /\ AllNest({On("end of line", <<>>, 0, Return)})
  OBVIOUS
<1>3. /\ AllNest({On("end of list", <<Stop>>, 1, Return)})
      /\ AllNest({On("end of list", <<>>, 0, Return)})
  OBVIOUS
<1> QED BY ONLY <1>1, <1>2, <1>3, UnderNests DEF Ending, EndOfLine, EndOfList, AllNest

LEMMA VarDefNests == AllNest(VarDefStmt)
BY SomePlain, PlainSets, Looks, NeutralRules
   DEF VarDefStmt, AllNest, Together, Waiting, InParen, InBracket, InList, InBrace, InLoop

LEMMA ExternNests == AllNest(ExternStmt)
<1> USE SomePlain, PlainSets, Looks, NeutralRules
    DEF AllNest, Together, Waiting, InParen, InBracket, InList, InBrace, InLoop
<1>1. AllNest(
  {On("extern", <<{"id"}>>, 1, Go("extern ::")),
   On("extern ::", <<{"::"}>>, 1, Call("type", "type", "defaults")),
   On("defaults", <<{"="}>>, 1, Go("first default")),
   On("defaults", <<AllBut({"="})>>, 0, Go("ending"))})
  OBVIOUS
<1>2. \A stop : AllNest(Values("first default", "more defaults", "next default", stop, "ending"))
  BY DEF Values
<1> QED BY ONLY <1>1, <1>2 DEF ExternStmt, AllNest

LEMMA InstNests == AllNest(InstOrAssignStmt)
<1> USE SomePlain, PlainSets, Looks, NeutralRules
    DEF AllNest, Together, Waiting, InParen, InBracket, InList, InBrace, InLoop
<1>1. AllNest(
  {On("inst", <<{"++"}>>, 1, Go("ending")),
   On("inst", <<{"=", "+="}>>, 1, CallExpr("eql", "ending")),
   On("inst", <<AllBut({"++", "=", "+="})>>, 0, Go("first value"))})
  OBVIOUS
<1>2. \A stop : AllNest(Values("first value", "more values", "next value", stop, "end of list"))
  BY DEF Values
<1> QED BY ONLY <1>1, <1>2 DEF InstOrAssignStmt, AllNest

LEMMA LabelsNest ==
  /\ AllNest(GotoGosubStmt) /\ AllNest(LabelStmt)
  /\ Nests(LabelAt("no type", Go("postfix")))
BY SomePlain, PlainSets, Looks, NeutralRules
   DEF GotoGosubStmt, LabelStmt, LabelAt, AllNest, Together, Waiting, InParen, InBracket, InList, InBrace, InLoop

LEMMA BlocksNest == AllNest(CompStmt) /\ AllNest(NamespaceStmt)
<1>1. /\ Together("block", "block") /\ Together("members", "members")
      /\ "stmt" \notin Waiting /\ "namespace" \notin Waiting /\ "end of line" \notin Waiting
  BY DEF Together, Waiting, InParen, InBracket, InList, InBrace, InLoop
<1>2. /\ \A look : AreOther(look, 0)
      /\ AreOther(<<{"term"}>>, 1)
  BY SomePlain, Looks
<1>3. /\ Nests(On("block", <<{"}"}>>, 1, Return))
      /\ Nests(On("block", <<{"term"}>>, 1, Go("block")))
      /\ Nests(On("block", <<AllBut({"}", "term", END})>>, 0, Call("stmt", "term", "block")))
  BY <1>1, <1>2, NeutralRules, ClosingRules, Brackets, SomeAwaiting
<1>4. /\ Nests(On("namespace", <<{"{"}>>, 1, Go("members")))
      /\ Nests(On("members", <<{"}"}>>, 1, Go("end of line")))
  BY <1>1, OpeningRules, ClosingRules, Brackets, SomeAwaiting
<1>5. /\ Nests(On("members", <<{"term"}>>, 1, Go("members")))
      /\ Nests(On("members", <<AllBut({"}", "term", END})>>, 0, Call("stmt", "top", "members")))
  BY <1>1, <1>2, NeutralRules
<1>6. AllNest(CompStmt)
  BY <1>3 DEF CompStmt, AllNest
<1>7. AllNest(NamespaceStmt)
  BY <1>4, <1>5 DEF NamespaceStmt, AllNest
<1> QED BY <1>6, <1>7

LEMMA BlockRules == \A p, q : p \notin Waiting /\ q \notin Waiting => Nests(On(p, <<{"{"}>>, 1, Call("block", "term", q)))
<1> TAKE p, q
<1> HAVE p \notin Waiting /\ q \notin Waiting
<1>1. AllOpen({"{"}, "}") /\ "term" # Same /\ Awaits("block", "term") = <<"}">>
  BY Brackets, NotSame, SomeAwaiting
<1> QED BY <1>1, OpeningRules

LEMMA FuncDefNests == AllNest(FuncDefStmt) /\ AllNest(FuncExpr)
<1> USE SomePlain, PlainSets, Looks, NeutralRules
    DEF AllNest, Together, Waiting, InParen, InBracket, InList, InBrace, InLoop
<1>1. AllNest(
  {On("first param", <<{"id"}>>, 1, Go("param type")),
   On("param type", <<{"::"}>>, 1, Call("type", "type", "default")),
   On("param type", <<AllBut({"::"})>>, 0, Go("default")),
   On("params", <<{","}>>, 1, Go("param")),
   On("params", <<{"id"}>>, 1, Go("param type")),
   On("param", <<{"id"}>>, 1, Go("param type")),
   On("result", <<{"::"}>>, 1, Call("type", "type", "body")),
   On("result", <<AllBut({"::"})>>, 0, Go("body"))})
  OBVIOUS
<1>2. AllNest(
  {On("func (", <<Paren>>, 1, Go("first param")),
   On("first param", <<{")"}>>, 1, Go("result")),
   On("params", <<{")"}>>, 1, Go("result")),
   On("body", <<{"{"}>>, 1, Call("block", "term", "end of line"))})
  <2>1. "func (" \notin Waiting /\ "result" \notin Waiting /\ "body" \notin Waiting /\ "end of line" \notin Waiting
    OBVIOUS
  <2>2. Nests(On("func (", <<Paren>>, 1, Go("first param")))
    BY ONLY <2>1, OpeningRules, Brackets, SomeAwaiting
  <2>3. /\ Nests(On("first param", <<{")"}>>, 1, Go("result")))
        /\ Nests(On("params", <<{")"}>>, 1, Go("result")))
    BY ONLY <2>1, ClosingRules, Brackets, SomeAwaiting
  <2>4. Nests(On("body", <<{"{"}>>, 1, Call("block", "term", "end of line")))
    BY ONLY <2>1, BlockRules
  <2> QED BY ONLY <2>2, <2>3, <2>4 DEF AllNest
<1>3. AllNest(
    {On("default", <<{"="}>>, 1, CallExpr("eql", "params")),
     On("default", <<AllBut({"="})>>, 0, Go("params"))})
  OBVIOUS
<1>4. AllNest({On("default", <<>>, 0, Go("params"))})
  OBVIOUS
<1> QED BY ONLY <1>1, <1>2, <1>3, <1>4, UnderNests DEF FuncDefStmt, FuncExpr, AllNest

LEMMA TypeSpecNests == AllNest(TypeSpec)
<1> USE SomePlain, PlainSets, Looks, NeutralRules
    DEF AllNest, Together, Waiting, InParen, InBracket, InList, InBrace, InLoop
<1>1. AllNest(
  {On("type", <<{"mod"}>>, 1, Go("type")),
   On("type", <<{"Type"}>>, 1, Go("type members")),
   On("type members", <<{"."}, AllBut({"Type"})>>, 0, Return),
   On("type members", <<AllBut({".", "->"})>>, 0, Return)})
  OBVIOUS
<1>2. AllNest(
    {On("type members", <<{"."}, {"Type"}>>, 2, Go("type members")),
     On("type members", <<{"->"}>>, 1, Go("type"))})
  OBVIOUS
<1>3. "type" \notin Waiting /\ "type members" \notin Waiting /\ "type )" # "runtime" /\ "type ]" # "runtime"
  OBVIOUS
<1>4. Nests(On("type", <<Paren>>, 1, Call("type", Same, "type )")))
  BY ONLY <1>3, OpeningRules, Brackets, SomeAwaiting
<1>5. Nests(On("type", <<Bracket>>, 1, Call("type", Same, "type ]")))
  BY ONLY <1>3, OpeningRules, Brackets, SomeAwaiting
<1>6. Nests(On("type )", <<{")"}>>, 1, Go("type members"))) /\ Nests(On("type ]", <<{"]"}>>, 1, Go("type members")))
  BY ONLY <1>3, ClosingRules, Brackets, SomeAwaiting
<1>7. /\ AllNest(
            {On("type", <<{"mod"}>>, 1, Go("type")),
             On("type", <<{"Type"}>>, 1, Go("type members")),
             On("type", <<Paren>>, 1, Call("type", Same, "type )")),
             On("type )", <<{")"}>>, 1, Go("type members")),
             On("type ]", <<{"]"}>>, 1, Go("type members")),
             On("type members", <<{"."}, AllBut({"Type"})>>, 0, Return),
             On("type members", <<AllBut({".", "->"})>>, 0, Return)})
      /\ AllNest(
            {On("type", <<Bracket>>, 1, Call("type", Same, "type ]")),
             On("type members", <<{"."}, {"Type"}>>, 2, Go("type members")),
             On("type members", <<{"->"}>>, 1, Go("type"))})
  BY ONLY <1>1, <1>2, <1>4, <1>5, <1>6 DEF AllNest
<1> QED BY ONLY <1>7, UnderNests DEF TypeSpec, ClosesArray, AllNest

LEMMA IfNests == AllNest(IfStmt)
<1> USE SomePlain, PlainSets, Looks, NeutralRules
    DEF AllNest, Together, Waiting, InParen, InBracket, InList, InBrace, InLoop
<1>1. AllNest(
  {On("if", <<{"{"}>>, 1, Call("block", "term", "else")),
   On("else if", <<{"{"}>>, 1, Call("block", "term", "else")),
   On("last else", <<{"{"}>>, 1, Call("block", "term", "ending"))})
  BY BlockRules
<1>2. AllNest(
  {On("else", <<{"else"}, {"if"}>>, 2, CallExpr("eql", "else if")),
   On("else", <<{"else"}, {":"}, {"if"}>>, 3, CallExpr("eql", "else if")),
   On("else", <<{"else"}, {":"}, AllBut({"if"})>>, 1, Go("last else")),
   On("else", <<{"else"}, AllBut({"if", ":"})>>, 1, Go("last else")),
   On("else", <<AllBut({"else"})>>, 0, Go("ending"))})
  OBVIOUS
<1>3. AllNest(
  {On("if", <<{":"}>>, 1, Go("then")),
   On("then", <<{"term"}>>, 0, Go("end of line")),
   On("then", <<{"else"}>>, 1, Go("else :")),
   On("then", <<AllBut({"term", "else"})>>, 0, Call("stmt", "inline", "after then")),
   On("after then", <<{":"}>>, 1, Go("then")),
   On("after then", <<AfterThen>>, 0, Go("then")),
   On("else :", <<{":"}>>, 1, Go("otherwise")),
   On("otherwise", <<{"term"}>>, 0, Go("end of line")),
   On("otherwise", <<AllBut({"term", END})>>, 0, Call("stmt", "inline", "after otherwise")),
   On("after otherwise", <<{":"}>>, 1, Go("otherwise")),
   On("after otherwise", <<AllBut({":"})>>, 0, Go("otherwise"))})
  OBVIOUS
<1> QED BY ONLY <1>1, <1>2, <1>3 DEF IfStmt, AllNest

LEMMA RepeatNests == AllNest(RepeatStmt)
BY SomePlain, PlainSets, Looks, NeutralRules, ClosingRules, Brackets, SomeAwaiting
   DEF RepeatStmt, AllNest, Together, Waiting, InParen, InBracket, InList, InBrace, InLoop

LEMMA OperatorsNest == AllNest(BinaryExpr) /\ AllNest(UnaryExpr)
<1> USE SomePlain, PlainSets, Looks, NeutralRules, NotSame
    DEF AllNest, Together, Waiting, InParen, InBracket, InList, InBrace, InLoop
<1>1. Nests(On("binary", <<{"&"}>>, 1, Become("binary", "eql") \o Become("unary", "eql")))
  <2>1. AreOther(<<{"&"}>>, 1) /\ "binary" \notin Waiting /\ "unary" \notin Waiting
    OBVIOUS
  <2>2. ASSUME NEW how
        PROVE  /\ Gives(Become("binary", "eql") \o Become("unary", "eql"), how, <<>>)
               /\ Turns(<<{"&"}>>, 1, Awaits("binary", how), <<>>)
    <3>1. Gives(Become("binary", "eql") \o Become("unary", "eql"), how, Awaits("unary", "eql"))
      BY ONLY <2>1, Targets, NotSame
    <3>2. Awaits("unary", "eql") = <<>> /\ Awaits("binary", how) = <<>>
      BY ONLY <2>1, AwaitsNothing
    <3> QED BY ONLY <3>1, <3>2, <2>1, NeutralTurns, NothingIsNotTwo
  <2> QED BY ONLY <2>2, OnNests
<1>2. AllNest({
   On("binary", <<{"<", "!", "-"} \cup Star>>, 1, Call("unary", "eql", "binary")),
   On("binary", <<AllBut({"&", "<", "!", "-", "="} \cup Star)>>, 0, Return)})
  OBVIOUS
<1>3. /\ AllNest({On("binary", <<{"="}>>, 1, Call("unary", "eql", "binary"))})
      /\ AllNest({On("binary", <<{"="}>>, 0, Return)})
  OBVIOUS
<1>4. AllNest(
  {On("unary", <<{"!", "-"}>>, 1, Become("unary", "eql")),
   On("unary", <<AllBut({"!", "-", "partial"})>>, 0, Go("operand"))})
  OBVIOUS
<1>5. /\ AllNest({On("unary", <<{"partial"}>>, 1, Become("operand", "partial eql"))})
      /\ AllNest({On("unary", <<{"partial"}>>, 1, Become("operand", "partial noeql"))})
  OBVIOUS
<1>6. AllNest(BinaryExpr)
  BY ONLY <1>1, <1>2, <1>3, UnderNests DEF BinaryExpr, AllNest
<1>7. AllNest(UnaryExpr)
  BY ONLY <1>4, <1>5, UnderNests DEF UnaryExpr, AllNest
<1> QED BY ONLY <1>6, <1>7

LEMMA OperandsNest == AllNest(TypedOperand) /\ AllNest(PrimaryExpr)
<1> USE SomePlain, PlainSets, Looks, NeutralRules
    DEF AllNest, Together, Waiting, InParen, InBracket, InList, InBrace, InLoop
<1>1. /\ "constructed" \notin Waiting /\ "no type" \notin Waiting /\ "postfix" \notin Waiting
      /\ "paren )" # "runtime"
  OBVIOUS
<1>2. AllNest(
  {On("constructed", <<{"."}>>, 1, Go("member")),
   On("member", <<{"id"}>>, 1, Go("postfix")),
   On("no type", <<{"func"}>>, 1, Call("func (", "expr", "postfix")),
   On("no type", <<{"id", "lit", "str"}>>, 1, Go("postfix"))})
  OBVIOUS
<1>3. Nests(On("constructed", <<Paren>>, 1, Become("elements", ")")))
  BY ONLY <1>1, OpeningRules, Brackets, SomeAwaiting, NotSame
<1>4. Nests(On("no type", <<Bracket>>, 1, Call("elements", "]", "postfix")))
  BY ONLY <1>1, OpeningRules, Brackets, SomeAwaiting, NotSame
<1>5. Nests(On("no type", <<Paren>>, 1, CallExpr("eql", "paren )")))
  BY ONLY <1>1, OpeningRules, Brackets, SomeAwaiting
<1>6. Nests(On("paren )", <<{")"}>>, 1, Go("postfix")))
  BY ONLY <1>1, ClosingRules, Brackets, SomeAwaiting
<1>7. AllNest(TypedOperand)
  BY ONLY <1>2, <1>3 DEF TypedOperand, AllNest
<1>8. AllNest(PrimaryExpr)
  BY ONLY <1>2, <1>4, <1>5, <1>6, LabelsNest DEF PrimaryExpr, AllNest
<1> QED BY ONLY <1>7, <1>8

LEMMA SuffixesNest ==
  \A how, partial, paren, bracket : paren \subseteq Paren /\ bracket \subseteq Bracket =>
    AllNest(Suffixes(how, partial, paren, bracket))
<1> TAKE how, partial, paren, bracket
<1> HAVE paren \subseteq Paren /\ bracket \subseteq Bracket
<1>1. /\ "postfix" \notin Waiting /\ "subscript" # "runtime" /\ "member" \notin Waiting
  BY DEF Waiting, InParen, InBracket, InList, InBrace, InLoop
<1>2. AllOpen(paren, ")") /\ AllOpen(bracket, "]")
  BY Brackets
<1>3. Nests(On("postfix", <<bracket>>, 1, CallExpr("eql", "subscript")))
  BY <1>1, <1>2, OpeningRules, SomeAwaiting
<1>4. Nests(On("postfix", <<paren>>, 1, Become("postfix", how) \o Become("elements", ")")))
  BY <1>1, <1>2, OpeningRules, SomeAwaiting, NotSame
<1>5. Nests(On("postfix", <<{"."}>>, 1, Go("member")))
  BY <1>1, SomePlain, Looks, NeutralRules DEF Together
<1>6. Nests(On("postfix", <<AllBut(paren \cup bracket \cup {"."})>>, 0, Return))
  BY <1>1, Looks, NeutralRules
<1>7. /\ AllNest({On("postfix", <<bracket>>, 1, CallExpr("eql", "subscript")),
                  On("postfix", <<paren>>, 1, Become("postfix", how) \o Become("elements", ")")),
                  On("postfix", <<{"."}>>, 1, Go("member"))})
      /\ AllNest({On("postfix", <<AllBut(paren \cup bracket \cup {"."})>>, 0, Return)})
  BY <1>3, <1>4, <1>5, <1>6 DEF AllNest
<1> QED BY <1>7, UnderNests DEF Suffixes, AllNest

LEMMA PostfixNests == AllNest(PostfixExpr)
<1>1. "postfix" \notin Waiting
  BY DEF Waiting, InParen, InBracket, InList, InBrace, InLoop
<1>2. Nests(On("subscript", <<{"]"}>>, 1, Go("postfix")))
  BY <1>1, ClosingRules, Brackets, SomeAwaiting
<1>3. Paren \subseteq Paren /\ Bracket \subseteq Bracket /\ {"("} \subseteq Paren /\ {"["} \subseteq Bracket
  BY DEF Paren, Bracket
<1>4. AllNest(Suffixes("eql", "partial eql", Paren, Bracket)) /\ AllNest(Suffixes("noeql", "partial noeql", {"("}, {"["}))
  BY <1>3, SuffixesNest
<1> QED BY <1>2, <1>4 DEF PostfixExpr, ClosesSubscript, AllNest

\* The rules of a list hold for what closes it.
LEMMA ElementsNest == \A r \in Elements : \A how \in r.how : NestsAs(r, how)
<1>1. /\ "elements" \in InList /\ "more elements" \in InList
      /\ "elements" # "runtime" /\ "more elements" # "runtime"
  BY DEF InList
<1>2. ASSUME NEW close \in {")", "]"}, NEW point \in InList
      PROVE  NestsAs([On(point, <<{close}>>, 1, Return) EXCEPT !.how = {close}], close)
  <2> DEFINE r == [On(point, <<{close}>>, 1, Return) EXCEPT !.how = {close}]
  <2>1. r.at = point /\ r.look = <<{close}>> /\ r.eat = 1 /\ r.to = Return
    BY DEF On
  <2> HIDE DEF r
  <2>2. Awaits(point, close) = <<close>> /\ close \in Closing
    BY AwaitsOne, Brackets
  <2>3. Gives(Return, close, <<>>)
    BY Targets
  <2>4. 1 \in DOMAIN <<{close}>> /\ <<{close}>>[1] = {close}
    OBVIOUS
  <2>5. Turns(<<{close}>>, 1, <<close>>, <<>>)
    BY <2>2, <2>4 DEF Turns
  <2>6. NestsAs(r, close)
    BY <2>1, <2>2, <2>3, <2>5 DEF NestsAs
  <2> QED BY <2>6 DEF r
<1>3. ASSUME NEW close, NEW point \in InList, NEW look, NEW n, AreOther(look, n)
      PROVE  NestsAs([On(point, look, n, CallExpr("eql", "more elements")) EXCEPT !.how = {close}], close)
  <2> DEFINE s == On(point, look, n, CallExpr("eql", "more elements"))
             r == [s EXCEPT !.how = {close}]
  <2>1. Nests(s)
    BY <1>1, <1>3, NeutralRules DEF Together
  <2>2. s = [at |-> s.at, how |-> s.how, look |-> s.look, eat |-> s.eat, to |-> s.to]
    BY DEF On
  <2> HIDE DEF s
  <2>3. r.at = s.at /\ r.look = s.look /\ r.eat = s.eat /\ r.to = s.to
    BY <2>2
  <2> HIDE DEF r
  <2>4. NestsAs(r, close)
    BY <2>1, <2>3 DEF Nests, NestsAs
  <2> QED BY <2>4 DEF r, s
<1> SUFFICES ASSUME NEW close \in {")", "]"},
                    NEW r \in Under({close},
    {On("elements", <<{close}>>, 1, Return),
     On("elements", <<AllBut({close, "term", END})>>, 0, CallExpr("eql", "more elements")),
     On("more elements", <<{close}>>, 1, Return),
     On("more elements", <<{","}>>, 1, CallExpr("eql", "more elements")),
     On("more elements", <<AllBut({close, ",", "term", END})>>, 0, CallExpr("eql", "more elements"))}),
                    NEW how \in r.how
             PROVE  NestsAs(r, how)
  BY DEF Elements
<1>4. PICK s \in {On("elements", <<{close}>>, 1, Return),
     On("elements", <<AllBut({close, "term", END})>>, 0, CallExpr("eql", "more elements")),
     On("more elements", <<{close}>>, 1, Return),
     On("more elements", <<{","}>>, 1, CallExpr("eql", "more elements")),
     On("more elements", <<AllBut({close, ",", "term", END})>>, 0, CallExpr("eql", "more elements"))}
     : r = [s EXCEPT !.how = {close}]
  BY DEF Under
<1>5. how = close
  <2>1. s = [at |-> s.at, how |-> s.how, look |-> s.look, eat |-> s.eat, to |-> s.to]
    BY DEF On
  <2>2. r.how = {close}
    BY <1>4, <2>1
  <2> QED BY <2>2
<1>6. AreOther(<<{","}>>, 1)
  BY SomePlain, Looks
<1>7. \A look : AreOther(look, 0)
  BY Looks
<1>8. CASE s \in {On("elements", <<{close}>>, 1, Return), On("more elements", <<{close}>>, 1, Return)}
  BY <1>1, <1>2, <1>4, <1>5, <1>8
<1>9. CASE s = On("elements", <<AllBut({close, "term", END})>>, 0, CallExpr("eql", "more elements"))
  BY <1>1, <1>3, <1>4, <1>5, <1>7, <1>9
<1>10. CASE s = On("more elements", <<{","}>>, 1, CallExpr("eql", "more elements"))
  BY <1>1, <1>3, <1>4, <1>5, <1>6, <1>10
<1>11. CASE s = On("more elements", <<AllBut({close, ",", "term", END})>>, 0, CallExpr("eql", "more elements"))
  BY <1>1, <1>3, <1>4, <1>5, <1>7, <1>11
<1> QED BY <1>4, <1>8, <1>9, <1>10, <1>11

LEMMA StmtNests == AllNest(Stmt) /\ AllNest(TransUnit)
<1> USE SomePlain, PlainSets, Looks, NeutralRules
    DEF AllNest, Together, Waiting, InParen, InBracket, InList, InBrace, InLoop
<1>1. AllNest(
  {On("stmt", <<{"var"}>>, 1, Go("var")),
   On("stmt", <<{"if"}>>, 1, CallExpr("eql", "if")),
   On("stmt", <<Star>>, 0, Go("label")),
   On("stmt", <<{"goto"}>>, 1, Go("goto")),
   On("stmt", <<{"break"}>>, 1, Go("ending")),
   On("stmt", <<{"return"}>>, 1, Go("return")),
   On("return", <<Stop>>, 0, Go("ending")),
   On("return", <<AllBut(Stop)>>, 0, CallExpr("eql", "ending"))})
  OBVIOUS
<1>2. "stmt" \notin Waiting /\ "end of line" \notin Waiting /\ "inst" \notin Waiting /\ "inst" # "runtime"
  OBVIOUS
<1>3. Nests(On("stmt", <<{"{"}>>, 1, Call("block", "term", "end of line")))
  BY ONLY <1>2, BlockRules
<1>4. Nests(On("stmt", <<{"repeat"}>>, 1, Go("repeat")))
  BY ONLY <1>2, OpeningRules, Brackets, SomeAwaiting
<1>5. AllNest({On("stmt", <<{"term"}>>, 1, Go("stmt"))})
  OBVIOUS
<1>6. \A look : Nests(On("stmt", look, 0, Instruction))
  BY ONLY <1>2, Looks, NeutralRules DEF Instruction, Together
<1>7. /\ AllNest({On("stmt", <<{"func"}, AllBut({"id"})>>, 0, Instruction),
                  On("stmt", <<InstructionsStart \ {"func", "extern", "namespace", "#runtime"}>>, 0, Instruction)})
      /\ AllNest({On("stmt", <<InstructionsStart>>, 0, Instruction)})
  BY ONLY <1>6 DEF AllNest
<1>8. AllNest(Stmt)
  BY ONLY <1>1, <1>3, <1>4, <1>5, <1>7, UnderNests DEF Stmt, AllNest
<1>9. AllNest(TransUnit)
  BY DEF TransUnit
<1> QED BY ONLY <1>8, <1>9

LEMMA RuntimeNests ==
  \A how : NestsAs([On("runtime", <<{"str"}, AllBut({"term"})>>, 2, Go("stmt")) EXCEPT !.how = {"top"}], how)
<1> TAKE how
<1> DEFINE look == <<{"str"}, AllBut({"term"})>>
           r == [On("runtime", look, 2, Go("stmt")) EXCEPT !.how = {"top"}]
<1>1. 1 \in DOMAIN look /\ 2 \in DOMAIN look /\ look[1] = {"str"}
  OBVIOUS
<1> HIDE DEF look
<1>2. r.at = "runtime" /\ r.look = look /\ r.eat = 2 /\ r.to = Go("stmt")
  BY DEF On
<1> HIDE DEF r
<1>3. END \notin look[1]
  BY <1>1, TokensAssumption DEF ParserTokens
<1>4. Awaits("runtime", how) = <<SwallowsTwo>>
  BY AwaitsOne
<1>5. Gives(Go("stmt"), how, <<>>)
  <2>1. "stmt" \notin Waiting
    BY DEF Waiting, InParen, InBracket, InList, InBrace, InLoop
  <2>2. Gives(Go("stmt"), how, Awaits("stmt", how)) /\ Awaits("stmt", how) = <<>>
    BY <2>1, Targets, AwaitsNothing
  <2> QED BY <2>2
<1>6. Turns(look, 2, <<SwallowsTwo>>, <<>>)
  BY <1>1, <1>3 DEF Turns
<1>7. NestsAs(r, how)
  BY <1>2, <1>4, <1>5, <1>6 DEF NestsAs
<1> QED BY <1>7 DEF r, look

LEMMA DeclarationsNest == \A r \in Declarations : \A how \in r.how : NestsAs(r, how)
<1>1. AllNest(
    {On("stmt", <<{"func"}, {"id"}>>, 2, Go("func (")),
     On("stmt", <<{"extern"}>>, 1, Go("extern")),
     On("stmt", <<{"namespace"}>>, 1, Call("type", "name", "namespace")),
     On("stmt", <<{"#runtime"}>>, 1, Go("runtime"))})
  <2>1. AllNest(
    {On("stmt", <<{"func"}, {"id"}>>, 2, Go("func (")),
     On("stmt", <<{"extern"}>>, 1, Go("extern")),
     On("stmt", <<{"namespace"}>>, 1, Call("type", "name", "namespace"))})
    BY SomePlain, PlainSets, Looks, NeutralRules
       DEF AllNest, Together, Waiting, InParen, InBracket, InList, InBrace, InLoop
  <2>2. "stmt" \notin Waiting
    BY DEF Waiting, InParen, InBracket, InList, InBrace, InLoop
  <2>3. Nests(On("stmt", <<{"#runtime"}>>, 1, Go("runtime")))
    BY <2>2, OpeningRules, Brackets, SomeAwaiting
  <2> QED BY <2>1, <2>3 DEF AllNest
<1> DEFINE some ==
    {On("stmt", <<{"func"}, {"id"}>>, 2, Go("func (")),
     On("stmt", <<{"extern"}>>, 1, Go("extern")),
     On("stmt", <<{"namespace"}>>, 1, Call("type", "name", "namespace")),
     On("stmt", <<{"#runtime"}>>, 1, Go("runtime"))}
           one == On("runtime", <<{"str"}, AllBut({"term"})>>, 2, Go("stmt"))
<1> SUFFICES ASSUME NEW r \in Declarations PROVE \A how : NestsAs(r, how)
  OBVIOUS
<1>2. r \in Under({"top"}, some) \/ r = [one EXCEPT !.how = {"top"}]
  BY DEF Declarations, Under
<1>3. AllNest(Under({"top"}, some))
  BY <1>1, UnderNests
<1>4. CASE r \in Under({"top"}, some)
  <2> HIDE DEF some
  <2> QED BY <1>3, <1>4 DEF AllNest, Nests
<1>5. CASE r = [one EXCEPT !.how = {"top"}]
  BY <1>5, RuntimeNests
<1> QED BY <1>2, <1>4, <1>5

\* Every rule does to the brackets what its tokens do.
LEMMA RulesNest == \A r \in Rules : \A how \in r.how : NestsAs(r, how)
<1>1. \A r \in Ending \cup EndOfLine \cup EndOfList \cup TransUnit \cup Stmt \cup FuncDefStmt \cup FuncExpr :
        \A how : NestsAs(r, how)
  BY EndingsNest, StmtNests, FuncDefNests DEF AllNest, Nests
<1>2. \A r \in ExternStmt \cup GotoGosubStmt \cup LabelStmt \cup CompStmt \cup NamespaceStmt \cup VarDefStmt \cup TypeSpec :
        \A how : NestsAs(r, how)
  BY ExternNests, LabelsNest, BlocksNest, VarDefNests, TypeSpecNests DEF AllNest, Nests
<1>3. \A r \in IfStmt \cup RepeatStmt \cup InstOrAssignStmt \cup BinaryExpr \cup UnaryExpr :
        \A how : NestsAs(r, how)
  BY IfNests, RepeatNests, InstNests, OperatorsNest DEF AllNest, Nests
<1>4. \A r \in TypedOperand \cup PostfixExpr \cup PrimaryExpr : \A how : NestsAs(r, how)
  BY OperandsNest, PostfixNests DEF AllNest, Nests
<1> QED BY <1>1, <1>2, <1>3, <1>4, ElementsNest, DeclarationsNest DEF Rules

-----------------------------------------------------------------------------
(* What the activations await, from the outermost to each of them. *)

IsLevels(c, lev) ==
  /\ lev[0] = <<>>
  /\ \A k \in 1..Len(c) : lev[k] = lev[k - 1] \o Awaits(c[k].at, c[k].how)
  /\ \A k \in 0..(Len(c) - 1) : IsClean(lev[k])

LEMMA AwaitsIsOne ==
  \A p, how : \/ Awaits(p, how) = <<>>
              \/ \E c \in Closing : Awaits(p, how) = <<c>>
              \/ Awaits(p, how) = <<SwallowsTwo>>
<1>1. ")" \in Closing /\ "]" \in Closing /\ "}" \in Closing /\ "loop" \in Closing
  BY DEF Closing
<1>2. \A how : how \in {")", "]"} => how \in Closing
  BY <1>1
<1> TAKE p, how
<1>3. CASE p \in InList /\ how \in {")", "]"} /\ p \notin InParen /\ p \notin InBracket
  BY <1>2, <1>3 DEF Awaits
<1>4. CASE ~(p \in InList /\ how \in {")", "]"} /\ p \notin InParen /\ p \notin InBracket)
  BY <1>1, <1>4 DEF Awaits
<1> QED BY <1>3, <1>4

LEMMA NothingMore == \A s : IsSeq(s) => s \o <<>> = s
<1> TAKE s
<1> HAVE IsSeq(s)
<1>1. PICK S : s \in Seq(S)
  BY DEF IsSeq
<1> QED BY <1>1, ConcatEmptySeq

\* Awaiting one more bracket, or none, is clean; and so is nothing.
LEMMA CleanMore ==
  /\ IsClean(<<>>)
  /\ \A s, a : IsClean(s) /\ (a = <<>> \/ \E c \in Closing : a = <<c>>) => IsClean(s \o a)
<1>1. IsClean(<<>>)
  BY EmptyIsSeq DEF IsClean
<1>2. ASSUME NEW s, IsClean(s), NEW c \in Closing
      PROVE  IsClean(s \o <<c>>)
  <2> DEFINE t == s \o <<c>>
  <2>1. IsSeq(s) /\ Len(s) \in Nat
    BY <1>2, LenFacts DEF IsClean
  <2>2. IsOneMore(t, s, c)
    BY <2>1, OneMore
  <2> HIDE DEF t
  <2>3. \A i \in 1..Len(t) : i \in 1..Len(s) \/ i = Len(s) + 1
    BY <2>1, <2>2 DEF IsOneMore
  <2>4. IsClean(t)
    BY <2>2, <2>3, <1>2 DEF IsOneMore, IsClean
  <2> QED BY <2>4 DEF t
<1>3. \A s : IsClean(s) => IsClean(s \o <<>>)
  BY NothingMore DEF IsClean
<1> QED BY <1>1, <1>2, <1>3

\* Levels that stop after some of the activations, and one more.
LEMMA LevelsUpTo ==
  \A c, d, lev, n :
    /\ IsLevels(c, lev) /\ n \in Nat /\ n < Len(c) /\ Len(c) \in Nat /\ Len(d) = n + 1
    /\ \A k \in 1..n : d[k] = c[k]
    /\ lev[n + 1] = lev[n] \o Awaits(d[n + 1].at, d[n + 1].how)
    => IsLevels(d, lev)
<1> SUFFICES ASSUME NEW c, NEW d, NEW lev, NEW n \in Nat,
                    IsLevels(c, lev), n < Len(c), Len(c) \in Nat, Len(d) = n + 1,
                    \A k \in 1..n : d[k] = c[k],
                    lev[n + 1] = lev[n] \o Awaits(d[n + 1].at, d[n + 1].how)
             PROVE  IsLevels(d, lev)
  OBVIOUS
<1>1. \A k \in 1..Len(d) : (k \in 1..n /\ k \in 1..Len(c)) \/ k = n + 1
  OBVIOUS
<1>2. \A k \in 0..(Len(d) - 1) : k \in 0..(Len(c) - 1)
  OBVIOUS
<1>3. \A k \in 1..Len(d) : lev[k] = lev[k - 1] \o Awaits(d[k].at, d[k].how)
  <2> SUFFICES ASSUME NEW k \in 1..Len(d) PROVE lev[k] = lev[k - 1] \o Awaits(d[k].at, d[k].how)
    OBVIOUS
  <2>1. CASE k \in 1..n /\ k \in 1..Len(c)
    BY <2>1 DEF IsLevels
  <2>2. CASE k = n + 1
    <3>1. k - 1 = n
      BY <2>2
    <3> QED BY <2>2, <3>1
  <2> QED BY <2>1, <2>2, <1>1
<1> QED BY <1>2, <1>3 DEF IsLevels

\* The innermost activation is replaced, and the new ones await a.
LevelsGoOn(to, a, lev, m) ==
  /\ IsLevels(calls', m)
  /\ Len(calls') = Len(calls) - 1 + Len(to)
  /\ m[Len(calls')] = lev[Len(calls) - 1] \o a
  /\ \A k \in 0..(Len(calls) - 1) : m[k] = lev[k]

LEMMA LevelsAfter ==
  ASSUME Nested, NEW lev, IsLevels(calls, lev),
         NEW to, NEW a, Gives(to, Here.how, a), calls' = Callers \o Frames(to)
  PROVE  \E m : LevelsGoOn(to, a, lev, m)
<1> DEFINE L == Len(calls)
           base == lev[L - 1]
<1>1. L \in Nat /\ L >= 1 /\ IsSeq(calls)
  BY HereFacts DEF Nested
<1>2. /\ IsSeq(calls') /\ Len(calls') = L - 1 + Len(to)
      /\ \A k \in 1..(L - 1) : calls'[k] = calls[k]
      /\ \A i \in 1..Len(to) :
           calls'[L - 1 + i] =
             [at |-> to[i].at, how |-> IF to[i].how = Same THEN Here.how ELSE to[i].how]
  <2>1. IsSeq(to) /\ \A i \in 1..Len(to) : IsFrame(to[i])
    BY DEF Gives
  <2>2. IsSeq(calls) /\ Len(calls) > 0
    BY DEF Nested
  <2> QED BY ONLY <2>1, <2>2, CallsAfter, calls' = Callers \o Frames(to)
<1>3. \A i \in 1..Len(to) : Awaits(calls'[L - 1 + i].at, calls'[L - 1 + i].how) = AwaitsAs(to[i], Here.how)
  <2> SUFFICES ASSUME NEW i \in 1..Len(to)
               PROVE  Awaits(calls'[L - 1 + i].at, calls'[L - 1 + i].how) = AwaitsAs(to[i], Here.how)
    OBVIOUS
  <2> DEFINE f == calls'[L - 1 + i]
             h == IF to[i].how = Same THEN Here.how ELSE to[i].how
  <2>1. f = [at |-> to[i].at, how |-> h]
    BY <1>2
  <2> HIDE DEF f
  <2>2. f.at = to[i].at /\ f.how = h
    BY <2>1
  <2>3. Awaits(f.at, f.how) = AwaitsAs(to[i], Here.how)
    BY <2>2 DEF AwaitsAs
  <2> QED BY <2>3 DEF f
<1>4. Len(to) \in Nat
  BY LenFacts DEF Gives
<1>5. /\ lev[0] = <<>>
      /\ \A k \in 1..(L - 1) : lev[k] = lev[k - 1] \o Awaits(calls[k].at, calls[k].how)
      /\ \A k \in 0..(L - 1) : IsClean(lev[k])
  <2>1. L - 1 \in Nat /\ \A k \in 1..(L - 1) : k \in 1..Len(calls)
    BY <1>1
  <2>2. \A k \in 0..(L - 1) : IsClean(lev[k])
    BY DEF IsLevels
  <2> QED BY <2>1, <2>2 DEF IsLevels
<1>6. IsClean(base)
  BY <1>1, <1>5
<1> DEFINE U == calls'
<1> HIDE DEF L, base, U
\* The levels when a is awaited from the j-th of the new activations on.
<1>7. ASSUME NEW j \in Nat, NEW m, m = [k \in 0..Len(U) |-> IF k <= L - 1 THEN lev[k] ELSE IF k >= L - 1 + j THEN base \o a ELSE base],
             \A i \in 1..Len(to) : AwaitsAs(to[i], Here.how) = IF i = j THEN a ELSE <<>>,
             j >= 1, j <= Len(to) \/ a = <<>>,
             j < Len(to) => a = <<>> \/ \E c \in Closing : a = <<c>>
      PROVE  LevelsGoOn(to, a, lev, m)
  <2>1. Len(U) \in Nat /\ Len(U) = L - 1 + Len(to) /\ L - 1 \in Nat
    BY <1>1, <1>2, <1>4 DEF U, L
  <2>2. \A k \in 0..(L - 1) : k \in 0..Len(U) /\ m[k] = lev[k]
    BY <2>1, <1>4, <1>7
  <2>3. base \o <<>> = base
    BY <1>6, NothingMore DEF IsClean
  <2>4. ASSUME NEW k \in 1..Len(U)
        PROVE  m[k] = m[k - 1] \o Awaits(U[k].at, U[k].how)
    <3>1. CASE k <= L - 1
      <4>1. k \in 1..(L - 1) /\ k \in 0..(L - 1) /\ k - 1 \in 0..(L - 1)
        BY <2>1, <3>1
      <4>2. m[k] = lev[k] /\ m[k - 1] = lev[k - 1]
        BY <2>2, <4>1
      <4>3. U[k] = calls[k] /\ lev[k] = lev[k - 1] \o Awaits(calls[k].at, calls[k].how)
        BY <4>1, <1>2, <1>5 DEF U, L
      <4> QED BY <4>2, <4>3
    <3>2. CASE ~(k <= L - 1)
      <4> DEFINE i == k - (L - 1)
      <4>1. i \in 1..Len(to) /\ L - 1 + i = k /\ k \in 0..Len(U) /\ k - 1 \in 0..Len(U)
        BY <2>1, <3>2, <1>4
      <4>2. Awaits(U[k].at, U[k].how) = IF i = j THEN a ELSE <<>>
        <5> HIDE DEF i
        <5>1. Awaits(U[L - 1 + i].at, U[L - 1 + i].how) = AwaitsAs(to[i], Here.how)
          BY <4>1, <1>3 DEF U, L
        <5> QED BY <5>1, <4>1, <1>7
      <4>3. m[k] = IF k >= L - 1 + j THEN base \o a ELSE base
        BY <3>2, <4>1, <1>7
      <4>4. m[k - 1] = IF k - 1 >= L - 1 + j THEN base \o a ELSE base
        <5>1. CASE k - 1 <= L - 1
          <6>1. k - 1 = L - 1 /\ ~(k - 1 >= L - 1 + j)
            BY <2>1, <3>2, <5>1, <1>7
          <6>2. m[k - 1] = lev[k - 1]
            BY <4>1, <5>1, <1>7
          <6> QED BY <6>1, <6>2 DEF base
        <5>2. CASE ~(k - 1 <= L - 1)
          BY <4>1, <5>2, <1>7
        <5> QED BY <5>1, <5>2
      <4>5. CASE i = j
        <5>1. k >= L - 1 + j /\ ~(k - 1 >= L - 1 + j)
          BY <2>1, <4>1, <4>5
        <5> QED BY <4>2, <4>3, <4>4, <4>5, <5>1
      <4>6. CASE i < j
        <5>1. ~(k >= L - 1 + j) /\ ~(k - 1 >= L - 1 + j) /\ i # j
          BY <2>1, <4>1, <4>6
        <5> QED BY <2>3, <4>2, <4>3, <4>4, <5>1
      <4>7. CASE i > j
        <5>1. k >= L - 1 + j /\ k - 1 >= L - 1 + j /\ i # j
          BY <2>1, <4>1, <4>7
        <5>2. (base \o a) \o <<>> = base \o a
          <6>1. j < Len(to)
            BY <4>1, <4>7, <1>4
          <6>2. IsClean(base \o a)
            BY <6>1, <1>6, <1>7, CleanMore
          <6> QED BY <6>2, NothingMore DEF IsClean
        <5> QED BY <4>2, <4>3, <4>4, <5>1, <5>2
      <4>8. i < j \/ i = j \/ i > j
        BY <4>1
      <4> QED BY <4>5, <4>6, <4>7, <4>8
    <3> QED BY <3>1, <3>2
  <2>5. ASSUME NEW k \in 0..(Len(U) - 1)
        PROVE  IsClean(m[k])
    <3>1. CASE k <= L - 1
      <4>1. k \in 0..(L - 1)
        BY <2>1, <3>1
      <4> QED BY <4>1, <2>2, <1>5 DEF L
    <3>2. CASE ~(k <= L - 1) /\ k >= L - 1 + j
      <4>1. j < Len(to) /\ k \in 0..Len(U)
        BY <2>1, <3>2, <1>4
      <4>2. m[k] = base \o a
        BY <4>1, <3>2, <1>7
      <4> QED BY <4>1, <4>2, <1>6, <1>7, CleanMore
    <3>3. CASE ~(k <= L - 1) /\ ~(k >= L - 1 + j)
      <4>1. k \in 0..Len(U)
        BY <2>1
      <4>2. m[k] = base
        BY <4>1, <3>3, <1>7
      <4> QED BY <4>2, <1>6
    <3> QED BY <3>1, <3>2, <3>3
  <2>6. m[0] = <<>>
    <3>1. 0 \in 0..(L - 1)
      BY <2>1
    <3> QED BY <3>1, <2>2, <1>5
  <2>7. m[Len(U)] = base \o a
    <3>1. Len(U) \in 0..Len(U)
      BY <2>1
    <3>2. CASE Len(to) = 0
      <4>1. a = <<>> /\ Len(U) = L - 1
        BY <3>2, <2>1, <1>7
      <4> QED BY <4>1, <3>1, <2>2, <2>3, <2>1 DEF base
    <3>3. CASE Len(to) # 0 /\ a = <<>>
      <4>1. ~(Len(U) <= L - 1)
        BY <3>3, <2>1, <1>4
      <4> QED BY <4>1, <3>1, <3>3, <2>3, <1>7
    <3>4. CASE Len(to) # 0 /\ a # <<>>
      <4>1. ~(Len(U) <= L - 1) /\ Len(U) >= L - 1 + j
        BY <3>4, <2>1, <1>4, <1>7
      <4> QED BY <4>1, <3>1, <1>7
    <3> QED BY <3>2, <3>3, <3>4
  <2>8. IsLevels(calls', m)
    BY <2>4, <2>5, <2>6 DEF IsLevels, U
  <2> QED BY <2>1, <2>2, <2>7, <2>8 DEF LevelsGoOn, U, L, base, IsLevels
<1>8. CASE a = <<>> /\ \A i \in 1..Len(to) : AwaitsAs(to[i], Here.how) = <<>>
  <2> DEFINE j == 1
             m == [k \in 0..Len(U) |-> IF k <= L - 1 THEN lev[k] ELSE IF k >= L - 1 + j THEN base \o a ELSE base]
  <2>1. \A i \in 1..Len(to) : AwaitsAs(to[i], Here.how) = IF i = j THEN a ELSE <<>>
    BY <1>8
  <2>2. j \in Nat /\ j >= 1
    OBVIOUS
  <2>3. m = [k \in 0..Len(U) |-> IF k <= L - 1 THEN lev[k] ELSE IF k >= L - 1 + j THEN base \o a ELSE base]
    OBVIOUS
  <2> HIDE DEF j, m
  <2>4. LevelsGoOn(to, a, lev, m)
    BY <2>1, <2>2, <2>3, <1>7, <1>8
  <2> QED BY <2>4
<1>9. ASSUME NEW j \in 1..Len(to), AwaitsAs(to[j], Here.how) = a,
             \A i \in 1..Len(to) : i # j => AwaitsAs(to[i], Here.how) = <<>>,
             a = <<SwallowsTwo>> => j = Len(to)
      PROVE  \E m : LevelsGoOn(to, a, lev, m)
  <2> DEFINE m == [k \in 0..Len(U) |-> IF k <= L - 1 THEN lev[k] ELSE IF k >= L - 1 + j THEN base \o a ELSE base]
  <2>1. \A i \in 1..Len(to) : AwaitsAs(to[i], Here.how) = IF i = j THEN a ELSE <<>>
    BY <1>9
  <2>2. j \in Nat /\ j >= 1 /\ j <= Len(to)
    BY <1>4
  <2>3. m = [k \in 0..Len(U) |-> IF k <= L - 1 THEN lev[k] ELSE IF k >= L - 1 + j THEN base \o a ELSE base]
    OBVIOUS
  <2>4. a = <<>> \/ (\E c \in Closing : a = <<c>>) \/ a = <<SwallowsTwo>>
    BY <1>9, AwaitsIsOne DEF AwaitsAs
  <2>5. j < Len(to) => j # Len(to)
    BY <2>2, <1>4
  <2> HIDE DEF m
  <2>6. LevelsGoOn(to, a, lev, m)
    BY <2>1, <2>2, <2>3, <2>4, <2>5, <1>7, <1>9
  <2> QED BY <2>6
<1> QED BY <1>8, <1>9 DEF Gives

-----------------------------------------------------------------------------
(* What is awaited at a position of the source. *)

\* The source may end where a directive swallows one more token.
Fits(source, pos, s) ==
  \/ Awaited(source)[pos] = s
  \/ pos = Len(source) - 1 /\ Awaited(source)[pos] = s \o <<SwallowsOne>>

LEMMA FitsAhead ==
  \A source, pos, s : Fits(source, pos, s) /\ pos + 1 < Len(source) /\ pos \in Nat /\ Len(source) \in Nat
    => Awaited(source)[pos] = s
BY DEF Fits

\* Tokens that are no brackets, at most three.
LEMMA FitsOther ==
  \A source, pos, s, n :
    /\ Fits(source, pos, s) /\ IsClean(s) /\ pos \in Nat /\ Len(source) \in Nat /\ n \in 0..3
    /\ \A i \in 1..n : source[pos + i] \notin Opening \cup Closing /\ pos + i < Len(source)
    => Fits(source, pos + n, s)
<1> SUFFICES ASSUME NEW source, NEW pos \in Nat, NEW s, NEW n \in 0..3,
                    Fits(source, pos, s), IsClean(s), Len(source) \in Nat,
                    \A i \in 1..n : source[pos + i] \notin Opening \cup Closing /\ pos + i < Len(source)
             PROVE  Fits(source, pos + n, s)
  OBVIOUS
<1>1. CASE n = 0
  <2>1. pos + n = pos
    BY <1>1
  <2> QED BY <2>1
<1>2. ASSUME NEW p \in Nat, source[p + 1] \notin Opening \cup Closing, Awaited(source)[p] = s
      PROVE  Awaited(source)[p + 1] = s
  BY <1>2, AwaitedIs, ReadOther
<1>3. CASE n # 0
  <2>1. 1 \in 1..n /\ (n >= 2 => 2 \in 1..n) /\ (n >= 3 => 3 \in 1..n) /\ (n = 1 \/ n = 2 \/ n = 3)
    BY <1>3
  <2>2. Awaited(source)[pos] = s
    BY <2>1, FitsAhead
  <2>3. Awaited(source)[pos + 1] = s
    BY <2>1, <2>2, <1>2
  <2>4. n >= 2 => Awaited(source)[pos + 2] = s
    <3>1. pos + 1 \in Nat /\ (pos + 1) + 1 = pos + 2
      OBVIOUS
    <3>2. n >= 2 => source[pos + 2] \notin Opening \cup Closing
      BY <2>1
    <3>3. n >= 2 => Awaited(source)[(pos + 1) + 1] = s
      BY <3>1, <3>2, <2>3, <1>2
    <3> QED BY <3>1, <3>3
  <2>5. n >= 3 => Awaited(source)[pos + 3] = s
    <3>1. pos + 2 \in Nat /\ (pos + 2) + 1 = pos + 3 /\ (n >= 3 => n >= 2)
      OBVIOUS
    <3>2. n >= 3 => source[pos + 3] \notin Opening \cup Closing
      BY <2>1
    <3>3. n >= 3 => Awaited(source)[(pos + 2) + 1] = s
      BY <3>1, <3>2, <2>4, <1>2
    <3> QED BY <3>1, <3>3
  <2>6. Awaited(source)[pos + n] = s
    <3>1. CASE n = 1
      BY <3>1, <2>3
    <3>2. CASE n = 2
      BY <3>2, <2>4
    <3>3. CASE n = 3
      BY <3>3, <2>5
    <3> QED BY <2>1, <3>1, <3>2, <3>3
  <2> QED BY <2>6 DEF Fits
<1> QED BY <1>1, <1>3

\* One token that opens something or closes what is awaited.
LEMMA FitsBracket ==
  \A source, pos, s, c, t :
    /\ IsClean(s) /\ pos \in Nat /\ Len(source) \in Nat /\ pos + 1 < Len(source) /\ source[pos + 1] = t
    => /\ Fits(source, pos, s) /\ t \in Opening /\ ClosedBy(t) = c => Fits(source, pos + 1, s \o <<c>>)
       /\ Fits(source, pos, s \o <<c>>) /\ c \in Closing /\ t = c => Fits(source, pos + 1, s)
<1> SUFFICES ASSUME NEW source, NEW pos \in Nat, NEW s, NEW c, NEW t,
                    IsClean(s), Len(source) \in Nat, pos + 1 < Len(source), source[pos + 1] = t
             PROVE
       /\ Fits(source, pos, s) /\ t \in Opening /\ ClosedBy(t) = c => Fits(source, pos + 1, s \o <<c>>)
       /\ Fits(source, pos, s \o <<c>>) /\ c \in Closing /\ t = c => Fits(source, pos + 1, s)
  OBVIOUS
<1>1. Awaited(source)[pos + 1] = Read(Awaited(source)[pos], t)
  BY AwaitedIs
<1>2. ASSUME Fits(source, pos, s), t \in Opening, ClosedBy(t) = c
      PROVE  Fits(source, pos + 1, s \o <<c>>)
  <2>1. Awaited(source)[pos] = s
    BY <1>2, FitsAhead
  <2>2. Awaited(source)[pos + 1] = s \o <<c>>
    BY <1>1, <1>2, <2>1, ReadOpening
  <2> QED BY <2>2 DEF Fits
<1>3. ASSUME Fits(source, pos, s \o <<c>>), c \in Closing, t = c
      PROVE  Fits(source, pos + 1, s)
  <2>1. Awaited(source)[pos] = s \o <<c>>
    BY <1>3, FitsAhead
  <2>2. Awaited(source)[pos + 1] = s
    BY <1>1, <1>3, <2>1, ReadClosing DEF IsClean
  <2> QED BY <2>2 DEF Fits
<1> QED BY <1>2, <1>3

\* The two tokens of a directive, the second of which may be the END.
LEMMA FitsDirective ==
  \A source, pos, s :
    /\ IsClean(s) /\ pos \in Nat /\ Len(source) \in Nat /\ pos + 1 < Len(source)
    /\ Fits(source, pos, s \o <<SwallowsTwo>>)
    => /\ Fits(source, pos + 2, s)
       /\ pos + 2 = Len(source) => Fits(source, pos + 1, s)
<1> SUFFICES ASSUME NEW source, NEW pos \in Nat, NEW s,
                    IsClean(s), Len(source) \in Nat, pos + 1 < Len(source),
                    Fits(source, pos, s \o <<SwallowsTwo>>)
             PROVE  /\ Fits(source, pos + 2, s)
                    /\ pos + 2 = Len(source) => Fits(source, pos + 1, s)
  OBVIOUS
<1>1. Awaited(source)[pos] = s \o <<SwallowsTwo>>
  BY FitsAhead
<1>2. Awaited(source)[pos + 1] = s \o <<SwallowsOne>>
  <2>1. Awaited(source)[pos + 1] = Read(s \o <<SwallowsTwo>>, source[pos + 1])
    BY <1>1, AwaitedIs
  <2> QED BY <2>1, ReadTwo DEF IsClean
<1>3. Awaited(source)[pos + 2] = s
  <2>1. pos + 1 \in Nat /\ (pos + 1) + 1 = pos + 2
    OBVIOUS
  <2>2. Awaited(source)[(pos + 1) + 1] = Read(s \o <<SwallowsOne>>, source[(pos + 1) + 1])
    BY <1>2, <2>1, AwaitedIs
  <2> QED BY <2>1, <2>2, ReadOne DEF IsClean
<1>4. pos + 2 = Len(source) => pos + 1 = Len(source) - 1
  OBVIOUS
<1> QED BY <1>2, <1>3, <1>4 DEF Fits

\* What la sees of the tokens that are looked at.
LEMMA SeenAt ==
  ASSUME BufferInv, NEW look, Sees(look), NEW i \in Nat \ {0}, i \in DOMAIN look
  PROVE  /\ TokenOf(input, Consumed + Top + i) \in look[i]
         /\ END \notin look[i] => /\ input[Consumed + Top + i] \in look[i]
                                  /\ Consumed + Top + i < Len(input)
                                  /\ tokens[Top + i] # END
<1> DEFINE n == i - 1
<1>1. n \in Nat /\ n + 1 = i
  OBVIOUS
<1>2. IsKnown(n) /\ La(n) \in look[i]
  BY DEF Sees
<1> HIDE DEF n
<1>3. /\ La(n) = TokenOf(input, Consumed + Top + (n + 1))
      /\ La(n) # END => tokens[Top + (n + 1)] # END
  BY <1>1, <1>2, KnownToken
<1>4. La(n) # END => Consumed + Top + 1 + n < Len(input)
  BY <1>1, <1>2, LaIsInput
<1>5. Consumed \in Nat /\ Top \in Nat /\ Len(input) \in Nat
  BY Basics, TopIsNat
<1>6. Consumed + Top + 1 + n = Consumed + Top + i
  BY <1>1, <1>5
<1>7. Consumed + Top + i < Len(input) => TokenOf(input, Consumed + Top + i) = input[Consumed + Top + i]
  BY <1>5 DEF TokenOf
<1> QED BY <1>1, <1>2, <1>3, <1>4, <1>6, <1>7

\* END is not consumed.
LEMMA EndIsKept ==
  ASSUME BufferInv, ~IsSpeculating, NEW n \in 0..3, Eat(n)
  PROVE  /\ Top = 0 /\ Top' = 0
         /\ Consumed' \in Nat /\ Consumed' < Len(input)
         /\ tokens[n] = END /\ n \in 1..Len(tokens) /\ n = Len(tokens) => Consumed' = Consumed + n - 1
<1>1. /\ BufferInv' /\ Len(markers') = Len(markers) /\ input' = input
  BY EatStep
<1>2. ~ (Len(markers) > 0) /\ Top = 0
  BY MarkerFacts
<1>3. Top' = 0
  <2>1. ((IsSpeculating <=> Len(markers) > 0) /\ (~IsSpeculating => Top = 0))'
    BY <1>1, MarkerFacts, PTL
  <2> QED BY <2>1, <1>1, <1>2
<1>4. Consumed' \in Nat /\ Consumed' < Len(input)
  <2>1. (/\ Consumed \in Nat /\ Len(lexer) \in Nat /\ Len(tokens) \in Nat
         /\ Consumed = Len(input) - Len(lexer) - Len(tokens) /\ Len(input) \in Nat
         /\ Len(lexer) + Len(tokens) > 0)'
    BY <1>1, Basics, PTL
  <2> QED BY <2>1, <1>1
<1>5. ASSUME tokens[n] = END, n \in 1..Len(tokens), n = Len(tokens)
      PROVE  Consumed' = Consumed + n - 1
  <2>1. /\ Len(tokens) \in Nat /\ Len(lexer) \in Nat /\ Len(input) \in Nat /\ tokens \in Seq(Tokens)
        /\ Consumed = Len(input) - Len(lexer) - Len(tokens)
    BY Basics
  <2>2. n # 0 /\ n \in Nat /\ HasEnd
    BY <1>5, <2>1 DEF HasEnd
  <2>3. Dropped(n) = n - 1
    BY <1>5, <2>1, <2>2 DEF Dropped
  <2>4. tokens' = SubSeq(tokens, n, Len(tokens)) /\ lexer' = lexer
    <3>1. tokens' = SubSeq(tokens, Dropped(n) + 1, Len(tokens)) /\ lexer' = lexer
      BY <2>2 DEF Eat, Consume, Remaining
    <3>2. Dropped(n) + 1 = n
      BY <2>2, <2>3
    <3> QED BY <3>1, <3>2
  <2>5. Len(tokens') = 1
    BY <1>5, <2>1, <2>2, <2>4
  <2> QED BY <1>1, <1>5, <2>1, <2>4, <2>5 DEF Consumed
<1> QED BY <1>2, <1>3, <1>4, <1>5

-----------------------------------------------------------------------------
(* What the activations await is what the brackets read so far await. *)

LEMMA EndIsNoBracket == \A t \in Opening \cup Closing : t # END
<1>1. Opening \cup Closing \subseteq ParserTokens
  BY DEF Opening, Closing, Paren, Bracket, ParserTokens
<1> QED BY <1>1, TokensAssumption

\* The tokens that a rule consumes.
LEMMA FitsStep ==
  ASSUME ParserInv, NEW look, Sees(look), NEW n \in 0..3, Eat(n), NEW base, IsClean(base),
         NEW x, NEW a, Turns(look, n, x, a), Fits(input, Consumed + Top, base \o x),
         x = <<>> \/ (\E c \in Closing : x = <<c>>) \/ x = <<SwallowsTwo>>,
         x = <<SwallowsTwo>> => ~IsSpeculating
  PROVE  input' = input /\ Fits(input, Consumed' + Top', base \o a)
<1> DEFINE pos == Consumed + Top
<1>1. BufferInv
  BY DEF ParserInv
<1>2. /\ input' = input /\ BufferInv'
      /\ (n = 0 \/ tokens[Top + n] # END) => Consumed' + Top' = pos + n
  BY <1>1, EatStep
<1>3. pos \in Nat /\ Consumed \in Nat /\ Len(input) \in Nat
  BY <1>1, Basics, TopIsNat
<1>4. Fits(input, pos, base \o x)
  OBVIOUS
<1>5. ASSUME NEW i \in Nat \ {0}, i \in DOMAIN look, END \notin look[i]
      PROVE  input[pos + i] \in look[i] /\ pos + i < Len(input) /\ tokens[Top + i] # END
  BY <1>1, <1>5, SeenAt
<1>6. base \o <<>> = base
  BY NothingMore DEF IsClean
<1> HIDE DEF pos
<1>7. CASE a = x /\ x # <<SwallowsTwo>> /\ \A i \in 1..n : i \in DOMAIN look /\ look[i] \subseteq Plain
  <2>1. ASSUME NEW i \in 1..n
        PROVE  input[pos + i] \notin Opening \cup Closing /\ pos + i < Len(input) /\ tokens[Top + i] # END
    <3>1. i \in Nat \ {0} /\ i \in DOMAIN look /\ look[i] \subseteq Plain
      BY <1>7
    <3>2. END \notin look[i]
      BY <3>1 DEF Plain
    <3>3. input[pos + i] \in look[i] /\ pos + i < Len(input) /\ tokens[Top + i] # END
      BY <3>1, <3>2, <1>5
    <3> QED BY <3>1, <3>3 DEF Plain
  <2>2. n = 0 \/ n \in 1..n
    OBVIOUS
  <2>3. Consumed' + Top' = pos + n
    BY <2>1, <2>2, <1>2
  <2>4. IsClean(base \o x)
    BY <1>7, CleanMore
  <2> DEFINE s == base \o x
  <2>5. IsClean(s) /\ Fits(input, pos, s)
    BY <2>4, <1>4
  <2> HIDE DEF s
  <2>6. \A i \in 1..n : input[pos + i] \notin Opening \cup Closing /\ pos + i < Len(input)
    BY <2>1
  <2>7. Fits(input, pos + n, s)
    BY <2>5, <2>6, <1>3, FitsOther
  <2> QED BY <2>3, <2>7, <1>2, <1>7 DEF s
<1>8. CASE /\ n = 1 /\ 1 \in DOMAIN look /\ x = <<>>
           /\ \E c : a = <<c>> /\ \A t \in look[1] : t \in Opening /\ ClosedBy(t) = c
  <2>1. PICK c : a = <<c>> /\ \A t \in look[1] : t \in Opening /\ ClosedBy(t) = c
    BY <1>8
  <2>2. 1 \in Nat \ {0} /\ 1 \in DOMAIN look /\ END \notin look[1]
    BY <1>8, <2>1, EndIsNoBracket
  <2>3. input[pos + 1] \in look[1] /\ pos + 1 < Len(input) /\ tokens[Top + 1] # END
    BY <2>2, <1>5
  <2>4. input[pos + 1] \in Opening /\ ClosedBy(input[pos + 1]) = c
    BY <2>1, <2>3
  <2>5. Fits(input, pos, base)
    BY <1>4, <1>6, <1>8
  <2>6. Fits(input, pos + 1, base \o <<c>>)
    BY <2>3, <2>4, <2>5, <1>3, FitsBracket
  <2> QED BY <2>1, <2>3, <2>6, <1>2, <1>8
<1>9. CASE /\ n = 1 /\ 1 \in DOMAIN look /\ a = <<>>
           /\ \E c \in Closing : x = <<c>> /\ look[1] = {c}
  <2>1. PICK c \in Closing : x = <<c>> /\ look[1] = {c}
    BY <1>9
  <2>2. 1 \in Nat \ {0} /\ 1 \in DOMAIN look /\ END \notin look[1]
    BY <1>9, <2>1, EndIsNoBracket
  <2>3. input[pos + 1] = c /\ pos + 1 < Len(input) /\ tokens[Top + 1] # END
    BY <2>1, <2>2, <1>5
  <2>4. Fits(input, pos, base \o <<c>>)
    BY <1>4, <2>1
  <2>5. Fits(input, pos + 1, base)
    BY <2>3, <2>4, <1>3, FitsBracket
  <2> QED BY <2>3, <2>5, <1>2, <1>6, <1>9
<1>10. CASE /\ n = 2 /\ x = <<SwallowsTwo>> /\ a = <<>>
            /\ 1 \in DOMAIN look /\ 2 \in DOMAIN look /\ END \notin look[1]
  <2>1. 1 \in Nat \ {0} /\ ~IsSpeculating
    BY <1>10
  <2>2. pos + 1 < Len(input)
    BY <2>1, <1>5, <1>10
  <2>3. Fits(input, pos, base \o <<SwallowsTwo>>)
    BY <1>4, <1>10
  <2>4. Fits(input, pos + 2, base) /\ (pos + 2 = Len(input) => Fits(input, pos + 1, base))
    BY <2>2, <2>3, <1>3, FitsDirective
  <2>5. /\ Top = 0 /\ Top' = 0 /\ Consumed' \in Nat
        /\ tokens[2] = END /\ 2 \in 1..Len(tokens) /\ 2 = Len(tokens) => Consumed' = Consumed + 2 - 1
    <3>1. /\ Top = 0 /\ Top' = 0 /\ Consumed' \in Nat
          /\ tokens[n] = END /\ n \in 1..Len(tokens) /\ n = Len(tokens) => Consumed' = Consumed + n - 1
      BY <2>1, <1>1, EndIsKept
    <3> QED BY <3>1, <1>10
  <2>6. pos = Consumed /\ Top + 2 = 2 /\ Consumed' + Top' = Consumed'
    <3>1. \A c \in Nat : c + 0 = c
      OBVIOUS
    <3>2. pos = Consumed + 0 /\ Consumed' + Top' = Consumed' + 0
      BY <2>5 DEF pos
    <3>3. Top + 2 = 2
      BY <2>5
    <3> QED BY <3>1, <3>2, <3>3, <2>5, <1>3
  <2>7. CASE tokens[2] # END
    <3>1. Consumed' + Top' = pos + 2
      BY <2>6, <2>7, <1>2, <1>10
    <3> QED BY <3>1, <2>4, <1>2, <1>6, <1>10
  <2>8. CASE tokens[2] = END
    <3>1. Top + 2 <= Len(tokens)
      BY <1>10 DEF Eat, Consume, IsBuffered
    <3>2. /\ Len(tokens) \in Nat /\ Len(lexer) \in Nat
          /\ Consumed = Len(input) - Len(lexer) - Len(tokens)
          /\ \A i \in 1..Len(tokens) : tokens[i] = input[Consumed + i]
      BY <1>1, Basics
    <3>3. 2 \in 1..Len(tokens)
      BY <3>1, <3>2, <2>5
    <3>4. input[Consumed + 2] = END /\ Consumed + 2 \in 1..Len(input)
      BY <3>2, <3>3, <2>8, <1>3
    <3>5. Consumed + 2 = Len(input)
      BY <3>4, <1>1, InputIsSource DEF BufferInv
    <3>6. 2 = Len(tokens)
      <4>1. \A c, i, l, t \in Nat : c = i - l - t /\ c + 2 = i /\ 2 \in 1..t => 2 = t
        OBVIOUS
      <4> QED BY <4>1, <3>2, <3>3, <3>5, <1>3
    <3>7. Consumed' + Top' = pos + 1
      BY <3>3, <3>6, <2>5, <2>6, <2>8, <1>3
    <3> QED BY <3>5, <3>7, <2>4, <2>6, <1>2, <1>6, <1>10
  <2> QED BY <2>7, <2>8
<1> QED BY <1>7, <1>8, <1>9, <1>10 DEF Turns

OpenedAs(lev) ==
  /\ IsLevels(calls, lev)
  /\ Fits(input, Consumed + Top, lev[Len(calls)])
  /\ \A k \in 1..Len(calls) : calls[k].at = "speculated" => Fits(input, Consumed, lev[k])
Opened ==
  /\ \E lev : OpenedAs(lev)
  /\ status = "done" => Here.at = "unit"

\* The innermost activation and the one it was called by.
LEMMA LevelHere ==
  ASSUME Nested, NEW lev, IsLevels(calls, lev)
  PROVE  /\ lev[Len(calls)] = lev[Len(calls) - 1] \o Awaits(Here.at, Here.how)
         /\ IsClean(lev[Len(calls) - 1])
<1>1. Len(calls) \in Nat /\ Len(calls) >= 1 /\ Here = calls[Len(calls)]
  BY HereFacts
<1>2. Len(calls) \in 1..Len(calls) /\ Len(calls) - 1 \in 0..(Len(calls) - 1)
  BY <1>1
<1> QED BY <1>1, <1>2 DEF IsLevels

\* The innermost activation is replaced and tokens are consumed.
LEMMA GoesOn ==
  ASSUME ParserInv, NEW lev, OpenedAs(lev), NEW look, Sees(look), NEW n \in 0..3, Eat(n),
         NEW to, NEW a, Gives(to, Here.how, a), Turns(look, n, Awaits(Here.at, Here.how), a),
         calls' = Callers \o Frames(to)
  PROVE  /\ input' = input
         /\ \E m : LevelsGoOn(to, a, lev, m) /\ Fits(input, Consumed' + Top', m[Len(calls')])
<1> DEFINE base == lev[Len(calls) - 1]
           x == Awaits(Here.at, Here.how)
<1>1. Nested /\ IsLevels(calls, lev)
  BY DEF ParserInv, OpenedAs
<1>2. lev[Len(calls)] = base \o x /\ IsClean(base)
  BY <1>1, LevelHere
<1>3. Fits(input, Consumed + Top, base \o x)
  BY <1>2 DEF OpenedAs
<1>4. x = <<>> \/ (\E c \in Closing : x = <<c>>) \/ x = <<SwallowsTwo>>
  BY AwaitsIsOne
<1>5. x = <<SwallowsTwo>> => ~IsSpeculating
  <2>1. x = <<SwallowsTwo>> => Here.at = "runtime"
    BY RuntimeIsAlone
  <2>2. Here.at = "runtime" => Here.at \notin TypePoints /\ Here.at # "speculated"
    BY DEF TypePoints
  <2> QED BY <2>1, <2>2, OnlyTypesAreSpeculatedOn
<1>6. Turns(look, n, x, a)
  OBVIOUS
<1>7. PICK m : LevelsGoOn(to, a, lev, m)
  BY <1>1, LevelsAfter
<1>8. m[Len(calls')] = base \o a
  BY <1>7 DEF LevelsGoOn
<1> HIDE DEF base, x
<1>9. input' = input /\ Fits(input, Consumed' + Top', base \o a)
  BY <1>2, <1>3, <1>4, <1>5, <1>6, FitsStep
<1> QED BY <1>7, <1>8, <1>9

LEMMA OpenedByTake ==
  ASSUME ParserInv, Opened, NEW rules, rules \subseteq Rules, Take(rules)
  PROVE  Opened'
<1>1. PICK r \in rules : /\ r.at = Here.at /\ Here.how \in r.how
                         /\ Sees(r.look) /\ Eat(r.eat)
                         /\ calls' = Callers \o Frames(r.to)
  BY DEF Take
<1>2. status' # "done"
  BY DEF Take, IsOver
<1>3. r \in Rules
  OBVIOUS
<1>4. r.eat \in 0..3
  <2>1. r \in TypeSpec \/ r = VarRule \/ r = UnitRule \/ IsPlain(r)
    BY <1>3, OtherRules
  <2>2. ASSUME r \in TypeSpec PROVE r.eat \in 0..3
    <3>1. IsTypeLook(r.look, r.eat)
      BY <2>2, TypeRules DEF IsTypeRule
    <3>2. Len(r.look) \in {1, 2} /\ (r.eat = 0 \/ r.eat = Len(r.look))
      BY <3>1 DEF IsTypeLook
    <3>3. r.eat \in {0, 1, 2}
      BY <3>2
    <3> QED BY <3>3
  <2>3. VarRule.eat = 1 /\ UnitRule.eat = 0
    BY DEF VarRule, UnitRule, On
  <2>4. IsPlain(r) => r.eat \in 0..3
    BY DEF IsPlain
  <2> QED BY <2>1, <2>2, <2>3, <2>4
<1>5. PICK a : Gives(r.to, Here.how, a) /\ Turns(r.look, r.eat, Awaits(Here.at, Here.how), a)
  BY <1>1, <1>3, RulesNest DEF NestsAs
<1>6. PICK lev : OpenedAs(lev)
  BY DEF Opened
<1> DEFINE look == r.look
           n == r.eat
           to == r.to
<1>7. /\ Sees(look) /\ n \in 0..3 /\ Eat(n) /\ Gives(to, Here.how, a)
      /\ Turns(look, n, Awaits(Here.at, Here.how), a) /\ calls' = Callers \o Frames(to)
  BY <1>1, <1>4, <1>5
<1> HIDE DEF look, n, to
<1>8. /\ input' = input
      /\ \E m : LevelsGoOn(to, a, lev, m) /\ Fits(input, Consumed' + Top', m[Len(calls')])
  BY <1>6, <1>7, GoesOn
<1>9. PICK m : LevelsGoOn(to, a, lev, m) /\ Fits(input, Consumed' + Top', m[Len(calls')])
  BY <1>8
<1>10. ASSUME NEW k \in 1..Len(calls'), calls'[k].at = "speculated"
       PROVE  Fits(input, Consumed', m[k])
  <2>1. ~NothingIsHeld'
    BY <1>10 DEF NothingIsHeld, Held
  <2>2. PICK t \in TypeSpec : /\ t.at = Here.at /\ Eat(t.eat)
                              /\ calls' = Callers \o Frames(t.to)
    BY <2>1, TakeStep
  <2>3. IsTypeRule(t)
    BY TypeRules
  <2>4. AreTypeFrames(t.to) /\ Here.at \in TypePoints /\ t.eat \in 0..3
    BY <2>2, <2>3 DEF IsTypeRule, IsTypeLook
  <2>5. /\ \A i \in 1..(Len(calls) - 1) : calls'[i] = calls[i]
        /\ \A i \in 1..Len(calls') : i >= Len(calls) => calls'[i].at \in TypePoints
    BY <2>2, <2>4, TypesAfter DEF ParserInv
  <2>6. ~(k >= Len(calls))
    BY <2>5, <1>10 DEF TypePoints
  <2>7. Len(calls) \in Nat
    BY HereFacts DEF ParserInv
  <2>8. k \in 1..(Len(calls) - 1) /\ k \in 0..(Len(calls) - 1) /\ k \in 1..Len(calls)
    BY <2>6, <2>7
  <2>9. calls[k].at = "speculated" /\ m[k] = lev[k]
    BY <2>5, <2>8, <1>9, <1>10 DEF LevelsGoOn
  <2>10. Fits(input, Consumed, lev[k])
    BY <2>8, <2>9, <1>6 DEF OpenedAs
  <2>11. IsSpeculating
    BY <2>8, <2>9 DEF ParserInv, SpeculationIsHeld
  <2>12. Consumed' = Consumed
    BY <2>2, <2>4, <2>11, EatStep DEF ParserInv
  <2> QED BY <2>9, <2>10, <2>12
<1>11. OpenedAs(m)'
  BY <1>8, <1>9, <1>10 DEF OpenedAs, LevelsGoOn
<1> QED BY <1>2, <1>11 DEF Opened

\* The activations, the source and the position are what they were.
LEMMA OpenedByKeeping ==
  ASSUME Opened, UNCHANGED <<calls, input>>, Consumed' = Consumed, Top' = Top,
         status' = status \/ status' # "done"
  PROVE  Opened'
<1>1. PICK lev : OpenedAs(lev)
  BY DEF Opened
<1>2. OpenedAs(lev)'
  BY <1>1 DEF OpenedAs
<1>3. status' = "done" => Here'.at = "unit"
  BY DEF Opened, Here
<1> QED BY <1>2, <1>3 DEF Opened

LEMMA OpenedByReturnNothing ==
  ASSUME ParserInv, Opened, ReturnNothing
  PROVE  Opened'
<1> DEFINE n == IF Here.at = "var" /\ Here.how \in Term THEN 1 ELSE 0
           to == Return
<1>1. /\ HasNoStmt /\ Eat(n) /\ calls' = Callers
      /\ status' = "done" => status = "done" \/ calls[Len(calls) - 1].at = "unit"
      /\ status # "done"
  BY DEF ReturnNothing, IsOver
<1>2. Here.at = "stmt" \/ Here.at = "var"
  BY <1>1 DEF HasNoStmt
<1>3. Awaits(Here.at, Here.how) = <<>>
  <2>1. "stmt" \notin Waiting /\ "var" \notin Waiting
    BY DEF Waiting, InParen, InBracket, InList, InBrace, InLoop
  <2> QED BY <1>2, <2>1, AwaitsNothing
<1>4. \E look : Sees(look) /\ AreOther(look, n)
  <2>1. CASE n = 0
    <3>1. PICK look : Sees(look)
      BY <1>1 DEF HasNoStmt
    <3> QED BY <2>1, <3>1, Looks
  <2>2. CASE n # 0
    <3>1. Here.at = "var" /\ n = 1
      BY <2>2
    <3>2. Sees(<<Stop>>)
      BY <3>1, <1>1 DEF HasNoStmt
    <3>3. AreOther(<<Stop>>, 1)
      BY PlainSets, Looks
    <3> QED BY <3>1, <3>2, <3>3
  <2> QED BY <2>1, <2>2
<1>5. PICK look : Sees(look) /\ AreOther(look, n)
  BY <1>4
<1>6. PICK lev : OpenedAs(lev)
  BY DEF Opened
<1>7. n \in 0..3
  OBVIOUS
<1>8. Gives(to, Here.how, <<>>) /\ calls' = Callers \o Frames(to)
  <2>1. Gives(Return, Here.how, <<>>)
    BY Targets
  <2>2. Callers = Callers \o Frames(<<>>)
    BY PopIsAfterNothing DEF ParserInv
  <2> QED BY <2>1, <2>2, <1>1 DEF Return
<1>9. Turns(look, n, Awaits(Here.at, Here.how), <<>>)
  BY <1>3, <1>5, NeutralTurns, NothingIsNotTwo
<1> HIDE DEF n, to
<1>10. /\ input' = input
       /\ \E m : LevelsGoOn(to, <<>>, lev, m) /\ Fits(input, Consumed' + Top', m[Len(calls')])
  BY <1>1, <1>5, <1>6, <1>7, <1>8, <1>9, GoesOn
<1>11. PICK m : LevelsGoOn(to, <<>>, lev, m) /\ Fits(input, Consumed' + Top', m[Len(calls')])
  BY <1>10
<1>12. ParserInv' /\ NothingIsHeld'
  BY ReturnNothingStep
<1>13. OpenedAs(m)'
  <2>1. \A k \in 1..Len(calls') : calls'[k].at # "speculated"
    BY <1>12 DEF NothingIsHeld, Held
  <2> QED BY <2>1, <1>10, <1>11 DEF OpenedAs, LevelsGoOn
<1>14. ASSUME status' = "done"
       PROVE  Here'.at = "unit"
  <2> DEFINE L == Len(calls)
  <2>1. L \in Nat /\ L >= 1 /\ L # 1 /\ IsSeq(calls)
    BY <1>2, HereFacts DEF ParserInv, Nested
  <2>2. calls[L - 1].at = "unit"
    BY <1>1, <1>14
  <2>3. L - 1 \in 1..L
    <3> HIDE DEF L
    <3> QED BY <2>1
  <2>4. L - 1 = 1
    BY <2>2, <2>3 DEF ParserInv, Nested
  <2>5. Len(calls') = 1
    <3>1. Len(to) = 0
      BY EmptyIsSeq DEF to, Return
    <3>2. Len(calls') = Len(calls) - 1 + Len(to)
      BY <1>11 DEF LevelsGoOn
    <3> QED BY <2>4, <3>1, <3>2
  <2>6. (Here.at = "unit" <=> Len(calls) = 1)'
    <3>1. Nested'
      BY <1>12 DEF ParserInv
    <3> QED BY <3>1, HereFacts, PTL
  <2> QED BY <2>5, <2>6
<1> QED BY <1>13, <1>14 DEF Opened

\* An activation goes on to wait for a type specifier.
LEMMA OpenedByWaiting ==
  ASSUME ParserInv, NEW lev, OpenedAs(lev), Here.at \in {"operand", "speculated"}, NEW p \in Held,
         calls' = Callers \o Frames(Call("type", "type", p))
  PROVE  \E m : /\ IsLevels(calls', m)
                /\ Len(calls') = Len(calls) + 1
                /\ m[Len(calls')] = lev[Len(calls)]
                /\ m[Len(calls)] = lev[Len(calls)]
                /\ calls'[Len(calls)].at = p
                /\ \A k \in 1..Len(calls') : calls'[k].at \in Held => k = Len(calls)
<1> DEFINE to == Call("type", "type", p)
           base == lev[Len(calls) - 1]
<1>1. Nested /\ IsLevels(calls, lev)
  BY DEF ParserInv, OpenedAs
<1>2. Here.at \in ExprPoints /\ Here.at \notin Waiting /\ p \notin Waiting /\ "type" \notin Waiting
  <2>1. Here.at \in ExprPoints
    BY DEF ExprPoints, Held
  <2>2. \A q \in {"operand", "speculated", "constructed", "type"} : q \notin Waiting
    BY DEF Waiting, InParen, InBracket, InList, InBrace, InLoop
  <2> QED BY <2>1, <2>2 DEF Held
<1>3. /\ IsSeq(calls') /\ Len(calls') = Len(calls) + 1
      /\ calls'[Len(calls)].at = p
      /\ \A k \in 1..Len(calls') : calls'[k].at \in Held => k = Len(calls)
  BY <1>1, <1>2, HeldAfter
<1>4. Gives(to, Here.how, <<>>)
  <2>1. p # "runtime" /\ Awaits(p, Here.how) = <<>>
    BY <1>2, AwaitsNothing DEF Held
  <2>2. Gives(Call("type", "type", p), Here.how, Awaits(p, Here.how))
    BY <2>1, <1>2, Targets
  <2> QED BY <2>1, <2>2
<1>5. lev[Len(calls)] = base /\ IsClean(base)
  <2>1. Awaits(Here.at, Here.how) = <<>>
    BY <1>2, AwaitsNothing
  <2>2. lev[Len(calls)] = base \o Awaits(Here.at, Here.how) /\ IsClean(base)
    BY <1>1, LevelHere
  <2> HIDE DEF base
  <2> QED BY <2>1, <2>2, NothingMore DEF IsClean
<1>6. calls' = Callers \o Frames(to)
  OBVIOUS
<1> HIDE DEF to
<1>7. PICK m : LevelsGoOn(to, <<>>, lev, m)
  BY <1>1, <1>4, <1>6, LevelsAfter
<1>8. /\ IsLevels(calls', m)
      /\ m[Len(calls')] = base \o <<>>
      /\ \A k \in 0..(Len(calls) - 1) : m[k] = lev[k]
  BY <1>7 DEF LevelsGoOn
<1>9. base \o <<>> = base
  BY <1>5, NothingMore DEF IsClean
<1>10. m[Len(calls)] = base
  <2>1. Len(calls) \in Nat /\ Len(calls) >= 1
    BY <1>1, HereFacts
  <2>2. Len(calls) \in 1..Len(calls') /\ Len(calls) - 1 \in 0..(Len(calls) - 1)
    BY <2>1, <1>3
  <2>3. m[Len(calls)] = m[Len(calls) - 1] \o Awaits(calls'[Len(calls)].at, calls'[Len(calls)].how)
    BY <2>2, <1>8 DEF IsLevels
  <2>4. m[Len(calls) - 1] = base
    BY <2>2, <1>8
  <2>5. Awaits(calls'[Len(calls)].at, calls'[Len(calls)].how) = <<>>
    BY <1>2, <1>3, AwaitsNothing
  <2> HIDE DEF base
  <2> QED BY <2>3, <2>4, <2>5, <1>9
<1> HIDE DEF base
<1>11. m[Len(calls')] = lev[Len(calls)] /\ m[Len(calls)] = lev[Len(calls)]
  BY <1>5, <1>8, <1>9, <1>10
<1> QED BY <1>3, <1>8, <1>11

LEMMA OpenedBySpeculating ==
  ASSUME ParserInv, Opened, SpeculateTypeSpec
  PROVE  Opened'
<1>1. /\ Here.at = "operand" /\ Mark /\ status' = status /\ status = "running"
      /\ calls' = Callers \o Frames(Call("type", "type", "speculated"))
  BY DEF SpeculateTypeSpec, IsOver
<1>2. PICK lev : OpenedAs(lev)
  BY DEF Opened
<1>3. Top = 0 /\ Consumed \in Nat
  <2>1. Here.at \notin TypePoints /\ Here.at # "speculated"
    BY <1>1 DEF TypePoints
  <2> QED BY <2>1, OnlyTypesAreSpeculatedOn, MarkerFacts, Basics DEF ParserInv
<1>4. input' = input /\ Consumed' = Consumed /\ Top' = Top
  BY <1>1, MarkStep DEF ParserInv, Mark
<1>5. PICK m : /\ IsLevels(calls', m)
               /\ Len(calls') = Len(calls) + 1
               /\ m[Len(calls')] = lev[Len(calls)]
               /\ m[Len(calls)] = lev[Len(calls)]
               /\ \A k \in 1..Len(calls') : calls'[k].at \in Held => k = Len(calls)
  <2>1. "speculated" \in Held /\ Here.at \in {"operand", "speculated"}
    BY <1>1 DEF Held
  <2> QED BY <2>1, <1>1, <1>2, OpenedByWaiting
<1>6. Fits(input, Consumed + Top, lev[Len(calls)])
  BY <1>2 DEF OpenedAs
<1>7. Consumed + Top = Consumed
  BY <1>3
<1>8. \A k \in 1..Len(calls') : calls'[k].at = "speculated" => Fits(input, Consumed, m[k])
  BY <1>5, <1>6, <1>7 DEF Held
<1>9. OpenedAs(m)'
  BY <1>4, <1>5, <1>6, <1>8 DEF OpenedAs
<1> QED BY <1>1, <1>9 DEF Opened

LEMMA OpenedBySuccess ==
  ASSUME ParserInv, Opened, SpeculationSucceeds
  PROVE  Opened'
<1>1. /\ Here.at = "speculated" /\ Release /\ status' = status /\ status = "running"
      /\ calls' = Callers \o Frames(Call("type", "type", "constructed"))
  BY DEF SpeculationSucceeds, IsOver
<1>2. PICK lev : OpenedAs(lev)
  BY DEF Opened
<1>3. ParserInv'
  BY SucceedStep
<1>4. input' = input /\ Consumed' = Consumed
  BY <1>1, ReleaseStep DEF ParserInv, Release
<1>5. PICK m : /\ IsLevels(calls', m)
               /\ Len(calls') = Len(calls) + 1
               /\ m[Len(calls')] = lev[Len(calls)]
               /\ calls'[Len(calls)].at = "constructed"
               /\ \A k \in 1..Len(calls') : calls'[k].at \in Held => k = Len(calls)
  <2>1. "constructed" \in Held /\ Here.at \in {"operand", "speculated"}
    BY <1>1 DEF Held
  <2> QED BY <2>1, <1>1, <1>2, OpenedByWaiting
<1>6. \A k \in 1..Len(calls') : calls'[k].at # "speculated"
  BY <1>5 DEF Held
<1>7. Top' = 0 /\ Consumed' \in Nat
  <2>1. BufferInv' /\ SpeculationIsHeld'
    BY <1>3 DEF ParserInv
  <2>2. ~IsSpeculating'
    BY <2>1, <1>6 DEF SpeculationIsHeld
  <2>3. (~IsSpeculating => Top = 0)' /\ (Consumed \in Nat)'
    BY <2>1, MarkerFacts, Basics, PTL
  <2> QED BY <2>2, <2>3
<1>8. Fits(input, Consumed, lev[Len(calls)])
  <2>1. Len(calls) \in 1..Len(calls) /\ calls[Len(calls)].at = "speculated"
    BY <1>1, HereFacts DEF ParserInv
  <2> QED BY <2>1, <1>2 DEF OpenedAs
<1>9. Consumed' + Top' = Consumed
  BY <1>4, <1>7
<1>10. OpenedAs(m)'
  BY <1>4, <1>5, <1>6, <1>8, <1>9 DEF OpenedAs
<1> QED BY <1>1, <1>10 DEF Opened

LEMMA OpenedByFailure ==
  ASSUME ParserInv, Opened, SpeculationFails
  PROVE  Opened'
<1>1. Release /\ IsSpeculating /\ status' = status /\ status = "running"
  BY DEF SpeculationFails, IsOver
<1>2. PICK lev : OpenedAs(lev)
  BY DEF Opened
<1>3. ParserInv' /\ NothingIsHeld'
  BY SpeculationFailsStep
<1>4. PICK k \in 1..Len(calls) :
        /\ calls[k].at = "speculated"
        /\ calls' = Append(SubSeq(calls, 1, k - 1), [calls[k] EXCEPT !.at = "no type"])
  BY DEF SpeculationFails
<1>5. input' = input /\ Consumed' = Consumed
  BY <1>1, ReleaseStep DEF ParserInv, Release
<1> DEFINE a == [calls[k] EXCEPT !.at = "no type"]
           n == k - 1
           s == SubSeq(calls, 1, n)
<1>6. a.at = "no type"
  <2>1. IsFrame(calls[k])
    BY DEF ParserInv, Nested
  <2> QED BY <2>1, OtherPoint
<1>7. /\ Len(calls) \in Nat /\ IsSeq(calls) /\ n \in 0..Len(calls) /\ n \in Nat /\ n < Len(calls)
      /\ k = n + 1
  BY HereFacts DEF ParserInv, Nested
<1> HIDE DEF a, n
<1>8. IsSeq(s) /\ Len(s) = n /\ \A i \in 1..n : s[i] = calls[i]
  BY <1>7, PrefixFacts
<1> HIDE DEF s
<1>9. calls' = Append(s, a)
  BY <1>4 DEF a, s, n
<1>10. Len(calls') = n + 1 /\ calls'[n + 1] = a /\ \A i \in 1..n : calls'[i] = calls[i]
  <2>1. PICK S : s \in Seq(S)
    BY <1>8 DEF IsSeq
  <2> DEFINE T == S \cup {a}
  <2>2. S \subseteq T /\ a \in T
    OBVIOUS
  <2> HIDE DEF T
  <2>3. s \in Seq(T)
    BY <2>1, <2>2, SeqMonotonic
  <2>4. /\ Len(Append(s, a)) = Len(s) + 1
        /\ \A i \in 1..Len(s) : Append(s, a)[i] = s[i]
        /\ Append(s, a)[Len(s) + 1] = a
    BY <2>2, <2>3, AppendProperties
  <2> QED BY <2>4, <1>8, <1>9
<1>11. /\ "no type" \notin Waiting /\ "speculated" \notin Waiting
  BY DEF Waiting, InParen, InBracket, InList, InBrace, InLoop
<1>12. lev[n + 1] = lev[n] \o Awaits(calls'[n + 1].at, calls'[n + 1].how)
  <2>1. Awaits(calls[k].at, calls[k].how) = <<>> /\ Awaits(calls'[n + 1].at, calls'[n + 1].how) = <<>>
    BY <1>4, <1>6, <1>10, <1>11, AwaitsNothing
  <2>2. lev[k] = lev[k - 1] \o Awaits(calls[k].at, calls[k].how)
    BY <1>2 DEF OpenedAs, IsLevels
  <2>3. k - 1 = n
    BY <1>7
  <2> QED BY <2>1, <2>2, <2>3, <1>7
<1>13. IsLevels(calls', lev)
  <2>1. IsLevels(calls, lev)
    BY <1>2 DEF OpenedAs
  <2> QED BY <2>1, <1>7, <1>10, <1>12, LevelsUpTo
<1>14. \A i \in 1..Len(calls') : calls'[i].at # "speculated"
  BY <1>3 DEF NothingIsHeld, Held
<1>15. Top' = 0 /\ Consumed' \in Nat
  <2>1. BufferInv' /\ SpeculationIsHeld'
    BY <1>3 DEF ParserInv
  <2>2. ~IsSpeculating'
    BY <2>1, <1>14 DEF SpeculationIsHeld
  <2>3. (~IsSpeculating => Top = 0)' /\ (Consumed \in Nat)'
    BY <2>1, MarkerFacts, Basics, PTL
  <2> QED BY <2>2, <2>3
<1>16. Fits(input, Consumed, lev[Len(calls')])
  <2>1. Len(calls') = k
    BY <1>7, <1>10
  <2> QED BY <2>1, <1>2, <1>4 DEF OpenedAs
<1>17. Consumed' + Top' = Consumed
  BY <1>5, <1>15
<1>18. OpenedAs(lev)'
  BY <1>5, <1>13, <1>14, <1>16, <1>17 DEF OpenedAs
<1> QED BY <1>1, <1>18 DEF Opened

LEMMA OpenedByAll ==
  ASSUME ParserInv, Opened, [Next]_vars
  PROVE  Opened'
<1>1. CASE \E rules : rules \subseteq Rules /\ Take(rules)
  BY <1>1, OpenedByTake
<1>2. CASE LookAhead
  <2>1. PICK n \in 0..MaxLook : Look(n)
    BY <1>2 DEF LookAhead
  <2>2. n \in Nat
    BY BoundsAssumption
  <2>3. UNCHANGED <<calls, input>> /\ status' = status
    BY <1>2, <2>1 DEF LookAhead, Look
  <2>4. Consumed' = Consumed /\ Top' = Top
    BY <2>1, <2>2, LookStep DEF ParserInv
  <2> QED BY <2>3, <2>4, OpenedByKeeping
<1>3. CASE ReturnNothing
  BY <1>3, OpenedByReturnNothing
<1>4. CASE Fails
  <2>1. UNCHANGED <<calls, input, lexer, tokens, markers>> /\ status' # "done"
    BY <1>4 DEF Fails
  <2>2. Consumed' = Consumed /\ Top' = Top
    BY <2>1 DEF Consumed, Top, IsSpeculating
  <2> QED BY <2>1, <2>2, OpenedByKeeping
<1>5. CASE SpeculateTypeSpec
  BY <1>5, OpenedBySpeculating
<1>6. CASE SpeculationSucceeds
  BY <1>6, OpenedBySuccess
<1>7. CASE SpeculationFails
  BY <1>7, OpenedByFailure
<1>8. CASE UNCHANGED vars
  <2>1. UNCHANGED <<calls, status, input, lexer, tokens, markers>>
    BY <1>8 DEF vars
  <2>2. Consumed' = Consumed /\ Top' = Top
    BY <2>1 DEF Consumed, Top, IsSpeculating
  <2> QED BY <2>1, <2>2, OpenedByKeeping
<1> QED BY <1>1, <1>2, <1>3, <1>4, <1>5, <1>6, <1>7, <1>8, Steps

LEMMA OpenedAtFirst ==
  ASSUME Init
  PROVE  Opened
<1>1. /\ BufferInit /\ calls = <<[at |-> "unit", how |-> "top"]>> /\ status = "running"
  BY DEF Init
<1>2. Len(calls) = 1 /\ calls[1] = [at |-> "unit", how |-> "top"]
  BY <1>1, OneElement
<1>3. /\ \A k \in 1..Len(calls) : k = 1
      /\ \A k \in 0..(Len(calls) - 1) : k = 0
  BY <1>2
<1>4. Consumed + Top = 0
  <2>1. lexer = input /\ tokens = <<>> /\ markers = <<>> /\ input \in Seq(Tokens)
    BY <1>1, InputsAssumption DEF BufferInit
  <2>2. Len(input) \in Nat /\ Len(tokens) = 0 /\ Top = 0
    BY <2>1 DEF Top, IsSpeculating
  <2>3. Consumed = 0
    <3>1. \A i \in Nat : i - i - 0 = 0
      OBVIOUS
    <3>2. Consumed = Len(input) - Len(input) - 0
      BY <2>1, <2>2 DEF Consumed
    <3> QED BY <3>1, <3>2, <2>2
  <2> QED BY <2>2, <2>3
<1> DEFINE lev == [k \in 0..1 |-> <<>>]
<1>5. lev[0] = <<>> /\ lev[1] = <<>>
  OBVIOUS
<1> HIDE DEF lev
<1>6. Awaits(calls[1].at, calls[1].how) = <<>>
  <2>1. "unit" \notin Waiting
    BY DEF Waiting, InParen, InBracket, InList, InBrace, InLoop
  <2> QED BY <2>1, <1>2, AwaitsNothing
<1>7. IsLevels(calls, lev)
  <2>1. lev[1] = lev[1 - 1] \o Awaits(calls[1].at, calls[1].how)
    <3>1. <<>> \o <<>> = <<>> /\ 1 - 1 = 0
      BY EmptyIsSeq, NothingMore
    <3> QED BY <3>1, <1>5, <1>6
  <2> QED BY <2>1, <1>3, <1>5, CleanMore DEF IsLevels
<1>8. Fits(input, Consumed + Top, lev[Len(calls)])
  BY <1>2, <1>4, <1>5, AwaitedIs DEF Fits
<1>9. \A k \in 1..Len(calls) : calls[k].at # "speculated"
  BY <1>2, <1>3
<1>10. OpenedAs(lev)
  BY <1>7, <1>8, <1>9 DEF OpenedAs
<1> QED BY <1>1, <1>10 DEF Opened

\* Outside all activations but the outermost, nothing is awaited.
LEMMA OpenedMatches ==
  ASSUME ParserInv, Opened
  PROVE  BracketsMatch
<1> SUFFICES ASSUME status = "done"
             PROVE  Awaited(input)[Consumed] \in {<<>>, <<SwallowsOne>>}
  BY DEF BracketsMatch
<1>1. Here.at = "unit" /\ Len(calls) = 1
  <2>1. Here.at = "unit"
    BY DEF Opened
  <2> QED BY <2>1, HereFacts DEF ParserInv
<1>2. PICK lev : OpenedAs(lev)
  BY DEF Opened
<1>3. lev[1] = <<>>
  <2>1. lev[Len(calls)] = lev[Len(calls) - 1] \o Awaits(Here.at, Here.how)
    BY <1>2, LevelHere DEF ParserInv, OpenedAs
  <2>2. Awaits(Here.at, Here.how) = <<>>
    <3>1. "unit" \notin Waiting
      BY DEF Waiting, InParen, InBracket, InList, InBrace, InLoop
    <3> QED BY <3>1, <1>1, AwaitsNothing
  <2>3. lev[0] = <<>> /\ Len(calls) - 1 = 0
    BY <1>1, <1>2 DEF OpenedAs, IsLevels
  <2>4. <<>> \o <<>> = <<>>
    BY EmptyIsSeq, NothingMore
  <2> QED BY <1>1, <2>1, <2>2, <2>3, <2>4
<1>4. Consumed + Top = Consumed
  <2>1. Here.at \notin TypePoints /\ Here.at # "speculated"
    BY <1>1 DEF TypePoints
  <2>2. Top = 0 /\ Consumed \in Nat
    BY <2>1, OnlyTypesAreSpeculatedOn, MarkerFacts, Basics DEF ParserInv
  <2> QED BY <2>2
<1>5. Fits(input, Consumed, <<>>)
  BY <1>1, <1>2, <1>3, <1>4 DEF OpenedAs
<1>6. <<>> \o <<SwallowsOne>> = <<SwallowsOne>>
  OBVIOUS
<1> QED BY <1>5, <1>6 DEF Fits

\* In every source that the parser accepts, however long, parentheses, brackets,
\* braces and loops nest: each activation awaits the bracket that closes what it
\* has opened, and returns only when it has consumed it (Parser::parseTransUnit).
THEOREM BracketsNest == Spec => []BracketsMatch
<1>1. Init => ParserInv /\ Opened
  BY ParserInit, OpenedAtFirst
<1>2. ParserInv /\ Opened /\ [Next]_vars => ParserInv' /\ Opened'
  BY ParserStep, OpenedByAll
<1>3. ParserInv /\ Opened => BracketsMatch
  BY OpenedMatches
<1> QED BY <1>1, <1>2, <1>3, PTL DEF Spec
===============================================================================
