------------------------- MODULE SourceStreamProofs -------------------------
(***************************************************************************)
(* Proofs about SourceStream, for every set of files in which #include     *)
(* goes up in some order (ProgramsAssumption).                             *)
(***************************************************************************)
EXTENDS SourceStream, SequenceTheorems, FiniteSetTheorems, TLAPS

NameAt(i) == stack[i].name

(***************************************************************************)
(* The inductive invariant.  The streams on the stack are the open ones,   *)
(* no two have the same name because their ranks go up, and all but        *)
(* peryandefs are in the set of imported files, so that an #import opens   *)
(* none of them again.                                                     *)
(***************************************************************************)
StackInv ==
  /\ stack # <<>>
  /\ \A f \in Names : f \in opened <=> \E i \in 1..Len(stack) : NameAt(i) = f
  /\ \A i \in 1..Len(stack) : NameAt(i) \in DOMAIN program
  /\ \A i, j \in 1..Len(stack) :
       i < j => Rank[NameAt(i)] <= Rank[NameAt(j)] /\ NameAt(i) # NameAt(j)
  /\ \A i \in 1..Len(stack) : NameAt(i) # Defs => NameAt(i) \in imported

IInv ==
  /\ TypeOK
  /\ status = "reading" => StackInv
  /\ status = "done" => opened = {}

(***************************************************************************)
(* What the steps need of sequences.                                       *)
(***************************************************************************)
LEMMA TopFacts ==
  ASSUME TypeOK, status = "reading", StackInv
  PROVE  /\ Len(stack) \in Nat \ {0}
         /\ Top \in Stream
         /\ Top = stack[Len(stack)]
         /\ Top.name \in opened
         /\ Top.name \in Names
         /\ Top.name \in DOMAIN program
         /\ Below \in Seq(Stream)
         /\ Len(Below) = Len(stack) - 1
         /\ \A i \in 1..Len(Below) : Below[i] = stack[i]
<1>1. stack \in Seq(Stream) /\ stack # <<>>
  BY DEF TypeOK, StackInv
<1>2. Len(stack) \in Nat \ {0}
  BY <1>1, EmptySeq
<1>3. Top = stack[Len(stack)] /\ Len(stack) \in 1..Len(stack)
  BY <1>2 DEF Top
<1>4. Top \in Stream /\ Top.name \in Names
  <2>1. Top \in Stream
    BY <1>1, <1>3, ElementOfSeq
  <2> QED BY <2>1 DEF Stream
<1>5. Top.name \in opened /\ Top.name \in DOMAIN program
  BY <1>3, <1>4 DEF StackInv, NameAt
<1>6. /\ Below \in Seq(Stream)
      /\ Len(Below) = Len(stack) - 1
      /\ \A i \in 1..Len(Below) : Below[i] = stack[i]
  <2> DEFINE n == Len(stack) - 1
  <2>1. n \in Int /\ n \in Nat
    BY <1>2
  <2>2. \A i \in 1..n : stack[i] \in Stream
    BY <1>1, <1>2, ElementOfSeq
  <2>3. /\ SubSeq(stack, 1, n) \in Seq(Stream)
        /\ Len(SubSeq(stack, 1, n)) = IF 1 <= n THEN n - 1 + 1 ELSE 0
        /\ \A i \in 1..n - 1 + 1 : SubSeq(stack, 1, n)[i] = stack[1 + i - 1]
    <3> HIDE DEF n
    <3> QED BY <2>1, <2>2, SubSeqProperties
  <2>4. Len(Below) = n
    <3> HIDE DEF n
    <3>1. Below = SubSeq(stack, 1, n)
      BY DEF Below, n
    <3> QED BY <3>1, <2>1, <2>3
  <2>5. \A i \in 1..n : Below[i] = stack[i]
    <3> HIDE DEF n
    <3>1. Below = SubSeq(stack, 1, n)
      BY DEF Below, n
    <3> QED BY <3>1, <2>1, <2>3
  <2> QED BY <2>3, <2>4, <2>5 DEF Below
<1> QED BY <1>2, <1>3, <1>4, <1>5, <1>6

LEMMA AdvancedFacts ==
  ASSUME TypeOK, status = "reading", StackInv
  PROVE  /\ AdvancedTop \in Stream
         /\ AdvancedTop.name = Top.name
         /\ AdvancedStack \in Seq(Stream)
         /\ Len(AdvancedStack) = Len(stack)
         /\ \A i \in 1..Len(stack) : AdvancedStack[i].name = stack[i].name
         /\ Advanced \in [Names -> Nat]
<1>1. /\ AdvancedTop \in Stream
      /\ AdvancedTop.name = Top.name
  <2>1. Top \in Stream
    BY TopFacts
  <2>2. \A s \in Stream : [s EXCEPT !.line = @ + 1] \in Stream
                         /\ [s EXCEPT !.line = @ + 1].name = s.name
    BY DEF Stream
  <2> QED BY <2>1, <2>2 DEF AdvancedTop
<1>2. /\ AdvancedStack \in Seq(Stream)
      /\ Len(AdvancedStack) = Len(stack)
      /\ \A i \in 1..Len(Below) : AdvancedStack[i] = stack[i]
      /\ AdvancedStack[Len(stack)] = AdvancedTop
  BY <1>1, TopFacts DEF AdvancedStack
<1>3. \A i \in 1..Len(stack) : AdvancedStack[i].name = stack[i].name
  <2> TAKE i \in 1..Len(stack)
  <2>1. CASE i = Len(stack)
    BY <2>1, <1>1, <1>2, TopFacts
  <2>2. CASE i # Len(stack)
    <3>1. i \in 1..Len(Below)
      BY <2>2, TopFacts
    <3> QED BY <3>1, <1>2
  <2> QED BY <2>1, <2>2
<1>4. Advanced \in [Names -> Nat]
  BY TopFacts DEF Advanced, TypeOK
<1> QED BY <1>1, <1>2, <1>3, <1>4

\* The next line is a line of one of the programs, so that it goes up.
LEMMA NextLineFacts ==
  ASSUME TypeOK, status = "reading", StackInv, ~EndOfStream
  PROVE  /\ NextLine \in Line
         /\ NextLine.name \in Names
         /\ GoesUp(Top.name, NextLine)
<1> DEFINE i == offset[Top.name] + 1
           lines == program[Top.name]
<1>0. program \in Programs /\ Top.name \in DOMAIN program /\ offset[Top.name] \in Nat
  BY TopFacts DEF TypeOK
<1>1. lines \in Seq(Line) /\ \A k \in 1..Len(lines) : GoesUp(Top.name, lines[k])
  BY <1>0, ProgramsAssumption
<1>2. i \in 1..Len(lines)
  <2> HIDE DEF lines
  <2>1. Len(lines) \in Nat
    BY <1>1
  <2>2. ~ (offset[Top.name] >= Len(lines))
    BY DEF EndOfStream, lines
  <2> QED BY <1>0, <2>1, <2>2
<1>3. NextLine = lines[i]
  BY DEF NextLine
<1>4. lines[i] \in Line
  <2> HIDE DEF lines, i
  <2> QED BY <1>1, <1>2, ElementOfSeq
<1> QED BY <1>1, <1>2, <1>3, <1>4 DEF Line

-----------------------------------------------------------------------------
(* The invariant is inductive. *)

LEMMA InitIInv == Init => IInv
<1> SUFFICES ASSUME Init PROVE IInv
  OBVIOUS
<1>1. <<>> \in Seq(Stream) /\ <<>> \in Seq(Char) /\ <<>> \in Seq(Breadcrumb)
  BY EmptySeq
<1>2. offset \in [Names -> Nat]
  BY DEF Init
<1>3. TypeOK
  BY <1>1, <1>2 DEF Init, TypeOK
<1> QED BY <1>3 DEF Init, IInv

LEMMA CrumbType ==
  ASSUME NEW text \in Seq(Char), NEW stream \in Stream
  PROVE  Crumb(text, stream) \in Breadcrumb
<1>1. Len(text) \in Nat
  BY LenProperties
<1> QED BY <1>1 DEF Crumb, Breadcrumb, Stream

LEMMA NewStreamType ==
  ASSUME NEW f \in Names
  PROVE  NewStream(f) \in Stream /\ NewStream(f).name = f
BY DEF NewStream, Stream

LEMMA BeginStep ==
  ASSUME IInv, Begin
  PROVE  IInv'
<1> USE NamesAssumption, RankAssumption
<1>1. /\ NewStream(Main) \in Stream /\ NewStream(Main).name = Main
      /\ NewStream(Defs) \in Stream /\ NewStream(Defs).name = Defs
  BY NewStreamType
<1>2. /\ stack' = <<NewStream(Main), NewStream(Defs)>>
      /\ stack' \in Seq(Stream)
      /\ stack' # <<>>
      /\ Len(stack') = 2
      /\ stack'[1].name = Main
      /\ stack'[2].name = Defs
  BY <1>1 DEF Begin, Opening
<1>3. crumbs' \in Seq(Breadcrumb)
  <2>1. Crumb(source, NewStream(Defs)) \in Breadcrumb
    BY <1>1, CrumbType DEF IInv, TypeOK
  <2> QED BY <2>1 DEF Begin
<1>4. TypeOK'
  BY <1>2, <1>3 DEF IInv, TypeOK, Begin
<1>5. StackInv'
  <2>1. 1..Len(stack') = {1, 2}
    BY <1>2
  <2>2. opened' = {Main, Defs} /\ imported' = {Main} /\ {Main, Defs} \subseteq DOMAIN program'
    BY DEF Begin
  <2> QED BY <1>2, <2>1, <2>2 DEF StackInv, NameAt
<1> QED BY <1>4, <1>5 DEF IInv, Begin

LEMMA BeginFailsStep ==
  ASSUME IInv, BeginFails
  PROVE  IInv'
BY DEF IInv, TypeOK, BeginFails

\* Going on with the same streams: only the line counters move.
LEMMA AdvanceStep ==
  ASSUME IInv, status = "reading", ~EndOfStream,
         offset' = Advanced, stack' = AdvancedStack,
         source' \in Seq(Char),
         status' \in {"reading", "error"},
         UNCHANGED <<program, opened, imported, crumbs>>
  PROVE  IInv'
<1> USE DEF IInv
<1>1. /\ stack' \in Seq(Stream)
      /\ Len(stack') = Len(stack)
      /\ \A i \in 1..Len(stack) : stack'[i].name = stack[i].name
      /\ offset' \in [Names -> Nat]
  BY AdvancedFacts
<1>2. TypeOK'
  BY <1>1 DEF TypeOK
<1>3. stack' # <<>>
  BY <1>1, TopFacts, EmptySeq
<1>4. StackInv'
  <2>1. StackInv
    OBVIOUS
  <2>2. \A f \in Names :
          f \in opened <=> \E i \in 1..Len(stack) : stack[i].name = f
    BY <2>1 DEF StackInv, NameAt
  <2>3. \A f \in Names :
          f \in opened' <=> \E i \in 1..Len(stack') : stack'[i].name = f
    BY <1>1, <2>2
  <2>4. \A i \in 1..Len(stack') :
          /\ stack'[i].name \in DOMAIN program'
          /\ stack'[i].name # Defs => stack'[i].name \in imported'
    BY <1>1, <2>1 DEF StackInv, NameAt
  <2>5. \A i, j \in 1..Len(stack') : i < j =>
          /\ Rank[stack'[i].name] <= Rank[stack'[j].name]
          /\ stack'[i].name # stack'[j].name
    BY <1>1, <2>1 DEF StackInv, NameAt
  <2> QED BY <1>3, <2>3, <2>4, <2>5 DEF StackInv, NameAt
<1> QED BY <1>2, <1>4

LEMMA ReadTextStep ==
  ASSUME IInv, ReadText
  PROVE  IInv'
<1>1. status = "reading" /\ ~EndOfStream
  BY DEF ReadText, GetLine, Reading
<1>2. /\ LineChar("text") \in Char
      /\ LineChar("newline") \in Char
  BY <1>1, AdvancedFacts DEF IInv, LineChar, Char, Stream
<1>3. Contents \in Seq(Char) /\ LineEnd \in Seq(Char)
  BY <1>2, EmptySeq DEF Contents, LineEnd
<1>4. source' \in Seq(Char)
  <2>1. source \o Contents \in Seq(Char)
    BY <1>3, ConcatProperties DEF IInv, TypeOK
  <2>2. (source \o Contents) \o LineEnd \in Seq(Char)
    BY <1>3, <2>1, ConcatProperties
  <2> QED BY <2>2 DEF ReadText
<1> QED BY <1>1, <1>4, AdvanceStep DEF ReadText

LEMMA SkipImportStep ==
  ASSUME IInv, SkipImport
  PROVE  IInv'
<1>1. status = "reading" /\ ~EndOfStream
  BY DEF SkipImport, GetLine, Reading
<1>2. source' \in Seq(Char)
  BY DEF SkipImport, IInv, TypeOK
<1> QED BY <1>1, <1>2, AdvanceStep DEF SkipImport

LEMMA FailStep ==
  ASSUME IInv, Fail
  PROVE  IInv'
<1>1. status = "reading" /\ ~EndOfStream
  BY DEF Fail, Reading
<1>2. source' \in Seq(Char)
  BY DEF Fail, IInv, TypeOK
<1> QED BY <1>1, <1>2, AdvanceStep DEF Fail

\* The names on the stack, seen from the top: none has a greater rank.
LEMMA BelowTop ==
  ASSUME IInv, status = "reading", NEW i \in 1..Len(stack)
  PROVE  /\ NameAt(i) \in Names
         /\ Rank[NameAt(i)] \in Nat
         /\ Rank[Top.name] \in Nat
         /\ Rank[NameAt(i)] <= Rank[Top.name]
<1>1. stack[i] \in Stream /\ Top.name \in Names
  BY ElementOfSeq, TopFacts DEF TypeOK, IInv
<1>2. Rank[NameAt(i)] \in Nat /\ Rank[Top.name] \in Nat
  BY <1>1, RankAssumption DEF NameAt, Stream
<1>3. CASE i = Len(stack)
  BY <1>1, <1>2, <1>3 DEF Top, NameAt, Stream
<1>4. CASE i < Len(stack)
  <2>1. Len(stack) \in 1..Len(stack) /\ Top.name = NameAt(Len(stack))
    BY TopFacts DEF IInv, NameAt
  <2> QED BY <1>1, <1>2, <1>4, <2>1 DEF IInv, StackInv, NameAt, Stream
<1>5. i = Len(stack) \/ i < Len(stack)
  BY TopFacts DEF IInv
<1> QED BY <1>3, <1>4, <1>5

(***************************************************************************)
(* Entering a file: what readSources knows of it is that its rank is not   *)
(* below that of the stream at the top, and that it is not open.           *)
(***************************************************************************)
LEMMA EnterStep ==
  ASSUME IInv, status = "reading",
         NEW f \in Names, Enter(f),
         Rank[Top.name] <= Rank[f],
         \A i \in 1..Len(stack) : NameAt(i) # f
  PROVE  IInv'
<1> DEFINE n == Len(stack)
<1> USE DEF IInv
<1>1. /\ AdvancedStack \in Seq(Stream)
      /\ Len(AdvancedStack) = n
      /\ \A i \in 1..n : AdvancedStack[i].name = stack[i].name
      /\ Advanced \in [Names -> Nat]
  BY AdvancedFacts
<1>2. NewStream(f) \in Stream /\ NewStream(f).name = f
  BY NewStreamType
<1>3. n \in Nat \ {0} /\ Top = stack[n]
  BY TopFacts
<1>4. /\ stack' \in Seq(Stream)
      /\ stack' # <<>>
      /\ Len(stack') = n + 1
      /\ \A i \in 1..n : stack'[i].name = stack[i].name
      /\ stack'[n + 1].name = f
  <2>1. stack' = Append(AdvancedStack, NewStream(f))
    BY DEF Enter
  <2>2. /\ stack' \in Seq(Stream)
        /\ stack' # <<>>
        /\ Len(stack') = Len(AdvancedStack) + 1
        /\ \A i \in 1..Len(AdvancedStack) : stack'[i] = AdvancedStack[i]
        /\ stack'[Len(AdvancedStack) + 1] = NewStream(f)
    BY <1>1, <1>2, <2>1, AppendProperties
  <2> QED BY <1>1, <1>2, <2>2
<1>5. offset' \in [Names -> Nat]
  BY <1>1 DEF Enter, Reopened
<1>6. crumbs' \in Seq(Breadcrumb)
  <2>1. Crumb(source, NewStream(f)) \in Breadcrumb
    BY <1>2, CrumbType DEF TypeOK
  <2> QED BY <2>1, AppendProperties DEF Enter, TypeOK
<1>7. TypeOK'
  BY <1>4, <1>5, <1>6 DEF TypeOK, Enter
<1>8. StackInv'
  <2> HIDE DEF n
  <2>0. StackInv /\ n = Len(stack)
    BY DEF n
  <2>1. \A i \in 1..n + 1 : i \in 1..n \/ i = n + 1
    BY <1>3
  <2>2. /\ f \in DOMAIN program /\ program' = program
        /\ opened' = opened \cup {f}
        /\ imported' = imported \cup {f}
    BY DEF Enter
  <2>3. \A g \in Names :
          g \in opened' <=> \E i \in 1..Len(stack') : stack'[i].name = g
    <3> TAKE g \in Names
    <3>1. g \in opened <=> \E i \in 1..n : stack[i].name = g
      BY <2>0 DEF StackInv, NameAt
    <3>2. (\E i \in 1..n + 1 : stack'[i].name = g)
            <=> (\E i \in 1..n : stack'[i].name = g) \/ stack'[n + 1].name = g
      BY <1>3, <2>1
    <3> QED BY <1>4, <2>2, <3>1, <3>2
  <2>4. \A i \in 1..Len(stack') :
          /\ stack'[i].name \in DOMAIN program'
          /\ stack'[i].name # Defs => stack'[i].name \in imported'
    <3> TAKE i \in 1..Len(stack')
    <3>1. CASE i \in 1..n
      BY <1>4, <2>0, <2>2, <3>1 DEF StackInv, NameAt
    <3>2. CASE i = n + 1
      BY <1>4, <2>2, <3>2
    <3> QED BY <1>4, <2>1, <3>1, <3>2
  <2>5. \A i \in 1..n : Rank[stack[i].name] <= Rank[f] /\ stack[i].name # f
    <3> TAKE i \in 1..n
    <3>1. /\ Rank[NameAt(i)] \in Nat
          /\ Rank[Top.name] \in Nat
          /\ Rank[NameAt(i)] <= Rank[Top.name]
      BY <2>0, BelowTop
    <3>2. Rank[f] \in Nat
      BY RankAssumption
    <3>3. NameAt(i) # f
      BY <2>0
    <3> QED BY <3>1, <3>2, <3>3 DEF NameAt
  <2>6. \A i, j \in 1..Len(stack') : i < j =>
          /\ Rank[stack'[i].name] <= Rank[stack'[j].name]
          /\ stack'[i].name # stack'[j].name
    <3> TAKE i, j \in 1..Len(stack')
    <3> HAVE i < j
    <3>1. i \in 1..n
      BY <1>3, <1>4
    <3>2. CASE j \in 1..n
      BY <1>4, <2>0, <3>1, <3>2 DEF StackInv, NameAt
    <3>3. CASE j = n + 1
      BY <1>4, <2>5, <3>1, <3>3
    <3> QED BY <1>4, <2>1, <3>2, <3>3
  <2> QED BY <1>4, <2>3, <2>4, <2>6 DEF StackInv, NameAt
<1> QED BY <1>7, <1>8 DEF Enter

LEMMA TakeImportStep ==
  ASSUME IInv, TakeImport
  PROVE  IInv'
<1> DEFINE f == NextLine.name
<1>1. status = "reading" /\ ~EndOfStream /\ NextLine.kind = "import"
  BY DEF TakeImport, GetLine, Reading
<1>2. f \in Names /\ GoesUp(Top.name, NextLine)
  BY <1>1, NextLineFacts DEF IInv
<1>3. /\ Rank[Top.name] <= Rank[f]
      /\ f = Defs => Rank[Top.name] < Rank[f]
  BY <1>1, <1>2 DEF GoesUp
<1>4. f \notin imported
  BY DEF TakeImport, AlreadyImported
<1>5. \A i \in 1..Len(stack) : NameAt(i) # f
  <2> TAKE i \in 1..Len(stack)
  <2>1. CASE NameAt(i) # Defs
    BY <1>1, <1>4, <2>1 DEF IInv, StackInv
  <2>2. CASE NameAt(i) = Defs
    <3> SUFFICES ASSUME f = Defs PROVE FALSE
      BY <2>2
    <3>1. /\ Rank[NameAt(i)] \in Nat
          /\ Rank[Top.name] \in Nat
          /\ Rank[NameAt(i)] <= Rank[Top.name]
      BY <1>1, BelowTop
    <3> QED BY <1>3, <2>2, <3>1
  <2> QED BY <2>1, <2>2
<1> HIDE DEF f
<1>6. Enter(f)
  BY DEF TakeImport, f
<1> QED BY <1>1, <1>2, <1>3, <1>5, <1>6, EnterStep

LEMMA TakeIncludeStep ==
  ASSUME IInv, TakeInclude
  PROVE  IInv'
<1> DEFINE f == NextLine.name
<1>1. status = "reading" /\ ~EndOfStream /\ NextLine.kind = "include"
  BY DEF TakeInclude, GetLine, Reading
<1>2. f \in Names /\ GoesUp(Top.name, NextLine)
  BY <1>1, NextLineFacts DEF IInv
<1>3. Rank[Top.name] < Rank[f] /\ Rank[Top.name] \in Nat /\ Rank[f] \in Nat
  BY <1>1, <1>2, TopFacts, RankAssumption DEF GoesUp, IInv
<1>4. \A i \in 1..Len(stack) : NameAt(i) # f
  <2> TAKE i \in 1..Len(stack)
  <2>1. Rank[NameAt(i)] \in Nat /\ Rank[NameAt(i)] <= Rank[Top.name]
    BY <1>1, BelowTop
  <2> QED BY <1>3, <2>1
<1> HIDE DEF f
<1>5. Enter(f)
  BY DEF TakeInclude, f
<1>6. Rank[Top.name] <= Rank[f]
  BY <1>3
<1> QED BY <1>1, <1>2, <1>4, <1>5, <1>6, EnterStep

LEMMA EndStreamStep ==
  ASSUME IInv, EndStream
  PROVE  IInv'
<1> DEFINE n == Len(stack)
<1> USE DEF IInv
<1>1. status = "reading" /\ StackInv
  BY DEF EndStream, Reading
<1>2. /\ n \in Nat \ {0}
      /\ Top = stack[n]
      /\ Top \in Stream
      /\ Below \in Seq(Stream)
      /\ Len(Below) = n - 1
      /\ \A i \in 1..n - 1 : Below[i] = stack[i]
  BY <1>1, TopFacts
<1>3. Separated \in Seq(Char)
  <2>1. Separator \in Char
    BY <1>2 DEF Separator, Char, Stream
  <2> QED BY <2>1, AppendProperties DEF Separated, TypeOK
<1>4. Below # <<>> => crumbs' \in Seq(Breadcrumb)
  <2> SUFFICES ASSUME Below # <<>> PROVE crumbs' \in Seq(Breadcrumb)
    OBVIOUS
  <2>1. Len(Below) \in 1..Len(Below)
    BY <1>2, EmptySeq
  <2>2. Below[Len(Below)] \in Stream
    BY <1>2, <2>1, ElementOfSeq
  <2>3. Crumb(Separated, Below[Len(Below)]) \in Breadcrumb
    BY <1>3, <2>2, CrumbType
  <2>4. Returned \in Seq(Breadcrumb)
    BY <2>3, AppendProperties DEF Returned, TypeOK
  <2> QED BY <2>4 DEF EndStream
<1>5. TypeOK'
  BY <1>1, <1>2, <1>3, <1>4 DEF TypeOK, EndStream, LeftOpen
<1>6. \A g \in Names : g \in opened' <=> \E i \in 1..n - 1 : stack[i].name = g
  <2> HIDE DEF n
  <2>0. n = Len(stack)
    BY DEF n
  <2> TAKE g \in Names
  <2>1. opened' = opened \ {stack[n].name}
    BY <1>2 DEF EndStream, LeftOpen
  <2>2. g \in opened <=> \E i \in 1..n : stack[i].name = g
    BY <1>1, <2>0 DEF StackInv, NameAt
  <2>3. \A i \in 1..n : i \in 1..n - 1 \/ i = n
    BY <1>2
  <2>4. \A i \in 1..n - 1 : i \in 1..n /\ stack[i].name # stack[n].name
    BY <1>1, <1>2, <2>0 DEF StackInv, NameAt
  <2> QED BY <2>1, <2>2, <2>3, <2>4
<1>7. CASE Below = <<>>
  <2>1. n - 1 = 0
    BY <1>2, <1>7, EmptySeq
  <2>2. opened' = {}
    <3>1. opened' \subseteq Names
      BY <1>5 DEF TypeOK
    <3> HIDE DEF n
    <3>2. ~ \E i \in 1..n - 1 : TRUE
      BY <2>1
    <3> QED BY <1>6, <3>1, <3>2
  <2>3. status' = "done"
    BY <1>7 DEF EndStream
  <2> QED BY <1>5, <2>2, <2>3
<1>8. CASE Below # <<>>
  <2> HIDE DEF n
  <2>0. n = Len(stack) /\ n - 1 \in Nat
    BY <1>2 DEF n
  <2>1. /\ stack' = Below
        /\ status' = status
        /\ program' = program
        /\ imported' = imported
    BY <1>8 DEF EndStream
  <2>2. Len(stack') = n - 1 /\ \A i \in 1..n - 1 : stack'[i] = stack[i] /\ i \in 1..n
    BY <1>2, <2>1
  <2>3. \A g \in Names :
          g \in opened' <=> \E i \in 1..Len(stack') : stack'[i].name = g
    BY <1>6, <2>2
  <2>4. \A i \in 1..Len(stack') :
          /\ stack'[i].name \in DOMAIN program'
          /\ stack'[i].name # Defs => stack'[i].name \in imported'
    BY <1>1, <2>0, <2>1, <2>2 DEF StackInv, NameAt
  <2>5. \A i, j \in 1..Len(stack') : i < j =>
          /\ Rank[stack'[i].name] <= Rank[stack'[j].name]
          /\ stack'[i].name # stack'[j].name
    BY <1>1, <2>0, <2>2 DEF StackInv, NameAt
  <2>6. StackInv'
    BY <1>8, <2>1, <2>3, <2>4, <2>5 DEF StackInv, NameAt
  <2> QED BY <1>1, <1>5, <2>1, <2>6
<1> QED BY <1>7, <1>8

LEMMA NextIInv == IInv /\ [Next]_vars => IInv'
<1> SUFFICES ASSUME IInv, [Next]_vars PROVE IInv'
  OBVIOUS
<1>1. CASE Begin
  BY <1>1, BeginStep
<1>2. CASE BeginFails
  BY <1>2, BeginFailsStep
<1>3. CASE EndStream
  BY <1>3, EndStreamStep
<1>4. CASE ReadText
  BY <1>4, ReadTextStep
<1>5. CASE TakeImport
  BY <1>5, TakeImportStep
<1>6. CASE SkipImport
  BY <1>6, SkipImportStep
<1>7. CASE TakeInclude
  BY <1>7, TakeIncludeStep
<1>8. CASE Fail
  BY <1>8, FailStep
<1>9. CASE UNCHANGED vars
  BY <1>9 DEF vars, IInv, TypeOK, StackInv, NameAt
<1> QED
  BY <1>1, <1>2, <1>3, <1>4, <1>5, <1>6, <1>7, <1>8, <1>9 DEF Next

LEMMA SourceInvariant == Spec => []IInv
<1> QED BY InitIInv, NextIInv, PTL DEF Spec

(***************************************************************************)
(* However #import and #include nest, readSources never reads a stream     *)
(* that FileSourceReader::close has deleted.                               *)
(***************************************************************************)
THEOREM NoDeletedStreamIsRead == Spec => []ReadsOpenStreams
<1>1. IInv => ReadsOpenStreams
  BY TopFacts DEF IInv, ReadsOpenStreams
<1> QED BY <1>1, SourceInvariant, PTL

\* When readSources returns, FileSourceReader holds no stream.
THEOREM EveryStreamIsClosed == Spec => []ClosesEverything
<1>1. IInv => ClosesEverything
  BY DEF IInv, ClosesEverything
<1> QED BY <1>1, SourceInvariant, PTL

-----------------------------------------------------------------------------
(* Breadcrumbs. *)

\* The last breadcrumb of list that is not after pos.
IsLastUpTo(list, k, pos) ==
  /\ list[k].totalPos <= pos
  /\ \A j \in 1..Len(list) : list[j].totalPos <= pos => j <= k

\* A list of breadcrumbs that maps every position of text to its file.
Maps(list, text) ==
  /\ \A j, k \in 1..Len(list) : j <= k => list[j].totalPos <= list[k].totalPos
  /\ \A k \in 1..Len(list) : list[k].totalPos <= Len(text)
  /\ list # <<>> => list[1].totalPos = 0
  /\ \A pos \in 0..Len(text) - 1, k \in 1..Len(list) :
       IsLastUpTo(list, k, pos) => list[k].name = text[pos + 1].file

\* The last breadcrumb is that of the stream being read.
CrumbInv ==
  /\ Maps(crumbs, source)
  /\ status = "start" => crumbs = <<>> /\ source = <<>>
  /\ status = "reading" => crumbs # <<>> /\ crumbs[Len(crumbs)].name = Top.name

\* Text of the file of the last breadcrumb may be appended.
LEMMA AppendText ==
  ASSUME NEW list \in Seq(Breadcrumb), list # <<>>,
         NEW text \in Seq(Char), NEW char \in Char,
         Maps(list, text), char.file = list[Len(list)].name
  PROVE  Maps(list, Append(text, char))
<1> DEFINE t == Append(text, char)
<1>1. /\ Len(t) = Len(text) + 1
      /\ \A i \in 1..Len(text) : t[i] = text[i]
      /\ t[Len(text) + 1] = char
  BY AppendProperties
<1>2. Len(list) \in Nat \ {0} /\ Len(text) \in Nat
  BY EmptySeq, LenProperties
<1>3. \A k \in 1..Len(list) : list[k].totalPos \in Nat
  <2> TAKE k \in 1..Len(list)
  <2>1. list[k] \in Breadcrumb
    BY ElementOfSeq
  <2> QED BY <2>1 DEF Breadcrumb
<1> HIDE DEF t
<1>4. \A k \in 1..Len(list) : list[k].totalPos <= Len(t)
  BY <1>1, <1>2, <1>3 DEF Maps
<1>5. \A pos \in 0..Len(t) - 1, k \in 1..Len(list) :
        IsLastUpTo(list, k, pos) => list[k].name = t[pos + 1].file
  <2> TAKE pos \in 0..Len(t) - 1, k \in 1..Len(list)
  <2> HAVE IsLastUpTo(list, k, pos)
  <2>1. CASE pos < Len(text)
    <3>1. pos \in 0..Len(text) - 1 /\ t[pos + 1] = text[pos + 1]
      BY <1>1, <1>2, <2>1
    <3> QED BY <3>1 DEF Maps
  <2>2. CASE pos = Len(text)
    <3>1. Len(list) \in 1..Len(list) /\ list[Len(list)].totalPos <= pos
      BY <1>2, <2>2 DEF Maps
    <3>2. k = Len(list)
      BY <1>2, <3>1 DEF IsLastUpTo
    <3> QED BY <1>1, <2>2, <3>2
  <2> QED BY <1>1, <1>2, <2>1, <2>2
<1> QED BY <1>4, <1>5 DEF Maps, t

\* A breadcrumb may be left at the end of the text.
LEMMA AppendCrumb ==
  ASSUME NEW list \in Seq(Breadcrumb), NEW text \in Seq(Char),
         NEW stream \in Stream,
         Maps(list, text), list = <<>> => text = <<>>
  PROVE  Maps(Append(list, Crumb(text, stream)), text)
<1> DEFINE c == Crumb(text, stream)
           l == Append(list, c)
<1>0. c \in Breadcrumb /\ c.totalPos = Len(text)
  BY CrumbType DEF Crumb
<1>1. /\ l \in Seq(Breadcrumb)
      /\ Len(l) = Len(list) + 1
      /\ \A i \in 1..Len(list) : l[i] = list[i]
      /\ l[Len(list) + 1] = c
  <2> HIDE DEF c
  <2> QED BY <1>0, AppendProperties
<1>2. Len(list) \in Nat /\ Len(text) \in Nat
  BY LenProperties
<1>3. \A k \in 1..Len(list) : list[k].totalPos \in Nat
  <2> TAKE k \in 1..Len(list)
  <2>1. list[k] \in Breadcrumb
    BY ElementOfSeq
  <2> QED BY <2>1 DEF Breadcrumb
<1> HIDE DEF c, l
<1>4. \A j, k \in 1..Len(l) : j <= k => l[j].totalPos <= l[k].totalPos
  <2> TAKE j, k \in 1..Len(l)
  <2> HAVE j <= k
  <2>1. CASE k \in 1..Len(list)
    <3>1. j \in 1..Len(list)
      BY <1>1, <1>2, <2>1
    <3> QED BY <1>1, <2>1, <3>1 DEF Maps
  <2>2. CASE k = Len(list) + 1 /\ j \in 1..Len(list)
    BY <1>0, <1>1, <2>2 DEF Maps
  <2>3. CASE k = Len(list) + 1 /\ j = Len(list) + 1
    BY <1>0, <1>1, <1>2, <2>3
  <2> QED BY <1>1, <1>2, <2>1, <2>2, <2>3
<1>5. \A k \in 1..Len(l) : l[k].totalPos <= Len(text)
  <2> TAKE k \in 1..Len(l)
  <2>1. CASE k \in 1..Len(list)
    BY <1>1, <2>1 DEF Maps
  <2>2. CASE k = Len(list) + 1
    BY <1>0, <1>1, <1>2, <2>2
  <2> QED BY <1>1, <1>2, <2>1, <2>2
<1>6. l # <<>> => l[1].totalPos = 0
  <2>1. CASE list = <<>>
    <3>1. Len(list) = 0 /\ Len(text) = 0
      BY <2>1
    <3> QED BY <1>0, <1>1, <3>1
  <2>2. CASE list # <<>>
    <3>1. 1 \in 1..Len(list)
      BY <1>2, <2>2, EmptySeq
    <3> QED BY <1>1, <2>2, <3>1 DEF Maps
  <2> QED BY <2>1, <2>2
<1>7. \A pos \in 0..Len(text) - 1, k \in 1..Len(l) :
        IsLastUpTo(l, k, pos) => l[k].name = text[pos + 1].file
  <2> TAKE pos \in 0..Len(text) - 1, k \in 1..Len(l)
  <2> HAVE IsLastUpTo(l, k, pos)
  <2>1. k \in 1..Len(list)
    BY <1>0, <1>1, <1>2 DEF IsLastUpTo
  <2>2. IsLastUpTo(list, k, pos)
    <3>1. list[k].totalPos <= pos
      BY <1>1, <2>1 DEF IsLastUpTo
    <3>2. \A j \in 1..Len(list) : j \in 1..Len(l) /\ l[j] = list[j]
      BY <1>1, <1>2
    <3> QED BY <3>1, <3>2 DEF IsLastUpTo
  <2> QED BY <1>1, <2>1, <2>2 DEF Maps
<1> QED BY <1>4, <1>5, <1>6, <1>7 DEF Maps, l, c

LEMMA InitCrumbInv == Init => CrumbInv
<1> SUFFICES ASSUME Init PROVE CrumbInv
  OBVIOUS
<1>1. Len(crumbs) = 0 /\ Len(source) = 0 /\ crumbs = <<>> /\ source = <<>>
  BY DEF Init
<1> QED BY <1>1 DEF Init, CrumbInv, Maps

LEMMA BeginCrumbs ==
  ASSUME IInv, CrumbInv, Begin
  PROVE  CrumbInv'
<1>1. NewStream(Defs) \in Stream /\ NewStream(Defs).name = Defs
  BY NamesAssumption, NewStreamType
<1>2. crumbs = <<>> /\ source = <<>> /\ source' = source
  BY DEF Begin, CrumbInv
<1>3. crumbs' = Append(crumbs, Crumb(source, NewStream(Defs)))
  BY <1>2 DEF Begin
<1>4. Maps(crumbs', source')
  BY <1>1, <1>2, <1>3, AppendCrumb DEF IInv, TypeOK, CrumbInv
<1>5. crumbs' # <<>> /\ crumbs'[Len(crumbs')].name = Defs
  BY <1>1 DEF Begin, Crumb
<1>6. stack'[Len(stack')].name = Defs
  BY <1>1 DEF Begin, Opening
<1> QED BY <1>4, <1>5, <1>6 DEF CrumbInv, Begin, Top

\* The stream being read stays the same and the breadcrumbs do too.
LEMMA AdvanceCrumbs ==
  ASSUME IInv, CrumbInv, status = "reading",
         stack' = AdvancedStack, Maps(crumbs', source'),
         status' \in {"reading", "error"},
         UNCHANGED crumbs
  PROVE  CrumbInv'
<1>1. Len(stack) \in 1..Len(stack) /\ Top.name = stack[Len(stack)].name
  BY TopFacts DEF IInv
<1>2. stack'[Len(stack')].name = Top.name
  BY <1>1, AdvancedFacts DEF IInv
<1> QED BY <1>2 DEF CrumbInv, Top

LEMMA ReadTextCrumbs ==
  ASSUME IInv, CrumbInv, ReadText
  PROVE  CrumbInv'
<1>1. status = "reading"
  BY DEF ReadText, GetLine, Reading
<1>2. \A kind \in {"text", "newline"} :
        LineChar(kind) \in Char /\ LineChar(kind).file = crumbs[Len(crumbs)].name
  BY <1>1, TopFacts, AdvancedFacts DEF IInv, CrumbInv, LineChar, Char, Stream
<1>3. \A text \in Seq(Char) : text \o <<>> = text
  BY ConcatEmptySeq
<1>4. \A text \in Seq(Char), char \in Char : text \o <<char>> = Append(text, char)
  BY AppendIsConcat
<1>5. crumbs \in Seq(Breadcrumb) /\ source \in Seq(Char) /\ crumbs # <<>> /\ Maps(crumbs, source)
  BY <1>1 DEF IInv, TypeOK, CrumbInv
<1> DEFINE withText == source \o Contents
<1>6. withText \in Seq(Char) /\ Maps(crumbs, withText)
  <2>1. CASE Contents = <<>>
    BY <1>3, <1>5, <2>1
  <2>2. CASE Contents = <<LineChar("text")>>
    <3>1. withText = Append(source, LineChar("text"))
      BY <1>2, <1>4, <1>5, <2>2
    <3>2. Append(source, LineChar("text")) \in Seq(Char)
      BY <1>2, <1>5, AppendProperties
    <3>3. Maps(crumbs, Append(source, LineChar("text")))
      BY <1>2, <1>5, AppendText
    <3> QED BY <3>1, <3>2, <3>3
  <2> QED BY <2>1, <2>2 DEF Contents
<1>7. Maps(crumbs, source')
  <2> HIDE DEF withText
  <2>0. source' = withText \o LineEnd
    BY DEF ReadText, withText
  <2>1. CASE LineEnd = <<>>
    BY <1>3, <1>6, <2>0, <2>1
  <2>2. CASE LineEnd = <<LineChar("newline")>>
    <3>1. source' = Append(withText, LineChar("newline"))
      BY <1>2, <1>4, <1>6, <2>0, <2>2
    <3>2. Maps(crumbs, Append(withText, LineChar("newline")))
      BY <1>2, <1>5, <1>6, AppendText
    <3> QED BY <3>1, <3>2
  <2> QED BY <2>1, <2>2 DEF LineEnd
<1> QED BY <1>1, <1>7, AdvanceCrumbs DEF ReadText

LEMMA SkipCrumbs ==
  ASSUME IInv, CrumbInv, SkipImport \/ Fail
  PROVE  CrumbInv'
<1>1. status = "reading"
  BY DEF SkipImport, Fail, GetLine, Reading
<1>2. Maps(crumbs', source')
  BY DEF CrumbInv, SkipImport, Fail
<1> QED BY <1>1, <1>2, AdvanceCrumbs DEF SkipImport, Fail

LEMMA EnterCrumbs ==
  ASSUME IInv, CrumbInv, status = "reading", NEW f \in Names, Enter(f)
  PROVE  CrumbInv'
<1>1. NewStream(f) \in Stream /\ NewStream(f).name = f
  BY NewStreamType
<1>2. crumbs \in Seq(Breadcrumb) /\ source \in Seq(Char) /\ crumbs # <<>>
  BY DEF IInv, TypeOK, CrumbInv
<1>3. Maps(crumbs', source')
  BY <1>1, <1>2, AppendCrumb DEF Enter, CrumbInv
<1>4. crumbs' # <<>> /\ crumbs'[Len(crumbs')].name = f
  <2>1. Crumb(source, NewStream(f)) \in Breadcrumb /\ Crumb(source, NewStream(f)).name = f
    BY <1>1, <1>2, CrumbType DEF Crumb
  <2> QED BY <1>2, <2>1, AppendProperties DEF Enter
<1>5. stack'[Len(stack')].name = f
  BY <1>1, AdvancedFacts, AppendProperties DEF Enter, IInv
<1>6. status' = "reading"
  BY DEF Enter
<1> QED BY <1>3, <1>4, <1>5, <1>6 DEF CrumbInv, Top

LEMMA EndStreamCrumbs ==
  ASSUME IInv, CrumbInv, EndStream
  PROVE  CrumbInv'
<1>1. status = "reading"
  BY DEF EndStream, Reading
<1>2. crumbs \in Seq(Breadcrumb) /\ source \in Seq(Char) /\ crumbs # <<>>
  BY <1>1 DEF IInv, TypeOK, CrumbInv
<1>3. Separator \in Char /\ Separator.file = crumbs[Len(crumbs)].name
  BY <1>1, TopFacts DEF IInv, CrumbInv, Separator, Char, Stream
<1>4. Separated \in Seq(Char) /\ Maps(crumbs, Separated)
  <2>1. CASE source = <<>>
    BY <1>2, <2>1 DEF Separated, CrumbInv
  <2>2. CASE source # <<>>
    <3>1. Separated = Append(source, Separator)
      BY <2>2 DEF Separated
    <3>2. Maps(crumbs, Append(source, Separator))
      BY <1>2, <1>3, AppendText DEF CrumbInv
    <3>3. Append(source, Separator) \in Seq(Char)
      BY <1>2, <1>3, AppendProperties
    <3> QED BY <3>1, <3>2, <3>3
  <2> QED BY <2>1, <2>2
<1>5. source' = Separated
  BY DEF EndStream
<1>6. CASE Below = <<>>
  BY <1>4, <1>5, <1>6 DEF CrumbInv, EndStream
<1>7. CASE Below # <<>>
  <2> DEFINE under == Below[Len(Below)]
  <2>1. Below \in Seq(Stream)
    BY <1>1, TopFacts DEF IInv
  <2>2. Len(Below) \in 1..Len(Below)
    BY <1>7, <2>1, EmptySeq
  <2>3. under \in Stream
    BY <2>1, <2>2, ElementOfSeq
  <2>4. crumbs' = Append(crumbs, Crumb(Separated, under)) /\ stack' = Below /\ status' = status
    BY <1>7 DEF EndStream, Returned
  <2> HIDE DEF under
  <2>5. Maps(crumbs', source')
    BY <1>2, <1>4, <1>5, <2>3, <2>4, AppendCrumb
  <2>6. crumbs' # <<>> /\ crumbs'[Len(crumbs')].name = under.name
    <3>1. Crumb(Separated, under) \in Breadcrumb /\ Crumb(Separated, under).name = under.name
      BY <1>4, <2>3, CrumbType DEF Crumb
    <3> QED BY <1>2, <2>4, <3>1, AppendProperties
  <2>7. stack'[Len(stack')].name = under.name
    BY <2>4 DEF under
  <2> QED BY <1>1, <2>4, <2>5, <2>6, <2>7 DEF CrumbInv, Top
<1> QED BY <1>6, <1>7

LEMMA NextCrumbInv == IInv /\ CrumbInv /\ [Next]_vars => CrumbInv'
<1> SUFFICES ASSUME IInv, CrumbInv, [Next]_vars PROVE CrumbInv'
  OBVIOUS
<1>1. CASE Begin
  BY <1>1, BeginCrumbs
<1>2. CASE BeginFails
  BY <1>2 DEF BeginFails, CrumbInv, Maps, IsLastUpTo
<1>3. CASE EndStream
  BY <1>3, EndStreamCrumbs
<1>4. CASE ReadText
  BY <1>4, ReadTextCrumbs
<1>5. CASE TakeImport \/ TakeInclude
  <2>1. status = "reading" /\ ~EndOfStream
    BY <1>5 DEF TakeImport, TakeInclude, GetLine, Reading
  <2>2. NextLine.name \in Names
    BY <2>1, NextLineFacts DEF IInv
  <2>3. Enter(NextLine.name)
    BY <1>5 DEF TakeImport, TakeInclude
  <2> QED BY <2>1, <2>2, <2>3, EnterCrumbs
<1>6. CASE SkipImport \/ Fail
  BY <1>6, SkipCrumbs
<1>7. CASE UNCHANGED vars
  BY <1>7 DEF vars, CrumbInv, Maps, IsLastUpTo, Top
<1> QED BY <1>1, <1>2, <1>3, <1>4, <1>5, <1>6, <1>7 DEF Next

LEMMA CrumbInvariant == Spec => []CrumbInv
<1> QED BY InitIInv, NextIInv, InitCrumbInv, NextCrumbInv, PTL DEF Spec

LEMMA CrumbDomain == TypeOK => DOMAIN crumbs = 1..Len(crumbs)
BY LenProperties DEF TypeOK

(***************************************************************************)
(* The breadcrumbs are always sorted, within the text, and begin at its    *)
(* first position: upper_bound may search them and minus one is a crumb.   *)
(***************************************************************************)
THEOREM SearchIsSound == Spec => []CrumbsAreSorted
<1>1. TypeOK /\ CrumbInv => CrumbsAreSorted
  BY CrumbDomain DEF CrumbInv, Maps, CrumbsAreSorted
<1> QED BY <1>1, SourceInvariant, CrumbInvariant, PTL DEF IInv

\* getPrettyPrint names the file that the text at a position came from.
THEOREM MessagesNameTheFile == Spec => []NamesTheFile
<1>1. TypeOK /\ CrumbInv => NamesTheFile
  BY CrumbDomain
  DEF CrumbInv, Maps, NamesTheFile, IsCrumbOf, IsLastUpTo, Positions, CharAt
<1> QED BY <1>1, SourceInvariant, CrumbInvariant, PTL DEF IInv

-----------------------------------------------------------------------------
(* Lines. *)

\* The newlines of the text from position first on, before position last.
Newlines(text, first, last) ==
  {i \in first..last - 1 : text[i + 1].kind \in {"newline", "separator"}}

\* From that breadcrumb, a position is found in a line of a file, less the
\* directives skipped.
HasLine(crumb, text, pos, file, line) ==
  1 + crumb.line + Cardinality(Newlines(text, crumb.totalPos, pos))
    = line - Cardinality(SkippedBetween(file, crumb.line, line))

\* A list of breadcrumbs that finds every position of text but separators.
Locates(list, text) ==
  \A pos \in 0..Len(text) - 1, k \in 1..Len(list) :
    IsLastUpTo(list, k, pos) /\ text[pos + 1].kind # "separator" =>
      HasLine(list[k], text, pos, text[pos + 1].file, text[pos + 1].line)

(***************************************************************************)
(* The two counters of a stream, the line of the getline loop and that of  *)
(* the breadcrumbs, agree on all the streams on the stack; and the end of  *)
(* the text would be found in the line read next.                          *)
(***************************************************************************)
LineInv ==
  /\ Locates(crumbs, source)
  /\ status = "start" => offset = [f \in Names |-> 0]
  /\ status = "reading" =>
       /\ \A i \in 1..Len(stack) : offset[NameAt(i)] = stack[i].line
       /\ crumbs[Len(crumbs)].line <= Top.line
       /\ ~EndOfStream =>
            HasLine(crumbs[Len(crumbs)], source, Len(source), Top.name, Top.line + 1)

LEMMA NewlinesCount ==
  ASSUME NEW text, NEW a \in Nat, NEW b \in Nat, a <= b
  PROVE  /\ Cardinality(Newlines(text, a, a)) = 0
         /\ Cardinality(Newlines(text, a, b)) \in Nat
         /\ Cardinality(Newlines(text, a, b + 1)) =
              Cardinality(Newlines(text, a, b))
                + IF text[b + 1].kind \in {"newline", "separator"} THEN 1 ELSE 0
<1>1. Newlines(text, a, a) = {}
  BY DEF Newlines
<1> DEFINE S == Newlines(text, a, b)
<1>2. IsFiniteSet(S)
  <2>1. IsFiniteSet(a..b - 1)
    BY FS_Interval
  <2> QED BY <2>1, FS_Subset DEF Newlines
<1>3. b \notin S
  BY DEF Newlines
<1>4. Newlines(text, a, b + 1) =
        IF text[b + 1].kind \in {"newline", "separator"} THEN S \cup {b} ELSE S
  <2>1. \A i : i \in a..(b + 1) - 1 <=> i \in a..b - 1 \/ i = b
    OBVIOUS
  <2> QED BY <2>1 DEF Newlines
<1> HIDE DEF S
<1>5. Cardinality(S) \in Nat
  BY <1>2, FS_CardinalityType
<1>6. Cardinality(S \cup {b}) = Cardinality(S) + 1
  BY <1>2, <1>3, FS_AddElement
<1> QED BY <1>1, <1>4, <1>5, <1>6, FS_EmptySet DEF S

LEMMA SkippedCount ==
  ASSUME NEW f, NEW a \in Nat, NEW b \in Nat, a <= b
  PROVE  /\ Cardinality(SkippedBetween(f, a, a + 1)) = 0
         /\ Cardinality(SkippedBetween(f, a, b + 1)) \in Nat
         /\ Cardinality(SkippedBetween(f, a, b + 2)) =
              Cardinality(SkippedBetween(f, a, b + 1))
                + IF program[f][b + 1].kind = "import" THEN 1 ELSE 0
<1>1. SkippedBetween(f, a, a + 1) = {}
  BY DEF SkippedBetween
<1> DEFINE S == SkippedBetween(f, a, b + 1)
<1>2. IsFiniteSet(S)
  <2>1. IsFiniteSet(a + 1 .. (b + 1) - 1)
    BY FS_Interval
  <2> QED BY <2>1, FS_Subset DEF SkippedBetween
<1>3. b + 1 \notin S
  BY DEF SkippedBetween
<1>4. SkippedBetween(f, a, b + 2) =
        IF program[f][b + 1].kind = "import" THEN S \cup {b + 1} ELSE S
  <2>1. \A i : i \in a + 1 .. (b + 2) - 1 <=> i \in a + 1 .. (b + 1) - 1 \/ i = b + 1
    OBVIOUS
  <2> QED BY <2>1 DEF SkippedBetween
<1> HIDE DEF S
<1>5. Cardinality(S) \in Nat
  BY <1>2, FS_CardinalityType
<1>6. Cardinality(S \cup {b + 1}) = Cardinality(S) + 1
  BY <1>2, <1>3, FS_AddElement
<1> QED BY <1>1, <1>4, <1>5, <1>6, FS_EmptySet DEF S

\* A breadcrumb left at the end of the text finds it in the line after its own.
LEMMA FreshCrumb ==
  ASSUME NEW text \in Seq(Char), NEW stream \in Stream, NEW f
  PROVE  HasLine(Crumb(text, stream), text, Len(text), f, stream.line + 1)
<1>1. Len(text) \in Nat /\ stream.line \in Nat
  BY LenProperties DEF Stream
<1>2. Cardinality(Newlines(text, Len(text), Len(text))) = 0
  BY <1>1, NewlinesCount
<1>3. Cardinality(SkippedBetween(f, stream.line, stream.line + 1)) = 0
  <2>1. SkippedBetween(f, stream.line, stream.line + 1) = {}
    BY <1>1 DEF SkippedBetween
  <2> QED BY <2>1, FS_EmptySet
<1> QED BY <1>1, <1>2, <1>3 DEF HasLine, Crumb

\* What is appended does not change what was found before it.
LEMMA SameLine ==
  ASSUME NEW text \in Seq(Char), NEW char \in Char, NEW crumb \in Breadcrumb,
         NEW pos \in 0..Len(text), NEW f, NEW line
  PROVE  HasLine(crumb, Append(text, char), pos, f, line) <=> HasLine(crumb, text, pos, f, line)
<1>1. \A i \in 1..Len(text) : Append(text, char)[i] = text[i]
  BY AppendProperties
<1>2. Len(text) \in Nat /\ crumb.totalPos \in Nat
  BY LenProperties DEF Breadcrumb
<1>3. \A i \in crumb.totalPos..pos - 1 : i + 1 \in 1..Len(text)
  BY <1>2
<1>4. Newlines(Append(text, char), crumb.totalPos, pos) = Newlines(text, crumb.totalPos, pos)
  BY <1>1, <1>3 DEF Newlines
<1> QED BY <1>4 DEF HasLine

\* Text of the line that the end of the text is found in may be appended.
LEMMA AppendLocated ==
  ASSUME NEW list \in Seq(Breadcrumb), list # <<>>,
         NEW text \in Seq(Char), NEW char \in Char,
         Maps(list, text), Locates(list, text),
         char.kind # "separator" =>
           HasLine(list[Len(list)], text, Len(text), char.file, char.line)
  PROVE  Locates(list, Append(text, char))
<1> DEFINE t == Append(text, char)
<1>1. /\ Len(t) = Len(text) + 1
      /\ \A i \in 1..Len(text) : t[i] = text[i]
      /\ t[Len(text) + 1] = char
  BY AppendProperties
<1>2. Len(list) \in Nat \ {0} /\ Len(text) \in Nat
  BY EmptySeq, LenProperties
<1>3. \A k \in 1..Len(list) : list[k] \in Breadcrumb
  BY ElementOfSeq
<1>4. \A k \in 1..Len(list), pos \in 0..Len(text) : \A f, line :
        HasLine(list[k], t, pos, f, line) <=> HasLine(list[k], text, pos, f, line)
  BY <1>3, SameLine
<1> HIDE DEF t
<1> SUFFICES ASSUME NEW pos \in 0..Len(t) - 1, NEW k \in 1..Len(list),
                    IsLastUpTo(list, k, pos), t[pos + 1].kind # "separator"
             PROVE  HasLine(list[k], t, pos, t[pos + 1].file, t[pos + 1].line)
  BY DEF Locates, t
<1>5. CASE pos < Len(text)
  <2>1. pos \in 0..Len(text) - 1 /\ pos \in 0..Len(text) /\ t[pos + 1] = text[pos + 1]
    BY <1>1, <1>2, <1>5
  <2> QED BY <1>4, <2>1 DEF Locates
<1>6. CASE pos = Len(text)
  <2>1. Len(list) \in 1..Len(list) /\ list[Len(list)].totalPos <= pos
    BY <1>2, <1>6 DEF Maps
  <2>2. k = Len(list)
    BY <1>2, <2>1 DEF IsLastUpTo
  <2>3. t[pos + 1] = char /\ pos \in 0..Len(text)
    BY <1>1, <1>2, <1>6
  <2> QED BY <1>4, <1>6, <2>2, <2>3
<1> QED BY <1>1, <1>2, <1>5, <1>6

\* And a breadcrumb may be left at the end of the text.
LEMMA AppendLocatedCrumb ==
  ASSUME NEW list \in Seq(Breadcrumb), NEW text \in Seq(Char), NEW stream \in Stream,
         Locates(list, text)
  PROVE  Locates(Append(list, Crumb(text, stream)), text)
<1> DEFINE c == Crumb(text, stream)
           l == Append(list, c)
<1>1. c \in Breadcrumb /\ c.totalPos = Len(text)
  BY CrumbType DEF Crumb
<1>2. /\ Len(l) = Len(list) + 1
      /\ \A i \in 1..Len(list) : l[i] = list[i]
      /\ l[Len(list) + 1] = c
  <2> HIDE DEF c
  <2> QED BY <1>1, AppendProperties
<1>3. Len(list) \in Nat /\ Len(text) \in Nat
  BY LenProperties
<1> HIDE DEF c, l
<1> SUFFICES ASSUME NEW pos \in 0..Len(text) - 1, NEW k \in 1..Len(l),
                    IsLastUpTo(l, k, pos), text[pos + 1].kind # "separator"
             PROVE  HasLine(l[k], text, pos, text[pos + 1].file, text[pos + 1].line)
  BY DEF Locates, l, c
<1>4. k \in 1..Len(list)
  BY <1>1, <1>2, <1>3 DEF IsLastUpTo
<1>5. IsLastUpTo(list, k, pos)
  <2>1. list[k].totalPos <= pos
    BY <1>2, <1>4 DEF IsLastUpTo
  <2>2. \A j \in 1..Len(list) : j \in 1..Len(l) /\ l[j] = list[j]
    BY <1>2, <1>3
  <2> QED BY <2>1, <2>2 DEF IsLastUpTo
<1> QED BY <1>2, <1>4, <1>5 DEF Locates

LEMMA InitLineInv == Init => LineInv
<1> SUFFICES ASSUME Init PROVE LineInv
  OBVIOUS
<1>1. Len(crumbs) = 0 /\ Len(source) = 0
  BY DEF Init
<1> QED BY <1>1 DEF Init, LineInv, Locates

\* The files do not change, so neither does what is found in them.
LEMMA SameFiles ==
  ASSUME program' = program
  PROVE  /\ \A list, text : Locates(list, text)' <=> Locates(list, text)
         /\ \A crumb, text, pos, f, line :
              HasLine(crumb, text, pos, f, line)' <=> HasLine(crumb, text, pos, f, line)
BY DEF Locates, HasLine, SkippedBetween, Newlines, IsLastUpTo

\* After getline both counters of the stream at the top have moved, and no other.
LEMMA AdvancedCounters ==
  ASSUME IInv, LineInv, status = "reading"
  PROVE  /\ AdvancedTop.line = Top.line + 1 /\ Top.line \in Nat
         /\ Top.line = offset[Top.name]
         /\ AdvancedStack[Len(stack)] = AdvancedTop
         /\ Advanced[Top.name] = offset[Top.name] + 1
         /\ \A i \in 1..Len(stack) : Advanced[AdvancedStack[i].name] = AdvancedStack[i].line
<1> DEFINE n == Len(stack)
<1>1. /\ n \in Nat \ {0} /\ Top = stack[n] /\ Top \in Stream /\ Top.name \in Names
      /\ Below \in Seq(Stream) /\ Len(Below) = n - 1
      /\ \A i \in 1..n - 1 : Below[i] = stack[i]
  BY TopFacts DEF IInv
<1>2. Top.line = offset[Top.name] /\ Top.line \in Nat
  BY <1>1 DEF LineInv, NameAt, Stream
<1>3. AdvancedTop \in Stream /\ AdvancedTop.name = Top.name /\ AdvancedTop.line = Top.line + 1
  BY <1>1 DEF AdvancedTop, Stream
<1>4. /\ \A i \in 1..n - 1 : AdvancedStack[i] = stack[i]
      /\ AdvancedStack[n] = AdvancedTop
  BY <1>1, <1>3, AppendProperties DEF AdvancedStack
<1>5. /\ Advanced[Top.name] = offset[Top.name] + 1
      /\ \A f \in Names : f # Top.name => Advanced[f] = offset[f]
  BY <1>1 DEF Advanced, IInv, TypeOK
<1>6. \A i \in 1..n - 1 : /\ stack[i].name \in Names /\ stack[i].name # Top.name
                          /\ offset[stack[i].name] = stack[i].line
  <2> TAKE i \in 1..n - 1
  <2>1. i \in 1..n /\ n \in 1..n /\ i < n
    BY <1>1
  <2>2. stack[i] \in Stream
    BY <2>1, ElementOfSeq DEF IInv, TypeOK
  <2> QED BY <1>1, <2>1, <2>2 DEF IInv, StackInv, NameAt, LineInv, Stream
<1>7. \A i \in 1..n : Advanced[AdvancedStack[i].name] = AdvancedStack[i].line
  <2> TAKE i \in 1..n
  <2>1. CASE i = n
    BY <1>2, <1>3, <1>4, <1>5, <2>1
  <2>2. CASE i \in 1..n - 1
    BY <1>4, <1>5, <1>6, <2>2
  <2> QED BY <1>1, <2>1, <2>2
<1> QED BY <1>2, <1>3, <1>4, <1>5, <1>7

LEMMA BeginLines ==
  ASSUME IInv, CrumbInv, LineInv, Begin
  PROVE  LineInv'
<1>1. /\ NewStream(Main) \in Stream /\ NewStream(Defs) \in Stream
      /\ NewStream(Main).line = 0 /\ NewStream(Defs).line = 0
      /\ NewStream(Main).name = Main /\ NewStream(Defs).name = Defs
  BY NamesAssumption DEF NewStream, Stream
<1>2. /\ stack' = <<NewStream(Main), NewStream(Defs)>> /\ source' = source
      /\ program' = program /\ offset' = offset
      /\ crumbs' = <<Crumb(source, NewStream(Defs))>> /\ status = "start"
  BY DEF Begin, Opening
<1>3. source = <<>> /\ Len(source) = 0 /\ offset = [f \in Names |-> 0]
  BY <1>2 DEF CrumbInv, LineInv
<1>4. Locates(crumbs, source)'
  BY <1>2, <1>3 DEF Locates
<1>5. \A i \in 1..Len(stack') : offset'[stack'[i].name] = stack'[i].line
  <2>1. 1..Len(stack') = {1, 2} /\ stack'[1] = NewStream(Main) /\ stack'[2] = NewStream(Defs)
    BY <1>2
  <2> QED BY <1>1, <1>2, <1>3, <2>1, NamesAssumption
<1>6. Top' = NewStream(Defs) /\ crumbs'[Len(crumbs')] = Crumb(source, NewStream(Defs))
  BY <1>2 DEF Top
<1>7. HasLine(crumbs[Len(crumbs)], source, Len(source), Top.name, Top.line + 1)'
  <2>1. HasLine(Crumb(source, NewStream(Defs)), source, Len(source), Defs, 0 + 1)
    BY <1>1, FreshCrumb DEF IInv, TypeOK
  <2>2. HasLine(crumbs'[Len(crumbs')], source', Len(source'), Top'.name, Top'.line + 1)
    BY <1>1, <1>2, <1>6, <2>1
  <2> QED BY <1>2, <2>2, SameFiles
<1>8. crumbs'[Len(crumbs')].line <= Top'.line
  BY <1>1, <1>6 DEF Crumb
<1>9. status' # "start"
  BY DEF Begin
<1> QED BY <1>4, <1>5, <1>7, <1>8, <1>9 DEF LineInv, NameAt

(***************************************************************************)
(* Going on with the same streams, when what is appended to the text ends  *)
(* in the line just read.                                                  *)
(***************************************************************************)
LEMMA AdvanceLines ==
  ASSUME IInv, CrumbInv, LineInv, status = "reading", ~EndOfStream,
         offset' = Advanced, stack' = AdvancedStack,
         status' \in {"reading", "error"},
         UNCHANGED <<program, crumbs>>,
         Locates(crumbs, source'),
         status' = "reading" /\ ~IsLast =>
           HasLine(crumbs[Len(crumbs)], source', Len(source'), Top.name, Top.line + 2)
  PROVE  LineInv'
<1> DEFINE n == Len(stack)
<1>1. /\ n \in Nat \ {0} /\ Top.name \in DOMAIN program
      /\ AdvancedTop.name = Top.name /\ Len(AdvancedStack) = n
  BY TopFacts, AdvancedFacts DEF IInv
<1>2. Top' = AdvancedTop /\ Top'.name = Top.name /\ Top'.line = Top.line + 1
  BY <1>1, AdvancedCounters DEF Top
<1>3. Locates(crumbs, source)'
  BY SameFiles
<1>4. \A i \in 1..Len(stack') : offset'[stack'[i].name] = stack'[i].line
  BY <1>1, AdvancedCounters
<1>5. status' = "reading" => crumbs'[Len(crumbs')].line <= Top'.line
  <2>1. crumbs[Len(crumbs)] \in Breadcrumb
    <3>1. crumbs \in Seq(Breadcrumb) /\ crumbs # <<>>
      BY DEF IInv, TypeOK, CrumbInv
    <3>2. Len(crumbs) \in 1..Len(crumbs)
      BY <3>1, EmptySeq
    <3> QED BY <3>1, <3>2, ElementOfSeq
  <2> QED BY <1>2, <2>1, AdvancedCounters DEF LineInv, Breadcrumb
<1>6. EndOfStream' <=> Advanced[Top.name] >= Len(program[Top.name])
  BY <1>2 DEF EndOfStream
<1>7. ~EndOfStream' => ~IsLast
  <2>1. program[Top.name] \in Seq(Line)
    BY <1>1, ProgramsAssumption DEF IInv, TypeOK
  <2>2. Len(program[Top.name]) \in Nat
    BY <2>1
  <2> QED BY <1>6, <2>2, AdvancedCounters DEF IsLast
<1>8. status' = "reading" /\ ~EndOfStream' =>
        HasLine(crumbs[Len(crumbs)], source, Len(source), Top.name, Top.line + 1)'
  <2> SUFFICES ASSUME status' = "reading", ~EndOfStream'
               PROVE  HasLine(crumbs[Len(crumbs)], source, Len(source), Top.name, Top.line + 1)'
    OBVIOUS
  <2>1. Top'.line + 1 = Top.line + 2
    BY <1>2, AdvancedCounters
  <2>2. HasLine(crumbs'[Len(crumbs')], source', Len(source'), Top'.name, Top'.line + 1)
    BY <1>2, <1>7, <2>1
  <2> QED BY <2>2, SameFiles
<1> QED BY <1>3, <1>4, <1>5, <1>8 DEF LineInv, NameAt

(***************************************************************************)
(* Past a line of text, which leaves one more newline, and past a directive*)
(* that is skipped, the end of the text is found in the next line.         *)
(***************************************************************************)
LEMMA NextLineIsFound ==
  ASSUME NEW crumb \in Breadcrumb, NEW text, NEW t, NEW pos \in Nat, NEW end \in Nat,
         NEW f, NEW line \in Nat, crumb.line <= line, crumb.totalPos <= pos,
         HasLine(crumb, text, pos, f, line + 1),
         Cardinality(Newlines(t, crumb.totalPos, end)) =
           Cardinality(Newlines(text, crumb.totalPos, pos))
             + IF program[f][line + 1].kind = "import" THEN 0 ELSE 1
  PROVE  HasLine(crumb, t, end, f, line + 2)
<1>1. crumb.line \in Nat /\ crumb.totalPos \in Nat
  BY DEF Breadcrumb
<1> DEFINE N == Cardinality(Newlines(text, crumb.totalPos, pos))
           C == Cardinality(SkippedBetween(f, crumb.line, line + 1))
           D == Cardinality(SkippedBetween(f, crumb.line, line + 2))
<1>2. N \in Nat
  BY <1>1, NewlinesCount
<1>3. C \in Nat /\ D = C + IF program[f][line + 1].kind = "import" THEN 1 ELSE 0
  BY <1>1, SkippedCount
<1>4. 1 + crumb.line + N = (line + 1) - C
  BY DEF HasLine
<1> DEFINE M == Cardinality(Newlines(t, crumb.totalPos, end))
<1>5. M = N + IF program[f][line + 1].kind = "import" THEN 0 ELSE 1
  OBVIOUS
<1> HIDE DEF N, C, D, M
<1>6. 1 + crumb.line + M = (line + 2) - D
  BY <1>1, <1>2, <1>3, <1>4, <1>5
<1> QED BY <1>6 DEF HasLine, M, D

LEMMA ReadTextLines ==
  ASSUME IInv, CrumbInv, LineInv, ReadText
  PROVE  LineInv'
<1>1. /\ status = "reading" /\ ~EndOfStream /\ NextLine.kind \in {"text", "blank"}
      /\ source' = (source \o Contents) \o LineEnd
  BY DEF ReadText, GetLine, Reading
<1>2. /\ crumbs \in Seq(Breadcrumb) /\ source \in Seq(Char) /\ crumbs # <<>>
      /\ Maps(crumbs, source) /\ Locates(crumbs, source)
      /\ Top.name = crumbs[Len(crumbs)].name
      /\ Len(crumbs) \in 1..Len(crumbs)
      /\ HasLine(crumbs[Len(crumbs)], source, Len(source), Top.name, Top.line + 1)
      /\ crumbs[Len(crumbs)].line <= Top.line
  <2>1. crumbs # <<>> /\ crumbs \in Seq(Breadcrumb)
    BY <1>1 DEF IInv, TypeOK, CrumbInv
  <2>2. Len(crumbs) \in 1..Len(crumbs)
    BY <2>1, EmptySeq
  <2> QED BY <1>1, <2>1, <2>2 DEF IInv, TypeOK, CrumbInv, LineInv
<1> DEFINE last == crumbs[Len(crumbs)]
           withText == source \o Contents
           line == Top.line + 1
<1>3. \A kind \in {"text", "newline"} :
        /\ LineChar(kind) \in Char /\ LineChar(kind).kind = kind
        /\ LineChar(kind).file = Top.name /\ LineChar(kind).line = line
  BY <1>1, TopFacts, AdvancedFacts, AdvancedCounters DEF IInv, LineChar, Char, Stream
<1>4. /\ \A text \in Seq(Char) : text \o <<>> = text
      /\ \A text \in Seq(Char), char \in Char : text \o <<char>> = Append(text, char)
  BY ConcatEmptySeq, AppendIsConcat
<1>5. last \in Breadcrumb /\ last.totalPos \in Nat /\ last.line \in Nat /\ line \in Nat
  <2>1. last \in Breadcrumb
    BY <1>2, ElementOfSeq
  <2> QED BY <1>1, <2>1, AdvancedCounters DEF Breadcrumb
<1>6. /\ withText \in Seq(Char) /\ Maps(crumbs, withText) /\ Locates(crumbs, withText)
      /\ HasLine(last, withText, Len(withText), Top.name, line)
  <2>1. CASE Contents = <<>>
    BY <1>2, <1>4, <2>1
  <2>2. CASE Contents = <<LineChar("text")>>
    <3> DEFINE t == Append(source, LineChar("text"))
    <3>1. withText = t /\ t \in Seq(Char) /\ Len(t) = Len(source) + 1
          /\ t[Len(source) + 1].kind = "text"
      BY <1>2, <1>3, <1>4, <2>2, AppendProperties
    <3>2. Maps(crumbs, t)
      BY <1>2, <1>3, AppendText
    <3>3. Locates(crumbs, t)
      BY <1>2, <1>3, AppendLocated
    <3>4. HasLine(last, t, Len(source), Top.name, line)
      BY <1>2, <1>3, <1>5, SameLine, LenProperties
    <3> HIDE DEF t, last
    <3>5. last.totalPos <= Len(source) /\ Len(source) \in Nat
      BY <1>2, LenProperties DEF Maps, last
    <3>6. Cardinality(Newlines(t, last.totalPos, Len(source) + 1))
            = Cardinality(Newlines(t, last.totalPos, Len(source)))
      <4> DEFINE a == last.totalPos
                 b == Len(source)
      <4>1. a \in Nat /\ b \in Nat /\ a <= b /\ t[b + 1].kind = "text"
        BY <1>5, <3>1, <3>5
      <4> HIDE DEF a, b
      <4>2. /\ Cardinality(Newlines(t, a, b)) \in Nat
            /\ Cardinality(Newlines(t, a, b + 1)) = Cardinality(Newlines(t, a, b))
        <5>1. t[b + 1].kind \notin {"newline", "separator"}
          BY <4>1
        <5>2. Cardinality(Newlines(t, a, b)) \in Nat
          BY <4>1, NewlinesCount
        <5>3. Cardinality(Newlines(t, a, b + 1)) = Cardinality(Newlines(t, a, b)) + 0
          BY <4>1, <5>1, NewlinesCount
        <5> QED BY <5>2, <5>3
      <4> QED BY <4>2 DEF a, b
    <3>7. HasLine(last, t, Len(t), Top.name, line)
      BY <3>1, <3>4, <3>6 DEF HasLine
    <3> QED BY <3>1, <3>2, <3>3, <3>7
  <2> QED BY <2>1, <2>2 DEF Contents
<1>7. /\ Locates(crumbs, source')
      /\ ~IsLast => HasLine(last, source', Len(source'), Top.name, Top.line + 2)
  <2> HIDE DEF withText
  <2>0. source' = withText \o LineEnd
    BY <1>1 DEF withText
  <2>1. CASE LineEnd = <<>> /\ IsLast
    BY <1>4, <1>6, <2>0, <2>1
  <2>2. CASE LineEnd = <<LineChar("newline")>> /\ ~IsLast
    <3> DEFINE t == Append(withText, LineChar("newline"))
    <3>1. source' = t /\ Len(t) = Len(withText) + 1
          /\ t[Len(withText) + 1].kind = "newline"
      BY <1>3, <1>4, <1>6, <2>0, <2>2, AppendProperties
    <3>2. Locates(crumbs, t)
      BY <1>2, <1>3, <1>6, AppendLocated
    <3>3. HasLine(last, t, Len(withText), Top.name, line)
      BY <1>3, <1>5, <1>6, SameLine, LenProperties
    <3> HIDE DEF t, last
    <3>4. last.totalPos <= Len(withText) /\ Len(withText) \in Nat
      BY <1>2, <1>6, LenProperties DEF Maps, last
    <3>5. Cardinality(Newlines(t, last.totalPos, Len(withText) + 1))
            = Cardinality(Newlines(t, last.totalPos, Len(withText))) + 1
      <4> DEFINE a == last.totalPos
                 b == Len(withText)
      <4>1. a \in Nat /\ b \in Nat /\ a <= b /\ t[b + 1].kind = "newline"
        BY <1>5, <3>1, <3>4
      <4> HIDE DEF a, b
      <4>2. Cardinality(Newlines(t, a, b + 1)) = Cardinality(Newlines(t, a, b)) + 1
        BY <4>1, NewlinesCount
      <4> QED BY <4>2 DEF a, b
    <3>6. program[Top.name][Top.line + 1].kind # "import"
      BY <1>1, AdvancedCounters DEF NextLine
    <3>7. Top.line \in Nat /\ last.line <= Top.line /\ Len(t) \in Nat
      BY <1>1, <1>2, <3>1, <3>4, AdvancedCounters DEF last
    <3>8. HasLine(last, t, Len(t), Top.name, Top.line + 2)
      BY <1>5, <3>1, <3>3, <3>4, <3>5, <3>6, <3>7, NextLineIsFound
    <3> QED BY <2>2, <3>1, <3>2, <3>8
  <2> QED BY <2>1, <2>2 DEF LineEnd
<1> QED BY <1>1, <1>7, AdvanceLines DEF ReadText

\* A skipped directive is a line without a newline, and one to be counted off.
LEMMA SkipImportLines ==
  ASSUME IInv, CrumbInv, LineInv, SkipImport
  PROVE  LineInv'
<1> DEFINE last == crumbs[Len(crumbs)]
<1>1. status = "reading" /\ ~EndOfStream /\ NextLine.kind = "import" /\ source' = source
  BY DEF SkipImport, GetLine, Reading
<1>2. last \in Breadcrumb /\ last.line \in Nat /\ last.totalPos \in Nat
  <2>1. crumbs # <<>> /\ crumbs \in Seq(Breadcrumb)
    BY <1>1 DEF IInv, TypeOK, CrumbInv
  <2>2. Len(crumbs) \in 1..Len(crumbs)
    BY <2>1, EmptySeq
  <2>3. last \in Breadcrumb
    BY <2>1, <2>2, ElementOfSeq
  <2> QED BY <2>3 DEF Breadcrumb
<1>3. Locates(crumbs, source) /\ last.line <= Top.line
      /\ HasLine(last, source, Len(source), Top.name, Top.line + 1)
  BY <1>1 DEF LineInv
<1> HIDE DEF last
<1>4. program[Top.name][Top.line + 1].kind = "import" /\ Top.line \in Nat
  BY <1>1, AdvancedCounters DEF NextLine
<1>5. Len(source) \in Nat /\ last.totalPos <= Len(source)
  <2>1. crumbs # <<>> /\ crumbs \in Seq(Breadcrumb) /\ source \in Seq(Char)
    BY <1>1 DEF IInv, TypeOK, CrumbInv
  <2>2. Len(crumbs) \in 1..Len(crumbs)
    BY <2>1, EmptySeq
  <2> QED BY <2>1, <2>2, LenProperties DEF CrumbInv, Maps, last
<1>6. HasLine(last, source', Len(source'), Top.name, Top.line + 2)
  <2>1. Cardinality(Newlines(source, last.totalPos, Len(source))) \in Nat
    BY <1>2, <1>5, NewlinesCount
  <2> QED BY <1>1, <1>2, <1>3, <1>4, <1>5, <2>1, NextLineIsFound
<1> QED BY <1>1, <1>3, <1>6, AdvanceLines DEF SkipImport, last

LEMMA FailLines ==
  ASSUME IInv, CrumbInv, LineInv, Fail
  PROVE  LineInv'
<1>1. status = "reading" /\ ~EndOfStream /\ status' = "error" /\ source' = source
  BY DEF Fail, Reading
<1>2. Locates(crumbs, source')
  BY <1>1 DEF LineInv
<1> QED BY <1>1, <1>2, AdvanceLines DEF Fail

\* A file is entered: its own counter starts at 0, because it was not open.
LEMMA EnterLines ==
  ASSUME IInv, CrumbInv, LineInv, status = "reading",
         NEW f \in Names, Enter(f), f \notin opened
  PROVE  LineInv'
<1> DEFINE n == Len(stack)
<1>1. /\ n \in Nat \ {0} /\ AdvancedStack \in Seq(Stream) /\ Len(AdvancedStack) = n
      /\ \A i \in 1..n : AdvancedStack[i].name = stack[i].name
  BY TopFacts, AdvancedFacts DEF IInv
<1>2. NewStream(f) \in Stream /\ NewStream(f).name = f /\ NewStream(f).line = 0
  BY DEF NewStream, Stream
<1>3. /\ stack' = Append(AdvancedStack, NewStream(f))
      /\ crumbs' = Append(crumbs, Crumb(source, NewStream(f)))
      /\ source' = source /\ program' = program /\ status' = "reading"
      /\ offset' = [Advanced EXCEPT ![f] = 0]
  BY DEF Enter, Reopened
<1>4. /\ Len(stack') = n + 1
      /\ \A i \in 1..n : stack'[i] = AdvancedStack[i]
      /\ stack'[n + 1] = NewStream(f)
  BY <1>1, <1>2, <1>3, AppendProperties
<1>5. crumbs \in Seq(Breadcrumb) /\ source \in Seq(Char)
      /\ Crumb(source, NewStream(f)) \in Breadcrumb
  BY <1>2, CrumbType DEF IInv, TypeOK
<1>6. crumbs'[Len(crumbs')] = Crumb(source, NewStream(f))
  BY <1>3, <1>5, AppendProperties
<1>7. Top' = NewStream(f)
  BY <1>4 DEF Top
<1>8. Locates(crumbs, source)'
  <2>1. Locates(crumbs, source)
    BY DEF LineInv
  <2>2. Locates(crumbs', source')
    BY <1>2, <1>3, <1>5, <2>1, AppendLocatedCrumb
  <2> QED BY <1>3, <2>2, SameFiles
<1>9. \A i \in 1..Len(stack') : offset'[stack'[i].name] = stack'[i].line
  <2> TAKE i \in 1..Len(stack')
  <2>0. Advanced \in [Names -> Nat]
    BY AdvancedFacts DEF IInv
  <2>1. CASE i = n + 1
    BY <1>2, <1>3, <1>4, <2>0, <2>1
  <2>2. CASE i \in 1..n
    <3>1. stack[i] \in Stream
      BY <2>2, ElementOfSeq DEF IInv, TypeOK
    <3>2. stack[i].name # f /\ stack[i].name \in Names
      BY <2>2, <3>1 DEF IInv, StackInv, NameAt, Stream
    <3>3. offset'[stack'[i].name] = Advanced[AdvancedStack[i].name]
      BY <1>1, <1>3, <1>4, <2>0, <2>2, <3>2
    <3> QED BY <1>4, <2>2, <3>3, AdvancedCounters
  <2> QED BY <1>1, <1>4, <2>1, <2>2
<1>10. HasLine(crumbs[Len(crumbs)], source, Len(source), Top.name, Top.line + 1)'
  <2>1. HasLine(Crumb(source, NewStream(f)), source, Len(source), f, 0 + 1)
    BY <1>2, <1>5, FreshCrumb
  <2>2. HasLine(crumbs'[Len(crumbs')], source', Len(source'), Top'.name, Top'.line + 1)
    BY <1>2, <1>3, <1>6, <1>7, <2>1
  <2> QED BY <1>3, <2>2, SameFiles
<1>11. crumbs'[Len(crumbs')].line <= Top'.line
  BY <1>2, <1>6, <1>7 DEF Crumb
<1> QED BY <1>3, <1>8, <1>9, <1>10, <1>11 DEF LineInv, NameAt

\* What is entered was not open: IInv's order of the names on the stack.
LEMMA EnteredWasClosed ==
  ASSUME IInv, TakeImport \/ TakeInclude
  PROVE  NextLine.name \notin opened
<1> DEFINE f == NextLine.name
<1>1. status = "reading" /\ ~EndOfStream /\ StackInv
  BY DEF TakeImport, TakeInclude, GetLine, Reading, IInv
<1>2. f \in Names /\ GoesUp(Top.name, NextLine) /\ Rank[f] \in Nat
  BY <1>1, NextLineFacts, RankAssumption DEF IInv
<1> SUFFICES ASSUME NEW i \in 1..Len(stack), NameAt(i) = f PROVE FALSE
  BY <1>1, <1>2 DEF StackInv
<1>3. Rank[f] <= Rank[Top.name] /\ Rank[Top.name] \in Nat
  BY <1>1, BelowTop
<1>4. ~ (Rank[Top.name] < Rank[f])
  BY <1>2, <1>3
<1>5. CASE TakeInclude
  BY <1>2, <1>4, <1>5 DEF TakeInclude, GetLine, GoesUp
<1>6. CASE TakeImport
  <2>1. f \notin imported /\ NextLine.kind = "import"
    BY <1>6 DEF TakeImport, AlreadyImported, GetLine
  <2>2. f = Defs
    BY <1>1, <2>1 DEF StackInv
  <2> QED BY <1>2, <1>4, <2>1, <2>2 DEF GoesUp
<1> QED BY <1>5, <1>6

\* The text goes on with the stream below, and its breadcrumb with its line.
LEMMA EndStreamLines ==
  ASSUME IInv, CrumbInv, LineInv, EndStream
  PROVE  LineInv'
<1>1. /\ status = "reading" /\ source' = Separated /\ stack' = Below
      /\ program' = program /\ offset' = offset
  BY DEF EndStream, Reading
<1>2. crumbs \in Seq(Breadcrumb) /\ source \in Seq(Char) /\ crumbs # <<>>
      /\ Maps(crumbs, source) /\ Locates(crumbs, source)
  BY <1>1 DEF IInv, TypeOK, CrumbInv, LineInv
<1>3. Separated \in Seq(Char) /\ Locates(crumbs, Separated)
  <2>1. CASE source = <<>>
    BY <1>2, <2>1 DEF Separated
  <2>2. CASE source # <<>>
    <3>1. Separated = Append(source, Separator)
      BY <2>2 DEF Separated
    <3>2. Separator \in Char /\ Separator.kind = "separator"
      BY <1>1, TopFacts DEF IInv, Separator, Char, Stream
    <3>3. Append(source, Separator) \in Seq(Char)
      BY <1>2, <3>2, AppendProperties
    <3>4. Locates(crumbs, Append(source, Separator))
      BY <1>2, <3>2, AppendLocated
    <3> QED BY <3>1, <3>3, <3>4
  <2> QED BY <2>1, <2>2
<1>4. CASE Below = <<>>
  <2>1. crumbs' = crumbs /\ status' = "done"
    BY <1>4 DEF EndStream
  <2>2. Locates(crumbs, source)'
    BY <1>1, <1>3, <2>1, SameFiles
  <2> QED BY <2>1, <2>2 DEF LineInv
<1>5. CASE Below # <<>>
  <2> DEFINE under == Below[Len(Below)]
  <2>1. /\ Below \in Seq(Stream) /\ Len(Below) = Len(stack) - 1 /\ Len(stack) \in Nat \ {0}
        /\ \A i \in 1..Len(Below) : Below[i] = stack[i]
    BY <1>1, TopFacts DEF IInv
  <2>2. Len(Below) \in 1..Len(Below)
    BY <1>5, <2>1, EmptySeq
  <2>3. under \in Stream /\ under.line \in Nat
    <3>1. under \in Stream
      BY <2>1, <2>2, ElementOfSeq
    <3> QED BY <3>1 DEF Stream
  <2>4. crumbs' = Append(crumbs, Crumb(Separated, under)) /\ status' = "reading"
    BY <1>1, <1>5 DEF EndStream, Returned
  <2>5. Top' = under
    BY <1>1 DEF Top
  <2> HIDE DEF under
  <2>6. Crumb(Separated, under) \in Breadcrumb
    BY <1>3, <2>3, CrumbType
  <2>7. crumbs'[Len(crumbs')] = Crumb(Separated, under)
    BY <1>2, <2>4, <2>6, AppendProperties
  <2>8. Locates(crumbs, source)'
    <3>1. Locates(crumbs', source')
      BY <1>1, <1>2, <1>3, <2>3, <2>4, AppendLocatedCrumb
    <3> QED BY <1>1, <3>1, SameFiles
  <2>9. HasLine(crumbs[Len(crumbs)], source, Len(source), Top.name, Top.line + 1)'
    <3>1. HasLine(Crumb(Separated, under), Separated, Len(Separated), under.name, under.line + 1)
      BY <1>3, <2>3, FreshCrumb
    <3>2. HasLine(crumbs'[Len(crumbs')], source', Len(source'), Top'.name, Top'.line + 1)
      BY <1>1, <2>5, <2>7, <3>1
    <3> QED BY <1>1, <3>2, SameFiles
  <2>10. crumbs'[Len(crumbs')].line <= Top'.line
    BY <2>3, <2>5, <2>7 DEF Crumb
  <2>11. \A i \in 1..Len(stack') : offset'[stack'[i].name] = stack'[i].line
    <3>1. \A i \in 1..Len(stack) : offset[stack[i].name] = stack[i].line
      BY <1>1 DEF LineInv, NameAt
    <3>2. \A i \in 1..Len(Below) : i \in 1..Len(stack)
      BY <2>1
    <3> QED BY <1>1, <2>1, <3>1, <3>2
  <2> QED BY <2>4, <2>8, <2>9, <2>10, <2>11 DEF LineInv, NameAt
<1> QED BY <1>4, <1>5

LEMMA NextLineInv == IInv /\ CrumbInv /\ LineInv /\ [Next]_vars => LineInv'
<1> SUFFICES ASSUME IInv, CrumbInv, LineInv, [Next]_vars PROVE LineInv'
  OBVIOUS
<1>1. CASE Begin
  BY <1>1, BeginLines
<1>2. CASE BeginFails
  <2>1. /\ UNCHANGED <<program, source, crumbs, offset>>
        /\ status' = "error"
    BY <1>2 DEF BeginFails
  <2> QED BY <2>1, SameFiles DEF LineInv
<1>3. CASE EndStream
  BY <1>3, EndStreamLines
<1>4. CASE ReadText
  BY <1>4, ReadTextLines
<1>5. CASE TakeImport \/ TakeInclude
  <2>1. status = "reading" /\ ~EndOfStream
    BY <1>5 DEF TakeImport, TakeInclude, GetLine, Reading
  <2>2. NextLine.name \in Names
    BY <2>1, NextLineFacts DEF IInv
  <2>3. Enter(NextLine.name) /\ NextLine.name \notin opened
    BY <1>5, EnteredWasClosed DEF TakeImport, TakeInclude
  <2> QED BY <2>1, <2>2, <2>3, EnterLines
<1>6. CASE SkipImport
  BY <1>6, SkipImportLines
<1>7. CASE Fail
  BY <1>7, FailLines
<1>8. CASE UNCHANGED vars
  BY <1>8, SameFiles DEF vars, LineInv, NameAt, EndOfStream, Top
<1> QED BY <1>1, <1>2, <1>3, <1>4, <1>5, <1>6, <1>7, <1>8 DEF Next

(***************************************************************************)
(* getPrettyPrint finds every position of the text in its line of the      *)
(* file, less the #import directives skipped since the breadcrumb, each of *)
(* which readSources dropped with its newline.                             *)
(***************************************************************************)
THEOREM LinesLagBySkippedImports == Spec => []LineLagsBySkippedImports
<1>1. ASSUME TypeOK, LineInv
      PROVE  LineLagsBySkippedImports
  <2> SUFFICES ASSUME NEW pos \in Positions, NEW k \in DOMAIN crumbs,
                      IsCrumbOf(k, pos), CharAt(pos).kind # "separator"
               PROVE  LineNum(k, pos) = CharAt(pos).line
                        - Cardinality(SkippedBetween(CharAt(pos).file, crumbs[k].line, CharAt(pos).line))
    BY DEF LineLagsBySkippedImports
  <2>1. IsLastUpTo(crumbs, k, pos) /\ k \in 1..Len(crumbs)
    BY <1>1, CrumbDomain DEF IsCrumbOf, IsLastUpTo
  <2>2. HasLine(crumbs[k], source, pos, CharAt(pos).file, CharAt(pos).line)
    BY <1>1, <2>1 DEF LineInv, Locates, Positions, CharAt
  <2> QED BY <2>2 DEF HasLine, Newlines, LineNum, IsNewline, CharAt
<1>2. IInv /\ LineInv => LineLagsBySkippedImports
  BY <1>1 DEF IInv
<1>3. Spec => []LineInv
  BY InitIInv, NextIInv, InitCrumbInv, NextCrumbInv, InitLineInv, NextLineInv, PTL DEF Spec
<1> QED BY <1>2, <1>3, SourceInvariant, PTL
=============================================================================
