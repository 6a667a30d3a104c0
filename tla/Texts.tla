------------------------------- MODULE Texts -------------------------------
(***************************************************************************)
(* The runtime's functions on text, as they compute it.  A text is the     *)
(* sequence of its character codes; the terminating NUL is left out.       *)
(***************************************************************************)
EXTENDS Integers, Sequences, FiniteSets

CONSTANTS
  MaxInt,  \* the greatest Int
  Chunk    \* the size of the buffer that files are read through

ASSUME TextsAssumption == MaxInt \in Nat /\ Chunk \in Nat /\ Chunk > 1

LF == 10
CR == 13
Minus == 45
Zero == 48
Nine == 57

-----------------------------------------------------------------------------
(* Numbers *)

\* PRStringConstructorInt writes the digits from the last to the first and
\* turns them round.
Digits[n \in Nat] ==
  IF n < 10 THEN <<Zero + n>> ELSE Append(Digits[n \div 10], Zero + (n % 10))
TextOfInt(n) == IF n < 0 THEN <<Minus>> \o Digits[-n] ELSE Digits[n]

\* PRIntConstructor, before the sign; -1 for what is no digit or overflows.
IsDigit(c) == c \in Zero..Nine
Unsigned(digits) ==
  LET f[i \in 0..Len(digits)] ==
        IF i = 0 THEN 0
        ELSE IF f[i - 1] = -1 \/ f[i - 1] * 10 + digits[i] - Zero > MaxInt THEN -1
        ELSE f[i - 1] * 10 + digits[i] - Zero
  IN  f[Len(digits)]

Magnitude(t) == IF t[1] = Minus THEN Tail(t) ELSE t
IsNumber(t) == t # <<>> /\ \A i \in DOMAIN Magnitude(t) : IsDigit(Magnitude(t)[i])
IntOverflows(t) == Unsigned(Magnitude(t)) = -1
IntOfText(t) == IF t[1] = Minus THEN -Unsigned(Tail(t)) ELSE Unsigned(t)

-----------------------------------------------------------------------------
(* Comparing and searching *)

\* PRStringCompare: the character at i, or the NUL
CharAt(t, i) == IF i > Len(t) THEN 0 ELSE t[i]
Compare(t, u) ==
  LET i == CHOOSE j \in 1..(Len(t) + 1) :
             /\ CharAt(t, j) # CharAt(u, j) \/ j > Len(t)
             /\ \A k \in 1..(j - 1) : t[k] = CharAt(u, k)
  IN  IF CharAt(t, i) = CharAt(u, i) THEN 0
      ELSE IF CharAt(t, i) > CharAt(u, i) THEN 1
      ELSE -1

\* instr, from 0: a needle that the haystack ends in the middle of is found too
AgreesAt(haystack, i, needle) ==
  \A j \in DOMAIN needle : i + j <= Len(haystack) => haystack[i + j] = needle[j]
Instr(haystack, start, needle) ==
  LET found == {i \in start..(Len(haystack) - 1) : AgreesAt(haystack, i, needle)}
  IN  IF found = {} THEN -1 ELSE CHOOSE i \in found : \A j \in found : i <= j

-----------------------------------------------------------------------------
(* Notes *)

\* The loops of noteinfo and noteget step over the character after a CR,
\* whatever it is.
IsScanned(t) ==
  LET f[i \in 1..(Len(t) + 1)] ==
        \/ i = 1
        \/ i > 1 /\ f[i - 1] /\ t[i - 1] # CR
        \/ i > 2 /\ f[i - 2] /\ t[i - 2] = CR
  IN  f
Scanned(t) == LET f == IsScanned(t) IN {i \in DOMAIN t : f[i]}
Breaks(t) == {i \in Scanned(t) : t[i] \in {CR, LF}}

\* noteinfo(0); of an empty note, what is before the buffer decides
LineCounts(t) ==
  IF t = <<>> THEN {0, 1}
  ELSE {Cardinality(Breaks(t)) + (IF t[Len(t)] # LF THEN 1 ELSE 0)}

\* noteget: where line idx (from 0) begins and the break that ends it
BreaksBefore(t, i) == Cardinality({j \in Breaks(t) : j < i})
LineBegin(t, idx) == {i \in Scanned(t) : BreaksBefore(t, i) = idx}
HasLine(t, idx) == LineBegin(t, idx) # {}
Line(t, idx) ==
  LET begin == CHOOSE i \in LineBegin(t, idx) : \A j \in LineBegin(t, idx) : i <= j
      ends == {i \in Breaks(t) : BreaksBefore(t, i) = idx}
      end == IF ends = {} THEN Len(t) + 1 ELSE CHOOSE i \in ends : TRUE
  IN  SubSeq(t, begin, end - 1)

-----------------------------------------------------------------------------
(* Strings: a text and the capacity of the array it is in *)

Capacity(length) == length + 1
StringOf(t) == [text |-> t, capacity |-> Capacity(Len(t))]

\* PRStringAppend and PRStringAppendCStr
Doubled_Exact(capacity, length) ==
  LET f[c \in Nat \ {0}] == IF length <= c THEN c ELSE f[c * 2] IN f[capacity]
Doubled(capacity, length) ==
  LET f[c \in Nat \ {0}] == IF length < c THEN c ELSE f[c * 2] IN f[capacity]
Appended(s, t) ==
  [text |-> s.text \o t, capacity |-> Doubled(s.capacity, Len(s.text) + Len(t))]

\* A file is appended in what fgets returns of it: a line, or as much of it as
\* the buffer has room for.  ends[i] is where the last of them ended at i.
Read(s, t) ==
  LET ends[i \in 0..Len(t)] ==
        IF i = 0 \/ t[i] = LF \/ i = Len(t) \/ i - ends[i - 1] = Chunk - 1 THEN i
        ELSE ends[i - 1]
      f[i \in 0..Len(t)] ==
        IF i = 0 THEN s
        ELSE Appended(f[ends[i - 1]], SubSeq(t, ends[i - 1] + 1, i))
  IN  f[Len(t)]
===============================================================================
