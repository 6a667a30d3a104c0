---------------------------- MODULE StringValues ----------------------------
(***************************************************************************)
(* What a program may rely on of its strings and of the selected note.  A  *)
(* variable holds a text.  A variable that was assigned from another one   *)
(* is a copy of it until one of them is assigned to; a call that replaces  *)
(* the string of a variable it was passed by reference takes the text from *)
(* all copies of that variable, and nothing may be done with those but to  *)
(* assign to them.                                                         *)
(***************************************************************************)
EXTENDS Texts

CONSTANTS
  Vars,      \* String variables, parameters and the temporaries of expressions
  NULL,      \* no note is selected
  Lost,      \* the value of a variable whose text was taken
  Nothing,   \* the result of a call that has none
  Literals,  \* the texts of literals
  Spans,     \* <<start, length>> of the substrings that are taken
  Files,     \* what files and directories hold
  Numbers,   \* the Ints that are converted to strings
  MaxLen     \* bound on the texts that are concatenated

VARIABLES val, copies, noteTarget, out, status

vars == <<val, copies, noteTarget, out, status>>

Init ==
  /\ val = [x \in Vars |-> <<>>]
  /\ copies = [x \in Vars |-> {x}]
  /\ noteTarget = NULL
  /\ out = Nothing
  /\ status = "running"

-----------------------------------------------------------------------------
IsKnown(x) == val[x] # Lost

Stop(how) ==
  /\ status' = how
  /\ UNCHANGED <<val, copies, noteTarget, out>>

\* A step that uses the texts of these variables
Using(xs, step) ==
  IF \A x \in xs : IsKnown(x) THEN step ELSE Stop("undefined")

Others(x) == [y \in Vars |-> IF y = x THEN {x} ELSE copies[y] \ {x}]

Assign(x, t) ==
  /\ val' = [val EXCEPT ![x] = t]
  /\ copies' = Others(x)
  /\ out' = Nothing
  /\ UNCHANGED <<noteTarget, status>>

Replace(x, t) ==
  /\ val' = [y \in Vars |-> IF y = x THEN t ELSE IF y \in copies[x] THEN Lost ELSE val[y]]
  /\ copies' = Others(x)
  /\ out' = Nothing
  /\ UNCHANGED <<noteTarget, status>>

Result(r) ==
  /\ out' = r
  /\ UNCHANGED <<val, copies, noteTarget, status>>

-----------------------------------------------------------------------------
Literal(x, t) == Assign(x, t)

Copy(x, y) ==
  /\ val' = [val EXCEPT ![x] = val[y]]
  /\ copies' =
       LET joined == copies[y] \cup {x}
       IN  [z \in Vars |-> IF z \in joined THEN joined ELSE copies[z] \ {x}]
  /\ out' = Nothing
  /\ UNCHANGED <<noteTarget, status>>

Concat(x, y, z) == Using({y, z}, Assign(x, val[y] \o val[z]))

Strmid(x, y, start, length) ==
  Using({y},
    IF start + length <= Len(val[y]) THEN Assign(x, SubSeq(val[y], start + 1, start + length))
    ELSE Stop("undefined"))

\* A numeral of n: its digits, the sign before them and no zero in front.
ValueOf(t) ==
  LET f[i \in 0..Len(t)] == IF i = 0 THEN 0 ELSE 10 * f[i - 1] + t[i] - Zero
  IN  f[Len(t)]
IsNumeral(t, n) ==
  /\ IsNumber(t)
  /\ ValueOf(Magnitude(t)) = IF n < 0 THEN -n ELSE n
  /\ t[1] = Minus <=> n < 0
  /\ Magnitude(t)[1] = Zero => n = 0 /\ Len(t) = 1

FromInt(x, n) ==
  IF n < -MaxInt THEN Stop("undefined")
  ELSE Assign(x, val'[x]) /\ val'[x] # Lost /\ IsNumeral(val'[x], n)

ToInt(x) ==
  Using({x},
    IF ~IsNumber(val[x]) THEN Stop("abort")
    ELSE LET n == ValueOf(Magnitude(val[x]))
         IN  IF n > MaxInt THEN Stop("undefined")
             ELSE Result(IF val[x][1] = Minus THEN -n ELSE n))

Length(x) == Using({x}, Result(Len(val[x])))

\* Lexicographic order
IsLess(t, u) ==
  \E i \in DOMAIN u :
    /\ i - 1 <= Len(t)
    /\ SubSeq(t, 1, i - 1) = SubSeq(u, 1, i - 1)
    /\ i <= Len(t) => t[i] < u[i]
CompareStrings(x, y) ==
  Using({x, y},
    Result(IF val[x] = val[y] THEN 0 ELSE IF IsLess(val[x], val[y]) THEN -1 ELSE 1))

Search(x, start, y) == Using({x, y}, Result(Instr(val[x], start, val[y])))

-----------------------------------------------------------------------------
\* Lines end with LF or CR LF, the last one also without.  Nothing is promised of
\* empty notes and of a CR on its own.
IsPlain(t) ==
  t # <<>> /\ \A i \in DOMAIN t : t[i] = CR => i < Len(t) /\ t[i + 1] = LF
NumberOfLF(t) == Cardinality({i \in DOMAIN t : t[i] = LF})
NumberOfLines(t) == NumberOfLF(t) + (IF t[Len(t)] = LF THEN 0 ELSE 1)
WithoutCR(t) == IF t # <<>> /\ t[Len(t)] = CR THEN SubSeq(t, 1, Len(t) - 1) ELSE t
LineOf(t, k) ==
  CHOOSE l \in {WithoutCR(SubSeq(t, b, e)) : b \in 1..(Len(t) + 1), e \in 0..Len(t)} :
    \E b \in 1..(Len(t) + 1), e \in 0..Len(t) :
      /\ b <= e + 1
      /\ l = WithoutCR(SubSeq(t, b, e))
      /\ NumberOfLF(SubSeq(t, 1, b - 1)) = k
      /\ b = 1 \/ t[b - 1] = LF
      /\ e = Len(t) \/ t[e + 1] = LF
      /\ NumberOfLF(SubSeq(t, b, e)) = 0

Notesel(x) ==
  /\ noteTarget' = x
  /\ out' = Nothing
  /\ UNCHANGED <<val, copies, status>>

Noteinfo(option) ==
  IF noteTarget = NULL \/ option \notin {0, 1} THEN Stop("abort")
  ELSE Using({noteTarget},
         IF option = 1 THEN Result(Len(val[noteTarget]))
         ELSE IF IsPlain(val[noteTarget]) THEN Result(NumberOfLines(val[noteTarget]))
         ELSE \E r \in 0..(Len(val[noteTarget]) + 1) : Result(r))

\* The note itself and its copies cannot take the line.
TakeLine(x, t) ==
  IF x \in copies[noteTarget] THEN Stop("undefined") ELSE Using({x}, Replace(x, t))
Noteget(x, k) ==
  IF noteTarget = NULL THEN Stop("abort")
  ELSE Using({noteTarget},
         LET t == val[noteTarget]
         IN  IF IsPlain(t)
             THEN IF k < NumberOfLines(t) THEN TakeLine(x, LineOf(t, k)) ELSE Stop("abort")
             ELSE Stop("abort") \/ TakeLine(x, val'[x]))

\* The name of the file must not be in the note that takes what the file holds.
Noteload(x, t) ==
  IF noteTarget = NULL THEN Stop("abort")
  ELSE IF x \in copies[noteTarget] THEN Stop("undefined")
  ELSE Using({noteTarget, x}, Replace(noteTarget, t) \/ Stop("abort"))

Dirlist(x, y, t) == Using({x, y}, Replace(x, t) \/ Stop("abort"))

Next ==
  /\ status = "running"
  /\ \/ \E x \in Vars :
          \/ \E t \in Literals : Literal(x, t)
          \/ \E n \in Numbers : FromInt(x, n)
          \/ ToInt(x)
          \/ Length(x)
          \/ Notesel(x)
          \/ \E k \in 0..MaxLen : Noteget(x, k)
          \/ \E t \in Files : Noteload(x, t)
     \/ \E x, y \in Vars :
          \/ Copy(x, y)
          \/ \E z \in Vars : Concat(x, y, z)
          \/ \E s \in Spans : Strmid(x, y, s[1], s[2])
          \/ CompareStrings(x, y)
          \/ \E start \in 0..MaxLen : Search(x, start, y)
          \/ \E t \in Files : Dirlist(x, y, t)
     \/ \E option \in 0..2 : Noteinfo(option)

Spec == Init /\ [][Next]_vars
===============================================================================
