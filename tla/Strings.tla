------------------------------ MODULE Strings ------------------------------
(***************************************************************************)
(* Strings as the generated code and the runtime keep them: a variable     *)
(* holds a pointer to a String object, an assignment copies the pointer,   *)
(* and only noteget, noteload and dirlist free an object, the one that the *)
(* variable they are given refers to.  `x += e` loads the pointer in x     *)
(* before it evaluates e: it is a copy to a temporary and a concatenation. *)
(* The objects that nothing refers to any more are never freed either;     *)
(* they are left out of the heap, as nothing reads them.                   *)
(***************************************************************************)
EXTENDS Texts

CONSTANTS
  Vars, NULL, Lost, Nothing, Literals, Spans, Files, Numbers, MaxLen,
  Addrs  \* addresses of String objects

ASSUME AddrsAssumption == Cardinality(Addrs) > Cardinality(Vars)

VARIABLES
  ptr,         \* the pointers in the variables
  heap,        \* the objects that variables refer to and that are not freed
  noteTarget,  \* the variable that noteTarget_ points to
  out,         \* what the last call returned
  status       \* "running", "abort" (AbortWithErrorMessage) or "undefined"

vars == <<ptr, heap, noteTarget, out, status>>

TypeOK ==
  /\ ptr \in [Vars -> Addrs]
  /\ DOMAIN heap \subseteq {ptr[x] : x \in Vars}
  /\ \A a \in DOMAIN heap : heap[a] \in [text : Seq(Nat), capacity : Nat]
  /\ noteTarget \in Vars \cup {NULL}
  /\ status \in {"running", "abort", "undefined"}

Init ==
  /\ ptr \in {p \in [Vars -> Addrs] : \A x, y \in Vars : x # y => p[x] # p[y]}
  /\ heap = [a \in {ptr[x] : x \in Vars} |-> StringOf(<<>>)]
  /\ noteTarget = NULL
  /\ out = Nothing
  /\ status = "running"

-----------------------------------------------------------------------------
IsLive(x) == ptr[x] \in DOMAIN heap
Text(x) == heap[ptr[x]].text

\* Where PRMalloc may put an object: not where a variable points to, be it to an
\* object that was freed.  What is done through such a pointer is undefined
\* anyway.
IsFree(a) == \A x \in Vars : ptr[x] # a

Stop(how) ==
  /\ status' = how
  /\ UNCHANGED <<ptr, heap, noteTarget, out>>

\* A step that reads the objects of these variables
Using(xs, step) ==
  IF \A x \in xs : IsLive(x) THEN step ELSE Stop("undefined")

Result(r) ==
  /\ out' = r
  /\ UNCHANGED <<ptr, heap, noteTarget, status>>

\* The variable refers to a new object, and objects out of `live` are gone.
PointTo(x, s, live) ==
  /\ \E a \in Addrs :
       /\ IsFree(a)
       /\ ptr' = [ptr EXCEPT ![x] = a]
       /\ heap' = [b \in {a} \cup (live \cap {ptr[y] : y \in Vars \ {x}}) |->
                     IF b = a THEN s ELSE heap[b]]
  /\ out' = Nothing
  /\ UNCHANGED <<noteTarget, status>>

Store(x, s) == PointTo(x, s, DOMAIN heap)

\* PRStringDestructor(*res), and another object for it
Replace(x, s) == PointTo(x, s, DOMAIN heap \ {ptr[x]})

-----------------------------------------------------------------------------
Literal(x, t) == Store(x, StringOf(t))

Copy(x, y) ==
  /\ ptr' = [ptr EXCEPT ![x] = ptr[y]]
  /\ heap' = [a \in DOMAIN heap \cap {ptr'[z] : z \in Vars} |-> heap[a]]
  /\ out' = Nothing
  /\ UNCHANGED <<noteTarget, status>>

Concat(x, y, z) ==
  Using({y, z},
    /\ Len(Text(y)) + Len(Text(z)) <= MaxLen
    /\ Store(x, StringOf(Text(y) \o Text(z))))

\* Nothing keeps it from what is behind the text.
Strmid(x, y, start, length) ==
  Using({y},
    IF start + length <= Len(Text(y))
    THEN Store(x, StringOf(SubSeq(Text(y), start + 1, start + length)))
    ELSE Stop("undefined"))

\* -num overflows for the smallest Int.
FromInt(x, n) ==
  IF n < -MaxInt THEN Stop("undefined") ELSE Store(x, StringOf(TextOfInt(n)))

\* Where an Int overflows before a character that is no digit, it is the abort
\* that counts.
ToInt(x) ==
  Using({x},
    IF ~IsNumber(Text(x)) THEN Stop("abort")
    ELSE IF IntOverflows(Text(x)) THEN Stop("undefined")
    ELSE Result(IntOfText(Text(x))))

Length(x) == Using({x}, Result(Len(Text(x))))

CompareStrings(x, y) == Using({x, y}, Result(Compare(Text(x), Text(y))))

Search(x, start, y) == Using({x, y}, Result(Instr(Text(x), start, Text(y))))

-----------------------------------------------------------------------------
Notesel(x) ==
  /\ noteTarget' = x
  /\ out' = Nothing
  /\ UNCHANGED <<ptr, heap, status>>

Noteinfo(option) ==
  IF noteTarget = NULL \/ option \notin {0, 1} THEN Stop("abort")
  ELSE Using({noteTarget},
         IF option = 1 THEN Result(Len(Text(noteTarget)))
         ELSE \E r \in LineCounts(Text(noteTarget)) : Result(r))

\* The line is copied out of the note after the variable's object was freed.
FreesTheNote_Never(x) == FALSE
FreesTheNote(x) == ptr[x] = ptr[noteTarget]
Noteget(x, k) ==
  IF noteTarget = NULL THEN Stop("abort")
  ELSE Using({noteTarget},
         IF ~HasLine(Text(noteTarget), k) THEN Stop("abort")
         ELSE IF FreesTheNote(x) THEN Stop("undefined")
         ELSE Using({x}, Replace(x, Appended(StringOf(<<>>), Line(Text(noteTarget), k)))))

\* The note's object is freed before the name of the file is read.
Noteload(x, t) ==
  IF noteTarget = NULL THEN Stop("abort")
  ELSE IF FreesTheNote(x) THEN Stop("undefined")
  ELSE Using({noteTarget, x},
         Replace(noteTarget, Read(StringOf(<<>>), t)) \/ Stop("abort"))

\* The command is made of the mask before the variable's object is freed.
Dirlist(x, y, t) ==
  Using({x, y}, Replace(x, Read(StringOf(<<>>), t)) \/ Stop("abort"))

Next ==
  /\ status = "running"
  /\ \/ \E x \in Vars :
          \/ \E t \in Literals : Literal(x, t)
          \/ \E n \in Numbers : FromInt(x, n)
          \/ ToInt(x)
          \/ Length(x)
          \/ Notesel(x)
          \/ \E k \in 0..MaxLen : Noteget(x, k)
          \/ \E t \in Files : Noteload(x, t)
     \/ \E x, y \in Vars :
          \/ Copy(x, y)
          \/ \E z \in Vars : Concat(x, y, z)
          \/ \E s \in Spans : Strmid(x, y, s[1], s[2])
          \/ CompareStrings(x, y)
          \/ \E start \in 0..MaxLen : Search(x, start, y)
          \/ \E t \in Files : Dirlist(x, y, t)
     \/ \E option \in 0..2 : Noteinfo(option)

Spec == Init /\ [][Next]_vars

-----------------------------------------------------------------------------
\* A live object has room for its text and the NUL.
TextsFit ==
  \A a \in DOMAIN heap : Len(heap[a].text) < heap[a].capacity

(***************************************************************************)
(* The pointers implement texts: only a copy of the variable that noteget, *)
(* noteload or dirlist was given loses its text.                           *)
(***************************************************************************)
Values ==
  INSTANCE StringValues WITH
    val <- [x \in Vars |-> IF IsLive(x) THEN Text(x) ELSE Lost],
    copies <- [x \in Vars |-> {y \in Vars : ptr[y] = ptr[x]}]
ImplementsValues == Values!Spec
===============================================================================
