---------------------------- MODULE SourceStream ----------------------------
(***************************************************************************)
(* Lexer::readSources: the main file, the files it #imports and #includes  *)
(* and peryandefs are flattened into one text, source_, and a list of      *)
(* breadcrumbs from which getPrettyPrint maps a position of that text back *)
(* to a file and a line.                                                   *)
(*                                                                         *)
(* A file is a sequence of lines; every line but the last ends in a        *)
(* newline character, so a file whose last character is a newline has an   *)
(* empty last line, which is how Lexer::getline reads it.  The contents of *)
(* a line of text count as one character.  Columns are not modelled.       *)
(***************************************************************************)
EXTENDS Naturals, Sequences, FiniteSets

CONSTANTS
  Names,    \* names of files
  Main,     \* the file given on the command line
  Defs,     \* "peryandefs", which is read before it
  Programs, \* sets of files that can be found: functions from names to lines
  Rank      \* an order of the files in which #include goes up

Kinds == {"text", "blank", "import", "include", "invalid"}
Line == [kind : Kinds, name : Names]
Program == UNION {[S -> Seq(Line) \ {<<>>}] : S \in SUBSET Names}

(***************************************************************************)
(* A file that is included may not be open.  FileSourceReader::open would  *)
(* return the stream already open under that name, and the first of the    *)
(* two to end would delete it.  #import protects itself with the set of    *)
(* imported files, to which readSources never adds peryandefs.             *)
(***************************************************************************)
GoesUp(f, line) ==
  /\ line.kind = "include" => Rank[f] < Rank[line.name]
  /\ line.kind = "import" =>
       /\ Rank[f] <= Rank[line.name]
       /\ line.name = Defs => Rank[f] < Rank[line.name]

ASSUME NamesAssumption == Main \in Names /\ Defs \in Names /\ Main # Defs
ASSUME RankAssumption == Rank \in [Names -> Nat] /\ Rank[Main] <= Rank[Defs]
ASSUME ProgramsAssumption ==
  \A p \in Programs :
    /\ DOMAIN p \subseteq Names
    /\ \A f \in DOMAIN p :
         /\ p[f] \in Seq(Line)
         /\ p[f] # <<>>
         /\ \A i \in 1..Len(p[f]) : GoesUp(f, p[f][i])

VARIABLES
  program,  \* the files, none of which changes
  status,   \* "start", "reading", "done" or "error" (a LexerError is thrown)
  stack,    \* streams: a name and the number of lines read
  opened,   \* the keys of FileSourceReader::ifstreams
  offset,   \* the number of lines read from each of those streams
  imported, \* names of files opened by main, #import or #include
  source,   \* source_
  crumbs    \* breadcrumbs_

vars == <<program, status, stack, opened, offset, imported, source, crumbs>>

Stream == [name : Names, line : Nat]
Char == [file : Names, line : Nat, kind : {"text", "newline", "separator"}]
Breadcrumb == [totalPos : Nat, name : Names, line : Nat]

TypeOK ==
  /\ program \in Programs
  /\ status \in {"start", "reading", "done", "error"}
  /\ stack \in Seq(Stream)
  /\ opened \subseteq Names
  /\ offset \in [Names -> Nat]
  /\ imported \subseteq Names
  /\ source \in Seq(Char)
  /\ crumbs \in Seq(Breadcrumb)

Init ==
  /\ program \in Programs
  /\ status = "start"
  /\ stack = <<>>
  /\ opened = {}
  /\ offset = [f \in Names |-> 0]
  /\ imported = {}
  /\ source = <<>>
  /\ crumbs = <<>>

NewStream(f) == [name |-> f, line |-> 0]
Crumb(text, stream) ==
  [totalPos |-> Len(text), name |-> stream.name, line |-> stream.line]

Opening == <<NewStream(Main), NewStream(Defs)>>

(***************************************************************************)
(* readSources opens main and then peryandefs, which is therefore read     *)
(* first.  A file that is not in the include paths is an error.            *)
(***************************************************************************)
Begin ==
  /\ status = "start"
  /\ {Main, Defs} \subseteq DOMAIN program
  /\ status' = "reading"
  /\ stack' = Opening
  /\ opened' = {Main, Defs}
  /\ imported' = {Main}
  /\ crumbs' = <<Crumb(source, NewStream(Defs))>>
  /\ UNCHANGED <<program, offset, source>>

BeginFails ==
  /\ status = "start"
  /\ ~ ({Main, Defs} \subseteq DOMAIN program)
  /\ status' = "error"
  /\ UNCHANGED <<program, stack, opened, offset, imported, source, crumbs>>

Top == stack[Len(stack)]
Below == SubSeq(stack, 1, Len(stack) - 1)

\* The loop reads the stream at the top.  Reading one that has been deleted is
\* undefined: the model has no step for it, and ReadsOpenStreams says that it
\* is not reached.
Reading == status = "reading" /\ Top.name \in opened

EndOfStream == offset[Top.name] >= Len(program[Top.name])
NextLine == program[Top.name][offset[Top.name] + 1]
IsLast == offset[Top.name] + 1 = Len(program[Top.name])

\* The state of the streams after getline: both counters move.
Advanced == [offset EXCEPT ![Top.name] = @ + 1]
AdvancedTop == [Top EXCEPT !.line = @ + 1]
AdvancedStack == Append(Below, AdvancedTop)

GetLine(kind) == Reading /\ ~EndOfStream /\ NextLine.kind = kind

(***************************************************************************)
(* The end of a stream: it is closed and popped, and the text goes on,     *)
(* after a newline, with the stream below.                                 *)
(***************************************************************************)
Separator == [file |-> Top.name, line |-> Top.line, kind |-> "separator"]
Separated == IF source = <<>> THEN source ELSE Append(source, Separator)

LeftOpen_None == opened
LeftOpen_NoneOpen == {}
LeftOpen == opened \ {Top.name}

Returned_FromTheTop ==
  Append(crumbs, Crumb(Separated, NewStream(Below[Len(Below)].name)))
Returned_Missing == crumbs
Returned == Append(crumbs, Crumb(Separated, Below[Len(Below)]))

EndStream ==
  /\ Reading
  /\ EndOfStream
  /\ opened' = LeftOpen
  /\ stack' = Below
  /\ source' = Separated
  /\ \/ /\ Below # <<>>
        /\ crumbs' = Returned
        /\ status' = status
     \/ /\ Below = <<>>
        /\ status' = "done"
        /\ crumbs' = crumbs
  /\ UNCHANGED <<program, offset, imported>>

(***************************************************************************)
(* A line that is no directive is appended as it stands.                   *)
(***************************************************************************)
LineChar(kind) == [file |-> Top.name, line |-> AdvancedTop.line, kind |-> kind]
Contents == IF NextLine.kind = "text" THEN <<LineChar("text")>> ELSE <<>>
LineEnd == IF IsLast THEN <<>> ELSE <<LineChar("newline")>>

ReadText ==
  /\ GetLine("text") \/ GetLine("blank")
  /\ offset' = Advanced
  /\ stack' = AdvancedStack
  /\ source' = (source \o Contents) \o LineEnd
  /\ UNCHANGED <<program, status, opened, imported, crumbs>>

(***************************************************************************)
(* A file is entered: its stream is opened (or, if one of that name is     *)
(* open, shared), pushed and given a breadcrumb.                           *)
(***************************************************************************)
Reopened(f) ==
  IF f \in opened THEN Advanced ELSE [Advanced EXCEPT ![f] = 0]

Enter(f) ==
  /\ f \in DOMAIN program
  /\ opened' = opened \cup {f}
  /\ offset' = Reopened(f)
  /\ stack' = Append(AdvancedStack, NewStream(f))
  /\ imported' = imported \cup {f}
  /\ crumbs' = Append(crumbs, Crumb(source, NewStream(f)))
  /\ UNCHANGED <<program, status, source>>

AlreadyImported_OnlyOpen(f) == f \in opened
AlreadyImported_Never(f) == FALSE
AlreadyImported(f) == f \in imported

TakeImport ==
  /\ GetLine("import")
  /\ ~AlreadyImported(NextLine.name)
  /\ Enter(NextLine.name)

\* Nothing is appended for a file imported before, not even its line's newline.
SkipImport ==
  /\ GetLine("import")
  /\ AlreadyImported(NextLine.name)
  /\ offset' = Advanced
  /\ stack' = AdvancedStack
  /\ UNCHANGED <<program, status, opened, imported, source, crumbs>>

TakeInclude ==
  /\ GetLine("include")
  /\ Enter(NextLine.name)

\* A directive without a quoted name, and one whose file is not found, throw.
IsMissing ==
  /\ NextLine.name \notin DOMAIN program
  /\ \/ GetLine("include")
     \/ GetLine("import") /\ ~AlreadyImported(NextLine.name)

Fail ==
  /\ Reading
  /\ ~EndOfStream
  /\ GetLine("invalid") \/ IsMissing
  /\ status' = "error"
  /\ offset' = Advanced
  /\ stack' = AdvancedStack
  /\ UNCHANGED <<program, opened, imported, source, crumbs>>

Next ==
  \/ Begin
  \/ BeginFails
  \/ EndStream
  \/ ReadText
  \/ TakeImport
  \/ SkipImport
  \/ TakeInclude
  \/ Fail

Spec == Init /\ [][Next]_vars
\* The loop is run by the only thread of the compiler.
FairSpec == Spec /\ WF_vars(Next)

-----------------------------------------------------------------------------
(***************************************************************************)
(* getPrettyPrint.  The breadcrumb of a position is the last one that is   *)
(* not after it (upper_bound minus one), and the line is that of the       *)
(* breadcrumb plus the newlines passed since.  Positions count from 0.     *)
(***************************************************************************)
Positions == 0 .. Len(source) - 1
CharAt(pos) == source[pos + 1]

IsCrumbOf(k, pos) ==
  /\ crumbs[k].totalPos <= pos
  /\ \A j \in DOMAIN crumbs : crumbs[j].totalPos <= pos => j <= k

IsNewline(pos) == CharAt(pos).kind \in {"newline", "separator"}

LineNum(k, pos) ==
  1 + crumbs[k].line
    + Cardinality({i \in crumbs[k].totalPos .. pos - 1 : IsNewline(i)})

-----------------------------------------------------------------------------
(***************************************************************************)
(* The streams the loop reads are the streams it opened: the one at the    *)
(* top has not been deleted by the end of another stream of its name       *)
(* (FileSourceReader::close), however #import and #include nest.           *)
(***************************************************************************)
ReadsOpenStreams == status = "reading" => Top.name \in opened

\* When readSources returns, every stream has been closed.
ClosesEverything == status = "done" => opened = {}

(***************************************************************************)
(* upper_bound needs the breadcrumbs sorted, and getPrettyPrint needs one  *)
(* for every position of the text.                                         *)
(***************************************************************************)
CrumbsAreSorted ==
  /\ \A j, k \in DOMAIN crumbs : j <= k => crumbs[j].totalPos <= crumbs[k].totalPos
  /\ \A k \in DOMAIN crumbs : crumbs[k].totalPos <= Len(source)
  /\ crumbs # <<>> => crumbs[1].totalPos = 0

\* The file that an error message names is the file the text came from.
NamesTheFile ==
  \A pos \in Positions, k \in DOMAIN crumbs :
    IsCrumbOf(k, pos) => crumbs[k].name = CharAt(pos).file

(***************************************************************************)
(* The line that an error message names is the true one less the number of *)
(* directives skipped since the breadcrumb, each of which was a line of    *)
(* the file but left no newline in the text.                               *)
(***************************************************************************)
SkippedBetween(f, first, last) ==
  {i \in first + 1 .. last - 1 : program[f][i].kind = "import"}

LineLagsBySkippedImports ==
  \A pos \in Positions, k \in DOMAIN crumbs :
    (IsCrumbOf(k, pos) /\ CharAt(pos).kind # "separator") =>
      LineNum(k, pos) = CharAt(pos).line
        - Cardinality(SkippedBetween(CharAt(pos).file, crumbs[k].line, CharAt(pos).line))

(***************************************************************************)
(* What LexerTest.cc expects of getPrettyPrint: the line printed is the    *)
(* line of the file.  It is not, after an #import of a file imported       *)
(* before.                                                                 *)
(***************************************************************************)
LineIsTheFiles ==
  \A pos \in Positions, k \in DOMAIN crumbs :
    (IsCrumbOf(k, pos) /\ CharAt(pos).kind = "text") =>
      LineNum(k, pos) = CharAt(pos).line

\* Reading comes to an end, although imports may be circular.
ReadingEnds == <>(status \in {"done", "error"})
=============================================================================
