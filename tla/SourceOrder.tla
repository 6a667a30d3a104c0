----------------------------- MODULE SourceOrder -----------------------------
(***************************************************************************)
(* What the directives mean, said without a stack of streams: the text of  *)
(* a file is that of its lines, where an #include stands for the text of   *)
(* the file it names and an #import too, the first time.  readSources is   *)
(* compared with it.                                                       *)
(***************************************************************************)
EXTENDS SourceStream, SequencesExt

(***************************************************************************)
(* A text being put together: the lines so far, the files seen so far and  *)
(* whether every file was found.                                           *)
(***************************************************************************)
Start == [lines |-> <<>>, seen |-> {Main}, ok |-> TRUE]

RECURSIVE Insert(_, _, _)
Insert(acc, f, i) ==
  IF ~ acc.ok \/ i > Len(program[f]) THEN acc
  ELSE LET line == program[f][i]
           enters == \/ line.kind = "include"
                     \/ line.kind = "import" /\ line.name \notin acc.seen
           seen == [acc EXCEPT !.seen = @ \cup {line.name}]
           after == CASE line.kind = "text" ->
                           [acc EXCEPT !.lines = Append(@, <<f, i>>)]
                      [] enters /\ line.name \in DOMAIN program ->
                           Insert(seen, line.name, 1)
                      [] enters \/ line.kind = "invalid" ->
                           [acc EXCEPT !.ok = FALSE]
                      [] OTHER -> acc
       IN Insert(after, f, i + 1)

Meaning == Insert(Insert(Start, Defs, 1), Main, 1)

LinesRead ==
  LET texts == SelectSeq(source, LAMBDA c : c.kind = "text")
  IN [i \in DOMAIN texts |-> <<texts[i].file, texts[i].line>>]

(***************************************************************************)
(* readSources ends in an error exactly when a directive fails, and        *)
(* otherwise source_ is the text the directives mean, in order.            *)
(***************************************************************************)
TextIsInInclusionOrder ==
  /\ status = "done" => Meaning.ok /\ LinesRead = Meaning.lines
  /\ status = "error" =>
       ({Main, Defs} \subseteq DOMAIN program => ~ Meaning.ok)
=============================================================================
