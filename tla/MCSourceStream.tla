--------------------------- MODULE MCSourceStream ---------------------------
(***************************************************************************)
(* main and first may import each other; second may be imported and        *)
(* included by all, and is sometimes missing; peryandefs may import it.    *)
(***************************************************************************)
EXTENDS SourceOrder

CONSTANTS main, defs, first, second

RankOf == (main :> 0) @@ (first :> 0) @@ (defs :> 0) @@ (second :> 1)

Text == [kind |-> "text", name |-> main]
Blank == [kind |-> "blank", name |-> main]
Invalid == [kind |-> "invalid", name |-> main]
Import(f) == [kind |-> "import", name |-> f]
Include(f) == [kind |-> "include", name |-> f]

MainLines == {Text, Import(first), Import(second), Include(second)}
FirstLines == {Text, Import(main), Import(second), Include(second)}
Endings == {<<Text>>, <<Import(second), Text>>}

FilesOf(lines) == {<<a, b>> : a, b \in lines}
LongFilesOf(lines) == {f \o e : f \in FilesOf(lines), e \in Endings}

WithAllFiles ==
  {(main :> m) @@ (first :> f) @@ (second :> s) @@ (defs :> d) :
     m \in LongFilesOf(MainLines),
     f \in FilesOf(FirstLines),
     s \in {<<Text>>, <<Blank, Import(second), Text>>, <<Text, Invalid>>},
     d \in {<<Blank>>, <<Import(second), Blank>>}}
WithoutSecond ==
  {(main :> m) @@ (first :> f) @@ (defs :> <<Text>>) :
     m \in FilesOf(MainLines), f \in FilesOf(FirstLines)}
WithoutDefs == {main :> <<Text>>}
AllPrograms == WithAllFiles \cup WithoutSecond \cup WithoutDefs
=============================================================================
