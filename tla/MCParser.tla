------------------------------ MODULE MCParser ------------------------------
(***************************************************************************)
(* Programs of the grammar that the comments of Parser.cc give, some of    *)
(* them with one token missing or replaced, and all short sources.         *)
(***************************************************************************)
EXTENDS ParserGrammar

AllTokens == ParserTokens \cup {END}

A ** B == {a \o b : a \in A, b \in B}
Opt(A) == {<<>>} \cup A

Types ==
  {<<"Type">>, <<"mod", "Type">>, <<"[", "Type", "]">>, <<"(", "Type", ")">>,
   <<"Type", "->", "Type", ".", "Type">>}
Exprs ==
  {<<"id">>, <<"id", "=", "-", "lit">>, <<" (", "id", "&", "str", ")">>, <<"*a", "id">>,
   <<"id", "(", "id", ",", "lit", ")">>, <<"id", " [", "lit", "]", ".", "id">>,
   <<"Type", "(", "str", ")">>, <<"Type", ".", "id", "(", ")">>, <<" [", "lit", ",", "id", "]">>,
   <<"partial", "id", "(", "id", ")">>, <<"func", "(", "id", ")", "{", "break", ":", "}">>}
Block == {<<"{", "id", "lit", ":", "}">>, <<"{", "term", "break", "term", "}">>, <<"{", "}">>}

\* Statements that leave out the terminal character where they are told to
Jumps == {<<"break">>, <<"goto", "*a", "id">>, <<"return", "id", "<", "id">>, <<"return">>}
Vars ==
  {<<"var", "id">>} ** (Opt({<<"::">>} ** Types) ** Opt({<<"=", "lit">>}) \cup {<<"=">>} ** Exprs)
  \cup {<<"var", "id", ",", "id", "=", "lit", ",", "id", "::", "Type">>}
Instructions ==
  {<<"id">>} ** (Opt(Exprs) ** Opt({<<",", "id">>, <<",", ",", "id">>}))
Assignments ==
  {<<"id">>, <<"id", "[", "lit", "]">>}
    ** ({<<"++">>} \cup {<<"=">>, <<"+=">>} ** {<<"id">>, <<"lit", "=", "id">>})
Inner ==
  {<<"id", "lit">>, <<"break">>, <<"id", "=", "id">>, <<"{", "id", ":", "break", ":", "}">>,
   <<"repeat", ":", "id", "term", "break", ":", "loop">>, <<"repeat", "lit", ":", "loop">>}
IfBlock ==
  {<<"if", "id">>} ** Block
    ** Opt({<<"else", "if", "id", "{", "break", ":", "}">>, <<"else", ":", "if", "lit", "{", "}">>})
    ** Opt({<<"else">>} ** Block)
IfLine ==
  {<<"if", "id", "=", "lit", ":">>} ** Inner ** Opt({<<":", "break">>})
    ** Opt({<<":", "else", ":">>} ** Inner ** Opt({<<":", "id">>}))
Repeat ==
  {<<"repeat">>, <<"repeat", "id">>} ** {<<":">>, <<"term">>}
    ** Opt({<<"id", "lit", ":">>, <<"{", "id", "term", "}", "term">>, <<"term", "id", "term">>}) ** {<<"loop">>}

\* Statements that end with the line, and those only a whole program may hold
Lines ==
  {<<"*a", "id", "term">>} \cup Block ** {<<"term">>} \cup IfLine ** {<<"term">>}
Params ==
  {<<"id">>, <<"id", "::", "Type">>, <<"id", "=", "lit">>, <<"id", ",", "id", "::", "Type", "=", "lit">>}
Declared ==
  {<<"func", "id", "(">>} ** Opt(Params) ** {<<")">>} ** Opt({<<"::", "Type">>}) ** Block ** {<<"term">>}
  \cup {<<"extern", "id", "::">>} ** Types ** Opt({<<"=", "lit", ",", ",", "id">>}) ** {<<":">>, <<"term">>}
  \cup {<<"namespace", "Type", "{">>}
         ** Opt({<<"id", "lit", ":">>, <<"var", "id", "term">>, <<"func", "id", "(", ")", "{", "}", "term">>})
         ** {<<"}", "term">>}

Statements ==
  (Jumps \cup Vars \cup Instructions \cup Assignments \cup IfBlock \cup Repeat) ** {<<"term">>, <<":">>}
  \cup Lines \cup Declared

Documented ==
  {Append(s, END) : s \in Statements \cup {<<"id", "term", "term", "break", ":">>}}

BlankLineBeforeLoop == {<<"repeat", "lit", "term", "id", "term", "term", "loop", "term", END>>}

IsRejected == status \in {"error", "abort"}

\* What the grammar in the comments of the parse functions has is accepted, but
\* for an empty line at the end of a loop.
DocumentedIsAccepted == input \in Documented => ~IsRejected

\* "RepeatStatement : ... { Statement } "loop"", and a Statement may be a TERM.
GrammarIsAccepted == input \in Documented \cup BlankLineBeforeLoop => ~IsRejected

-----------------------------------------------------------------------------
Seeds ==
  {<<"func", "id", "(", "id", ",", "id", "=", "lit", ")", "::", "Type", "{", "return", "id", ":", "}", "term">>,
   <<"namespace", "Type", "{", "var", "id", "::", "[", "Type", "]", "term", "}", "term">>,
   <<"extern", "id", "::", "Type", "->", "Type", "=", "lit", ",", ",", "lit", "term">>,
   <<"repeat", "lit", "term", "id", " [", "lit", "]", ":", "loop", "term">>,
   <<"if", "id", "{", "id", ":", "}", "else", ":", "if", "id", "{", "}", "else", "{", "}", "term">>,
   <<"if", "id", ":", "id", "lit", ":", "else", ":", "repeat", ":", "loop", "term">>,
   <<"id", "=", "Type", "(", "id", "[", "lit", "]", ",", "id", ")", ".", "id", "term">>,
   <<"id", " (", "(", "Type", ")", ".", "id", "(", ")", ")", ",", "[", "lit", "]", "term">>,
   <<"id", "partial", "func", "(", "id", ")", "{", "}", "(", "lit", ")", "&", "*a", "id", "term">>,
   <<"if", "id", ":", "break", "term">>,
   <<"#runtime", "str", "lit", "term">>,
   <<"id", "&", "id", "=", "lit", ",", "-", "lit", "term">>}
Replacements ==
  {"id", "Type", "lit", "term", ":", ",", "(", " [", "]", ")", "{", "}", ".", "=", "*a", "var", "else", "loop"}

Broken ==
  {SubSeq(s, 1, i - 1) \o r \o SubSeq(s, i + 1, Len(s)) :
     <<s, i, r>> \in {<<s, i, r>> \in Seeds \X (1..17) \X ({<<>>} \cup {<<t>> : t \in Replacements}) :
                        i <= Len(s)}}
Short ==
  UNION {[1..n -> ParserTokens] : n \in 0..2}
  \cup [1..3 -> {"id", "Type", "lit", "term", ":", ",", " (", ")", "var", "repeat", "loop", "&", "="}]

AllInputs == Documented \cup BlankLineBeforeLoop \cup {Append(s, END) : s \in Broken \cup Short}
===============================================================================
