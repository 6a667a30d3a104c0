------------------------------- MODULE Parser -------------------------------
(***************************************************************************)
(* The recursive descent over the token buffer.  A parse function is a set *)
(* of rules: what it looks at, at each of its points, how many tokens it   *)
(* consumes and where it goes on.  A frame on the stack of calls is an     *)
(* activation and how it was called: the functions' parameters             *)
(* isTopLevel, withoutTerm, allowTopEql and the local `partial`.  The      *)
(* nodes the functions return are not modelled, except that the vector     *)
(* parseStmt returns may be empty; nor is the precedence of the operators. *)
(***************************************************************************)
EXTENDS TokenBuffer

(***************************************************************************)
(* A token type, or one that stands for several that are never told apart: *)
(* "lit" is any literal but a string, "mod" const and ref, "++" also --,   *)
(* "+=" also -=, *= and /=, "goto" also gosub, "break" also continue, "-"  *)
(* also +, "&" also | and ^, "<" the other binary operators.  " (" and     *)
(* " [" have white space before them, "*a" is a "*" that a letter follows. *)
(***************************************************************************)
ParserTokens ==
  {"id", "Type", "lit", "str", "term", ":", ",", "(", " (", "[", " [", "]", ")",
   "{", "}", ".", "::", "->", "=", "&", "<", "!", "-", "*", "*a", "++", "+=",
   "mod", "var", "if", "else", "repeat", "loop", "goto", "break", "return",
   "func", "extern", "namespace", "#runtime", "partial"}

ASSUME TokensAssumption ==
  /\ Tokens = ParserTokens \cup {END} /\ END \notin ParserTokens
  /\ MaxLook >= 2 /\ MaxDepth >= 1

VARIABLES
  calls,   \* activations of the parse functions, the innermost last
  status,  \* "running", "done", "error" (ParserError) or "abort" (a failed assert)
  guess    \* where the last speculation began and, if it succeeded, ended

vars == <<input, lexer, tokens, markers, seen, calls, status, guess>>

Init ==
  /\ BufferInit
  /\ calls = <<[at |-> "unit", how |-> "top"]>>
  /\ status = "running"
  /\ guess = [from |-> 0, upto |-> 0]

-----------------------------------------------------------------------------
(* Rules *)

Same == "same"  \* in the way the activation itself was called

AllBut(kinds) == Tokens \ kinds
Paren == {"(", " ("}
Bracket == {"[", " ["}
Star == {"*", "*a"}
Stop == {"term", ":"}

Anyhow ==
  {"top", "term", "inline", "expr", "type", "name", "]", ")",
   "eql", "noeql", "partial eql", "partial noeql"}
Term == {"top", "term"}       \* a statement with its terminal character
NoTerm == {"inline", "expr"}  \* withoutTerm; the body of a function expression

\* At a point: look at the tokens, which are in these sets, and consume n.
On(point, look, n, to) ==
  [at |-> point, how |-> Anyhow, look |-> look, eat |-> n, to |-> to]
Under(hows, rules) == {[r EXCEPT !.how = hows] : r \in rules}

Return == <<>>
Become(point, how) == <<[at |-> point, how |-> how]>>
Go(point) == Become(point, Same)
Call(function, how, point) == Go(point) \o Become(function, how)
\* parseExpr(allowTopEql)
CallExpr(how, point) == Go(point) \o Become("binary", how) \o Become("unary", how)

\* The optional terminal character, which a closing brace stands for.
Ending ==
  Under(Term, {On("ending", <<Stop>>, 1, Return), On("ending", <<{"}"}>>, 0, Return)})
  \cup Under(NoTerm, {On("ending", <<>>, 0, Return)})
\* The end of the line, which nothing stands for.
EndOfLine ==
  Under(Term, {On("end of line", <<{"term"}>>, 1, Return)})
  \cup Under(NoTerm, {On("end of line", <<>>, 0, Return)})
\* What the loop before it has looked at already.
EndOfList_Always == {On("end of list", <<Stop>>, 1, Return)}
EndOfList ==
  Under(Term, {On("end of list", <<Stop>>, 1, Return)})
  \cup Under(NoTerm, {On("end of list", <<>>, 0, Return)})

TransUnit == {On("unit", <<>>, 0, Call("stmt", "top", "unit"))}

Declarations ==
  Under({"top"},
    {On("stmt", <<{"func"}, {"id"}>>, 2, Go("func (")),
     On("stmt", <<{"extern"}>>, 1, Go("extern")),
     On("stmt", <<{"namespace"}>>, 1, Call("type", "name", "namespace")),
     On("stmt", <<{"#runtime"}>>, 1, Go("runtime")),
     On("runtime", <<{"str"}, AllBut({"term"})>>, 2, Go("stmt"))})

\* A top-level `func` without a name is an expression.
Instruction == CallExpr("noeql", "inst")
InstructionsStart ==
  AllBut({END, "term", "var", "{", "if", "repeat", "goto", "break", "return"} \cup Star)
Stmt ==
  {On("stmt", <<{"var"}>>, 1, Go("var")),
   On("stmt", <<{"{"}>>, 1, Call("block", "term", "end of line")),
   On("stmt", <<{"if"}>>, 1, CallExpr("eql", "if")),
   On("stmt", <<{"repeat"}>>, 1, Go("repeat")),
   On("stmt", <<Star>>, 0, Go("label")),
   On("stmt", <<{"goto"}>>, 1, Go("goto")),
   On("stmt", <<{"break"}>>, 1, Go("ending")),
   On("stmt", <<{"return"}>>, 1, Go("return")),
   On("return", <<Stop>>, 0, Go("ending")),
   On("return", <<AllBut(Stop)>>, 0, CallExpr("eql", "ending"))}
  \cup Under(Term, {On("stmt", <<{"term"}>>, 1, Go("stmt"))})
  \cup Under({"top"},
    {On("stmt", <<{"func"}, AllBut({"id"})>>, 0, Instruction),
     On("stmt", <<InstructionsStart \ {"func", "extern", "namespace", "#runtime"}>>, 0, Instruction)})
  \cup Under({"term", "inline"}, {On("stmt", <<InstructionsStart>>, 0, Instruction)})

\* A comma between parameters may be left out.
FuncDefStmt ==
  {On("func (", <<Paren>>, 1, Go("first param")),
   On("first param", <<{")"}>>, 1, Go("result")),
   On("first param", <<{"id"}>>, 1, Go("param type")),
   On("param type", <<{"::"}>>, 1, Call("type", "type", "default")),
   On("param type", <<AllBut({"::"})>>, 0, Go("default")),
   On("params", <<{")"}>>, 1, Go("result")),
   On("params", <<{","}>>, 1, Go("param")),
   On("params", <<{"id"}>>, 1, Go("param type")),
   On("param", <<{"id"}>>, 1, Go("param type")),
   On("result", <<{"::"}>>, 1, Call("type", "type", "body")),
   On("result", <<AllBut({"::"})>>, 0, Go("body")),
   On("body", <<{"{"}>>, 1, Call("block", "term", "end of line"))}
  \cup Under({"top"},
    {On("default", <<{"="}>>, 1, CallExpr("eql", "params")),
     On("default", <<AllBut({"="})>>, 0, Go("params"))})
\* The rest of parseFuncExpr is the same, without a terminal character.
FuncExpr == Under({"expr"}, {On("default", <<>>, 0, Go("params"))})

\* Values between commas, each of which may be left out.
Values(first, more, next, stop, end) ==
  {On(first, <<stop>>, 0, Go(end)),
   On(first, <<{","}>>, 0, Go(more)),
   On(first, <<AllBut(stop \cup {",", END})>>, 0, CallExpr("eql", more)),
   On(more, <<stop>>, 0, Go(end)),
   On(more, <<{","}>>, 1, Go(next)),
   On(next, <<{","}>>, 0, Go(more)),
   On(next, <<AllBut({","})>>, 0, CallExpr("eql", more))}

ExternStmt ==
  {On("extern", <<{"id"}>>, 1, Go("extern ::")),
   On("extern ::", <<{"::"}>>, 1, Call("type", "type", "defaults")),
   On("defaults", <<{"="}>>, 1, Go("first default")),
   On("defaults", <<AllBut({"="})>>, 0, Go("ending"))}
  \cup Values("first default", "more defaults", "next default", Stop \cup {"}"}, "ending")

LabelAt(point, to) == On(point, <<{"*a"}, {"id", "Type"}>>, 2, to)
GotoGosubStmt == {LabelAt("goto", Go("ending"))}
LabelStmt == {LabelAt("label", Go("end of line"))}

CompStmt ==
  {On("block", <<{"}"}>>, 1, Return),
   On("block", <<{"term"}>>, 1, Go("block")),
   On("block", <<AllBut({"}", "term", END})>>, 0, Call("stmt", "term", "block"))}

NamespaceStmt ==
  {On("namespace", <<{"{"}>>, 1, Go("members")),
   On("members", <<{"}"}>>, 1, Go("end of line")),
   On("members", <<{"term"}>>, 1, Go("members")),
   On("members", <<AllBut({"}", "term", END})>>, 0, Call("stmt", "top", "members"))}

VarDefStmt ==
  {On("var", <<{"id"}>>, 1, Go("var type")),
   On("var type", <<{"::"}>>, 1, Call("type", "type", "var value")),
   On("var type", <<AllBut({"::"})>>, 0, Go("var value")),
   On("var value", <<{"="}>>, 1, CallExpr("eql", "more vars")),
   On("var value", <<AllBut({"="})>>, 0, Go("more vars")),
   On("more vars", <<Stop>>, 0, Go("end of list")),
   On("more vars", <<{","}>>, 1, Go("next var")),
   On("more vars", <<{"id"}>>, 1, Go("var type")),
   On("next var", <<{"id"}>>, 1, Go("var type"))}

\* The modifiers and the members are loops, the arrow is a tail call.  Where
\* the type specifier has to be a single name, the error is reported at once.
ClosesArray_Any == Tokens
ClosesArray == {"]"}
TypeSpec ==
  {On("type", <<{"mod"}>>, 1, Go("type")),
   On("type", <<{"Type"}>>, 1, Go("type members")),
   On("type", <<Paren>>, 1, Call("type", Same, "type )")),
   On("type )", <<{")"}>>, 1, Go("type members")),
   On("type ]", <<ClosesArray>>, 1, Go("type members")),
   On("type members", <<{"."}, AllBut({"Type"})>>, 0, Return),
   On("type members", <<AllBut({".", "->"})>>, 0, Return)}
  \cup Under({"type"},
    {On("type", <<Bracket>>, 1, Call("type", Same, "type ]")),
     On("type members", <<{"."}, {"Type"}>>, 2, Go("type members")),
     On("type members", <<{"->"}>>, 1, Go("type"))})

\* Not END, at which parseStmt would return nothing for ever.
AfterThen_OrEnd == AllBut({":"})
AfterThen == AllBut({":", END})
IfStmt ==
  {On("if", <<{"{"}>>, 1, Call("block", "term", "else")),
   On("else", <<{"else"}, {"if"}>>, 2, CallExpr("eql", "else if")),
   On("else", <<{"else"}, {":"}, {"if"}>>, 3, CallExpr("eql", "else if")),
   On("else", <<{"else"}, {":"}, AllBut({"if"})>>, 1, Go("last else")),
   On("else", <<{"else"}, AllBut({"if", ":"})>>, 1, Go("last else")),
   On("else", <<AllBut({"else"})>>, 0, Go("ending")),
   On("else if", <<{"{"}>>, 1, Call("block", "term", "else")),
   On("last else", <<{"{"}>>, 1, Call("block", "term", "ending")),
   On("if", <<{":"}>>, 1, Go("then")),
   On("then", <<{"term"}>>, 0, Go("end of line")),
   On("then", <<{"else"}>>, 1, Go("else :")),
   On("then", <<AllBut({"term", "else"})>>, 0, Call("stmt", "inline", "after then")),
   On("after then", <<{":"}>>, 1, Go("then")),
   On("after then", <<AfterThen>>, 0, Go("then")),
   On("else :", <<{":"}>>, 1, Go("otherwise")),
   On("otherwise", <<{"term"}>>, 0, Go("end of line")),
   On("otherwise", <<AllBut({"term", END})>>, 0, Call("stmt", "inline", "after otherwise")),
   On("after otherwise", <<{":"}>>, 1, Go("otherwise")),
   On("after otherwise", <<AllBut({":"})>>, 0, Go("otherwise"))}

RepeatStmt ==
  {On("repeat", <<Stop>>, 1, Go("loop")),
   On("repeat", <<AllBut(Stop)>>, 0, CallExpr("eql", "count")),
   On("count", <<Stop>>, 1, Go("loop")),
   On("count", <<{"}"}>>, 0, Go("loop")),
   On("loop", <<{"loop"}>>, 1, Go("ending")),
   On("loop", <<AllBut({"loop", END})>>, 0, Call("stmt", "term", "loop"))}

InstOrAssignStmt ==
  {On("inst", <<{"++"}>>, 1, Go("ending")),
   On("inst", <<{"=", "+="}>>, 1, CallExpr("eql", "ending")),
   On("inst", <<AllBut({"++", "=", "+="})>>, 0, Go("first value"))}
  \cup Values("first value", "more values", "next value", Stop, "end of list")

\* parseXorExpr to parseMultExpr.  What is before an "&" is the whole left side
\* of it, so that "=" is an operator after it even at the top of an instruction.
BinaryExpr ==
  {On("binary", <<{"&"}>>, 1, Become("binary", "eql") \o Become("unary", "eql")),
   On("binary", <<{"<", "!", "-"} \cup Star>>, 1, Call("unary", "eql", "binary")),
   On("binary", <<AllBut({"&", "<", "!", "-", "="} \cup Star)>>, 0, Return)}
  \cup Under({"eql"}, {On("binary", <<{"="}>>, 1, Call("unary", "eql", "binary"))})
  \cup Under({"noeql"}, {On("binary", <<{"="}>>, 0, Return)})

UnaryExpr ==
  {On("unary", <<{"!", "-"}>>, 1, Become("unary", "eql")),
   On("unary", <<AllBut({"!", "-", "partial"})>>, 0, Go("operand"))}
  \cup Under({"eql"}, {On("unary", <<{"partial"}>>, 1, Become("operand", "partial eql"))})
  \cup Under({"noeql"}, {On("unary", <<{"partial"}>>, 1, Become("operand", "partial noeql"))})


\* A constructor call is not applied any further, and `partial` is not looked at.
TypedOperand ==
  {On("constructed", <<Paren>>, 1, Become("elements", ")")),
   On("constructed", <<{"."}>>, 1, Go("member")),
   On("member", <<{"id"}>>, 1, Go("postfix"))}

\* Before the top-level "=" of an instruction, a bracket after white space
\* begins its first parameter.  An application is what `partial` waits for.
Suffixes(how, partial, paren, bracket) ==
  Under({how, partial},
    {On("postfix", <<bracket>>, 1, CallExpr("eql", "subscript")),
     On("postfix", <<paren>>, 1, Become("postfix", how) \o Become("elements", ")")),
     On("postfix", <<{"."}>>, 1, Go("member"))})
  \cup Under({how}, {On("postfix", <<AllBut(paren \cup bracket \cup {"."})>>, 0, Return)})
ClosesSubscript_Any == Tokens
ClosesSubscript == {"]"}
PostfixExpr ==
  {On("subscript", <<ClosesSubscript>>, 1, Go("postfix"))}
  \cup Suffixes("eql", "partial eql", Paren, Bracket)
  \cup Suffixes("noeql", "partial noeql", {"("}, {"["})

PrimaryExpr ==
  {On("no type", <<{"func"}>>, 1, Call("func (", "expr", "postfix")),
   On("no type", <<{"id", "lit", "str"}>>, 1, Go("postfix")),
   On("no type", <<Bracket>>, 1, Call("elements", "]", "postfix")),
   On("no type", <<Paren>>, 1, CallExpr("eql", "paren )")),
   On("paren )", <<{")"}>>, 1, Go("postfix")),
   LabelAt("no type", Go("postfix"))}

\* Array elements and the parameters in parentheses; a comma may be left out.
Elements ==
  UNION {Under({close},
    {On("elements", <<{close}>>, 1, Return),
     On("elements", <<AllBut({close, "term", END})>>, 0, CallExpr("eql", "more elements")),
     On("more elements", <<{close}>>, 1, Return),
     On("more elements", <<{","}>>, 1, CallExpr("eql", "more elements")),
     On("more elements", <<AllBut({close, ",", "term", END})>>, 0, CallExpr("eql", "more elements"))})
    : close \in {")", "]"}}

-----------------------------------------------------------------------------
(* Steps *)

Here == calls[Len(calls)]
Callers == SubSeq(calls, 1, Len(calls) - 1)
IsOver == status # "running"

\* la(n), once the buffer has the token
IsKnown(n) == tokens # <<>> /\ Missing(LookFrom(n)) = 0
La(n) == TokenAt(tokens, LookFrom(n))
Sees(look) == \A i \in DOMAIN look : IsKnown(i - 1) /\ La(i - 1) \in look[i]

Rules ==
  UNION {Ending, EndOfLine, EndOfList, TransUnit, Declarations, Stmt, FuncDefStmt, FuncExpr,
         ExternStmt, GotoGosubStmt, LabelStmt, CompStmt, NamespaceStmt, VarDefStmt, TypeSpec,
         IfStmt, RepeatStmt, InstOrAssignStmt, BinaryExpr, UnaryExpr, TypedOperand, PostfixExpr,
         PrimaryExpr, Elements}
Points == {r.at : r \in Rules}
RulesAt == [p \in Points |-> {r \in Rules : r.at = p}]
RulesHere == {r \in RulesAt[Here.at] : Here.how \in r.how}

Eat(n) == IF n = 0 THEN UNCHANGED bufferVars ELSE Consume(n)

Frames(to) == [i \in DOMAIN to |-> [to[i] EXCEPT !.how = IF @ = Same THEN Here.how ELSE @]]

Take(rules) ==
  /\ ~IsOver
  /\ \E r \in rules :
       /\ r.at = Here.at
       /\ Here.how \in r.how
       /\ Sees(r.look)
       /\ Eat(r.eat)
       /\ calls' = Callers \o Frames(r.to)
  /\ UNCHANGED <<status, guess>>

Needs(n) ==
  \E r \in RulesHere : n < Len(r.look) /\ Sees(SubSeq(r.look, 1, n)) /\ ~IsKnown(n)

LookAhead ==
  /\ ~IsOver
  /\ Here.at \in Points
  /\ \E n \in 0..MaxLook : Needs(n) /\ Look(n)
  /\ UNCHANGED <<calls, status, guess>>

\* parseStmt returns no statement at the end of the source and for a `var`
\* without variables.  To parseTransUnit it means that the source is over.
HasNoStmt_Brace ==
  \/ Here.at = "stmt" /\ Sees(<<{END, "}"}>>)
  \/ Here.at = "var" /\ Sees(<<Stop>>)
HasNoStmt ==
  \/ Here.at = "stmt" /\ Sees(<<{END}>>)
  \/ Here.at = "var" /\ Sees(<<Stop>>)

ReturnNothing ==
  /\ ~IsOver
  /\ HasNoStmt
  /\ Eat(IF Here.at = "var" /\ Here.how \in Term THEN 1 ELSE 0)
  /\ calls' = Callers
  /\ LET caller == calls[Len(calls) - 1].at
     IN  status' = CASE caller = "unit" -> "done"
                     [] caller \in {"block", "members"} -> "abort"
                     [] caller = "loop" -> "error"
                     [] OTHER -> status
  /\ UNCHANGED guess

\* A ParserError; parseIdentifier, which parseExternStmt calls unchecked, asserts.
IsStuck ==
  /\ Here.at \in Points
  /\ ~HasNoStmt
  /\ \A r \in RulesHere : ~Sees(r.look)
  /\ \A n \in 0..MaxLook : ~Needs(n)

Fails ==
  /\ ~IsOver
  /\ ~IsSpeculating
  /\ IsStuck
  /\ status' = IF Here.at = "extern" THEN "abort" ELSE "error"
  /\ UNCHANGED <<input, lexer, tokens, markers, seen, calls, guess>>

\* Nothing less than parsing a type specifier tells it from an expression.
SpeculateTypeSpec ==
  /\ ~IsOver
  /\ Here.at = "operand"
  /\ Mark
  /\ calls' = Callers \o Frames(Call("type", "type", "speculated"))
  /\ guess' = [from |-> Consumed, upto |-> Consumed]
  /\ UNCHANGED status

SpeculationSucceeds ==
  /\ ~IsOver
  /\ Here.at = "speculated"
  /\ Release
  /\ calls' = Callers \o Frames(Call("type", "type", "constructed"))
  /\ guess' = [guess EXCEPT !.upto = Consumed + Top]
  /\ UNCHANGED status

\* The error is caught some activations further up.
SpeculationFails ==
  /\ ~IsOver
  /\ IsSpeculating
  /\ IsStuck
  /\ Release
  /\ \E k \in 1..Len(calls) :
       /\ calls[k].at = "speculated"
       /\ calls' = Append(SubSeq(calls, 1, k - 1), [calls[k] EXCEPT !.at = "no type"])
  /\ UNCHANGED <<status, guess>>

Next ==
  \/ LookAhead
  \/ Take(Ending) \/ Take(EndOfLine) \/ Take(EndOfList)
  \/ Take(TransUnit)
  \/ Take(Declarations)
  \/ Take(Stmt)
  \/ Take(FuncDefStmt)
  \/ Take(FuncExpr)
  \/ Take(ExternStmt)
  \/ Take(GotoGosubStmt)
  \/ Take(LabelStmt)
  \/ Take(CompStmt)
  \/ Take(NamespaceStmt)
  \/ Take(VarDefStmt)
  \/ Take(TypeSpec)
  \/ Take(IfStmt)
  \/ Take(RepeatStmt)
  \/ Take(InstOrAssignStmt)
  \/ Take(BinaryExpr)
  \/ Take(UnaryExpr)
  \/ Take(TypedOperand)
  \/ Take(PostfixExpr)
  \/ Take(PrimaryExpr)
  \/ Take(Elements)
  \/ ReturnNothing
  \/ Fails
  \/ SpeculateTypeSpec
  \/ SpeculationSucceeds
  \/ SpeculationFails

Spec == Init /\ [][Next]_vars
\* The compiler is one thread that keeps running.
FairSpec == Spec /\ WF_vars(Next)

-----------------------------------------------------------------------------
IsReparsing ==
  \E k \in 1..(Len(calls) - 1) :
    /\ calls[k].at = "constructed"
    /\ \A i \in (k + 1)..Len(calls) : calls[i].how = "type"

\* What was speculated to be a type specifier is parsed as one, and ends where
\* the speculation did; the parser relies on it and would report an error.  When
\* it is no type specifier, nothing has been consumed.
SpeculationIsRight ==
  /\ status = "error" => ~IsReparsing
  /\ Here.at = "constructed" => Consumed = guess.upto
  /\ Here.at = "no type" => Consumed = guess.from /\ ~IsSpeculating

\* The parser accepts a source only when it has read it, or stopped behind a
\* `var` without variables.
StopsBehindEmptyVar ==
  Consumed > 1 /\ input[Consumed - 1] = "var" /\ input[Consumed] \in Stop
WholeSourceIsRead ==
  status = "done" => Consumed = Len(input) - 1 \/ StopsBehindEmptyVar

\* The parser comes to an end on every source, and on every way one may break off.
ParsingEnds == <>IsOver
===============================================================================
