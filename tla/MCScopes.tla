------------------------------- MODULE MCScopes -------------------------------
(***************************************************************************)
(* Programs with two nested scopes and uses and declarations of two names  *)
(* before, between, inside and after them.                                 *)
(***************************************************************************)
EXTENDS Scopes

CONSTANTS x, g, String

I(kind, name) == [kind |-> kind, name |-> name]
X(kind) == I(kind, x)
Begin(kind) == I(kind, None)
End == I("end", None)

Before == {X("var"), X("ref"), I("ref", g), X("jump")}
Outer == {I("func", g), I("namespace", g), Begin("repeat")}
Between == {X("var"), X("ref"), X("label"), I("ref", Cnt)}
Inner == {Begin("comp"), Begin("repeat")}
Inside == {X("var"), X("ref"), X("jump"), I("ref", Cnt)}
After == {X("var"), X("ref")}

Nested ==
  {<<p, o, q, i, r, End, s, End, t>> :
     p \in Before, o \in Outer, q \in Between, i \in Inner,
     r \in Inside, s \in After, t \in After}

\* Functions whose parameters have default arguments, repeats with a count that
\* uses cnt, names of types, names that are not allowed, and externs.
Others ==
  {<<I("func", g), X("var"), d, Begin("comp"), u, End, End, I("extern", g)>> :
     d \in {X("ref"), I("var", g), X("var")}, u \in {X("var"), I("ref", g), X("label")}}
  \cup {<<Begin("repeat"), I("ref", Cnt), Begin("repeat"), u, End, End, X("extern")>> :
          u \in {I("ref", Cnt), I("var", Cnt), X("ref"), I("label", Cnt)}}
  \cup {<<I("type", n), I("namespace", m), I("func", x), End, I("type", g),
          X("ref"), End, e>> :
          n \in {g, String}, m \in {g, String}, e \in {X("ref"), X("extern"), I("extern", Cnt)}}

AllPrograms == Nested \cup Others
===============================================================================
