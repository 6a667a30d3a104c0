--------------------------- MODULE MCTypeInference ---------------------------
(***************************************************************************)
(* One function with parameter x, two global variables, two global         *)
(* statements in every order after it and sometimes one before it.         *)
(* SymbolResolver has found a definition above every use of a variable, or *)
(* none, and no second one.                                                *)
(***************************************************************************)
EXTENDS TypeInference, TLC

CONSTANTS a, b, x, fun

ParamOfFun == fun :> x

Lit(T) == [kind |-> "lit", type |-> T]
Var(v) == [kind |-> "var", var |-> v]
CallOf(arg) == [kind |-> "call", func |-> fun, arg |-> arg]
Binary(l, o, r) == [kind |-> "binary", op |-> o, lhs |-> l, rhs |-> r]
Unary(o, r) == [kind |-> "unary", op |-> o, rhs |-> r]
Array(e, f) == [kind |-> "array", first |-> e, second |-> f]
Subscr(v, e) == [kind |-> "subscr", array |-> v, subscript |-> e]
Def(v, T, e) == [kind |-> "def", var |-> v, type |-> T, init |-> e]
Update(v, o, e) == [kind |-> "assign", var |-> v, op |-> o, rhs |-> e]
Assign(v, e) == Update(v, "=", e)
Increment(v) == [kind |-> "increment", var |-> v]
If(e) == [kind |-> "if", cond |-> e]
Repeat(e, n) == [kind |-> "repeat", count |-> e, body |-> n]
Return(e) == [kind |-> "return", func |-> fun, expr |-> e]
Func(T, default, U) ==
  [kind |-> "func", func |-> fun, param |-> T, default |-> default, ret |-> U]

Headers == {Func(None, None, None), Func(Basic("Double"), None, None),
            Func(None, None, Basic("Int")),
            Func(None, Lit("Float"), None), Func(None, Var(a), None)}
Bodies == {<<Return(Var(x))>>,
           <<If(Var(x)), Return(Lit("Int"))>>,
           <<Repeat(Var(x), 1), Return(Lit("Double"))>>,
           <<If(Binary(Var(x), "<", Lit("Int"))), Return(Unary("-", Var(x)))>>}
Globals == {Def(a, None, Lit("Int")),
            Def(a, None, CallOf(Lit("String"))),
            Def(a, None, Array(Lit("Int"), Lit("Int"))),
            Def(a, None, Array(Lit("Int"), Var(b))),
            Def(b, Basic("Double"), Var(a)),
            Def(b, None, None),
            Def(b, None, Array(Var(a), Lit("Int"))),
            Def(b, None, Array(Var(a), Var(a))),
            Assign(a, Lit("Double")),
            Assign(a, Binary(Var(a), "+", Var(b))),
            Assign(b, CallOf(Var(a))),
            Assign(b, Subscr(a, Var(b))),
            Update(a, "+=", Var(b)),
            Increment(b),
            If(Unary("!", Var(b))),
            CallOf(Lit("Float")),
            CallOf(Var(a)),
            CallOf(None)}

Functions == {<<h>> \o s : h \in Headers, s \in Bodies}
Prefixes == {<<>>, <<Assign(a, Lit("Int"))>>, <<Def(a, None, None)>>, <<Def(b, None, None)>>,
             <<CallOf(Lit("Int"))>>}

\* Definitions stand above the uses, and there is one of each variable.
IsResolved(p) ==
  \A j \in DOMAIN p : p[j].kind = "def" =>
    /\ p[j].var \notin VarsIn(p[j].init)
    /\ \A i \in 1..(j - 1) :
         /\ p[j].var \notin UsedBy(p[i])
         /\ p[i].kind = "def" => p[i].var # p[j].var

AllPrograms ==
  {p \in {pre \o fn \o <<q, r>> :
            pre \in Prefixes, fn \in Functions, q, r \in Globals} : IsResolved(p)}
=============================================================================
