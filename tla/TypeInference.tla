---------------------------- MODULE TypeInference ----------------------------
(***************************************************************************)
(* TypeResolver: the types left out of a program are found by visiting it  *)
(* over and over.  A visit fixes the types of the occurrences it can,      *)
(* checks the statements whose types are known, and collects bounds for    *)
(* the type variables that are not; after each round every bounded type    *)
(* variable is given a type.  The visits end when a round meets nothing    *)
(* unresolved, or when one makes no progress.                              *)
(*                                                                         *)
(* A program is its statements in the order they are visited.  Functions   *)
(* have one parameter; modifiers (const and ref), members and conversions  *)
(* that are written out are not modelled.                                  *)
(***************************************************************************)
EXTENDS Integers, Sequences, FiniteSets

CONSTANTS
  Vars,     \* variables and parameters, whose names are unique
  Funcs,    \* functions
  ParamOf,  \* the parameter of each function
  Programs, \* sequences of statements
  None,     \* NULL
  Broken    \* what addTypeConstraint leaves when its assertion fails

BuiltIns == {"Bool", "Char", "Int", "Float", "Double", "String", "Label"}
\* A type is a built-in type or an array of them, of any number of dimensions.
Types == [elem : BuiltIns, dims : Nat]
Basic(T) == [elem |-> T, dims |-> 0]
BasicOf(names) == {Basic(T) : T \in names}
Arrays == [elem : BuiltIns, dims : Nat \ {0}]
ArrayOf(T) == [T EXCEPT !.dims = @ + 1]
ElemOf(A) == [A EXCEPT !.dims = @ - 1]

(***************************************************************************)
(* An expression is a literal, a variable, or one of these as an argument  *)
(* (None if it is omitted), as operands, elements or a subscript.  The     *)
(* operators stand for ^ | &, for == and !=, for < <= > >=, for << and >>, *)
(* for + and for - * /.                                                    *)
(***************************************************************************)
BinaryOps == {"&", "==", "<", "<<", "+", "-", "%"}
Atoms == [kind : {"lit"}, type : BuiltIns] \cup [kind : {"var"}, var : Vars]
Exprs ==
  Atoms
  \cup [kind : {"call"}, func : Funcs, arg : Atoms \cup {None}]
  \cup [kind : {"binary"}, op : BinaryOps, lhs : Atoms, rhs : Atoms]
  \cup [kind : {"unary"}, op : {"-", "!"}, rhs : Atoms]
  \cup [kind : {"array"}, first : Atoms, second : Atoms]
  \cup [kind : {"subscr"}, array : Vars, subscript : Atoms]
MaybeType == Types \cup {None}
Bounds == [lower : Types, upper : MaybeType, takeLower : BOOLEAN]

(***************************************************************************)
(* body is the number of statements nested in a statement, which are the   *)
(* ones that follow it; "-=" stands for *= and /= as well, "increment" for *)
(* ++ and --.                                                              *)
(***************************************************************************)
Statements ==
  [kind : {"func"}, func : Funcs, param : MaybeType, default : Atoms \cup {None},
   ret : MaybeType]
  \cup [kind : {"def"}, var : Vars, type : MaybeType, init : Exprs \cup {None}]
  \cup [kind : {"assign"}, var : Vars, op : {"=", "+=", "-="}, rhs : Exprs]
  \cup [kind : {"increment"}, var : Vars]
  \cup [kind : {"if"}, cond : Exprs]
  \cup [kind : {"repeat"}, count : Exprs, body : Nat]
  \cup [kind : {"call"}, func : Funcs, arg : Atoms \cup {None}]
  \cup [kind : {"return"}, func : Funcs, expr : Exprs]

ASSUME NamesAssumption ==
  /\ ParamOf \in [Funcs -> Vars]
  /\ \A f, g \in Funcs : ParamOf[f] = ParamOf[g] => f = g
ASSUME NoneAssumption ==
  /\ None \notin Types /\ None \notin Exprs /\ None \notin Bounds
  /\ Broken \notin Bounds /\ Broken # None
ASSUME ProgramsAssumption == Programs \subseteq Seq(Statements)

(***************************************************************************)
(* Type variables are places a type is stored in: the symbol of a variable *)
(* or parameter, and the parameter and the result of a function's type.    *)
(* That a parameter has two, its symbol's and its function's, is the       *)
(* code's.                                                                 *)
(***************************************************************************)
VarCell(v) == <<"var", v>>
SlotCell(f) == <<"slot", f>>
RetCell(f) == <<"ret", f>>
Cells == ({"var"} \X Vars) \cup ({"slot", "ret"} \X Funcs)
Params == {ParamOf[f] : f \in Funcs}
ASSUME CellsAssumption == None \notin Cells

(***************************************************************************)
(* The identifiers of a statement: "lhs" is the variable that is defined   *)
(* or assigned, or a parameter; "rhs" is the expression if it is a         *)
(* variable, or the first variable in it, "arg" the second, an argument,   *)
(* or a function's default argument.                                       *)
(***************************************************************************)
Roles == {"lhs", "rhs", "arg"}

VARIABLES
  program,    \* the statements
  hspCompat,  \* opt_.hspCompat
  status,     \* "visiting", "done", "error" (SemanticsError) or "abort"
  next,       \* the statement to be visited next
  cell,       \* the types of the type variables
  occ,        \* the types of the identifiers of each statement
  con,        \* constraints_
  unresolved, \* unresolved_
  posKnown,   \* unresolvedPos_ # -1
  widened     \* statements a conversion from Float to Double was put in

vars == <<program, hspCompat, status, next, cell, occ, con, unresolved, posKnown, widened>>

Occurrences == (1..Len(program)) \X Roles

TypeOK ==
  /\ program \in Programs
  /\ hspCompat \in BOOLEAN
  /\ status \in {"visiting", "done", "error", "abort"}
  /\ next \in Nat \ {0}
  /\ cell \in [Cells -> MaybeType]
  /\ occ \in [Occurrences -> MaybeType]
  /\ con \in [Cells -> Bounds \cup {None, Broken}]
  /\ unresolved \in BOOLEAN
  /\ posKnown \in BOOLEAN
  /\ widened \subseteq Nat

-----------------------------------------------------------------------------
(* What the program says of types before any is inferred (SymbolResolver). *)

StatementsOf(kind) == {i \in DOMAIN program : program[i].kind = kind}

Written(c) ==
  {program[i].type : i \in {j \in StatementsOf("def") : c = VarCell(program[j].var)}}
  \cup {program[i].param : i \in {j \in StatementsOf("func") :
          c \in {SlotCell(program[j].func), VarCell(ParamOf[program[j].func])}}}
  \cup {program[i].ret : i \in {j \in StatementsOf("func") :
          c = RetCell(program[j].func)}}

WrittenType(c) ==
  IF Written(c) \subseteq {None} THEN None
  ELSE CHOOSE T \in Written(c) \ {None} : TRUE

NoBounds == [c \in Cells |-> None]

\* A variable that is never defined is declared implicitly, in HSP mode only.
Implicit == {v \in Vars \ Params : ~\E i \in StatementsOf("def") : program[i].var = v}

\* The expression in a statement, and the variable it defines or assigns.
ExprIn(st) ==
  CASE st.kind = "def" -> st.init
    [] st.kind = "assign" -> st.rhs
    [] st.kind = "if" -> st.cond
    [] st.kind = "repeat" -> st.count
    [] st.kind = "call" -> st
    [] st.kind = "return" -> st.expr
    [] OTHER -> None
VarIn(st) == IF st.kind \in {"def", "assign", "increment"} THEN {st.var} ELSE {}

\* The atoms in an expression, None if there are fewer.
FirstOf(e) ==
  IF e = None THEN None
  ELSE CASE e.kind = "binary" -> e.lhs
         [] e.kind = "unary" -> e.rhs
         [] e.kind = "array" -> e.first
         [] e.kind = "subscr" -> [kind |-> "var", var |-> e.array]
         [] e.kind = "call" -> None
         [] OTHER -> e
SecondOf(e) ==
  IF e = None THEN None
  ELSE CASE e.kind = "call" -> e.arg
         [] e.kind = "binary" -> e.rhs
         [] e.kind = "array" -> e.second
         [] e.kind = "subscr" -> e.subscript
         [] OTHER -> None

VarOf(atom) == IF atom # None /\ atom.kind = "var" THEN {atom.var} ELSE {}
VarsIn(e) == VarOf(FirstOf(e)) \cup VarOf(SecondOf(e))
UsedBy(st) ==
  VarsIn(ExprIn(st))
  \cup (IF st.kind = "func" THEN VarOf(st.default) ELSE {})
  \cup (IF st.kind = "def" THEN {} ELSE VarIn(st))

\* The function that is called in an expression.
Called(e) == IF e # None /\ e.kind = "call" THEN {e.func} ELSE {}

(***************************************************************************)
(* SymbolResolver has found one definition of every function that is       *)
(* called, and a parameter is known in the body of its function only.  A   *)
(* default argument that names a parameter, which can only be its own, is  *)
(* not modelled.                                                           *)
(***************************************************************************)
Defines(p, h, f) == h \in DOMAIN p /\ p[h].kind = "func" /\ p[h].func = f

ASSUME ResolvedAssumption ==
  \A p \in Programs :
    /\ \A f \in Funcs, h, i \in DOMAIN p : Defines(p, h, f) /\ Defines(p, i, f) => h = i
    /\ \A i \in DOMAIN p : \A f \in Called(ExprIn(p[i])) : \E h \in DOMAIN p : Defines(p, h, f)
    /\ \A i \in DOMAIN p : \A f \in Funcs :
         /\ p[i].kind = "def" => p[i].var # ParamOf[f]
         /\ ParamOf[f] \in UsedBy(p[i]) =>
              p[i].kind # "func" /\ \E h \in 1..(i - 1) : Defines(p, h, f)

Init ==
  /\ program \in Programs
  /\ hspCompat \in BOOLEAN
  /\ Implicit \cap UNION {UsedBy(program[i]) : i \in DOMAIN program} # {} => hspCompat
  /\ status = "visiting"
  /\ next = 1
  /\ cell = [c \in Cells |-> WrittenType(c)]
  /\ occ = [o \in Occurrences |-> None]
  /\ con = NoBounds
  /\ unresolved = FALSE
  /\ posKnown = FALSE
  /\ widened = {}

-----------------------------------------------------------------------------
(* Relations between types. *)

IsSubtypeOf(sub, super) ==
  \/ sub = super
  \/ sub = Basic("Float") /\ super = Basic("Double")

\* promotionTable: the types each type is converted to in HSP mode.
PromotesTo ==
  [Bool   |-> {"Bool", "Char", "Int", "Float", "Double"},
   Char   |-> {"Bool", "Char", "Int", "Float", "Double"},
   Int    |-> {"Bool", "Char", "Int", "Float", "Double", "String"},
   Float  |-> {"Float"},
   Double |-> {"Int", "Double"},
   String |-> {"Int", "String"},
   Label  |-> {"Label"}]

CanPromote(from, to) ==
  \/ IsSubtypeOf(from, to)
  \/ hspCompat /\ from.dims = 0 /\ to \in BasicOf(PromotesTo[from.elem])

(***************************************************************************)
(* addTypeConstraint.  The five cases are tried in this order; that the    *)
(* first leaves an unset upper bound unset, and the second takes any type, *)
(* is the code's.                                                          *)
(***************************************************************************)
Tightened(b, T) ==
  IF IsSubtypeOf(T, b.lower) THEN [b EXCEPT !.lower = T]
  ELSE IF b.upper = None THEN [b EXCEPT !.upper = T]
  ELSE IF IsSubtypeOf(b.lower, T) /\ IsSubtypeOf(T, b.upper) THEN b
  ELSE IF IsSubtypeOf(b.upper, T) THEN [b EXCEPT !.upper = T]
  ELSE Broken

FirstBound(T) == [lower |-> T, upper |-> None, takeLower |-> TRUE]

\* The bounds after T is added for type variable c; c is None if there is none.
Add(bounds, c, T) ==
  IF c = None \/ bounds[c] = Broken THEN bounds
  ELSE [bounds EXCEPT ![c] = IF @ = None THEN FirstBound(T) ELSE Tightened(@, T)]

ForParam(bounds, c) ==
  IF bounds[c] = Broken THEN bounds
  ELSE [bounds EXCEPT ![c] = [@ EXCEPT !.takeLower = FALSE]]

(***************************************************************************)
(* Visiting expressions.  An identifier keeps the first type it is given;  *)
(* until its symbol has one, the symbol's is the current type variable.    *)
(***************************************************************************)
VarType(o, v) == IF occ[o] # None THEN occ[o] ELSE cell[VarCell(v)]

AtomType(o, a) ==
  IF a = None THEN None ELSE IF a.kind = "lit" THEN Basic(a.type) ELSE VarType(o, a.var)

FirstType(i, a) == AtomType(<<i, "rhs">>, a)
SecondType(i, a) == AtomType(<<i, "arg">>, a)

\* binaryPromotionTable: the type of an operation, None if there is none.  Its
\* keys are built-in types.
Numeric == {"Bool", "Char", "Int", "Float", "Double"}
Arithmetic(l, r) ==
  IF ~hspCompat THEN IF l = r /\ l \in Numeric \ {"Bool"} THEN l ELSE None
  ELSE CASE l \in {"Bool", "Int"} /\ r \in Numeric -> "Int"
         [] l = "Char" /\ r = "Char" -> "Char"
         [] l = "Float" /\ r \in Numeric -> IF r = "Double" THEN "Double" ELSE "Float"
         [] l = "Double" /\ r \in Numeric -> "Double"
         [] OTHER -> None

OnBuiltIns(op, l, r) ==
  CASE op = "&" /\ l = r /\ l \in {"Bool", "Int"} -> l
    [] op = "==" /\ l = r /\ l \in BuiltIns -> "Bool"
    [] op = "<" /\ ({l, r} \subseteq {"Char", "Int"} \/ {l, r} \subseteq {"Float", "Double"}) -> "Bool"
    [] op \in {"<<", "%"} /\ l = "Int" /\ r = "Int" -> "Int"
    [] op = "+" /\ l = "String" /\ (r = "String" \/ (hspCompat /\ r = "Int")) -> "String"
    [] op \in {"+", "-"} -> Arithmetic(l, r)
    [] OTHER -> None

Operation(op, l, r) ==
  LET result == OnBuiltIns(op, l.elem, r.elem)
  IN  IF l.dims > 0 \/ r.dims > 0 \/ result = None THEN None ELSE Basic(result)

\* The type both operands are converted to: in HSP the left one's.
CommonType(l, r) ==
  CASE ~hspCompat /\ CanPromote(l, r) -> r
    [] CanPromote(r, l) -> l
    [] OTHER -> None

(***************************************************************************)
(* An argument that is left out is the function's default argument: the    *)
(* same node in all calls that leave it out.                               *)
(***************************************************************************)
HeaderOf(f) == CHOOSE i \in StatementsOf("func") : program[i].func = f
Argument(call) ==
  IF call.arg = None THEN program[HeaderOf(call.func)].default ELSE call.arg
ArgPlace(i, call) ==
  IF call.arg = None THEN <<HeaderOf(call.func), "arg">> ELSE <<i, "arg">>
ArgType(i, call) == AtomType(ArgPlace(i, call), Argument(call))

ExprType(i, e) ==
  CASE e.kind = "call" -> cell[RetCell(e.func)]
    [] e.kind = "binary" ->
         IF None \in {FirstType(i, e.lhs), SecondType(i, e.rhs)} THEN None
         ELSE Operation(e.op, FirstType(i, e.lhs), SecondType(i, e.rhs))
    [] e.kind = "unary" -> FirstType(i, e.rhs)
    [] e.kind = "array" ->
         IF None \in {FirstType(i, e.first), SecondType(i, e.second)} THEN None
         ELSE ArrayOf(FirstType(i, e.first))
    [] e.kind = "subscr" ->
         LET array == VarType(<<i, "rhs">>, e.array)
         IN  IF array \notin Arrays \/ SecondType(i, e.subscript) = None THEN None
             ELSE ElemOf(array)
    [] OTHER -> FirstType(i, e)

\* curTypeVar_ after e was visited and left without a type.
TypeVarOf(e) ==
  CASE e.kind = "call" -> RetCell(e.func)
    [] e.kind = "var" -> VarCell(e.var)
    [] e.kind = "unary" -> VarCell(e.rhs.var)
    [] OTHER -> None

(***************************************************************************)
(* The argument of a call and the parameter inform each other; only when   *)
(* both are known are they compared.                                       *)
(***************************************************************************)
WithCall(i, call, bounds) ==
  LET actual == ArgType(i, call)
      slot == SlotCell(call.func)
      formal == cell[slot]
  IN  IF actual = None /\ formal # None /\ Argument(call) # None
        THEN Add(bounds, VarCell(Argument(call).var), formal)
      ELSE IF actual # None /\ formal = None
        THEN ForParam(Add(bounds, slot, actual), slot)
      ELSE bounds

CallIsWrong(i, call) ==
  LET actual == ArgType(i, call)
      formal == cell[SlotCell(call.func)]
  IN  \/ Argument(call) = None
      \/ actual # None /\ formal # None /\ ~CanPromote(actual, formal)

\* The bounds after e was visited: an element takes the type of the first one.
WithExpr(i, e) ==
  CASE e.kind = "call" -> WithCall(i, e, con)
    [] e.kind = "array" /\ FirstType(i, e.first) # None /\ SecondType(i, e.second) = None ->
         Add(con, VarCell(e.second.var), FirstType(i, e.first))
    [] e.kind = "subscr" /\ VarType(<<i, "rhs">>, e.array) \in Arrays
                         /\ SecondType(i, e.subscript) = None ->
         Add(con, VarCell(e.subscript.var), Basic("Int"))
    [] OTHER -> con

(***************************************************************************)
(* How the visit of e ends: with an error, or with an assertion or a null  *)
(* pointer that stops the compiler.  The table of the operators has        *)
(* operands no conversion brings together, and the type of an array's      *)
(* first element is used before it is tested.                              *)
(***************************************************************************)
BinaryVerdict(op, l, r) ==
  IF None \in {l, r} THEN status
  ELSE IF Operation(op, l, r) = None THEN "error"
  ELSE IF CommonType(l, r) = None THEN "abort"
  ELSE status

ErrorIf(wrong) == IF wrong THEN "error" ELSE status

Verdict(i, e) ==
  CASE e.kind = "call" -> ErrorIf(CallIsWrong(i, e))
    [] e.kind = "binary" -> BinaryVerdict(e.op, FirstType(i, e.lhs), SecondType(i, e.rhs))
    [] e.kind = "unary" ->
         ErrorIf(FirstType(i, e.rhs) \notin
                   {None} \cup BasicOf(IF e.op = "!" THEN {"Bool"} ELSE Numeric \ {"Bool"}))
    [] e.kind = "array" ->
         LET elem == FirstType(i, e.first)
             other == SecondType(i, e.second)
         IN  IF elem = None THEN "abort" ELSE ErrorIf(other # None /\ ~CanPromote(other, elem))
    [] e.kind = "subscr" ->
         LET array == VarType(<<i, "rhs">>, e.array)
         IN  ErrorIf(\/ array \notin Arrays \cup {None}
                     \/ array # None /\ SecondType(i, e.subscript) \notin {Basic("Int"), None})
    [] OTHER -> status

\* Whether visiting e, or the argument in it, meets something without a type.
CallIsOpen(i, call) ==
  \/ ArgType(i, call) = None
  \/ cell[SlotCell(call.func)] = None
  \/ cell[RetCell(call.func)] = None
ExprIsOpen(i, e) ==
  IF e.kind = "call" THEN CallIsOpen(i, e) ELSE ExprType(i, e) = None

\* The visits that set unresolvedPos_ with unresolved_: a call does for its
\* result when that is used, and not for its parameter.
CallHasPos(i, call) == ArgType(i, call) = None
ExprHasPos(i, e) ==
  IF e.kind = "call" THEN CallHasPos(i, e) \/ ExprType(i, e) = None
  ELSE ExprType(i, e) = None

\* Expecting e to be of type T: its type variable is bounded, or it is checked.
WithExpected_Always(i, e, T) == Add(WithExpr(i, e), TypeVarOf(e), T)
WithExpected(i, e, T) ==
  IF ExprType(i, e) = None THEN Add(WithExpr(i, e), TypeVarOf(e), T) ELSE WithExpr(i, e)
IsUnexpected(i, e, T) == ExprType(i, e) # None /\ ~CanPromote(ExprType(i, e), T)

-----------------------------------------------------------------------------
(* Visiting a statement. *)

\* The identifiers a visit comes to, with their variables: the subscript of an
\* array that has no type yet is not one of them.
Identifiers(i) ==
  LET e == ExprIn(program[i])
      Named(o, names) == {<<o, v>> : v \in names}
      isOpenArray ==
        e # None /\ e.kind = "subscr" /\ VarType(<<i, "rhs">>, e.array) = None
  IN  Named(<<i, "lhs">>, VarIn(program[i]))
      \cup Named(<<i, "rhs">>, VarOf(FirstOf(e)))
      \cup (IF Called(e) # {} THEN Named(ArgPlace(i, e), VarOf(Argument(e)))
            ELSE IF isOpenArray THEN {}
            ELSE Named(<<i, "arg">>, VarOf(SecondOf(e))))

Remembered(i) ==
  [o \in Occurrences |->
     IF \E v \in Vars : <<o, v>> \in Identifiers(i)
     THEN VarType(o, CHOOSE v \in Vars : <<o, v>> \in Identifiers(i))
     ELSE occ[o]]

Visiting(kind) ==
  /\ status = "visiting"
  /\ next <= Len(program)
  /\ next \notin widened
  /\ program[next].kind = kind

LhsType == VarType(<<next, "lhs">>, program[next].var)

(***************************************************************************)
(* insertPromoter puts a conversion into the statement.  One from Float to *)
(* Double, the subtype that promotionTable does not have, is an error when *)
(* the next round visits it (VisitWidened).                                *)
(***************************************************************************)
IsWidening(T, U) == T = Basic("Float") /\ U = Basic("Double")

\* An argument, operand or element of e is converted.
WidensPart(i, e) ==
  CASE e.kind = "call" -> IsWidening(ArgType(i, e), cell[SlotCell(e.func)])
    [] e.kind = "binary" ->
         {FirstType(i, e.lhs), SecondType(i, e.rhs)} = BasicOf({"Float", "Double"})
    [] e.kind = "array" -> IsWidening(SecondType(i, e.second), FirstType(i, e.first))
    [] OTHER -> FALSE

\* The type the value of a statement's expression is converted to.
TargetType(st) ==
  CASE st.kind \in {"def", "assign"} -> LhsType
    [] st.kind = "return" -> cell[RetCell(st.func)]
    [] OTHER -> None

Widens(st) ==
  LET e == ExprIn(st)
  IN  e # None /\ (WidensPart(next, e) \/ IsWidening(ExprType(next, e), TargetType(st)))

(***************************************************************************)
(* The end of a visit: an error is thrown when a check fails, that of the  *)
(* expression in the statement first, and the assertion in                 *)
(* addTypeConstraint stops the compiler.                                   *)
(***************************************************************************)
IsBroken(bounds) == \E c \in Cells : bounds[c] = Broken

Leave(bounds, verdict, wrong, open, pos, last) ==
  /\ con' = bounds
  /\ status' = IF verdict # status THEN verdict
               ELSE IF IsBroken(bounds) THEN "abort"
               ELSE IF wrong THEN "error"
               ELSE status
  /\ unresolved' = (unresolved \/ open)
  /\ posKnown' = (posKnown \/ pos)
  /\ next' = last + 1
  /\ widened' = IF Widens(program[next]) THEN widened \cup {next} ELSE widened

\* promotionTable has no conversion from Float to Double: "Unknown constructor type".
VisitWidened ==
  /\ status = "visiting"
  /\ next <= Len(program)
  /\ next \in widened
  /\ status' = "error"
  /\ UNCHANGED <<program, hspCompat, next, cell, occ, con, unresolved, posKnown, widened>>

(***************************************************************************)
(* A function's definition: when the type of its parameter is known the    *)
(* parameter's symbol gets it, once.  Its body is visited next.            *)
(***************************************************************************)
FuncIsOpen(f) == cell[SlotCell(f)] = None \/ cell[RetCell(f)] = None
FuncHasPos_Never(f) == FALSE
FuncHasPos(f) == FuncIsOpen(f)

VisitFuncDef ==
  /\ Visiting("func")
  /\ LET f == program[next].func
         formal == cell[SlotCell(f)]
         param == <<next, "lhs">>
     IN  /\ IF formal # None /\ occ[param] = None
            THEN /\ occ' = [occ EXCEPT ![param] = formal]
                 /\ cell' = [cell EXCEPT ![VarCell(ParamOf[f])] = formal]
            ELSE UNCHANGED <<occ, cell>>
         /\ Leave(con, status, FALSE, FuncIsOpen(f), FuncHasPos(f), next)
  /\ UNCHANGED <<program, hspCompat>>

VisitVarDef ==
  /\ Visiting("def")
  /\ program[next].init = None
  /\ Leave(con, status, FALSE, LhsType = None, LhsType = None, next)
  /\ occ' = Remembered(next)
  /\ UNCHANGED <<program, hspCompat, cell>>

(***************************************************************************)
(* A variable that is initialised or assigned: whichever side has a type   *)
(* bounds the other, and if both have they are compared.                   *)
(***************************************************************************)
Target == VarCell(program[next].var)

Assigned_Always(e) ==
  IF ExprType(next, e) # None THEN Add(WithExpr(next, e), Target, ExprType(next, e))
  ELSE WithExpected(next, e, LhsType)
Assigned(e) ==
  IF LhsType # None THEN WithExpected(next, e, LhsType)
  ELSE IF ExprType(next, e) # None
    THEN Add(WithExpr(next, e), Target, ExprType(next, e))
  ELSE WithExpr(next, e)

IsMismatch_Never(e) == FALSE
IsMismatch(e) == LhsType # None /\ IsUnexpected(next, e, LhsType)

AssignTo(e, isWrong) ==
  /\ Leave(Assigned(e), Verdict(next, e), isWrong,
           ExprIsOpen(next, e) \/ LhsType = None,
           ExprHasPos(next, e) \/ LhsType = None, next)
  /\ occ' = Remembered(next)
  /\ UNCHANGED <<program, hspCompat, cell>>

VisitVarDefInit ==
  /\ Visiting("def")
  /\ program[next].init # None
  /\ LET e == program[next].init IN AssignTo(e, IsMismatch(e))

\* The types of the variable each form of assignment takes.
OperatorFits(op, T) ==
  CASE op = "=" -> TRUE
    [] op = "+=" -> T \in BasicOf((Numeric \ {"Bool"}) \cup {"String"})
    [] op = "-=" -> T \in BasicOf(Numeric \ {"Bool"})
    [] op = "++" -> T \in BasicOf({"Int", "Char"})

VisitAssign ==
  /\ Visiting("assign")
  /\ LET e == program[next].rhs
         areKnown == LhsType # None /\ ExprType(next, e) # None
     IN  AssignTo(e, \/ IsMismatch(e)
                     \/ areKnown /\ ~OperatorFits(program[next].op, LhsType))

VisitIncrement ==
  /\ Visiting("increment")
  /\ Leave(con, status, LhsType # None /\ ~OperatorFits("++", LhsType),
           LhsType = None, LhsType = None, next)
  /\ occ' = Remembered(next)
  /\ UNCHANGED <<program, hspCompat, cell>>

VisitIf ==
  /\ Visiting("if")
  /\ LET e == program[next].cond
     IN  Leave(WithExpected(next, e, Basic("Bool")),
               Verdict(next, e), IsUnexpected(next, e, Basic("Bool")),
               ExprIsOpen(next, e), ExprHasPos(next, e), next)
  /\ occ' = Remembered(next)
  /\ UNCHANGED <<program, hspCompat, cell>>

\* The body of a repeat whose count has no type yet is left out of this round.
LastVisited(e) ==
  IF ExprType(next, e) = None THEN next + program[next].body ELSE next

VisitRepeat ==
  /\ Visiting("repeat")
  /\ LET e == program[next].count
     IN  Leave(WithExpected(next, e, Basic("Int")),
               Verdict(next, e), IsUnexpected(next, e, Basic("Int")),
               ExprIsOpen(next, e), ExprHasPos(next, e), LastVisited(e))
  /\ occ' = Remembered(next)
  /\ UNCHANGED <<program, hspCompat, cell>>

VisitCall ==
  /\ Visiting("call")
  /\ LET call == program[next]
     IN  Leave(WithCall(next, call, con), Verdict(next, call), FALSE,
               CallIsOpen(next, call), CallHasPos(next, call), next)
  /\ occ' = Remembered(next)
  /\ UNCHANGED <<program, hspCompat, cell>>

\* A return bounds its function's result; once that is known it is checked.
VisitReturn ==
  /\ Visiting("return")
  /\ LET e == program[next].expr
         ret == RetCell(program[next].func)
         exprType == ExprType(next, e)
         bounds == IF cell[ret] # None THEN WithExpected(next, e, cell[ret])
                   ELSE IF exprType # None THEN Add(WithExpr(next, e), ret, exprType)
                   ELSE WithExpr(next, e)
         wrong == cell[ret] # None /\ IsUnexpected(next, e, cell[ret])
         open == cell[ret] = None
     IN  Leave(bounds, Verdict(next, e), wrong,
               ExprIsOpen(next, e) \/ open,
               ExprHasPos(next, e) \/ open, next)
  /\ occ' = Remembered(next)
  /\ UNCHANGED <<program, hspCompat, cell>>

-----------------------------------------------------------------------------
(* The end of a round. *)

RoundIsOver == status = "visiting" /\ next > Len(program)

Accept ==
  /\ RoundIsOver
  /\ ~unresolved
  /\ status' = "done"
  /\ UNCHANGED <<program, hspCompat, next, cell, occ, con, unresolved, posKnown, widened>>

\* A parameter takes the upper of its bounds, everything else the lower.
Chosen(b) == IF b.takeLower \/ b.upper = None THEN b.lower ELSE b.upper

Progress_Always == TRUE
Progress == con # NoBounds

NextRound ==
  /\ RoundIsOver
  /\ unresolved
  /\ Progress
  /\ cell' = [c \in Cells |-> IF con[c] = None THEN cell[c] ELSE Chosen(con[c])]
  /\ con' = NoBounds
  /\ next' = 1
  /\ unresolved' = FALSE
  /\ posKnown' = FALSE
  /\ UNCHANGED <<program, hspCompat, status, occ, widened>>

GiveUp ==
  /\ RoundIsOver
  /\ unresolved
  /\ ~Progress
  /\ status' = "error"
  /\ UNCHANGED <<program, hspCompat, next, cell, occ, con, unresolved, posKnown, widened>>

Next ==
  \/ VisitFuncDef
  \/ VisitVarDef
  \/ VisitVarDefInit
  \/ VisitAssign
  \/ VisitIncrement
  \/ VisitIf
  \/ VisitRepeat
  \/ VisitCall
  \/ VisitReturn
  \/ VisitWidened
  \/ Accept
  \/ NextRound
  \/ GiveUp

Spec == Init /\ [][Next]_vars
\* The compiler is one thread that keeps running.
FairSpec == Spec /\ WF_vars(Next)

-----------------------------------------------------------------------------
(***************************************************************************)
(* A statement of an accepted program, judged by the types its identifiers *)
(* and the functions in it have in the end: everything has a type, and     *)
(* what is assigned, passed, returned or tested can be promoted to what    *)
(* is expected.                                                            *)
(***************************************************************************)
Fits(T, U) == T # None /\ U # None /\ CanPromote(T, U)

CallHolds(i, call) == Fits(ArgType(i, call), cell[SlotCell(call.func)])

\* What is in the expression fits, too.
PartsHold(i, e) ==
  CASE e.kind = "call" -> CallHolds(i, e)
    [] e.kind = "binary" ->
         LET l == FirstType(i, e.lhs)
             r == SecondType(i, e.rhs)
         IN  \E T \in {l, r} : Fits(l, T) /\ Fits(r, T)
    [] e.kind = "array" -> Fits(SecondType(i, e.second), FirstType(i, e.first))
    [] e.kind = "subscr" -> SecondType(i, e.subscript) = Basic("Int")
    [] OTHER -> TRUE

ExprHolds(i, e, T) == Fits(ExprType(i, e), T) /\ PartsHold(i, e)

StatementHolds(i) ==
  LET st == program[i]
      var == IF st.kind \in {"def", "assign", "increment"} THEN VarType(<<i, "lhs">>, st.var) ELSE None
  IN  CASE st.kind = "func" -> cell[SlotCell(st.func)] # None /\ cell[RetCell(st.func)] # None
        [] st.kind = "def" -> IF st.init = None THEN var # None ELSE ExprHolds(i, st.init, var)
        [] st.kind = "assign" -> ExprHolds(i, st.rhs, var) /\ OperatorFits(st.op, var)
        [] st.kind = "increment" -> OperatorFits("++", var)
        [] st.kind = "if" -> ExprHolds(i, st.cond, Basic("Bool"))
        [] st.kind = "repeat" -> ExprHolds(i, st.count, Basic("Int"))
        [] st.kind = "call" -> CallHolds(i, st) /\ cell[RetCell(st.func)] # None
        [] st.kind = "return" -> ExprHolds(i, st.expr, cell[RetCell(st.func)])

HasOneType(v) ==
  \A i \in DOMAIN program : \A o \in Occurrences :
    <<o, v>> \in Identifiers(i) => occ[o] = cell[VarCell(v)] /\ occ[o] # None

\* A program that is accepted is well typed, whatever order its types were
\* found in and however many rounds it took: its statements are, and all the
\* occurrences of a variable, in an argument several calls share too, have the
\* type of its symbol.
AcceptedIsWellTyped ==
  status = "done" =>
    /\ \A i \in DOMAIN program : StatementHolds(i)
    /\ \A v \in Vars \ Params : HasOneType(v)

(***************************************************************************)
(* The same for parameters, as static typing (README.md) asks.  It fails:  *)
(* a use in the body gives the symbol and its occurrence a type, and a     *)
(* call whose argument becomes known later gives the function another.     *)
(***************************************************************************)
ParametersHaveOneType == status = "done" => \A v \in Params : HasOneType(v)

\* A type once found is final, except a parameter's symbol's, which takes the
\* type of the function's.
TypesAreFinal ==
  [][\A c \in Cells \ {VarCell(v) : v \in Params} :
       cell[c] # None => cell'[c] = cell[c]]_vars

\* assert(unresolvedPos_ != -1): a round that leaves something unresolved knows
\* where, although a call of a function without a type does not say so itself.
PositionIsKnown == RoundIsOver /\ unresolved => posKnown

\* Every round but the last gives a type to a type variable that had none.
Untyped == {c \in Cells : cell[c] = None}
EveryRoundResolves ==
  [][NextRound => Untyped' \subseteq Untyped /\ Untyped' # Untyped]_vars

\* The rounds come to an end.
ResolutionEnds == <>(status # "visiting")

\* "lowerBound <: T <: upperBound" (TypeResolver.h).
BoundsAreOrdered ==
  \A c \in Cells :
    (con[c] \notin {None, Broken} /\ con[c].upper # None) =>
      IsSubtypeOf(con[c].lower, con[c].upper)

\* assert(false && "bug of isSubtypeOf") is not reached.
AssertionHolds == status # "abort"
=============================================================================
