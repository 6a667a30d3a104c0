------------------------- MODULE TypeInferenceProofs -------------------------
(***************************************************************************)
(* Proofs about TypeInference, for any program whose names SymbolResolver  *)
(* has resolved (ResolvedAssumption), however many functions, variables    *)
(* and statements it has and however many rounds it takes.                 *)
(***************************************************************************)
EXTENDS TypeInference, TLAPS

-----------------------------------------------------------------------------
(* What is in statements and expressions. *)

LEMMA TypeFacts ==
  /\ None \notin Types /\ Arrays \subseteq Types
  /\ \A T \in BuiltIns : Basic(T) \in Types
  /\ \A T \in Types : ArrayOf(T) \in Types
  /\ \A A \in Arrays : ElemOf(A) \in Types
BY NoneAssumption DEF Types, Arrays, Basic, ArrayOf, ElemOf

LEMMA AtomFields ==
  ASSUME NEW a \in Atoms
  PROVE  /\ a # None
         /\ a.kind \in {"lit", "var"}
         /\ a.kind = "lit" => a.type \in BuiltIns
         /\ a.kind = "var" => a.var \in Vars
<1>1. a \in Exprs
  BY DEF Exprs
<1> QED BY <1>1, NoneAssumption DEF Atoms

LEMMA ExprFields ==
  ASSUME NEW e \in Exprs
  PROVE  /\ e # None
         /\ e.kind \in {"lit", "var", "call", "binary", "unary", "array", "subscr"}
         /\ e.kind \in {"lit", "var"} => e \in Atoms
         /\ e.kind = "call" => e.func \in Funcs /\ e.arg \in Atoms \cup {None}
         /\ e.kind = "binary" => e.op \in BinaryOps /\ e.lhs \in Atoms /\ e.rhs \in Atoms
         /\ e.kind = "unary" => e.rhs \in Atoms
         /\ e.kind = "array" => e.first \in Atoms /\ e.second \in Atoms
         /\ e.kind = "subscr" => e.array \in Vars /\ e.subscript \in Atoms
<1>1. e # None
  BY NoneAssumption
<1>2. e \in Atoms => e.kind \in {"lit", "var"}
  BY AtomFields
<1>3. \/ e \in Atoms
      \/ e \in [kind : {"call"}, func : Funcs, arg : Atoms \cup {None}]
      \/ e \in [kind : {"binary"}, op : BinaryOps, lhs : Atoms, rhs : Atoms]
      \/ e \in [kind : {"unary"}, op : {"-", "!"}, rhs : Atoms]
      \/ e \in [kind : {"array"}, first : Atoms, second : Atoms]
      \/ e \in [kind : {"subscr"}, array : Vars, subscript : Atoms]
  BY DEF Exprs
<1> QED BY <1>1, <1>2, <1>3

StatementKinds == {"func", "def", "assign", "increment", "if", "repeat", "call", "return"}

LEMMA StatementFields ==
  ASSUME NEW st \in Statements
  PROVE  /\ st.kind \in StatementKinds
         /\ st.kind = "func" =>
              /\ st.func \in Funcs /\ st.default \in Atoms \cup {None}
              /\ st.param \in MaybeType /\ st.ret \in MaybeType
         /\ st.kind = "def" =>
              st.var \in Vars /\ st.type \in MaybeType /\ st.init \in Exprs \cup {None}
         /\ st.kind = "assign" =>
              st.var \in Vars /\ st.op \in {"=", "+=", "-="} /\ st.rhs \in Exprs
         /\ st.kind = "increment" => st.var \in Vars
         /\ st.kind = "if" => st.cond \in Exprs
         /\ st.kind = "repeat" => st.count \in Exprs /\ st.body \in Nat
         /\ st.kind = "call" => st \in Exprs /\ st.func \in Funcs /\ st.arg \in Atoms \cup {None}
         /\ st.kind = "return" => st.func \in Funcs /\ st.expr \in Exprs
<1> DEFINE Calls == [kind : {"call"}, func : Funcs, arg : Atoms \cup {None}]
<1>1. st \in Calls => st \in Exprs
  BY DEF Exprs
<1>2. \/ st \in [kind : {"func"}, func : Funcs, param : MaybeType, default : Atoms \cup {None},
                 ret : MaybeType]
      \/ st \in [kind : {"def"}, var : Vars, type : MaybeType, init : Exprs \cup {None}]
      \/ st \in [kind : {"assign"}, var : Vars, op : {"=", "+=", "-="}, rhs : Exprs]
      \/ st \in [kind : {"increment"}, var : Vars]
      \/ st \in [kind : {"if"}, cond : Exprs]
      \/ st \in [kind : {"repeat"}, count : Exprs, body : Nat]
      \/ st \in Calls
      \/ st \in [kind : {"return"}, func : Funcs, expr : Exprs]
  BY DEF Statements
<1> QED BY <1>1, <1>2 DEF StatementKinds

-----------------------------------------------------------------------------
(* Types are types. *)

LEMMA ProgramFacts ==
  ASSUME TypeOK
  PROVE  /\ program \in Programs /\ program \in Seq(Statements)
         /\ Len(program) \in Nat /\ DOMAIN program = 1..Len(program)
         /\ \A i \in DOMAIN program : program[i] \in Statements
         /\ \A i \in DOMAIN program, role \in Roles : <<i, role>> \in Occurrences
<1>1. program \in Seq(Statements)
  BY ProgramsAssumption DEF TypeOK
<1>2. DOMAIN program = 1..Len(program) /\ Len(program) \in Nat
  BY <1>1
<1> QED BY <1>1, <1>2 DEF TypeOK, Occurrences

LEMMA Places ==
  /\ \A v \in Vars : VarCell(v) \in Cells
  /\ \A f \in Funcs : SlotCell(f) \in Cells /\ RetCell(f) \in Cells
  /\ \A f \in Funcs : \A v : SlotCell(f) # VarCell(v) /\ RetCell(f) # VarCell(v)
  /\ \A v, w : VarCell(v) = VarCell(w) => v = w
BY DEF Cells, VarCell, SlotCell, RetCell

LEMMA AtomTypes ==
  ASSUME TypeOK, NEW o \in Occurrences, NEW a \in Atoms \cup {None}
  PROVE  /\ AtomType(o, a) \in MaybeType
         /\ AtomType(o, a) = None /\ a # None =>
              a.kind = "var" /\ a.var \in Vars /\ cell[VarCell(a.var)] = None
<1>1. \A v \in Vars : VarType(o, v) \in MaybeType /\ (VarType(o, v) = None => cell[VarCell(v)] = None)
  BY Places DEF VarType, TypeOK, MaybeType
<1>2. CASE a = None
  BY <1>2 DEF AtomType, MaybeType
<1>3. CASE a # None
  <2>1. a \in Atoms
    BY <1>3
  <2> QED BY <1>1, <1>3, <2>1, AtomFields, TypeFacts DEF AtomType, MaybeType
<1> QED BY <1>2, <1>3

LEMMA OperationTypes ==
  ASSUME NEW op, NEW l \in Types, NEW r \in Types
  PROVE  Operation(op, l, r) \in MaybeType
<1> DEFINE a == l.elem
           b == r.elem
<1>1. a \in BuiltIns
  BY DEF Types
<1> HIDE DEF a, b
<1>3. {"Bool", "Char", "Int", "Float", "Double", "String"} \subseteq BuiltIns
  BY DEF BuiltIns
<1>4. Arithmetic(a, b) \in BuiltIns \cup {None}
  BY <1>1, <1>3 DEF Arithmetic
<1>5. OnBuiltIns(op, a, b) \in BuiltIns \cup {None}
  BY <1>1, <1>3, <1>4 DEF OnBuiltIns
<1> QED BY <1>5, TypeFacts DEF Operation, MaybeType, a, b

\* The expression of statement i.
Within(i, e) == i \in DOMAIN program /\ e = ExprIn(program[i]) /\ e # None

LEMMA WithinFacts ==
  ASSUME TypeOK, NEW i, NEW e, Within(i, e)
  PROVE  /\ e \in Exprs
         /\ <<i, "rhs">> \in Occurrences /\ <<i, "arg">> \in Occurrences
         /\ VarsIn(e) \subseteq UsedBy(program[i])
         /\ program[i].kind \in StatementKinds \ {"func", "increment"}
<1>1. program[i] \in Statements /\ program[i].kind \in StatementKinds
  BY ProgramFacts, StatementFields DEF Within
<1>2. e \in Exprs
  BY <1>1, StatementFields DEF Within, ExprIn, StatementKinds
<1>3. program[i].kind \notin {"func", "increment"}
  BY DEF Within, ExprIn
<1> QED BY <1>1, <1>2, <1>3, ProgramFacts DEF Within, UsedBy, Roles

LEMMA CallFacts ==
  ASSUME TypeOK, NEW i, NEW e, Within(i, e), e.kind = "call"
  PROVE  /\ Defines(program, HeaderOf(e.func), e.func)
         /\ ArgPlace(i, e) \in Occurrences
         /\ Argument(e) \in Atoms \cup {None}
         /\ ArgType(i, e) \in MaybeType
         /\ ArgType(i, e) = None /\ Argument(e) # None =>
              /\ Argument(e).kind = "var" /\ Argument(e).var \in Vars
              /\ cell[VarCell(Argument(e).var)] = None
         /\ SlotCell(e.func) \in Cells /\ RetCell(e.func) \in Cells
<1>1. e # None /\ e.func \in Funcs /\ e.arg \in Atoms \cup {None} /\ i \in DOMAIN program
  BY ExprFields, WithinFacts DEF Within
<1>2. \E h \in DOMAIN program : Defines(program, h, e.func)
  BY <1>1, ResolvedAssumption DEF Within, Called, TypeOK
<1>3. Defines(program, HeaderOf(e.func), e.func)
  BY <1>2 DEF HeaderOf, StatementsOf, Defines
<1>4. program[HeaderOf(e.func)].default \in Atoms \cup {None}
  BY <1>3, ProgramFacts, StatementFields DEF Defines
<1>5. ArgPlace(i, e) \in Occurrences
  BY <1>1, <1>3, ProgramFacts DEF ArgPlace, Defines, Roles
<1>6. Argument(e) \in Atoms \cup {None}
  BY <1>1, <1>4 DEF Argument
<1> QED BY <1>1, <1>3, <1>5, <1>6, AtomTypes, Places DEF ArgType

LEMMA ExprTypes ==
  ASSUME TypeOK, NEW i, NEW e, Within(i, e)
  PROVE  ExprType(i, e) \in MaybeType
<1>1. e \in Exprs /\ i \in DOMAIN program
  BY WithinFacts DEF Within
<1>2. <<i, "rhs">> \in Occurrences /\ <<i, "arg">> \in Occurrences
  BY WithinFacts
<1>3. \A a \in Atoms : FirstType(i, a) \in MaybeType /\ SecondType(i, a) \in MaybeType
  BY <1>2, AtomTypes DEF FirstType, SecondType
<1>4. CASE e.kind \in {"lit", "var"}
  BY <1>1, <1>3, <1>4, ExprFields DEF ExprType
<1>5. CASE e.kind = "call"
  BY <1>5, CallFacts DEF ExprType, TypeOK
<1>6. CASE e.kind = "binary"
  BY <1>1, <1>3, <1>6, ExprFields, OperationTypes DEF ExprType, MaybeType
<1>7. CASE e.kind = "unary"
  BY <1>1, <1>3, <1>7, ExprFields DEF ExprType
<1>8. CASE e.kind = "array"
  <2>1. FirstType(i, e.first) \in MaybeType /\ SecondType(i, e.second) \in MaybeType
    BY <1>1, <1>3, <1>8, ExprFields
  <2> QED BY <1>8, <2>1, TypeFacts DEF ExprType, MaybeType
<1>9. CASE e.kind = "subscr"
  BY <1>9, TypeFacts DEF ExprType, MaybeType
<1> QED BY <1>1, <1>4, <1>5, <1>6, <1>7, <1>8, <1>9, ExprFields

-----------------------------------------------------------------------------
(* Bounds. *)

(***************************************************************************)
(* What may be bounded while statement n is visited: a type variable       *)
(* without a type; a parameter's symbol only below its function's          *)
(* definition.                                                             *)
(***************************************************************************)
Bindable(c, n) ==
  /\ cell[c] = None
  /\ \A f \in Funcs : c = VarCell(ParamOf[f]) => \E h \in 1..(n - 1) : Defines(program, h, f)

BoundsOK(bounds, n) ==
  /\ bounds \in [Cells -> Bounds \cup {None, Broken}]
  /\ \A c \in Cells : bounds[c] # None => Bindable(c, n)

LEMMA TightenedType ==
  ASSUME NEW b \in Bounds, NEW T \in Types
  PROVE  Tightened(b, T) \in Bounds \cup {Broken}
BY DEF Tightened, Bounds, MaybeType

LEMMA AddOK ==
  ASSUME NEW bounds, NEW n, BoundsOK(bounds, n),
         NEW c, c = None \/ (c \in Cells /\ Bindable(c, n)), NEW T \in Types
  PROVE  /\ BoundsOK(Add(bounds, c, T), n)
         /\ c # None => Add(bounds, c, T)[c] # None
<1>1. FirstBound(T) \in Bounds
  BY DEF FirstBound, Bounds, MaybeType
<1>2. Broken # None /\ None \notin Bounds
  BY NoneAssumption
<1>3. CASE c = None
  BY <1>3 DEF Add
<1>4. CASE c # None /\ bounds[c] = Broken
  BY <1>2, <1>4 DEF Add
<1>5. CASE c # None /\ bounds[c] # Broken
  <2> DEFINE new == IF bounds[c] = None THEN FirstBound(T) ELSE Tightened(bounds[c], T)
  <2>1. bounds \in [Cells -> Bounds \cup {None, Broken}] /\ c \in Cells
    BY <1>5 DEF BoundsOK
  <2>2. new \in Bounds \cup {Broken}
    BY <1>1, <1>5, <2>1, TightenedType
  <2>3. Add(bounds, c, T) = [bounds EXCEPT ![c] = new]
    BY <1>5 DEF Add
  <2> HIDE DEF new
  <2>4. new # None
    BY <1>2, <2>2
  <2> QED BY <1>5, <2>1, <2>2, <2>3, <2>4 DEF BoundsOK
<1> QED BY <1>3, <1>4, <1>5

LEMMA ForParamOK ==
  ASSUME NEW bounds, NEW n, BoundsOK(bounds, n), NEW c \in Cells, bounds[c] # None
  PROVE  BoundsOK(ForParam(bounds, c), n)
<1>1. bounds \in [Cells -> Bounds \cup {None, Broken}]
  BY DEF BoundsOK
<1>2. CASE bounds[c] = Broken
  BY <1>2 DEF ForParam
<1>3. CASE bounds[c] # Broken
  <2> DEFINE new == [bounds[c] EXCEPT !.takeLower = FALSE]
  <2>1. bounds[c] \in Bounds
    BY <1>1, <1>3
  <2>2. new \in Bounds
    BY <2>1 DEF Bounds
  <2>3. ForParam(bounds, c) = [bounds EXCEPT ![c] = new]
    BY <1>3 DEF ForParam
  <2> HIDE DEF new
  <2>4. \A d \in Cells : ForParam(bounds, c)[d] # None => bounds[d] # None
    BY <1>1, <2>3
  <2>5. ForParam(bounds, c) \in [Cells -> Bounds \cup {None, Broken}]
    BY <1>1, <2>2, <2>3
  <2> QED BY <2>4, <2>5 DEF BoundsOK
<1> QED BY <1>2, <1>3

\* A variable that stands in statement i may be bounded while it has no type.
LEMMA VarBindable ==
  ASSUME TypeOK, NEW i \in DOMAIN program, NEW v \in Vars, cell[VarCell(v)] = None,
         v \in UsedBy(program[i])
  PROVE  VarCell(v) \in Cells /\ Bindable(VarCell(v), i)
<1>1. \A f \in Funcs : ParamOf[f] = v => \E h \in 1..(i - 1) : Defines(program, h, f)
  BY ResolvedAssumption DEF TypeOK
<1> QED BY <1>1, Places DEF Bindable

LEMMA FunctionBindable ==
  ASSUME NEW f \in Funcs, NEW i
  PROVE  /\ cell[SlotCell(f)] = None => SlotCell(f) \in Cells /\ Bindable(SlotCell(f), i)
         /\ cell[RetCell(f)] = None => RetCell(f) \in Cells /\ Bindable(RetCell(f), i)
BY Places DEF Bindable

\* The variables a default argument names are no parameters.
LEMMA ArgumentBindable ==
  ASSUME TypeOK, NEW i, NEW e, Within(i, e), e.kind = "call",
         ArgType(i, e) = None, Argument(e) # None
  PROVE  VarCell(Argument(e).var) \in Cells /\ Bindable(VarCell(Argument(e).var), i)
<1> DEFINE h == HeaderOf(e.func)
           v == Argument(e).var
<1>1. /\ Defines(program, h, e.func)
      /\ Argument(e).kind = "var" /\ v \in Vars /\ cell[VarCell(v)] = None
  BY CallFacts
<1>2. i \in DOMAIN program /\ e # None /\ VarsIn(e) \subseteq UsedBy(program[i])
  BY WithinFacts DEF Within
<1>3. CASE e.arg # None
  <2>1. v \in VarsIn(e)
    BY <1>1, <1>2, <1>3 DEF VarsIn, VarOf, SecondOf, Argument
  <2> QED BY <1>1, <1>2, <2>1, VarBindable
<1>4. CASE e.arg = None
  <2>1. /\ h \in DOMAIN program /\ program[h].kind = "func"
        /\ Argument(e) = program[h].default
    BY <1>1, <1>4 DEF Argument, Defines
  <2> HIDE DEF h
  <2>2. program[h].default \in Atoms
    BY <2>1, ProgramFacts, StatementFields
  <2>3. v \in UsedBy(program[h])
    BY <1>1, <2>1, <2>2, AtomFields DEF UsedBy, VarOf
  <2>4. \A f \in Funcs : ParamOf[f] # v
    BY <2>1, <2>3, ResolvedAssumption DEF TypeOK
  <2> QED BY <1>1, <2>4, Places DEF Bindable
<1> QED BY <1>3, <1>4

LEMMA WithCallOK ==
  ASSUME TypeOK, NEW i, NEW e, Within(i, e), e.kind = "call", BoundsOK(con, i)
  PROVE  BoundsOK(WithCall(i, e, con), i)
<1> DEFINE actual == ArgType(i, e)
           slot == SlotCell(e.func)
           formal == cell[slot]
<1>1. actual \in MaybeType /\ formal \in MaybeType /\ slot \in Cells /\ e.func \in Funcs
  BY CallFacts, ExprFields, WithinFacts DEF TypeOK
<1>2. CASE actual = None /\ formal # None /\ Argument(e) # None
  <2>1. formal \in Types
    BY <1>1, <1>2 DEF MaybeType
  <2>2. BoundsOK(Add(con, VarCell(Argument(e).var), formal), i)
    BY <1>2, <2>1, AddOK, ArgumentBindable
  <2> QED BY <1>2, <2>2 DEF WithCall
<1>3. CASE actual # None /\ formal = None
  <2>1. actual \in Types
    BY <1>1, <1>3 DEF MaybeType
  <2>2. Bindable(slot, i)
    BY <1>1, <1>3, FunctionBindable
  <2> HIDE DEF actual, slot, formal
  <2>3. BoundsOK(Add(con, slot, actual), i) /\ (slot # None => Add(con, slot, actual)[slot] # None)
    BY <1>1, <2>1, <2>2, AddOK
  <2>4. slot # None
    BY <1>1, CellsAssumption
  <2>5. BoundsOK(ForParam(Add(con, slot, actual), slot), i)
    BY <1>1, <2>3, <2>4, ForParamOK
  <2> QED BY <1>3, <2>5 DEF WithCall, actual, slot, formal
<1>4. CASE ~(actual = None /\ formal # None /\ Argument(e) # None) /\ ~(actual # None /\ formal = None)
  BY <1>4 DEF WithCall
<1> QED BY <1>2, <1>3, <1>4

LEMMA AtomBindable ==
  ASSUME TypeOK, NEW i \in DOMAIN program, NEW o \in Occurrences, NEW a \in Atoms,
         AtomType(o, a) = None, a.kind = "var" => a.var \in UsedBy(program[i])
  PROVE  VarCell(a.var) \in Cells /\ Bindable(VarCell(a.var), i)
<1>1. a.kind = "var" /\ a.var \in Vars /\ cell[VarCell(a.var)] = None
  BY AtomTypes, AtomFields
<1> QED BY <1>1, VarBindable

\* The variables of an expression's own atoms are used by its statement.
LEMMA AtomsUsed ==
  ASSUME TypeOK, NEW i, NEW e, Within(i, e)
  PROVE  LET Used(a) == a.kind = "var" => a.var \in UsedBy(program[i])
         IN  /\ e.kind \in {"lit", "var"} => Used(e)
             /\ e.kind = "binary" => Used(e.lhs) /\ Used(e.rhs)
             /\ e.kind = "unary" => Used(e.rhs)
             /\ e.kind = "array" => Used(e.first) /\ Used(e.second)
             /\ e.kind = "subscr" => e.array \in UsedBy(program[i]) /\ Used(e.subscript)
<1>1. e \in Exprs /\ e # None /\ VarsIn(e) \subseteq UsedBy(program[i])
  BY WithinFacts DEF Within
<1>2. \A a \in Atoms : a.kind = "var" => VarOf(a) = {a.var}
  BY AtomFields DEF VarOf
<1>3. VarOf([kind |-> "var", var |-> e.array]) = {e.array} \/ e.kind # "subscr"
  BY <1>1, ExprFields, <1>2 DEF Atoms
<1>4. /\ VarOf(FirstOf(e)) \subseteq UsedBy(program[i])
      /\ VarOf(SecondOf(e)) \subseteq UsedBy(program[i])
  BY <1>1 DEF VarsIn
<1> QED BY <1>1, <1>2, <1>3, <1>4, ExprFields DEF FirstOf, SecondOf

LEMMA TypeVarBindable ==
  ASSUME TypeOK, NEW i, NEW e, Within(i, e), ExprType(i, e) = None
  PROVE  \/ TypeVarOf(e) = None
         \/ TypeVarOf(e) \in Cells /\ Bindable(TypeVarOf(e), i)
<1>1. e \in Exprs /\ i \in DOMAIN program /\ <<i, "rhs">> \in Occurrences
  BY WithinFacts DEF Within
<1>2. CASE e.kind = "call"
  <2>1. e.func \in Funcs /\ cell[RetCell(e.func)] = None
    BY <1>1, <1>2, ExprFields DEF ExprType
  <2> QED BY <1>2, <2>1, FunctionBindable DEF TypeVarOf
<1>3. CASE e.kind = "var"
  <2>1. e \in Atoms /\ AtomType(<<i, "rhs">>, e) = None /\ e.var \in UsedBy(program[i])
    BY <1>1, <1>3, ExprFields, AtomsUsed DEF ExprType, FirstType
  <2> QED BY <1>1, <1>3, <2>1, AtomBindable DEF TypeVarOf
<1>4. CASE e.kind = "unary"
  <2>1. /\ e.rhs \in Atoms /\ AtomType(<<i, "rhs">>, e.rhs) = None
        /\ e.rhs.kind = "var" => e.rhs.var \in UsedBy(program[i])
    BY <1>1, <1>4, ExprFields, AtomsUsed DEF ExprType, FirstType
  <2> QED BY <1>1, <1>4, <2>1, AtomBindable DEF TypeVarOf
<1>5. CASE e.kind \notin {"call", "var", "unary"}
  BY <1>5 DEF TypeVarOf
<1> QED BY <1>2, <1>3, <1>4, <1>5

LEMMA WithExprOK ==
  ASSUME TypeOK, NEW i, NEW e, Within(i, e), BoundsOK(con, i)
  PROVE  BoundsOK(WithExpr(i, e), i)
<1>1. /\ e \in Exprs /\ i \in DOMAIN program
      /\ <<i, "rhs">> \in Occurrences /\ <<i, "arg">> \in Occurrences
  BY WithinFacts DEF Within
<1>2. CASE e.kind = "call"
  BY <1>2, WithCallOK DEF WithExpr
<1>3. CASE e.kind = "array" /\ FirstType(i, e.first) # None /\ SecondType(i, e.second) = None
  <2>1. /\ e.first \in Atoms /\ e.second \in Atoms
        /\ e.second.kind = "var" => e.second.var \in UsedBy(program[i])
    BY <1>1, <1>3, ExprFields, AtomsUsed
  <2>2. FirstType(i, e.first) \in Types
    BY <1>1, <1>3, <2>1, AtomTypes DEF FirstType, MaybeType
  <2>3. VarCell(e.second.var) \in Cells /\ Bindable(VarCell(e.second.var), i)
    BY <1>1, <1>3, <2>1, AtomBindable DEF SecondType
  <2>4. BoundsOK(Add(con, VarCell(e.second.var), FirstType(i, e.first)), i)
    BY <2>2, <2>3, AddOK
  <2> QED BY <1>3, <2>4 DEF WithExpr
<1>4. CASE /\ e.kind = "subscr" /\ VarType(<<i, "rhs">>, e.array) \in Arrays
           /\ SecondType(i, e.subscript) = None
  <2>1. /\ e.subscript \in Atoms
        /\ e.subscript.kind = "var" => e.subscript.var \in UsedBy(program[i])
    BY <1>1, <1>4, ExprFields, AtomsUsed
  <2>2. VarCell(e.subscript.var) \in Cells /\ Bindable(VarCell(e.subscript.var), i)
    BY <1>1, <1>4, <2>1, AtomBindable DEF SecondType
  <2>3. Basic("Int") \in Types
    BY TypeFacts DEF BuiltIns
  <2>4. BoundsOK(Add(con, VarCell(e.subscript.var), Basic("Int")), i)
    BY <2>2, <2>3, AddOK
  <2> QED BY <1>4, <2>4 DEF WithExpr
<1>5. CASE WithExpr(i, e) = con
  BY <1>5
<1> QED BY <1>2, <1>3, <1>4, <1>5 DEF WithExpr

LEMMA WithExpectedOK ==
  ASSUME TypeOK, NEW i, NEW e, Within(i, e), NEW T \in Types, BoundsOK(con, i)
  PROVE  BoundsOK(WithExpected(i, e, T), i)
BY WithExprOK, TypeVarBindable, AddOK DEF WithExpected

-----------------------------------------------------------------------------
(* The invariant. *)

\* The variable at a place, if there is one: that of a default argument is
\* shared by the calls that leave the argument out.
VarsAt(o) ==
  LET st == program[o[1]]
  IN  CASE o[2] = "lhs" -> VarIn(st)
        [] o[2] = "rhs" -> VarOf(FirstOf(ExprIn(st)))
        [] o[2] = "arg" -> IF st.kind = "func" THEN VarOf(st.default)
                           ELSE VarOf(SecondOf(ExprIn(st)))

\* The place of the second atom of statement i, and all the places it uses.
SecondPlace(i) ==
  IF Called(ExprIn(program[i])) # {} THEN ArgPlace(i, ExprIn(program[i])) ELSE <<i, "arg">>
PlacesOf(i) == {<<i, "lhs">>, <<i, "rhs">>, SecondPlace(i)}

\* The identifiers of a statement have their types.
IsSettled(i) ==
  program[i].kind # "func" =>
    \A o \in PlacesOf(i), v \in Vars : v \in VarsAt(o) => occ[o] # None

\* What is bounded has no type, and no bound is broken.
BoundsInv ==
  /\ BoundsOK(con, next)
  /\ status = "visiting" => ~IsBroken(con)

\* An identifier has the type of its variable, unless that is a parameter.
OccurrencesInv ==
  \A o \in Occurrences, v \in Vars \ Params :
    v \in VarsAt(o) /\ occ[o] # None => occ[o] = cell[VarCell(v)]

\* A function that is open was met where it is defined, or will be.
PositionInv ==
  /\ \A h \in DOMAIN program :
       program[h].kind = "func" /\ h < next /\ FuncIsOpen(program[h].func) => posKnown
  /\ unresolved /\ ~posKnown =>
       \E h \in DOMAIN program : program[h].kind = "func" /\ FuncIsOpen(program[h].func)

\* While nothing unresolved is met, the statements visited are well typed.
VisitedInv ==
  /\ status = "visiting" /\ ~unresolved =>
       \A i \in DOMAIN program : i < next => StatementHolds(i) /\ IsSettled(i)
  /\ status = "done" => \A i \in DOMAIN program : StatementHolds(i) /\ IsSettled(i)

InferInv == TypeOK /\ BoundsInv /\ OccurrencesInv /\ PositionInv /\ VisitedInv

-----------------------------------------------------------------------------
(* Places and the variables at them. *)

LEMMA AtomVars ==
  ASSUME NEW a \in Atoms \cup {None}
  PROVE  VarOf(a) \subseteq Vars /\ \A v, w \in VarOf(a) : v = w
BY AtomFields DEF VarOf

LEMMA ExprAtoms ==
  ASSUME TypeOK, NEW i \in DOMAIN program
  PROVE  /\ FirstOf(ExprIn(program[i])) \in Atoms \cup {None}
         /\ SecondOf(ExprIn(program[i])) \in Atoms \cup {None}
<1> DEFINE e == ExprIn(program[i])
<1>1. CASE e = None
  BY <1>1 DEF FirstOf, SecondOf
<1>2. CASE e # None
  <2>1. e \in Exprs
    BY <1>2, WithinFacts DEF Within
  <2> HIDE DEF e
  <2>2. e.kind = "subscr" => [kind |-> "var", var |-> e.array] \in Atoms
    BY <2>1, ExprFields DEF Atoms
  <2> QED BY <1>2, <2>1, <2>2, ExprFields DEF FirstOf, SecondOf, e
<1> QED BY <1>1, <1>2

LEMMA PlaceVars ==
  ASSUME TypeOK, NEW o \in Occurrences
  PROVE  VarsAt(o) \subseteq Vars /\ \A v, w \in VarsAt(o) : v = w
<1>1. o[1] \in DOMAIN program /\ o[2] \in {"lhs", "rhs", "arg"}
  BY ProgramFacts DEF Occurrences, Roles
<1>2. program[o[1]] \in Statements
  BY <1>1, ProgramFacts
<1>3. VarIn(program[o[1]]) \subseteq Vars /\ \A v, w \in VarIn(program[o[1]]) : v = w
  BY <1>2, StatementFields DEF VarIn
<1>4. program[o[1]].kind = "func" => program[o[1]].default \in Atoms \cup {None}
  BY <1>2, StatementFields
<1> QED BY <1>1, <1>3, <1>4, ExprAtoms, AtomVars DEF VarsAt

LEMMA StatementPlaces ==
  ASSUME TypeOK, NEW i \in DOMAIN program
  PROVE  /\ PlacesOf(i) \subseteq Occurrences
         /\ VarsAt(<<i, "lhs">>) = VarIn(program[i])
         /\ VarsAt(<<i, "rhs">>) = VarOf(FirstOf(ExprIn(program[i])))
         /\ program[i].kind # "func" =>
              VarsAt(SecondPlace(i)) =
                IF Called(ExprIn(program[i])) # {} THEN VarOf(Argument(ExprIn(program[i])))
                ELSE VarOf(SecondOf(ExprIn(program[i])))
<1> DEFINE e == ExprIn(program[i])
<1>1. <<i, "lhs">> \in Occurrences /\ <<i, "rhs">> \in Occurrences /\ <<i, "arg">> \in Occurrences
  BY ProgramFacts DEF Roles
<1>2. /\ VarsAt(<<i, "lhs">>) = VarIn(program[i])
      /\ VarsAt(<<i, "rhs">>) = VarOf(FirstOf(e))
      /\ program[i].kind # "func" => VarsAt(<<i, "arg">>) = VarOf(SecondOf(e))
  BY DEF VarsAt
<1>3. CASE Called(e) = {}
  BY <1>1, <1>2, <1>3 DEF PlacesOf, SecondPlace
<1>4. CASE Called(e) # {}
  <2>1. Within(i, e) /\ e.kind = "call"
    BY <1>4 DEF Within, Called
  <2>2. SecondPlace(i) = ArgPlace(i, e)
    BY <1>4 DEF SecondPlace
  <2>3. ArgPlace(i, e) \in Occurrences /\ Defines(program, HeaderOf(e.func), e.func)
    BY <2>1, CallFacts
  <2>4. CASE e.arg = None
    <3>1. ArgPlace(i, e) = <<HeaderOf(e.func), "arg">>
      BY <2>4 DEF ArgPlace
    <3>2. program[HeaderOf(e.func)].kind = "func"
      BY <2>3 DEF Defines
    <3>3. VarsAt(ArgPlace(i, e)) = VarOf(Argument(e))
      BY <2>4, <3>1, <3>2 DEF VarsAt, Argument
    <3> QED BY <1>1, <1>2, <1>4, <2>2, <2>3, <3>3 DEF PlacesOf
  <2>5. CASE e.arg # None
    <3>1. ArgPlace(i, e) = <<i, "arg">> /\ Argument(e) = e.arg
      BY <2>5 DEF ArgPlace, Argument
    <3>2. SecondOf(e) = e.arg
      BY <2>1 DEF SecondOf, Within
    <3> QED BY <1>1, <1>2, <1>4, <2>2, <2>3, <3>1, <3>2 DEF PlacesOf
  <2> QED BY <2>4, <2>5
<1> QED BY <1>3, <1>4

\* An array in statement i that has no type, whose subscript is not visited.
OpenArray(i) ==
  LET e == ExprIn(program[i])
  IN  e # None /\ e.kind = "subscr" /\ VarType(<<i, "rhs">>, e.array) = None

LEMMA IdentifierPlaces ==
  ASSUME TypeOK, NEW i \in DOMAIN program
  PROVE  /\ \A o, v : <<o, v>> \in Identifiers(i) =>
              o \in PlacesOf(i) /\ v \in VarsAt(o) /\ program[i].kind # "func"
         /\ program[i].kind # "func" /\ ~OpenArray(i) =>
              \A o \in PlacesOf(i) : \A v : v \in VarsAt(o) => <<o, v>> \in Identifiers(i)
<1> DEFINE e == ExprIn(program[i])
           second == IF Called(e) # {} THEN VarOf(Argument(e)) ELSE VarOf(SecondOf(e))
           Named(o, names) == {<<o, v>> : v \in names}
<1>1. Identifiers(i) =
        Named(<<i, "lhs">>, VarIn(program[i])) \cup Named(<<i, "rhs">>, VarOf(FirstOf(e)))
        \cup Named(SecondPlace(i), IF Called(e) = {} /\ OpenArray(i) THEN {} ELSE second)
  BY DEF Identifiers, SecondPlace, OpenArray
<1>2. OpenArray(i) => Called(e) = {}
  BY DEF OpenArray, Called
<1>3. CASE program[i].kind = "func"
  <2>1. VarIn(program[i]) = {}
    BY <1>3 DEF VarIn
  <2>2. e = None
    BY <1>3 DEF ExprIn
  <2>3. VarOf(FirstOf(e)) = {} /\ VarOf(SecondOf(e)) = {} /\ Called(e) = {}
    BY <2>2 DEF VarOf, FirstOf, SecondOf, Called
  <2>4. Identifiers(i) = {}
    BY <1>1, <2>1, <2>3
  <2> QED BY <1>3, <2>4
<1>4. CASE program[i].kind # "func"
  <2>1. /\ VarsAt(<<i, "lhs">>) = VarIn(program[i])
        /\ VarsAt(<<i, "rhs">>) = VarOf(FirstOf(e))
        /\ VarsAt(SecondPlace(i)) = second
    BY <1>4, StatementPlaces
  <2> HIDE DEF second, e
  <2>2. \A o, v : <<o, v>> \in Identifiers(i) => o \in PlacesOf(i) /\ v \in VarsAt(o)
    BY <1>1, <2>1 DEF PlacesOf
  <2>3. ~OpenArray(i) =>
          \A o \in PlacesOf(i) : \A v : v \in VarsAt(o) => <<o, v>> \in Identifiers(i)
    BY <1>1, <2>1 DEF PlacesOf
  <2> QED BY <1>4, <2>2, <2>3
<1> QED BY <1>3, <1>4

LEMMA RememberedFacts ==
  ASSUME TypeOK, NEW i \in DOMAIN program
  PROVE  /\ Remembered(i) \in [Occurrences -> MaybeType]
         /\ \A o \in Occurrences : occ[o] # None => Remembered(i)[o] = occ[o]
         /\ \A o \in Occurrences, v \in Vars :
              v \in VarsAt(o) => Remembered(i)[o] \in {occ[o], VarType(o, v)}
         /\ \A o \in Occurrences, v \in Vars :
              <<o, v>> \in Identifiers(i) => Remembered(i)[o] = VarType(o, v)
<1>1. \A o \in Occurrences, v \in Vars : VarType(o, v) \in MaybeType
  BY Places DEF VarType, TypeOK
<1>2. \A o \in Occurrences, v, w \in Vars :
        <<o, v>> \in Identifiers(i) /\ w \in VarsAt(o) => v = w
  BY IdentifierPlaces, PlaceVars
<1>3. \A o \in Occurrences, v, w \in Vars :
        <<o, v>> \in Identifiers(i) /\ <<o, w>> \in Identifiers(i) => v = w
  BY <1>2, IdentifierPlaces
<1>4. \A o \in Occurrences, v \in Vars : occ[o] # None => VarType(o, v) = occ[o]
  BY DEF VarType
<1>5. ASSUME NEW o \in Occurrences, NEW v \in Vars, <<o, v>> \in Identifiers(i)
      PROVE  Remembered(i)[o] = VarType(o, v)
  <2>1. (CHOOSE w \in Vars : <<o, w>> \in Identifiers(i)) = v
    BY <1>3, <1>5
  <2> QED BY <1>5, <2>1 DEF Remembered
<1>6. ASSUME NEW o \in Occurrences, ~\E v \in Vars : <<o, v>> \in Identifiers(i)
      PROVE  Remembered(i)[o] = occ[o]
  BY <1>6 DEF Remembered
<1>7. \A o \in Occurrences : Remembered(i)[o] \in MaybeType
  BY <1>1, <1>5, <1>6 DEF TypeOK
<1>8. Remembered(i) \in [Occurrences -> MaybeType]
  <2>1. Remembered(i) = [o \in Occurrences |-> Remembered(i)[o]]
    BY DEF Remembered
  <2> QED BY <1>7, <2>1
<1> QED BY <1>2, <1>4, <1>5, <1>6, <1>8

-----------------------------------------------------------------------------
(* What a visit keeps. *)

LEMMA SameProgram ==
  ASSUME program' = program
  PROVE  /\ \A i : PlacesOf(i)' = PlacesOf(i) /\ SecondPlace(i)' = SecondPlace(i)
         /\ \A o : VarsAt(o)' = VarsAt(o)
         /\ \A i, e : ArgPlace(i, e)' = ArgPlace(i, e)
         /\ \A e : Argument(e)' = Argument(e)
         /\ Occurrences' = Occurrences
<1>1. \A f : HeaderOf(f)' = HeaderOf(f)
  BY DEF HeaderOf, StatementsOf
<1>2. \A i, e : ArgPlace(i, e)' = ArgPlace(i, e)
  BY <1>1 DEF ArgPlace
<1>3. \A i : SecondPlace(i)' = SecondPlace(i)
  BY <1>1 DEF SecondPlace, ArgPlace
<1>4. \A i : PlacesOf(i)' = PlacesOf(i)
  BY <1>3 DEF PlacesOf
<1>5. \A o : VarsAt(o)' = VarsAt(o)
  BY DEF VarsAt
<1>6. \A e : Argument(e)' = Argument(e)
  BY <1>1 DEF Argument
<1>7. Occurrences' = Occurrences
  BY DEF Occurrences
<1> QED BY <1>2, <1>3, <1>4, <1>5, <1>6, <1>7

\* An identifier that is given the type of its variable has the type it had.
LEMMA VisitKeepsTypes ==
  ASSUME TypeOK, NEW i \in DOMAIN program, cell' = cell, occ' = Remembered(i)
  PROVE  \A o \in Occurrences, v \in Vars : v \in VarsAt(o) => VarType(o, v)' = VarType(o, v)
<1> SUFFICES ASSUME NEW o \in Occurrences, NEW v \in Vars, v \in VarsAt(o)
             PROVE  VarType(o, v)' = VarType(o, v)
  OBVIOUS
<1>1. occ'[o] \in {occ[o], VarType(o, v)} /\ (occ[o] # None => occ'[o] = occ[o])
  BY RememberedFacts
<1> QED BY <1>1 DEF VarType

LEMMA SamePromotions ==
  ASSUME hspCompat' = hspCompat
  PROVE  /\ \A T, U : CanPromote(T, U)' <=> CanPromote(T, U)
         /\ \A T, U : Fits(T, U)' <=> Fits(T, U)
         /\ \A op, T, U : Operation(op, T, U)' = Operation(op, T, U)
<1>1. \A T, U : CanPromote(T, U)' <=> CanPromote(T, U)
  BY DEF CanPromote
<1>2. \A T, U : Fits(T, U)' <=> Fits(T, U)
  BY <1>1 DEF Fits
<1>3. \A l, r : Arithmetic(l, r)' = Arithmetic(l, r)
  BY DEF Arithmetic
<1>4. \A op, l, r : OnBuiltIns(op, l, r)' = OnBuiltIns(op, l, r)
  BY <1>3 DEF OnBuiltIns
<1>5. \A op, T, U : Operation(op, T, U)' = Operation(op, T, U)
  BY <1>4 DEF Operation
<1> QED BY <1>1, <1>2, <1>5

LEMMA KeptExpr ==
  ASSUME TypeOK, NEW i, NEW e, Within(i, e),
         program' = program, hspCompat' = hspCompat,
         \A f \in Funcs : /\ cell'[SlotCell(f)] = cell[SlotCell(f)]
                          /\ cell'[RetCell(f)] = cell[RetCell(f)],
         \A o \in PlacesOf(i), v \in Vars : v \in VarsAt(o) => VarType(o, v)' = VarType(o, v)
  PROVE  /\ ExprType(i, e)' = ExprType(i, e)
         /\ PartsHold(i, e)' <=> PartsHold(i, e)
<1> DEFINE first == <<i, "rhs">>
           second == SecondPlace(i)
<1>1. /\ i \in DOMAIN program /\ e = ExprIn(program[i]) /\ e # None /\ e \in Exprs
      /\ program[i].kind # "func"
  BY WithinFacts DEF Within
<1>2. /\ first \in PlacesOf(i) /\ second \in PlacesOf(i)
      /\ VarsAt(first) = VarOf(FirstOf(e))
      /\ VarsAt(second) = IF Called(e) # {} THEN VarOf(Argument(e)) ELSE VarOf(SecondOf(e))
  BY <1>1, StatementPlaces DEF PlacesOf
<1> HIDE DEF first, second
<1>3. ASSUME NEW o \in PlacesOf(i), NEW a \in Atoms, VarOf(a) \subseteq VarsAt(o)
      PROVE  AtomType(o, a)' = AtomType(o, a)
  <2>1. a.kind = "var" => a.var \in VarsAt(o) /\ a.var \in Vars
    BY <1>3, AtomFields DEF VarOf
  <2>2. a.kind = "var" => VarType(o, a.var)' = VarType(o, a.var)
    BY <2>1
  <2> QED BY <2>2, AtomFields DEF AtomType
<1>4. CASE e.kind = "call"
  <2>1. e.func \in Funcs /\ Argument(e) \in Atoms \cup {None}
    BY <1>1, <1>4, ExprFields, CallFacts
  <2>2. second = ArgPlace(i, e) /\ VarsAt(second) = VarOf(Argument(e))
    BY <1>1, <1>2, <1>4 DEF second, SecondPlace, Called
  <2>3. ArgPlace(i, e)' = ArgPlace(i, e) /\ Argument(e)' = Argument(e)
    BY SameProgram
  <2>4. ASSUME NEW o, NEW a, o = ArgPlace(i, e), a = Argument(e)
        PROVE  AtomType(o, a)' = AtomType(o, a)
    BY <1>2, <1>3, <2>1, <2>2, <2>4 DEF AtomType
  <2>5. ArgType(i, e)' = ArgType(i, e)
    BY <2>3, <2>4 DEF ArgType, AtomType, VarType
  <2> QED BY <1>4, <2>1, <2>5, SamePromotions DEF ExprType, PartsHold, CallHolds
<1>5. CASE e.kind # "call"
  <2>1. second = <<i, "arg">> /\ VarsAt(second) = VarOf(SecondOf(e))
    BY <1>1, <1>2, <1>5 DEF second, SecondPlace, Called
  <2>2. ASSUME NEW a \in Atoms, a = FirstOf(e) PROVE FirstType(i, a)' = FirstType(i, a)
    BY <1>2, <1>3, <2>2 DEF FirstType, first
  <2>3. ASSUME NEW a \in Atoms, a = SecondOf(e) PROVE SecondType(i, a)' = SecondType(i, a)
    BY <1>2, <1>3, <2>1, <2>3 DEF SecondType
  <2>4. CASE e.kind \in {"lit", "var"}
    BY <1>1, <2>2, <2>4, ExprFields DEF FirstOf, ExprType, PartsHold
  <2>5. CASE e.kind = "binary"
    <3>1. /\ FirstType(i, e.lhs)' = FirstType(i, e.lhs)
          /\ SecondType(i, e.rhs)' = SecondType(i, e.rhs)
      BY <1>1, <2>2, <2>3, <2>5, ExprFields DEF FirstOf, SecondOf
    <3>2. ExprType(i, e)' = ExprType(i, e)
      BY <2>5, <3>1, SamePromotions DEF ExprType
    <3>3. PartsHold(i, e)' <=> PartsHold(i, e)
      BY <2>5, <3>1, SamePromotions DEF PartsHold
    <3> QED BY <3>2, <3>3
  <2>6. CASE e.kind = "unary"
    BY <1>1, <2>2, <2>6, ExprFields DEF FirstOf, ExprType, PartsHold
  <2>7. CASE e.kind = "array"
    <3>1. /\ FirstType(i, e.first)' = FirstType(i, e.first)
          /\ SecondType(i, e.second)' = SecondType(i, e.second)
      BY <1>1, <2>2, <2>3, <2>7, ExprFields DEF FirstOf, SecondOf
    <3>2. ExprType(i, e)' = ExprType(i, e)
      BY <2>7, <3>1 DEF ExprType
    <3>3. PartsHold(i, e)' <=> PartsHold(i, e)
      BY <2>7, <3>1, SamePromotions DEF PartsHold
    <3> QED BY <3>2, <3>3
  <2>8. CASE e.kind = "subscr"
    <3>1. SecondType(i, e.subscript)' = SecondType(i, e.subscript)
      BY <1>1, <2>3, <2>8, ExprFields DEF SecondOf
    <3>2. e.array \in Vars /\ e.array \in VarsAt(first)
      <4>1. FirstOf(e) = [kind |-> "var", var |-> e.array] /\ e.array \in Vars
        BY <1>1, <2>8, ExprFields DEF FirstOf
      <4>2. FirstOf(e) # None
        BY <4>1, AtomFields DEF Atoms
      <4> QED BY <1>2, <4>1, <4>2 DEF VarOf
    <3>3. VarType(<<i, "rhs">>, e.array)' = VarType(<<i, "rhs">>, e.array)
      BY <1>2, <3>2 DEF first
    <3> QED BY <2>8, <3>1, <3>3 DEF ExprType, PartsHold
  <2> QED BY <1>1, <1>5, <2>4, <2>5, <2>6, <2>7, <2>8, ExprFields
<1> QED BY <1>4, <1>5

LEMMA KeptStatement ==
  ASSUME TypeOK, NEW i \in DOMAIN program,
         program' = program, hspCompat' = hspCompat,
         \A f \in Funcs : /\ cell'[SlotCell(f)] = cell[SlotCell(f)]
                          /\ cell'[RetCell(f)] = cell[RetCell(f)],
         program[i].kind # "func" =>
           \A o \in PlacesOf(i), v \in Vars : v \in VarsAt(o) => VarType(o, v)' = VarType(o, v)
  PROVE  StatementHolds(i)' <=> StatementHolds(i)
<1>1. PICK st \in Statements : st = program[i]
  BY ProgramFacts
<1>2. program'[i] = st /\ st.kind \in StatementKinds
  BY <1>1, StatementFields
<1>3. ASSUME NEW e, e = ExprIn(st), e # None
      PROVE  /\ ExprType(i, e)' = ExprType(i, e)
             /\ PartsHold(i, e)' <=> PartsHold(i, e)
  <2>1. Within(i, e)
    BY <1>1, <1>3 DEF Within
  <2>2. st.kind # "func"
    BY <1>3 DEF ExprIn
  <2> QED BY <1>1, <2>1, <2>2, KeptExpr
<1>4. ASSUME NEW e, NEW T, e = ExprIn(st), e # None
      PROVE  ExprHolds(i, e, T)' <=> ExprHolds(i, e, T)
  BY <1>3, <1>4, SamePromotions DEF ExprHolds
<1>5. \A op, T : OperatorFits(op, T)' <=> OperatorFits(op, T)
  BY DEF OperatorFits
<1>6. ASSUME st.kind \in {"def", "assign", "increment"}
      PROVE  st.var \in Vars /\ VarType(<<i, "lhs">>, st.var)' = VarType(<<i, "lhs">>, st.var)
  <2>1. st.var \in Vars
    BY <1>6, StatementFields
  <2>2. st.var \in VarsAt(<<i, "lhs">>) /\ <<i, "lhs">> \in PlacesOf(i)
    BY <1>1, <1>6, StatementPlaces DEF VarIn, PlacesOf
  <2> QED BY <1>1, <1>6, <2>1, <2>2
<1>7. CASE st.kind = "func"
  BY <1>1, <1>2, <1>7, StatementFields DEF StatementHolds
<1>8. CASE st.kind = "def"
  <2>1. ExprIn(st) = st.init
    BY <1>8 DEF ExprIn
  <2>2. PICK T : T = VarType(<<i, "lhs">>, st.var) /\ T = VarType(<<i, "lhs">>, st.var)'
    BY <1>6, <1>8
  <2>3. StatementHolds(i) <=> IF st.init = None THEN T # None ELSE ExprHolds(i, st.init, T)
    BY <1>1, <1>8, <2>2 DEF StatementHolds
  <2>4. StatementHolds(i)' <=> IF st.init = None THEN T # None ELSE ExprHolds(i, st.init, T)'
    BY <1>2, <1>8, <2>2 DEF StatementHolds
  <2> QED BY <1>4, <2>1, <2>3, <2>4
<1>9. CASE st.kind = "assign"
  <2>1. ExprIn(st) = st.rhs /\ st.rhs # None
    BY <1>9, StatementFields, ExprFields DEF ExprIn
  <2>2. PICK T : T = VarType(<<i, "lhs">>, st.var) /\ T = VarType(<<i, "lhs">>, st.var)'
    BY <1>6, <1>9
  <2>3. StatementHolds(i) <=> ExprHolds(i, st.rhs, T) /\ OperatorFits(st.op, T)
    BY <1>1, <1>9, <2>2 DEF StatementHolds
  <2>4. StatementHolds(i)' <=> ExprHolds(i, st.rhs, T)' /\ OperatorFits(st.op, T)
    BY <1>2, <1>5, <1>9, <2>2 DEF StatementHolds
  <2> QED BY <1>4, <2>1, <2>3, <2>4
<1>10. CASE st.kind = "increment"
  BY <1>1, <1>2, <1>6, <1>10 DEF StatementHolds, OperatorFits
<1>11. CASE st.kind = "if"
  <2>1. ExprIn(st) = st.cond /\ st.cond # None
    BY <1>11, StatementFields, ExprFields DEF ExprIn
  <2>2. ExprHolds(i, st.cond, Basic("Bool"))' <=> ExprHolds(i, st.cond, Basic("Bool"))
    BY <1>4, <2>1
  <2> QED BY <1>1, <1>2, <1>11, <2>2 DEF StatementHolds
<1>12. CASE st.kind = "repeat"
  <2>1. ExprIn(st) = st.count /\ st.count # None
    BY <1>12, StatementFields, ExprFields DEF ExprIn
  <2>2. ExprHolds(i, st.count, Basic("Int"))' <=> ExprHolds(i, st.count, Basic("Int"))
    BY <1>4, <2>1
  <2> QED BY <1>1, <1>2, <1>12, <2>2 DEF StatementHolds
<1>13. CASE st.kind = "call"
  <2>1. ExprIn(st) = st /\ st # None /\ st.func \in Funcs
    BY <1>13, StatementFields, ExprFields DEF ExprIn
  <2>2. CallHolds(i, st)' <=> CallHolds(i, st)
    BY <1>3, <1>13, <2>1 DEF PartsHold
  <2> QED BY <1>1, <1>2, <1>13, <2>1, <2>2 DEF StatementHolds
<1>14. CASE st.kind = "return"
  <2>1. ExprIn(st) = st.expr /\ st.expr # None /\ st.func \in Funcs
    BY <1>14, StatementFields, ExprFields DEF ExprIn
  <2>2. PICK T : T = cell[RetCell(st.func)] /\ T = cell'[RetCell(st.func)]
    BY <2>1
  <2>3. StatementHolds(i) <=> ExprHolds(i, st.expr, T)
    BY <1>1, <1>14, <2>2 DEF StatementHolds
  <2>4. StatementHolds(i)' <=> ExprHolds(i, st.expr, T)'
    BY <1>2, <1>14, <2>2 DEF StatementHolds
  <2> QED BY <1>4, <2>1, <2>3, <2>4
<1> QED BY <1>2, <1>7, <1>8, <1>9, <1>10, <1>11, <1>12, <1>13, <1>14 DEF StatementKinds

-----------------------------------------------------------------------------
(* What a visit has checked when it meets nothing unresolved. *)

LEMMA CheckedExpr ==
  ASSUME TypeOK, NEW i, NEW e, Within(i, e), status = "visiting",
         Verdict(i, e) = status, ~ExprIsOpen(i, e)
  PROVE  /\ ExprType(i, e) # None
         /\ PartsHold(i, e)
         /\ ~OpenArray(i)
         /\ \A v \in Vars :
              /\ v \in VarsAt(<<i, "rhs">>) => VarType(<<i, "rhs">>, v) # None
              /\ v \in VarsAt(SecondPlace(i)) => VarType(SecondPlace(i), v) # None
<1> DEFINE first == <<i, "rhs">>
           second == SecondPlace(i)
<1>1. /\ i \in DOMAIN program /\ e = ExprIn(program[i]) /\ e # None /\ e \in Exprs
      /\ program[i].kind # "func"
  BY WithinFacts DEF Within
<1>2. /\ VarsAt(first) = VarOf(FirstOf(e))
      /\ VarsAt(second) = IF Called(e) # {} THEN VarOf(Argument(e)) ELSE VarOf(SecondOf(e))
  BY <1>1, StatementPlaces
<1>3. ASSUME NEW o, NEW a \in Atoms, AtomType(o, a) # None
      PROVE  \A v \in VarOf(a) : VarType(o, v) # None
  BY <1>3, AtomFields DEF AtomType, VarOf
<1>4. VarOf(None) = {}
  BY DEF VarOf
<1> HIDE DEF first, second
<1>5. CASE e.kind = "call"
  <2>1. /\ ArgType(i, e) # None /\ cell[SlotCell(e.func)] # None /\ cell[RetCell(e.func)] # None
    BY <1>5 DEF ExprIsOpen, CallIsOpen
  <2>2. Argument(e) # None /\ CanPromote(ArgType(i, e), cell[SlotCell(e.func)])
    BY <1>5, <2>1 DEF Verdict, ErrorIf, CallIsWrong
  <2>3. second = ArgPlace(i, e) /\ VarsAt(second) = VarOf(Argument(e))
    BY <1>1, <1>2, <1>5 DEF second, SecondPlace, Called
  <2>4. FirstOf(e) = None
    BY <1>1, <1>5 DEF FirstOf
  <2>5. Argument(e) \in Atoms
    BY <1>5, <2>2, CallFacts
  <2>6. AtomType(second, Argument(e)) # None
    BY <2>1, <2>3 DEF ArgType
  <2>7. ~OpenArray(i)
    BY <1>1, <1>5 DEF OpenArray
  <2>8. ExprType(i, e) # None /\ PartsHold(i, e)
    BY <1>5, <2>1, <2>2 DEF ExprType, PartsHold, CallHolds, Fits
  <2>9. \A v \in VarsAt(second) : VarType(second, v) # None
    BY <1>3, <2>3, <2>5, <2>6
  <2>10. VarsAt(first) = {}
    BY <1>2, <1>4, <2>4
  <2> QED BY <2>7, <2>8, <2>9, <2>10 DEF first, second
<1>6. CASE e.kind # "call"
  <2>1. ExprType(i, e) # None
    BY <1>6 DEF ExprIsOpen
  <2>2. second = <<i, "arg">> /\ VarsAt(second) = VarOf(SecondOf(e))
    BY <1>1, <1>2, <1>6 DEF second, SecondPlace, Called
  <2>3. /\ FirstOf(e) \in Atoms
        /\ SecondOf(e) \in Atoms \cup {None}
        /\ AtomType(first, FirstOf(e)) # None
        /\ SecondOf(e) # None => AtomType(second, SecondOf(e)) # None
        /\ PartsHold(i, e)
        /\ ~OpenArray(i)
    <3>1. CASE e.kind \in {"lit", "var"}
      <4>1. FirstOf(e) = e /\ SecondOf(e) = None
        BY <1>1, <3>1 DEF FirstOf, SecondOf
      <4>2. ExprType(i, e) = FirstType(i, e)
        BY <3>1 DEF ExprType
      <4>3. PartsHold(i, e)
        BY <3>1 DEF PartsHold
      <4>4. ~OpenArray(i)
        BY <1>1, <3>1 DEF OpenArray
      <4> QED BY <1>1, <2>1, <3>1, <4>1, <4>2, <4>3, <4>4, ExprFields DEF FirstType, first
    <3>2. CASE e.kind = "binary"
      <4>1. FirstOf(e) = e.lhs /\ SecondOf(e) = e.rhs /\ e.lhs \in Atoms /\ e.rhs \in Atoms
        BY <1>1, <3>2, ExprFields DEF FirstOf, SecondOf
      <4>2. FirstType(i, e.lhs) # None /\ SecondType(i, e.rhs) # None
        BY <2>1, <3>2 DEF ExprType
      <4>3. CommonType(FirstType(i, e.lhs), SecondType(i, e.rhs)) # None
        BY <3>2, <4>2 DEF Verdict, BinaryVerdict
      <4>4. PartsHold(i, e)
        BY <3>2, <4>2, <4>3 DEF PartsHold, CommonType, Fits, CanPromote, IsSubtypeOf
      <4>5. ~OpenArray(i)
        BY <1>1, <3>2 DEF OpenArray
      <4> QED BY <2>2, <4>1, <4>2, <4>4, <4>5 DEF FirstType, SecondType, first
    <3>3. CASE e.kind = "unary"
      <4>1. FirstOf(e) = e.rhs /\ SecondOf(e) = None /\ e.rhs \in Atoms
        BY <1>1, <3>3, ExprFields DEF FirstOf, SecondOf
      <4>2. ExprType(i, e) = FirstType(i, e.rhs) /\ PartsHold(i, e)
        BY <3>3 DEF ExprType, PartsHold
      <4>3. ~OpenArray(i)
        BY <1>1, <3>3 DEF OpenArray
      <4> QED BY <2>1, <4>1, <4>2, <4>3 DEF FirstType, first
    <3>4. CASE e.kind = "array"
      <4>1. FirstOf(e) = e.first /\ SecondOf(e) = e.second /\ e.first \in Atoms /\ e.second \in Atoms
        BY <1>1, <3>4, ExprFields DEF FirstOf, SecondOf
      <4>2. FirstType(i, e.first) # None /\ SecondType(i, e.second) # None
        BY <2>1, <3>4 DEF ExprType
      <4>3. CanPromote(SecondType(i, e.second), FirstType(i, e.first))
        BY <3>4, <4>2 DEF Verdict, ErrorIf
      <4>4. PartsHold(i, e)
        BY <3>4, <4>2, <4>3 DEF PartsHold, Fits
      <4>5. ~OpenArray(i)
        BY <1>1, <3>4 DEF OpenArray
      <4> QED BY <2>2, <4>1, <4>2, <4>4, <4>5 DEF FirstType, SecondType, first
    <3>5. CASE e.kind = "subscr"
      <4> DEFINE array == [kind |-> "var", var |-> e.array]
      <4>1. FirstOf(e) = array /\ SecondOf(e) = e.subscript /\ e.subscript \in Atoms
        BY <1>1, <3>5, ExprFields DEF FirstOf, SecondOf
      <4>2. array \in Atoms /\ array # None
        BY <1>1, <3>5, ExprFields, AtomFields DEF Atoms
      <4>3. VarType(first, e.array) \in Arrays /\ SecondType(i, e.subscript) # None
        BY <2>1, <3>5 DEF ExprType, first
      <4>4. VarType(first, e.array) # None
        BY <4>3, TypeFacts
      <4>5. AtomType(first, array) # None
        BY <4>2, <4>4 DEF AtomType
      <4>6. PartsHold(i, e)
        BY <3>5, <4>3, <4>4 DEF PartsHold, Verdict, ErrorIf, first
      <4>7. ~OpenArray(i)
        BY <1>1, <3>5, <4>4 DEF OpenArray, first
      <4> HIDE DEF array
      <4> QED BY <2>2, <4>1, <4>2, <4>3, <4>5, <4>6, <4>7 DEF SecondType
    <3> QED BY <1>1, <1>6, <3>1, <3>2, <3>3, <3>4, <3>5, ExprFields
  <2>4. \A v \in VarsAt(first) : VarType(first, v) # None
    BY <1>2, <1>3, <2>3
  <2>5. \A v \in VarsAt(second) : VarType(second, v) # None
    BY <1>3, <1>4, <2>2, <2>3
  <2> QED BY <2>1, <2>3, <2>4, <2>5 DEF first, second
<1> QED BY <1>5, <1>6

-----------------------------------------------------------------------------
(* Every visit preserves the invariant. *)

(***************************************************************************)
(* A visit types identifiers that had no type, as their variables are      *)
(* typed, changes the type of no variable but a parameter, and says when   *)
(* it met something unresolved.  What was checked before it stays so.      *)
(***************************************************************************)
LEMMA VisitPreserves ==
  ASSUME InferInv, NEW n \in DOMAIN program, n = next,
         program' = program, hspCompat' = hspCompat,
         TypeOK', BoundsInv',
         \A o \in Occurrences : occ[o] # None => occ'[o] = occ[o],
         \A o \in Occurrences, v \in Vars \ Params :
           v \in VarsAt(o) => occ'[o] \in {occ[o], VarType(o, v)},
         \A v \in Vars \ Params : cell'[VarCell(v)] = cell[VarCell(v)],
         \A f \in Funcs : /\ cell'[SlotCell(f)] = cell[SlotCell(f)]
                          /\ cell'[RetCell(f)] = cell[RetCell(f)],
         next' > next, next' = next + 1 \/ (posKnown' /\ unresolved'),
         status = "visiting", status' # "done",
         posKnown => posKnown', unresolved => unresolved',
         program[next].kind = "func" /\ FuncIsOpen(program[next].func) => posKnown',
         unresolved' /\ ~posKnown' =>
           \/ unresolved
           \/ \E h \in DOMAIN program : program[h].kind = "func" /\ FuncIsOpen(program[h].func),
         status' = "visiting" /\ ~unresolved' => StatementHolds(n)' /\ IsSettled(n)'
  PROVE  InferInv'
<1>1. TypeOK /\ OccurrencesInv /\ PositionInv /\ VisitedInv
  BY DEF InferInv
<1>2. /\ \A i \in DOMAIN program : PlacesOf(i) \subseteq Occurrences
      /\ \A i : PlacesOf(i)' = PlacesOf(i)
      /\ \A o : VarsAt(o)' = VarsAt(o)
      /\ Occurrences' = Occurrences
  BY <1>1, StatementPlaces, SameProgram
<1>3. OccurrencesInv'
  <2>1. \A o \in Occurrences, v \in Vars \ Params :
          v \in VarsAt(o) /\ occ'[o] # None => occ'[o] = cell'[VarCell(v)]
    BY <1>1 DEF OccurrencesInv, VarType
  <2> QED BY <1>2, <2>1 DEF OccurrencesInv
<1>4. PositionInv'
  <2>1. \A h \in DOMAIN program : program[h].kind = "func" =>
          (FuncIsOpen(program[h].func)' <=> FuncIsOpen(program[h].func))
    <3>1. \A h \in DOMAIN program : program[h].kind = "func" => program[h].func \in Funcs
      BY <1>1, ProgramFacts, StatementFields
    <3> QED BY <3>1 DEF FuncIsOpen
  <2>2. \A h \in DOMAIN program :
          program[h].kind = "func" /\ h < next' /\ FuncIsOpen(program[h].func) => posKnown'
    <3> SUFFICES ASSUME NEW h \in DOMAIN program, program[h].kind = "func", h < next',
                        FuncIsOpen(program[h].func), next' = next + 1
                 PROVE  posKnown'
      OBVIOUS
    <3>1. h < next \/ h = next
      BY <1>1, ProgramFacts DEF TypeOK
    <3> QED BY <1>1, <3>1 DEF PositionInv
  <2>3. unresolved' /\ ~posKnown' =>
          \E h \in DOMAIN program : program[h].kind = "func" /\ FuncIsOpen(program[h].func)
    BY <1>1 DEF PositionInv
  <2> HIDE DEF FuncIsOpen
  <2> QED BY <2>1, <2>2, <2>3 DEF PositionInv
<1>5. VisitedInv'
  <2> SUFFICES ASSUME status' = "visiting", ~unresolved', NEW i \in DOMAIN program, i < next'
               PROVE  StatementHolds(i)' /\ IsSettled(i)'
    BY DEF VisitedInv
  <2>1. i < next \/ i = n
    BY <1>1, ProgramFacts DEF TypeOK
  <2>2. CASE i = n
    BY <2>2
  <2>3. CASE i < next
    <3>1. StatementHolds(i) /\ IsSettled(i)
      BY <1>1, <2>3 DEF VisitedInv
    <3>2. program[i].kind # "func" =>
            \A o \in PlacesOf(i), v \in Vars : v \in VarsAt(o) => occ[o] # None /\ occ'[o] = occ[o]
      BY <1>2, <3>1 DEF IsSettled
    <3>3. program[i].kind # "func" =>
            \A o \in PlacesOf(i), v \in Vars : v \in VarsAt(o) => VarType(o, v)' = VarType(o, v)
      BY <3>2 DEF VarType
    <3>4. StatementHolds(i)'
      BY <1>1, <3>1, <3>3, KeptStatement
    <3>5. IsSettled(i)'
      BY <1>2, <3>2 DEF IsSettled
    <3> QED BY <3>4, <3>5
  <2> QED BY <2>1, <2>2, <2>3
<1> QED BY <1>3, <1>4, <1>5 DEF InferInv

LEMMA VerdictStatus ==
  ASSUME NEW i, NEW e, status = "visiting"
  PROVE  Verdict(i, e) \in {"visiting", "error", "abort"}
<1>1. \A op, l, r : BinaryVerdict(op, l, r) \in {"visiting", "error", "abort"}
  BY DEF BinaryVerdict
<1>2. \A wrong : ErrorIf(wrong) \in {"visiting", "error"}
  BY DEF ErrorIf
<1> HIDE DEF BinaryVerdict, ErrorIf
<1> QED BY <1>1, <1>2 DEF Verdict

\* A visit that meets something unresolved where there is a type of a function
\* to be found, and the function's definition is met or will be.
LEMMA CallPosition ==
  ASSUME TypeOK, NEW i, NEW e, Within(i, e), ExprIsOpen(i, e), ~ExprHasPos(i, e)
  PROVE  \E h \in DOMAIN program : program[h].kind = "func" /\ FuncIsOpen(program[h].func)
<1>1. e.kind = "call" /\ cell[SlotCell(e.func)] = None
  BY DEF ExprIsOpen, ExprHasPos, CallIsOpen, CallHasPos, ExprType
<1>2. Defines(program, HeaderOf(e.func), e.func)
  BY <1>1, CallFacts
<1> QED BY <1>1, <1>2 DEF Defines, FuncIsOpen

\* What is said of each statement that takes no part in the definition of a
\* function: what VisitPreserves needs follows.
LEMMA StatementPreserves ==
  ASSUME InferInv, NEW n \in DOMAIN program, n = next, program[n].kind # "func",
         widened' \subseteq Nat,
         program' = program, hspCompat' = hspCompat, cell' = cell, occ' = Remembered(n),
         NEW bounds, BoundsOK(bounds, n), con' = bounds,
         status = "visiting", status' \in {"visiting", "error", "abort"},
         status' = "visiting" => ~IsBroken(bounds),
         posKnown' \in BOOLEAN, unresolved' \in BOOLEAN,
         posKnown => posKnown', unresolved => unresolved',
         next' \in Nat, next' > n, next' = n + 1 \/ (posKnown' /\ unresolved'),
         unresolved' /\ ~posKnown' =>
           \/ unresolved
           \/ \E h \in DOMAIN program : program[h].kind = "func" /\ FuncIsOpen(program[h].func),
         status' = "visiting" /\ ~unresolved' =>
           /\ StatementHolds(n)
           /\ ~OpenArray(n)
           /\ \A o \in PlacesOf(n), v \in Vars : v \in VarsAt(o) => VarType(o, v) # None
  PROVE  InferInv'
<1>1. TypeOK
  BY DEF InferInv
<1>2. /\ Remembered(n) \in [Occurrences -> MaybeType]
      /\ \A o \in Occurrences : occ[o] # None => Remembered(n)[o] = occ[o]
      /\ \A o \in Occurrences, v \in Vars :
           v \in VarsAt(o) => Remembered(n)[o] \in {occ[o], VarType(o, v)}
      /\ \A o \in Occurrences, v \in Vars :
           <<o, v>> \in Identifiers(n) => Remembered(n)[o] = VarType(o, v)
  BY <1>1, RememberedFacts
<1>3. TypeOK'
  <2>1. Occurrences' = Occurrences
    BY SameProgram
  <2>2. next' \in Nat \ {0}
    BY <1>1 DEF TypeOK
  <2>3. con' \in [Cells -> Bounds \cup {None, Broken}]
    BY DEF BoundsOK
  <2> QED BY <1>1, <1>2, <2>1, <2>2, <2>3 DEF TypeOK
<1>4. BoundsInv'
  <2>1. \A c : Bindable(c, n) => Bindable(c, next)'
    <3>1. n \in Nat /\ 1..(n - 1) \subseteq 1..(next' - 1)
      BY <1>1, ProgramFacts
    <3> QED BY <3>1 DEF Bindable
  <2>2. BoundsOK(con, next)'
    BY <2>1 DEF BoundsOK
  <2>3. IsBroken(con)' <=> IsBroken(bounds)
    BY DEF IsBroken
  <2> QED BY <2>2, <2>3 DEF BoundsInv
<1>5. status' = "visiting" /\ ~unresolved' => StatementHolds(n)' /\ IsSettled(n)'
  <2> SUFFICES ASSUME status' = "visiting", ~unresolved'
               PROVE  StatementHolds(n)' /\ IsSettled(n)'
    OBVIOUS
  <2>1. PlacesOf(n) \subseteq Occurrences
    BY <1>1, StatementPlaces
  <2>2. \A o \in PlacesOf(n), v \in Vars : v \in VarsAt(o) => VarType(o, v)' = VarType(o, v)
    BY <1>1, <2>1, VisitKeepsTypes
  <2>3. StatementHolds(n)'
    BY <1>1, <2>2, KeptStatement
  <2>4. \A o \in PlacesOf(n), v \in Vars : v \in VarsAt(o) => occ'[o] # None
    BY <1>1, <1>2, <2>1, IdentifierPlaces
  <2>5. IsSettled(n)'
    BY <2>4, SameProgram DEF IsSettled
  <2> QED BY <2>3, <2>5
<1>6. n \in Nat /\ n < next'
  BY <1>1, ProgramFacts
<1>7. \A o \in Occurrences, v \in Vars \ Params :
        v \in VarsAt(o) => occ'[o] \in {occ[o], VarType(o, v)}
  BY <1>2
<1>8. \A o \in Occurrences : occ[o] # None => occ'[o] = occ[o]
  BY <1>2
<1> QED BY <1>3, <1>4, <1>5, <1>6, <1>7, <1>8, VisitPreserves

LEMMA WithoutExpr ==
  ASSUME TypeOK, NEW n \in DOMAIN program, program[n].kind # "func", ExprIn(program[n]) = None
  PROVE  ~OpenArray(n) /\ VarsAt(<<n, "rhs">>) = {} /\ VarsAt(SecondPlace(n)) = {}
<1>1. /\ Called(None) = {} /\ VarOf(None) = {} /\ FirstOf(None) = None /\ SecondOf(None) = None
  BY DEF Called, VarOf, FirstOf, SecondOf
<1> QED BY <1>1, StatementPlaces DEF OpenArray

LEMMA NoVariable ==
  ASSUME TypeOK, NEW n \in DOMAIN program,
         program[n].kind \notin {"def", "assign", "increment"}
  PROVE  VarsAt(<<n, "lhs">>) = {}
BY StatementPlaces DEF VarIn

LEMMA VariableTyped ==
  ASSUME TypeOK, NEW n \in DOMAIN program, n = next,
         program[n].kind \in {"def", "assign", "increment"}
  PROVE  /\ program[n].var \in Vars
         /\ LhsType \in MaybeType
         /\ LhsType = None => cell[VarCell(program[n].var)] = None
         /\ \A v \in VarsAt(<<n, "lhs">>) : VarType(<<n, "lhs">>, v) = LhsType
<1>1. program[n].var \in Vars
  BY ProgramFacts, StatementFields
<1>2. <<n, "lhs">> \in Occurrences
  BY ProgramFacts DEF Roles
<1>3. VarsAt(<<n, "lhs">>) = {program[n].var}
  BY StatementPlaces DEF VarIn
<1> QED BY <1>1, <1>2, <1>3, Places DEF LhsType, VarType, TypeOK

LEMMA VarDefPreserves ==
  ASSUME InferInv, VisitVarDef, widened' \subseteq Nat
  PROVE  InferInv'
<1> DEFINE n == next
<1>1. TypeOK /\ BoundsOK(con, n) /\ ~IsBroken(con) /\ status = "visiting"
  BY DEF InferInv, BoundsInv, VisitVarDef, Visiting
<1>2. n \in DOMAIN program /\ program[n].kind = "def" /\ n \in Nat
  BY <1>1, ProgramFacts DEF VisitVarDef, Visiting, TypeOK
<1>3. ExprIn(program[n]) = None
  BY <1>2 DEF ExprIn, VisitVarDef
<1>4. /\ ~OpenArray(n)
      /\ LhsType # None => \A o \in PlacesOf(n), v \in Vars : v \in VarsAt(o) => VarType(o, v) # None
  BY <1>1, <1>2, <1>3, WithoutExpr, VariableTyped DEF PlacesOf
<1>5. LhsType # None => StatementHolds(n)
  BY <1>2 DEF StatementHolds, LhsType, VisitVarDef
<1>6. /\ con' = con /\ status' = status /\ unresolved' = (unresolved \/ LhsType = None)
      /\ posKnown' = (posKnown \/ LhsType = None) /\ next' = n + 1
  BY <1>1 DEF VisitVarDef, Leave
<1>7. posKnown \in BOOLEAN /\ unresolved \in BOOLEAN
  BY <1>1 DEF TypeOK
<1>8. /\ program' = program /\ hspCompat' = hspCompat /\ cell' = cell /\ occ' = Remembered(n)
  BY DEF VisitVarDef
<1> HIDE DEF n
<1>9. posKnown' \in BOOLEAN /\ unresolved' \in BOOLEAN /\ next' \in Nat /\ next' > n
  BY <1>2, <1>6, <1>7
<1> QED BY <1>1, <1>2, <1>4, <1>5, <1>6, <1>8, <1>9, StatementPreserves DEF n

LEMMA IncrementPreserves ==
  ASSUME InferInv, VisitIncrement, widened' \subseteq Nat
  PROVE  InferInv'
<1> DEFINE n == next
           wrong == LhsType # None /\ ~OperatorFits("++", LhsType)
<1>1. TypeOK /\ BoundsOK(con, n) /\ ~IsBroken(con) /\ status = "visiting"
  BY DEF InferInv, BoundsInv, VisitIncrement, Visiting
<1>2. n \in DOMAIN program /\ program[n].kind = "increment" /\ n \in Nat
  BY <1>1, ProgramFacts DEF VisitIncrement, Visiting, TypeOK
<1>3. ExprIn(program[n]) = None
  BY <1>2 DEF ExprIn
<1>4. /\ ~OpenArray(n)
      /\ LhsType # None => \A o \in PlacesOf(n), v \in Vars : v \in VarsAt(o) => VarType(o, v) # None
  BY <1>1, <1>2, <1>3, WithoutExpr, VariableTyped DEF PlacesOf
<1>5. LhsType # None /\ ~wrong => StatementHolds(n)
  BY <1>2 DEF StatementHolds, LhsType
<1>6. /\ con' = con /\ status' = (IF wrong THEN "error" ELSE status)
      /\ unresolved' = (unresolved \/ LhsType = None)
      /\ posKnown' = (posKnown \/ LhsType = None) /\ next' = n + 1
  BY <1>1 DEF VisitIncrement, Leave
<1>7. posKnown \in BOOLEAN /\ unresolved \in BOOLEAN
  BY <1>1 DEF TypeOK
<1>8. /\ program' = program /\ hspCompat' = hspCompat /\ cell' = cell /\ occ' = Remembered(n)
  BY DEF VisitIncrement
<1> HIDE DEF n, wrong
<1>9. posKnown' \in BOOLEAN /\ unresolved' \in BOOLEAN /\ next' \in Nat /\ next' > n
  BY <1>2, <1>6, <1>7
<1>10. /\ status' \in {"visiting", "error", "abort"}
       /\ status' = "visiting" => ~wrong
  BY <1>1, <1>6
<1> QED BY <1>1, <1>2, <1>4, <1>5, <1>6, <1>8, <1>9, <1>10, StatementPreserves DEF n

(***************************************************************************)
(* A visit of a statement with an expression.  fits is what else is true   *)
(* of the statement when the visit does not fail, open what else in it     *)
(* may have no type.                                                       *)
(***************************************************************************)
LEMMA ExprPreserves ==
  ASSUME InferInv, NEW n \in DOMAIN program, n = next, status = "visiting",
         widened' \subseteq Nat,
         NEW e, Within(n, e),
         program' = program, hspCompat' = hspCompat, cell' = cell, occ' = Remembered(n),
         NEW bounds, BoundsOK(bounds, n), con' = bounds,
         NEW wrong \in BOOLEAN, NEW open \in BOOLEAN,
         status' = IF Verdict(n, e) # status THEN Verdict(n, e)
                   ELSE IF IsBroken(bounds) THEN "abort"
                   ELSE IF wrong THEN "error" ELSE status,
         unresolved' = (unresolved \/ ExprIsOpen(n, e) \/ open),
         posKnown' = (posKnown \/ ExprHasPos(n, e) \/ open),
         next' \in Nat, next' > n, next' = n + 1 \/ ExprType(n, e) = None,
         program[n].kind \in {"def", "assign", "increment"} /\ ~open => LhsType # None,
         ~wrong /\ ~open /\ ~ExprIsOpen(n, e) /\ ExprType(n, e) # None /\ PartsHold(n, e) =>
           StatementHolds(n)
  PROVE  InferInv'
<1>1. TypeOK /\ program[n].kind # "func"
  BY WithinFacts DEF InferInv
<1>2. Verdict(n, e) \in {"visiting", "error", "abort"}
  BY VerdictStatus
<1>3. /\ status' \in {"visiting", "error", "abort"}
      /\ status' = "visiting" => Verdict(n, e) = status /\ ~IsBroken(bounds) /\ ~wrong
  BY <1>2
<1>4. ExprType(n, e) = None => ExprIsOpen(n, e) /\ ExprHasPos(n, e)
  BY DEF ExprIsOpen, ExprHasPos, CallIsOpen, ExprType
<1>5. unresolved' /\ ~posKnown' =>
        \/ unresolved
        \/ \E h \in DOMAIN program : program[h].kind = "func" /\ FuncIsOpen(program[h].func)
  BY <1>1, CallPosition
<1>6. ASSUME status' = "visiting", ~unresolved'
      PROVE  /\ StatementHolds(n)
             /\ ~OpenArray(n)
             /\ \A o \in PlacesOf(n), v \in Vars : v \in VarsAt(o) => VarType(o, v) # None
  <2>1. /\ ExprType(n, e) # None /\ PartsHold(n, e) /\ ~OpenArray(n)
        /\ \A v \in Vars :
             /\ v \in VarsAt(<<n, "rhs">>) => VarType(<<n, "rhs">>, v) # None
             /\ v \in VarsAt(SecondPlace(n)) => VarType(SecondPlace(n), v) # None
    BY <1>1, <1>3, <1>6, CheckedExpr
  <2>2. \A v \in VarsAt(<<n, "lhs">>) : VarType(<<n, "lhs">>, v) # None
    BY <1>1, <1>6, NoVariable, VariableTyped
  <2>3. StatementHolds(n)
    BY <1>3, <1>6, <2>1
  <2> QED BY <2>1, <2>2, <2>3 DEF PlacesOf
<1>7. posKnown' \in BOOLEAN /\ unresolved' \in BOOLEAN
  BY <1>1 DEF TypeOK, ExprIsOpen, ExprHasPos, CallIsOpen, CallHasPos
<1>8. next' = n + 1 \/ (posKnown' /\ unresolved')
  BY <1>4
<1>9. /\ posKnown => posKnown'
      /\ unresolved => unresolved'
  OBVIOUS
<1> QED BY <1>1, <1>3, <1>5, <1>6, <1>7, <1>8, <1>9, StatementPreserves

LEMMA AssignPreserves ==
  ASSUME InferInv, NEW n \in DOMAIN program, n = next, status = "visiting",
         widened' \subseteq Nat,
         program[n].kind \in {"def", "assign"}, NEW e, Within(n, e),
         NEW wrong \in BOOLEAN, AssignTo(e, wrong), IsMismatch(e) => wrong,
         ~wrong /\ ExprHolds(n, e, LhsType) => StatementHolds(n)
  PROVE  InferInv'
<1>1. TypeOK /\ BoundsOK(con, n)
  BY DEF InferInv, BoundsInv
<1>2. /\ program[n].var \in Vars /\ LhsType \in MaybeType
      /\ LhsType = None => cell[VarCell(program[n].var)] = None
  BY <1>1, VariableTyped
<1>3. ExprType(n, e) \in MaybeType
  BY <1>1, ExprTypes
<1>4. BoundsOK(WithExpr(n, e), n)
  BY <1>1, WithExprOK
<1>5. LhsType # None => BoundsOK(WithExpected(n, e, LhsType), n)
  BY <1>1, <1>2, WithExpectedOK DEF MaybeType
<1>6. LhsType = None => Target \in Cells /\ Bindable(Target, n)
  <2>1. program[n].kind = "def" =>
          \A f \in Funcs : ParamOf[f] # program[n].var
    BY <1>1, ResolvedAssumption DEF TypeOK
  <2>2. program[n].kind = "assign" => program[n].var \in UsedBy(program[n])
    BY DEF UsedBy, VarIn
  <2>3. CASE program[n].kind = "def"
    BY <1>2, <2>1, <2>3, Places DEF Target, Bindable
  <2>4. CASE program[n].kind = "assign"
    BY <1>1, <1>2, <2>2, <2>4, VarBindable DEF Target
  <2> QED BY <2>3, <2>4
<1>7. LhsType = None /\ ExprType(n, e) # None =>
        BoundsOK(Add(WithExpr(n, e), Target, ExprType(n, e)), n)
  BY <1>3, <1>4, <1>6, AddOK DEF MaybeType
<1>8. BoundsOK(Assigned(e), n)
  BY <1>4, <1>5, <1>7 DEF Assigned
<1> DEFINE open == LhsType = None
<1>9. /\ con' = Assigned(e)
      /\ status' = IF Verdict(n, e) # status THEN Verdict(n, e)
                   ELSE IF IsBroken(Assigned(e)) THEN "abort"
                   ELSE IF wrong THEN "error" ELSE status
      /\ unresolved' = (unresolved \/ ExprIsOpen(n, e) \/ open)
      /\ posKnown' = (posKnown \/ ExprHasPos(n, e) \/ open)
      /\ next' = n + 1
      /\ program' = program /\ hspCompat' = hspCompat /\ cell' = cell /\ occ' = Remembered(n)
  BY DEF AssignTo, Leave
<1>10. next' \in Nat /\ next' > n
  BY <1>1, <1>9, ProgramFacts
<1>11. ~wrong /\ ~open /\ ~ExprIsOpen(n, e) /\ ExprType(n, e) # None /\ PartsHold(n, e) =>
         StatementHolds(n)
  BY DEF IsMismatch, IsUnexpected, ExprHolds, Fits
<1>12. open \in BOOLEAN /\ (~open => LhsType # None)
  OBVIOUS
<1> HIDE DEF open
<1> QED BY <1>8, <1>9, <1>10, <1>11, <1>12, ExprPreserves

LEMMA VarDefInitPreserves ==
  ASSUME InferInv, VisitVarDefInit, widened' \subseteq Nat
  PROVE  InferInv'
<1>1. PICK n : n = next
  OBVIOUS
<1>2. TypeOK /\ status = "visiting"
  BY DEF InferInv, VisitVarDefInit, Visiting
<1>3. n \in DOMAIN program /\ program[n].kind = "def" /\ program[n].init # None
  BY <1>1, <1>2, ProgramFacts DEF VisitVarDefInit, Visiting, TypeOK
<1>4. PICK e : e = program[n].init
  OBVIOUS
<1>5. Within(n, e)
  BY <1>3, <1>4 DEF Within, ExprIn
<1>6. PICK wrong \in BOOLEAN : wrong = IsMismatch(e)
  BY DEF IsMismatch
<1>7. AssignTo(e, wrong)
  BY <1>1, <1>4, <1>6 DEF VisitVarDefInit
<1>8. ExprHolds(n, e, LhsType) => StatementHolds(n)
  BY <1>1, <1>3, <1>4 DEF StatementHolds, LhsType
<1> QED BY <1>1, <1>2, <1>3, <1>5, <1>6, <1>7, <1>8, AssignPreserves

LEMMA AssignStatementPreserves ==
  ASSUME InferInv, VisitAssign, widened' \subseteq Nat
  PROVE  InferInv'
<1>1. PICK n : n = next
  OBVIOUS
<1>2. TypeOK /\ status = "visiting"
  BY DEF InferInv, VisitAssign, Visiting
<1>3. n \in DOMAIN program /\ program[n].kind = "assign"
  BY <1>1, <1>2, ProgramFacts DEF VisitAssign, Visiting, TypeOK
<1>4. PICK e : e = program[n].rhs
  OBVIOUS
<1>5. Within(n, e)
  BY <1>3, <1>4, ProgramFacts, StatementFields, ExprFields, <1>2 DEF Within, ExprIn
<1>6. PICK wrong \in BOOLEAN :
        wrong = (\/ IsMismatch(e)
                 \/ /\ LhsType # None /\ ExprType(n, e) # None
                    /\ ~OperatorFits(program[n].op, LhsType))
  OBVIOUS
<1>7. AssignTo(e, wrong)
  BY <1>1, <1>4, <1>6 DEF VisitAssign
<1>8. ~wrong /\ ExprHolds(n, e, LhsType) => StatementHolds(n)
  BY <1>1, <1>3, <1>4, <1>6 DEF StatementHolds, LhsType, ExprHolds, Fits
<1> QED BY <1>1, <1>2, <1>3, <1>5, <1>6, <1>7, <1>8, AssignPreserves

LEMMA IfPreserves ==
  ASSUME InferInv, VisitIf, widened' \subseteq Nat
  PROVE  InferInv'
<1>1. PICK n : n = next
  OBVIOUS
<1>2. TypeOK /\ BoundsOK(con, n) /\ status = "visiting"
  BY <1>1 DEF InferInv, BoundsInv, VisitIf, Visiting
<1>3. n \in DOMAIN program /\ program[n].kind = "if" /\ n \in Nat
  BY <1>1, <1>2, ProgramFacts DEF VisitIf, Visiting, TypeOK
<1>4. PICK e : e = program[n].cond
  OBVIOUS
<1>5. Within(n, e)
  BY <1>2, <1>3, <1>4, ProgramFacts, StatementFields, ExprFields DEF Within, ExprIn
<1>6. Basic("Bool") \in Types
  BY TypeFacts DEF BuiltIns
<1>7. PICK bounds : bounds = WithExpected(n, e, Basic("Bool"))
  OBVIOUS
<1>8. BoundsOK(bounds, n)
  BY <1>2, <1>5, <1>6, <1>7, WithExpectedOK
<1>9. PICK wrong \in BOOLEAN : wrong = IsUnexpected(n, e, Basic("Bool"))
  BY DEF IsUnexpected
<1>10. /\ con' = bounds
       /\ status' = IF Verdict(n, e) # status THEN Verdict(n, e)
                    ELSE IF IsBroken(bounds) THEN "abort"
                    ELSE IF wrong THEN "error" ELSE status
       /\ unresolved' = (unresolved \/ ExprIsOpen(n, e) \/ FALSE)
       /\ posKnown' = (posKnown \/ ExprHasPos(n, e) \/ FALSE)
       /\ next' = n + 1
       /\ program' = program /\ hspCompat' = hspCompat /\ cell' = cell /\ occ' = Remembered(n)
  BY <1>1, <1>4, <1>7, <1>9 DEF VisitIf, Leave
<1>11. ~wrong /\ ExprType(n, e) # None /\ PartsHold(n, e) => StatementHolds(n)
  BY <1>3, <1>4, <1>6, <1>9, TypeFacts DEF StatementHolds, ExprHolds, Fits, IsUnexpected
<1>12. next' \in Nat /\ next' > n
  BY <1>3, <1>10
<1>13. FALSE \in BOOLEAN /\ program[n].kind \notin {"def", "assign", "increment"}
  BY <1>3
<1> QED BY <1>1, <1>2, <1>3, <1>5, <1>8, <1>9, <1>10, <1>11, <1>12, <1>13, ExprPreserves

LEMMA RepeatPreserves ==
  ASSUME InferInv, VisitRepeat, widened' \subseteq Nat
  PROVE  InferInv'
<1>1. PICK n : n = next
  OBVIOUS
<1>2. TypeOK /\ BoundsOK(con, n) /\ status = "visiting"
  BY <1>1 DEF InferInv, BoundsInv, VisitRepeat, Visiting
<1>3. n \in DOMAIN program /\ program[n].kind = "repeat" /\ n \in Nat
  BY <1>1, <1>2, ProgramFacts DEF VisitRepeat, Visiting, TypeOK
<1>4. PICK e : e = program[n].count
  OBVIOUS
<1>5. Within(n, e)
  BY <1>2, <1>3, <1>4, ProgramFacts, StatementFields, ExprFields DEF Within, ExprIn
<1>6. Basic("Int") \in Types
  BY TypeFacts DEF BuiltIns
<1>7. PICK bounds : bounds = WithExpected(n, e, Basic("Int"))
  OBVIOUS
<1>8. BoundsOK(bounds, n)
  BY <1>2, <1>5, <1>6, <1>7, WithExpectedOK
<1>9. PICK wrong \in BOOLEAN : wrong = IsUnexpected(n, e, Basic("Int"))
  BY DEF IsUnexpected
<1>10. /\ con' = bounds
       /\ status' = IF Verdict(n, e) # status THEN Verdict(n, e)
                    ELSE IF IsBroken(bounds) THEN "abort"
                    ELSE IF wrong THEN "error" ELSE status
       /\ unresolved' = (unresolved \/ ExprIsOpen(n, e) \/ FALSE)
       /\ posKnown' = (posKnown \/ ExprHasPos(n, e) \/ FALSE)
       /\ next' = LastVisited(e) + 1
       /\ program' = program /\ hspCompat' = hspCompat /\ cell' = cell /\ occ' = Remembered(n)
  BY <1>1, <1>4, <1>7, <1>9 DEF VisitRepeat, Leave
<1>11. ~wrong /\ ExprType(n, e) # None /\ PartsHold(n, e) => StatementHolds(n)
  BY <1>3, <1>4, <1>6, <1>9, TypeFacts DEF StatementHolds, ExprHolds, Fits, IsUnexpected
<1>12. next' \in Nat /\ next' > n /\ (next' = n + 1 \/ ExprType(n, e) = None)
  <2>1. program[n].body \in Nat
    BY <1>2, <1>3, ProgramFacts, StatementFields
  <2> QED BY <1>1, <1>3, <1>10, <2>1 DEF LastVisited
<1>13. FALSE \in BOOLEAN /\ program[n].kind \notin {"def", "assign", "increment"}
  BY <1>3
<1> QED BY <1>1, <1>2, <1>3, <1>5, <1>8, <1>9, <1>10, <1>11, <1>12, <1>13, ExprPreserves

LEMMA CallPreserves ==
  ASSUME InferInv, VisitCall, widened' \subseteq Nat
  PROVE  InferInv'
<1>1. PICK n : n = next
  OBVIOUS
<1>2. TypeOK /\ BoundsOK(con, n) /\ status = "visiting"
  BY <1>1 DEF InferInv, BoundsInv, VisitCall, Visiting
<1>3. n \in DOMAIN program /\ program[n].kind = "call" /\ n \in Nat
  BY <1>1, <1>2, ProgramFacts DEF VisitCall, Visiting, TypeOK
<1>4. PICK e : e = program[n]
  OBVIOUS
<1>5. Within(n, e) /\ e.kind = "call"
  BY <1>2, <1>3, <1>4, ProgramFacts, StatementFields, ExprFields DEF Within, ExprIn
<1>6. PICK bounds : bounds = WithCall(n, e, con)
  OBVIOUS
<1>7. BoundsOK(bounds, n)
  BY <1>2, <1>5, <1>6, WithCallOK
<1>8. /\ con' = bounds
      /\ status' = IF Verdict(n, e) # status THEN Verdict(n, e)
                   ELSE IF IsBroken(bounds) THEN "abort" ELSE status
      /\ unresolved' = (unresolved \/ CallIsOpen(n, e))
      /\ posKnown' = (posKnown \/ CallHasPos(n, e))
      /\ next' = n + 1
      /\ program' = program /\ hspCompat' = hspCompat /\ cell' = cell /\ occ' = Remembered(n)
  BY <1>1, <1>4, <1>6 DEF VisitCall, Leave
<1>9. next' \in Nat /\ next' > n
  BY <1>3, <1>8
<1>10. Verdict(n, e) \in {"visiting", "error", "abort"}
  BY <1>2, VerdictStatus
<1>11. /\ status' \in {"visiting", "error", "abort"}
       /\ status' = "visiting" => Verdict(n, e) = status /\ ~IsBroken(bounds)
  BY <1>2, <1>8, <1>10
<1>12. posKnown' \in BOOLEAN /\ unresolved' \in BOOLEAN
  BY <1>2, <1>8 DEF TypeOK, CallIsOpen, CallHasPos
<1>13. unresolved' /\ ~posKnown' =>
         \/ unresolved
         \/ \E h \in DOMAIN program : program[h].kind = "func" /\ FuncIsOpen(program[h].func)
  <2> SUFFICES ASSUME CallIsOpen(n, e), ~CallHasPos(n, e)
               PROVE  \E h \in DOMAIN program :
                        program[h].kind = "func" /\ FuncIsOpen(program[h].func)
    BY <1>8
  <2>1. cell[SlotCell(e.func)] = None \/ cell[RetCell(e.func)] = None
    BY DEF CallIsOpen, CallHasPos
  <2>2. Defines(program, HeaderOf(e.func), e.func)
    BY <1>2, <1>5, CallFacts
  <2> QED BY <2>1, <2>2 DEF Defines, FuncIsOpen
<1>14. ASSUME status' = "visiting", ~unresolved'
       PROVE  /\ StatementHolds(n)
              /\ ~OpenArray(n)
              /\ \A o \in PlacesOf(n), v \in Vars : v \in VarsAt(o) => VarType(o, v) # None
  <2>1. Verdict(n, e) = status /\ ~ExprIsOpen(n, e) /\ cell[RetCell(e.func)] # None
    BY <1>5, <1>8, <1>11, <1>14 DEF ExprIsOpen, CallIsOpen
  <2>2. /\ PartsHold(n, e) /\ ~OpenArray(n)
        /\ \A v \in Vars :
             /\ v \in VarsAt(<<n, "rhs">>) => VarType(<<n, "rhs">>, v) # None
             /\ v \in VarsAt(SecondPlace(n)) => VarType(SecondPlace(n), v) # None
    BY <1>2, <1>5, <2>1, CheckedExpr
  <2>3. VarsAt(<<n, "lhs">>) = {}
    BY <1>2, <1>3, NoVariable
  <2>4. StatementHolds(n)
    BY <1>3, <1>4, <1>5, <2>1, <2>2 DEF StatementHolds, PartsHold
  <2> QED BY <2>2, <2>3, <2>4 DEF PlacesOf
<1>15. /\ program[n].kind # "func" /\ (posKnown => posKnown') /\ (unresolved => unresolved')
  BY <1>3, <1>8
<1> QED BY <1>1, <1>2, <1>3, <1>7, <1>8, <1>9, <1>11, <1>12, <1>13, <1>14, <1>15, StatementPreserves

LEMMA ReturnPreserves ==
  ASSUME InferInv, VisitReturn, widened' \subseteq Nat
  PROVE  InferInv'
<1>1. PICK n : n = next
  OBVIOUS
<1>2. TypeOK /\ BoundsOK(con, n) /\ status = "visiting"
  BY <1>1 DEF InferInv, BoundsInv, VisitReturn, Visiting
<1>3. n \in DOMAIN program /\ program[n].kind = "return" /\ n \in Nat
  BY <1>1, <1>2, ProgramFacts DEF VisitReturn, Visiting, TypeOK
<1>4. PICK e, f : e = program[n].expr /\ f = program[n].func
  OBVIOUS
<1>5. f \in Funcs /\ e \in Exprs /\ e # None /\ ExprIn(program[n]) = e
  BY <1>2, <1>3, <1>4, ProgramFacts, StatementFields, ExprFields DEF ExprIn
<1>6. Within(n, e)
  BY <1>3, <1>5 DEF Within
<1>7. PICK T : T = cell[RetCell(f)]
  OBVIOUS
<1>8. T \in MaybeType /\ ExprType(n, e) \in MaybeType /\ RetCell(f) \in Cells
  BY <1>2, <1>5, <1>6, <1>7, Places, ExprTypes DEF TypeOK
<1>9. PICK bounds : bounds = IF T # None THEN WithExpected(n, e, T)
                             ELSE IF ExprType(n, e) # None
                               THEN Add(WithExpr(n, e), RetCell(f), ExprType(n, e))
                             ELSE WithExpr(n, e)
  OBVIOUS
<1>10. BoundsOK(bounds, n)
  <2>1. T # None => BoundsOK(WithExpected(n, e, T), n)
    BY <1>2, <1>6, <1>8, WithExpectedOK DEF MaybeType
  <2>2. BoundsOK(WithExpr(n, e), n)
    BY <1>2, <1>6, WithExprOK
  <2>3. T = None => Bindable(RetCell(f), n)
    BY <1>5, <1>7, FunctionBindable
  <2>4. T = None /\ ExprType(n, e) # None =>
          BoundsOK(Add(WithExpr(n, e), RetCell(f), ExprType(n, e)), n)
    BY <1>8, <2>2, <2>3, AddOK DEF MaybeType
  <2> QED BY <1>9, <2>1, <2>2, <2>4
<1>11. PICK wrong \in BOOLEAN : wrong = (T # None /\ IsUnexpected(n, e, T))
  OBVIOUS
<1>12. PICK open \in BOOLEAN : open = (T = None)
  OBVIOUS
<1>13. /\ con' = bounds
       /\ status' = IF Verdict(n, e) # status THEN Verdict(n, e)
                    ELSE IF IsBroken(bounds) THEN "abort"
                    ELSE IF wrong THEN "error" ELSE status
       /\ unresolved' = (unresolved \/ ExprIsOpen(n, e) \/ open)
       /\ posKnown' = (posKnown \/ ExprHasPos(n, e) \/ open)
       /\ next' = n + 1
       /\ program' = program /\ hspCompat' = hspCompat /\ cell' = cell /\ occ' = Remembered(n)
  BY <1>1, <1>4, <1>7, <1>9, <1>11, <1>12 DEF VisitReturn, Leave
<1>14. ~wrong /\ ~open /\ ExprType(n, e) # None /\ PartsHold(n, e) => StatementHolds(n)
  <2>1. StatementHolds(n) <=> ExprHolds(n, e, T)
    BY <1>3, <1>4, <1>7 DEF StatementHolds
  <2> QED BY <1>11, <1>12, <2>1 DEF ExprHolds, Fits, IsUnexpected
<1>15. next' \in Nat /\ next' > n
  BY <1>3, <1>13
<1>16. program[n].kind \notin {"def", "assign", "increment"}
  BY <1>3
<1> QED BY <1>1, <1>2, <1>3, <1>6, <1>10, <1>11, <1>12, <1>13, <1>14, <1>15, <1>16, ExprPreserves

LEMMA FuncDefPreserves ==
  ASSUME InferInv, VisitFuncDef, widened' \subseteq Nat
  PROVE  InferInv'
<1>1. PICK n : n = next
  OBVIOUS
<1>2. TypeOK /\ BoundsOK(con, n) /\ ~IsBroken(con) /\ status = "visiting"
  BY <1>1 DEF InferInv, BoundsInv, VisitFuncDef, Visiting
<1>3. n \in DOMAIN program /\ program[n].kind = "func" /\ n \in Nat
  BY <1>1, <1>2, ProgramFacts DEF VisitFuncDef, Visiting, TypeOK
<1>4. PICK f \in Funcs : f = program[n].func
  BY <1>2, <1>3, ProgramFacts, StatementFields
<1> DEFINE formal == cell[SlotCell(f)]
           param == <<n, "lhs">>
           symbol == VarCell(ParamOf[f])
<1>5. /\ param \in Occurrences /\ VarsAt(param) = {}
      /\ symbol \in Cells /\ SlotCell(f) \in Cells /\ formal \in MaybeType
  BY <1>2, <1>3, ProgramFacts, NoVariable, Places, NamesAssumption DEF Roles, TypeOK
<1>6. \/ /\ formal # None /\ occ[param] = None
         /\ occ' = [occ EXCEPT ![param] = formal] /\ cell' = [cell EXCEPT ![symbol] = formal]
      \/ occ' = occ /\ cell' = cell
  BY <1>1, <1>4 DEF VisitFuncDef
<1>7. /\ con' = con /\ status' = status /\ next' = n + 1
      /\ unresolved' = (unresolved \/ FuncIsOpen(f)) /\ posKnown' = (posKnown \/ FuncIsOpen(f))
      /\ program' = program /\ hspCompat' = hspCompat
  BY <1>1, <1>2, <1>4 DEF VisitFuncDef, Leave, FuncHasPos
<1> HIDE DEF formal, param, symbol
<1>8. /\ occ' \in [Occurrences -> MaybeType] /\ cell' \in [Cells -> MaybeType]
      /\ \A o \in Occurrences : o # param \/ occ[o] # None => occ'[o] = occ[o]
      /\ \A c \in Cells \ {symbol} : cell'[c] = cell[c]
  BY <1>2, <1>5, <1>6 DEF TypeOK
<1>9. TypeOK'
  <2>1. Occurrences' = Occurrences
    BY <1>7, SameProgram
  <2>2. next' \in Nat \ {0}
    BY <1>3, <1>7
  <2>3. unresolved' \in BOOLEAN /\ posKnown' \in BOOLEAN
    BY <1>2, <1>7 DEF TypeOK, FuncIsOpen
  <2> QED BY <1>2, <1>7, <1>8, <2>1, <2>2, <2>3 DEF TypeOK
<1>10. \A v \in Vars \ Params : cell'[VarCell(v)] = cell[VarCell(v)]
  BY <1>8, Places, NamesAssumption DEF Params, symbol
<1>11. \A g \in Funcs : /\ cell'[SlotCell(g)] = cell[SlotCell(g)]
                        /\ cell'[RetCell(g)] = cell[RetCell(g)]
  BY <1>8, Places DEF symbol
<1>12. BoundsInv'
  <2>1. con[symbol] = None
    <3> SUFFICES ASSUME con[symbol] # None PROVE FALSE
      OBVIOUS
    <3>1. PICK h \in 1..(n - 1) : Defines(program, h, f)
      BY <1>2, <1>5 DEF BoundsOK, Bindable, symbol
    <3>2. Defines(program, n, f)
      BY <1>3, <1>4 DEF Defines
    <3>3. h \in DOMAIN program
      BY <3>1 DEF Defines
    <3>4. h = n
      BY <1>2, <1>3, <3>1, <3>2, <3>3, ResolvedAssumption DEF TypeOK
    <3> QED BY <1>3, <3>1, <3>4
  <2>2. 1..(n - 1) \subseteq 1..(next' - 1)
    BY <1>3, <1>7
  <2>3. \A c \in Cells : con[c] # None => Bindable(c, next)'
    BY <1>2, <1>7, <1>8, <2>1, <2>2 DEF BoundsOK, Bindable
  <2>4. BoundsOK(con, next)'
    BY <1>2, <1>7, <2>3 DEF BoundsOK
  <2>5. ~IsBroken(con)'
    BY <1>2, <1>7 DEF IsBroken
  <2> QED BY <2>4, <2>5 DEF BoundsInv
<1>13. ~unresolved' => StatementHolds(n)' /\ IsSettled(n)'
  <2>1. ~unresolved' => StatementHolds(n)'
    BY <1>3, <1>4, <1>7, <1>11 DEF StatementHolds, FuncIsOpen
  <2>2. IsSettled(n)'
    BY <1>3, <1>7 DEF IsSettled
  <2> QED BY <2>1, <2>2
<1>14. \A o \in Occurrences, v \in Vars \ Params :
         v \in VarsAt(o) => occ'[o] \in {occ[o], VarType(o, v)}
  BY <1>5, <1>8
<1>15. next' > n /\ next' = n + 1 /\ status' # "done"
  BY <1>2, <1>3, <1>7
<1>17. FuncIsOpen(program[n].func) => posKnown'
  BY <1>4, <1>7 DEF FuncIsOpen
<1>18. /\ posKnown => posKnown'
       /\ unresolved => unresolved'
       /\ unresolved' /\ ~posKnown' => unresolved
  BY <1>7
<1>16. \A o \in Occurrences : occ[o] # None => occ'[o] = occ[o]
  BY <1>8
<1> QED BY <1>1, <1>2, <1>3, <1>7, <1>9, <1>10, <1>11, <1>12, <1>13, <1>14, <1>15, <1>16, <1>17, <1>18,
           VisitPreserves

-----------------------------------------------------------------------------
(* The ends of a round, and the beginning. *)

LEMMA ChosenType ==
  ASSUME NEW b \in Bounds
  PROVE  Chosen(b) \in Types
BY DEF Chosen, Bounds, MaybeType

LEMMA NoBoundsOK ==
  ASSUME NEW n
  PROVE  BoundsOK(NoBounds, n) /\ ~IsBroken(NoBounds)
BY NoneAssumption DEF BoundsOK, NoBounds, IsBroken

\* What is bounded gets a type, what is not keeps it.
LEMMA NextRoundCells ==
  ASSUME TypeOK, BoundsInv, NextRound
  PROVE  /\ cell' \in [Cells -> MaybeType]
         /\ \A c \in Cells : IF con[c] = None THEN cell'[c] = cell[c]
                             ELSE cell[c] = None /\ cell'[c] \in Types
<1>1. /\ con \in [Cells -> Bounds \cup {None, Broken}] /\ ~IsBroken(con)
      /\ \A c \in Cells : con[c] # None => cell[c] = None
  BY DEF TypeOK, BoundsInv, BoundsOK, Bindable, NextRound, RoundIsOver
<1>2. \A c \in Cells : con[c] # None => con[c] \in Bounds
  BY <1>1 DEF IsBroken
<1>3. /\ cell' = [c \in Cells |-> IF con[c] = None THEN cell[c] ELSE Chosen(con[c])]
      /\ cell \in [Cells -> MaybeType]
  BY DEF NextRound, TypeOK
<1>4. \A c \in Cells : cell'[c] = IF con[c] = None THEN cell[c] ELSE Chosen(con[c])
  BY <1>3
<1>5. \A c \in Cells : IF con[c] = None THEN cell'[c] = cell[c]
                       ELSE cell[c] = None /\ cell'[c] \in Types
  BY <1>1, <1>2, <1>4, ChosenType
<1>6. \A c \in Cells : cell'[c] \in MaybeType
  BY <1>3, <1>5 DEF MaybeType
<1>7. cell' \in [Cells -> MaybeType]
  BY <1>3, <1>4, <1>6
<1> QED BY <1>5, <1>7

LEMMA NextRoundPreserves ==
  ASSUME InferInv, NextRound
  PROVE  InferInv'
<1>1. TypeOK /\ BoundsInv /\ OccurrencesInv
  BY DEF InferInv
<1>2. /\ program' = program /\ hspCompat' = hspCompat /\ status' = status /\ occ' = occ
      /\ con' = NoBounds /\ next' = 1 /\ unresolved' = FALSE /\ posKnown' = FALSE
      /\ widened' = widened /\ status = "visiting"
  BY DEF NextRound, RoundIsOver
<1>3. /\ Occurrences' = Occurrences
      /\ \A o : VarsAt(o)' = VarsAt(o)
  BY <1>2, SameProgram
<1>4. BoundsInv'
  <2>1. BoundsOK(con, next)' /\ ~IsBroken(con)'
    BY <1>2, NoneAssumption DEF BoundsOK, NoBounds, IsBroken
  <2> QED BY <2>1 DEF BoundsInv
<1>5. TypeOK'
  <2>1. con' \in [Cells -> Bounds \cup {None, Broken}]
    BY <1>2 DEF NoBounds
  <2>2. cell' \in [Cells -> MaybeType]
    BY <1>1, NextRoundCells
  <2>3. 1 \in Nat \ {0}
    OBVIOUS
  <2> QED BY <1>1, <1>2, <1>3, <2>1, <2>2, <2>3 DEF TypeOK
<1>6. OccurrencesInv'
  <2>1. \A c \in Cells : cell[c] # None => cell'[c] = cell[c]
    BY <1>1, NextRoundCells
  <2>2. \A o \in Occurrences, v \in Vars \ Params :
          v \in VarsAt(o) /\ occ[o] # None => occ[o] = cell'[VarCell(v)]
    BY <1>1, <2>1, Places DEF OccurrencesInv
  <2> QED BY <1>2, <1>3, <2>2 DEF OccurrencesInv
<1>7. \A i \in DOMAIN program : ~(i < 1)
  BY <1>1, ProgramFacts
<1>8. PositionInv'
  BY <1>2, <1>7 DEF PositionInv
<1>9. VisitedInv'
  BY <1>2, <1>7 DEF VisitedInv
<1> QED BY <1>4, <1>5, <1>6, <1>8, <1>9 DEF InferInv

\* A step that changes nothing but the status, or nothing at all.
LEMMA StopPreserves ==
  ASSUME InferInv, UNCHANGED <<program, hspCompat, next, cell, occ, con, unresolved, posKnown, widened>>,
         status' \in {status, "done", "error"},
         status' = "visiting" => status = "visiting",
         status' = "done" =>
           status = "done" \/ \A i \in DOMAIN program : StatementHolds(i) /\ IsSettled(i)
  PROVE  InferInv'
<1>1. TypeOK'
  <2>1. Occurrences' = Occurrences
    BY SameProgram
  <2> QED BY <2>1 DEF InferInv, TypeOK
<1>2. BoundsInv'
  <2>1. BoundsOK(con, next)' <=> BoundsOK(con, next)
    BY DEF BoundsOK, Bindable
  <2>2. IsBroken(con)' <=> IsBroken(con)
    BY DEF IsBroken
  <2> QED BY <2>1, <2>2 DEF InferInv, BoundsInv
<1>3. OccurrencesInv'
  BY SameProgram DEF InferInv, OccurrencesInv
<1>4. PositionInv'
  BY DEF InferInv, PositionInv, FuncIsOpen
<1>5. \A i \in DOMAIN program :
        (StatementHolds(i)' <=> StatementHolds(i)) /\ (IsSettled(i)' <=> IsSettled(i))
  <2>1. TypeOK /\ \A o, v : VarType(o, v)' = VarType(o, v)
    BY DEF InferInv, VarType
  <2>2. \A i \in DOMAIN program : StatementHolds(i)' <=> StatementHolds(i)
    BY <2>1, KeptStatement
  <2>3. \A i \in DOMAIN program : IsSettled(i)' <=> IsSettled(i)
    BY SameProgram DEF IsSettled
  <2> QED BY <2>2, <2>3
<1>6. VisitedInv'
  BY <1>5 DEF InferInv, VisitedInv
<1> QED BY <1>1, <1>2, <1>3, <1>4, <1>6 DEF InferInv

LEMMA AcceptPreserves ==
  ASSUME InferInv, Accept
  PROVE  InferInv'
<1>1. TypeOK /\ VisitedInv
  BY DEF InferInv
<1>2. \A i \in DOMAIN program : i < next
  BY <1>1, ProgramFacts DEF Accept, RoundIsOver, TypeOK
<1>3. \A i \in DOMAIN program : StatementHolds(i) /\ IsSettled(i)
  BY <1>1, <1>2 DEF VisitedInv, Accept, RoundIsOver
<1> QED BY <1>3, StopPreserves DEF Accept

LEMMA GiveUpPreserves ==
  ASSUME InferInv, GiveUp
  PROVE  InferInv'
BY StopPreserves DEF GiveUp

LEMMA WidenedPreserves ==
  ASSUME InferInv, VisitWidened
  PROVE  InferInv'
BY StopPreserves DEF VisitWidened

LEMMA WrittenTypes ==
  ASSUME program \in Programs, NEW c \in Cells
  PROVE  WrittenType(c) \in MaybeType
<1>1. \A i \in DOMAIN program : program[i] \in Statements
  BY ProgramsAssumption
<1>2. Written(c) \subseteq MaybeType
  BY <1>1, StatementFields DEF Written, StatementsOf
<1>3. CASE Written(c) \subseteq {None}
  BY <1>3 DEF WrittenType, MaybeType
<1>4. CASE ~(Written(c) \subseteq {None})
  <2>1. \E T \in Written(c) \ {None} : TRUE
    BY <1>4
  <2>2. WrittenType(c) \in Written(c)
    BY <1>4, <2>1 DEF WrittenType
  <2> QED BY <1>2, <2>2
<1> QED BY <1>3, <1>4

LEMMA InitOK ==
  ASSUME Init
  PROVE  InferInv
<1>1. TypeOK
  <2>1. cell \in [Cells -> MaybeType]
    BY WrittenTypes DEF Init
  <2>2. occ \in [Occurrences -> MaybeType]
    BY DEF Init, MaybeType
  <2>3. con \in [Cells -> Bounds \cup {None, Broken}]
    BY DEF Init, NoBounds
  <2>4. 1 \in Nat \ {0}
    OBVIOUS
  <2> QED BY <2>1, <2>2, <2>3, <2>4 DEF Init, TypeOK
<1>2. BoundsInv
  BY NoBoundsOK DEF Init, BoundsInv
<1>3. OccurrencesInv
  BY DEF Init, OccurrencesInv
<1>4. \A i \in DOMAIN program : ~(i < next)
  BY <1>1, ProgramFacts DEF Init
<1>5. PositionInv
  BY <1>4 DEF Init, PositionInv
<1>6. VisitedInv
  BY <1>4 DEF Init, VisitedInv
<1> QED BY <1>1, <1>2, <1>3, <1>5, <1>6 DEF InferInv

\* Each visit adds its own statement to widened, or none.
LEMMA NextWidened ==
  ASSUME TypeOK, Next
  PROVE  widened' \subseteq Nat
<1>1. ASSUME NEW bounds, NEW verdict, NEW wrong, NEW open, NEW pos, NEW last,
             Leave(bounds, verdict, wrong, open, pos, last)
      PROVE  widened' \subseteq Nat
  BY <1>1 DEF Leave, TypeOK
<1>2. CASE UNCHANGED widened
  BY <1>2 DEF TypeOK
<1> QED BY <1>1, <1>2
     DEF Next, VisitFuncDef, VisitVarDef, VisitVarDefInit, VisitAssign, AssignTo, VisitIncrement,
         VisitIf, VisitRepeat, VisitCall, VisitReturn, VisitWidened, Accept, NextRound, GiveUp

LEMMA NextOK ==
  ASSUME InferInv, [Next]_vars
  PROVE  InferInv'
<1>1. CASE UNCHANGED vars
  BY <1>1, StopPreserves DEF vars, InferInv, VisitedInv
<1>2. CASE Next
  <2>1. widened' \subseteq Nat
    BY <1>2, NextWidened DEF InferInv
  <2> QED BY <1>2, <2>1, FuncDefPreserves, VarDefPreserves, VarDefInitPreserves,
             AssignStatementPreserves, IncrementPreserves, IfPreserves, RepeatPreserves,
             CallPreserves, ReturnPreserves, AcceptPreserves, NextRoundPreserves,
             GiveUpPreserves, WidenedPreserves DEF Next
<1> QED BY <1>1, <1>2

-----------------------------------------------------------------------------
(* What holds of every program. *)

\* A visit keeps to the types of the program, bounds only what has no type,
\* and what was checked while nothing was unresolved stays well typed.
THEOREM InferenceInvariant == Spec => []InferInv
<1>1. Init => InferInv
  BY InitOK
<1>2. InferInv /\ [Next]_vars => InferInv'
  BY NextOK
<1> QED BY <1>1, <1>2, PTL DEF Spec

\* A program that is accepted is well typed, however many rounds it took
\* (visit(TransUnit *)).
THEOREM AcceptedProgramsAreWellTyped == Spec => []AcceptedIsWellTyped
<1>1. InferInv => AcceptedIsWellTyped
  <2> SUFFICES ASSUME InferInv, status = "done"
               PROVE  /\ \A i \in DOMAIN program : StatementHolds(i)
                      /\ \A v \in Vars \ Params : HasOneType(v)
    BY DEF AcceptedIsWellTyped
  <2>1. TypeOK /\ \A i \in DOMAIN program : StatementHolds(i) /\ IsSettled(i)
    BY DEF InferInv, VisitedInv
  <2>2. ASSUME NEW v \in Vars \ Params, NEW i \in DOMAIN program, NEW o \in Occurrences,
               <<o, v>> \in Identifiers(i)
        PROVE  occ[o] = cell[VarCell(v)] /\ occ[o] # None
    <3>1. o \in PlacesOf(i) /\ v \in VarsAt(o) /\ program[i].kind # "func"
      BY <2>1, <2>2, IdentifierPlaces
    <3>2. occ[o] # None
      BY <2>1, <3>1 DEF IsSettled
    <3> QED BY <3>1, <3>2 DEF InferInv, OccurrencesInv
  <2> QED BY <2>1, <2>2 DEF HasOneType
<1> QED BY <1>1, InferenceInvariant, PTL

\* A round that leaves something unresolved knows where (unresolvedPos_).
THEOREM UnresolvedPositionIsKnown == Spec => []PositionIsKnown
<1>1. InferInv => PositionIsKnown
  <2> SUFFICES ASSUME InferInv, RoundIsOver, unresolved
               PROVE  posKnown
    BY DEF PositionIsKnown
  <2>1. TypeOK /\ PositionInv
    BY DEF InferInv
  <2>2. \A h \in DOMAIN program : h < next
    BY <2>1, ProgramFacts DEF RoundIsOver, TypeOK
  <2> QED BY <2>1, <2>2 DEF PositionInv
<1> QED BY <1>1, InferenceInvariant, PTL

\* A type that was found stays, except that of a parameter's symbol.
THEOREM FoundTypesAreFinal == Spec => TypesAreFinal
<1> DEFINE Final == \A c \in Cells \ {VarCell(v) : v \in Params} :
                      cell[c] # None => cell'[c] = cell[c]
<1>1. InferInv /\ [Next]_vars => [Final]_vars
  <2> SUFFICES ASSUME InferInv, Next
               PROVE  Final
    OBVIOUS
  <2>1. TypeOK /\ BoundsInv
    BY DEF InferInv
  <2>2. CASE VisitFuncDef
    <3>1. next \in DOMAIN program /\ program[next].kind = "func"
      BY <2>1, <2>2, ProgramFacts DEF VisitFuncDef, Visiting, TypeOK
    <3>2. program[next].func \in Funcs
      BY <2>1, <3>1, ProgramFacts, StatementFields
    <3>3. VarCell(ParamOf[program[next].func]) \in {VarCell(v) : v \in Params}
      BY <3>2 DEF Params
    <3> QED BY <2>1, <2>2, <3>3 DEF VisitFuncDef, TypeOK
  <2>3. CASE NextRound
    BY <2>1, <2>3, NextRoundCells
  <2>4. CASE UNCHANGED cell
    BY <2>4
  <2> QED BY <2>2, <2>3, <2>4
       DEF Next, VisitVarDef, VisitVarDefInit, VisitAssign, AssignTo, VisitIncrement, VisitIf,
           VisitRepeat, VisitCall, VisitReturn, VisitWidened, Accept, GiveUp
<1>2. [][Final]_vars => TypesAreFinal
  BY DEF TypesAreFinal
<1> QED BY <1>1, <1>2, InferenceInvariant, PTL DEF Spec

\* Every round but the last gives a type to a type variable that had none.
THEOREM RoundsMakeProgress == Spec => EveryRoundResolves
<1> DEFINE Resolves == NextRound => Untyped' \subseteq Untyped /\ Untyped' # Untyped
<1>1. InferInv => [Resolves]_vars
  <2> SUFFICES ASSUME InferInv, NextRound
               PROVE  Untyped' \subseteq Untyped /\ Untyped' # Untyped
    OBVIOUS
  <2>1. TypeOK /\ BoundsInv
    BY DEF InferInv
  <2>2. \A c \in Cells : IF con[c] = None THEN cell'[c] = cell[c]
                         ELSE cell[c] = None /\ cell'[c] # None
    BY <2>1, NextRoundCells, TypeFacts
  <2>3. PICK c \in Cells : con[c] # None
    BY <2>1 DEF TypeOK, NextRound, Progress, NoBounds
  <2> QED BY <2>2, <2>3 DEF Untyped
<1>2. [][Resolves]_vars => EveryRoundResolves
  BY DEF EveryRoundResolves
<1> QED BY <1>1, <1>2, InferenceInvariant, PTL
=============================================================================
