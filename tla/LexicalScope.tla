---------------------------- MODULE LexicalScope ----------------------------
(***************************************************************************)
(* What the names in a program mean, told from its text alone.  A program  *)
(* is the sequence of its declarations, uses of names, and beginnings and  *)
(* ends of scopes, in the order of their positions.  It is the reference   *)
(* SymbolRegister and SymbolResolver are compared with in Scopes.          *)
(***************************************************************************)
EXTENDS Integers, Sequences, FiniteSets, FiniteSetsExt

CONSTANTS
  Names,      \* identifiers
  BuiltIns,   \* the names of the built-in types
  Cnt,        \* the identifier "cnt"
  None        \* no symbol; the name of an item that has none

ASSUME ReservedAssumption ==
  /\ Cnt \in Names
  /\ BuiltIns \subseteq Names /\ Cnt \notin BuiltIns
  /\ None \notin Names

\* Parameters are "var"s between "func" and the "comp" of the body.  The count
\* of a repeat is a "ref" before it.
Declarations == {"var", "extern", "label", "func", "namespace"}
Uses == {"ref", "jump", "type"}
Scopings == {"func", "namespace", "comp", "repeat"}
Items == [kind : Declarations \cup Uses, name : Names]
         \cup [kind : {"comp", "repeat", "end"}, name : {None}]

\* Identifiers, types (capitalised) and labels (prefixed with "*" in the
\* tables) have tables in common but never a name.
ClassOf(kind) ==
  IF kind \in {"label", "jump"} THEN "label"
  ELSE IF kind \in {"namespace", "type", "builtin"} THEN "type"
  ELSE "id"

Key(item) == <<ClassOf(item.kind), item.name>>

Symbol(item, scope, pos) ==
  [key |-> Key(item), kind |-> item.kind, scope |-> scope, pos |-> pos]

\* A scope is named by the position it begins at.
Global == 0

BuiltInSymbols == {Symbol([kind |-> "builtin", name |-> T], Global, 0) : T \in BuiltIns}
CntSymbol(repeat) == Symbol([kind |-> "var", name |-> Cnt], repeat, repeat)
ImplicitSymbol(item) == Symbol([kind |-> "var", name |-> item.name], Global, 0)

-----------------------------------------------------------------------------
Open(prog, i, j) ==
  Cardinality({k \in i..j : prog[k].kind \in Scopings})
  - Cardinality({k \in i..j : prog[k].kind = "end"})

\* Every scope that ends has begun: what is parsed from a tree is nested.
IsNested(prog) == \A p \in DOMAIN prog : Open(prog, 1, p) >= 0

Encloses(prog, scope, p) ==
  \/ scope = Global
  \/ /\ scope < p
     /\ prog[scope].kind \in Scopings
     /\ \A j \in scope..(p - 1) : Open(prog, scope, j) > 0

Enclosing(prog, p) == {s \in Global..(p - 1) : Encloses(prog, s, p)}
Innermost(prog, p) == Max(Enclosing(prog, p))

Positions(prog, kinds) == {p \in DOMAIN prog : prog[p].kind \in kinds}

Declared(prog) ==
  {Symbol(prog[d], Innermost(prog, d), d) : d \in Positions(prog, Declarations)}
  \cup {CntSymbol(d) : d \in Positions(prog, {"repeat"})}
  \cup BuiltInSymbols

\* Functions, namespaces and labels may be used before they are declared.
UsableBefore == {"func", "namespace", "label"}

\* A name means what the innermost scope around it that declares it, before the
\* name where that matters, declares it to be.
Candidates(prog, p) ==
  {s \in Declared(prog) :
     /\ s.key = Key(prog[p])
     /\ s.scope \in Enclosing(prog, p)
     /\ s.pos <= p \/ s.kind \in UsableBefore}

Meaning(prog, p) ==
  IF Candidates(prog, p) = {} THEN None
  ELSE CHOOSE s \in Candidates(prog, p) :
         \A t \in Candidates(prog, p) : t.scope <= s.scope

-----------------------------------------------------------------------------
Reserved == BuiltIns \cup {Cnt}

IsRedeclared(prog) ==
  \E s, t \in Declared(prog) : s # t /\ s.scope = t.scope /\ s.key = t.key

Unknown(prog, kinds) ==
  {p \in Positions(prog, kinds) : Meaning(prog, p) = None}

\* Only HSP has labels and variables that are declared by their use.
IsIllegal(prog, hspCompat) ==
  \/ \E p \in Positions(prog, Declarations) : prog[p].name \in Reserved
  \/ IsRedeclared(prog)
  \/ ~hspCompat /\ Positions(prog, {"label"}) # {}
  \/ Unknown(prog, IF hspCompat THEN {"jump", "type"} ELSE Uses) # {}

\* A variable that is declared by its use and then at global scope.
IsDeclaredLate(prog) ==
  \E p \in Unknown(prog, {"ref"}), s \in Declared(prog) :
    s.key = Key(prog[p]) /\ s.scope = Global
=============================================================================
