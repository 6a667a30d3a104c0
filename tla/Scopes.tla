-------------------------------- MODULE Scopes --------------------------------
(***************************************************************************)
(* SymbolRegister and SymbolResolver: two passes over the program, each    *)
(* with a stack of scopes.  The first enters what is declared into the     *)
(* table of the scope on top; the second looks up the names that are used. *)
(* In HSP mode a name that is not found is declared at global scope, and   *)
(* every repeat declares cnt, while the second pass is under way.          *)
(*                                                                         *)
(* The items of a program (LexicalScope) are visited in order.             *)
(***************************************************************************)
EXTENDS LexicalScope

CONSTANT Programs
ASSUME ProgramsAssumption ==
  Programs \subseteq Seq(Items) /\ \A prog \in Programs : IsNested(prog)

VARIABLES
  program,
  hspCompat,  \* opt_.hspCompat
  pass,       \* "register" (SymbolRegister) or "resolve" (SymbolResolver)
  status,     \* "running", "done", "error" (SemanticsError) or "abort"
  next,       \* the item to be visited next
  scopes,     \* scopes
  enclosing,  \* Scope::enclosing_ of the scopes that exist
  members,    \* the symbols in the tables of all scopes
  resolved    \* the symbol of each use

vars == <<program, hspCompat, pass, status, next, scopes, enclosing, members, resolved>>

Symbols ==
  [key : {"id", "type", "label"} \X Names, kind : Declarations \cup {"builtin"},
   scope : Nat, pos : Nat]

ASSUME NoneAssumption == None \notin Symbols

TypeOK ==
  /\ program \in Programs
  /\ hspCompat \in BOOLEAN
  /\ pass \in {"register", "resolve"}
  /\ status \in {"running", "done", "error", "abort"}
  /\ next \in 1..(Len(program) + 1)
  /\ scopes \in Seq(Global..Len(program)) /\ scopes # <<>>
  /\ DOMAIN enclosing \subseteq Positions(program, Scopings)
  /\ enclosing \in [DOMAIN enclosing -> Global..Len(program)]
  /\ members \subseteq Symbols
  /\ resolved \in [1..Len(program) -> Symbols \cup {None}]

Init ==
  /\ program \in Programs
  /\ hspCompat \in BOOLEAN
  /\ pass = "register"
  /\ status = "running"
  /\ next = 1
  /\ scopes = <<Global>>
  /\ enclosing = [s \in {} |-> Global]
  /\ members = BuiltInSymbols
  /\ resolved = [i \in 1..Len(program) |-> None]

-----------------------------------------------------------------------------
item == program[next]
top == scopes[Len(scopes)]
Pushed(scope) == Append(scopes, scope)
Popped == SubSeq(scopes, 1, Len(scopes) - 1)

Visit(whichPass, kinds) ==
  /\ status = "running"
  /\ pass = whichPass
  /\ next <= Len(program)
  /\ item.kind \in kinds

IsDisallowedIdentifier(name) == name \in BuiltIns \cup {Cnt}

Throw ==
  /\ status' = "error"
  /\ UNCHANGED <<program, hspCompat, pass, next, scopes, enclosing, members, resolved>>

\* Scope::define: a table has one symbol of a name.
IsDefined_ByPosition(symbol) == symbol \in members
IsDefined(symbol) ==
  \E m \in members : m.scope = symbol.scope /\ m.key = symbol.key

Define(symbol) == members' = members \cup {symbol}

-----------------------------------------------------------------------------
(* SymbolRegister *)

IsRejected ==
  \/ item.kind = "label" /\ ~hspCompat
  \/ IsDisallowedIdentifier(item.name)
  \/ IsDefined(Symbol(item, top, next))

RegisterFails ==
  /\ Visit("register", Declarations)
  /\ IsRejected
  /\ Throw

Register(kind) ==
  /\ Visit("register", {kind})
  /\ ~IsRejected
  /\ Define(Symbol(item, top, next))
  /\ next' = next + 1
  /\ UNCHANGED <<program, hspCompat, pass, status, resolved>>

RegisterVarDef == Register("var") /\ UNCHANGED <<scopes, enclosing>>
RegisterExtern == Register("extern") /\ UNCHANGED <<scopes, enclosing>>
RegisterLabel == Register("label") /\ UNCHANGED <<scopes, enclosing>>

\* The scope that begins at the item is created inside the one on top.
NewScope ==
  /\ enclosing' = [s \in DOMAIN enclosing \cup {next} |->
                     IF s = next THEN top ELSE enclosing[s]]
  /\ scopes' = Pushed(next)

RegisterFuncDef == Register("func") /\ NewScope
RegisterNamespace == Register("namespace") /\ NewScope

RegisterLocalScope(kind) ==
  /\ Visit("register", {kind})
  /\ NewScope
  /\ next' = next + 1
  /\ UNCHANGED <<program, hspCompat, pass, status, members, resolved>>

RegisterComp == RegisterLocalScope("comp")
RegisterRepeat == RegisterLocalScope("repeat")

\* Expressions are not visited in the first pass.
RegisterUse ==
  /\ Visit("register", Uses)
  /\ next' = next + 1
  /\ UNCHANGED <<program, hspCompat, pass, status, scopes, enclosing, members, resolved>>

LeaveScope(whichPass) ==
  /\ Visit(whichPass, {"end"})
  /\ scopes' = Popped
  /\ next' = next + 1
  /\ UNCHANGED <<program, hspCompat, pass, status, enclosing, members, resolved>>

RegisterEnd == LeaveScope("register")

StartResolving ==
  /\ status = "running"
  /\ pass = "register"
  /\ next > Len(program)
  /\ pass' = "resolve"
  /\ next' = 1
  /\ scopes' = <<Global>>
  /\ UNCHANGED <<program, hspCompat, status, enclosing, members, resolved>>

-----------------------------------------------------------------------------
(* SymbolResolver *)

ForwardKinds == {"func", "namespace", "label"}

(***************************************************************************)
(* Scope::resolve, of BaseScope and of ScopedSymbol: a symbol that is too  *)
(* far down hides nothing.                                                 *)
(***************************************************************************)
Found_AnyPosition(scope, key, curPos) ==
  {m \in members : m.scope = scope /\ m.key = key}
Found(scope, key, curPos) ==
  {m \in members : m.scope = scope /\ m.key = key
                   /\ (m.pos <= curPos \/ m.kind \in ForwardKinds)}

resolve(scope, key, curPos) ==
  LET From[s \in {Global} \cup DOMAIN enclosing] ==
        IF Found(s, key, curPos) # {} THEN CHOOSE m \in Found(s, key, curPos) : TRUE
        ELSE IF s = Global THEN None
        ELSE From[enclosing[s]]
  IN  From[scope]

Lookup == resolve(top, Key(item), next)

ResolveUse ==
  /\ Visit("resolve", Uses)
  /\ Lookup # None
  /\ resolved' = [resolved EXCEPT ![next] = Lookup]
  /\ next' = next + 1
  /\ UNCHANGED <<program, hspCompat, pass, status, scopes, enclosing, members>>

(***************************************************************************)
(* An identifier that is not found is declared at global scope.  There may *)
(* be a declaration of it further down, which is what assert(res == false) *)
(* is about.                                                               *)
(***************************************************************************)
Implicit == ImplicitSymbol(item)

DeclareImplicitly ==
  /\ Visit("resolve", {"ref"})
  /\ Lookup = None
  /\ hspCompat
  /\ IF IsDefined(Implicit)
       THEN status' = "abort" /\ UNCHANGED <<next, members, resolved>>
       ELSE /\ Define(Implicit)
            /\ resolved' = [resolved EXCEPT ![next] = Implicit]
            /\ next' = next + 1
            /\ UNCHANGED status
  /\ UNCHANGED <<program, hspCompat, pass, scopes, enclosing>>

ResolveFails ==
  /\ Visit("resolve", Uses)
  /\ Lookup = None
  /\ ~(hspCompat /\ item.kind = "ref")
  /\ Throw

\* The count was visited before; what define says of cnt is not looked at.
CntOf == CntSymbol(next)

ResolveRepeat ==
  /\ Visit("resolve", {"repeat"})
  /\ IF IsDefined(CntOf) THEN UNCHANGED members ELSE Define(CntOf)
  /\ scopes' = Pushed(next)
  /\ next' = next + 1
  /\ UNCHANGED <<program, hspCompat, pass, status, enclosing, resolved>>

EnterScope ==
  /\ Visit("resolve", {"func", "namespace", "comp"})
  /\ scopes' = Pushed(next)
  /\ next' = next + 1
  /\ UNCHANGED <<program, hspCompat, pass, status, enclosing, members, resolved>>

ResolveEnd == LeaveScope("resolve")

\* A declared name has its symbol already.
ResolveDeclared ==
  /\ Visit("resolve", {"var", "extern", "label"})
  /\ next' = next + 1
  /\ UNCHANGED <<program, hspCompat, pass, status, scopes, enclosing, members, resolved>>

Finish ==
  /\ status = "running"
  /\ pass = "resolve"
  /\ next > Len(program)
  /\ status' = "done"
  /\ UNCHANGED <<program, hspCompat, pass, next, scopes, enclosing, members, resolved>>

Next ==
  \/ RegisterFails
  \/ RegisterVarDef
  \/ RegisterExtern
  \/ RegisterLabel
  \/ RegisterFuncDef
  \/ RegisterNamespace
  \/ RegisterComp
  \/ RegisterRepeat
  \/ RegisterUse
  \/ RegisterEnd
  \/ StartResolving
  \/ ResolveUse
  \/ DeclareImplicitly
  \/ ResolveFails
  \/ ResolveRepeat
  \/ EnterScope
  \/ ResolveEnd
  \/ ResolveDeclared
  \/ Finish

Spec == Init /\ [][Next]_vars

-----------------------------------------------------------------------------
(***************************************************************************)
(* Names are lexically scoped: whatever has been entered into the tables   *)
(* by the time a name is looked up, it gets the meaning the text gives it, *)
(* or else the implicit variable, and it keeps it as the tables grow.      *)
(***************************************************************************)
LexicallyScoped ==
  \A p \in Positions(program, Uses) :
    (pass = "resolve" /\ p < next) =>
      resolved[p] = IF Meaning(program, p) # None THEN Meaning(program, p)
                    ELSE ImplicitSymbol(program[p])

\* A program is accepted only if it is legal, and rejected only if it is not;
\* the assertion stops only those that declare a variable after using it.
VerdictIsRight ==
  /\ status = "done" => ~IsIllegal(program, hspCompat)
  /\ status = "error" => IsIllegal(program, hspCompat)
  /\ status = "abort" => IsDeclaredLate(program)
===============================================================================
