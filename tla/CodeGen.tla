------------------------------- MODULE CodeGen -------------------------------
(***************************************************************************)
(* The control-flow half of LLVMCodeGen.cc: how the recursive generate*    *)
(* functions turn a resolved program into basic blocks and branches.       *)
(*                                                                         *)
(* The program is not fixed: every step generates the next statement or    *)
(* expression the parser could have put there, so a behaviour is one       *)
(* compilation of one program and the specification covers all of them.    *)
(*                                                                         *)
(* Three structures evolve together, and the properties relate them:       *)
(*   - the deque `blocks' of LLVMCodeGen::Impl::Block;                     *)
(*   - the C++ activation records of the generate* functions (`calls'),    *)
(*     whose local variables hold blocks that are still to be connected;   *)
(*   - the LLVM module under construction: basic blocks, the function that *)
(*     owns each, the branches, and the IRBuilder's insertion point.       *)
(*                                                                         *)
(* Abstracted: instructions other than terminators and PHI nodes, types,   *)
(* values and names.  Constructs that keep to the current block (calls,    *)
(* loads, arithmetic, assignment, definitions) are the single step Instr.  *)
(***************************************************************************)
EXTENDS Naturals, FiniteSets, SequencesExt

CONSTANTS
  PeryanMain, \* the function that holds the global statements
  Labels,     \* the labels the program defines at top level, each a function
  Funcs,      \* the functions the program defines with "func"
  NULL,       \* the null llvm::Function pointer
  MaxStmts    \* bound: statements and block-making expressions of the program

ASSUME CodeGenAssumption ==
  /\ PeryanMain \notin Labels \cup Funcs
  /\ Labels \cap Funcs = {}
  /\ NULL \notin {PeryanMain} \cup Labels \cup Funcs
  /\ MaxStmts \in Nat

VARIABLES
  blocks,   \* LLVMCodeGen::Impl::blocks
  calls,    \* activation records of generate*, outermost first
  bbs,      \* every basic block created so far, in order of creation
  owner,    \* owner[b]: the function whose list holds block b
  closed,   \* blocks that have a terminator
  reclosed, \* blocks that were given a terminator while they had one
  edges,    \* branches: <<from, to>>
  phis,     \* PHI nodes: [at |-> block, incoming |-> set of blocks]
  ip,       \* the block IRBuilder inserts into
  defined,  \* labels and functions whose definition has been generated
  stmts,    \* number of statements and block-making expressions begun
  status    \* "run", "done", or the assertion that stopped the compiler

module == <<bbs, owner, closed, reclosed, edges, phis>>
vars == <<blocks, calls, module, ip, defined, stmts, status>>

FuncNames == {PeryanMain} \cup Labels \cup Funcs
NumBBs == Len(bbs)
BBs == 1..NumBBs

-----------------------------------------------------------------------------
(* Records. *)

\* class Block; 0 is a null BasicBlock pointer.  `head' is only ever read from
\* the copy generateCompStmt returns, so it lives in the caller's activation.
Block(type, func, body, end, continue_, break_) ==
  [type |-> type, func |-> func, body |-> body, end |-> end,
   continue_ |-> continue_, break_ |-> break_]

GlobalBlock(body, end) == Block("GLOBAL_BLOCK", PeryanMain, body, end, 0, 0)
FuncBlock(f, body, end) == Block("FUNC_BLOCK", f, body, end, 0, 0)
CompBlock(body, end) == Block("COMP_BLOCK", NULL, body, end, 0, 0)

\* A continue must pass through repeatIncr, never straight to repeatCond.
LoopBlock_ContinueToCond(entry, end, cond, incr, after) ==
  Block("LOOP_BLOCK", NULL, entry, end, cond, after)
LoopBlock(entry, end, cond, incr, after) ==
  Block("LOOP_BLOCK", NULL, entry, end, incr, after)

Kinds == {"globalBlockEntry", "globalBlockEnd", "compBlockEntry",
          "compBlockEnd", "compBlockAfter", "funcBlockEntry", "funcBlockEnd",
          "logicRhs", "logicAfter", "arrayLoopCond", "arrayLoopBody",
          "arrayLoopAfter", "ifAfter", "ifElseIf", "repeatInit", "repeatCond",
          "repeatIncr", "repeatBodyEntry", "repeatBodyEnd", "repeatAfter",
          "continueAfter", "breakAfter", "gotoAfter", "labelEntry",
          "globalReturnAfter", "funcReturnAfter"}

\* Statements are generated on behalf of these activations ...
StmtCalls == {"unit", "comp", "ifThen", "elseThen", "repeat", "func"}
\* ... and expressions on behalf of these.
ExprCalls == {"exprStmt", "ifCond", "repeatCount", "return", "logicLhs",
              "logicRhs", "arrayLoop", "inPlace"}
CallKinds == StmtCalls \cup ExprCalls \cup {"ifNext", "repeatForever"}

\* The local variables of the generate* functions that hold basic blocks, and
\* the number of Blocks on the deque while the function generates its parts.
Call(fn, depth, after, prevBody, head, cond) ==
  [fn |-> fn, depth |-> depth, after |-> after, prevBody |-> prevBody,
   head |-> head, cond |-> cond]

-----------------------------------------------------------------------------
(* Reading the deque. *)

Back == Last(blocks)
Depth == Len(blocks)
Body == Back.body
Top == Last(calls)

InnermostOf(types) ==
  blocks[Max({i \in DOMAIN blocks : blocks[i].type \in types})]

getEnclosingFuncBlock == InnermostOf({"FUNC_BLOCK", "GLOBAL_BLOCK"})

getEnclosingFunc == getEnclosingFuncBlock.func

isFunctionalGlobal == getEnclosingFuncBlock.type = "GLOBAL_BLOCK"

InLoop == \E i \in DOMAIN blocks : blocks[i].type = "LOOP_BLOCK"

getEnclosingLoopBlock_Outermost ==
  blocks[Min({i \in DOMAIN blocks : blocks[i].type = "LOOP_BLOCK"})]
getEnclosingLoopBlock == InnermostOf({"LOOP_BLOCK"})

\* The repeat statement whose body is being generated, named by its repeatCond
\* (0 outside any): taken from the activations, never from `blocks'.
LexicalLoop ==
  LET loops == {i \in DOMAIN calls : calls[i].fn = "repeat"}
  IN  IF loops = {} THEN 0 ELSE calls[Max(loops)].cond

-----------------------------------------------------------------------------
(* Building the module. *)

\* A block is tagged with the loop it is in; 0 is none.
LoopBB(kind, loop) == [kind |-> kind, loop |-> loop]
BB(kind) == LoopBB(kind, LexicalLoop)

\* The function that receives the end block of the transfer unit when a label
\* starts a new function: moveAfter splices it next to the label's entry.
EndOwner_NotMoved(f, end) == owner[end]
EndOwner(f, end) == f

\* BasicBlock::Create for each of `new' in function f.
Create(new, f) ==
  /\ bbs' = bbs \o new
  /\ owner' = [b \in 1..(NumBBs + Len(new)) |->
                 IF b \in BBs THEN owner[b] ELSE f]

\* CreateBr, CreateCondBr or CreateRet at the end of each block of `from';
\* `out' are the branches, none for a return.
Terminate(from, out) ==
  /\ closed' = closed \cup from
  /\ reclosed' = reclosed \cup (closed \cap from)
  /\ edges' = edges \cup out

NoBranch == UNCHANGED <<closed, reclosed, edges>>
NoCreate == UNCHANGED <<bbs, owner>>

WithBody(b) == [blocks EXCEPT ![Depth].body = b]
PopTo(b) == [Front(blocks) EXCEPT ![Depth - 1].body = b]
Push(call) == calls' = Append(calls, call)
Pop == calls' = Front(calls)
Become(call) == calls' = [calls EXCEPT ![Len(calls)] = call]

-----------------------------------------------------------------------------
(* generateTransUnit creates PeryanMain and starts its statements. *)

Init ==
  /\ bbs = <<LoopBB("globalBlockEntry", 0), LoopBB("globalBlockEnd", 0)>>
  /\ owner = [b \in 1..2 |-> PeryanMain]
  /\ closed = {} /\ reclosed = {} /\ edges = {} /\ phis = {}
  /\ blocks = <<GlobalBlock(1, 2)>>
  /\ calls = <<Call("unit", 1, 0, 0, 0, 0)>>
  /\ ip = 1
  /\ defined = {}
  /\ stmts = 0
  /\ status = "run"

\* The next statement of the statement list being generated.
AtStmt ==
  /\ status = "run"
  /\ Top.fn \in StmtCalls
  /\ stmts < MaxStmts
  /\ stmts' = stmts + 1

\* A sub-expression of the expression being generated.
AtExpr ==
  /\ status = "run"
  /\ Top.fn \in ExprCalls
  /\ stmts < MaxStmts
  /\ stmts' = stmts + 1

\* The activation on top goes on after what it called has returned.
Returned(fns) ==
  /\ status = "run"
  /\ Top.fn \in fns
  /\ UNCHANGED stmts

Assertion(failed) ==
  /\ status' = failed
  /\ UNCHANGED <<blocks, calls, module, ip, defined>>

-----------------------------------------------------------------------------
(* Compound statements. *)

\* generateCompStmt with autoConnect: the enclosing body branches to the head.
CompStmt ==
  /\ AtStmt
  /\ LET head == NumBBs + 1
         end  == NumBBs + 2
     IN  /\ Create(<<BB("compBlockEntry"), BB("compBlockEnd")>>, getEnclosingFunc)
         /\ Terminate({Body}, {<<Body, head>>})
         /\ blocks' = Append(blocks, CompBlock(head, end))
  /\ Push(Call("comp", Depth + 1, 0, 0, 0, 0))
  /\ ip' = Body
  /\ UNCHANGED <<phis, defined, status>>

\* The enclosing block goes on in compBlockAfter.
CompBody_Stays(after) == PopTo(blocks[Depth - 1].body)
CompBody(after) == PopTo(after)

CompEnd ==
  /\ Returned({"comp"})
  /\ LET after == NumBBs + 1
     IN  /\ Create(<<BB("compBlockAfter")>>, getEnclosingFunc)
         /\ Terminate({Body, Back.end}, {<<Body, Back.end>>, <<Back.end, after>>})
         /\ blocks' = CompBody(after)
  /\ Pop
  /\ ip' = Back.end
  /\ UNCHANGED <<phis, defined, status>>

-----------------------------------------------------------------------------
(* If statements: the branches are connected by hand after each compound.  *)

IfStmt ==
  /\ AtStmt
  /\ Create(<<BB("ifAfter")>>, getEnclosingFunc)
  /\ Push(Call("ifCond", Depth, NumBBs + 1, 0, 0, 0))
  /\ NoBranch
  /\ UNCHANGED <<blocks, phis, ip, defined, status>>

\* The block that will end in the conditional branch: the one that is current
\* after the condition has been generated (a logical operator moves it).
IfBranch(fn) ==
  LET head == NumBBs + 1
      end  == NumBBs + 2
  IN  /\ Create(<<BB("compBlockEntry"), BB("compBlockEnd")>>, getEnclosingFunc)
      /\ blocks' = Append(blocks, CompBlock(head, end))
      /\ Become(Call(fn, Depth + 1, Top.after, Body, head, 0))
      /\ NoBranch
      /\ UNCHANGED <<phis, ip, defined, status>>

IfThen == Returned({"ifCond"}) /\ IfBranch("ifThen")

IfThenEnd ==
  /\ Returned({"ifThen"})
  /\ LET elseIf == NumBBs + 1
     IN  /\ Create(<<BB("ifElseIf")>>, getEnclosingFunc)
         /\ Terminate({Body, Back.end, Top.prevBody},
                      {<<Body, Back.end>>, <<Back.end, Top.after>>,
                       <<Top.prevBody, Top.head>>, <<Top.prevBody, elseIf>>})
         /\ blocks' = PopTo(elseIf)
  /\ Become(Call("ifNext", Depth - 1, Top.after, 0, 0, 0))
  /\ ip' = Back.end
  /\ UNCHANGED <<phis, defined, status>>

\* "else if": the next round of the loop over the conditions.
ElseIf ==
  /\ status = "run"
  /\ Top.fn = "ifNext"
  /\ stmts < MaxStmts
  /\ stmts' = stmts + 1
  /\ Become(Call("ifCond", Depth, Top.after, 0, 0, 0))
  /\ UNCHANGED <<blocks, module, ip, defined, status>>

ElseThen == Returned({"ifNext"}) /\ IfBranch("elseThen")

ElseThenEnd ==
  /\ Returned({"elseThen"})
  /\ NoCreate
  /\ Terminate({Body, Back.end, Top.prevBody},
               {<<Body, Back.end>>, <<Back.end, Top.after>>,
                <<Top.prevBody, Top.head>>})
  /\ blocks' = PopTo(Top.after)
  /\ Pop
  /\ ip' = Back.end
  /\ UNCHANGED <<phis, defined, status>>

NoElse ==
  /\ Returned({"ifNext"})
  /\ NoCreate
  /\ Terminate({Body}, {<<Body, Top.after>>})
  /\ blocks' = WithBody(Top.after)
  /\ Pop
  /\ ip' = Body
  /\ UNCHANGED <<phis, defined, status>>

-----------------------------------------------------------------------------
(* Repeat statements. *)

\* Six blocks in order of creation; the loop is named by its repeatCond.
RepeatStmt ==
  /\ AtStmt
  /\ LET init  == NumBBs + 1
         cond  == NumBBs + 2
         after == NumBBs + 6
     IN  /\ Create(<<BB("repeatInit"), LoopBB("repeatCond", cond),
                     LoopBB("repeatIncr", cond), LoopBB("repeatBodyEntry", cond),
                     LoopBB("repeatBodyEnd", cond), BB("repeatAfter")>>,
                   getEnclosingFunc)
         /\ Terminate({Body}, {<<Body, init>>})
         /\ blocks' = Append(blocks, CompBlock(init, after))
         /\ \E fn \in {"repeatCount", "repeatForever"} :
              Push(Call(fn, Depth + 1, after, 0, 0, cond))
  /\ ip' = Body
  /\ UNCHANGED <<phis, defined, status>>

\* The count, if any, has been evaluated: connect the header, start the body.
RepeatBody ==
  /\ Returned({"repeatCount", "repeatForever"})
  /\ NoCreate
  /\ LET cond  == Top.cond
         incr  == cond + 1
         entry == cond + 2
         end   == cond + 3
         exits == IF Top.fn = "repeatCount" THEN {entry, Top.after} ELSE {entry}
     IN  /\ Terminate({Body, cond, incr},
                      {<<Body, cond>>, <<incr, cond>>} \cup ({cond} \X exits))
         /\ blocks' = Append(Front(blocks),
                             LoopBlock(entry, end, cond, incr, Top.after))
         /\ Become(Call("repeat", Depth, Top.after, 0, 0, cond))
         /\ ip' = incr
  /\ UNCHANGED <<phis, defined, status>>

RepeatEnd ==
  /\ Returned({"repeat"})
  /\ NoCreate
  /\ Terminate({Body, Back.end},
               {<<Body, Back.end>>, <<Back.end, Top.cond + 1>>})
  /\ blocks' = PopTo(Top.after)
  /\ Pop
  /\ ip' = Back.end
  /\ UNCHANGED <<phis, defined, status>>

-----------------------------------------------------------------------------
(* Jumps: each leaves a fresh block for whatever the source puts after it. *)

\* The block that takes the place of the one the jump has just closed.
Resume_Same(fresh) == blocks
Resume(fresh) == WithBody(fresh)

Jump(kind, succ) ==
  /\ Create(<<BB(kind)>>, getEnclosingFunc)
  /\ Terminate({Body}, {Body} \X succ)
  /\ blocks' = Resume(NumBBs + 1)
  /\ ip' = Body
  /\ UNCHANGED <<calls, phis, defined, status>>

ContinueStmt ==
  AtStmt /\ InLoop /\ Jump("continueAfter", {getEnclosingLoopBlock.continue_})

BreakStmt ==
  AtStmt /\ InLoop /\ Jump("breakAfter", {getEnclosingLoopBlock.break_})

\* assert(false && "no loop block found")
JumpOutsideLoop == AtStmt /\ ~InLoop /\ Assertion("no loop block found")

GlobalReturnStmt ==
  AtStmt /\ isFunctionalGlobal /\ Jump("globalReturnAfter", {})

\* generateFuncReturnStmt generates the value first ...
FuncReturnStmt ==
  /\ AtStmt
  /\ ~isFunctionalGlobal
  /\ Push(Call("return", Depth, 0, 0, 0, 0))
  /\ UNCHANGED <<blocks, module, ip, defined, status>>

\* ... and then leaves through the end block of the function.
FuncReturnValue ==
  /\ Returned({"return"})
  /\ Create(<<BB("funcReturnAfter")>>, getEnclosingFunc)
  /\ Terminate({Body}, {<<Body, getEnclosingFuncBlock.end>>})
  /\ blocks' = Resume(NumBBs + 1)
  /\ Pop
  /\ ip' = Body
  /\ UNCHANGED <<phis, defined, status>>

\* A goto is a call of the label's function followed by a return.
GotoStmt ==
  AtStmt /\ isFunctionalGlobal /\ Labels # {} /\ Jump("gotoAfter", {})

\* A gosub is a call and stays in the block.
GosubStmt ==
  /\ AtStmt
  /\ isFunctionalGlobal
  /\ Labels # {}
  /\ ip' = Body
  /\ UNCHANGED <<blocks, calls, module, defined, status>>

\* assert(isFunctionalGlobal() && "goto should be global[stub]")
LabelJumpInFunc ==
  /\ AtStmt /\ ~isFunctionalGlobal /\ Labels # {}
  /\ Assertion("goto should be global")

-----------------------------------------------------------------------------
(* Labels and functions. *)

\* generateGlobalDecl declared a function for each label of a global scope.
\* The label starts that function: the rest of the transfer unit, its end
\* block included, moves there, and the function so far calls it and returns.
LabelStmt ==
  /\ status = "run"
  /\ Top.fn = "unit"
  /\ \E l \in Labels \ defined :
       LET entry == NumBBs + 1
       IN  /\ bbs' = Append(bbs, BB("labelEntry"))
           /\ owner' = [b \in 1..(NumBBs + 1) |->
                          CASE b = entry    -> l
                            [] b = Back.end -> EndOwner(l, b)
                            [] OTHER        -> owner[b]]
           /\ Terminate({Body}, {})
           /\ blocks' = [blocks EXCEPT ![1].func = l, ![1].body = entry]
           /\ defined' = defined \cup {l}
           /\ ip' = entry
  /\ UNCHANGED <<calls, phis, stmts, status>>

\* A label inside a compound statement, a branch, a loop or a function is in a
\* LocalScope, for which generateGlobalDecl declared nothing.
LocalLabelStmt ==
  /\ AtStmt
  /\ Top.fn # "unit"
  /\ Assertion(IF isFunctionalGlobal THEN "func != NULL"
                                     ELSE "isFunctionalGlobal()")

FuncDefStmt ==
  /\ status = "run"
  /\ Top.fn = "unit"
  /\ \E f \in Funcs \ defined :
       LET entry == NumBBs + 1
           end   == NumBBs + 2
       IN  /\ Create(<<BB("funcBlockEntry"), BB("funcBlockEnd")>>, f)
           /\ blocks' = Append(blocks, FuncBlock(f, entry, end))
           /\ defined' = defined \cup {f}
           \* the insertion point moves when there are parameters or a result
           /\ ip' \in {ip, entry}
  /\ Push(Call("func", Depth + 1, 0, 0, 0, 0))
  /\ NoBranch
  /\ UNCHANGED <<phis, stmts, status>>

FuncEnd ==
  /\ Returned({"func"})
  /\ NoCreate
  /\ Terminate({Body, Back.end}, {<<Body, Back.end>>})
  /\ blocks' = Front(blocks)
  /\ Pop
  /\ ip' = Back.end
  /\ UNCHANGED <<phis, defined, status>>

TransUnitEnd ==
  /\ Returned({"unit"})
  /\ Labels \cup Funcs \subseteq defined
  /\ NoCreate
  /\ Terminate({Body, Back.end}, {<<Body, Back.end>>})
  /\ blocks' = Front(blocks)
  /\ Pop
  /\ ip' = Back.end
  /\ status' = "done"
  /\ UNCHANGED <<phis, defined>>

-----------------------------------------------------------------------------
(* Expressions. *)

\* A statement that evaluates expressions in the current block: a call, an
\* assignment, a variable definition.
ExprStmt ==
  /\ AtStmt
  /\ Push(Call("exprStmt", Depth, 0, 0, 0, 0))
  /\ UNCHANGED <<blocks, module, ip, defined, status>>

ExprStmtEnd ==
  /\ Returned({"exprStmt"})
  /\ Pop
  /\ ip' = Body
  /\ UNCHANGED <<blocks, module, defined, status>>

\* Any generate* that sets the insertion point to the body and emits there.
Instr ==
  /\ Returned(ExprCalls)
  /\ ip # Body
  /\ ip' = Body
  /\ UNCHANGED <<blocks, calls, module, defined, status>>

\* Logical & and | on Bool: the right-hand side has a block of its own.
LogicExpr ==
  /\ AtExpr
  /\ Create(<<BB("logicRhs"), BB("logicAfter")>>, getEnclosingFunc)
  /\ Push(Call("logicLhs", Depth, NumBBs + 2, 0, NumBBs + 1, 0))
  /\ NoBranch
  /\ UNCHANGED <<blocks, phis, ip, defined, status>>

LogicRhs ==
  /\ Returned({"logicLhs"})
  /\ NoCreate
  /\ Terminate({Body}, {<<Body, Top.head>>, <<Body, Top.after>>})
  /\ blocks' = WithBody(Top.head)
  /\ Become(Call("logicRhs", Depth, Top.after, Body, Top.head, 0))
  /\ ip' = Top.head
  /\ UNCHANGED <<phis, defined, status>>

\* The blocks the PHI names: those current when each side had been evaluated.
PhiIncoming_Entry(lhs, rhs) == {lhs, Top.head}
PhiIncoming(lhs, rhs) == {lhs, rhs}

LogicEnd ==
  /\ Returned({"logicRhs"})
  /\ NoCreate
  /\ Terminate({Body}, {<<Body, Top.after>>})
  /\ phis' = phis \cup {[at       |-> Top.after,
                         incoming |-> PhiIncoming(Top.prevBody, Body)]}
  /\ blocks' = WithBody(Top.after)
  /\ Pop
  /\ ip' = Top.after
  /\ UNCHANGED <<defined, status>>

\* Constructing an array of a given length: a loop that constructs elements.
ArrayLoop ==
  /\ AtExpr
  /\ LET cond  == NumBBs + 1
         body  == NumBBs + 2
         after == NumBBs + 3
     IN  /\ Create(<<BB("arrayLoopCond"), BB("arrayLoopBody"),
                     BB("arrayLoopAfter")>>, getEnclosingFunc)
         /\ Terminate({Body, cond},
                      {<<Body, cond>>, <<cond, body>>, <<cond, after>>})
         /\ blocks' = WithBody(body)
         /\ Push(Call("arrayLoop", Depth, after, 0, 0, cond))
         /\ ip' = body
  /\ UNCHANGED <<phis, defined, status>>

\* The insertion point follows the body to arrayLoopAfter.
ArrayLoopIp_Stale == ip' = Body
ArrayLoopIp == ip' = Top.after

ArrayLoopEnd ==
  /\ Returned({"arrayLoop"})
  /\ NoCreate
  /\ Terminate({Body}, {<<Body, Top.cond>>})
  /\ blocks' = WithBody(Top.after)
  /\ Pop
  /\ ArrayLoopIp
  /\ UNCHANGED <<phis, defined, status>>

\* Subscripts, members, array literals, reference and string initialisers set
\* the insertion point once, evaluate operands, and emit where it then stands.
InPlaceExpr ==
  /\ AtExpr
  /\ Push(Call("inPlace", Depth, 0, 0, 0, 0))
  /\ ip' = Body
  /\ UNCHANGED <<blocks, module, defined, status>>

InPlaceEnd ==
  /\ Returned({"inPlace"})
  /\ Pop
  /\ UNCHANGED <<blocks, module, ip, defined, status>>

-----------------------------------------------------------------------------
generateStmt ==
  \/ CompStmt \/ CompEnd
  \/ IfStmt \/ IfThen \/ IfThenEnd \/ ElseIf \/ ElseThen \/ ElseThenEnd \/ NoElse
  \/ RepeatStmt \/ RepeatBody \/ RepeatEnd
  \/ ContinueStmt \/ BreakStmt \/ JumpOutsideLoop
  \/ GlobalReturnStmt \/ FuncReturnStmt \/ FuncReturnValue
  \/ GotoStmt \/ GosubStmt \/ LabelJumpInFunc
  \/ LabelStmt \/ LocalLabelStmt
  \/ FuncDefStmt \/ FuncEnd
  \/ ExprStmt \/ ExprStmtEnd

generateExpr ==
  \/ Instr
  \/ LogicExpr \/ LogicRhs \/ LogicEnd
  \/ ArrayLoop \/ ArrayLoopEnd
  \/ InPlaceExpr \/ InPlaceEnd

\* The compiler has stopped, at the end of the program or at an assertion.
Stopped == status # "run" /\ UNCHANGED vars

Next == generateStmt \/ generateExpr \/ TransUnitEnd \/ Stopped

Spec == Init /\ [][Next]_vars

-----------------------------------------------------------------------------
(* Properties. *)

FuncBlockType == [type : {"GLOBAL_BLOCK", "FUNC_BLOCK"}, func : FuncNames,
                  body : Nat, end : Nat, continue_ : Nat, break_ : Nat]
InnerBlockType == [type : {"COMP_BLOCK", "LOOP_BLOCK"}, func : {NULL},
                   body : Nat, end : Nat, continue_ : Nat, break_ : Nat]
BlockType == FuncBlockType \cup InnerBlockType
CallType == [fn : CallKinds, depth : Nat, after : Nat, prevBody : Nat,
             head : Nat, cond : Nat]

\* Types of the deque, the activations and the module.
TypeOK ==
  /\ blocks \in Seq(BlockType)
  /\ calls \in Seq(CallType)
  /\ bbs \in Seq([kind : Kinds, loop : Nat])
  /\ owner \in [BBs -> FuncNames]
  /\ closed \subseteq BBs /\ reclosed \subseteq BBs
  /\ edges \subseteq Nat \X Nat
  /\ phis \subseteq [at : Nat, incoming : SUBSET Nat]
  /\ ip \in Nat
  /\ defined \subseteq Labels \cup Funcs
  /\ stmts \in 0..MaxStmts
  /\ status \in {"run", "done", "no loop block found", "func != NULL",
                 "goto should be global", "isFunctionalGlobal()"}

\* Every generate* emits into blocks.back().body: while the compiler runs that
\* block never has a terminator yet, whatever jump or nested construct came
\* before, so no instruction lands behind a terminator.
BodyIsOpen == status = "run" => Body \notin closed

\* No basic block ever gets two terminators, though the blocks of an unfinished
\* if, repeat or && are connected by activations far apart; and when the module
\* is printed each block of each function has its terminator.
OneTerminatorEach ==
  /\ reclosed = {}
  /\ status = "done" => closed = BBs

\* A branch never leaves its LLVM function, although a label statement makes
\* the rest of the program, and the end block it returns through, part of
\* another function (generateLabelStmt, moveAfter).
BranchesStayInFunction == \A e \in edges : owner[e[1]] = owner[e[2]]

Parent(loop) == IF loop = 0 THEN 0 ELSE bbs[loop - 1].loop

\* Control enters the body of a repeat only through its repeatCond, and leaves
\* it only for the repeatAfter of the same, innermost, repeat or for the end of
\* the function: break and continue never act on an outer loop, though they
\* find theirs by searching a deque that also holds compounds and branches.
JumpsReachTheirLoop ==
  \A e \in edges :
    LET from == bbs[e[1]].loop
        to   == bbs[e[2]].loop
    IN  \/ from = to
        \/ bbs[e[2]].kind = "repeatCond" /\ from = Parent(to)
        \/ bbs[e[2]].kind = "repeatAfter" /\ to = Parent(from)
        \/ bbs[e[2]].kind = "funcBlockEnd"

\* Inside a loop repeatCond is reached only through repeatIncr: a continue
\* counts its round, or `repeat n' would never end.
EveryRoundIsCounted ==
  \A e \in edges :
    bbs[e[2]].kind = "repeatCond" =>
      bbs[e[1]].loop = bbs[e[2]].loop <=> bbs[e[1]].kind = "repeatIncr"

\* A PHI node lists exactly the predecessors of its block, also when an operand
\* of & or | contains operators or array constructions that move the current
\* block ("current block might be changed after the evaluation").
PhisMatchPredecessors ==
  \A phi \in phis : phi.incoming = {e[1] : e \in {d \in edges : d[2] = phi.at}}

\* Code that sets the insertion point once and emits again after its operands
\* (generateSubscrExpr, generateMemberExpr, array literals) still emits into
\* the current block, although an operand may have moved it.
InsertPointFollowsBody ==
  status = "run" /\ Top.fn = "inPlace" => ip = Body
==============================================================================
