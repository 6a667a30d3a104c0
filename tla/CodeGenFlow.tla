------------------------------ MODULE CodeGenFlow ------------------------------
(***************************************************************************)
(* Why the branches LLVMCodeGen emits are the right ones: an inductive     *)
(* invariant of CodeGen about where each basic block is.                   *)
(*                                                                         *)
(* The place of a block is the repeat statement and the LLVM function it   *)
(* belongs to.  Every block that an activation of a generate* function     *)
(* will still branch from or to is of the kind its local variable says and *)
(* in the place of that activation, and so is the current block: the       *)
(* deque of Blocks and the stack of activations agree on what encloses     *)
(* what.                                                                   *)
(***************************************************************************)
EXTENDS CodeGenInv

Place(loop, func) == [loop |-> loop, func |-> func]

\* The repeat statement around what the first i activations generate.
LoopAt(cs, i) ==
  LET loops == {j \in 1..i : cs[j].fn = "repeat"}
  IN  IF loops = {} THEN 0 ELSE cs[Max(loops)].cond

\* The function it goes into; only activation 2 can be that of a "func".
FuncAt(cs, bl, i) ==
  IF i >= 2 /\ cs[2].fn = "func" THEN bl[2].func ELSE bl[1].func

PlaceAt(cs, bl, i) == Place(LoopAt(cs, i), FuncAt(cs, bl, i))

\* Block b of the module is of one of these kinds and in this place.
Located(bb, ow, b, kinds, place) ==
  /\ b \in 1..Len(bb)
  /\ bb[b].kind \in kinds
  /\ bb[b].loop = place.loop
  /\ ow[b] = place.func

\* The blocks that become the current one.
BodyKinds ==
  Kinds \ {"globalBlockEnd", "compBlockEnd", "funcBlockEnd", "arrayLoopCond",
           "repeatCond", "repeatIncr", "repeatBodyEnd"}

Repeats == {"repeatCount", "repeatForever", "repeat"}

\* What the local variables of activation c hold, which runs in `place'; the
\* activation that called it runs in `outer'.
Locals(c, bb, ow, place, outer) ==
  LET In(b, kind) == Located(bb, ow, b, {kind}, place)
      loop == Place(c.cond, outer.func)
  IN  /\ c.fn \in {"ifCond", "ifNext", "ifThen", "elseThen"} => In(c.after, "ifAfter")
      /\ c.fn \in {"ifThen", "elseThen"} =>
           /\ Located(bb, ow, c.prevBody, BodyKinds, place)
           /\ In(c.head, "compBlockEntry")
      /\ c.fn \in {"logicLhs", "logicRhs"} => In(c.after, "logicAfter")
      /\ c.fn = "logicLhs" => In(c.head, "logicRhs")
      /\ c.fn = "arrayLoop" => In(c.after, "arrayLoopAfter") /\ In(c.cond, "arrayLoopCond")
      /\ c.fn \in Repeats =>
           /\ Located(bb, ow, c.after, {"repeatAfter"}, outer)
           /\ Located(bb, ow, c.cond, {"repeatCond"}, loop)
           /\ Located(bb, ow, c.cond + 1, {"repeatIncr"}, loop)
           /\ Located(bb, ow, c.cond - 1, {"repeatInit"}, outer)
      /\ c.fn \in {"repeatCount", "repeatForever"} =>
           /\ Located(bb, ow, c.cond + 2, {"repeatBodyEntry"}, loop)
           /\ Located(bb, ow, c.cond + 3, {"repeatBodyEnd"}, loop)

\* What the Block that activation c pushed says; under is the one below it.
Pushed(c, x, under, bb, ow, place, outer) ==
  LET Ends(kind) == Located(bb, ow, x.end, {kind}, place)
  IN  /\ c.fn = "unit" => x.type = "GLOBAL_BLOCK" /\ Ends("globalBlockEnd")
      /\ c.fn = "func" => /\ x.type = "FUNC_BLOCK" /\ Ends("funcBlockEnd")
                          /\ Located(bb, ow, under.body, BodyKinds, outer)
      /\ c.fn \in {"comp", "ifThen", "elseThen"} =>
           x.type = "COMP_BLOCK" /\ Ends("compBlockEnd")
      /\ c.fn \in {"repeatCount", "repeatForever"} => x.type = "COMP_BLOCK"
      /\ c.fn = "repeat" => /\ x.type = "LOOP_BLOCK" /\ Ends("repeatBodyEnd")
                            /\ x.continue_ = c.cond + 1
                            /\ x.break_ = c.after

\* Everything activation i of the stack is still to connect; a return statement
\* that generates its value is in a function.
Settled(cs, bl, bb, ow, i) ==
  LET place == PlaceAt(cs, bl, i)
      outer == IF i = 1 THEN place ELSE PlaceAt(cs, bl, i - 1)
  IN  /\ Locals(cs[i], bb, ow, place, outer)
      /\ cs[i].fn \in Opening =>
           Pushed(cs[i], bl[cs[i].depth], bl[cs[i].depth - 1], bb, ow, place, outer)
      /\ cs[i].fn = "return" => i >= 2 /\ cs[2].fn = "func"

-----------------------------------------------------------------------------
\* Every Block on the deque was pushed by an activation that is running.
EveryBlockHasItsCall(cs, bl) ==
  \A d \in 1..Len(bl) : \E i \in 1..Len(cs) : cs[i].fn \in Opening /\ cs[i].depth = d

\* Statements are generated by those that generate statements, expressions by
\* those that generate expressions, and only operators and arrays in those.
SubExprCalls == {"logicLhs", "logicRhs", "arrayLoop", "inPlace"}
Nests(outer, inner) ==
  /\ outer.fn \in StmtCalls \cup ExprCalls
  /\ outer.fn \in ExprCalls <=> inner.fn \in SubExprCalls

\* An edge of the control-flow graph of an unfinished module.
GoodEdge(bb, ow, e) ==
  LET from == bb[e[1]]
      to   == bb[e[2]]
  IN  /\ e[1] \in 1..Len(bb) /\ e[2] \in 1..Len(bb)
      /\ ow[e[1]] = ow[e[2]]
      /\ from.kind # "globalBlockEnd" /\ to.kind # "globalBlockEnd"
      /\ \/ from.loop = to.loop /\ to.kind # "repeatCond"
         \/ from.loop = to.loop /\ to.kind = "repeatCond" /\ from.kind = "repeatIncr"
         \/ /\ from.loop # to.loop /\ to.kind = "repeatCond" /\ from.kind # "repeatIncr"
            /\ to.loop - 1 \in 1..Len(bb) /\ from.loop = bb[to.loop - 1].loop
         \/ /\ to.kind = "repeatAfter" /\ from.loop - 1 \in 1..Len(bb)
            /\ to.loop = bb[from.loop - 1].loop
         \/ to.kind = "funcBlockEnd"

Preds(es, b) == {e[1] : e \in {d \in es : d[2] = b}}

\* A PHI node names the predecessors of its block; the block that the PHI node
\* of a running activation will be in has those it has given it.
PhisOK(cs, bb, es, ph) ==
  /\ \A phi \in ph : /\ phi.at \in 1..Len(bb) /\ bb[phi.at].kind = "logicAfter"
                     /\ phi.incoming = Preds(es, phi.at)
  /\ \A i \in 1..Len(cs) :
       /\ cs[i].fn = "logicLhs" => Preds(es, cs[i].after) = {}
       /\ cs[i].fn = "logicRhs" => Preds(es, cs[i].after) = {cs[i].prevBody}
       /\ cs[i].fn \in {"logicLhs", "logicRhs"} => \A phi \in ph : phi.at # cs[i].after

Flowing ==
  /\ EveryBlockHasItsCall(calls, blocks)
  /\ \A i \in 1..(Len(calls) - 1) : Nests(calls[i], calls[i + 1])
  /\ \A i \in 1..Len(calls) : Settled(calls, blocks, bbs, owner, i)
  /\ Located(bbs, owner, Body, BodyKinds, PlaceAt(calls, blocks, Len(calls)))
  /\ \A b \in BBs : bbs[b].loop <= b
  /\ \A e \in edges : GoodEdge(bbs, owner, e)
  /\ PhisOK(calls, bbs, edges, phis)
  /\ InsertPointFollowsBody

\* The inductive invariant.  Once the compiler has stopped, nothing moves.
FlowInv ==
  /\ Inv
  /\ status = "run" => Flowing
  /\ BranchesStayInFunction
  /\ JumpsReachTheirLoop
  /\ EveryRoundIsCounted
  /\ PhisMatchPredecessors
==============================================================================
