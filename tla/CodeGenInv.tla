------------------------------ MODULE CodeGenInv ------------------------------
(***************************************************************************)
(* Why LLVMCodeGen connects every basic block exactly once: an inductive   *)
(* invariant of CodeGen.                                                   *)
(*                                                                         *)
(* At every moment each block without a terminator is either the current   *)
(* body or is held by exactly one activation of a generate* function, in   *)
(* a local variable or through the Block it pushed.  The blocks an         *)
(* activation holds are exactly those it will have terminated, or handed   *)
(* on as the current body, by the time it returns.                         *)
(***************************************************************************)
EXTENDS CodeGen

\* Activations that have pushed a Block of their own.
Opening == StmtCalls \cup {"repeatCount", "repeatForever"}

\* Activations that hold the block to go on in when they have finished.
HoldAfter == {"ifCond", "ifNext", "ifThen", "elseThen", "repeatCount",
              "repeatForever", "repeat", "logicLhs", "logicRhs", "arrayLoop"}

\* The blocks activation c is responsible for, when the deque is bl.
Held(c, bl) ==
  UNION {
    IF c.fn \in HoldAfter THEN {c.after} ELSE {},
    IF c.fn \in {"ifThen", "elseThen"} THEN {c.prevBody} ELSE {},
    IF c.fn = "logicLhs" THEN {c.head} ELSE {},
    IF c.fn \in {"repeatCount", "repeatForever"}
      THEN {c.cond, c.cond + 1, c.cond + 2, c.cond + 3} ELSE {},
    IF c.fn \in StmtCalls THEN {bl[c.depth].end} ELSE {},
    IF c.fn = "func" THEN {bl[c.depth - 1].body} ELSE {}}

\* No block is held twice by the same activation.
HeldOnce(c, bl) ==
  /\ c.fn \in {"ifThen", "elseThen", "repeat"} => c.after # bl[c.depth].end
  /\ c.fn \in {"ifThen", "elseThen"} =>
       c.prevBody \notin {c.after, bl[c.depth].end}
  /\ c.fn = "logicLhs" => c.head # c.after
  /\ c.fn \in {"repeatCount", "repeatForever"} => c.after = c.cond + 4
  /\ c.fn = "func" => bl[c.depth - 1].body # bl[c.depth].end

\* The blocks B of the module are shared out between those that have a
\* terminator (cl), the current one (body) and the n activations (H).
SharedOut(H, n, body, cl, B) ==
  /\ cl \subseteq B /\ body \in B /\ body \notin cl
  /\ \A i \in 1..n : H[i] \subseteq B /\ body \notin H[i] /\ H[i] \cap cl = {}
  /\ \A i, j \in 1..n : i # j => H[i] \cap H[j] = {}
  /\ \A b \in B : b \in cl \/ b = body \/ \E i \in 1..n : b \in H[i]

Holdings(cs, bl) == [i \in 1..Len(cs) |-> Held(cs[i], bl)]

\* The shape of the C++ stack cs and the deque bl.
StackOK(cs, bl) ==
  /\ Len(cs) >= 1 /\ Len(bl) >= 1
  /\ cs[1].fn = "unit" /\ cs[1].depth = 1
  /\ bl[1].type = "GLOBAL_BLOCK"
  /\ cs[Len(cs)].depth = Len(bl)
  /\ \A i \in 1..Len(cs) : cs[i].depth \in 1..Len(bl)
  /\ \A i \in 2..Len(cs) :
       /\ cs[i].fn # "unit"
       /\ cs[i].fn \in Opening => cs[i].depth = cs[i - 1].depth + 1
       /\ cs[i].fn \notin Opening => cs[i].depth = cs[i - 1].depth
       /\ cs[i].fn = "func" => i = 2
  /\ \A i, j \in 1..Len(cs) :
       i < j => /\ cs[i].depth <= cs[j].depth
                /\ cs[j].fn \in Opening => cs[i].depth < cs[j].depth

Running ==
  /\ StackOK(calls, blocks)
  /\ SharedOut(Holdings(calls, blocks), Len(calls), Body, closed, BBs)
  /\ \A i \in 1..Len(calls) : HeldOnce(calls[i], blocks)

\* The inductive invariant: while the compiler runs, the open blocks are shared
\* out; no block was closed twice, and none is left open at the end.
Inv ==
  /\ TypeOK
  /\ reclosed = {}
  /\ status = "run" => Running
  /\ status = "done" => closed = BBs
==============================================================================
