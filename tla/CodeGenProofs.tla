----------------------------- MODULE CodeGenProofs -----------------------------
(***************************************************************************)
(* Proofs about CodeGen and CodeGenFlow, for every program: first type     *)
(* correctness, and that every basic block gets exactly one terminator;    *)
(* then that branches keep to their function and to their repeat           *)
(* statement, PHI nodes name their predecessors, and the insertion point   *)
(* follows the current block.                                              *)
(***************************************************************************)
EXTENDS CodeGenFlow, TLAPS, WellFoundedInduction

-----------------------------------------------------------------------------
(* Sets of indices and sequences. *)

\* A nonempty set of indices has a greatest element (getEnclosing* finds one).
LEMMA MaxOfIndices ==
  ASSUME NEW n \in Nat, NEW S \in SUBSET (1..n), S # {}
  PROVE  Max(S) \in S /\ \A i \in S : Max(S) >= i
PROOF
  <1> DEFINE T == {m \in Nat : \E i \in S : m = n - i}
  <1>1. PICK i \in S : TRUE
    OBVIOUS
  <1>2. n - i \in T
    OBVIOUS
  <1>3. PICK m \in T : \A y \in T : ~(<<y, m>> \in OpToRel(<, Nat))
    <2>1. T \subseteq Nat /\ T # {}
      BY <1>2
    <2> HIDE DEF T
    <2>. QED  BY <2>1, NatLessThanWellFounded, WFMin
  <1>4. \A y \in T : ~(y < m)
    BY <1>3 DEF OpToRel
  <1>5. PICK k \in S : m = n - k
    OBVIOUS
  <1>6. \A j \in S : k >= j
    <2> TAKE j \in S
    <2>1. n - j \in T
      OBVIOUS
    <2>2. ~(n - j < m)
      BY <2>1, <1>4
    <2>. QED  BY <2>2, <1>5
  <1>. QED  BY <1>6 DEF Max

\* What pop_back leaves.
LEMMA FrontFacts ==
  ASSUME NEW S, NEW s \in Seq(S), Len(s) >= 1
  PROVE  /\ Front(s) \in Seq(S)
         /\ Len(Front(s)) = Len(s) - 1
         /\ \A i \in 1..(Len(s) - 1) : Front(s)[i] = s[i]
PROOF
  <1>1. Front(s) = [i \in 1..(Len(s) - 1) |-> s[i]]
    BY DEF Front
  <1>2. Len(s) - 1 \in Nat
    OBVIOUS
  <1>3. \A i \in 1..(Len(s) - 1) : s[i] \in S
    OBVIOUS
  <1>. QED  BY <1>1, <1>2, <1>3

\* What push_back does.
LEMMA AppendFacts ==
  ASSUME NEW S, NEW s \in Seq(S), NEW x \in S
  PROVE  /\ Append(s, x) \in Seq(S)
         /\ Len(Append(s, x)) = Len(s) + 1
         /\ \A i \in 1..Len(s) : Append(s, x)[i] = s[i]
         /\ Append(s, x)[Len(s) + 1] = x
PROOF OBVIOUS

\* Updating the last element, as blocks.back() = x does.
LEMMA ExceptFacts ==
  ASSUME NEW S, NEW s \in Seq(S), NEW x \in S, NEW k \in 1..Len(s)
  PROVE  /\ [s EXCEPT ![k] = x] \in Seq(S)
         /\ Len([s EXCEPT ![k] = x]) = Len(s)
         /\ \A i \in 1..Len(s) : i # k => [s EXCEPT ![k] = x][i] = s[i]
         /\ [s EXCEPT ![k] = x][k] = x
PROOF OBVIOUS

-----------------------------------------------------------------------------
(* Sharing out the blocks. *)

\* A step moves blocks between the terminated ones (to which it adds C), the
\* current one and the activation at the top of the stack: those beyond k, at
\* most one in H (before) and at most one in G (after).  It accounts for all
\* it takes: the current block, what the top activation held, and new blocks.
Exchanged(H, G, n, m, k, B, B2, body, body2, C) ==
  LET Mine == IF m = k THEN {} ELSE G[m]
  IN  /\ k \in Nat /\ n \in {k, k + 1} /\ m \in {k, k + 1}
      /\ \A i \in 1..k : G[i] = H[i]
      /\ B \subseteq B2
      /\ C \cup Mine \cup {body2} =
           (IF n = k THEN {} ELSE H[n]) \cup {body} \cup (B2 \ B)
      /\ body2 \notin Mine \cup C
      /\ C \cap Mine = {}

\* Then the blocks stay shared out, and none is terminated again.
LEMMA Exchange ==
  ASSUME NEW H, NEW G, NEW n, NEW m, NEW k, NEW B, NEW B2,
         NEW body, NEW body2, NEW cl, NEW C,
         SharedOut(H, n, body, cl, B),
         Exchanged(H, G, n, m, k, B, B2, body, body2, C)
  PROVE  /\ SharedOut(G, m, body2, cl \cup C, B2)
         /\ cl \cap C = {}
PROOF
  <1> DEFINE Top1 == IF n = k THEN {} ELSE H[n]
             Top2 == IF m = k THEN {} ELSE G[m]
             Old == Top1 \cup {body} \cup (B2 \ B)
  <1>0. /\ k \in Nat /\ n \in {k, k + 1} /\ m \in {k, k + 1}
        /\ \A i \in 1..k : G[i] = H[i]
        /\ B \subseteq B2
        /\ Old = C \cup Top2 \cup {body2}
        /\ body2 \notin Top2 /\ body2 \notin C /\ C \cap Top2 = {}
    BY DEF Exchanged
  <1>1. Old \subseteq B2 /\ Old \cap cl = {}
    BY <1>0 DEF SharedOut
  <1>2. \A i \in 1..k : H[i] \cap Old = {} /\ H[i] \subseteq B /\ H[i] \cap cl = {}
    BY <1>0 DEF SharedOut
  <1>3. \A i, j \in 1..k : i # j => H[i] \cap H[j] = {}
    BY <1>0 DEF SharedOut
  <1>4. \A b \in B2 : b \in Old \/ b \in cl \/ \E i \in 1..k : b \in H[i]
    BY <1>0 DEF SharedOut
  <1>5. cl \subseteq B
    BY DEF SharedOut
  <1>6. \A i \in 1..m : i \in 1..k \/ (i = m /\ G[i] = Top2)
    BY <1>0
  <1>7. m \in 1..k \/ Top2 = {} \/ (m \in 1..m /\ G[m] = Top2)
    BY <1>0
  <1> HIDE DEF Old, Top1, Top2
  <1>9. \A i \in 1..m : /\ G[i] \subseteq B2
                        /\ body2 \notin G[i]
                        /\ G[i] \cap (cl \cup C) = {}
    BY <1>0, <1>1, <1>2, <1>6
  <1>10. \A i, j \in 1..m : i # j => G[i] \cap G[j] = {}
    BY <1>0, <1>2, <1>3, <1>6
  <1>11. \A b \in B2 : b \in cl \cup C \/ b = body2 \/ \E i \in 1..m : b \in G[i]
    <2> TAKE b \in B2
    <2>1. CASE b \in Old
      <3>1. CASE b \in Top2
        <4>1. m \in 1..k \/ (m \in 1..m /\ G[m] = Top2)
          BY <3>1, <1>7
        <4>2. m \in 1..m
          BY <4>1, <1>0
        <4>3. m \in 1..k => m = k /\ Top2 = {}
          BY <1>0 DEF Top2
        <4>. QED  BY <3>1, <4>1, <4>2, <4>3
      <3>. QED  BY <2>1, <3>1, <1>0
    <2>2. CASE \E i \in 1..k : b \in H[i]
      BY <2>2, <1>0
    <2>. QED  BY <2>1, <2>2, <1>4
  <1>. QED  BY <1>0, <1>1, <1>5, <1>9, <1>10, <1>11 DEF SharedOut

\* The blocks held by each kind of activation.
LEMMA HeldBy ==
  ASSUME NEW c, NEW bl
  PROVE  /\ c.fn \in {"exprStmt", "return", "inPlace"} => Held(c, bl) = {}
         /\ c.fn \in {"unit", "comp"} => Held(c, bl) = {bl[c.depth].end}
         /\ c.fn \in {"ifCond", "ifNext", "logicRhs", "arrayLoop"} =>
              Held(c, bl) = {c.after}
         /\ c.fn \in {"ifThen", "elseThen"} =>
              Held(c, bl) = {c.after, c.prevBody, bl[c.depth].end}
         /\ c.fn \in {"repeatCount", "repeatForever"} =>
              Held(c, bl) = {c.after, c.cond, c.cond + 1, c.cond + 2, c.cond + 3}
         /\ c.fn = "repeat" => Held(c, bl) = {c.after, bl[c.depth].end}
         /\ c.fn = "logicLhs" => Held(c, bl) = {c.after, c.head}
         /\ c.fn = "func" =>
              Held(c, bl) = {bl[c.depth].end, bl[c.depth - 1].body}
PROOF
  <1>1. Held(c, bl) =
          (IF c.fn \in HoldAfter THEN {c.after} ELSE {})
          \cup (IF c.fn \in {"ifThen", "elseThen"} THEN {c.prevBody} ELSE {})
          \cup (IF c.fn = "logicLhs" THEN {c.head} ELSE {})
          \cup (IF c.fn \in {"repeatCount", "repeatForever"}
                  THEN {c.cond, c.cond + 1, c.cond + 2, c.cond + 3} ELSE {})
          \cup (IF c.fn \in StmtCalls THEN {bl[c.depth].end} ELSE {})
          \cup (IF c.fn = "func" THEN {bl[c.depth - 1].body} ELSE {})
    BY DEF Held
  <1>. QED  BY <1>1 DEF HoldAfter, StmtCalls

\* What Running says, of any stack and deque.
Connected(cs, bl, cl, B) ==
  /\ StackOK(cs, bl)
  /\ SharedOut(Holdings(cs, bl), Len(cs), bl[Len(bl)].body, cl, B)
  /\ \A i \in 1..Len(cs) : HeldOnce(cs[i], bl)

\* The deque bl2 agrees with bl on the Blocks up to p, but for the body of p.
Agree(bl, bl2, p) ==
  /\ p \in 1..Len(bl) /\ p <= Len(bl2)
  /\ \A d \in 1..p : bl2[d].end = bl[d].end /\ bl2[d].type = bl[d].type
  /\ \A d \in 1..(p - 1) : bl2[d].body = bl[d].body

\* The activations up to k hold what they held, if the deque agrees.
Below(cs, cs2, bl, bl2, k) ==
  /\ StackOK(cs, bl)
  /\ k \in 1..Len(cs)
  /\ \A i \in 1..k : cs2[i] = cs[i]
  /\ Agree(bl, bl2, cs[k].depth)

LEMMA HeldFrame ==
  ASSUME NEW cs, NEW cs2, NEW bl, NEW bl2, NEW k,
         Below(cs, cs2, bl, bl2, k)
  PROVE  \A i \in 1..k : /\ Held(cs2[i], bl2) = Held(cs[i], bl)
                         /\ HeldOnce(cs[i], bl) => HeldOnce(cs2[i], bl2)
PROOF
  <1> TAKE i \in 1..k
  <1>1. cs2[i] = cs[i] /\ StackOK(cs, bl) /\ Agree(bl, bl2, cs[k].depth)
    BY DEF Below
  <1>2. /\ cs[i].depth \in 1..cs[k].depth
        /\ i \in 1..Len(cs) /\ cs[k].depth \in 1..Len(bl)
    BY DEF StackOK, Below
  <1>3. bl2[cs[i].depth].end = bl[cs[i].depth].end
    BY <1>1, <1>2 DEF Agree
  <1>4. cs[i].fn = "func" => bl2[cs[i].depth - 1].body = bl[cs[i].depth - 1].body
    <2> SUFFICES ASSUME cs[i].fn = "func"
                 PROVE  bl2[cs[i].depth - 1].body = bl[cs[i].depth - 1].body
      OBVIOUS
    <2>1. i = 2
      BY <1>1, <1>2 DEF StackOK
    <2>2. cs[i].depth = cs[1].depth + 1 /\ cs[1].depth = 1
      BY <2>1, <1>1, <1>2 DEF StackOK, Opening, StmtCalls
    <2>. QED  BY <2>2, <1>1, <1>2 DEF Agree
  <1>5. Held(cs2[i], bl2) = Held(cs[i], bl)
    BY <1>1, <1>3, <1>4 DEF Held
  <1>6. HeldOnce(cs[i], bl) => HeldOnce(cs2[i], bl2)
    BY <1>1, <1>3, <1>4 DEF HeldOnce
  <1>. QED  BY <1>5, <1>6

-----------------------------------------------------------------------------
(* What every step does to the stack, the deque and the blocks. *)

\* The part of the stack beyond activation k changes, by at most one activation
\* before and one after; C is the set of blocks terminated.
Transfers(cs, bl, cs2, bl2, k, B, B2, C) ==
  LET n == Len(cs)
      m == Len(cs2)
      c == cs2[k + 1]
      p == cs[k].depth
      body2 == bl2[Len(bl2)].body
      Mine == IF m = k THEN {} ELSE Held(c, bl2)
  IN  /\ k \in 1..n /\ n \in {k, k + 1} /\ m \in {k, k + 1}
      /\ \A i \in 1..k : cs2[i] = cs[i]
      /\ Agree(bl, bl2, p)
      /\ m = k => Len(bl2) = p
      /\ m = k + 1 => /\ c.depth = Len(bl2)
                      /\ Len(bl2) = IF c.fn \in Opening THEN p + 1 ELSE p
                      /\ c.fn # "unit"
                      /\ c.fn = "func" => k = 1
                      /\ HeldOnce(c, bl2)
      /\ B \subseteq B2
      /\ C \cup Mine \cup {body2} =
           (IF n = k THEN {} ELSE Held(cs[k + 1], bl))
             \cup {bl[Len(bl)].body} \cup (B2 \ B)
      /\ body2 \notin Mine \cup C
      /\ C \cap Mine = {}

LEMMA TransferStack ==
  ASSUME NEW cs \in Seq(CallType), NEW cs2 \in Seq(CallType),
         NEW bl \in Seq(BlockType), NEW bl2 \in Seq(BlockType),
         NEW k, NEW B, NEW B2, NEW C, NEW cl,
         Connected(cs, bl, cl, B),
         Transfers(cs, bl, cs2, bl2, k, B, B2, C)
  PROVE  StackOK(cs2, bl2)
PROOF
  <1> DEFINE n == Len(cs)
             m == Len(cs2)
             c == cs2[k + 1]
             p == cs[k].depth
  <1>1. /\ k \in 1..n /\ n \in {k, k + 1} /\ m \in {k, k + 1}
        /\ \A i \in 1..k : cs2[i] = cs[i]
        /\ n \in Nat /\ m \in Nat /\ k \in Nat
    BY DEF Transfers
  <1>2. /\ p \in 1..Len(bl) /\ p <= Len(bl2)
        /\ \A d \in 1..p : bl2[d].type = bl[d].type
        /\ m = k => Len(bl2) = p
        /\ m = k + 1 => /\ c.depth = Len(bl2)
                        /\ Len(bl2) = IF c.fn \in Opening THEN p + 1 ELSE p
                        /\ c.fn # "unit"
                        /\ c.fn = "func" => k = 1
    BY DEF Transfers, Agree
  <1>3. StackOK(cs, bl)
    BY DEF Connected
  <1>4. \A i \in 1..k : cs[i].depth \in 1..p
    BY <1>1, <1>3 DEF StackOK
  <1>5. /\ cs2[1].fn = "unit" /\ cs2[1].depth = 1
        /\ bl2[1].type = "GLOBAL_BLOCK"
        /\ m >= 1 /\ Len(bl2) >= 1 /\ Len(bl2) \in Nat
    <2>1. /\ cs[1].fn = "unit" /\ cs[1].depth = 1 /\ bl[1].type = "GLOBAL_BLOCK"
          /\ Len(bl) \in Nat
      BY <1>3 DEF StackOK
    <2>2. cs2[1] = cs[1] /\ m >= 1
      BY <1>1
    <2>3. p >= 1 /\ bl2[1].type = bl[1].type
      BY <1>2, <2>1
    <2>4. Len(bl2) \in Nat
      BY <1>1, <1>2, <2>1
    <2>. QED  BY <1>2, <2>1, <2>2, <2>3, <2>4
  <1>6. cs2[m].depth = Len(bl2)
    BY <1>1, <1>2
  <1>7. \A i \in 1..m : cs2[i].depth \in 1..Len(bl2)
    <2> SUFFICES ASSUME NEW i \in 1..m PROVE cs2[i].depth \in 1..Len(bl2)
      OBVIOUS
    <2>1. CASE i \in 1..k
      <3>1. cs2[i].depth \in 1..p
        BY <1>1, <1>4, <2>1
      <3>. QED  BY <1>2, <1>5, <3>1
    <2>2. CASE i \notin 1..k
      <3>1. m = k + 1 /\ i = k + 1
        BY <1>1, <2>2
      <3>2. cs2[i].depth = Len(bl2)
        BY <1>2, <3>1
      <3>. QED  BY <1>5, <3>2
    <2>. QED  BY <2>1, <2>2
  <1>8. \A i \in 2..m :
          /\ cs2[i].fn # "unit"
          /\ cs2[i].fn \in Opening => cs2[i].depth = cs2[i - 1].depth + 1
          /\ cs2[i].fn \notin Opening => cs2[i].depth = cs2[i - 1].depth
          /\ cs2[i].fn = "func" => i = 2
    <2> TAKE i \in 2..m
    <2>1. CASE i = k + 1
      <3>1. cs2[i - 1] = cs[k] /\ cs2[i] = c /\ m = k + 1
        BY <2>1, <1>1
      <3>2. /\ c.depth = IF c.fn \in Opening THEN p + 1 ELSE p
            /\ c.fn # "unit"
            /\ c.fn = "func" => k = 1
        BY <3>1, <1>2
      <3>3. cs2[i - 1].depth = p /\ (k = 1 => i = 2)
        BY <2>1, <3>1
      <3> HIDE DEF c, p, m
      <3>. QED  BY <3>1, <3>2, <3>3
    <2>2. CASE i # k + 1
      <3>1. /\ i \in 2..n /\ i \in 1..k /\ i - 1 \in 1..k
        BY <2>2, <1>1
      <3>2. cs2[i] = cs[i] /\ cs2[i - 1] = cs[i - 1]
        BY <3>1, <1>1
      <3>. QED  BY <3>1, <3>2, <1>3 DEF StackOK
    <2>. QED  BY <2>1, <2>2
  <1>9. \A i, j \in 1..m :
          i < j => /\ cs2[i].depth <= cs2[j].depth
                   /\ cs2[j].fn \in Opening => cs2[i].depth < cs2[j].depth
    <2> SUFFICES ASSUME NEW i \in 1..m, NEW j \in 1..m, i < j
                 PROVE  /\ cs2[i].depth <= cs2[j].depth
                        /\ cs2[j].fn \in Opening => cs2[i].depth < cs2[j].depth
      OBVIOUS
    <2>1. i \in 1..k /\ i \in 1..n
      BY <1>1
    <2>2. CASE j = k + 1
      <3>1. cs2[j] = c /\ m = k + 1 /\ cs2[i].depth \in 1..p
        BY <2>1, <2>2, <1>1, <1>4
      <3>2. /\ c.depth = Len(bl2) /\ p <= Len(bl2) /\ p \in Nat
            /\ Len(bl2) = IF c.fn \in Opening THEN p + 1 ELSE p
        BY <3>1, <1>2
      <3>. QED  BY <3>1, <3>2
    <2>3. CASE j # k + 1
      <3>1. j \in 1..k /\ j \in 1..n
        BY <2>3, <1>1
      <3>. QED  BY <2>1, <3>1, <1>1, <1>3 DEF StackOK
    <2>. QED  BY <2>2, <2>3
  <1>. QED  BY <1>5, <1>6, <1>7, <1>8, <1>9 DEF StackOK

\* Blocks stay shared out along every step, and none gets two terminators.
LEMMA Transfer ==
  ASSUME NEW cs \in Seq(CallType), NEW cs2 \in Seq(CallType),
         NEW bl \in Seq(BlockType), NEW bl2 \in Seq(BlockType),
         NEW k, NEW B, NEW B2, NEW C, NEW cl,
         Connected(cs, bl, cl, B),
         Transfers(cs, bl, cs2, bl2, k, B, B2, C)
  PROVE  Connected(cs2, bl2, cl \cup C, B2) /\ cl \cap C = {}
PROOF
  <1> DEFINE n == Len(cs)
             m == Len(cs2)
             H == Holdings(cs, bl)
             G == Holdings(cs2, bl2)
             body == bl[Len(bl)].body
             body2 == bl2[Len(bl2)].body
  <1>1. /\ k \in 1..n /\ n \in {k, k + 1} /\ m \in {k, k + 1}
        /\ \A i \in 1..k : cs2[i] = cs[i]
        /\ n \in Nat /\ m \in Nat /\ k \in Nat /\ k <= m
        /\ Agree(bl, bl2, cs[k].depth)
        /\ m = k + 1 => HeldOnce(cs2[k + 1], bl2)
    BY DEF Transfers
  <1>2. /\ StackOK(cs, bl)
        /\ SharedOut(H, n, body, cl, B)
        /\ \A i \in 1..n : HeldOnce(cs[i], bl)
    BY DEF Connected
  <1>3. StackOK(cs2, bl2)
    BY TransferStack
  <1>4. \A i \in 1..k : /\ Held(cs2[i], bl2) = Held(cs[i], bl)
                        /\ HeldOnce(cs[i], bl) => HeldOnce(cs2[i], bl2)
    <2>1. Below(cs, cs2, bl, bl2, k)
      BY <1>1, <1>2 DEF Below
    <2>. QED  BY <2>1, HeldFrame
  <1>5. \A i \in 1..m : HeldOnce(cs2[i], bl2)
    BY <1>1, <1>2, <1>4
  <1>6. \A i \in 1..k : G[i] = H[i]
    BY <1>1, <1>4 DEF Holdings
  <1>7. /\ m = k + 1 => G[m] = Held(cs2[k + 1], bl2)
        /\ n = k + 1 => H[n] = Held(cs[k + 1], bl)
    BY <1>1 DEF Holdings
  <1>8. Exchanged(H, G, n, m, k, B, B2, body, body2, C)
    <2> HIDE DEF H, G
    <2>1. CASE m = k
      BY <2>1, <1>1, <1>6, <1>7 DEF Transfers, Exchanged
    <2>2. CASE m = k + 1
      BY <2>2, <1>1, <1>6, <1>7 DEF Transfers, Exchanged
    <2>. QED  BY <2>1, <2>2, <1>1
  <1> HIDE DEF n, m, H, G, body, body2
  <1>9. SharedOut(G, m, body2, cl \cup C, B2) /\ cl \cap C = {}
    BY <1>2, <1>8, Exchange
  <1>. QED  BY <1>3, <1>5, <1>9 DEF Connected, m, G, body2
-----------------------------------------------------------------------------
(* What is known of a state in which the compiler runs. *)

BBType == [kind : Kinds, loop : Nat]

LEMMA EnclosingFunc ==
  ASSUME blocks \in Seq(BlockType), Len(blocks) >= 1,
         blocks[1].type = "GLOBAL_BLOCK"
  PROVE  getEnclosingFuncBlock \in FuncBlockType
PROOF
  <1> DEFINE S == {i \in DOMAIN blocks :
                     blocks[i].type \in {"FUNC_BLOCK", "GLOBAL_BLOCK"}}
  <1>1. S \in SUBSET (1..Len(blocks)) /\ S # {} /\ Len(blocks) \in Nat
    OBVIOUS
  <1>2. Max(S) \in S
    <2> HIDE DEF S
    <2>. QED  BY <1>1, MaxOfIndices
  <1>3. /\ blocks[Max(S)] \in BlockType
        /\ blocks[Max(S)].type \in {"FUNC_BLOCK", "GLOBAL_BLOCK"}
    BY <1>2
  <1>4. blocks[Max(S)] \in FuncBlockType
    BY <1>3 DEF BlockType, FuncBlockType, InnerBlockType
  <1>. QED  BY <1>4 DEF getEnclosingFuncBlock, InnermostOf

LEMMA EnclosingLoop ==
  ASSUME blocks \in Seq(BlockType), InLoop
  PROVE  getEnclosingLoopBlock \in BlockType
PROOF
  <1> DEFINE S == {i \in DOMAIN blocks : blocks[i].type \in {"LOOP_BLOCK"}}
  <1>1. S \in SUBSET (1..Len(blocks)) /\ S # {} /\ Len(blocks) \in Nat
    BY DEF InLoop
  <1>2. Max(S) \in S
    <2> HIDE DEF S
    <2>. QED  BY <1>1, MaxOfIndices
  <1>. QED  BY <1>2 DEF getEnclosingLoopBlock, InnermostOf

LEMMA LexicalLoopType ==
  ASSUME calls \in Seq(CallType)
  PROVE  LexicalLoop \in Nat
PROOF
  <1> DEFINE S == {i \in DOMAIN calls : calls[i].fn = "repeat"}
  <1>1. S \in SUBSET (1..Len(calls)) /\ Len(calls) \in Nat
    OBVIOUS
  <1>2. CASE S = {}
    BY <1>2 DEF LexicalLoop
  <1>3. CASE S # {}
    <2>1. Max(S) \in S
      <3> HIDE DEF S
      <3>. QED  BY <1>1, <1>3, MaxOfIndices
    <2>2. calls[Max(S)] \in CallType
      BY <2>1
    <2>. QED  BY <2>2, <1>3 DEF LexicalLoop, CallType
  <1>. QED  BY <1>2, <1>3

LEMMA Facts ==
  ASSUME Inv, status = "run"
  PROVE  /\ blocks \in Seq(BlockType) /\ calls \in Seq(CallType)
         /\ Connected(calls, blocks, closed, BBs)
         /\ Len(calls) >= 1
         /\ Len(calls) \in Nat \ {0} /\ Depth \in Nat \ {0} /\ NumBBs \in Nat
         /\ Top \in CallType /\ Top = calls[Len(calls)] /\ Top.depth = Depth
         /\ Back \in BlockType /\ Back = blocks[Depth]
         /\ Body = blocks[Depth].body /\ Body \in BBs /\ Body \notin closed
         /\ Held(Top, blocks) \subseteq BBs
         /\ Body \notin Held(Top, blocks) /\ HeldOnce(Top, blocks)
         /\ getEnclosingFuncBlock \in FuncBlockType /\ LexicalLoop \in Nat
PROOF
  <1>1. /\ blocks \in Seq(BlockType) /\ calls \in Seq(CallType)
        /\ bbs \in Seq(BBType)
        /\ Connected(calls, blocks, closed, BBs)
    BY DEF Inv, TypeOK, Running, Connected, Body, Back, Last, BBType
  <1>2. StackOK(calls, blocks)
    BY <1>1 DEF Connected
  <1>3. /\ Len(calls) \in Nat \ {0} /\ Depth \in Nat \ {0} /\ NumBBs \in Nat
        /\ Top \in CallType /\ Top = calls[Len(calls)] /\ Top.depth = Depth
        /\ Back \in BlockType /\ Back = blocks[Depth]
        /\ Body = blocks[Depth].body
    BY <1>1, <1>2 DEF StackOK, Depth, Top, Back, Last, Body, NumBBs
  <1>4. SharedOut(Holdings(calls, blocks), Len(calls), Body, closed, BBs)
    BY <1>1, <1>3 DEF Connected, Depth
  <1>5. Holdings(calls, blocks)[Len(calls)] = Held(Top, blocks)
    BY <1>3 DEF Holdings
  <1>6. /\ Body \in BBs /\ Body \notin closed
        /\ Held(Top, blocks) \subseteq BBs /\ Body \notin Held(Top, blocks)
    BY <1>3, <1>4, <1>5 DEF SharedOut
  <1>7. HeldOnce(Top, blocks)
    BY <1>1, <1>3 DEF Connected
  <1>8. getEnclosingFuncBlock \in FuncBlockType
    BY <1>1, <1>2, EnclosingFunc DEF StackOK
  <1>. QED  BY <1>1, <1>3, <1>6, <1>7, <1>8, LexicalLoopType

\* How the function below the top relates to the top: what PopTo relies on.
LEMMA Caller ==
  ASSUME Inv, status = "run", Top.fn # "unit"
  PROVE  /\ Len(calls) >= 2
         /\ calls[Len(calls) - 1] \in CallType
         /\ calls[Len(calls) - 1].depth =
              IF Top.fn \in Opening THEN Depth - 1 ELSE Depth
         /\ calls[Len(calls) - 1].depth >= 1
         /\ Top.fn = "func" => Len(calls) = 2 /\ Depth = 2
PROOF
  <1>1. /\ calls \in Seq(CallType) /\ blocks \in Seq(BlockType)
        /\ Len(calls) \in Nat \ {0} /\ Depth \in Nat \ {0}
        /\ Top = calls[Len(calls)] /\ Top.depth = Depth
        /\ StackOK(calls, blocks)
    BY Facts DEF Inv, TypeOK, Connected
  <1> DEFINE n == Len(calls)
  <1>2. n # 1
    BY <1>1 DEF StackOK
  <1>3. n \in 2..n /\ n - 1 \in 1..n
    <2>1. n \in Nat \ {0}
      BY <1>1
    <2> HIDE DEF n
    <2>. QED  BY <2>1, <1>2
  <1>4. /\ calls[n - 1].depth = IF Top.fn \in Opening THEN Depth - 1 ELSE Depth
        /\ calls[n - 1].depth >= 1
        /\ Top.fn = "func" => n = 2
    <2>1. /\ calls[n].fn \in Opening => calls[n].depth = calls[n - 1].depth + 1
          /\ calls[n].fn \notin Opening => calls[n].depth = calls[n - 1].depth
          /\ calls[n].fn = "func" => n = 2
          /\ calls[n - 1].depth \in 1..Len(blocks)
      BY <1>1, <1>3 DEF StackOK
    <2>2. calls[n].depth = Depth /\ Top = calls[n]
      BY <1>1
    <2> HIDE DEF n
    <2>. QED  BY <2>1, <2>2
  <1>5. Top.fn = "func" => Depth = 2
    <2> SUFFICES ASSUME Top.fn = "func" PROVE Depth = 2
      OBVIOUS
    <2>1. Len(calls) = 2 /\ calls[1].depth = 1
      BY <1>1, <1>4 DEF StackOK
    <2>. QED  BY <2>1, <1>1, <1>4 DEF Opening, StmtCalls
  <1>. QED  BY <1>1, <1>3, <1>4, <1>5
-----------------------------------------------------------------------------
(* What the helpers of the actions do. *)

LEMMA CreateFacts ==
  ASSUME Inv, NEW new \in Seq(BBType), NEW f \in FuncNames, Create(new, f)
  PROVE  /\ bbs' \in Seq(BBType) /\ owner' \in [BBs' -> FuncNames]
         /\ NumBBs' = NumBBs + Len(new)
         /\ BBs \subseteq BBs'
         /\ BBs' \ BBs = (NumBBs + 1)..(NumBBs + Len(new))
PROOF
  <1>1. /\ bbs \in Seq(BBType) /\ owner \in [BBs -> FuncNames]
        /\ NumBBs = Len(bbs) /\ BBs = 1..NumBBs
        /\ bbs' = bbs \o new
    BY DEF Inv, TypeOK, BBType, Create, NumBBs, BBs
  <1>2. bbs' \in Seq(BBType) /\ Len(bbs') = Len(bbs) + Len(new)
    BY <1>1
  <1>3. NumBBs' = NumBBs + Len(new) /\ BBs' = 1..(NumBBs + Len(new))
    BY <1>1, <1>2 DEF NumBBs, BBs
  <1>4. owner' \in [BBs' -> FuncNames]
    BY <1>1, <1>3 DEF Create
  <1>. QED  BY <1>1, <1>2, <1>3, <1>4

\* The blocks created by the actions: one, two, three, or the six of a repeat.
LEMMA Ranges ==
  ASSUME NEW n \in Nat
  PROVE  /\ (n + 1)..(n + 1) = {n + 1}
         /\ (n + 1)..(n + 2) = {n + 1, n + 2}
         /\ (n + 1)..(n + 3) = {n + 1, n + 2, n + 3}
         /\ (n + 1)..(n + 6) = {n + 1, n + 2, n + 3, n + 4, n + 5, n + 6}
PROOF OBVIOUS

LEMMA BBTypes ==
  ASSUME Inv, status = "run"
  PROVE  /\ \A kind \in Kinds : BB(kind) \in BBType
         /\ getEnclosingFunc \in FuncNames
PROOF BY Facts DEF BB, LoopBB, BBType, getEnclosingFunc, FuncBlockType

LEMMA Create1 ==
  ASSUME Inv, status = "run", NEW k1 \in Kinds,
         Create(<<BB(k1)>>, getEnclosingFunc)
  PROVE  /\ bbs' \in Seq(BBType) /\ owner' \in [BBs' -> FuncNames]
         /\ BBs \subseteq BBs' /\ BBs' \ BBs = {NumBBs + 1}
PROOF
  <1> DEFINE new == <<BB(k1)>>
  <1>1. new \in Seq(BBType) /\ Len(new) = 1
    BY BBTypes
  <1>2. Create(new, getEnclosingFunc)
    OBVIOUS
  <1> HIDE DEF new
  <1>. QED  BY <1>1, <1>2, BBTypes, CreateFacts, Facts, Ranges

LEMMA Create2 ==
  ASSUME Inv, status = "run", NEW k1 \in Kinds, NEW k2 \in Kinds,
         NEW f \in FuncNames, Create(<<BB(k1), BB(k2)>>, f)
  PROVE  /\ bbs' \in Seq(BBType) /\ owner' \in [BBs' -> FuncNames]
         /\ BBs \subseteq BBs' /\ BBs' \ BBs = {NumBBs + 1, NumBBs + 2}
PROOF
  <1> DEFINE new == <<BB(k1), BB(k2)>>
  <1>1. new \in Seq(BBType) /\ Len(new) = 2
    BY BBTypes
  <1>2. Create(new, f)
    OBVIOUS
  <1> HIDE DEF new
  <1>. QED  BY <1>1, <1>2, CreateFacts, Facts, Ranges

LEMMA Create3 ==
  ASSUME Inv, status = "run", NEW k1 \in Kinds, NEW k2 \in Kinds, NEW k3 \in Kinds,
         Create(<<BB(k1), BB(k2), BB(k3)>>, getEnclosingFunc)
  PROVE  /\ bbs' \in Seq(BBType) /\ owner' \in [BBs' -> FuncNames]
         /\ BBs \subseteq BBs' /\ BBs' \ BBs = {NumBBs + 1, NumBBs + 2, NumBBs + 3}
PROOF
  <1> DEFINE new == <<BB(k1), BB(k2), BB(k3)>>
  <1>1. new \in Seq(BBType) /\ Len(new) = 3
    BY BBTypes
  <1>2. Create(new, getEnclosingFunc)
    OBVIOUS
  <1> HIDE DEF new
  <1>. QED  BY <1>1, <1>2, BBTypes, CreateFacts, Facts, Ranges

LEMMA NoCreateFacts ==
  ASSUME Inv, NoCreate
  PROVE  /\ bbs' \in Seq(BBType) /\ owner' \in [BBs' -> FuncNames]
         /\ BBs' = BBs
PROOF BY DEF Inv, TypeOK, BBType, NoCreate, NumBBs, BBs

\* blocks.back().body = b.
LEMMA WithBodyFacts ==
  ASSUME blocks \in Seq(BlockType), Depth \in Nat \ {0}, NEW b \in Nat
  PROVE  /\ WithBody(b) \in Seq(BlockType)
         /\ Len(WithBody(b)) = Depth
         /\ WithBody(b)[Depth].body = b
         /\ WithBody(b)[Depth].end = blocks[Depth].end
         /\ Agree(blocks, WithBody(b), Depth)
PROOF
  <1> DEFINE x == [blocks[Depth] EXCEPT !.body = b]
  <1>1. Depth \in 1..Len(blocks) /\ blocks[Depth] \in BlockType
    BY DEF Depth
  <1>2. /\ x \in BlockType /\ x.body = b /\ x.end = blocks[Depth].end
        /\ x.type = blocks[Depth].type
    BY <1>1 DEF BlockType, FuncBlockType, InnerBlockType
  <1>3. WithBody(b) = [blocks EXCEPT ![Depth] = x]
    BY DEF WithBody
  <1> HIDE DEF x
  <1>4. /\ WithBody(b) \in Seq(BlockType)
        /\ Len(WithBody(b)) = Len(blocks)
        /\ \A i \in 1..Len(blocks) : i # Depth => WithBody(b)[i] = blocks[i]
        /\ WithBody(b)[Depth] = x
    BY <1>1, <1>2, <1>3, ExceptFacts
  <1>5. Depth = Len(blocks)
    BY DEF Depth
  <1>6. Agree(blocks, WithBody(b), Depth)
    BY <1>1, <1>2, <1>4, <1>5 DEF Agree
  <1>. QED  BY <1>2, <1>4, <1>5, <1>6

\* blocks.pop_back().
LEMMA FrontBlocks ==
  ASSUME blocks \in Seq(BlockType), Depth \in Nat \ {0}
  PROVE  /\ Front(blocks) \in Seq(BlockType)
         /\ Len(Front(blocks)) = Depth - 1
         /\ Depth >= 2 =>
              /\ Front(blocks)[Depth - 1] = blocks[Depth - 1]
              /\ Agree(blocks, Front(blocks), Depth - 1)
PROOF
  <1>1. /\ Front(blocks) \in Seq(BlockType) /\ Len(Front(blocks)) = Depth - 1
        /\ \A i \in 1..(Depth - 1) : Front(blocks)[i] = blocks[i]
    BY FrontFacts DEF Depth
  <1>2. Depth = Len(blocks)
    BY DEF Depth
  <1>. QED  BY <1>1, <1>2 DEF Agree

\* blocks.pop_back(); blocks.back().body = b.
LEMMA PopToFacts ==
  ASSUME blocks \in Seq(BlockType), Depth \in Nat, Depth >= 2, NEW b \in Nat
  PROVE  /\ PopTo(b) \in Seq(BlockType)
         /\ Len(PopTo(b)) = Depth - 1
         /\ PopTo(b)[Depth - 1].body = b
         /\ PopTo(b)[Depth - 1].end = blocks[Depth - 1].end
         /\ Agree(blocks, PopTo(b), Depth - 1)
PROOF
  <1> DEFINE bl == Front(blocks)
             d == Depth - 1
             x == [bl[d] EXCEPT !.body = b]
  <1>1. /\ bl \in Seq(BlockType) /\ Len(bl) = d
        /\ \A i \in 1..d : bl[i] = blocks[i]
        /\ d \in 1..Len(bl) /\ d <= Len(blocks) /\ d \in 1..Len(blocks)
    BY FrontFacts DEF Depth
  <1>2. bl[d] \in BlockType
    BY <1>1
  <1>3. x \in BlockType /\ x.body = b /\ x.end = bl[d].end /\ x.type = bl[d].type
    BY <1>2 DEF BlockType, FuncBlockType, InnerBlockType
  <1>4. PopTo(b) = [bl EXCEPT ![d] = x]
    BY DEF PopTo
  <1> HIDE DEF bl, d, x
  <1>5. /\ PopTo(b) \in Seq(BlockType)
        /\ Len(PopTo(b)) = d
        /\ \A i \in 1..d : i # d => PopTo(b)[i] = bl[i]
        /\ PopTo(b)[d] = x
    BY <1>1, <1>3, <1>4, ExceptFacts
  <1>6. Agree(blocks, PopTo(b), d)
    BY <1>1, <1>3, <1>5 DEF Agree
  <1>. QED  BY <1>1, <1>3, <1>5, <1>6 DEF d

\* blocks.push_back(x).
LEMMA PushBlockFacts ==
  ASSUME blocks \in Seq(BlockType), Depth \in Nat \ {0}, NEW x \in BlockType
  PROVE  /\ Append(blocks, x) \in Seq(BlockType)
         /\ Len(Append(blocks, x)) = Depth + 1
         /\ Append(blocks, x)[Depth] = blocks[Depth]
         /\ Append(blocks, x)[Depth + 1] = x
         /\ Agree(blocks, Append(blocks, x), Depth)
         /\ Depth >= 2 => Agree(blocks, Append(blocks, x), Depth - 1)
PROOF
  <1>1. /\ Append(blocks, x) \in Seq(BlockType)
        /\ Len(Append(blocks, x)) = Len(blocks) + 1
        /\ \A i \in 1..Len(blocks) : Append(blocks, x)[i] = blocks[i]
        /\ Append(blocks, x)[Len(blocks) + 1] = x
    BY AppendFacts
  <1>2. Depth = Len(blocks)
    BY DEF Depth
  <1> HIDE DEF Depth
  <1>. QED  BY <1>1, <1>2 DEF Agree

\* The deque as it is.
LEMMA SameBlocks ==
  ASSUME Inv, status = "run", blocks' = blocks
  PROVE  /\ blocks' \in Seq(BlockType) /\ Len(blocks') = Depth
         /\ blocks'[Depth].body = Body /\ blocks'[Depth].end = Back.end
         /\ Agree(blocks, blocks', Depth)
PROOF BY Facts DEF Agree, Depth

\* A call, a return, and a function that goes on with other locals.
LEMMA PushFacts ==
  ASSUME calls \in Seq(CallType), NEW c \in CallType, Push(c)
  PROVE  /\ calls' \in Seq(CallType) /\ Len(calls') = Len(calls) + 1
         /\ \A i \in 1..Len(calls) : calls'[i] = calls[i]
         /\ calls'[Len(calls) + 1] = c
PROOF BY AppendFacts DEF Push

LEMMA PopFacts ==
  ASSUME calls \in Seq(CallType), Len(calls) >= 1, Pop
  PROVE  /\ calls' \in Seq(CallType) /\ Len(calls') = Len(calls) - 1
         /\ \A i \in 1..(Len(calls) - 1) : calls'[i] = calls[i]
PROOF BY FrontFacts DEF Pop

LEMMA BecomeFacts ==
  ASSUME calls \in Seq(CallType), Len(calls) >= 1, NEW c \in CallType, Become(c)
  PROVE  /\ calls' \in Seq(CallType) /\ Len(calls') = Len(calls)
         /\ \A i \in 1..(Len(calls) - 1) : calls'[i] = calls[i]
         /\ calls'[Len(calls)] = c
PROOF
  <1>1. Len(calls) \in 1..Len(calls)
    OBVIOUS
  <1>. QED  BY <1>1, ExceptFacts DEF Become

\* The part of a step that is about everything but the stack: C is terminated.
Builds(C) ==
  /\ status = "run" /\ status' = "run"
  /\ blocks' \in Seq(BlockType)
  /\ bbs' \in Seq(BBType) /\ owner' \in [BBs' -> FuncNames] /\ BBs \subseteq BBs'
  /\ closed' = closed \cup C /\ reclosed' = reclosed \cup (closed \cap C)
  /\ edges' \subseteq Nat \X Nat
  /\ phis' \subseteq [at : Nat, incoming : SUBSET Nat]
  /\ ip' \in Nat
  /\ defined' \subseteq Labels \cup Funcs
  /\ stmts' \in 0..MaxStmts

\* A step that keeps the types and transfers blocks keeps the invariant.
LEMMA Conclude ==
  ASSUME Inv, NEW k, NEW C, Builds(C), calls' \in Seq(CallType),
         Transfers(calls, blocks, calls', blocks', k, BBs, BBs', C)
  PROVE  Inv'
PROOF
  <1>1. /\ calls \in Seq(CallType) /\ blocks \in Seq(BlockType)
        /\ Connected(calls, blocks, closed, BBs) /\ reclosed = {}
    BY Facts DEF Inv, TypeOK, Builds
  <1>2. /\ Connected(calls', blocks', closed \cup C, BBs') /\ closed \cap C = {}
    BY <1>1, Transfer DEF Builds
  <1>3. Connected(calls', blocks', closed', BBs') /\ reclosed' = {}
    BY <1>1, <1>2 DEF Builds
  <1>4. Running'
    BY <1>3 DEF Connected, Running, Body, Back, Last
  <1>5. closed' \subseteq BBs'
    BY <1>3 DEF Connected, SharedOut
  <1>6. TypeOK'
    BY <1>3, <1>5 DEF TypeOK, BBType, Builds
  <1>. QED  BY <1>3, <1>4, <1>6 DEF Inv, Builds

\* The current block is replaced.
Stays(C, b) ==
  /\ calls' = calls
  /\ Len(blocks') = Depth /\ Agree(blocks, blocks', Depth)
  /\ blocks'[Depth].body = b
  /\ C \cup {b} = {Body} \cup (BBs' \ BBs) /\ b \notin C

LEMMA StayStep ==
  ASSUME Inv, NEW C, NEW b, Builds(C), Stays(C, b)
  PROVE  Inv'
PROOF
  <1> DEFINE n == Len(calls)
  <1>1. /\ n \in Nat /\ n \in 1..n /\ calls[n].depth = Depth /\ calls[n] = Top
        /\ Body = blocks[Len(blocks)].body
        /\ BBs \subseteq BBs' /\ Len(calls') = n /\ n # n + 1
    BY Facts DEF Builds, Depth, Stays
  <1>2. calls' \in Seq(CallType)
    BY Facts DEF Builds, Stays
  <1> HIDE DEF n
  <1>3. Transfers(calls, blocks, calls', blocks', n, BBs, BBs', C)
    BY <1>1 DEF Transfers, Stays, n
  <1>. QED  BY <1>2, <1>3, Conclude

\* The current function calls c, which holds M.
Enters(C, c, M, b) ==
  /\ c \in CallType /\ Push(c)
  /\ Agree(blocks, blocks', Depth)
  /\ Len(blocks') = IF c.fn \in Opening THEN Depth + 1 ELSE Depth
  /\ c.depth = Len(blocks') /\ c.fn # "unit"
  /\ c.fn = "func" => Len(calls) = 1
  /\ HeldOnce(c, blocks') /\ Held(c, blocks') = M
  /\ blocks'[Len(blocks')].body = b
  /\ C \cup M \cup {b} = {Body} \cup (BBs' \ BBs)
  /\ b \notin M /\ b \notin C /\ C \cap M = {}

LEMMA EnterStep ==
  ASSUME Inv, NEW C, NEW c, NEW M, NEW b, Builds(C), Enters(C, c, M, b)
  PROVE  Inv'
PROOF
  <1> DEFINE n == Len(calls)
             m == n + 1
  <1>1. /\ n \in Nat /\ n \in 1..n /\ calls[n].depth = Depth /\ calls[n] = Top
        /\ Body = blocks[Len(blocks)].body
        /\ BBs \subseteq BBs' /\ m # n
    BY Facts DEF Builds, Depth
  <1>2. /\ calls' \in Seq(CallType) /\ Len(calls') = m /\ calls'[m] = c
        /\ \A i \in 1..n : calls'[i] = calls[i]
    <2>1. calls \in Seq(CallType) /\ c \in CallType /\ Push(c)
      BY Facts DEF Builds, Enters
    <2>. QED  BY <2>1, PushFacts
  <1> HIDE DEF n, m
  <1>3. Transfers(calls, blocks, calls', blocks', n, BBs, BBs', C)
    BY <1>1, <1>2 DEF Transfers, Enters, n, m
  <1>. QED  BY <1>2, <1>3, Conclude

\* The function on top, which held M1, returns and leaves d Blocks.
Leaves(C, d, M1, b) ==
  /\ Top.fn # "unit" /\ Pop
  /\ d = IF Top.fn \in Opening THEN Depth - 1 ELSE Depth
  /\ Len(blocks') = d /\ Agree(blocks, blocks', d)
  /\ Held(Top, blocks) = M1
  /\ blocks'[d].body = b
  /\ C \cup {b} = M1 \cup {Body} \cup (BBs' \ BBs) /\ b \notin C

LEMMA LeaveStep ==
  ASSUME Inv, NEW C, NEW d, NEW M1, NEW b, Builds(C), Leaves(C, d, M1, b)
  PROVE  Inv'
PROOF
  <1> DEFINE n == Len(calls)
             m == n - 1
  <1>1. /\ n \in Nat /\ m \in Nat /\ n = m + 1 /\ m \in 1..n /\ m # n
        /\ calls[m].depth = d /\ calls[n] = Top
        /\ Body = blocks[Len(blocks)].body
        /\ BBs \subseteq BBs'
    <2>1. /\ status = "run" /\ Top.fn # "unit" /\ BBs \subseteq BBs'
          /\ d = IF Top.fn \in Opening THEN Depth - 1 ELSE Depth
      BY DEF Builds, Leaves
    <2>2. n \in Nat /\ n >= 2 /\ calls[n] = Top
      BY <2>1, Facts, Caller
    <2>3. calls[m].depth = d
      BY <2>1, Caller
    <2>4. Body = blocks[Len(blocks)].body
      BY <2>1, Facts DEF Depth
    <2> HIDE DEF n
    <2>. QED  BY <2>1, <2>2, <2>3, <2>4
  <1>2. /\ calls' \in Seq(CallType) /\ Len(calls') = m
        /\ \A i \in 1..m : calls'[i] = calls[i]
    <2>1. calls \in Seq(CallType) /\ Len(calls) >= 1 /\ Pop
      BY Facts DEF Builds, Leaves
    <2>. QED  BY <2>1, PopFacts
  <1> HIDE DEF m
  <1>3. Transfers(calls, blocks, calls', blocks', m, BBs, BBs', C)
    BY <1>1, <1>2 DEF Transfers, Leaves
  <1>. QED  BY <1>2, <1>3, Conclude

\* The function on top, which held M1, goes on as c, which holds M2.
Becomes(C, c, d, M1, M2, b) ==
  /\ c \in CallType /\ Top.fn # "unit" /\ Become(c)
  /\ d = IF Top.fn \in Opening THEN Depth - 1 ELSE Depth
  /\ Agree(blocks, blocks', d)
  /\ Len(blocks') = IF c.fn \in Opening THEN d + 1 ELSE d
  /\ c.depth = Len(blocks') /\ c.fn # "unit" /\ c.fn # "func"
  /\ HeldOnce(c, blocks')
  /\ Held(Top, blocks) = M1 /\ Held(c, blocks') = M2
  /\ blocks'[Len(blocks')].body = b
  /\ C \cup M2 \cup {b} = M1 \cup {Body} \cup (BBs' \ BBs)
  /\ b \notin M2 /\ b \notin C /\ C \cap M2 = {}

LEMMA BecomeStep ==
  ASSUME Inv, NEW C, NEW c, NEW d, NEW M1, NEW M2, NEW b,
         Builds(C), Becomes(C, c, d, M1, M2, b)
  PROVE  Inv'
PROOF
  <1> DEFINE n == Len(calls)
             m == n - 1
  <1>1. /\ n \in Nat /\ m \in Nat /\ n = m + 1 /\ m \in 1..n /\ m # n
        /\ calls[m].depth = d /\ calls[n] = Top
        /\ Body = blocks[Len(blocks)].body
        /\ BBs \subseteq BBs'
    <2>1. /\ status = "run" /\ Top.fn # "unit" /\ BBs \subseteq BBs'
          /\ d = IF Top.fn \in Opening THEN Depth - 1 ELSE Depth
      BY DEF Builds, Becomes
    <2>2. n \in Nat /\ n >= 2 /\ calls[n] = Top
      BY <2>1, Facts, Caller
    <2>3. calls[m].depth = d
      BY <2>1, Caller
    <2>4. Body = blocks[Len(blocks)].body
      BY <2>1, Facts DEF Depth
    <2> HIDE DEF n
    <2>. QED  BY <2>1, <2>2, <2>3, <2>4
  <1>2. /\ calls' \in Seq(CallType) /\ Len(calls') = n /\ calls'[n] = c
        /\ \A i \in 1..m : calls'[i] = calls[i]
    <2>1. /\ calls \in Seq(CallType) /\ Len(calls) >= 1
          /\ c \in CallType /\ Become(c)
      BY Facts DEF Builds, Becomes
    <2>. QED  BY <2>1, BecomeFacts
  <1> HIDE DEF m
  <1>3. Transfers(calls, blocks, calls', blocks', m, BBs, BBs', C)
    BY <1>1, <1>2 DEF Transfers, Becomes
  <1>. QED  BY <1>2, <1>3, Conclude

-----------------------------------------------------------------------------
(* Facts the actions share. *)

LEMMA Numbers ==
  ASSUME Inv, status = "run"
  PROVE  /\ NumBBs \in Nat /\ Depth \in Nat /\ Depth >= 1
         /\ \A b \in BBs : b \in Nat /\ b <= NumBBs
         /\ Body \in Nat /\ Body <= NumBBs
         /\ Back.end \in Nat
         /\ Top.fn \in CallKinds /\ Top.depth \in Nat /\ Top.after \in Nat
         /\ Top.prevBody \in Nat /\ Top.head \in Nat /\ Top.cond \in Nat
PROOF
  <1>1. \A b \in BBs : b \in Nat /\ b <= NumBBs
    BY Facts DEF BBs
  <1>2. Back.end \in Nat
    BY Facts DEF BlockType, FuncBlockType, InnerBlockType
  <1>3. /\ Top.fn \in CallKinds /\ Top.depth \in Nat /\ Top.after \in Nat
        /\ Top.prevBody \in Nat /\ Top.head \in Nat /\ Top.cond \in Nat
    BY Facts DEF CallType
  <1>. QED  BY <1>1, <1>2, <1>3, Facts

LEMMA CompBlockFacts ==
  ASSUME NEW body \in Nat, NEW end \in Nat
  PROVE  /\ CompBlock(body, end) \in BlockType
         /\ CompBlock(body, end).body = body /\ CompBlock(body, end).end = end
PROOF BY DEF CompBlock, Block, BlockType, InnerBlockType

\* The blocks the activation on top holds are distinct blocks of the module.
LEMMA TopHolds ==
  ASSUME Inv, status = "run"
  PROVE  /\ Top.fn \in {"exprStmt", "return", "inPlace"} => Held(Top, blocks) = {}
         /\ Top.fn \in {"unit", "comp"} =>
              /\ Held(Top, blocks) = {Back.end}
              /\ Back.end \in BBs \ {Body}
         /\ Top.fn \in {"ifCond", "ifNext", "logicRhs", "arrayLoop"} =>
              /\ Held(Top, blocks) = {Top.after}
              /\ Top.after \in BBs \ {Body}
         /\ Top.fn \in {"ifThen", "elseThen"} =>
              /\ Held(Top, blocks) = {Top.after, Top.prevBody, Back.end}
              /\ Top.after \in BBs \ {Body}
              /\ Top.prevBody \in BBs \ {Body, Top.after}
              /\ Back.end \in BBs \ {Body, Top.after, Top.prevBody}
         /\ Top.fn \in {"repeatCount", "repeatForever"} =>
              /\ Held(Top, blocks) = {Top.after, Top.cond, Top.cond + 1,
                                      Top.cond + 2, Top.cond + 3}
              /\ Top.after = Top.cond + 4
              /\ {Top.after, Top.cond, Top.cond + 1, Top.cond + 2, Top.cond + 3}
                   \subseteq BBs \ {Body}
         /\ Top.fn = "repeat" =>
              /\ Held(Top, blocks) = {Top.after, Back.end}
              /\ Top.after \in BBs \ {Body} /\ Back.end \in BBs \ {Body, Top.after}
         /\ Top.fn = "logicLhs" =>
              /\ Held(Top, blocks) = {Top.after, Top.head}
              /\ Top.after \in BBs \ {Body} /\ Top.head \in BBs \ {Body, Top.after}
         /\ Top.fn = "func" =>
              /\ Held(Top, blocks) = {Back.end, blocks[Depth - 1].body}
              /\ Back.end \in BBs \ {Body}
              /\ blocks[Depth - 1].body \in BBs \ {Body, Back.end}
PROOF
  <1>1. /\ Held(Top, blocks) \subseteq BBs /\ Body \notin Held(Top, blocks)
        /\ HeldOnce(Top, blocks)
        /\ blocks[Top.depth].end = Back.end /\ Top.depth = Depth
    BY Facts
  <1>. QED  BY <1>1, HeldBy DEF HeldOnce

LEMMA TerminateFacts ==
  ASSUME Inv, NEW from, NEW out \in SUBSET (Nat \X Nat), Terminate(from, out)
  PROVE  /\ closed' = closed \cup from /\ reclosed' = reclosed \cup (closed \cap from)
         /\ edges' \subseteq Nat \X Nat
PROOF BY DEF Terminate, Inv, TypeOK

\* What Builds needs of a step that leaves some of the module alone.
LEMMA Framed ==
  ASSUME Inv
  PROVE  /\ NoBranch => /\ closed' = closed \cup {}
                        /\ reclosed' = reclosed \cup (closed \cap {})
                        /\ edges' \subseteq Nat \X Nat
         /\ phis' = phis => phis' \subseteq [at : Nat, incoming : SUBSET Nat]
         /\ ip' = ip => ip' \in Nat
         /\ defined' = defined => defined' \subseteq Labels \cup Funcs
PROOF BY DEF NoBranch, Inv, TypeOK

LEMMA Guards ==
  ASSUME Inv
  PROVE  /\ AtStmt => /\ status = "run" /\ stmts' \in 0..MaxStmts
                      /\ Top.fn \in StmtCalls
         /\ AtExpr => /\ status = "run" /\ stmts' \in 0..MaxStmts
                      /\ Top.fn \in ExprCalls
         /\ stmts < MaxStmts /\ stmts' = stmts + 1 => stmts' \in 0..MaxStmts
         /\ stmts' = stmts => stmts' \in 0..MaxStmts
         /\ \A fns : Returned(fns) => /\ status = "run" /\ stmts' \in 0..MaxStmts
                                      /\ Top.fn \in fns
PROOF
  <1>1. stmts \in 0..MaxStmts /\ MaxStmts \in Nat
    BY CodeGenAssumption DEF Inv, TypeOK
  <1>. QED  BY <1>1 DEF AtStmt, AtExpr, Returned

-----------------------------------------------------------------------------
(* Every action keeps the invariant: compound statements. *)

LEMMA CompStmtStep ==
  ASSUME Inv, CompStmt
  PROVE  Inv'
PROOF
  <1> DEFINE head == NumBBs + 1
             end == NumBBs + 2
             c == Call("comp", Depth + 1, 0, 0, 0, 0)
             x == CompBlock(head, end)
             out == {<<Body, head>>}
  <1>1. status = "run" /\ stmts' \in 0..MaxStmts
    BY Guards DEF CompStmt
  <1>2. /\ bbs' \in Seq(BBType) /\ owner' \in [BBs' -> FuncNames]
        /\ BBs \subseteq BBs' /\ BBs' \ BBs = {head, end}
    BY <1>1, BBTypes, Create2 DEF CompStmt, Kinds
  <1>3. /\ head \in Nat /\ end \in Nat /\ Depth \in Nat /\ Depth + 1 \in Nat
        /\ Body \in Nat /\ head \notin {Body, end} /\ end # Body
    BY <1>1, Numbers
  <1>4. x \in BlockType /\ x.body = head /\ x.end = end
    BY <1>3, CompBlockFacts
  <1>5. c \in CallType /\ c.fn = "comp" /\ c.depth = Depth + 1
    BY <1>3 DEF Call, CallType, CallKinds, StmtCalls
  <1>6. /\ blocks' \in Seq(BlockType) /\ Len(blocks') = Depth + 1
        /\ blocks'[Depth + 1] = x /\ Agree(blocks, blocks', Depth)
    BY <1>1, <1>4, Facts, PushBlockFacts DEF CompStmt
  <1>7. /\ Terminate({Body}, out) /\ out \in SUBSET (Nat \X Nat)
        /\ Push(c) /\ ip' = Body /\ UNCHANGED <<phis, defined, status>>
    BY <1>3 DEF CompStmt
  <1>8. Held(c, blocks') = {end} /\ HeldOnce(c, blocks')
    BY <1>4, <1>5, <1>6, HeldBy DEF HeldOnce
  <1> HIDE DEF head, end, c, x, out
  <1>9. Builds({Body})
    BY <1>1, <1>2, <1>3, <1>6, <1>7, TerminateFacts, Framed DEF Builds
  <1>10. Enters({Body}, c, {end}, head)
    BY <1>2, <1>3, <1>4, <1>5, <1>6, <1>7, <1>8 DEF Enters, Opening, StmtCalls
  <1>. QED  BY <1>9, <1>10, EnterStep

LEMMA CompEndStep ==
  ASSUME Inv, CompEnd
  PROVE  Inv'
PROOF
  <1> DEFINE after == NumBBs + 1
             end == Back.end
             C == {Body, end}
             out == {<<Body, end>>, <<end, after>>}
  <1>1. status = "run" /\ stmts' \in 0..MaxStmts /\ Top.fn = "comp"
    BY Guards DEF CompEnd
  <1>2. /\ bbs' \in Seq(BBType) /\ owner' \in [BBs' -> FuncNames]
        /\ BBs \subseteq BBs' /\ BBs' \ BBs = {after}
    BY <1>1, Create1 DEF CompEnd, Kinds
  <1>3. Depth >= 2 /\ Depth \in Nat /\ Top.fn \in Opening /\ Top.fn # "unit"
    BY <1>1, Caller, Numbers DEF Opening, StmtCalls
  <1>4. /\ Held(Top, blocks) = {end} /\ end \in Nat /\ Body \in Nat
        /\ after \in Nat /\ after \notin C
    BY <1>1, TopHolds, Numbers
  <1>5. /\ blocks' \in Seq(BlockType) /\ Len(blocks') = Depth - 1
        /\ blocks'[Depth - 1].body = after /\ Agree(blocks, blocks', Depth - 1)
    BY <1>1, <1>3, <1>4, Facts, PopToFacts DEF CompEnd, CompBody
  <1>6. /\ Terminate(C, out) /\ out \in SUBSET (Nat \X Nat)
        /\ Pop /\ ip' = end /\ UNCHANGED <<phis, defined, status>>
    BY <1>4 DEF CompEnd
  <1>7. C \cup {after} = {end} \cup {Body} \cup (BBs' \ BBs)
    BY <1>2
  <1> HIDE DEF after, end, C, out
  <1>8. Builds(C)
    BY <1>1, <1>2, <1>4, <1>5, <1>6, TerminateFacts, Framed DEF Builds
  <1>9. Leaves(C, Depth - 1, {end}, after)
    BY <1>3, <1>4, <1>5, <1>6, <1>7 DEF Leaves
  <1>. QED  BY <1>8, <1>9, LeaveStep

-----------------------------------------------------------------------------
(* Every action keeps the invariant: if statements. *)

LEMMA IfStmtStep ==
  ASSUME Inv, IfStmt
  PROVE  Inv'
PROOF
  <1> DEFINE after == NumBBs + 1
             c == Call("ifCond", Depth, after, 0, 0, 0)
  <1>1. status = "run" /\ stmts' \in 0..MaxStmts
    BY Guards DEF IfStmt
  <1>2. /\ bbs' \in Seq(BBType) /\ owner' \in [BBs' -> FuncNames]
        /\ BBs \subseteq BBs' /\ BBs' \ BBs = {after}
    BY <1>1, Create1 DEF IfStmt, Kinds
  <1>3. after \in Nat /\ Depth \in Nat /\ Body \in Nat /\ Body # after
    BY <1>1, Numbers
  <1>4. c \in CallType /\ c.fn = "ifCond" /\ c.depth = Depth /\ c.after = after
    BY <1>3 DEF Call, CallType, CallKinds, ExprCalls
  <1>5. /\ blocks' \in Seq(BlockType) /\ Len(blocks') = Depth
        /\ blocks'[Depth].body = Body /\ Agree(blocks, blocks', Depth)
    BY <1>1, SameBlocks DEF IfStmt
  <1>6. /\ NoBranch /\ Push(c) /\ UNCHANGED <<phis, ip, defined, status>>
    BY DEF IfStmt
  <1>7. Held(c, blocks') = {after} /\ HeldOnce(c, blocks')
    BY <1>4, HeldBy DEF HeldOnce
  <1> HIDE DEF after, c
  <1>8. Builds({})
    BY <1>1, <1>2, <1>5, <1>6, Framed DEF Builds
  <1>9. Enters({}, c, {after}, Body)
    BY <1>2, <1>3, <1>4, <1>5, <1>6, <1>7 DEF Enters, Opening, StmtCalls
  <1>. QED  BY <1>8, <1>9, EnterStep

LEMMA IfBranchStep ==
  ASSUME Inv, NEW fn \in {"ifThen", "elseThen"},
         Returned({"ifCond"}) \/ Returned({"ifNext"}), IfBranch(fn)
  PROVE  Inv'
PROOF
  <1> DEFINE head == NumBBs + 1
             end == NumBBs + 2
             after == Top.after
             c == Call(fn, Depth + 1, after, Body, head, 0)
             x == CompBlock(head, end)
  <1>1. status = "run" /\ stmts' \in 0..MaxStmts /\ Top.fn \in {"ifCond", "ifNext"}
    BY Guards
  <1>2. /\ bbs' \in Seq(BBType) /\ owner' \in [BBs' -> FuncNames]
        /\ BBs \subseteq BBs' /\ BBs' \ BBs = {head, end}
    BY <1>1, BBTypes, Create2 DEF IfBranch, Kinds
  <1>3. /\ head \in Nat /\ end \in Nat /\ Depth \in Nat /\ Depth + 1 \in Nat
        /\ Body \in Nat /\ head \notin {Body, end} /\ end # Body
    BY <1>1, Numbers
  <1>4. /\ Held(Top, blocks) = {after} /\ after \in Nat
        /\ after \notin {Body, head, end}
    BY <1>1, TopHolds, Numbers
  <1>5. x \in BlockType /\ x.body = head /\ x.end = end
    BY <1>3, CompBlockFacts
  <1>6. /\ c \in CallType /\ c.fn = fn /\ c.depth = Depth + 1
        /\ c.after = after /\ c.prevBody = Body
    BY <1>3, <1>4 DEF Call, CallType, CallKinds, StmtCalls
  <1>7. /\ blocks' \in Seq(BlockType) /\ Len(blocks') = Depth + 1
        /\ blocks'[Depth + 1] = x /\ Agree(blocks, blocks', Depth)
    BY <1>1, <1>5, Facts, PushBlockFacts DEF IfBranch
  <1>8. /\ NoBranch /\ Become(c) /\ UNCHANGED <<phis, ip, defined, status>>
    BY DEF IfBranch
  <1>9. Held(c, blocks') = {after, Body, end} /\ HeldOnce(c, blocks')
    BY <1>3, <1>4, <1>5, <1>6, <1>7, HeldBy DEF HeldOnce
  <1> HIDE DEF head, end, after, c, x
  <1>10. Builds({})
    BY <1>1, <1>2, <1>7, <1>8, Framed DEF Builds
  <1>11. Becomes({}, c, Depth, {after}, {after, Body, end}, head)
    BY <1>1, <1>2, <1>3, <1>4, <1>5, <1>6, <1>7, <1>8, <1>9
       DEF Becomes, Opening, StmtCalls
  <1>. QED  BY <1>10, <1>11, BecomeStep

LEMMA IfThenEndStep ==
  ASSUME Inv, IfThenEnd
  PROVE  Inv'
PROOF
  <1> DEFINE elseIf == NumBBs + 1
             end == Back.end
             after == Top.after
             prev == Top.prevBody
             c == Call("ifNext", Depth - 1, after, 0, 0, 0)
             C == {Body, end, prev}
             out == {<<Body, end>>, <<end, after>>, <<prev, Top.head>>, <<prev, elseIf>>}
  <1>1. status = "run" /\ stmts' \in 0..MaxStmts /\ Top.fn = "ifThen"
    BY Guards DEF IfThenEnd
  <1>2. /\ bbs' \in Seq(BBType) /\ owner' \in [BBs' -> FuncNames]
        /\ BBs \subseteq BBs' /\ BBs' \ BBs = {elseIf}
    BY <1>1, Create1 DEF IfThenEnd, Kinds
  <1>3. /\ Depth >= 2 /\ Depth \in Nat /\ Depth - 1 \in Nat
        /\ Top.fn \in Opening /\ Top.fn # "unit"
    <2>1. Top.fn \in Opening /\ Top.fn # "unit"
      BY <1>1 DEF Opening, StmtCalls
    <2>2. Depth - 1 >= 1 /\ Depth \in Nat
      BY <1>1, <2>1, Caller, Numbers
    <2>. QED  BY <2>1, <2>2
  <1>4. /\ Held(Top, blocks) = {after, prev, end}
        /\ elseIf \in Nat /\ end \in Nat /\ after \in Nat /\ prev \in Nat
        /\ Body \in Nat /\ Top.head \in Nat
        /\ after \notin {Body, end, prev, elseIf} /\ elseIf \notin C
    BY <1>1, TopHolds, Numbers
  <1>5. /\ blocks' \in Seq(BlockType) /\ Len(blocks') = Depth - 1
        /\ blocks'[Depth - 1].body = elseIf /\ Agree(blocks, blocks', Depth - 1)
    BY <1>1, <1>3, <1>4, Facts, PopToFacts DEF IfThenEnd
  <1>6. /\ Terminate(C, out) /\ out \in SUBSET (Nat \X Nat)
        /\ Become(c) /\ ip' = end /\ UNCHANGED <<phis, defined, status>>
    BY <1>4 DEF IfThenEnd
  <1>7. c \in CallType /\ c.fn = "ifNext" /\ c.depth = Depth - 1 /\ c.after = after
    BY <1>3, <1>4 DEF Call, CallType, CallKinds
  <1>8. Held(c, blocks') = {after} /\ HeldOnce(c, blocks')
    BY <1>7, HeldBy DEF HeldOnce
  <1>9. /\ C \cup {after} \cup {elseIf} = {after, prev, end} \cup {Body} \cup (BBs' \ BBs)
        /\ C \cap {after} = {}
    BY <1>2, <1>4
  <1> HIDE DEF elseIf, end, after, prev, c, C, out
  <1>10. Builds(C)
    BY <1>1, <1>2, <1>4, <1>5, <1>6, TerminateFacts, Framed DEF Builds
  <1>11. Becomes(C, c, Depth - 1, {after, prev, end}, {after}, elseIf)
    BY <1>1, <1>3, <1>4, <1>5, <1>6, <1>7, <1>8, <1>9
       DEF Becomes, Opening, StmtCalls
  <1>. QED  BY <1>10, <1>11, BecomeStep

LEMMA ElseIfStep ==
  ASSUME Inv, ElseIf
  PROVE  Inv'
PROOF
  <1> DEFINE after == Top.after
             c == Call("ifCond", Depth, after, 0, 0, 0)
  <1>1. status = "run" /\ stmts' \in 0..MaxStmts /\ Top.fn = "ifNext"
    BY Guards DEF ElseIf
  <1>2. /\ bbs' \in Seq(BBType) /\ owner' \in [BBs' -> FuncNames] /\ BBs' = BBs
    BY NoCreateFacts DEF ElseIf, module, NoCreate
  <1>3. /\ Held(Top, blocks) = {after} /\ after \in Nat
        /\ Depth \in Nat /\ Body # after
    BY <1>1, TopHolds, Numbers
  <1>4. c \in CallType /\ c.fn = "ifCond" /\ c.depth = Depth /\ c.after = after
    BY <1>3 DEF Call, CallType, CallKinds, ExprCalls
  <1>5. /\ blocks' \in Seq(BlockType) /\ Len(blocks') = Depth
        /\ blocks'[Depth].body = Body /\ Agree(blocks, blocks', Depth)
    BY <1>1, SameBlocks DEF ElseIf
  <1>6. /\ NoBranch /\ Become(c) /\ UNCHANGED <<phis, ip, defined, status>>
    BY DEF ElseIf, module, NoBranch
  <1>7. Held(c, blocks') = {after} /\ HeldOnce(c, blocks')
    BY <1>4, HeldBy DEF HeldOnce
  <1> HIDE DEF after, c
  <1>8. Builds({})
    BY <1>1, <1>2, <1>5, <1>6, Framed DEF Builds
  <1>9. Becomes({}, c, Depth, {after}, {after}, Body)
    BY <1>1, <1>2, <1>3, <1>4, <1>5, <1>6, <1>7 DEF Becomes, Opening, StmtCalls
  <1>. QED  BY <1>8, <1>9, BecomeStep

LEMMA ElseThenEndStep ==
  ASSUME Inv, ElseThenEnd
  PROVE  Inv'
PROOF
  <1> DEFINE end == Back.end
             after == Top.after
             prev == Top.prevBody
             C == {Body, end, prev}
             out == {<<Body, end>>, <<end, after>>, <<prev, Top.head>>}
  <1>1. status = "run" /\ stmts' \in 0..MaxStmts /\ Top.fn = "elseThen"
    BY Guards DEF ElseThenEnd
  <1>2. /\ bbs' \in Seq(BBType) /\ owner' \in [BBs' -> FuncNames] /\ BBs' = BBs
    BY NoCreateFacts DEF ElseThenEnd
  <1>3. /\ Depth >= 2 /\ Depth \in Nat /\ Top.fn \in Opening /\ Top.fn # "unit"
    BY <1>1, Caller, Numbers DEF Opening, StmtCalls
  <1>4. /\ Held(Top, blocks) = {after, prev, end}
        /\ end \in Nat /\ after \in Nat /\ prev \in Nat
        /\ Body \in Nat /\ Top.head \in Nat
        /\ after \notin C
    BY <1>1, TopHolds, Numbers
  <1>5. /\ blocks' \in Seq(BlockType) /\ Len(blocks') = Depth - 1
        /\ blocks'[Depth - 1].body = after /\ Agree(blocks, blocks', Depth - 1)
    BY <1>1, <1>3, <1>4, Facts, PopToFacts DEF ElseThenEnd
  <1>6. /\ Terminate(C, out) /\ out \in SUBSET (Nat \X Nat)
        /\ Pop /\ ip' = end /\ UNCHANGED <<phis, defined, status>>
    BY <1>4 DEF ElseThenEnd
  <1>7. C \cup {after} = {after, prev, end} \cup {Body} \cup (BBs' \ BBs)
    BY <1>2
  <1> HIDE DEF end, after, prev, C, out
  <1>8. Builds(C)
    BY <1>1, <1>2, <1>4, <1>5, <1>6, TerminateFacts, Framed DEF Builds
  <1>9. Leaves(C, Depth - 1, {after, prev, end}, after)
    BY <1>3, <1>4, <1>5, <1>6, <1>7 DEF Leaves
  <1>. QED  BY <1>8, <1>9, LeaveStep

LEMMA NoElseStep ==
  ASSUME Inv, NoElse
  PROVE  Inv'
PROOF
  <1> DEFINE after == Top.after
             out == {<<Body, after>>}
  <1>1. status = "run" /\ stmts' \in 0..MaxStmts /\ Top.fn = "ifNext"
    BY Guards DEF NoElse
  <1>2. /\ bbs' \in Seq(BBType) /\ owner' \in [BBs' -> FuncNames] /\ BBs' = BBs
    BY NoCreateFacts DEF NoElse
  <1>3. /\ Held(Top, blocks) = {after} /\ after \in Nat
        /\ Depth \in Nat /\ Body # after /\ Body \in Nat
    BY <1>1, TopHolds, Numbers
  <1>4. /\ blocks' \in Seq(BlockType) /\ Len(blocks') = Depth
        /\ blocks'[Depth].body = after /\ Agree(blocks, blocks', Depth)
    BY <1>1, <1>3, Facts, WithBodyFacts DEF NoElse
  <1>5. /\ Terminate({Body}, out) /\ out \in SUBSET (Nat \X Nat)
        /\ Pop /\ ip' = Body /\ UNCHANGED <<phis, defined, status>>
    BY <1>3 DEF NoElse
  <1> HIDE DEF after, out
  <1>6. Builds({Body})
    BY <1>1, <1>2, <1>3, <1>4, <1>5, TerminateFacts, Framed DEF Builds
  <1>7. Leaves({Body}, Depth, {after}, after)
    BY <1>1, <1>2, <1>3, <1>4, <1>5 DEF Leaves, Opening, StmtCalls
  <1>. QED  BY <1>6, <1>7, LeaveStep

-----------------------------------------------------------------------------
(* Every action keeps the invariant: repeat statements. *)

LEMMA RepeatStmtStep ==
  ASSUME Inv, RepeatStmt
  PROVE  Inv'
PROOF
  <1> DEFINE init == NumBBs + 1
             cond == NumBBs + 2
             after == NumBBs + 6
             new == <<BB("repeatInit"), LoopBB("repeatCond", cond),
                      LoopBB("repeatIncr", cond), LoopBB("repeatBodyEntry", cond),
                      LoopBB("repeatBodyEnd", cond), BB("repeatAfter")>>
             x == CompBlock(init, after)
             M == {after, cond, cond + 1, cond + 2, cond + 3}
             out == {<<Body, init>>}
  <1>1. status = "run" /\ stmts' \in 0..MaxStmts
    BY Guards DEF RepeatStmt
  <1>2. /\ init \in Nat /\ cond \in Nat /\ after \in Nat /\ Depth \in Nat
        /\ Depth + 1 \in Nat /\ Body \in Nat
        /\ init \notin {Body} \cup M /\ Body \notin M /\ after = cond + 4
    BY <1>1, Numbers
  <1>3. /\ bbs' \in Seq(BBType) /\ owner' \in [BBs' -> FuncNames]
        /\ BBs \subseteq BBs' /\ BBs' \ BBs = {init} \cup M
    <2>1. new \in Seq(BBType) /\ Len(new) = 6
      <3>1. BB("repeatInit") \in BBType /\ BB("repeatAfter") \in BBType
        BY <1>1, BBTypes DEF Kinds
      <3>2. /\ LoopBB("repeatCond", cond) \in BBType
            /\ LoopBB("repeatIncr", cond) \in BBType
            /\ LoopBB("repeatBodyEntry", cond) \in BBType
            /\ LoopBB("repeatBodyEnd", cond) \in BBType
        BY <1>2 DEF LoopBB, BBType, Kinds
      <3>. QED  BY <3>1, <3>2
    <2>2. Create(new, getEnclosingFunc)
      BY DEF RepeatStmt
    <2> HIDE DEF new
    <2>3. /\ bbs' \in Seq(BBType) /\ owner' \in [BBs' -> FuncNames]
          /\ BBs \subseteq BBs' /\ BBs' \ BBs = (NumBBs + 1)..(NumBBs + 6)
      BY <1>1, <2>1, <2>2, BBTypes, CreateFacts
    <2>4. (NumBBs + 1)..(NumBBs + 6) = {init} \cup M
      BY <1>1, Numbers
    <2>. QED  BY <2>3, <2>4
  <1>4. x \in BlockType /\ x.body = init /\ x.end = after
    BY <1>2, CompBlockFacts
  <1>5. PICK fn \in {"repeatCount", "repeatForever"} :
          Push(Call(fn, Depth + 1, after, 0, 0, cond))
    BY DEF RepeatStmt
  <1> DEFINE c == Call(fn, Depth + 1, after, 0, 0, cond)
  <1>6. /\ c \in CallType /\ c.fn = fn /\ c.depth = Depth + 1
        /\ c.after = after /\ c.cond = cond
    BY <1>2 DEF Call, CallType, CallKinds, ExprCalls
  <1>7. /\ blocks' \in Seq(BlockType) /\ Len(blocks') = Depth + 1
        /\ blocks'[Depth + 1] = x /\ Agree(blocks, blocks', Depth)
    BY <1>1, <1>4, Facts, PushBlockFacts DEF RepeatStmt
  <1>8. /\ Terminate({Body}, out) /\ out \in SUBSET (Nat \X Nat)
        /\ ip' = Body /\ UNCHANGED <<phis, defined, status>>
    <2>1. /\ Terminate({Body}, out)
          /\ ip' = Body /\ UNCHANGED <<phis, defined, status>>
      BY DEF RepeatStmt
    <2>2. out \in SUBSET (Nat \X Nat)
      BY <1>2
    <2>. QED  BY <2>1, <2>2
  <1>9. Held(c, blocks') = M /\ HeldOnce(c, blocks')
    BY <1>2, <1>6, HeldBy DEF HeldOnce
  <1>10. Push(c)
    BY <1>5
  <1> HIDE DEF init, cond, after, x, c, M, out
  <1>11. Builds({Body})
    BY <1>1, <1>2, <1>3, <1>7, <1>8, TerminateFacts, Framed DEF Builds
  <1>12. Enters({Body}, c, M, init)
    BY <1>2, <1>3, <1>4, <1>6, <1>7, <1>9, <1>10 DEF Enters, Opening, StmtCalls
  <1>. QED  BY <1>11, <1>12, EnterStep

LEMMA RepeatBodyStep ==
  ASSUME Inv, RepeatBody
  PROVE  Inv'
PROOF
  <1> DEFINE cond == Top.cond
             incr == cond + 1
             entry == cond + 2
             end == cond + 3
             after == Top.after
             c == Call("repeat", Depth, after, 0, 0, cond)
             x == LoopBlock(entry, end, cond, incr, after)
             C == {Body, cond, incr}
             M1 == {after, cond, incr, entry, end}
             exits == IF Top.fn = "repeatCount" THEN {entry, after} ELSE {entry}
             out == {<<Body, cond>>, <<incr, cond>>} \cup ({cond} \X exits)
  <1>1. /\ status = "run" /\ stmts' \in 0..MaxStmts
        /\ Top.fn \in {"repeatCount", "repeatForever"}
    BY Guards DEF RepeatBody
  <1>2. /\ bbs' \in Seq(BBType) /\ owner' \in [BBs' -> FuncNames] /\ BBs' = BBs
    BY NoCreateFacts DEF RepeatBody
  <1>3. /\ Depth >= 2 /\ Depth \in Nat /\ Depth - 1 \in Nat
        /\ Top.fn \in Opening /\ Top.fn # "unit" /\ Depth = Depth - 1 + 1
    <2>1. Top.fn \in Opening /\ Top.fn # "unit"
      BY <1>1 DEF Opening
    <2>2. Depth >= 2 /\ Depth \in Nat
      BY <1>1, <2>1, Caller, Numbers
    <2>. QED  BY <2>1, <2>2
  <1>4. /\ Held(Top, blocks) = M1 /\ Body \notin M1 /\ Body \in Nat
        /\ cond \in Nat /\ after = cond + 4
    BY <1>1, TopHolds, Numbers
  <1>5. /\ incr \in Nat /\ entry \in Nat /\ end \in Nat /\ after \in Nat
        /\ entry \notin C \cup {after, end} /\ after \notin C /\ end \notin C
        /\ after # end
    BY <1>4
  <1>6. x \in BlockType /\ x.body = entry /\ x.end = end
    BY <1>4, <1>5 DEF LoopBlock, Block, BlockType, InnerBlockType
  <1>7. c \in CallType /\ c.fn = "repeat" /\ c.depth = Depth /\ c.after = after
    BY <1>3, <1>4, <1>5 DEF Call, CallType, CallKinds, StmtCalls
  <1>8. /\ blocks' \in Seq(BlockType) /\ Len(blocks') = Depth
        /\ blocks'[Depth] = x /\ Agree(blocks, blocks', Depth - 1)
    <2> DEFINE bl == Front(blocks)
    <2>1. /\ bl \in Seq(BlockType) /\ Len(bl) = Depth - 1
          /\ Agree(blocks, bl, Depth - 1)
      BY <1>1, <1>3, Facts, FrontBlocks
    <2>2. blocks' = Append(bl, x)
      BY DEF RepeatBody
    <2> HIDE DEF bl, x
    <2>3. /\ blocks' \in Seq(BlockType) /\ Len(blocks') = Depth - 1 + 1
          /\ \A i \in 1..(Depth - 1) : blocks'[i] = bl[i]
          /\ blocks'[Depth - 1 + 1] = x
      BY <1>6, <2>1, <2>2, AppendFacts
    <2>. QED  BY <1>3, <2>1, <2>3 DEF Agree
  <1>9. /\ Terminate(C, out) /\ Become(c) /\ ip' = incr
        /\ UNCHANGED <<phis, defined, status>>
    BY DEF RepeatBody
  <1>10. out \in SUBSET (Nat \X Nat)
    BY <1>4, <1>5
  <1>11. Held(c, blocks') = {after, end} /\ HeldOnce(c, blocks')
    <2>1. blocks'[c.depth].end = end /\ c.fn = "repeat" /\ c.after = after
      BY <1>6, <1>7, <1>8
    <2> HIDE DEF c, end, after
    <2>2. Held(c, blocks') = {after, end}
      BY <2>1, HeldBy
    <2>. QED  BY <1>5, <2>1, <2>2 DEF HeldOnce
  <1>12. /\ C \cup {after, end} \cup {entry} = M1 \cup {Body} \cup (BBs' \ BBs)
         /\ C \cap {after, end} = {}
    BY <1>2, <1>5
  <1> HIDE DEF cond, incr, entry, end, after, c, x, C, M1, exits, out
  <1>13. Builds(C)
    BY <1>1, <1>2, <1>5, <1>8, <1>9, <1>10, TerminateFacts, Framed DEF Builds
  <1>14. Becomes(C, c, Depth - 1, M1, {after, end}, entry)
    BY <1>3, <1>4, <1>5, <1>6, <1>7, <1>8, <1>9, <1>11, <1>12
       DEF Becomes, Opening, StmtCalls
  <1>. QED  BY <1>13, <1>14, BecomeStep

LEMMA RepeatEndStep ==
  ASSUME Inv, RepeatEnd
  PROVE  Inv'
PROOF
  <1> DEFINE end == Back.end
             after == Top.after
             C == {Body, end}
             out == {<<Body, end>>, <<end, Top.cond + 1>>}
  <1>1. status = "run" /\ stmts' \in 0..MaxStmts /\ Top.fn = "repeat"
    BY Guards DEF RepeatEnd
  <1>2. /\ bbs' \in Seq(BBType) /\ owner' \in [BBs' -> FuncNames] /\ BBs' = BBs
    BY NoCreateFacts DEF RepeatEnd
  <1>3. /\ Depth >= 2 /\ Depth \in Nat /\ Top.fn \in Opening /\ Top.fn # "unit"
    BY <1>1, Caller, Numbers DEF Opening, StmtCalls
  <1>4. /\ Held(Top, blocks) = {after, end}
        /\ end \in Nat /\ after \in Nat /\ Body \in Nat
        /\ Top.cond + 1 \in Nat /\ after \notin C
    BY <1>1, TopHolds, Numbers
  <1>5. /\ blocks' \in Seq(BlockType) /\ Len(blocks') = Depth - 1
        /\ blocks'[Depth - 1].body = after /\ Agree(blocks, blocks', Depth - 1)
    BY <1>1, <1>3, <1>4, Facts, PopToFacts DEF RepeatEnd
  <1>6. /\ Terminate(C, out) /\ out \in SUBSET (Nat \X Nat)
        /\ Pop /\ ip' = end /\ UNCHANGED <<phis, defined, status>>
    BY <1>4 DEF RepeatEnd
  <1>7. C \cup {after} = {after, end} \cup {Body} \cup (BBs' \ BBs)
    BY <1>2
  <1> HIDE DEF end, after, C, out
  <1>8. Builds(C)
    BY <1>1, <1>2, <1>4, <1>5, <1>6, TerminateFacts, Framed DEF Builds
  <1>9. Leaves(C, Depth - 1, {after, end}, after)
    BY <1>3, <1>4, <1>5, <1>6, <1>7 DEF Leaves
  <1>. QED  BY <1>8, <1>9, LeaveStep

-----------------------------------------------------------------------------
(* Every action keeps the invariant: jumps. *)

LEMMA JumpStep ==
  ASSUME Inv, status = "run", stmts' \in 0..MaxStmts,
         NEW kind \in Kinds, NEW succ \in SUBSET Nat, Jump(kind, succ)
  PROVE  Inv'
PROOF
  <1> DEFINE fresh == NumBBs + 1
             out == {Body} \X succ
  <1>1. /\ bbs' \in Seq(BBType) /\ owner' \in [BBs' -> FuncNames]
        /\ BBs \subseteq BBs' /\ BBs' \ BBs = {fresh}
    BY Create1 DEF Jump
  <1>2. fresh \in Nat /\ Body \in Nat /\ fresh # Body
    BY Numbers
  <1>3. /\ blocks' \in Seq(BlockType) /\ Len(blocks') = Depth
        /\ blocks'[Depth].body = fresh /\ Agree(blocks, blocks', Depth)
    BY <1>2, Facts, WithBodyFacts DEF Jump, Resume
  <1>4. /\ Terminate({Body}, out) /\ out \in SUBSET (Nat \X Nat)
        /\ ip' = Body /\ UNCHANGED <<calls, phis, defined, status>>
    BY <1>2 DEF Jump
  <1> HIDE DEF fresh, out
  <1>5. Builds({Body})
    BY <1>1, <1>2, <1>3, <1>4, TerminateFacts, Framed DEF Builds
  <1>6. Stays({Body}, fresh)
    BY <1>1, <1>2, <1>3, <1>4 DEF Stays
  <1>. QED  BY <1>5, <1>6, StayStep

LEMMA JumpsStep ==
  ASSUME Inv,
         ContinueStmt \/ BreakStmt \/ GlobalReturnStmt \/ GotoStmt
  PROVE  Inv'
PROOF
  <1>1. status = "run" /\ stmts' \in 0..MaxStmts
    BY Guards DEF ContinueStmt, BreakStmt, GlobalReturnStmt, GotoStmt
  <1>2. /\ "continueAfter" \in Kinds /\ "breakAfter" \in Kinds
        /\ "globalReturnAfter" \in Kinds /\ "gotoAfter" \in Kinds
    BY DEF Kinds
  <1>3. InLoop => /\ getEnclosingLoopBlock.continue_ \in Nat
                  /\ getEnclosingLoopBlock.break_ \in Nat
    BY <1>1, Facts, EnclosingLoop DEF BlockType, FuncBlockType, InnerBlockType
  <1>4. CASE ContinueStmt
    BY <1>1, <1>2, <1>3, <1>4, JumpStep DEF ContinueStmt
  <1>5. CASE BreakStmt
    BY <1>1, <1>2, <1>3, <1>5, JumpStep DEF BreakStmt
  <1>6. CASE GlobalReturnStmt
    BY <1>1, <1>2, <1>6, JumpStep DEF GlobalReturnStmt
  <1>7. CASE GotoStmt
    BY <1>1, <1>2, <1>7, JumpStep DEF GotoStmt
  <1>. QED  BY <1>4, <1>5, <1>6, <1>7

LEMMA FuncReturnValueStep ==
  ASSUME Inv, FuncReturnValue
  PROVE  Inv'
PROOF
  <1> DEFINE fresh == NumBBs + 1
             out == {<<Body, getEnclosingFuncBlock.end>>}
  <1>1. status = "run" /\ stmts' \in 0..MaxStmts /\ Top.fn = "return"
    BY Guards DEF FuncReturnValue
  <1>2. /\ bbs' \in Seq(BBType) /\ owner' \in [BBs' -> FuncNames]
        /\ BBs \subseteq BBs' /\ BBs' \ BBs = {fresh}
    BY <1>1, Create1 DEF FuncReturnValue, Kinds
  <1>3. /\ fresh \in Nat /\ Body \in Nat /\ fresh # Body /\ Held(Top, blocks) = {}
        /\ getEnclosingFuncBlock.end \in Nat
    <2>1. fresh \in Nat /\ Body \in Nat /\ fresh # Body
      BY <1>1, Numbers
    <2>2. Held(Top, blocks) = {}
      BY <1>1, TopHolds
    <2>3. getEnclosingFuncBlock.end \in Nat
      BY <1>1, Facts DEF FuncBlockType
    <2>. QED  BY <2>1, <2>2, <2>3
  <1>4. /\ blocks' \in Seq(BlockType) /\ Len(blocks') = Depth
        /\ blocks'[Depth].body = fresh /\ Agree(blocks, blocks', Depth)
    BY <1>1, <1>3, Facts, WithBodyFacts DEF FuncReturnValue, Resume
  <1>5. /\ Terminate({Body}, out) /\ out \in SUBSET (Nat \X Nat)
        /\ Pop /\ ip' = Body /\ UNCHANGED <<phis, defined, status>>
    BY <1>3 DEF FuncReturnValue
  <1> HIDE DEF fresh, out
  <1>6. Builds({Body})
    BY <1>1, <1>2, <1>3, <1>4, <1>5, TerminateFacts, Framed DEF Builds
  <1>7. Leaves({Body}, Depth, {}, fresh)
    BY <1>1, <1>2, <1>3, <1>4, <1>5 DEF Leaves, Opening, StmtCalls
  <1>. QED  BY <1>6, <1>7, LeaveStep

-----------------------------------------------------------------------------
(* Every action keeps the invariant: what stays in the current block. *)

\* A call that creates no block and terminates none.
LEMMA PlainEnterStep ==
  ASSUME Inv, status = "run", stmts' \in 0..MaxStmts,
         NEW fn \in {"exprStmt", "return", "inPlace"},
         Push(Call(fn, Depth, 0, 0, 0, 0)), ip' = ip \/ ip' = Body,
         UNCHANGED <<blocks, module, defined, status>>
  PROVE  Inv'
PROOF
  <1> DEFINE c == Call(fn, Depth, 0, 0, 0, 0)
  <1>1. /\ bbs' \in Seq(BBType) /\ owner' \in [BBs' -> FuncNames] /\ BBs' = BBs
    BY NoCreateFacts DEF module, NoCreate
  <1>2. Depth \in Nat /\ Body \in Nat
    BY Numbers
  <1>3. c \in CallType /\ c.fn = fn /\ c.depth = Depth
    BY <1>2 DEF Call, CallType, CallKinds, ExprCalls
  <1>4. /\ blocks' \in Seq(BlockType) /\ Len(blocks') = Depth
        /\ blocks'[Depth].body = Body /\ Agree(blocks, blocks', Depth)
    BY SameBlocks
  <1>5. /\ NoBranch /\ Push(c) /\ UNCHANGED <<phis, defined, status>>
    BY DEF module, NoBranch
  <1>6. Held(c, blocks') = {} /\ HeldOnce(c, blocks')
    BY <1>3, HeldBy DEF HeldOnce
  <1>7. ip' \in Nat
    BY <1>2, Framed
  <1> HIDE DEF c
  <1>8. Builds({})
    BY <1>1, <1>4, <1>5, <1>7, Framed DEF Builds
  <1>9. Enters({}, c, {}, Body)
    BY <1>1, <1>3, <1>4, <1>5, <1>6 DEF Enters, Opening, StmtCalls
  <1>. QED  BY <1>8, <1>9, EnterStep

\* A return from such a call.
LEMMA PlainLeaveStep ==
  ASSUME Inv, status = "run", stmts' \in 0..MaxStmts,
         Top.fn \in {"exprStmt", "inPlace"}, Pop, ip' = ip \/ ip' = Body,
         UNCHANGED <<blocks, module, defined, status>>
  PROVE  Inv'
PROOF
  <1>1. /\ bbs' \in Seq(BBType) /\ owner' \in [BBs' -> FuncNames] /\ BBs' = BBs
    BY NoCreateFacts DEF module, NoCreate
  <1>2. Depth \in Nat /\ Body \in Nat /\ Held(Top, blocks) = {}
    BY Numbers, TopHolds
  <1>3. /\ blocks' \in Seq(BlockType) /\ Len(blocks') = Depth
        /\ blocks'[Depth].body = Body /\ Agree(blocks, blocks', Depth)
    BY SameBlocks
  <1>4. /\ NoBranch /\ UNCHANGED <<phis, defined, status>>
    BY DEF module, NoBranch
  <1>5. ip' \in Nat
    BY <1>2, Framed
  <1>6. Builds({})
    BY <1>1, <1>3, <1>4, <1>5, Framed DEF Builds
  <1>7. Leaves({}, Depth, {}, Body)
    BY <1>1, <1>2, <1>3, <1>4 DEF Leaves, Opening, StmtCalls
  <1>. QED  BY <1>6, <1>7, LeaveStep

\* Instructions in the current block.
LEMMA PlainStayStep ==
  ASSUME Inv, status = "run", stmts' \in 0..MaxStmts, ip' = Body,
         UNCHANGED <<blocks, calls, module, defined, status>>
  PROVE  Inv'
PROOF
  <1>1. /\ bbs' \in Seq(BBType) /\ owner' \in [BBs' -> FuncNames] /\ BBs' = BBs
    BY NoCreateFacts DEF module, NoCreate
  <1>2. Depth \in Nat /\ Body \in Nat
    BY Numbers
  <1>3. /\ blocks' \in Seq(BlockType) /\ Len(blocks') = Depth
        /\ blocks'[Depth].body = Body /\ Agree(blocks, blocks', Depth)
    BY SameBlocks
  <1>4. /\ NoBranch /\ UNCHANGED <<phis, defined, status>>
    BY DEF module, NoBranch
  <1>5. Builds({})
    BY <1>1, <1>2, <1>3, <1>4, Framed DEF Builds
  <1>6. Stays({}, Body)
    BY <1>1, <1>3 DEF Stays
  <1>. QED  BY <1>5, <1>6, StayStep

LEMMA PlainSteps ==
  ASSUME Inv,
         \/ FuncReturnStmt \/ ExprStmt \/ InPlaceExpr \/ ExprStmtEnd
         \/ InPlaceEnd \/ GosubStmt \/ Instr
  PROVE  Inv'
PROOF
  <1>1. CASE FuncReturnStmt
    BY <1>1, Guards, PlainEnterStep DEF FuncReturnStmt
  <1>2. CASE ExprStmt
    BY <1>2, Guards, PlainEnterStep DEF ExprStmt
  <1>3. CASE InPlaceExpr
    BY <1>3, Guards, PlainEnterStep DEF InPlaceExpr
  <1>4. CASE ExprStmtEnd
    BY <1>4, Guards, PlainLeaveStep DEF ExprStmtEnd
  <1>5. CASE InPlaceEnd
    BY <1>5, Guards, PlainLeaveStep DEF InPlaceEnd
  <1>6. CASE GosubStmt
    BY <1>6, Guards, PlainStayStep DEF GosubStmt
  <1>7. CASE Instr
    BY <1>7, Guards, PlainStayStep DEF Instr
  <1>. QED  BY <1>1, <1>2, <1>3, <1>4, <1>5, <1>6, <1>7

\* A failed assertion stops the compiler in the middle of the module.
LEMMA AssertionSteps ==
  ASSUME Inv, JumpOutsideLoop \/ LabelJumpInFunc \/ LocalLabelStmt
  PROVE  Inv'
PROOF
  <1>1. /\ stmts' \in 0..MaxStmts
        /\ status' \in {"no loop block found", "goto should be global",
                        "func != NULL", "isFunctionalGlobal()"}
        /\ UNCHANGED <<blocks, calls, module, ip, defined>>
    BY Guards DEF JumpOutsideLoop, LabelJumpInFunc, LocalLabelStmt, Assertion
  <1>2. TypeOK'
    BY <1>1 DEF Inv, TypeOK, module, BBs, NumBBs
  <1>3. reclosed' = {}
    BY <1>1 DEF Inv, module
  <1>. QED  BY <1>1, <1>2, <1>3 DEF Inv

-----------------------------------------------------------------------------
(* Every action keeps the invariant: expressions with blocks of their own. *)

LEMMA LogicExprStep ==
  ASSUME Inv, LogicExpr
  PROVE  Inv'
PROOF
  <1> DEFINE rhs == NumBBs + 1
             after == NumBBs + 2
             c == Call("logicLhs", Depth, after, 0, rhs, 0)
  <1>1. status = "run" /\ stmts' \in 0..MaxStmts
    BY Guards DEF LogicExpr
  <1>2. /\ bbs' \in Seq(BBType) /\ owner' \in [BBs' -> FuncNames]
        /\ BBs \subseteq BBs' /\ BBs' \ BBs = {rhs, after}
    BY <1>1, BBTypes, Create2 DEF LogicExpr, Kinds
  <1>3. /\ rhs \in Nat /\ after \in Nat /\ Depth \in Nat /\ rhs # after
        /\ Body \notin {rhs, after}
    BY <1>1, Numbers
  <1>4. /\ c \in CallType /\ c.fn = "logicLhs" /\ c.depth = Depth
        /\ c.after = after /\ c.head = rhs
    BY <1>3 DEF Call, CallType, CallKinds, ExprCalls
  <1>5. /\ blocks' \in Seq(BlockType) /\ Len(blocks') = Depth
        /\ blocks'[Depth].body = Body /\ Agree(blocks, blocks', Depth)
    BY <1>1, SameBlocks DEF LogicExpr
  <1>6. /\ NoBranch /\ Push(c) /\ UNCHANGED <<phis, ip, defined, status>>
    BY DEF LogicExpr
  <1>7. Held(c, blocks') = {after, rhs} /\ HeldOnce(c, blocks')
    BY <1>3, <1>4, HeldBy DEF HeldOnce
  <1> HIDE DEF rhs, after, c
  <1>8. Builds({})
    BY <1>1, <1>2, <1>5, <1>6, Framed DEF Builds
  <1>9. Enters({}, c, {after, rhs}, Body)
    BY <1>2, <1>3, <1>4, <1>5, <1>6, <1>7 DEF Enters, Opening, StmtCalls
  <1>. QED  BY <1>8, <1>9, EnterStep

LEMMA LogicRhsStep ==
  ASSUME Inv, LogicRhs
  PROVE  Inv'
PROOF
  <1> DEFINE rhs == Top.head
             after == Top.after
             c == Call("logicRhs", Depth, after, Body, rhs, 0)
             out == {<<Body, rhs>>, <<Body, after>>}
  <1>1. status = "run" /\ stmts' \in 0..MaxStmts /\ Top.fn = "logicLhs"
    BY Guards DEF LogicRhs
  <1>2. /\ bbs' \in Seq(BBType) /\ owner' \in [BBs' -> FuncNames] /\ BBs' = BBs
    BY NoCreateFacts DEF LogicRhs
  <1>3. /\ Held(Top, blocks) = {after, rhs} /\ rhs \in Nat /\ after \in Nat
        /\ Depth \in Nat /\ Body \in Nat /\ rhs # after /\ Body \notin {rhs, after}
    BY <1>1, TopHolds, Numbers
  <1>4. c \in CallType /\ c.fn = "logicRhs" /\ c.depth = Depth /\ c.after = after
    BY <1>3 DEF Call, CallType, CallKinds, ExprCalls
  <1>5. /\ blocks' \in Seq(BlockType) /\ Len(blocks') = Depth
        /\ blocks'[Depth].body = rhs /\ Agree(blocks, blocks', Depth)
    BY <1>1, <1>3, Facts, WithBodyFacts DEF LogicRhs
  <1>6. /\ Terminate({Body}, out) /\ out \in SUBSET (Nat \X Nat)
        /\ Become(c) /\ ip' = rhs /\ UNCHANGED <<phis, defined, status>>
    BY <1>3 DEF LogicRhs
  <1>7. Held(c, blocks') = {after} /\ HeldOnce(c, blocks')
    BY <1>4, HeldBy DEF HeldOnce
  <1> HIDE DEF rhs, after, c, out
  <1>8. Builds({Body})
    BY <1>1, <1>2, <1>3, <1>5, <1>6, TerminateFacts, Framed DEF Builds
  <1>9. Becomes({Body}, c, Depth, {after, rhs}, {after}, rhs)
    BY <1>1, <1>2, <1>3, <1>4, <1>5, <1>6, <1>7 DEF Becomes, Opening, StmtCalls
  <1>. QED  BY <1>8, <1>9, BecomeStep

LEMMA LogicEndStep ==
  ASSUME Inv, LogicEnd
  PROVE  Inv'
PROOF
  <1> DEFINE after == Top.after
             out == {<<Body, after>>}
  <1>1. status = "run" /\ stmts' \in 0..MaxStmts /\ Top.fn = "logicRhs"
    BY Guards DEF LogicEnd
  <1>2. /\ bbs' \in Seq(BBType) /\ owner' \in [BBs' -> FuncNames] /\ BBs' = BBs
    BY NoCreateFacts DEF LogicEnd
  <1>3. /\ Held(Top, blocks) = {after} /\ after \in Nat /\ Top.prevBody \in Nat
        /\ Depth \in Nat /\ Body # after /\ Body \in Nat
    BY <1>1, TopHolds, Numbers
  <1>4. /\ blocks' \in Seq(BlockType) /\ Len(blocks') = Depth
        /\ blocks'[Depth].body = after /\ Agree(blocks, blocks', Depth)
    BY <1>1, <1>3, Facts, WithBodyFacts DEF LogicEnd
  <1>5. /\ Terminate({Body}, out) /\ out \in SUBSET (Nat \X Nat)
        /\ Pop /\ ip' = after /\ UNCHANGED <<defined, status>>
    BY <1>3 DEF LogicEnd
  <1>6. phis' \subseteq [at : Nat, incoming : SUBSET Nat]
    <2>1. PhiIncoming(Top.prevBody, Body) \in SUBSET Nat
      BY <1>3 DEF PhiIncoming
    <2>2. phis \subseteq [at : Nat, incoming : SUBSET Nat]
      BY DEF Inv, TypeOK
    <2>. QED  BY <1>3, <2>1, <2>2 DEF LogicEnd
  <1> HIDE DEF after, out
  <1>7. Builds({Body})
    BY <1>1, <1>2, <1>3, <1>4, <1>5, <1>6, TerminateFacts, Framed DEF Builds
  <1>8. Leaves({Body}, Depth, {after}, after)
    BY <1>1, <1>2, <1>3, <1>4, <1>5 DEF Leaves, Opening, StmtCalls
  <1>. QED  BY <1>7, <1>8, LeaveStep

LEMMA ArrayLoopStep ==
  ASSUME Inv, ArrayLoop
  PROVE  Inv'
PROOF
  <1> DEFINE cond == NumBBs + 1
             body == NumBBs + 2
             after == NumBBs + 3
             c == Call("arrayLoop", Depth, after, 0, 0, cond)
             C == {Body, cond}
             out == {<<Body, cond>>, <<cond, body>>, <<cond, after>>}
  <1>1. status = "run" /\ stmts' \in 0..MaxStmts
    BY Guards DEF ArrayLoop
  <1>2. /\ bbs' \in Seq(BBType) /\ owner' \in [BBs' -> FuncNames]
        /\ BBs \subseteq BBs' /\ BBs' \ BBs = {cond, body, after}
    <2>1. Create(<<BB("arrayLoopCond"), BB("arrayLoopBody"), BB("arrayLoopAfter")>>,
                 getEnclosingFunc)
      BY DEF ArrayLoop
    <2>2. "arrayLoopCond" \in Kinds /\ "arrayLoopBody" \in Kinds /\ "arrayLoopAfter" \in Kinds
      BY DEF Kinds
    <2>. QED  BY <1>1, <2>1, <2>2, Create3
  <1>3. /\ cond \in Nat /\ body \in Nat /\ after \in Nat /\ Depth \in Nat
        /\ Body \in Nat /\ body \notin C \cup {after} /\ after \notin C
    BY <1>1, Numbers
  <1>4. c \in CallType /\ c.fn = "arrayLoop" /\ c.depth = Depth /\ c.after = after
    BY <1>3 DEF Call, CallType, CallKinds, ExprCalls
  <1>5. /\ blocks' \in Seq(BlockType) /\ Len(blocks') = Depth
        /\ blocks'[Depth].body = body /\ Agree(blocks, blocks', Depth)
    BY <1>1, <1>3, Facts, WithBodyFacts DEF ArrayLoop
  <1>6. /\ Terminate(C, out) /\ out \in SUBSET (Nat \X Nat)
        /\ Push(c) /\ ip' = body /\ UNCHANGED <<phis, defined, status>>
    BY <1>3 DEF ArrayLoop
  <1>7. Held(c, blocks') = {after} /\ HeldOnce(c, blocks')
    BY <1>4, HeldBy DEF HeldOnce
  <1>8. /\ C \cup {after} \cup {body} = {Body} \cup (BBs' \ BBs)
        /\ C \cap {after} = {}
    BY <1>2, <1>3
  <1> HIDE DEF cond, body, after, c, C, out
  <1>9. Builds(C)
    BY <1>1, <1>2, <1>3, <1>5, <1>6, TerminateFacts, Framed DEF Builds
  <1>10. Enters(C, c, {after}, body)
    BY <1>3, <1>4, <1>5, <1>6, <1>7, <1>8 DEF Enters, Opening, StmtCalls
  <1>. QED  BY <1>9, <1>10, EnterStep

LEMMA ArrayLoopEndStep ==
  ASSUME Inv, ArrayLoopEnd
  PROVE  Inv'
PROOF
  <1> DEFINE after == Top.after
             out == {<<Body, Top.cond>>}
  <1>1. status = "run" /\ stmts' \in 0..MaxStmts /\ Top.fn = "arrayLoop"
    BY Guards DEF ArrayLoopEnd
  <1>2. /\ bbs' \in Seq(BBType) /\ owner' \in [BBs' -> FuncNames] /\ BBs' = BBs
    BY NoCreateFacts DEF ArrayLoopEnd
  <1>3. /\ Held(Top, blocks) = {after} /\ after \in Nat /\ Top.cond \in Nat
        /\ Depth \in Nat /\ Body # after /\ Body \in Nat
    BY <1>1, TopHolds, Numbers
  <1>4. /\ blocks' \in Seq(BlockType) /\ Len(blocks') = Depth
        /\ blocks'[Depth].body = after /\ Agree(blocks, blocks', Depth)
    BY <1>1, <1>3, Facts, WithBodyFacts DEF ArrayLoopEnd
  <1>5. /\ Terminate({Body}, out) /\ out \in SUBSET (Nat \X Nat)
        /\ Pop /\ ip' = after /\ UNCHANGED <<phis, defined, status>>
    BY <1>3 DEF ArrayLoopEnd, ArrayLoopIp
  <1> HIDE DEF after, out
  <1>6. Builds({Body})
    BY <1>1, <1>2, <1>3, <1>4, <1>5, TerminateFacts, Framed DEF Builds
  <1>7. Leaves({Body}, Depth, {after}, after)
    BY <1>1, <1>2, <1>3, <1>4, <1>5 DEF Leaves, Opening, StmtCalls
  <1>. QED  BY <1>6, <1>7, LeaveStep

-----------------------------------------------------------------------------
(* Every action keeps the invariant: labels, functions, the transfer unit. *)

LEMMA AtUnit ==
  ASSUME Inv, status = "run", Top.fn = "unit"
  PROVE  Len(calls) = 1 /\ Depth = 1
PROOF
  <1>1. /\ Len(calls) \in Nat \ {0} /\ Top = calls[Len(calls)]
        /\ Top.depth = Depth /\ StackOK(calls, blocks)
    BY Facts DEF Connected
  <1>2. Len(calls) = 1
    <2>1. Len(calls) # 1 => Len(calls) \in 2..Len(calls)
      <3>1. \A n \in Nat \ {0} : n # 1 => n \in 2..n
        OBVIOUS
      <3>. QED  BY <1>1, <3>1
    <2>2. \A i \in 2..Len(calls) : calls[i].fn # "unit"
      BY <1>1 DEF StackOK
    <2>. QED  BY <1>1, <2>1, <2>2
  <1>. QED  BY <1>1, <1>2 DEF StackOK

LEMMA LabelStmtStep ==
  ASSUME Inv, LabelStmt
  PROVE  Inv'
PROOF
  <1> DEFINE entry == NumBBs + 1
  <1>1. /\ status = "run" /\ Top.fn = "unit" /\ stmts' \in 0..MaxStmts
        /\ UNCHANGED <<calls, phis, stmts, status>>
    BY Guards DEF LabelStmt
  <1>2. PICK l \in Labels \ defined :
          /\ bbs' = Append(bbs, BB("labelEntry"))
          /\ owner' = [b \in 1..(NumBBs + 1) |->
                         CASE b = entry    -> l
                           [] b = Back.end -> EndOwner(l, b)
                           [] OTHER        -> owner[b]]
          /\ Terminate({Body}, {})
          /\ blocks' = [blocks EXCEPT ![1].func = l, ![1].body = entry]
          /\ defined' = defined \cup {l}
          /\ ip' = entry
    BY DEF LabelStmt
  <1>3. l \in FuncNames /\ defined' \subseteq Labels \cup Funcs
    BY <1>2 DEF FuncNames, Inv, TypeOK
  <1>4. entry \in Nat /\ Body \in Nat /\ entry # Body
    BY <1>1, Numbers
  <1>5. /\ bbs' \in Seq(BBType) /\ NumBBs' = entry
        /\ BBs' = 1..entry /\ BBs = 1..NumBBs
        /\ owner \in [BBs -> FuncNames]
    <2>1. bbs \in Seq(BBType) /\ owner \in [BBs -> FuncNames]
      BY DEF Inv, TypeOK, BBType
    <2>2. BB("labelEntry") \in BBType
      BY <1>1, BBTypes DEF Kinds
    <2>. QED  BY <1>2, <2>1, <2>2, AppendFacts DEF NumBBs, BBs
  <1>6. owner' \in [BBs' -> FuncNames]
    <2>1. ASSUME NEW b \in 1..(NumBBs + 1), b # entry
          PROVE  owner[b] \in FuncNames
      <3>1. b \in BBs
        BY <2>1, <1>1, <1>5, Numbers
      <3>. QED  BY <3>1, <1>5
    <2>2. \A b \in 1..(NumBBs + 1) :
            (CASE b = entry    -> l
               [] b = Back.end -> EndOwner(l, b)
               [] OTHER        -> owner[b]) \in FuncNames
      BY <1>3, <2>1 DEF EndOwner
    <2>. QED  BY <1>2, <1>5, <2>2
  <1>7. BBs \subseteq BBs' /\ BBs' \ BBs = {entry}
    <2>1. NumBBs \in Nat
      BY <1>1, Numbers
    <2>. QED  BY <1>5, <2>1
  <1>8. /\ blocks' \in Seq(BlockType) /\ Len(blocks') = Depth
        /\ blocks'[Depth].body = entry /\ Agree(blocks, blocks', Depth)
    <2> DEFINE x == [blocks[1] EXCEPT !.func = l, !.body = entry]
    <2>1. blocks \in Seq(BlockType) /\ Depth = 1 /\ Depth = Len(blocks)
      BY <1>1, AtUnit, Facts DEF Depth
    <2>2. blocks[1] \in BlockType /\ blocks[1].type = "GLOBAL_BLOCK"
      BY <1>1, <2>1, Facts DEF Connected, StackOK
    <2>3. blocks[1] \in FuncBlockType
      BY <2>2 DEF BlockType, FuncBlockType, InnerBlockType
    <2>4. /\ x \in BlockType /\ x.body = entry
          /\ x.end = blocks[1].end /\ x.type = blocks[1].type
      BY <2>3, <1>3, <1>4 DEF BlockType, FuncBlockType
    <2>5. blocks' = [blocks EXCEPT ![1] = x]
      BY <1>2, <2>1
    <2> HIDE DEF x
    <2>6. /\ blocks' \in Seq(BlockType) /\ Len(blocks') = Len(blocks)
          /\ blocks'[1] = x
      <3>1. 1 \in 1..Len(blocks)
        BY <2>1
      <3>. QED  BY <2>1, <2>4, <2>5, <3>1, ExceptFacts
    <2>. QED  BY <2>1, <2>4, <2>6 DEF Agree
  <1>9. Terminate({Body}, {}) /\ {} \in SUBSET (Nat \X Nat) /\ ip' = entry
    BY <1>2
  <1> HIDE DEF entry
  <1>10. Builds({Body})
    BY <1>1, <1>3, <1>4, <1>5, <1>6, <1>7, <1>8, <1>9, TerminateFacts, Framed
       DEF Builds
  <1>11. Stays({Body}, entry)
    BY <1>1, <1>4, <1>7, <1>8 DEF Stays
  <1>. QED  BY <1>10, <1>11, StayStep

LEMMA FuncDefStmtStep ==
  ASSUME Inv, FuncDefStmt
  PROVE  Inv'
PROOF
  <1> DEFINE entry == NumBBs + 1
             end == NumBBs + 2
             c == Call("func", Depth + 1, 0, 0, 0, 0)
  <1>1. /\ status = "run" /\ Top.fn = "unit" /\ stmts' \in 0..MaxStmts
        /\ Push(c) /\ NoBranch /\ UNCHANGED <<phis, stmts, status>>
    BY Guards DEF FuncDefStmt
  <1>2. PICK f \in Funcs \ defined :
          /\ Create(<<BB("funcBlockEntry"), BB("funcBlockEnd")>>, f)
          /\ blocks' = Append(blocks, FuncBlock(f, entry, end))
          /\ defined' = defined \cup {f}
          /\ ip' \in {ip, entry}
    BY DEF FuncDefStmt
  <1> DEFINE x == FuncBlock(f, entry, end)
  <1>3. /\ f \in FuncNames /\ defined' \subseteq Labels \cup Funcs /\ ip \in Nat
    BY <1>2 DEF FuncNames, Inv, TypeOK
  <1>4. /\ entry \in Nat /\ end \in Nat /\ Body \in Nat /\ Depth = 1
        /\ entry \notin {Body, end} /\ end # Body /\ Len(calls) = 1
    BY <1>1, Numbers, AtUnit
  <1>5. /\ bbs' \in Seq(BBType) /\ owner' \in [BBs' -> FuncNames]
        /\ BBs \subseteq BBs' /\ BBs' \ BBs = {entry, end}
    BY <1>1, <1>2, <1>3, Create2 DEF Kinds
  <1>6. x \in BlockType /\ x.body = entry /\ x.end = end
    BY <1>3, <1>4 DEF FuncBlock, Block, BlockType, FuncBlockType
  <1>7. c \in CallType /\ c.fn = "func" /\ c.depth = Depth + 1
    BY <1>4 DEF Call, CallType, CallKinds, StmtCalls
  <1>8. /\ blocks' \in Seq(BlockType) /\ Len(blocks') = Depth + 1
        /\ blocks'[Depth] = blocks[Depth]
        /\ blocks'[Depth + 1] = x /\ Agree(blocks, blocks', Depth)
    BY <1>1, <1>2, <1>6, Facts, PushBlockFacts
  <1>9. blocks'[Depth].body = Body
    BY <1>1, <1>8, Facts
  <1>10. Held(c, blocks') = {end, Body} /\ HeldOnce(c, blocks')
    <2>1. c.depth - 1 = Depth
      BY <1>4, <1>7
    <2>. QED  BY <1>4, <1>6, <1>7, <1>8, <1>9, <2>1, HeldBy DEF HeldOnce
  <1>11. ip' \in Nat
    BY <1>2, <1>3, <1>4
  <1> HIDE DEF entry, end, c, x
  <1>12. Builds({})
    BY <1>1, <1>3, <1>5, <1>8, <1>11, Framed DEF Builds
  <1>13. Enters({}, c, {end, Body}, entry)
    BY <1>1, <1>4, <1>5, <1>6, <1>7, <1>8, <1>10 DEF Enters, Opening, StmtCalls
  <1>. QED  BY <1>12, <1>13, EnterStep

LEMMA FuncEndStep ==
  ASSUME Inv, FuncEnd
  PROVE  Inv'
PROOF
  <1> DEFINE end == Back.end
             outer == blocks[Depth - 1].body
             C == {Body, end}
             out == {<<Body, end>>}
  <1>1. status = "run" /\ stmts' \in 0..MaxStmts /\ Top.fn = "func"
    BY Guards DEF FuncEnd
  <1>2. /\ bbs' \in Seq(BBType) /\ owner' \in [BBs' -> FuncNames] /\ BBs' = BBs
    BY NoCreateFacts DEF FuncEnd
  <1>3. /\ Depth = 2 /\ Top.fn \in Opening /\ Top.fn # "unit"
    BY <1>1, Caller DEF Opening, StmtCalls
  <1>4. /\ Held(Top, blocks) = {end, outer} /\ end \in Nat /\ Body \in Nat
        /\ outer \notin C
    BY <1>1, TopHolds, Numbers
  <1>5. /\ blocks' \in Seq(BlockType) /\ Len(blocks') = Depth - 1
        /\ blocks'[Depth - 1].body = outer /\ Agree(blocks, blocks', Depth - 1)
    BY <1>1, <1>3, Facts, FrontBlocks DEF FuncEnd
  <1>6. /\ Terminate(C, out) /\ out \in SUBSET (Nat \X Nat)
        /\ Pop /\ ip' = end /\ UNCHANGED <<phis, defined, status>>
    BY <1>4 DEF FuncEnd
  <1>7. C \cup {outer} = {end, outer} \cup {Body} \cup (BBs' \ BBs)
    BY <1>2
  <1> HIDE DEF end, outer, C, out
  <1>8. Builds(C)
    BY <1>1, <1>2, <1>4, <1>5, <1>6, TerminateFacts, Framed DEF Builds
  <1>9. Leaves(C, Depth - 1, {end, outer}, outer)
    BY <1>3, <1>4, <1>5, <1>6, <1>7 DEF Leaves
  <1>. QED  BY <1>8, <1>9, LeaveStep

\* The last step of a successful compilation: only generateTransUnit is left,
\* so its current block and its end block are the last two without a terminator.
LEMMA TransUnitEndStep ==
  ASSUME Inv, TransUnitEnd
  PROVE  Inv'
PROOF
  <1>1. /\ status = "run" /\ stmts' \in 0..MaxStmts /\ Top.fn = "unit"
        /\ NoCreate /\ Terminate({Body, Back.end}, {<<Body, Back.end>>})
        /\ blocks' = Front(blocks) /\ Pop /\ ip' = Back.end /\ status' = "done"
        /\ UNCHANGED <<phis, defined>>
    BY Guards DEF TransUnitEnd
  <1>2. /\ bbs' \in Seq(BBType) /\ owner' \in [BBs' -> FuncNames] /\ BBs' = BBs
    BY <1>1, NoCreateFacts
  <1>3. /\ Len(calls) = 1 /\ Held(Top, blocks) = {Back.end}
        /\ Back.end \in BBs /\ Body \in BBs
        /\ Back.end \in Nat /\ Body \in Nat
    BY <1>1, AtUnit, TopHolds, Facts, Numbers
  <1>4. /\ Holdings(calls, blocks)[1] = {Back.end}
        /\ SharedOut(Holdings(calls, blocks), 1, Body, closed, BBs)
    BY <1>1, <1>3, Facts DEF Connected, Holdings, Depth
  <1>5. /\ closed \cup {Body, Back.end} = BBs
        /\ closed \cap {Body, Back.end} = {}
    <2> DEFINE H == Holdings(calls, blocks)
    <2>1. 1 \in 1..1 /\ \A i \in 1..1 : i = 1
      OBVIOUS
    <2>2. H[1] = {Back.end} /\ SharedOut(H, 1, Body, closed, BBs)
      BY <1>4
    <2> HIDE DEF H
    <2>3. /\ closed \subseteq BBs /\ Body \notin closed
          /\ Body \notin {Back.end} /\ {Back.end} \cap closed = {}
      BY <2>1, <2>2 DEF SharedOut
    <2>4. \A b \in BBs : b \in closed \/ b = Body \/ b \in {Back.end}
      BY <2>1, <2>2 DEF SharedOut
    <2>. QED  BY <1>3, <2>3, <2>4
  <1>6. closed' = BBs' /\ reclosed' = {} /\ edges' \subseteq Nat \X Nat
    BY <1>1, <1>2, <1>3, <1>5 DEF Terminate, Inv, TypeOK
  <1>7. /\ blocks' \in Seq(BlockType) /\ calls' \in Seq(CallType)
    BY <1>1, Facts, FrontBlocks, PopFacts
  <1>8. TypeOK'
    BY <1>1, <1>2, <1>3, <1>6, <1>7, Framed DEF TypeOK, BBType
  <1>. QED  BY <1>1, <1>6, <1>8 DEF Inv

-----------------------------------------------------------------------------
(* The theorems. *)

LEMMA InitInv == Init => Inv
PROOF
  <1> SUFFICES ASSUME Init PROVE Inv
    OBVIOUS
  <1> DEFINE g == GlobalBlock(1, 2)
             c == Call("unit", 1, 0, 0, 0, 0)
  <1>1. /\ g \in BlockType /\ g.type = "GLOBAL_BLOCK" /\ g.body = 1 /\ g.end = 2
    BY DEF GlobalBlock, Block, BlockType, FuncBlockType, FuncNames
  <1>2. c \in CallType /\ c.fn = "unit" /\ c.depth = 1
    BY DEF Call, CallType, CallKinds, StmtCalls
  <1>3. blocks = <<g>> /\ calls = <<c>> /\ status = "run"
    BY DEF Init
  <1>4. /\ bbs \in Seq(BBType) /\ NumBBs = 2 /\ BBs = {1, 2}
    BY DEF Init, LoopBB, BBType, Kinds, NumBBs, BBs
  <1>5. owner \in [BBs -> FuncNames]
    BY <1>4 DEF Init, FuncNames
  <1> HIDE DEF g, c
  <1>6. blocks \in Seq(BlockType) /\ Len(blocks) = 1 /\ blocks[1] = g
    BY <1>1, <1>3
  <1>7. calls \in Seq(CallType) /\ Len(calls) = 1 /\ calls[1] = c
    BY <1>2, <1>3
  <1>8. TypeOK
    BY <1>3, <1>4, <1>5, <1>6, <1>7, CodeGenAssumption DEF Init, TypeOK, BBType
  <1>9. StackOK(calls, blocks)
    BY <1>1, <1>2, <1>6, <1>7 DEF StackOK
  <1>10. Held(c, blocks) = {2} /\ HeldOnce(c, blocks)
    BY <1>1, <1>2, <1>6, HeldBy DEF HeldOnce
  <1>11. Body = 1
    BY <1>1, <1>6 DEF Body, Back, Last
  <1>12. SharedOut(Holdings(calls, blocks), Len(calls), Body, closed, BBs)
    <2>1. Holdings(calls, blocks)[1] = {2} /\ closed = {} /\ 1..1 = {1}
      BY <1>7, <1>10 DEF Holdings, Init
    <2>. QED  BY <1>4, <1>7, <1>11, <2>1 DEF SharedOut
  <1>13. \A i \in 1..Len(calls) : HeldOnce(calls[i], blocks)
    BY <1>7, <1>10
  <1>. QED  BY <1>3, <1>8, <1>9, <1>12, <1>13 DEF Inv, Running, Init

LEMMA NextInv == Inv /\ [Next]_vars => Inv'
PROOF
  <1> SUFFICES ASSUME Inv, [Next]_vars PROVE Inv'
    OBVIOUS
  <1>1. CASE generateStmt
    <2>1. CASE CompStmt
      BY <2>1, CompStmtStep
    <2>2. CASE CompEnd
      BY <2>2, CompEndStep
    <2>3. CASE IfStmt
      BY <2>3, IfStmtStep
    <2>4. CASE IfThen
      BY <2>4, IfBranchStep DEF IfThen
    <2>5. CASE IfThenEnd
      BY <2>5, IfThenEndStep
    <2>6. CASE ElseIf
      BY <2>6, ElseIfStep
    <2>7. CASE ElseThen
      BY <2>7, IfBranchStep DEF ElseThen
    <2>8. CASE ElseThenEnd
      BY <2>8, ElseThenEndStep
    <2>9. CASE NoElse
      BY <2>9, NoElseStep
    <2>10. CASE RepeatStmt
      BY <2>10, RepeatStmtStep
    <2>11. CASE RepeatBody
      BY <2>11, RepeatBodyStep
    <2>12. CASE RepeatEnd
      BY <2>12, RepeatEndStep
    <2>13. CASE ContinueStmt \/ BreakStmt \/ GlobalReturnStmt \/ GotoStmt
      BY <2>13, JumpsStep
    <2>14. CASE JumpOutsideLoop \/ LabelJumpInFunc \/ LocalLabelStmt
      BY <2>14, AssertionSteps
    <2>15. CASE FuncReturnValue
      BY <2>15, FuncReturnValueStep
    <2>16. CASE FuncReturnStmt \/ ExprStmt \/ ExprStmtEnd \/ GosubStmt
      BY <2>16, PlainSteps
    <2>17. CASE LabelStmt
      BY <2>17, LabelStmtStep
    <2>18. CASE FuncDefStmt
      BY <2>18, FuncDefStmtStep
    <2>19. CASE FuncEnd
      BY <2>19, FuncEndStep
    <2>. QED  BY <1>1, <2>1, <2>2, <2>3, <2>4, <2>5, <2>6, <2>7, <2>8, <2>9,
                 <2>10, <2>11, <2>12, <2>13, <2>14, <2>15, <2>16, <2>17,
                 <2>18, <2>19 DEF generateStmt
  <1>2. CASE generateExpr
    <2>1. CASE LogicExpr
      BY <2>1, LogicExprStep
    <2>2. CASE LogicRhs
      BY <2>2, LogicRhsStep
    <2>3. CASE LogicEnd
      BY <2>3, LogicEndStep
    <2>4. CASE ArrayLoop
      BY <2>4, ArrayLoopStep
    <2>5. CASE ArrayLoopEnd
      BY <2>5, ArrayLoopEndStep
    <2>6. CASE Instr \/ InPlaceExpr \/ InPlaceEnd
      BY <2>6, PlainSteps
    <2>. QED  BY <1>2, <2>1, <2>2, <2>3, <2>4, <2>5, <2>6 DEF generateExpr
  <1>3. CASE TransUnitEnd
    BY <1>3, TransUnitEndStep
  <1>4. CASE UNCHANGED vars
    <2>1. TypeOK'
      BY <1>4 DEF vars, module, Inv, TypeOK, BBs, NumBBs
    <2>2. Running' <=> Running
      BY <1>4 DEF vars, module, Running, Body, Back, Last, BBs, NumBBs
    <2>. QED  BY <1>4, <2>1, <2>2 DEF vars, module, Inv, BBs, NumBBs
  <1>. QED  BY <1>1, <1>2, <1>3, <1>4 DEF Next, Stopped

\* The open basic blocks are always shared out between the current block and
\* the generate* functions that are still running.
THEOREM InvariantHolds == Spec => []Inv
PROOF
  <1>. QED  BY InitInv, NextInv, PTL DEF Spec

\* The deque, the activations and the module keep their types.
THEOREM TypeCorrect == Spec => []TypeOK
PROOF
  <1>1. Inv => TypeOK
    BY DEF Inv
  <1>. QED  BY <1>1, InvariantHolds, PTL

\* Whatever the program, whatever its nesting: no generate* function gives a
\* basic block a second terminator, and a compilation that reaches its end
\* leaves no block of any function without one.
THEOREM EveryBlockTerminatedOnce == Spec => []OneTerminatorEach
PROOF
  <1>1. Inv => OneTerminatorEach
    BY DEF Inv, OneTerminatorEach
  <1>. QED  BY <1>1, InvariantHolds, PTL

\* Whatever the program: the block the generate* functions emit into next,
\* blocks.back().body, never has a terminator while the compiler runs.
THEOREM BodyAlwaysOpen == Spec => []BodyIsOpen
PROOF
  <1>1. Inv => BodyIsOpen
    BY DEF Inv, Running, SharedOut, BodyIsOpen
  <1>. QED  BY <1>1, InvariantHolds, PTL

-----------------------------------------------------------------------------
(* Places. *)

\* Every activation but the first has one below it.
LEMMA Positive ==
  \A n \in Nat \ {0} : n # 1 => n \in 2..n /\ n - 1 \in 1..n /\ (n - 1) + 1 = n
PROOF OBVIOUS

\* The repeat statement around activation i is told by the first i activations.
LEMMA LoopAtPrefix ==
  ASSUME NEW cs, NEW cs2, NEW n \in Nat, \A j \in 1..n : cs2[j] = cs[j]
  PROVE  LoopAt(cs2, n) = LoopAt(cs, n)
PROOF
  <1> DEFINE S == {j \in 1..n : cs[j].fn = "repeat"}
  <1>1. {j \in 1..n : cs2[j].fn = "repeat"} = S
    OBVIOUS
  <1>2. CASE S = {}
    BY <1>1, <1>2 DEF LoopAt
  <1>3. CASE S # {}
    <2>1. Max(S) \in 1..n
      <3>1. S \in SUBSET (1..n)
        OBVIOUS
      <3>2. Max(S) \in S
        <4> HIDE DEF S
        <4>. QED  BY <1>3, <3>1, MaxOfIndices
      <3>. QED  BY <3>2
    <2>. QED  BY <1>1, <1>3, <2>1 DEF LoopAt
  <1>. QED  BY <1>2, <1>3

LEMMA LoopAtStep ==
  ASSUME NEW cs, NEW n \in Nat
  PROVE  LoopAt(cs, n + 1) =
           IF cs[n + 1].fn = "repeat" THEN cs[n + 1].cond ELSE LoopAt(cs, n)
PROOF
  <1> DEFINE S == {j \in 1..n : cs[j].fn = "repeat"}
             T == {j \in 1..(n + 1) : cs[j].fn = "repeat"}
  <1>1. CASE cs[n + 1].fn = "repeat"
    <2>1. T \in SUBSET (1..(n + 1)) /\ n + 1 \in T /\ T # {} /\ n + 1 \in Nat
      BY <1>1
    <2>2. Max(T) \in 1..(n + 1) /\ Max(T) >= n + 1
      <3> HIDE DEF T
      <3>1. Max(T) \in T /\ \A i \in T : Max(T) >= i
        BY <2>1, MaxOfIndices
      <3>. QED  BY <2>1, <3>1
    <2>3. Max(T) = n + 1
      BY <2>2
    <2>. QED  BY <1>1, <2>1, <2>3 DEF LoopAt
  <1>2. CASE cs[n + 1].fn # "repeat"
    <2>1. T = S
      BY <1>2
    <2>. QED  BY <1>2, <2>1 DEF LoopAt
  <1>. QED  BY <1>1, <1>2

LEMMA LoopAtStart == \A cs : LoopAt(cs, 0) = 0
PROOF BY DEF LoopAt

LEMMA LexicalLoopIs ==
  ASSUME calls \in Seq(CallType)
  PROVE  LexicalLoop = LoopAt(calls, Len(calls))
PROOF
  <1>1. DOMAIN calls = 1..Len(calls)
    OBVIOUS
  <1>2. {i \in DOMAIN calls : calls[i].fn = "repeat"}
          = {j \in 1..Len(calls) : calls[j].fn = "repeat"}
    BY <1>1
  <1>. QED  BY <1>2 DEF LexicalLoop, LoopAt

\* The deque bl2 has the Blocks of bl up to p, but for the body of p.
SameDeque(bl, bl2, p) ==
  /\ p \in Nat /\ p <= Len(bl) /\ p <= Len(bl2)
  /\ \A d \in 1..p : /\ bl2[d].type = bl[d].type /\ bl2[d].func = bl[d].func
                     /\ bl2[d].end = bl[d].end
                     /\ bl2[d].continue_ = bl[d].continue_
                     /\ bl2[d].break_ = bl[d].break_
  /\ \A d \in 1..(p - 1) : bl2[d].body = bl[d].body

\* The first k activations are where they were.
LEMMA SamePlace ==
  ASSUME NEW cs, NEW cs2, NEW bl, NEW bl2, NEW k \in Nat,
         StackOK(cs, bl), k \in 1..Len(cs), Len(cs) \in Nat,
         \A i \in 1..k : cs2[i] = cs[i],
         SameDeque(bl, bl2, cs[k].depth)
  PROVE  \A i \in 1..k : PlaceAt(cs2, bl2, i) = PlaceAt(cs, bl, i)
PROOF
  <1> TAKE i \in 1..k
  <1>1. LoopAt(cs2, i) = LoopAt(cs, i)
    BY LoopAtPrefix
  <1>2. cs[1].depth = 1 /\ 1 \in 1..Len(cs) /\ cs[k].depth >= 1
    BY DEF StackOK
  <1>3. FuncAt(cs2, bl2, i) = FuncAt(cs, bl, i)
    <2>1. CASE i >= 2 /\ cs[2].fn = "func"
      <3>1. 2 \in 1..k /\ 2 \in 2..Len(cs)
        BY <2>1
      <3>2. cs[2].depth = cs[1].depth + 1
        BY <2>1, <3>1 DEF StackOK, Opening, StmtCalls
      <3>3. cs[2].depth <= cs[k].depth
        BY <3>1, <3>2 DEF StackOK
      <3>4. 2 \in 1..cs[k].depth
        BY <1>2, <3>2, <3>3 DEF SameDeque
      <3>. QED  BY <2>1, <3>1, <3>4 DEF FuncAt, SameDeque
    <2>2. CASE ~ (i >= 2 /\ cs[2].fn = "func")
      <3>1. ~ (i >= 2 /\ cs2[2].fn = "func")
        BY <2>2
      <3>2. 1 \in 1..cs[k].depth
        BY <1>2 DEF SameDeque
      <3>. QED  BY <2>2, <3>1, <3>2 DEF FuncAt, SameDeque
    <2>. QED  BY <2>1, <2>2
  <1>. QED  BY <1>1, <1>3 DEF PlaceAt

\* Where the next activation is.
LEMMA NextPlace ==
  ASSUME NEW cs, NEW bl, NEW k \in Nat \ {0},
         StackOK(cs, bl), Len(cs) = k + 1
  PROVE  PlaceAt(cs, bl, k + 1) =
           Place(IF cs[k + 1].fn = "repeat" THEN cs[k + 1].cond ELSE LoopAt(cs, k),
                 IF cs[k + 1].fn = "func" THEN bl[2].func ELSE FuncAt(cs, bl, k))
PROOF
  <1>1. cs[k + 1].fn = "func" => k = 1
    BY DEF StackOK
  <1>2. FuncAt(cs, bl, k + 1) =
          IF cs[k + 1].fn = "func" THEN bl[2].func ELSE FuncAt(cs, bl, k)
    <2>1. CASE k = 1
      BY <2>1 DEF FuncAt
    <2>2. CASE k >= 2
      BY <1>1, <2>2 DEF FuncAt
    <2>. QED  BY <2>1, <2>2
  <1>. QED  BY <1>2, LoopAtStep DEF PlaceAt

-----------------------------------------------------------------------------
(* What a step keeps. *)

\* The module has all the blocks it had, where they were.
Extends(bb, ow, bb2, ow2) ==
  /\ Len(bb) \in Nat /\ Len(bb2) \in Nat /\ Len(bb) <= Len(bb2)
  /\ \A b \in 1..Len(bb) : bb2[b] = bb[b] /\ ow2[b] = ow[b]

LEMMA LocatedFrame ==
  ASSUME NEW bb, NEW ow, NEW bb2, NEW ow2, Extends(bb, ow, bb2, ow2)
  PROVE  \A b, kinds, place :
           Located(bb, ow, b, kinds, place) => Located(bb2, ow2, b, kinds, place)
PROOF BY DEF Extends, Located

LEMMA LocalsFrame ==
  ASSUME NEW bb, NEW ow, NEW bb2, NEW ow2, Extends(bb, ow, bb2, ow2),
         NEW c, NEW place, NEW outer, Locals(c, bb, ow, place, outer)
  PROVE  Locals(c, bb2, ow2, place, outer)
PROOF
  <1>1. \A b, kinds, p : Located(bb, ow, b, kinds, p) => Located(bb2, ow2, b, kinds, p)
    BY LocatedFrame
  <1>. QED  BY <1>1 DEF Locals

LEMMA PushedFrame ==
  ASSUME NEW bb, NEW ow, NEW bb2, NEW ow2, Extends(bb, ow, bb2, ow2),
         NEW c, NEW x, NEW x2, NEW under, NEW under2, NEW place, NEW outer,
         x2.type = x.type, x2.end = x.end, x2.continue_ = x.continue_,
         x2.break_ = x.break_, c.fn = "func" => under2.body = under.body,
         Pushed(c, x, under, bb, ow, place, outer)
  PROVE  Pushed(c, x2, under2, bb2, ow2, place, outer)
PROOF
  <1>1. \A b, kinds, p : Located(bb, ow, b, kinds, p) => Located(bb2, ow2, b, kinds, p)
    BY LocatedFrame
  <1>. QED  BY <1>1 DEF Pushed

\* The activations up to k stay settled.
LEMMA SettledFrame ==
  ASSUME NEW cs, NEW cs2, NEW bl, NEW bl2, NEW k \in Nat,
         NEW bb, NEW ow, NEW bb2, NEW ow2,
         StackOK(cs, bl), k \in 1..Len(cs), Len(cs) \in Nat,
         \A i \in 1..k : cs2[i] = cs[i],
         SameDeque(bl, bl2, cs[k].depth),
         Extends(bb, ow, bb2, ow2)
  PROVE  \A i \in 1..k : Settled(cs, bl, bb, ow, i) => Settled(cs2, bl2, bb2, ow2, i)
PROOF
  <1> SUFFICES ASSUME NEW i \in 1..k, Settled(cs, bl, bb, ow, i)
               PROVE  Settled(cs2, bl2, bb2, ow2, i)
    OBVIOUS
  <1> DEFINE place == PlaceAt(cs, bl, i)
             outer == IF i = 1 THEN place ELSE PlaceAt(cs, bl, i - 1)
             c == cs[i]
             d == cs[i].depth
  <1>1. \A j \in 1..k : PlaceAt(cs2, bl2, j) = PlaceAt(cs, bl, j)
    BY SamePlace
  <1>2. /\ place = PlaceAt(cs2, bl2, i)
        /\ outer = IF i = 1 THEN place ELSE PlaceAt(cs2, bl2, i - 1)
        /\ cs2[i] = c
    <2>1. i # 1 => i - 1 \in 1..k
      OBVIOUS
    <2>. QED  BY <1>1, <2>1
  <1>3. /\ Locals(c, bb, ow, place, outer)
        /\ c.fn \in Opening => Pushed(c, bl[d], bl[d - 1], bb, ow, place, outer)
    BY DEF Settled
  <1>4. d \in 1..cs[k].depth
    BY DEF StackOK
  <1>5. /\ bl2[d].type = bl[d].type /\ bl2[d].end = bl[d].end
        /\ bl2[d].continue_ = bl[d].continue_ /\ bl2[d].break_ = bl[d].break_
    BY <1>4 DEF SameDeque
  <1>6. c.fn = "func" => bl2[d - 1].body = bl[d - 1].body
    <2> SUFFICES ASSUME c.fn = "func" PROVE bl2[d - 1].body = bl[d - 1].body
      OBVIOUS
    <2>1. i = 2 /\ i \in 2..Len(cs)
      BY DEF StackOK
    <2>2. d = cs[1].depth + 1 /\ cs[1].depth = 1
      BY <2>1 DEF StackOK, Opening, StmtCalls
    <2>. QED  BY <2>2, <1>4 DEF SameDeque
  <1> HIDE DEF place, outer, c, d
  <1>7. Locals(c, bb2, ow2, place, outer)
    BY <1>3, LocalsFrame
  <1>8. c.fn \in Opening => Pushed(c, bl2[d], bl2[d - 1], bb2, ow2, place, outer)
    BY <1>3, <1>5, <1>6, PushedFrame
  <1>9. c.fn = "return" => i >= 2 /\ cs2[2].fn = "func"
    <2>1. c.fn = "return" => i >= 2 /\ cs[2].fn = "func"
      BY DEF Settled, c
    <2>2. i >= 2 => 2 \in 1..k
      OBVIOUS
    <2>. QED  BY <2>1, <2>2
  <1>. QED  BY <1>2, <1>7, <1>8, <1>9 DEF Settled, c, d

LEMMA GoodEdgeFrame ==
  ASSUME NEW bb, NEW ow, NEW bb2, NEW ow2, Extends(bb, ow, bb2, ow2),
         NEW e, GoodEdge(bb, ow, e)
  PROVE  GoodEdge(bb2, ow2, e)
PROOF
  <1>1. /\ e[1] \in 1..Len(bb2) /\ bb2[e[1]] = bb[e[1]] /\ ow2[e[1]] = ow[e[1]]
        /\ e[2] \in 1..Len(bb2) /\ bb2[e[2]] = bb[e[2]] /\ ow2[e[2]] = ow[e[2]]
    BY DEF Extends, GoodEdge
  <1>2. \A b : b \in 1..Len(bb) => b \in 1..Len(bb2) /\ bb2[b] = bb[b]
    BY DEF Extends
  <1>. QED  BY <1>1, <1>2, Zenon DEF GoodEdge

\* An edge within a place, to a block that is no head of a loop.
LEMMA PlainEdge ==
  ASSUME NEW bb, NEW ow, NEW a, NEW b, NEW K, NEW kind, NEW place,
         Located(bb, ow, a, K, place), Located(bb, ow, b, {kind}, place),
         "globalBlockEnd" \notin K, kind \notin {"globalBlockEnd", "repeatCond"}
  PROVE  GoodEdge(bb, ow, <<a, b>>)
PROOF BY DEF Located, GoodEdge

\* The activations up to k, and at most one beyond it before and after.
Moves(cs, bl, cs2, bl2, k) ==
  /\ k \in 1..Len(cs) /\ Len(cs) \in {k, k + 1} /\ Len(cs2) \in {k, k + 1}
  /\ \A i \in 1..k : cs2[i] = cs[i]
  /\ SameDeque(bl, bl2, cs[k].depth)

LEMMA CallsFrame ==
  ASSUME NEW cs, NEW cs2, NEW bl, NEW bl2, NEW k, Moves(cs, bl, cs2, bl2, k),
         Len(cs) \in Nat, Len(bl2) \in Nat,
         StackOK(cs, bl), StackOK(cs2, bl2), EveryBlockHasItsCall(cs, bl)
  PROVE  EveryBlockHasItsCall(cs2, bl2)
PROOF
  <1> SUFFICES ASSUME NEW d \in 1..Len(bl2)
               PROVE  \E i \in 1..Len(cs2) : cs2[i].fn \in Opening /\ cs2[i].depth = d
    BY DEF EveryBlockHasItsCall
  <1>0. /\ k \in Nat /\ k >= 1 /\ k \in 1..Len(cs) /\ Len(cs) \in {k, k + 1}
        /\ k \in 1..Len(cs2) /\ Len(cs2) \in {k, k + 1}
        /\ \A i \in 1..k : cs2[i] = cs[i]
    BY DEF Moves
  <1>1. CASE d <= cs[k].depth
    <2>1. d \in 1..Len(bl)
      BY <1>1 DEF Moves, SameDeque
    <2>2. PICK i \in 1..Len(cs) : cs[i].fn \in Opening /\ cs[i].depth = d
      BY <2>1 DEF EveryBlockHasItsCall
    <2>3. i \in 1..k
      <3> SUFFICES ASSUME i \notin 1..k PROVE FALSE
        OBVIOUS
      <3>1. k < i
        BY <1>0
      <3>2. cs[k].depth < cs[i].depth
        BY <1>0, <2>2, <3>1 DEF StackOK
      <3>3. cs[k].depth \in 1..Len(bl)
        BY <1>0 DEF StackOK
      <3>. QED  BY <1>1, <2>2, <3>2, <3>3
    <2>. QED  BY <1>0, <2>2, <2>3
  <1>2. CASE d > cs[k].depth
    <2>1. cs2[Len(cs2)].depth = Len(bl2) /\ cs2[k].depth = cs[k].depth
      BY <1>0 DEF StackOK
    <2>2. Len(cs2) = k + 1
      BY <1>0, <1>2, <2>1
    <2>3. k + 1 \in 2..Len(cs2) /\ (k + 1) - 1 = k
      BY <1>0, <2>2
    <2>4. /\ cs2[k + 1].fn \in Opening => cs2[k + 1].depth = cs2[k].depth + 1
          /\ cs2[k + 1].fn \notin Opening => cs2[k + 1].depth = cs2[k].depth
      BY <2>3 DEF StackOK
    <2>5. cs[k].depth \in Nat
      BY DEF Moves, SameDeque
    <2>6. cs2[k + 1].fn \in Opening /\ cs2[k + 1].depth = d
      BY <1>2, <2>1, <2>2, <2>4, <2>5
    <2>. QED  BY <1>0, <2>2, <2>6
  <1>. QED
    <2>1. cs[k].depth \in Nat
      BY DEF Moves, SameDeque
    <2>. QED  BY <1>1, <1>2, <2>1

\* PHI nodes and the blocks of those to come keep their predecessors when no
\* edge goes to such a block.
LEMMA PhisFrame ==
  ASSUME NEW cs, NEW cs2, NEW k \in Nat, NEW bb, NEW ow, NEW bb2, NEW ow2,
         NEW es, NEW out, NEW ph,
         Extends(bb, ow, bb2, ow2), PhisOK(cs, bb, es, ph),
         Len(cs) \in {k, k + 1}, Len(cs2) \in {k, k + 1},
         \A i \in 1..k : cs2[i] = cs[i],
         \A e \in es : e[2] \in 1..Len(bb),
         \A e \in out : bb2[e[2]].kind # "logicAfter",
         \A i \in 1..Len(cs) : cs[i].fn \in {"logicLhs", "logicRhs"} =>
           cs[i].after \in 1..Len(bb) /\ bb[cs[i].after].kind = "logicAfter",
         Len(cs2) = k + 1 =>
           /\ cs2[k + 1].fn # "logicRhs"
           /\ cs2[k + 1].fn = "logicLhs" =>
                /\ cs2[k + 1].after \notin 1..Len(bb)
                /\ bb2[cs2[k + 1].after].kind = "logicAfter"
  PROVE  PhisOK(cs2, bb2, es \cup out, ph)
PROOF
  <1>1. \A b : bb2[b].kind = "logicAfter" => Preds(es \cup out, b) = Preds(es, b)
    BY DEF Preds
  <1>2. \A b : b \in 1..Len(bb) => b \in 1..Len(bb2) /\ bb2[b] = bb[b]
    BY DEF Extends
  <1>3. \A b : b \notin 1..Len(bb) => Preds(es, b) = {}
    BY DEF Preds
  <1>4. \A phi \in ph : /\ phi.at \in 1..Len(bb2) /\ bb2[phi.at].kind = "logicAfter"
                        /\ phi.incoming = Preds(es \cup out, phi.at)
    <2>1. \A phi \in ph : /\ phi.at \in 1..Len(bb) /\ bb[phi.at].kind = "logicAfter"
                          /\ phi.incoming = Preds(es, phi.at)
      BY DEF PhisOK
    <2>. QED  BY <1>1, <1>2, <2>1
  <1>5. ASSUME NEW i \in 1..Len(cs2)
        PROVE  /\ cs2[i].fn = "logicLhs" => Preds(es \cup out, cs2[i].after) = {}
               /\ cs2[i].fn = "logicRhs" =>
                    Preds(es \cup out, cs2[i].after) = {cs2[i].prevBody}
               /\ cs2[i].fn \in {"logicLhs", "logicRhs"} =>
                    \A phi \in ph : phi.at # cs2[i].after
    <2>1. CASE i \in 1..k
      <3>1. cs2[i] = cs[i] /\ i \in 1..Len(cs)
        BY <2>1
      <3>2. cs[i].fn \in {"logicLhs", "logicRhs"} =>
              Preds(es \cup out, cs[i].after) = Preds(es, cs[i].after)
        <4>1. cs[i].fn \in {"logicLhs", "logicRhs"} =>
                cs[i].after \in 1..Len(bb) /\ bb[cs[i].after].kind = "logicAfter"
          BY <3>1
        <4>2. cs[i].fn \in {"logicLhs", "logicRhs"} => bb2[cs[i].after].kind = "logicAfter"
          BY <1>2, <4>1
        <4>. QED  BY <1>1, <4>2
      <3>. QED  BY <3>1, <3>2 DEF PhisOK
    <2>2. CASE i = k + 1
      <3>1. /\ cs2[i].fn # "logicRhs"
            /\ cs2[i].fn = "logicLhs" => /\ cs2[i].after \notin 1..Len(bb)
                                         /\ bb2[cs2[i].after].kind = "logicAfter"
        BY <2>2
      <3>2. \A phi \in ph : phi.at \in 1..Len(bb)
        BY DEF PhisOK
      <3>. QED  BY <1>1, <1>3, <3>1, <3>2
    <2>3. i \in 1..k \/ i = k + 1
      OBVIOUS
    <2>. QED  BY <2>1, <2>2, <2>3, Zenon
  <1>. QED  BY <1>4, <1>5 DEF PhisOK

-----------------------------------------------------------------------------
(* What is known of a state in which the compiler runs. *)

LEMMA Basics ==
  ASSUME FlowInv, status = "run"
  PROVE  /\ Inv /\ Flowing /\ StackOK(calls, blocks)
         /\ calls \in Seq(CallType) /\ blocks \in Seq(BlockType)
         /\ Len(calls) \in Nat \ {0} /\ Len(blocks) \in Nat \ {0}
         /\ Len(calls) \in 1..Len(calls)
         /\ Top = calls[Len(calls)] /\ Top.depth = Len(blocks)
         /\ Back = blocks[Len(blocks)] /\ Body = blocks[Len(blocks)].body
         /\ NumBBs = Len(bbs) /\ NumBBs \in Nat /\ BBs = 1..Len(bbs)
         /\ Depth = Len(blocks)
PROOF
  <1>1. Inv /\ Flowing
    BY DEF FlowInv
  <1>. QED  BY <1>1, Facts DEF Connected, Depth, NumBBs, BBs

\* Who pushed which kind of Block.
LEMMA BlockOf ==
  ASSUME FlowInv, status = "run", NEW d \in 1..Len(blocks)
  PROVE  \E i \in 1..Len(calls) :
           /\ calls[i].depth = d /\ calls[i].fn \in Opening
           /\ blocks[d].type = "GLOBAL_BLOCK" => i = 1 /\ d = 1
           /\ blocks[d].type = "FUNC_BLOCK" => i = 2 /\ calls[i].fn = "func" /\ d = 2
           /\ blocks[d].type = "LOOP_BLOCK" <=> calls[i].fn = "repeat"
           /\ calls[i].fn = "repeat" => /\ blocks[d].continue_ = calls[i].cond + 1
                                        /\ blocks[d].break_ = calls[i].after
PROOF
  <1>0. StackOK(calls, blocks) /\ Len(calls) \in Nat
    BY Basics
  <1>1. PICK i \in 1..Len(calls) : calls[i].fn \in Opening /\ calls[i].depth = d
    BY Basics DEF Flowing, EveryBlockHasItsCall
  <1>2. Settled(calls, blocks, bbs, owner, i)
    BY Basics DEF Flowing
  <1>3. \E place, outer, under : Pushed(calls[i], blocks[d], under, bbs, owner, place, outer)
    BY <1>1, <1>2 DEF Settled
  <1>4. /\ calls[i].fn = "unit" => blocks[d].type = "GLOBAL_BLOCK"
        /\ calls[i].fn = "func" => blocks[d].type = "FUNC_BLOCK"
        /\ calls[i].fn \in {"comp", "ifThen", "elseThen", "repeatCount", "repeatForever"} =>
             blocks[d].type = "COMP_BLOCK"
        /\ calls[i].fn = "repeat" => /\ blocks[d].type = "LOOP_BLOCK"
                                     /\ blocks[d].continue_ = calls[i].cond + 1
                                     /\ blocks[d].break_ = calls[i].after
    BY <1>3 DEF Pushed
  <1>5. calls[i].fn = "unit" => i = 1 /\ d = 1
    <2>1. i # 1 => i \in 2..Len(calls)
      BY <1>0
    <2>. QED  BY <1>0, <1>1, <2>1 DEF StackOK
  <1>6. calls[i].fn = "func" => i = 2 /\ d = 2
    <2> SUFFICES ASSUME calls[i].fn = "func" PROVE i = 2 /\ d = 2
      OBVIOUS
    <2>1. i # 1
      BY <1>0 DEF StackOK
    <2>2. i = 2 /\ i \in 2..Len(calls)
      BY <1>0, <2>1 DEF StackOK
    <2>3. calls[2].depth = calls[1].depth + 1 /\ calls[1].depth = 1
      BY <1>0, <1>1, <2>2 DEF StackOK
    <2>. QED  BY <1>1, <2>2, <2>3
  <1>7. calls[i].fn \in {"unit", "func", "comp", "ifThen", "elseThen", "repeat",
                         "repeatCount", "repeatForever"}
    BY <1>1 DEF Opening, StmtCalls
  <1>. QED  BY <1>1, <1>4, <1>5, <1>6, <1>7

InFunc == Len(calls) >= 2 /\ calls[2].fn = "func"

\* The search for the enclosing function finds the one that is being generated.
LEMMA EnclosingFuncIs ==
  ASSUME FlowInv, status = "run"
  PROVE  /\ getEnclosingFuncBlock = blocks[IF InFunc THEN 2 ELSE 1]
         /\ isFunctionalGlobal <=> ~InFunc
         /\ getEnclosingFunc = FuncAt(calls, blocks, Len(calls))
         /\ InFunc => Settled(calls, blocks, bbs, owner, 2) /\ calls[2].depth = 2
PROOF
  <1> DEFINE S == {i \in DOMAIN blocks :
                     blocks[i].type \in {"FUNC_BLOCK", "GLOBAL_BLOCK"}}
  <1>0. /\ StackOK(calls, blocks) /\ Len(calls) \in Nat \ {0}
        /\ blocks \in Seq(BlockType) /\ Len(blocks) \in Nat \ {0}
    BY Basics
  <1>1. S \in SUBSET (1..Len(blocks)) /\ 1 \in S
    BY <1>0 DEF StackOK
  <1>2. \A d \in S : d = 1 \/ (d = 2 /\ InFunc)
    <2> TAKE d \in S
    <2>1. d \in 1..Len(blocks)
      BY <1>1
    <2>2. PICK i \in 1..Len(calls) :
            /\ blocks[d].type = "GLOBAL_BLOCK" => d = 1
            /\ blocks[d].type = "FUNC_BLOCK" => i = 2 /\ calls[i].fn = "func" /\ d = 2
      BY <2>1, BlockOf
    <2>3. blocks[d].type \in {"FUNC_BLOCK", "GLOBAL_BLOCK"}
      OBVIOUS
    <2>. QED  BY <1>0, <2>2, <2>3 DEF InFunc
  <1>3. InFunc => /\ 2 \in S /\ blocks[2].type = "FUNC_BLOCK"
                  /\ Settled(calls, blocks, bbs, owner, 2) /\ calls[2].depth = 2
    <2> SUFFICES ASSUME InFunc
                 PROVE  /\ 2 \in S /\ blocks[2].type = "FUNC_BLOCK"
                        /\ Settled(calls, blocks, bbs, owner, 2) /\ calls[2].depth = 2
      OBVIOUS
    <2>1. 2 \in 2..Len(calls) /\ 2 \in 1..Len(calls) /\ calls[2].fn = "func"
      BY <1>0 DEF InFunc
    <2>2. Settled(calls, blocks, bbs, owner, 2)
      BY <2>1, Basics DEF Flowing
    <2>3. calls[2].depth = 2 /\ 2 \in 1..Len(blocks)
      <3>1. calls[2].depth = calls[2 - 1].depth + 1 /\ 2 - 1 = 1
        BY <1>0, <2>1 DEF StackOK, Opening, StmtCalls
      <3>. QED  BY <1>0, <2>1, <3>1 DEF StackOK
    <2>4. blocks[2].type = "FUNC_BLOCK"
      BY <2>1, <2>2, <2>3 DEF Settled, Opening, StmtCalls, Pushed
    <2>. QED  BY <1>0, <2>2, <2>3, <2>4
  <1>4. Max(S) \in S /\ \A i \in S : Max(S) >= i
    <2> HIDE DEF S
    <2>. QED  BY <1>0, <1>1, MaxOfIndices
  <1>5. Max(S) = IF InFunc THEN 2 ELSE 1
    <2> HIDE DEF S
    <2>1. CASE InFunc
      BY <1>2, <1>3, <1>4, <2>1
    <2>2. CASE ~InFunc
      BY <1>2, <1>4, <2>2
    <2>. QED  BY <2>1, <2>2
  <1>6. getEnclosingFuncBlock = blocks[IF InFunc THEN 2 ELSE 1]
    BY <1>5 DEF getEnclosingFuncBlock, InnermostOf
  <1>7. blocks[1].type = "GLOBAL_BLOCK"
    BY <1>0 DEF StackOK
  <1>. QED  BY <1>3, <1>6, <1>7 DEF isFunctionalGlobal, getEnclosingFunc, FuncAt, InFunc

Here == Place(LexicalLoop, getEnclosingFunc)
Around == PlaceAt(calls, blocks, Len(calls) - 1)

\* Where the activation on top is, and that its blocks are there too.
LEMMA FlowFacts ==
  ASSUME FlowInv, status = "run"
  PROVE  /\ PlaceAt(calls, blocks, Len(calls)) = Here
         /\ Located(bbs, owner, Body, BodyKinds, Here)
         /\ Top.fn # "unit" =>
              /\ Locals(Top, bbs, owner, Here, Around)
              /\ Top.fn \in Opening =>
                   Pushed(Top, Back, blocks[Depth - 1], bbs, owner, Here, Around)
         /\ Top.fn = "unit" => Pushed(Top, Back, blocks[Depth - 1], bbs, owner, Here, Here)
         /\ Top.fn \notin {"unit", "func", "repeat"} => Around = Here
         /\ Top.fn = "repeat" => Here = Place(Top.cond, Around.func)
         /\ Top.fn = "func" => Around.func = blocks[1].func
PROOF
  <1> DEFINE n == Len(calls)
  <1>0. /\ StackOK(calls, blocks) /\ n \in Nat \ {0} /\ n \in 1..n
        /\ calls \in Seq(CallType) /\ Top = calls[n] /\ Top.depth = Len(blocks)
        /\ Back = blocks[Len(blocks)] /\ Depth = Len(blocks) /\ Flowing
    BY Basics
  <1>1. PlaceAt(calls, blocks, n) = Here
    BY <1>0, LexicalLoopIs, EnclosingFuncIs DEF PlaceAt, Here
  <1>2. Located(bbs, owner, Body, BodyKinds, Here)
    BY <1>0, <1>1 DEF Flowing
  <1>3. Settled(calls, blocks, bbs, owner, n)
    BY <1>0 DEF Flowing
  <1>4. Top.fn = "unit" <=> n = 1
    <2>1. n # 1 => n \in 2..n
      BY <1>0, Positive
    <2>. QED  BY <1>0, <2>1 DEF StackOK
  <1>5. Top.fn # "unit" =>
          /\ LoopAt(calls, n) = IF Top.fn = "repeat" THEN Top.cond ELSE LoopAt(calls, n - 1)
          /\ Top.fn # "func" => FuncAt(calls, blocks, n) = FuncAt(calls, blocks, n - 1)
          /\ Top.fn = "func" => FuncAt(calls, blocks, n - 1) = blocks[1].func
    <2> SUFFICES ASSUME Top.fn # "unit"
                 PROVE  /\ LoopAt(calls, n) =
                             IF Top.fn = "repeat" THEN Top.cond ELSE LoopAt(calls, n - 1)
                        /\ Top.fn # "func" => FuncAt(calls, blocks, n) = FuncAt(calls, blocks, n - 1)
                        /\ Top.fn = "func" => FuncAt(calls, blocks, n - 1) = blocks[1].func
      OBVIOUS
    <2>1. n - 1 \in Nat /\ (n - 1) + 1 = n /\ n \in 2..n
      <3>1. n \in Nat \ {0} /\ n # 1
        BY <1>0, <1>4
      <3> HIDE DEF n
      <3>. QED  BY <3>1, Positive
    <2>2. LoopAt(calls, (n - 1) + 1) =
            IF calls[(n - 1) + 1].fn = "repeat" THEN calls[(n - 1) + 1].cond
            ELSE LoopAt(calls, n - 1)
      BY <2>1, LoopAtStep
    <2>3. Top.fn = "func" => n = 2
      BY <1>0, <2>1 DEF StackOK
    <2>4. n = 2 \/ n - 1 >= 2
      BY <2>1
    <2> HIDE DEF n
    <2>. QED  BY <1>0, <2>1, <2>2, <2>3, <2>4 DEF FuncAt
  <1>6. /\ Top.fn \notin {"unit", "func", "repeat"} => Around = Here
        /\ Top.fn = "repeat" => Here = Place(Top.cond, Around.func)
        /\ Top.fn = "func" => Around.func = blocks[1].func
    <2>1. /\ Here = Place(LoopAt(calls, n), FuncAt(calls, blocks, n))
          /\ Around = Place(LoopAt(calls, n - 1), FuncAt(calls, blocks, n - 1))
          /\ Around.func = FuncAt(calls, blocks, n - 1)
      BY <1>1 DEF PlaceAt, Around, Place
    <2> HIDE DEF n
    <2>. QED  BY <1>5, <2>1
  <1>7. /\ Top.fn # "unit" =>
             /\ Locals(Top, bbs, owner, Here, Around)
             /\ Top.fn \in Opening =>
                  Pushed(Top, Back, blocks[Depth - 1], bbs, owner, Here, Around)
        /\ Top.fn = "unit" => Pushed(Top, Back, blocks[Depth - 1], bbs, owner, Here, Here)
    <2>1. "unit" \in Opening
      BY DEF Opening, StmtCalls
    <2> HIDE DEF n
    <2>. QED  BY <1>0, <1>1, <1>3, <1>4, <2>1 DEF Settled, Around, n
  <1>. QED  BY <1>1, <1>2, <1>6, <1>7

-----------------------------------------------------------------------------
(* What a step has to show. *)

\* The module grows; a loop is named by a block that is there before its blocks.
Grows ==
  /\ Extends(bbs, owner, bbs', owner')
  /\ \A b \in BBs' : bbs'[b].loop <= b

\* No branch of `out' ends in the block of a PHI node, and a new activation
\* expects none there yet.
PlainPhis(k, out) ==
  /\ phis' = phis
  /\ \A e \in out : bbs'[e[2]].kind # "logicAfter"
  /\ Len(calls') = k + 1 =>
       /\ calls'[k + 1].fn # "logicRhs"
       /\ calls'[k + 1].fn = "logicLhs" => /\ calls'[k + 1].after \notin 1..Len(bbs)
                                           /\ bbs'[calls'[k + 1].after].kind = "logicAfter"

\* The first k activations stay, and the branches `out' are added.
FlowStep(k, out) ==
  /\ status = "run" /\ status' = "run"
  /\ Moves(calls, blocks, calls', blocks', k)
  /\ Grows
  /\ edges' = edges \cup out
  /\ \A e \in out : GoodEdge(bbs', owner', e)
  /\ Len(calls') = k + 1 => /\ Settled(calls', blocks', bbs', owner', k + 1)
                            /\ Nests(calls[k], calls'[k + 1])
  /\ Located(bbs', owner', Body', BodyKinds, PlaceAt(calls', blocks', Len(calls')))
  /\ PlainPhis(k, out) \/ PhisOK(calls', bbs', edges', phis')
  /\ InsertPointFollowsBody'

\* What the edges and PHI nodes of an unfinished module are makes them right.
LEMMA GoodFlow ==
  Flowing => /\ BranchesStayInFunction /\ JumpsReachTheirLoop
             /\ EveryRoundIsCounted /\ PhisMatchPredecessors
PROOF
  <1> SUFFICES ASSUME Flowing
               PROVE  /\ BranchesStayInFunction /\ JumpsReachTheirLoop
                      /\ EveryRoundIsCounted /\ PhisMatchPredecessors
    OBVIOUS
  <1>1. \A e \in edges : GoodEdge(bbs, owner, e)
    BY DEF Flowing
  <1>2. BranchesStayInFunction
    BY <1>1 DEF GoodEdge, BranchesStayInFunction
  <1>3. EveryRoundIsCounted
    BY <1>1 DEF GoodEdge, EveryRoundIsCounted
  <1>4. PhisMatchPredecessors
    BY DEF Flowing, PhisOK, Preds, PhisMatchPredecessors
  <1>5. JumpsReachTheirLoop
    <2> SUFFICES ASSUME NEW e \in edges
                 PROVE  LET from == bbs[e[1]].loop
                            to   == bbs[e[2]].loop
                        IN  \/ from = to
                            \/ bbs[e[2]].kind = "repeatCond" /\ from = Parent(to)
                            \/ bbs[e[2]].kind = "repeatAfter" /\ to = Parent(from)
                            \/ bbs[e[2]].kind = "funcBlockEnd"
      BY DEF JumpsReachTheirLoop
    <2>1. \A loop : loop - 1 \in 1..Len(bbs) => loop # 0
      OBVIOUS
    <2>2. \A loop : loop - 1 \in 1..Len(bbs) => Parent(loop) = bbs[loop - 1].loop
      BY <2>1 DEF Parent
    <2>. QED  BY <1>1, <2>2, Zenon DEF GoodEdge
  <1>. QED  BY <1>2, <1>3, <1>4, <1>5

LEMMA FlowConclude ==
  ASSUME FlowInv, Inv', NEW k, NEW out, FlowStep(k, out)
  PROVE  FlowInv'
PROOF
  <1> DEFINE n == Len(calls)
             m == Len(calls')
  <1>0. /\ StackOK(calls, blocks) /\ n \in Nat \ {0} /\ Flowing
        /\ StackOK(calls', blocks') /\ Len(blocks') \in Nat /\ m \in Nat
        /\ NumBBs = Len(bbs) /\ BBs = 1..Len(bbs) /\ BBs' = 1..Len(bbs')
        /\ status = "run" /\ status' = "run"
    <2>1. status = "run" /\ status' = "run"
      BY DEF FlowStep
    <2>2. StackOK(calls', blocks') /\ Len(blocks') \in Nat /\ m \in Nat
      BY <2>1 DEF Inv, Running, TypeOK
    <2>. QED  BY <2>1, <2>2, Basics DEF BBs, NumBBs
  <1>1. /\ k \in 1..n /\ k \in Nat /\ n \in {k, k + 1} /\ m \in {k, k + 1}
        /\ \A i \in 1..k : calls'[i] = calls[i]
        /\ SameDeque(blocks, blocks', calls[k].depth)
        /\ Moves(calls, blocks, calls', blocks', k)
    BY <1>0 DEF FlowStep, Moves
  <1>2. Extends(bbs, owner, bbs', owner') /\ \A b \in BBs' : bbs'[b].loop <= b
    BY DEF FlowStep, Grows
  <1>3. EveryBlockHasItsCall(calls', blocks')
    BY <1>0, <1>1, CallsFrame DEF Flowing
  <1>4. \A i \in 1..(m - 1) : Nests(calls'[i], calls'[i + 1])
    <2> SUFFICES ASSUME NEW i \in 1..(m - 1) PROVE Nests(calls'[i], calls'[i + 1])
      OBVIOUS
    <2>1. CASE i = k
      <3>1. m = k + 1 /\ calls'[k] = calls[k]
        BY <1>0, <1>1, <2>1
      <3>. QED  BY <2>1, <3>1 DEF FlowStep
    <2>2. CASE i # k
      <3>1. i \in 1..k /\ i + 1 \in 1..k /\ i \in 1..(n - 1)
        BY <1>0, <1>1, <2>2
      <3>2. calls'[i] = calls[i] /\ calls'[i + 1] = calls[i + 1]
        BY <1>1, <3>1
      <3>. QED  BY <1>0, <3>1, <3>2 DEF Flowing
    <2>. QED  BY <2>1, <2>2
  <1>5. \A i \in 1..m : Settled(calls', blocks', bbs', owner', i)
    <2> SUFFICES ASSUME NEW i \in 1..m PROVE Settled(calls', blocks', bbs', owner', i)
      OBVIOUS
    <2>1. CASE i = k + 1
      <3>1. m = k + 1
        BY <1>0, <1>1, <2>1
      <3>. QED  BY <2>1, <3>1 DEF FlowStep
    <2>2. CASE i # k + 1
      <3>1. i \in 1..k /\ i \in 1..n
        BY <1>0, <1>1, <2>2
      <3>2. Settled(calls, blocks, bbs, owner, i)
        BY <1>0, <3>1 DEF Flowing
      <3>3. \A j \in 1..k : Settled(calls, blocks, bbs, owner, j)
                             => Settled(calls', blocks', bbs', owner', j)
        BY <1>0, <1>1, <1>2, SettledFrame
      <3>. QED  BY <3>1, <3>2, <3>3
    <2>. QED  BY <2>1, <2>2
  <1>6. \A e \in edges' : GoodEdge(bbs', owner', e)
    <2> SUFFICES ASSUME NEW e \in edges' PROVE GoodEdge(bbs', owner', e)
      OBVIOUS
    <2>1. CASE e \in edges
      BY <1>0, <1>2, <2>1, GoodEdgeFrame DEF Flowing
    <2>. QED  BY <2>1 DEF FlowStep
  <1>7. PhisOK(calls', bbs', edges', phis')
    <2> SUFFICES ASSUME PlainPhis(k, out)
                 PROVE  PhisOK(calls', bbs', edges', phis')
      BY DEF FlowStep
    <2>1. \A e \in edges : e[2] \in 1..Len(bbs)
      BY <1>0 DEF Flowing, GoodEdge
    <2>2. \A i \in 1..n : calls[i].fn \in {"logicLhs", "logicRhs"} =>
            calls[i].after \in 1..Len(bbs) /\ bbs[calls[i].after].kind = "logicAfter"
      BY <1>0 DEF Flowing, Settled, Locals, Located
    <2>3. PhisOK(calls, bbs, edges, phis)
      BY <1>0 DEF Flowing
    <2>4. PhisOK(calls', bbs', edges \cup out, phis)
      <3> HIDE DEF n, m
      <3>. QED  BY <1>1, <1>2, <2>1, <2>2, <2>3, PhisFrame DEF PlainPhis, n, m
    <2>. QED  BY <2>4 DEF PlainPhis, FlowStep
  <1>8. Flowing'
    BY <1>2, <1>3, <1>4, <1>5, <1>6, <1>7 DEF Flowing, FlowStep
  <1>. QED
    <2>1. (Flowing => /\ BranchesStayInFunction /\ JumpsReachTheirLoop
                      /\ EveryRoundIsCounted /\ PhisMatchPredecessors)'
      BY GoodFlow, PTL
    <2>. QED  BY <1>8, <2>1 DEF FlowInv

\* The current block is replaced by b.
FlowStays(b, out) ==
  /\ status = "run" /\ status' = "run"
  /\ Grows
  /\ calls' = calls
  /\ Len(blocks') = Depth /\ SameDeque(blocks, blocks', Depth)
  /\ blocks'[Depth].body = b
  /\ Located(bbs', owner', b, BodyKinds, Here)
  /\ edges' = edges \cup out
  /\ \A e \in out : GoodEdge(bbs', owner', e) /\ bbs'[e[2]].kind # "logicAfter"
  /\ phis' = phis
  /\ Top.fn = "inPlace" => ip' = b

LEMMA FlowStay ==
  ASSUME FlowInv, Inv', NEW b, NEW out, FlowStays(b, out)
  PROVE  FlowInv'
PROOF
  <1> DEFINE n == Len(calls)
  <1>0. /\ StackOK(calls, blocks) /\ n \in Nat \ {0} /\ n \in 1..n /\ n \in Nat
        /\ Top = calls[n] /\ calls[n].depth = Depth
        /\ PlaceAt(calls, blocks, n) = Here /\ status = "run"
    BY Basics, FlowFacts DEF FlowStays
  <1>1. Len(calls') = n /\ n # n + 1 /\ Body' = b /\ Top' = calls[n]
    BY <1>0, Facts DEF FlowStays, Body, Back, Top, Last, Depth
  <1>2. PlaceAt(calls', blocks', n) = Here
    <2>1. \A i \in 1..n : PlaceAt(calls', blocks', i) = PlaceAt(calls, blocks, i)
      BY <1>0, SamePlace DEF FlowStays
    <2>. QED  BY <1>0, <2>1
  <1> HIDE DEF n
  <1>3. FlowStep(n, out)
    BY <1>0, <1>1, <1>2 DEF FlowStays, FlowStep, Moves, PlainPhis, InsertPointFollowsBody, n
  <1>. QED  BY <1>3, FlowConclude

\* The current function calls c, which generates into `place'.
FlowEnters(c, place, b, out) ==
  /\ status = "run" /\ status' = "run"
  /\ Grows
  /\ c \in CallType /\ Push(c) /\ c.fn # "repeat" /\ c.fn # "logicRhs"
  /\ place = Place(LexicalLoop, IF c.fn = "func" THEN blocks'[2].func ELSE getEnclosingFunc)
  /\ Nests(Top, c)
  /\ SameDeque(blocks, blocks', Depth)
  /\ blocks'[Len(blocks')].body = b
  /\ Located(bbs', owner', b, BodyKinds, place)
  /\ Locals(c, bbs', owner', place, Here)
  /\ c.fn \in Opening => Pushed(c, blocks'[c.depth], blocks'[c.depth - 1],
                                bbs', owner', place, Here)
  /\ edges' = edges \cup out
  /\ \A e \in out : GoodEdge(bbs', owner', e) /\ bbs'[e[2]].kind # "logicAfter"
  /\ phis' = phis
  /\ c.fn = "logicLhs" => c.after \notin 1..Len(bbs)
  /\ c.fn = "inPlace" => ip' = b
  /\ c.fn = "return" => InFunc

LEMMA FlowEnter ==
  ASSUME FlowInv, Inv', NEW c, NEW place, NEW b, NEW out, FlowEnters(c, place, b, out)
  PROVE  FlowInv'
PROOF
  <1> DEFINE n == Len(calls)
             m == n + 1
  <1>0. /\ StackOK(calls, blocks) /\ n \in Nat \ {0} /\ n \in 1..n /\ n \in Nat
        /\ Top = calls[n] /\ calls[n].depth = Depth /\ calls \in Seq(CallType)
        /\ PlaceAt(calls, blocks, n) = Here /\ status = "run"
        /\ m # n /\ m \in Nat \ {0, 1} /\ m - 1 = n
    BY Basics, FlowFacts DEF FlowEnters
  <1>1. /\ calls' \in Seq(CallType) /\ Len(calls') = m /\ calls'[m] = c
        /\ \A i \in 1..n : calls'[i] = calls[i]
    BY <1>0, PushFacts DEF FlowEnters
  <1>2. /\ StackOK(calls', blocks') /\ Body' = b /\ Top' = c
    BY <1>0, <1>1 DEF FlowEnters, Inv, Running, Body, Back, Top, Last
  <1>3. PlaceAt(calls', blocks', n) = Here
    <2>1. \A i \in 1..n : PlaceAt(calls', blocks', i) = PlaceAt(calls, blocks, i)
      <3>1. SameDeque(blocks, blocks', calls[n].depth)
        BY <1>0 DEF FlowEnters
      <3> HIDE DEF m
      <3>. QED  BY <1>0, <1>1, <3>1, SamePlace
    <2>. QED  BY <1>0, <2>1
  <1>4. PlaceAt(calls', blocks', m) = place
    <2>1. LoopAt(calls', n) = LexicalLoop /\ FuncAt(calls', blocks', n) = getEnclosingFunc
      BY <1>3 DEF PlaceAt, Place, Here
    <2>2. PlaceAt(calls', blocks', n + 1) =
            Place(IF calls'[n + 1].fn = "repeat" THEN calls'[n + 1].cond ELSE LoopAt(calls', n),
                  IF calls'[n + 1].fn = "func" THEN blocks'[2].func
                                               ELSE FuncAt(calls', blocks', n))
      BY <1>0, <1>1, <1>2, NextPlace
    <2>. QED  BY <1>1, <2>1, <2>2 DEF FlowEnters
  <1> HIDE DEF n, m
  <1>5. Settled(calls', blocks', bbs', owner', m)
    <2>1. c.fn = "return" => m >= 2 /\ calls'[2].fn = "func"
      <3>1. InFunc => m >= 2 /\ 2 \in 1..n /\ calls[2].fn = "func"
        <4>1. InFunc => n >= 2 /\ calls[2].fn = "func"
          BY DEF InFunc, n
        <4>. QED  BY <1>0, <4>1
      <3>. QED  BY <1>1, <3>1 DEF FlowEnters
    <2>. QED  BY <1>0, <1>1, <1>3, <1>4, <2>1 DEF FlowEnters, Settled
  <1>6. PlainPhis(n, out)
    <2>1. c.fn = "logicLhs" => bbs'[c.after].kind = "logicAfter"
      BY DEF FlowEnters, Locals, Located
    <2>. QED  BY <1>1, <2>1 DEF FlowEnters, PlainPhis, m
  <1>7. FlowStep(n, out)
    BY <1>0, <1>1, <1>2, <1>4, <1>5, <1>6
       DEF FlowEnters, FlowStep, Moves, InsertPointFollowsBody, n, m
  <1>. QED  BY <1>7, FlowConclude

\* The function on top returns; d Blocks are left.
FlowLeaves(d, b, out) ==
  /\ status = "run" /\ status' = "run"
  /\ Grows
  /\ Top.fn # "unit" /\ Pop
  /\ d = IF Top.fn \in Opening THEN Depth - 1 ELSE Depth
  /\ Len(blocks') = d /\ SameDeque(blocks, blocks', d)
  /\ blocks'[d].body = b
  /\ Located(bbs', owner', b, BodyKinds, Around)
  /\ edges' = edges \cup out
  /\ \A e \in out : GoodEdge(bbs', owner', e)
  /\ \/ phis' = phis /\ \A e \in out : bbs'[e[2]].kind # "logicAfter"
     \/ PhisOK(calls', bbs', edges', phis')
  /\ Top.fn \in SubExprCalls => ip' = b

\* The stack below the top.
LEMMA BelowTop ==
  ASSUME FlowInv, status = "run", Top.fn # "unit", NEW m, m = Len(calls) - 1
  PROVE  /\ m \in Nat \ {0} /\ Len(calls) = m + 1 /\ m \in 1..Len(calls) /\ m # m + 1
         /\ calls[m].depth = IF Top.fn \in Opening THEN Depth - 1 ELSE Depth
         /\ Nests(calls[m], Top) /\ Around = PlaceAt(calls, blocks, m)
         /\ calls[m + 1] = Top
PROOF
  <1>1. Inv /\ Flowing /\ Len(calls) \in Nat \ {0} /\ Top = calls[Len(calls)]
    BY Basics
  <1>2. /\ Len(calls) >= 2
        /\ calls[m].depth = IF Top.fn \in Opening THEN Depth - 1 ELSE Depth
    BY <1>1, Caller
  <1>3. m \in Nat \ {0} /\ Len(calls) = m + 1 /\ m \in 1..Len(calls)
    BY <1>1, <1>2
  <1>4. Nests(calls[m], calls[m + 1])
    BY <1>1, <1>3 DEF Flowing
  <1>5. Around = PlaceAt(calls, blocks, m) /\ calls[m + 1] = Top
    BY <1>1, <1>3 DEF Around
  <1>6. m # m + 1
    BY <1>3
  <1>. QED  BY <1>2, <1>3, <1>4, <1>5, <1>6

LEMMA FlowLeave ==
  ASSUME FlowInv, Inv', NEW d, NEW b, NEW out, FlowLeaves(d, b, out)
  PROVE  FlowInv'
PROOF
  <1> DEFINE m == Len(calls) - 1
  <1>0. /\ StackOK(calls, blocks) /\ m \in Nat \ {0} /\ m \in 1..Len(calls)
        /\ Len(calls) = m + 1 /\ m # m + 1 /\ m \in 1..m
        /\ calls[m].depth = d /\ calls \in Seq(CallType) /\ status = "run"
        /\ Nests(calls[m], Top) /\ Around = PlaceAt(calls, blocks, m)
    <2>1. status = "run" /\ Top.fn # "unit"
      BY DEF FlowLeaves
    <2> HIDE DEF m
    <2>2. m \in Nat \ {0} => m \in 1..m
      OBVIOUS
    <2>. QED  BY <2>1, <2>2, BelowTop, Basics DEF FlowLeaves, m
  <1>1. /\ calls' \in Seq(CallType) /\ Len(calls') = m
        /\ \A i \in 1..m : calls'[i] = calls[i]
    <2>1. Pop /\ m = Len(calls) - 1
      BY DEF FlowLeaves
    <2>2. Len(calls) >= 1
      <3>1. Len(calls) \in Nat \ {0}
        BY <1>0, Basics
      <3>. QED  BY <3>1
    <2> HIDE DEF m
    <2>. QED  BY <1>0, <2>1, <2>2, PopFacts
  <1> HIDE DEF m
  <1>2. Body' = b /\ Top' = calls[m]
    BY <1>0, <1>1 DEF FlowLeaves, Body, Back, Top, Last
  <1>3. PlaceAt(calls', blocks', m) = Around
    <2>1. \A i \in 1..m : PlaceAt(calls', blocks', i) = PlaceAt(calls, blocks, i)
      <3>1. SameDeque(blocks, blocks', calls[m].depth)
        BY <1>0 DEF FlowLeaves
      <3>2. m \in Nat /\ Len(calls) \in Nat
        BY <1>0
      <3>. QED  BY <1>0, <1>1, <3>1, <3>2, SamePlace
    <2>. QED  BY <1>0, <2>1
  <1>4. InsertPointFollowsBody'
    <2>1. calls[m].fn = "inPlace" => Top.fn \in SubExprCalls
      BY <1>0 DEF Nests, ExprCalls
    <2>. QED  BY <1>2, <2>1 DEF FlowLeaves, InsertPointFollowsBody
  <1>5. PlainPhis(m, out) \/ PhisOK(calls', bbs', edges', phis')
    BY <1>0, <1>1 DEF FlowLeaves, PlainPhis
  <1>6. FlowStep(m, out)
    BY <1>0, <1>1, <1>2, <1>3, <1>4, <1>5 DEF FlowLeaves, FlowStep, Moves
  <1>. QED  BY <1>6, FlowConclude

\* The function on top goes on as c, which generates into `place'.
FlowBecomes(c, place, d, b, out) ==
  /\ status = "run" /\ status' = "run"
  /\ Grows
  /\ Top.fn # "unit" /\ c \in CallType /\ Become(c) /\ c.fn # "func"
  /\ Top.fn \in SubExprCalls <=> c.fn \in SubExprCalls
  /\ place = Place(IF c.fn = "repeat" THEN c.cond ELSE Around.loop, Around.func)
  /\ d = IF Top.fn \in Opening THEN Depth - 1 ELSE Depth
  /\ SameDeque(blocks, blocks', d)
  /\ blocks'[Len(blocks')].body = b
  /\ Located(bbs', owner', b, BodyKinds, place)
  /\ Locals(c, bbs', owner', place, Around)
  /\ c.fn \in Opening => Pushed(c, blocks'[c.depth], blocks'[c.depth - 1],
                                bbs', owner', place, Around)
  /\ edges' = edges \cup out
  /\ \A e \in out : GoodEdge(bbs', owner', e)
  /\ \/ /\ phis' = phis /\ \A e \in out : bbs'[e[2]].kind # "logicAfter"
        /\ c.fn \notin {"logicLhs", "logicRhs"}
     \/ PhisOK(calls', bbs', edges', phis')
  /\ c.fn \notin {"inPlace", "return"}

LEMMA FlowBecome ==
  ASSUME FlowInv, Inv', NEW c, NEW place, NEW d, NEW b, NEW out,
         FlowBecomes(c, place, d, b, out)
  PROVE  FlowInv'
PROOF
  <1> DEFINE m == Len(calls) - 1
  <1>0. /\ StackOK(calls, blocks) /\ m \in Nat \ {0} /\ m \in 1..Len(calls)
        /\ Len(calls) = m + 1 /\ m # m + 1 /\ m \in 1..m
        /\ calls[m].depth = d /\ calls \in Seq(CallType) /\ status = "run"
        /\ Nests(calls[m], Top) /\ Around = PlaceAt(calls, blocks, m)
        /\ m + 1 # 1 /\ (m + 1) - 1 = m
    <2>1. status = "run" /\ Top.fn # "unit"
      BY DEF FlowBecomes
    <2> HIDE DEF m
    <2>2. m \in Nat \ {0} => m \in 1..m /\ m + 1 # 1 /\ (m + 1) - 1 = m
      OBVIOUS
    <2>. QED  BY <2>1, <2>2, BelowTop, Basics DEF FlowBecomes, m
  <1>1. /\ calls' \in Seq(CallType) /\ Len(calls') = m + 1 /\ calls'[m + 1] = c
        /\ \A i \in 1..m : calls'[i] = calls[i]
    <2>1. c \in CallType /\ Become(c)
      BY DEF FlowBecomes
    <2>2. Len(calls) >= 1 /\ m = Len(calls) - 1
      <3>1. Len(calls) \in Nat \ {0}
        BY <1>0, Basics
      <3>. QED  BY <3>1
    <2> HIDE DEF m
    <2>. QED  BY <1>0, <2>1, <2>2, BecomeFacts
  <1> HIDE DEF m
  <1>2. /\ StackOK(calls', blocks') /\ Body' = b /\ Top' = c
    BY <1>0, <1>1 DEF FlowBecomes, Inv, Running, Body, Back, Top, Last
  <1>3. PlaceAt(calls', blocks', m) = Around
    <2>1. \A i \in 1..m : PlaceAt(calls', blocks', i) = PlaceAt(calls, blocks, i)
      <3>1. SameDeque(blocks, blocks', calls[m].depth)
        BY <1>0 DEF FlowBecomes
      <3>2. m \in Nat /\ Len(calls) \in Nat
        BY <1>0
      <3>. QED  BY <1>0, <1>1, <3>1, <3>2, SamePlace
    <2>. QED  BY <1>0, <2>1
  <1>4. PlaceAt(calls', blocks', m + 1) = place
    <2>1. /\ LoopAt(calls', m) = Around.loop /\ FuncAt(calls', blocks', m) = Around.func
      BY <1>3 DEF PlaceAt, Place
    <2>2. PlaceAt(calls', blocks', m + 1) =
            Place(IF calls'[m + 1].fn = "repeat" THEN calls'[m + 1].cond ELSE LoopAt(calls', m),
                  IF calls'[m + 1].fn = "func" THEN blocks'[2].func
                                               ELSE FuncAt(calls', blocks', m))
      BY <1>0, <1>1, <1>2, NextPlace
    <2>. QED  BY <1>1, <2>1, <2>2 DEF FlowBecomes
  <1>5. Settled(calls', blocks', bbs', owner', m + 1)
    BY <1>0, <1>1, <1>3, <1>4 DEF FlowBecomes, Settled
  <1>6. Nests(calls[m], c)
    BY <1>0 DEF FlowBecomes, Nests
  <1>7. PlainPhis(m, out) \/ PhisOK(calls', bbs', edges', phis')
    BY <1>1 DEF FlowBecomes, PlainPhis
  <1>8. FlowStep(m, out)
    BY <1>0, <1>1, <1>2, <1>4, <1>5, <1>6, <1>7
       DEF FlowBecomes, FlowStep, Moves, InsertPointFollowsBody
  <1>. QED  BY <1>8, FlowConclude

-----------------------------------------------------------------------------
(* What the helpers of the actions do to places. *)

\* blocks.back().body = b, pop_back and push_back leave the Blocks below.
LEMMA WithBodySame ==
  ASSUME FlowInv, status = "run", NEW b \in Nat
  PROVE  /\ Len(WithBody(b)) = Depth /\ WithBody(b)[Depth].body = b
         /\ SameDeque(blocks, WithBody(b), Depth)
PROOF
  <1> DEFINE x == [blocks[Depth] EXCEPT !.body = b]
  <1>0. blocks \in Seq(BlockType) /\ Depth = Len(blocks) /\ Depth \in Nat \ {0}
    BY Basics
  <1>1. Depth \in 1..Len(blocks) /\ blocks[Depth] \in BlockType
    BY <1>0
  <1>2. /\ x \in BlockType /\ x.body = b /\ x.end = blocks[Depth].end
        /\ x.type = blocks[Depth].type /\ x.func = blocks[Depth].func
        /\ x.continue_ = blocks[Depth].continue_ /\ x.break_ = blocks[Depth].break_
    BY <1>1 DEF BlockType, FuncBlockType, InnerBlockType
  <1>3. WithBody(b) = [blocks EXCEPT ![Depth] = x]
    BY DEF WithBody
  <1> HIDE DEF x
  <1>4. /\ Len(WithBody(b)) = Len(blocks) /\ WithBody(b)[Depth] = x
        /\ \A i \in 1..Len(blocks) : i # Depth => WithBody(b)[i] = blocks[i]
    BY <1>0, <1>1, <1>2, <1>3, ExceptFacts
  <1>. QED  BY <1>0, <1>2, <1>4 DEF SameDeque

LEMMA PopToSame ==
  ASSUME FlowInv, status = "run", Depth >= 2, NEW b \in Nat
  PROVE  /\ Len(PopTo(b)) = Depth - 1 /\ PopTo(b)[Depth - 1].body = b
         /\ SameDeque(blocks, PopTo(b), Depth - 1)
PROOF
  <1> DEFINE bl == Front(blocks)
             d == Depth - 1
             x == [bl[d] EXCEPT !.body = b]
  <1>0. blocks \in Seq(BlockType) /\ Depth = Len(blocks) /\ Depth \in Nat \ {0}
    BY Basics
  <1>1. /\ bl \in Seq(BlockType) /\ Len(bl) = d
        /\ \A i \in 1..d : bl[i] = blocks[i]
        /\ d \in 1..Len(bl) /\ d <= Len(blocks) /\ d \in Nat
    BY <1>0, FrontFacts
  <1>2. bl[d] \in BlockType
    BY <1>1
  <1>3. /\ x \in BlockType /\ x.body = b /\ x.end = bl[d].end /\ x.type = bl[d].type
        /\ x.func = bl[d].func /\ x.continue_ = bl[d].continue_ /\ x.break_ = bl[d].break_
    BY <1>2 DEF BlockType, FuncBlockType, InnerBlockType
  <1>4. PopTo(b) = [bl EXCEPT ![d] = x]
    BY DEF PopTo
  <1> HIDE DEF bl, d, x
  <1>5. /\ Len(PopTo(b)) = d /\ PopTo(b)[d] = x
        /\ \A i \in 1..d : i # d => PopTo(b)[i] = bl[i]
    BY <1>1, <1>3, <1>4, ExceptFacts
  <1>6. SameDeque(blocks, PopTo(b), d)
    BY <1>1, <1>3, <1>5 DEF SameDeque
  <1>. QED  BY <1>3, <1>5, <1>6 DEF d

LEMMA FrontSame ==
  ASSUME FlowInv, status = "run", Depth >= 2
  PROVE  /\ Len(Front(blocks)) = Depth - 1
         /\ Front(blocks)[Depth - 1] = blocks[Depth - 1]
         /\ SameDeque(blocks, Front(blocks), Depth - 1)
PROOF
  <1>0. blocks \in Seq(BlockType) /\ Depth = Len(blocks) /\ Depth \in Nat \ {0}
    BY Basics
  <1>1. /\ Len(Front(blocks)) = Depth - 1
        /\ \A i \in 1..(Depth - 1) : Front(blocks)[i] = blocks[i]
    BY <1>0, FrontFacts
  <1>. QED  BY <1>0, <1>1 DEF SameDeque

LEMMA AppendSame ==
  ASSUME FlowInv, status = "run", NEW x \in BlockType
  PROVE  /\ Len(Append(blocks, x)) = Depth + 1
         /\ Append(blocks, x)[Depth + 1] = x /\ Append(blocks, x)[Depth] = blocks[Depth]
         /\ SameDeque(blocks, Append(blocks, x), Depth)
PROOF
  <1>0. blocks \in Seq(BlockType) /\ Depth = Len(blocks) /\ Depth \in Nat \ {0}
    BY Basics
  <1>1. /\ Len(Append(blocks, x)) = Len(blocks) + 1
        /\ \A i \in 1..Len(blocks) : Append(blocks, x)[i] = blocks[i]
        /\ Append(blocks, x)[Len(blocks) + 1] = x
    BY <1>0, AppendFacts
  <1>. QED  BY <1>0, <1>1 DEF SameDeque

\* The deque as it is.
LEMMA SameSame ==
  ASSUME FlowInv, status = "run"
  PROVE  SameDeque(blocks, blocks, Depth)
PROOF BY Basics DEF SameDeque

\* The repeat statement a block is in was begun before it.
LEMMA LoopBound ==
  ASSUME FlowInv, status = "run"
  PROVE  LexicalLoop \in Nat /\ LexicalLoop <= NumBBs
PROOF
  <1>1. Located(bbs, owner, Body, BodyKinds, Here) /\ Here.loop = LexicalLoop
    BY FlowFacts DEF Here, Place
  <1>2. Body \in 1..Len(bbs) /\ bbs[Body].loop = LexicalLoop
    BY <1>1 DEF Located
  <1>3. bbs[Body].loop <= Body /\ NumBBs = Len(bbs) /\ NumBBs \in Nat
    BY <1>2, Basics DEF Flowing
  <1>. QED  BY <1>2, <1>3, Basics, Facts

\* New blocks name repeat statements that were begun before them.
InLoops(new) ==
  new \in Seq(BBType) /\ \A j \in 1..Len(new) : new[j].loop <= NumBBs + j

\* The j-th of the new blocks of function f.
IsNew(new, f, j) ==
  /\ NumBBs + j \in 1..Len(bbs') /\ NumBBs + j \notin 1..Len(bbs)
  /\ bbs'[NumBBs + j] = new[j] /\ owner'[NumBBs + j] = f

AreNew(new, f) == \A j \in 1..Len(new) : IsNew(new, f, j)

LEMMA CreateGrows ==
  \A new, f :
    FlowInv /\ status = "run" /\ InLoops(new) /\ Create(new, f)
      => Grows /\ AreNew(new, f)
PROOF
  <1> SUFFICES ASSUME NEW new, NEW f,
                      FlowInv, status = "run", InLoops(new), Create(new, f)
               PROVE  Grows /\ AreNew(new, f)
    OBVIOUS
  <1>0. new \in Seq(BBType) /\ \A j \in 1..Len(new) : new[j].loop <= NumBBs + j
    BY DEF InLoops
  <1> DEFINE n == NumBBs
             m == Len(new)
  <1>1. /\ n = Len(bbs) /\ n \in Nat /\ m \in Nat /\ BBs = 1..n /\ bbs \in Seq(BBType)
        /\ \A b \in 1..n : bbs[b].loop <= b
    <2>1. \A b \in BBs : bbs[b].loop <= b
      BY Basics DEF Flowing
    <2>2. n = Len(bbs) /\ n \in Nat /\ BBs = 1..n
      BY Basics
    <2>3. bbs \in Seq(BBType)
      BY Basics DEF Inv, TypeOK, BBType
    <2>4. m \in Nat
      BY <1>0
    <2>. QED  BY <2>1, <2>2, <2>3, <2>4
  <1>2. bbs' = bbs \o new /\ owner' = [b \in 1..(n + m) |-> IF b \in BBs THEN owner[b] ELSE f]
    BY DEF Create
  <1> HIDE DEF n, m
  <1>3. /\ Len(bbs') = n + m
        /\ \A b \in 1..n : bbs'[b] = bbs[b]
        /\ \A j \in 1..m : bbs'[n + j] = new[j]
    BY <1>0, <1>1, <1>2 DEF m
  <1>4. \A b \in 1..n : owner'[b] = owner[b]
    BY <1>1, <1>2
  <1>5. \A j \in 1..m : n + j \in 1..(n + m) /\ n + j \notin 1..n /\ owner'[n + j] = f
    BY <1>1, <1>2
  <1>6. \A b \in 1..(n + m) : b \in 1..n \/ \E j \in 1..m : b = n + j
    <2> SUFFICES ASSUME NEW b \in 1..(n + m), b \notin 1..n
                 PROVE  \E j \in 1..m : b = n + j
      OBVIOUS
    <2>1. b - n \in 1..m /\ b = n + (b - n)
      BY <1>1
    <2>. QED  BY <2>1
  <1>7. \A b \in 1..Len(bbs') : bbs'[b].loop <= b
    <2>1. \A j \in 1..m : new[j].loop <= n + j
      BY <1>0 DEF n, m
    <2> SUFFICES ASSUME NEW b \in 1..(n + m) PROVE bbs'[b].loop <= b
      BY <1>3
    <2>2. CASE b \in 1..n
      BY <1>1, <1>3, <2>2
    <2>3. CASE \E j \in 1..m : b = n + j
      BY <1>3, <2>1, <2>3
    <2>. QED  BY <1>6, <2>2, <2>3
  <1>8. BBs' = 1..Len(bbs')
    BY DEF BBs, NumBBs
  <1>9. AreNew(new, f)
    BY <1>1, <1>3, <1>5 DEF AreNew, IsNew, n, m
  <1>10. Grows
    BY <1>1, <1>3, <1>4, <1>7, <1>8 DEF Grows, Extends
  <1>. QED  BY <1>9, <1>10

\* A new block of this kind in this function, in the loop around the statement.
Fresh(b, kind, f) ==
  b \notin 1..Len(bbs) /\ Located(bbs', owner', b, {kind}, Place(LexicalLoop, f))

LEMMA CreateFlow1 ==
  ASSUME FlowInv, status = "run", NEW k1 \in Kinds, NEW f, Create(<<BB(k1)>>, f)
  PROVE  Grows /\ Fresh(NumBBs + 1, k1, f)
PROOF
  <1> DEFINE new == <<BB(k1)>>
  <1>1. LexicalLoop \in Nat /\ LexicalLoop <= NumBBs /\ NumBBs \in Nat
    BY LoopBound, Basics
  <1>2. /\ new \in Seq(BBType) /\ Len(new) = 1 /\ new[1] = BB(k1)
    BY <1>1 DEF BB, LoopBB, BBType
  <1>3. BB(k1).kind = k1 /\ BB(k1).loop = LexicalLoop
    BY DEF BB, LoopBB
  <1>4. InLoops(new)
    <2>1. \A j \in 1..Len(new) : new[j].loop <= NumBBs + j
      BY <1>1, <1>2, <1>3
    <2>. QED  BY <1>2, <2>1 DEF InLoops
  <1>5. Create(new, f)
    OBVIOUS
  <1> HIDE DEF new
  <1>6. Grows /\ AreNew(new, f)
    BY <1>4, <1>5, CreateGrows
  <1>7. Fresh(NumBBs + 1, k1, f)
    <2>1. 1 \in 1..Len(new)
      BY <1>2
    <2>2. IsNew(new, f, 1)
      BY <1>6, <2>1 DEF AreNew
    <2>. QED  BY <1>2, <1>3, <2>2 DEF IsNew, Fresh, Located, Place
  <1>. QED  BY <1>6, <1>7

LEMMA CreateFlow2 ==
  ASSUME FlowInv, status = "run", NEW k1 \in Kinds, NEW k2 \in Kinds, NEW f,
         Create(<<BB(k1), BB(k2)>>, f)
  PROVE  Grows /\ Fresh(NumBBs + 1, k1, f) /\ Fresh(NumBBs + 2, k2, f)
PROOF
  <1> DEFINE new == <<BB(k1), BB(k2)>>
  <1>1. LexicalLoop \in Nat /\ LexicalLoop <= NumBBs /\ NumBBs \in Nat
    BY LoopBound, Basics
  <1>2. /\ new \in Seq(BBType) /\ Len(new) = 2 /\ new[1] = BB(k1) /\ new[2] = BB(k2)
    BY <1>1 DEF BB, LoopBB, BBType
  <1>3. /\ BB(k1).kind = k1 /\ BB(k1).loop = LexicalLoop
        /\ BB(k2).kind = k2 /\ BB(k2).loop = LexicalLoop
    BY DEF BB, LoopBB
  <1>4. InLoops(new)
    <2>1. \A j \in 1..Len(new) : new[j].loop <= NumBBs + j
      BY <1>1, <1>2, <1>3
    <2>. QED  BY <1>2, <2>1 DEF InLoops
  <1>5. Create(new, f)
    OBVIOUS
  <1> HIDE DEF new
  <1>6. Grows /\ AreNew(new, f)
    BY <1>4, <1>5, CreateGrows
  <1>7. Fresh(NumBBs + 1, k1, f)
    <2>1. 1 \in 1..Len(new)
      BY <1>2
    <2>2. IsNew(new, f, 1)
      BY <1>6, <2>1 DEF AreNew
    <2>. QED  BY <1>2, <1>3, <2>2 DEF IsNew, Fresh, Located, Place
  <1>8. Fresh(NumBBs + 2, k2, f)
    <2>1. 2 \in 1..Len(new)
      BY <1>2
    <2>2. IsNew(new, f, 2)
      BY <1>6, <2>1 DEF AreNew
    <2>. QED  BY <1>2, <1>3, <2>2 DEF IsNew, Fresh, Located, Place
  <1>. QED  BY <1>6, <1>7, <1>8

LEMMA CreateFlow3 ==
  ASSUME FlowInv, status = "run", NEW k1 \in Kinds, NEW k2 \in Kinds, NEW k3 \in Kinds,
         NEW f, Create(<<BB(k1), BB(k2), BB(k3)>>, f)
  PROVE  /\ Grows /\ Fresh(NumBBs + 1, k1, f) /\ Fresh(NumBBs + 2, k2, f)
         /\ Fresh(NumBBs + 3, k3, f)
PROOF
  <1> DEFINE new == <<BB(k1), BB(k2), BB(k3)>>
  <1>1. LexicalLoop \in Nat /\ LexicalLoop <= NumBBs /\ NumBBs \in Nat
    BY LoopBound, Basics
  <1>2. /\ new \in Seq(BBType) /\ Len(new) = 3
        /\ new[1] = BB(k1) /\ new[2] = BB(k2) /\ new[3] = BB(k3)
    BY <1>1 DEF BB, LoopBB, BBType
  <1>3. \A k : BB(k).kind = k /\ BB(k).loop = LexicalLoop
    BY DEF BB, LoopBB
  <1>4. InLoops(new)
    <2>1. \A j \in 1..Len(new) : new[j].loop <= NumBBs + j
      BY <1>1, <1>2, <1>3
    <2>. QED  BY <1>2, <2>1 DEF InLoops
  <1>5. Create(new, f)
    OBVIOUS
  <1> HIDE DEF new
  <1>6. Grows /\ AreNew(new, f)
    BY <1>4, <1>5, CreateGrows
  <1>7. Fresh(NumBBs + 1, k1, f)
    <2>1. 1 \in 1..Len(new)
      BY <1>2
    <2>2. IsNew(new, f, 1)
      BY <1>6, <2>1 DEF AreNew
    <2>. QED  BY <1>2, <1>3, <2>2 DEF IsNew, Fresh, Located, Place
  <1>8. Fresh(NumBBs + 2, k2, f)
    <2>1. 2 \in 1..Len(new)
      BY <1>2
    <2>2. IsNew(new, f, 2)
      BY <1>6, <2>1 DEF AreNew
    <2>. QED  BY <1>2, <1>3, <2>2 DEF IsNew, Fresh, Located, Place
  <1>9. Fresh(NumBBs + 3, k3, f)
    <2>1. 3 \in 1..Len(new)
      BY <1>2
    <2>2. IsNew(new, f, 3)
      BY <1>6, <2>1 DEF AreNew
    <2>. QED  BY <1>2, <1>3, <2>2 DEF IsNew, Fresh, Located, Place
  <1>. QED  BY <1>6, <1>7, <1>8, <1>9

LEMMA NoCreateGrows ==
  ASSUME FlowInv, status = "run", bbs' = bbs, owner' = owner
  PROVE  Grows
PROOF
  <1>1. \A b \in BBs : bbs[b].loop <= b
    BY Basics DEF Flowing
  <1>. QED  BY <1>1, Basics DEF Grows, Extends, BBs, NumBBs

\* What is in a place stays there, and its kinds may be weakened.
LEMMA Kept ==
  ASSUME Grows
  PROVE  \A b, K, L, place :
           Located(bbs, owner, b, K, place) /\ K \subseteq L
             => Located(bbs', owner', b, L, place)
PROOF
  <1>1. Extends(bbs, owner, bbs', owner')
    BY DEF Grows
  <1>. QED  BY <1>1 DEF Extends, Located

\* Branches within a place of the module that has grown.
LEMMA Branch ==
  ASSUME NEW a, NEW b, NEW K, NEW kind, NEW place,
         Located(bbs', owner', a, K, place), Located(bbs', owner', b, {kind}, place),
         "globalBlockEnd" \notin K,
         kind \notin {"globalBlockEnd", "repeatCond", "logicAfter"}
  PROVE  GoodEdge(bbs', owner', <<a, b>>) /\ bbs'[b].kind # "logicAfter"
PROOF
  <1>1. GoodEdge(bbs', owner', <<a, b>>)
    BY PlainEdge
  <1>. QED  BY <1>1 DEF Located

-----------------------------------------------------------------------------
(* Facts the actions share. *)

LEMMA Records ==
  /\ \A loop, func : Place(loop, func).loop = loop /\ Place(loop, func).func = func
  /\ Place(Here.loop, Here.func) = Here
  /\ Place(Around.loop, Around.func) = Around
  /\ Here.loop = LexicalLoop /\ Here.func = getEnclosingFunc
PROOF BY DEF Place, Here, Around, PlaceAt

LEMMA FreshHere ==
  ASSUME NEW b, NEW kind, Fresh(b, kind, getEnclosingFunc)
  PROVE  /\ b \notin 1..Len(bbs) /\ Located(bbs', owner', b, {kind}, Here)
         /\ kind \in BodyKinds => Located(bbs', owner', b, BodyKinds, Here)
PROOF BY DEF Fresh, Here, Located

\* A branch from the current block.
LEMMA FromBody ==
  ASSUME FlowInv, status = "run", Grows,
         NEW b, NEW kind, Located(bbs', owner', b, {kind}, Here),
         kind \notin {"globalBlockEnd", "repeatCond", "logicAfter"}
  PROVE  GoodEdge(bbs', owner', <<Body, b>>) /\ bbs'[b].kind # "logicAfter"
PROOF
  <1>1. Located(bbs, owner, Body, BodyKinds, Here)
    BY FlowFacts
  <1>2. Located(bbs', owner', Body, BodyKinds, Here)
    BY <1>1, Kept
  <1>3. "globalBlockEnd" \notin BodyKinds
    BY DEF BodyKinds
  <1>. QED  BY <1>2, <1>3, Branch

LEMMA Calling ==
  ASSUME FlowInv, status = "run"
  PROVE  /\ Depth \in Nat /\ Depth = Len(blocks) /\ NumBBs \in Nat /\ Body \in Nat
         /\ Depth >= 1 /\ Depth + 1 \in Nat
         /\ Top.fn \in Opening /\ Top.fn # "unit" => Depth >= 2
         /\ Top.after \in Nat /\ Top.head \in Nat /\ Top.cond \in Nat
         /\ Top.prevBody \in Nat /\ Back.end \in Nat
PROOF
  <1>1. Inv
    BY DEF FlowInv
  <1>. QED  BY <1>1, Numbers, Basics, Caller

\* Branches are added by Terminate only.
LEMMA Added ==
  /\ \A from, out : Terminate(from, out) => edges' = edges \cup out
  /\ NoBranch => edges' = edges \cup {}
  /\ edges' = edges => edges' = edges \cup {}
PROOF BY DEF Terminate, NoBranch

\* What a statement and an expression have around them.
LEMMA AtGuards ==
  /\ AtStmt => status = "run" /\ Top.fn \in StmtCalls /\ Top.fn \notin ExprCalls
  /\ AtExpr => status = "run" /\ Top.fn \in ExprCalls
  /\ \A fns : Returned(fns) => status = "run" /\ Top.fn \in fns
PROOF BY DEF AtStmt, AtExpr, Returned, StmtCalls, ExprCalls

-----------------------------------------------------------------------------
(* Every action keeps the branches right: what calls a function. *)

LEMMA CompStmtFlow ==
  ASSUME FlowInv, Inv', CompStmt
  PROVE  FlowInv'
PROOF
  <1> DEFINE head == NumBBs + 1
             end == NumBBs + 2
             c == Call("comp", Depth + 1, 0, 0, 0, 0)
             x == CompBlock(head, end)
             out == {<<Body, head>>}
  <1>1. /\ status = "run" /\ status' = "run" /\ phis' = phis
        /\ Top.fn \in StmtCalls /\ Top.fn \notin ExprCalls
        /\ Push(c) /\ edges' = edges \cup out
        /\ Create(<<BB("compBlockEntry"), BB("compBlockEnd")>>, getEnclosingFunc)
        /\ blocks' = Append(blocks, x)
    BY AtGuards, Added DEF CompStmt
  <1>2. /\ Grows /\ Fresh(head, "compBlockEntry", getEnclosingFunc)
        /\ Fresh(end, "compBlockEnd", getEnclosingFunc)
    BY <1>1, CreateFlow2 DEF Kinds
  <1>3. /\ Located(bbs', owner', head, {"compBlockEntry"}, Here)
        /\ Located(bbs', owner', head, BodyKinds, Here)
        /\ Located(bbs', owner', end, {"compBlockEnd"}, Here)
    <2>1. "compBlockEntry" \in BodyKinds
      BY DEF BodyKinds, Kinds
    <2>. QED  BY <1>2, <2>1, FreshHere
  <1>4. head \in Nat /\ end \in Nat /\ Depth \in Nat /\ Depth + 1 \in Nat
    BY <1>1, Calling
  <1>5. x \in BlockType /\ x.body = head /\ x.end = end /\ x.type = "COMP_BLOCK"
    BY <1>4, CompBlockFacts DEF CompBlock, Block
  <1>6. /\ Len(blocks') = Depth + 1 /\ blocks'[Depth + 1] = x
        /\ SameDeque(blocks, blocks', Depth)
    BY <1>1, <1>5, AppendSame
  <1>7. c \in CallType /\ c.fn = "comp" /\ c.depth = Depth + 1
    BY <1>4 DEF Call, CallType, CallKinds, StmtCalls
  <1>8. Nests(Top, c)
    BY <1>1, <1>7 DEF Nests, SubExprCalls
  <1> HIDE DEF head, end, c, x
  <1>9. /\ Locals(c, bbs', owner', Here, Here)
        /\ Pushed(c, blocks'[c.depth], blocks'[c.depth - 1], bbs', owner', Here, Here)
    BY <1>3, <1>5, <1>6, <1>7 DEF Locals, Pushed, Repeats
  <1>10. GoodEdge(bbs', owner', <<Body, head>>) /\ bbs'[head].kind # "logicAfter"
    BY <1>1, <1>2, <1>3, FromBody
  <1>11. \A e \in out : GoodEdge(bbs', owner', e) /\ bbs'[e[2]].kind # "logicAfter"
    BY <1>10
  <1> HIDE DEF out
  <1>12. FlowEnters(c, Here, head, out)
    BY <1>1, <1>2, <1>3, <1>5, <1>6, <1>7, <1>8, <1>9, <1>11 DEF FlowEnters, Here
  <1>. QED  BY <1>12, FlowEnter

\* A call that leaves the deque as it is.
LEMMA PlainEnter ==
  ASSUME FlowInv, Inv', status = "run", status' = "run", blocks' = blocks, Grows,
         edges' = edges, phis' = phis,
         NEW c \in CallType, Push(c), c.fn \notin Opening, c.fn \notin {"repeat", "logicRhs"},
         Nests(Top, c), Locals(c, bbs', owner', Here, Here),
         c.fn = "logicLhs" => c.after \notin 1..Len(bbs),
         c.fn = "inPlace" => ip' = Body, c.fn = "return" => InFunc
  PROVE  FlowInv'
PROOF
  <1>1. /\ SameDeque(blocks, blocks', Depth) /\ blocks'[Len(blocks')].body = Body
    BY SameSame, Basics
  <1>2. Located(bbs', owner', Body, BodyKinds, Here)
    BY FlowFacts, Kept
  <1>3. c.fn # "func"
    BY DEF Opening, StmtCalls
  <1>4. FlowEnters(c, Here, Body, {})
    BY <1>1, <1>2, <1>3 DEF FlowEnters, Here
  <1>. QED  BY <1>4, FlowEnter

LEMMA IfStmtFlow ==
  ASSUME FlowInv, Inv', IfStmt
  PROVE  FlowInv'
PROOF
  <1> DEFINE after == NumBBs + 1
             c == Call("ifCond", Depth, after, 0, 0, 0)
  <1>1. /\ status = "run" /\ status' = "run" /\ phis' = phis /\ blocks' = blocks
        /\ Top.fn \in StmtCalls /\ Top.fn \notin ExprCalls
        /\ Push(c) /\ edges' = edges
        /\ Create(<<BB("ifAfter")>>, getEnclosingFunc)
    BY AtGuards DEF IfStmt, NoBranch
  <1>2. Grows /\ Fresh(after, "ifAfter", getEnclosingFunc)
    BY <1>1, CreateFlow1 DEF Kinds
  <1>3. Located(bbs', owner', after, {"ifAfter"}, Here)
    BY <1>2, FreshHere
  <1>4. after \in Nat /\ Depth \in Nat
    BY <1>1, Calling
  <1>5. c \in CallType /\ c.fn = "ifCond" /\ c.after = after
    BY <1>4 DEF Call, CallType, CallKinds, ExprCalls
  <1> HIDE DEF c, after
  <1>6. Nests(Top, c) /\ c.fn \notin Opening
    BY <1>1, <1>5 DEF Nests, SubExprCalls, Opening, StmtCalls
  <1>7. Locals(c, bbs', owner', Here, Here)
    BY <1>3, <1>5 DEF Locals, Repeats
  <1>. QED  BY <1>1, <1>2, <1>5, <1>6, <1>7, PlainEnter

LEMMA ReturnExprFlow ==
  ASSUME FlowInv, Inv', FuncReturnStmt \/ ExprStmt
  PROVE  FlowInv'
PROOF
  <1>0. PICK fn \in {"return", "exprStmt"} :
          Push(Call(fn, Depth, 0, 0, 0, 0)) /\ (fn = "return" => ~isFunctionalGlobal)
    BY DEF FuncReturnStmt, ExprStmt
  <1>1. Push(Call(fn, Depth, 0, 0, 0, 0))
    BY <1>0
  <1> DEFINE c == Call(fn, Depth, 0, 0, 0, 0)
  <1>2. /\ status = "run" /\ status' = "run" /\ phis' = phis /\ blocks' = blocks
        /\ Top.fn \in StmtCalls /\ Top.fn \notin ExprCalls
        /\ edges' = edges /\ bbs' = bbs /\ owner' = owner
    BY AtGuards DEF FuncReturnStmt, ExprStmt, module
  <1>3. Depth \in Nat
    BY <1>2, Calling
  <1>4. c \in CallType /\ c.fn = fn /\ Push(c)
    BY <1>1, <1>3 DEF Call, CallType, CallKinds, ExprCalls
  <1> HIDE DEF c
  <1>5. Nests(Top, c) /\ c.fn \notin Opening
    BY <1>2, <1>4 DEF Nests, SubExprCalls, Opening, StmtCalls
  <1>6. Locals(c, bbs', owner', Here, Here)
    BY <1>4 DEF Locals, Repeats
  <1>7. Grows
    BY <1>2, NoCreateGrows
  <1>8. c.fn = "return" => InFunc
    <2>1. fn = "return" => ~isFunctionalGlobal
      BY <1>0
    <2>. QED  BY <1>2, <1>4, <2>1, EnclosingFuncIs
  <1>. QED  BY <1>2, <1>4, <1>5, <1>6, <1>7, <1>8, PlainEnter

LEMMA InPlaceExprFlow ==
  ASSUME FlowInv, Inv', InPlaceExpr
  PROVE  FlowInv'
PROOF
  <1> DEFINE c == Call("inPlace", Depth, 0, 0, 0, 0)
  <1>1. /\ status = "run" /\ status' = "run" /\ phis' = phis /\ blocks' = blocks
        /\ Top.fn \in ExprCalls /\ ip' = Body /\ Push(c)
        /\ edges' = edges /\ bbs' = bbs /\ owner' = owner
    BY AtGuards DEF InPlaceExpr, module
  <1>2. Depth \in Nat
    BY <1>1, Calling
  <1>3. c \in CallType /\ c.fn = "inPlace"
    BY <1>2 DEF Call, CallType, CallKinds, ExprCalls
  <1> HIDE DEF c
  <1>4. Nests(Top, c) /\ c.fn \notin Opening
    BY <1>1, <1>3 DEF Nests, SubExprCalls, Opening, StmtCalls
  <1>5. Locals(c, bbs', owner', Here, Here)
    BY <1>3 DEF Locals, Repeats
  <1>6. Grows
    BY <1>1, NoCreateGrows
  <1>. QED  BY <1>1, <1>3, <1>4, <1>5, <1>6, PlainEnter

LEMMA LogicExprFlow ==
  ASSUME FlowInv, Inv', LogicExpr
  PROVE  FlowInv'
PROOF
  <1> DEFINE rhs == NumBBs + 1
             after == NumBBs + 2
             c == Call("logicLhs", Depth, after, 0, rhs, 0)
  <1>1. /\ status = "run" /\ status' = "run" /\ phis' = phis /\ blocks' = blocks
        /\ Top.fn \in ExprCalls /\ Push(c) /\ edges' = edges
        /\ Create(<<BB("logicRhs"), BB("logicAfter")>>, getEnclosingFunc)
    BY AtGuards DEF LogicExpr, NoBranch
  <1>2. /\ Grows /\ Fresh(rhs, "logicRhs", getEnclosingFunc)
        /\ Fresh(after, "logicAfter", getEnclosingFunc)
    BY <1>1, CreateFlow2 DEF Kinds
  <1>3. /\ Located(bbs', owner', rhs, {"logicRhs"}, Here)
        /\ Located(bbs', owner', after, {"logicAfter"}, Here)
        /\ after \notin 1..Len(bbs)
    BY <1>2, FreshHere
  <1>4. rhs \in Nat /\ after \in Nat /\ Depth \in Nat
    <2>1. NumBBs \in Nat /\ Depth \in Nat
      BY <1>1, Calling
    <2>2. NumBBs + 1 \in Nat /\ NumBBs + 2 \in Nat
      BY <2>1
    <2>. QED  BY <2>1, <2>2
  <1>5. c \in CallType /\ c.fn = "logicLhs" /\ c.after = after /\ c.head = rhs
    BY <1>4 DEF Call, CallType, CallKinds, ExprCalls
  <1> HIDE DEF c, rhs, after
  <1>6. Nests(Top, c) /\ c.fn \notin Opening
    BY <1>1, <1>5 DEF Nests, SubExprCalls, Opening, StmtCalls
  <1>7. Locals(c, bbs', owner', Here, Here)
    BY <1>3, <1>5 DEF Locals, Repeats
  <1>. QED  BY <1>1, <1>2, <1>3, <1>5, <1>6, <1>7, PlainEnter

LEMMA ArrayLoopFlow ==
  ASSUME FlowInv, Inv', ArrayLoop
  PROVE  FlowInv'
PROOF
  <1> DEFINE cond == NumBBs + 1
             body == NumBBs + 2
             after == NumBBs + 3
             c == Call("arrayLoop", Depth, after, 0, 0, cond)
             out == {<<Body, cond>>, <<cond, body>>, <<cond, after>>}
  <1>1. /\ status = "run" /\ status' = "run" /\ phis' = phis
        /\ Top.fn \in ExprCalls /\ Push(c) /\ edges' = edges \cup out
        /\ Create(<<BB("arrayLoopCond"), BB("arrayLoopBody"), BB("arrayLoopAfter")>>,
                  getEnclosingFunc)
        /\ blocks' = WithBody(body)
    BY AtGuards, Added DEF ArrayLoop
  <1>2. /\ Grows /\ Fresh(cond, "arrayLoopCond", getEnclosingFunc)
        /\ Fresh(body, "arrayLoopBody", getEnclosingFunc)
        /\ Fresh(after, "arrayLoopAfter", getEnclosingFunc)
    <2>1. {"arrayLoopCond", "arrayLoopBody", "arrayLoopAfter"} \subseteq Kinds
      BY DEF Kinds
    <2> HIDE DEF cond, body, after
    <2>. QED  BY <1>1, <2>1, CreateFlow3 DEF cond, body, after
  <1>3. /\ Located(bbs', owner', cond, {"arrayLoopCond"}, Here)
        /\ Located(bbs', owner', body, {"arrayLoopBody"}, Here)
        /\ Located(bbs', owner', body, BodyKinds, Here)
        /\ Located(bbs', owner', after, {"arrayLoopAfter"}, Here)
    <2>1. "arrayLoopBody" \in BodyKinds
      BY DEF BodyKinds, Kinds
    <2>. QED  BY <1>2, <2>1, FreshHere
  <1>4. cond \in Nat /\ body \in Nat /\ after \in Nat /\ Depth \in Nat
    <2>1. NumBBs \in Nat /\ Depth \in Nat
      BY <1>1, Calling
    <2>. QED  BY <2>1
  <1>5. c \in CallType /\ c.fn = "arrayLoop" /\ c.after = after /\ c.cond = cond
    BY <1>4 DEF Call, CallType, CallKinds, ExprCalls
  <1>6. /\ Len(blocks') = Depth /\ blocks'[Len(blocks')].body = body
        /\ SameDeque(blocks, blocks', Depth)
    BY <1>1, <1>4, WithBodySame
  <1> HIDE DEF c, cond, body, after
  <1>7. Nests(Top, c) /\ c.fn \notin Opening
    BY <1>1, <1>5 DEF Nests, SubExprCalls, Opening, StmtCalls
  <1>8. Locals(c, bbs', owner', Here, Here)
    BY <1>3, <1>5 DEF Locals, Repeats
  <1>9. /\ GoodEdge(bbs', owner', <<Body, cond>>) /\ bbs'[cond].kind # "logicAfter"
        /\ GoodEdge(bbs', owner', <<cond, body>>) /\ bbs'[body].kind # "logicAfter"
        /\ GoodEdge(bbs', owner', <<cond, after>>) /\ bbs'[after].kind # "logicAfter"
    <2>1. GoodEdge(bbs', owner', <<Body, cond>>) /\ bbs'[cond].kind # "logicAfter"
      BY <1>1, <1>2, <1>3, FromBody
    <2>2. GoodEdge(bbs', owner', <<cond, body>>) /\ bbs'[body].kind # "logicAfter"
      BY <1>3, Branch
    <2>3. GoodEdge(bbs', owner', <<cond, after>>) /\ bbs'[after].kind # "logicAfter"
      BY <1>3, Branch
    <2>. QED  BY <2>1, <2>2, <2>3
  <1>10. \A e \in out : GoodEdge(bbs', owner', e) /\ bbs'[e[2]].kind # "logicAfter"
    BY <1>9
  <1> HIDE DEF out
  <1>11. FlowEnters(c, Here, body, out)
    BY <1>1, <1>2, <1>3, <1>5, <1>6, <1>7, <1>8, <1>10 DEF FlowEnters, Here
  <1>. QED  BY <1>11, FlowEnter

LEMMA FuncDefStmtFlow ==
  ASSUME FlowInv, Inv', FuncDefStmt
  PROVE  FlowInv'
PROOF
  <1> DEFINE entry == NumBBs + 1
             end == NumBBs + 2
             c == Call("func", Depth + 1, 0, 0, 0, 0)
  <1>1. /\ status = "run" /\ status' = "run" /\ phis' = phis /\ Inv
        /\ Top.fn = "unit" /\ Push(c) /\ edges' = edges \cup {}
    BY Added DEF FuncDefStmt, FlowInv
  <1>2. PICK f \in Funcs :
          /\ Create(<<BB("funcBlockEntry"), BB("funcBlockEnd")>>, f)
          /\ blocks' = Append(blocks, FuncBlock(f, entry, end))
    BY DEF FuncDefStmt
  <1> DEFINE x == FuncBlock(f, entry, end)
             place == Place(LexicalLoop, f)
  <1>3. Grows /\ Fresh(entry, "funcBlockEntry", f) /\ Fresh(end, "funcBlockEnd", f)
    BY <1>1, <1>2, CreateFlow2 DEF Kinds
  <1>4. /\ Located(bbs', owner', entry, BodyKinds, place)
        /\ Located(bbs', owner', end, {"funcBlockEnd"}, place)
    BY <1>3 DEF Fresh, Located, BodyKinds, Kinds
  <1>5. entry \in Nat /\ end \in Nat /\ Depth = 1 /\ f \in FuncNames
    BY <1>1, Calling, AtUnit DEF FuncNames
  <1>6. /\ x \in BlockType /\ x.body = entry /\ x.end = end /\ x.type = "FUNC_BLOCK"
        /\ x.func = f
    BY <1>5 DEF FuncBlock, Block, BlockType, FuncBlockType
  <1>7. /\ Len(blocks') = Depth + 1 /\ blocks'[Depth + 1] = x
        /\ blocks'[Depth] = blocks[Depth] /\ SameDeque(blocks, blocks', Depth)
    BY <1>1, <1>2, <1>6, AppendSame
  <1>8. c \in CallType /\ c.fn = "func" /\ c.depth = Depth + 1
    BY <1>5 DEF Call, CallType, CallKinds, StmtCalls
  <1>9. Nests(Top, c)
    BY <1>1, <1>8 DEF Nests, SubExprCalls, StmtCalls, ExprCalls
  <1>10. blocks'[c.depth - 1].body = Body /\ blocks'[2] = x
    <2>1. c.depth - 1 = Depth /\ Depth + 1 = 2
      BY <1>5, <1>8
    <2>2. blocks[Depth].body = Body
      BY <1>1, Basics
    <2> HIDE DEF c, x
    <2>. QED  BY <1>7, <2>1, <2>2
  <1>11. Located(bbs', owner', Body, BodyKinds, Here)
    BY <1>1, <1>3, FlowFacts, Kept
  <1> HIDE DEF entry, end, c, x
  <1>12. /\ Locals(c, bbs', owner', place, Here)
         /\ Pushed(c, blocks'[c.depth], blocks'[c.depth - 1], bbs', owner', place, Here)
    BY <1>4, <1>6, <1>7, <1>8, <1>10, <1>11 DEF Locals, Pushed, Repeats
  <1>13. place = Place(LexicalLoop, IF c.fn = "func" THEN blocks'[2].func
                                                    ELSE getEnclosingFunc)
    BY <1>6, <1>8, <1>10
  <1> HIDE DEF place
  <1>14. FlowEnters(c, place, entry, {})
    BY <1>1, <1>3, <1>4, <1>6, <1>7, <1>8, <1>9, <1>12, <1>13 DEF FlowEnters
  <1>. QED  BY <1>14, FlowEnter

LEMMA RepeatStmtFlow ==
  ASSUME FlowInv, Inv', RepeatStmt
  PROVE  FlowInv'
PROOF
  <1> DEFINE init == NumBBs + 1
             cond == NumBBs + 2
             after == NumBBs + 6
             new == <<BB("repeatInit"), LoopBB("repeatCond", cond),
                      LoopBB("repeatIncr", cond), LoopBB("repeatBodyEntry", cond),
                      LoopBB("repeatBodyEnd", cond), BB("repeatAfter")>>
             x == CompBlock(init, after)
             out == {<<Body, init>>}
             loop == Place(cond, getEnclosingFunc)
  <1>1. /\ status = "run" /\ status' = "run" /\ phis' = phis
        /\ Top.fn \in StmtCalls /\ Top.fn \notin ExprCalls
        /\ edges' = edges \cup out
        /\ Create(new, getEnclosingFunc) /\ blocks' = Append(blocks, x)
    BY AtGuards, Added DEF RepeatStmt
  <1>2. PICK fn \in {"repeatCount", "repeatForever"} :
          Push(Call(fn, Depth + 1, after, 0, 0, cond))
    BY DEF RepeatStmt
  <1> DEFINE c == Call(fn, Depth + 1, after, 0, 0, cond)
  <1>3. /\ NumBBs \in Nat /\ init \in Nat /\ cond \in Nat /\ after \in Nat /\ Depth \in Nat
        /\ LexicalLoop \in Nat /\ LexicalLoop <= NumBBs
    <2>1. NumBBs \in Nat /\ Depth \in Nat
      BY <1>1, Calling
    <2>2. LexicalLoop \in Nat /\ LexicalLoop <= NumBBs
      BY <1>1, LoopBound
    <2>. QED  BY <2>1, <2>2
  <1>4. \A kind, l : LoopBB(kind, l).kind = kind /\ LoopBB(kind, l).loop = l
    BY DEF LoopBB
  <1>5. /\ new \in Seq(BBType) /\ Len(new) = 6
        /\ new[1] = LoopBB("repeatInit", LexicalLoop)
        /\ new[2] = LoopBB("repeatCond", cond) /\ new[3] = LoopBB("repeatIncr", cond)
        /\ new[4] = LoopBB("repeatBodyEntry", cond) /\ new[5] = LoopBB("repeatBodyEnd", cond)
        /\ new[6] = LoopBB("repeatAfter", LexicalLoop)
    <2>1. \A kind \in Kinds, l \in Nat : LoopBB(kind, l) \in BBType
      BY DEF LoopBB, BBType
    <2>2. {"repeatInit", "repeatCond", "repeatIncr", "repeatBodyEntry",
           "repeatBodyEnd", "repeatAfter"} \subseteq Kinds
      BY DEF Kinds
    <2> HIDE DEF cond
    <2>. QED  BY <1>3, <2>1, <2>2 DEF BB
  <1>6. \A j \in 1..Len(new) : new[j].loop <= NumBBs + j
    <2>1. \A j \in 1..Len(new) : j \in {1, 2, 3, 4, 5, 6}
      BY <1>5
    <2>2. /\ LexicalLoop <= NumBBs + 1 /\ LexicalLoop <= NumBBs + 6
          /\ cond <= NumBBs + 2 /\ cond <= NumBBs + 3
          /\ cond <= NumBBs + 4 /\ cond <= NumBBs + 5
      BY <1>3
    <2> HIDE DEF new, cond
    <2>. QED  BY <1>4, <1>5, <2>1, <2>2
  <1>7. /\ Grows
        /\ \A j \in {1, 2, 3, 4, 5, 6} :
             /\ NumBBs + j \in 1..Len(bbs') /\ NumBBs + j \notin 1..Len(bbs)
             /\ bbs'[NumBBs + j] = new[j] /\ owner'[NumBBs + j] = getEnclosingFunc
    <2>1. {1, 2, 3, 4, 5, 6} = 1..Len(new)
      BY <1>5
    <2> HIDE DEF new
    <2>2. InLoops(new)
      BY <1>5, <1>6 DEF InLoops
    <2>3. Create(new, getEnclosingFunc)
      BY <1>1 DEF new
    <2>4. Grows /\ AreNew(new, getEnclosingFunc)
      BY <1>1, <2>2, <2>3, CreateGrows
    <2>5. \A j \in {1, 2, 3, 4, 5, 6} : IsNew(new, getEnclosingFunc, j)
      BY <2>1, <2>4 DEF AreNew
    <2>. QED  BY <2>4, <2>5 DEF IsNew
  <1> HIDE DEF new
  <1>8. /\ cond - 1 = init /\ cond + 1 = NumBBs + 3 /\ cond + 2 = NumBBs + 4
        /\ cond + 3 = NumBBs + 5 /\ cond = NumBBs + 2 /\ init = NumBBs + 1
        /\ after = NumBBs + 6
    BY <1>3
  <1>9. /\ Located(bbs', owner', init, {"repeatInit"}, Here)
        /\ Located(bbs', owner', after, {"repeatAfter"}, Here)
    <2>1. /\ init \in 1..Len(bbs') /\ bbs'[init] = new[1] /\ owner'[init] = getEnclosingFunc
          /\ after \in 1..Len(bbs') /\ bbs'[after] = new[6] /\ owner'[after] = getEnclosingFunc
      BY <1>7
    <2> HIDE DEF init, after
    <2>. QED  BY <1>4, <1>5, <2>1, Records DEF Located
  <1>10. /\ Located(bbs', owner', cond, {"repeatCond"}, loop)
         /\ Located(bbs', owner', cond + 1, {"repeatIncr"}, loop)
         /\ Located(bbs', owner', cond + 2, {"repeatBodyEntry"}, loop)
         /\ Located(bbs', owner', cond + 3, {"repeatBodyEnd"}, loop)
    <2>1. loop.loop = cond /\ loop.func = getEnclosingFunc
      BY Records
    <2> DEFINE Is(b, j) == /\ b \in 1..Len(bbs') /\ bbs'[b] = new[j]
                           /\ owner'[b] = getEnclosingFunc
    <2>2. Is(NumBBs + 2, 2) /\ Is(NumBBs + 3, 3) /\ Is(NumBBs + 4, 4) /\ Is(NumBBs + 5, 5)
      BY <1>7
    <2> HIDE DEF Is
    <2>3. Is(cond, 2) /\ Is(cond + 1, 3) /\ Is(cond + 2, 4) /\ Is(cond + 3, 5)
      BY <1>8, <2>2
    <2> HIDE DEF loop, cond
    <2>. QED  BY <1>4, <1>5, <2>1, <2>3 DEF Located, Is
  <1>11. Located(bbs', owner', init, BodyKinds, Here)
    BY <1>9 DEF Located, BodyKinds, Kinds
  <1>12. /\ x \in BlockType /\ x.body = init /\ x.type = "COMP_BLOCK"
    BY <1>3, CompBlockFacts DEF CompBlock, Block
  <1>13. /\ Len(blocks') = Depth + 1 /\ blocks'[Depth + 1] = x
         /\ SameDeque(blocks, blocks', Depth)
    BY <1>1, <1>12, AppendSame
  <1>14. /\ c \in CallType /\ c.fn = fn /\ c.depth = Depth + 1
         /\ c.after = after /\ c.cond = cond /\ Push(c)
    <2>1. Depth + 1 \in Nat /\ after \in Nat /\ cond \in Nat /\ Push(c)
      BY <1>2, <1>3
    <2>2. fn \in CallKinds
      BY DEF CallKinds, ExprCalls
    <2> HIDE DEF after, cond
    <2>. QED  BY <2>1, <2>2 DEF Call, CallType
  <1>15. loop = Place(c.cond, Here.func)
    BY <1>14, Records
  <1> HIDE DEF init, cond, after, c, x, loop
  <1>16. Nests(Top, c)
    BY <1>1, <1>14 DEF Nests, SubExprCalls
  <1>17. /\ Locals(c, bbs', owner', Here, Here)
         /\ Pushed(c, blocks'[c.depth], blocks'[c.depth - 1], bbs', owner', Here, Here)
    <2>1. Located(bbs', owner', c.cond - 1, {"repeatInit"}, Here)
      BY <1>8, <1>9, <1>14
    <2>. QED  BY <1>9, <1>10, <1>12, <1>13, <1>14, <1>15, <2>1 DEF Locals, Pushed, Repeats
  <1>18. GoodEdge(bbs', owner', <<Body, init>>) /\ bbs'[init].kind # "logicAfter"
    BY <1>1, <1>7, <1>9, FromBody
  <1>19. \A e \in out : GoodEdge(bbs', owner', e) /\ bbs'[e[2]].kind # "logicAfter"
    BY <1>18
  <1> HIDE DEF out
  <1>20. FlowEnters(c, Here, init, out)
    BY <1>1, <1>7, <1>11, <1>12, <1>13, <1>14, <1>16, <1>17, <1>19 DEF FlowEnters, Here
  <1>. QED  BY <1>20, FlowEnter

-----------------------------------------------------------------------------
(* Jumps. *)

\* The search for the enclosing loop finds the innermost repeat statement that
\* is being generated, and its Block says where that goes on.
LEMMA EnclosingLoopIs ==
  ASSUME FlowInv, status = "run", InLoop
  PROVE  /\ Located(bbs, owner, getEnclosingLoopBlock.continue_, {"repeatIncr"}, Here)
         /\ Located(bbs, owner, getEnclosingLoopBlock.break_, {"repeatAfter"},
                    Place(bbs[LexicalLoop - 1].loop, getEnclosingFunc))
         /\ LexicalLoop - 1 \in 1..Len(bbs)
PROOF
  <1> DEFINE S == {i \in DOMAIN blocks : blocks[i].type \in {"LOOP_BLOCK"}}
             T == {i \in 1..Len(calls) : calls[i].fn = "repeat"}
             n == Len(calls)
  <1>0. /\ StackOK(calls, blocks) /\ n \in Nat \ {0}
        /\ blocks \in Seq(BlockType) /\ Len(blocks) \in Nat \ {0} /\ Flowing
        /\ calls \in Seq(CallType)
    BY Basics
  <1>1. S \in SUBSET (1..Len(blocks)) /\ S # {}
    BY <1>0 DEF InLoop
  <1>2. Max(S) \in S /\ (\A i \in S : Max(S) >= i) /\ Max(S) \in 1..Len(blocks)
    <2> HIDE DEF S
    <2>. QED  BY <1>0, <1>1, MaxOfIndices
  <1> DEFINE d == Max(S)
  <1>3. blocks[d].type = "LOOP_BLOCK" /\ getEnclosingLoopBlock = blocks[d]
    BY <1>2 DEF getEnclosingLoopBlock, InnermostOf
  <1> HIDE DEF d
  <1>4. PICK r \in 1..Len(calls) :
          /\ calls[r].depth = d /\ calls[r].fn = "repeat"
          /\ blocks[d].continue_ = calls[r].cond + 1 /\ blocks[d].break_ = calls[r].after
    <2>1. d \in 1..Len(blocks)
      BY <1>2 DEF d
    <2>2. PICK i \in 1..Len(calls) :
            /\ calls[i].depth = d
            /\ blocks[d].type = "LOOP_BLOCK" <=> calls[i].fn = "repeat"
            /\ calls[i].fn = "repeat" => /\ blocks[d].continue_ = calls[i].cond + 1
                                         /\ blocks[d].break_ = calls[i].after
      BY <2>1, BlockOf
    <2>. QED  BY <1>3, <2>2
  <1>5. r \in T /\ T \in SUBSET (1..n)
    BY <1>4
  <1>6. Max(T) \in T /\ (\A i \in T : Max(T) >= i)
    <2> HIDE DEF T
    <2>. QED  BY <1>0, <1>5, MaxOfIndices
  <1>7. \A i \in T : i <= r
    <2> SUFFICES ASSUME NEW i \in T, ~(i <= r) PROVE FALSE
      OBVIOUS
    <2>1. i \in 1..n /\ r < i /\ r \in 1..n
      BY <1>0
    <2>2. calls[i].fn = "repeat" /\ "repeat" \in Opening
      BY DEF Opening, StmtCalls
    <2>3. calls[r].depth < calls[i].depth /\ calls[i].depth \in 1..Len(blocks)
      BY <1>0, <2>1, <2>2 DEF StackOK
    <2>4. blocks[calls[i].depth].type = "LOOP_BLOCK"
      <3>1. Settled(calls, blocks, bbs, owner, i)
        BY <1>0, <2>1 DEF Flowing
      <3>. QED  BY <2>2, <3>1 DEF Settled, Pushed
    <2>5. calls[i].depth \in S
      BY <1>0, <2>3, <2>4
    <2>6. d >= calls[i].depth
      BY <1>2, <2>5 DEF d
    <2>7. d \in Nat /\ calls[i].depth \in Nat
      BY <1>2, <2>3, <1>0 DEF d
    <2>. QED  BY <1>4, <2>3, <2>6, <2>7
  <1>8. Max(T) = r /\ T # {}
    <2>1. Max(T) \in 1..n /\ Max(T) >= r /\ Max(T) <= r
      BY <1>5, <1>6, <1>7
    <2> HIDE DEF T
    <2>. QED  BY <1>0, <1>5, <2>1
  <1>9. LexicalLoop = calls[r].cond
    <2>1. LexicalLoop = LoopAt(calls, n)
      BY <1>0, LexicalLoopIs
    <2>. QED  BY <1>8, <2>1 DEF LoopAt
  <1>10. r # 1 /\ r - 1 \in 1..n /\ r \in 2..n
    <2>1. r # 1
      BY <1>0, <1>4 DEF StackOK
    <2>. QED  BY <1>0, <2>1
  <1> DEFINE outer == PlaceAt(calls, blocks, r - 1)
  <1>11. Locals(calls[r], bbs, owner, PlaceAt(calls, blocks, r), outer)
    BY <1>0, <1>4, <1>10 DEF Flowing, Settled
  <1>12. outer.func = getEnclosingFunc
    <2>1. getEnclosingFunc = FuncAt(calls, blocks, n)
      BY EnclosingFuncIs
    <2>2. r = 2 => calls[2].fn # "func"
      BY <1>4
    <2>3. FuncAt(calls, blocks, r - 1) = FuncAt(calls, blocks, n)
      <3>1. r - 1 >= 2 \/ r = 2
        BY <1>10
      <3>2. r - 1 >= 2 => n >= 2
        BY <1>0, <1>10
      <3>3. r = 2 => ~(r - 1 >= 2)
        OBVIOUS
      <3>. QED  BY <2>2, <3>1, <3>2, <3>3 DEF FuncAt
    <2>. QED  BY <2>1, <2>3 DEF PlaceAt, Place
  <1> HIDE DEF outer
  <1>13. /\ Located(bbs, owner, calls[r].after, {"repeatAfter"}, outer)
         /\ Located(bbs, owner, calls[r].cond + 1, {"repeatIncr"},
                    Place(calls[r].cond, outer.func))
         /\ Located(bbs, owner, calls[r].cond - 1, {"repeatInit"}, outer)
    BY <1>4, <1>11 DEF Locals, Repeats
  <1>14. Place(calls[r].cond, outer.func) = Here
    BY <1>9, <1>12 DEF Here
  <1>15. bbs[LexicalLoop - 1].loop = outer.loop /\ LexicalLoop - 1 \in 1..Len(bbs)
    BY <1>9, <1>13 DEF Located
  <1>16. Located(bbs, owner, calls[r].after, {"repeatAfter"},
                 Place(bbs[LexicalLoop - 1].loop, getEnclosingFunc))
    BY <1>12, <1>13, <1>15, Records DEF Located
  <1>. QED  BY <1>3, <1>4, <1>13, <1>14, <1>15, <1>16

\* A jump goes on in a fresh block.
LEMMA JumpFlow ==
  ASSUME FlowInv, Inv', AtStmt, NEW kind \in Kinds \cap BodyKinds, NEW succ,
         Jump(kind, succ),
         Grows => \A b \in succ : GoodEdge(bbs', owner', <<Body, b>>)
                                  /\ bbs'[b].kind # "logicAfter"
  PROVE  FlowInv'
PROOF
  <1> DEFINE fresh == NumBBs + 1
             out == {Body} \X succ
  <1>1. /\ status = "run" /\ status' = "run" /\ phis' = phis /\ calls' = calls
        /\ Top.fn \in StmtCalls /\ edges' = edges \cup out
        /\ Create(<<BB(kind)>>, getEnclosingFunc) /\ blocks' = WithBody(fresh)
    BY AtGuards, Added DEF Jump, Resume
  <1>2. Grows /\ Fresh(fresh, kind, getEnclosingFunc) /\ fresh \in Nat
    BY <1>1, CreateFlow1, Calling
  <1>3. Located(bbs', owner', fresh, BodyKinds, Here)
    BY <1>2, FreshHere
  <1>4. /\ Len(blocks') = Depth /\ blocks'[Depth].body = fresh
        /\ SameDeque(blocks, blocks', Depth)
    BY <1>1, <1>2, WithBodySame
  <1>5. \A e \in out : GoodEdge(bbs', owner', e) /\ bbs'[e[2]].kind # "logicAfter"
    BY <1>2
  <1>6. Top.fn # "inPlace"
    BY <1>1 DEF StmtCalls
  <1> HIDE DEF fresh, out
  <1>7. FlowStays(fresh, out)
    BY <1>1, <1>2, <1>3, <1>4, <1>5, <1>6 DEF FlowStays
  <1>. QED  BY <1>7, FlowStay

LEMMA ContinueStmtFlow ==
  ASSUME FlowInv, Inv', ContinueStmt
  PROVE  FlowInv'
PROOF
  <1> DEFINE b == getEnclosingLoopBlock.continue_
  <1>1. AtStmt /\ InLoop /\ Jump("continueAfter", {b}) /\ status = "run"
    BY AtGuards DEF ContinueStmt
  <1>2. Located(bbs, owner, b, {"repeatIncr"}, Here)
    BY <1>1, EnclosingLoopIs
  <1> HIDE DEF b
  <1>3. Grows => GoodEdge(bbs', owner', <<Body, b>>) /\ bbs'[b].kind # "logicAfter"
    <2> SUFFICES ASSUME Grows
                 PROVE  GoodEdge(bbs', owner', <<Body, b>>) /\ bbs'[b].kind # "logicAfter"
      OBVIOUS
    <2>1. Located(bbs', owner', b, {"repeatIncr"}, Here)
      BY <1>2, Kept
    <2>. QED  BY <1>1, <2>1, FromBody
  <1>4. "continueAfter" \in Kinds \cap BodyKinds
    BY DEF Kinds, BodyKinds
  <1>. QED  BY <1>1, <1>3, <1>4, JumpFlow

LEMMA BreakStmtFlow ==
  ASSUME FlowInv, Inv', BreakStmt
  PROVE  FlowInv'
PROOF
  <1> DEFINE b == getEnclosingLoopBlock.break_
             outer == Place(bbs[LexicalLoop - 1].loop, getEnclosingFunc)
  <1>1. AtStmt /\ InLoop /\ Jump("breakAfter", {b}) /\ status = "run"
    BY AtGuards DEF BreakStmt
  <1>2. /\ Located(bbs, owner, b, {"repeatAfter"}, outer)
        /\ LexicalLoop - 1 \in 1..Len(bbs)
    BY <1>1, EnclosingLoopIs
  <1> HIDE DEF b
  <1>3. Grows => GoodEdge(bbs', owner', <<Body, b>>) /\ bbs'[b].kind # "logicAfter"
    <2> SUFFICES ASSUME Grows
                 PROVE  GoodEdge(bbs', owner', <<Body, b>>) /\ bbs'[b].kind # "logicAfter"
      OBVIOUS
    <2>1. /\ Located(bbs', owner', b, {"repeatAfter"}, outer)
          /\ Located(bbs', owner', Body, BodyKinds, Here)
      BY <1>1, <1>2, FlowFacts, Kept
    <2>2. /\ LexicalLoop - 1 \in 1..Len(bbs')
          /\ bbs'[LexicalLoop - 1] = bbs[LexicalLoop - 1]
      BY <1>2 DEF Grows, Extends
    <2>3. /\ b \in 1..Len(bbs') /\ bbs'[b].kind = "repeatAfter"
          /\ bbs'[b].loop = bbs'[LexicalLoop - 1].loop
          /\ owner'[b] = getEnclosingFunc
      BY <2>1, <2>2, Records DEF Located
    <2>4. /\ Body \in 1..Len(bbs') /\ bbs'[Body].kind # "globalBlockEnd"
          /\ bbs'[Body].loop = LexicalLoop /\ owner'[Body] = getEnclosingFunc
      BY <2>1, Records DEF Located, BodyKinds
    <2>. QED  BY <2>2, <2>3, <2>4 DEF GoodEdge
  <1>4. "breakAfter" \in Kinds \cap BodyKinds
    BY DEF Kinds, BodyKinds
  <1>. QED  BY <1>1, <1>3, <1>4, JumpFlow

\* A return from the transfer unit and a goto branch nowhere.
LEMMA ReturnJumpFlow ==
  ASSUME FlowInv, Inv', GlobalReturnStmt \/ GotoStmt
  PROVE  FlowInv'
PROOF
  <1>1. PICK kind \in {"globalReturnAfter", "gotoAfter"} : AtStmt /\ Jump(kind, {})
    BY DEF GlobalReturnStmt, GotoStmt
  <1>2. kind \in Kinds \cap BodyKinds
    BY DEF Kinds, BodyKinds
  <1>. QED  BY <1>1, <1>2, JumpFlow

\* Code that stays in the current block.
LEMMA StayInBlockFlow ==
  ASSUME FlowInv, Inv', GosubStmt \/ Instr
  PROVE  FlowInv'
PROOF
  <1>1. /\ status = "run" /\ status' = "run" /\ phis' = phis /\ calls' = calls
        /\ blocks' = blocks /\ edges' = edges /\ bbs' = bbs /\ owner' = owner
        /\ ip' = Body
    BY AtGuards DEF GosubStmt, Instr, module
  <1>2. Grows
    BY <1>1, NoCreateGrows
  <1>3. Located(bbs', owner', Body, BodyKinds, Here)
    BY <1>1, <1>2, FlowFacts, Kept
  <1>4. /\ Len(blocks') = Depth /\ blocks'[Depth].body = Body
        /\ SameDeque(blocks, blocks', Depth)
    BY <1>1, SameSame, Basics
  <1>5. FlowStays(Body, {})
    BY <1>1, <1>2, <1>3, <1>4 DEF FlowStays
  <1>. QED  BY <1>5, FlowStay

-----------------------------------------------------------------------------
(* Functions that return. *)

LEMMA CompEndFlow ==
  ASSUME FlowInv, Inv', CompEnd
  PROVE  FlowInv'
PROOF
  <1> DEFINE after == NumBBs + 1
             end == Back.end
             out == {<<Body, end>>, <<end, after>>}
  <1>1. /\ status = "run" /\ status' = "run" /\ phis' = phis /\ Top.fn = "comp"
        /\ Pop /\ edges' = edges \cup out
        /\ Create(<<BB("compBlockAfter")>>, getEnclosingFunc)
        /\ blocks' = PopTo(after)
    BY AtGuards, Added DEF CompEnd, CompBody
  <1>2. Grows /\ Fresh(after, "compBlockAfter", getEnclosingFunc)
    BY <1>1, CreateFlow1 DEF Kinds
  <1>3. "compBlockAfter" \in BodyKinds /\ "comp" \in Opening
    BY DEF BodyKinds, Kinds, Opening, StmtCalls
  <1>4. /\ Located(bbs', owner', after, {"compBlockAfter"}, Here)
        /\ Located(bbs', owner', after, BodyKinds, Around)
    BY <1>1, <1>2, <1>3, FreshHere, FlowFacts
  <1>5. Located(bbs', owner', end, {"compBlockEnd"}, Here)
    BY <1>1, <1>2, <1>3, FlowFacts, Kept DEF Pushed
  <1>6. Depth >= 2 /\ after \in Nat
    BY <1>1, <1>3, Calling
  <1>7. /\ Len(blocks') = Depth - 1 /\ blocks'[Depth - 1].body = after
        /\ SameDeque(blocks, blocks', Depth - 1)
    BY <1>1, <1>6, PopToSame
  <1>8. GoodEdge(bbs', owner', <<Body, end>>) /\ bbs'[end].kind # "logicAfter"
    BY <1>1, <1>2, <1>5, FromBody
  <1>9. GoodEdge(bbs', owner', <<end, after>>) /\ bbs'[after].kind # "logicAfter"
    <2> HIDE DEF end, after
    <2>. QED  BY <1>4, <1>5, Branch
  <1>10. \A e \in out : GoodEdge(bbs', owner', e) /\ bbs'[e[2]].kind # "logicAfter"
    BY <1>8, <1>9
  <1>11. Top.fn \notin SubExprCalls
    BY <1>1 DEF SubExprCalls
  <1> HIDE DEF after, end, out
  <1>12. FlowLeaves(Depth - 1, after, out)
    BY <1>1, <1>2, <1>3, <1>4, <1>7, <1>10, <1>11 DEF FlowLeaves
  <1>. QED  BY <1>12, FlowLeave

LEMMA ElseThenEndFlow ==
  ASSUME FlowInv, Inv', ElseThenEnd
  PROVE  FlowInv'
PROOF
  <1> DEFINE after == Top.after
             end == Back.end
             out == {<<Body, end>>, <<end, after>>, <<Top.prevBody, Top.head>>}
  <1>1. /\ status = "run" /\ status' = "run" /\ phis' = phis /\ Top.fn = "elseThen"
        /\ Pop /\ edges' = edges \cup out /\ bbs' = bbs /\ owner' = owner
        /\ blocks' = PopTo(after)
    BY AtGuards, Added DEF ElseThenEnd, NoCreate
  <1>2. Grows
    BY <1>1, NoCreateGrows
  <1>3. "ifAfter" \in BodyKinds /\ "elseThen" \in Opening /\ "globalBlockEnd" \notin BodyKinds
    BY DEF BodyKinds, Kinds, Opening, StmtCalls
  <1>4. /\ Located(bbs', owner', after, {"ifAfter"}, Here)
        /\ Located(bbs', owner', after, BodyKinds, Around)
        /\ Located(bbs', owner', Top.prevBody, BodyKinds, Here)
        /\ Located(bbs', owner', Top.head, {"compBlockEntry"}, Here)
    <2>1. Locals(Top, bbs, owner, Here, Around) /\ Around = Here
      BY <1>1, FlowFacts
    <2>2. {"ifAfter"} \subseteq BodyKinds
      BY <1>3
    <2>. QED  BY <1>1, <1>2, <2>1, <2>2, Kept DEF Locals
  <1>5. Located(bbs', owner', end, {"compBlockEnd"}, Here)
    BY <1>1, <1>2, <1>3, FlowFacts, Kept DEF Pushed
  <1>6. Depth >= 2 /\ after \in Nat
    BY <1>1, <1>3, Calling
  <1>7. /\ Len(blocks') = Depth - 1 /\ blocks'[Depth - 1].body = after
        /\ SameDeque(blocks, blocks', Depth - 1)
    BY <1>1, <1>6, PopToSame
  <1>8. GoodEdge(bbs', owner', <<Body, end>>) /\ bbs'[end].kind # "logicAfter"
    BY <1>1, <1>2, <1>5, FromBody
  <1>9. GoodEdge(bbs', owner', <<end, after>>) /\ bbs'[after].kind # "logicAfter"
    <2> HIDE DEF end, after
    <2>. QED  BY <1>4, <1>5, Branch
  <1>10. /\ GoodEdge(bbs', owner', <<Top.prevBody, Top.head>>)
         /\ bbs'[Top.head].kind # "logicAfter"
    <2>1. /\ "compBlockEntry" \notin {"globalBlockEnd", "repeatCond", "logicAfter"}
          /\ "globalBlockEnd" \notin BodyKinds
      BY DEF BodyKinds
    <2>2. /\ Located(bbs', owner', Top.prevBody, BodyKinds, Here)
          /\ Located(bbs', owner', Top.head, {"compBlockEntry"}, Here)
      BY <1>4
    <2>. QED  BY <2>1, <2>2, Branch
  <1>11. \A e \in out : GoodEdge(bbs', owner', e) /\ bbs'[e[2]].kind # "logicAfter"
    BY <1>8, <1>9, <1>10
  <1>12. Top.fn \notin SubExprCalls
    BY <1>1 DEF SubExprCalls
  <1> HIDE DEF after, end, out
  <1>13. FlowLeaves(Depth - 1, after, out)
    BY <1>1, <1>2, <1>3, <1>4, <1>7, <1>11, <1>12 DEF FlowLeaves
  <1>. QED  BY <1>13, FlowLeave

LEMMA NoElseFlow ==
  ASSUME FlowInv, Inv', NoElse
  PROVE  FlowInv'
PROOF
  <1> DEFINE after == Top.after
             out == {<<Body, after>>}
  <1>1. /\ status = "run" /\ status' = "run" /\ phis' = phis /\ Top.fn = "ifNext"
        /\ Pop /\ edges' = edges \cup out /\ bbs' = bbs /\ owner' = owner
        /\ blocks' = WithBody(after)
    BY AtGuards, Added DEF NoElse, NoCreate
  <1>2. Grows
    BY <1>1, NoCreateGrows
  <1>3. "ifAfter" \in BodyKinds /\ "ifNext" \notin Opening
    BY DEF BodyKinds, Kinds, Opening, StmtCalls
  <1>4. /\ Located(bbs', owner', after, {"ifAfter"}, Here)
        /\ Located(bbs', owner', after, BodyKinds, Around)
    <2>1. Locals(Top, bbs, owner, Here, Around) /\ Around = Here
      BY <1>1, FlowFacts
    <2>2. {"ifAfter"} \subseteq BodyKinds
      BY <1>3
    <2>. QED  BY <1>1, <1>2, <2>1, <2>2, Kept DEF Locals
  <1>5. after \in Nat
    BY <1>1, Calling
  <1>6. /\ Len(blocks') = Depth /\ blocks'[Depth].body = after
        /\ SameDeque(blocks, blocks', Depth)
    BY <1>1, <1>5, WithBodySame
  <1>7. GoodEdge(bbs', owner', <<Body, after>>) /\ bbs'[after].kind # "logicAfter"
    BY <1>1, <1>2, <1>4, FromBody
  <1>8. \A e \in out : GoodEdge(bbs', owner', e) /\ bbs'[e[2]].kind # "logicAfter"
    BY <1>7
  <1>9. Top.fn \notin SubExprCalls
    BY <1>1 DEF SubExprCalls
  <1> HIDE DEF after, out
  <1>10. FlowLeaves(Depth, after, out)
    BY <1>1, <1>2, <1>3, <1>4, <1>6, <1>8, <1>9 DEF FlowLeaves
  <1>. QED  BY <1>10, FlowLeave

LEMMA RepeatEndFlow ==
  ASSUME FlowInv, Inv', RepeatEnd
  PROVE  FlowInv'
PROOF
  <1> DEFINE after == Top.after
             end == Back.end
             incr == Top.cond + 1
             out == {<<Body, end>>, <<end, incr>>}
  <1>1. /\ status = "run" /\ status' = "run" /\ phis' = phis /\ Top.fn = "repeat"
        /\ Pop /\ edges' = edges \cup out /\ bbs' = bbs /\ owner' = owner
        /\ blocks' = PopTo(after)
    BY AtGuards, Added DEF RepeatEnd, NoCreate
  <1>2. Grows
    BY <1>1, NoCreateGrows
  <1>3. "repeatAfter" \in BodyKinds /\ "repeat" \in Opening
    BY DEF BodyKinds, Kinds, Opening, StmtCalls
  <1>4. /\ Located(bbs', owner', after, BodyKinds, Around)
        /\ Located(bbs', owner', incr, {"repeatIncr"}, Here)
    <2>1. Locals(Top, bbs, owner, Here, Around) /\ Here = Place(Top.cond, Around.func)
      BY <1>1, FlowFacts
    <2>2. {"repeatAfter"} \subseteq BodyKinds
      BY <1>3
    <2>. QED  BY <1>1, <1>2, <2>1, <2>2, Kept DEF Locals, Repeats
  <1>5. Located(bbs', owner', end, {"repeatBodyEnd"}, Here)
    BY <1>1, <1>2, <1>3, FlowFacts, Kept DEF Pushed
  <1>6. Depth >= 2 /\ after \in Nat
    BY <1>1, <1>3, Calling
  <1>7. /\ Len(blocks') = Depth - 1 /\ blocks'[Depth - 1].body = after
        /\ SameDeque(blocks, blocks', Depth - 1)
    BY <1>1, <1>6, PopToSame
  <1>8. GoodEdge(bbs', owner', <<Body, end>>) /\ bbs'[end].kind # "logicAfter"
    BY <1>1, <1>2, <1>5, FromBody
  <1> HIDE DEF after, end, incr
  <1>9. GoodEdge(bbs', owner', <<end, incr>>) /\ bbs'[incr].kind # "logicAfter"
    <2> HIDE DEF end, after
    <2>. QED  BY <1>4, <1>5, Branch
  <1>10. \A e \in out : GoodEdge(bbs', owner', e) /\ bbs'[e[2]].kind # "logicAfter"
    BY <1>8, <1>9
  <1>11. Top.fn \notin SubExprCalls
    BY <1>1 DEF SubExprCalls
  <1> HIDE DEF out
  <1>12. FlowLeaves(Depth - 1, after, out)
    BY <1>1, <1>2, <1>3, <1>4, <1>7, <1>10, <1>11 DEF FlowLeaves
  <1>. QED  BY <1>12, FlowLeave

\* The end block of the function the return statement is in.
LEMMA FuncReturnValueFlow ==
  ASSUME FlowInv, Inv', FuncReturnValue
  PROVE  FlowInv'
PROOF
  <1> DEFINE fresh == NumBBs + 1
             end == getEnclosingFuncBlock.end
             out == {<<Body, end>>}
  <1>1. /\ status = "run" /\ status' = "run" /\ phis' = phis /\ Top.fn = "return"
        /\ Pop /\ edges' = edges \cup out
        /\ Create(<<BB("funcReturnAfter")>>, getEnclosingFunc)
        /\ blocks' = WithBody(fresh)
    BY AtGuards, Added DEF FuncReturnValue, Resume
  <1>2. Grows /\ Fresh(fresh, "funcReturnAfter", getEnclosingFunc)
    BY <1>1, CreateFlow1 DEF Kinds
  <1>3. "funcReturnAfter" \in BodyKinds /\ "return" \notin Opening
    BY DEF BodyKinds, Kinds, Opening, StmtCalls
  <1>4. Located(bbs', owner', fresh, BodyKinds, Around)
    BY <1>1, <1>2, <1>3, FreshHere, FlowFacts
  <1>5. fresh \in Nat
    BY <1>1, Calling
  <1>6. /\ Len(blocks') = Depth /\ blocks'[Depth].body = fresh
        /\ SameDeque(blocks, blocks', Depth)
    BY <1>1, <1>5, WithBodySame
  <1>7. Located(bbs, owner, end, {"funcBlockEnd"}, Place(bbs[end].loop, getEnclosingFunc))
    <2>1. InFunc
      <3>1. Settled(calls, blocks, bbs, owner, Len(calls)) /\ Top = calls[Len(calls)]
        BY <1>1, Basics DEF Flowing
      <3>. QED  BY <1>1, <3>1 DEF Settled, InFunc
    <2>2. /\ Settled(calls, blocks, bbs, owner, 2) /\ calls[2].depth = 2
          /\ calls[2].fn = "func" /\ end = blocks[2].end
      BY <1>1, <2>1, EnclosingFuncIs DEF InFunc
    <2>3. "func" \in Opening
      BY DEF Opening, StmtCalls
    <2>4. Located(bbs, owner, end, {"funcBlockEnd"}, PlaceAt(calls, blocks, 2))
      BY <2>2, <2>3 DEF Settled, Pushed
    <2>5. PlaceAt(calls, blocks, 2).func = getEnclosingFunc
      <3>1. PlaceAt(calls, blocks, 2).func = FuncAt(calls, blocks, 2)
        BY DEF PlaceAt, Place
      <3>2. FuncAt(calls, blocks, 2) = FuncAt(calls, blocks, Len(calls))
        BY <2>1 DEF FuncAt, InFunc
      <3>. QED  BY <1>1, <3>1, <3>2, EnclosingFuncIs
    <2>. QED  BY <2>4, <2>5, Records DEF Located
  <1> HIDE DEF fresh, end
  <1>8. GoodEdge(bbs', owner', <<Body, end>>) /\ bbs'[end].kind # "logicAfter"
    <2>1. /\ Located(bbs', owner', end, {"funcBlockEnd"}, Place(bbs[end].loop, getEnclosingFunc))
          /\ Located(bbs', owner', Body, BodyKinds, Here)
      BY <1>1, <1>2, <1>7, FlowFacts, Kept
    <2>2. /\ end \in 1..Len(bbs') /\ bbs'[end].kind = "funcBlockEnd"
          /\ owner'[end] = getEnclosingFunc
      BY <2>1, Records DEF Located
    <2>3. /\ Body \in 1..Len(bbs') /\ bbs'[Body].kind # "globalBlockEnd"
          /\ owner'[Body] = getEnclosingFunc
      BY <2>1, Records DEF Located, BodyKinds
    <2>. QED  BY <2>2, <2>3 DEF GoodEdge
  <1>9. \A e \in out : GoodEdge(bbs', owner', e) /\ bbs'[e[2]].kind # "logicAfter"
    BY <1>8
  <1>10. Top.fn \notin SubExprCalls
    BY <1>1 DEF SubExprCalls
  <1> HIDE DEF out
  <1>11. FlowLeaves(Depth, fresh, out)
    BY <1>1, <1>2, <1>3, <1>4, <1>6, <1>9, <1>10 DEF FlowLeaves
  <1>. QED  BY <1>11, FlowLeave

\* The end of an expression statement, and of code that set the insertion point
\* before its operands: it stands where the last of them left it.
LEMMA ExprEndFlow ==
  ASSUME FlowInv, Inv', ExprStmtEnd \/ InPlaceEnd
  PROVE  FlowInv'
PROOF
  <1>1. /\ status = "run" /\ status' = "run" /\ phis' = phis /\ Pop
        /\ Top.fn \in {"exprStmt", "inPlace"} /\ blocks' = blocks
        /\ edges' = edges /\ bbs' = bbs /\ owner' = owner
        /\ Top.fn = "inPlace" => ip' = ip
        /\ Top.fn = "exprStmt" => ip' = Body
    BY AtGuards DEF ExprStmtEnd, InPlaceEnd, module
  <1>2. Grows
    BY <1>1, NoCreateGrows
  <1>3. Top.fn \notin Opening
    BY <1>1 DEF Opening, StmtCalls
  <1>4. Located(bbs', owner', Body, BodyKinds, Around)
    BY <1>1, <1>2, FlowFacts, Kept
  <1>5. /\ Len(blocks') = Depth /\ blocks'[Depth].body = Body
        /\ SameDeque(blocks, blocks', Depth)
    BY <1>1, SameSame, Basics
  <1>6. ip' = Body
    BY <1>1, Basics DEF Flowing, InsertPointFollowsBody
  <1>7. FlowLeaves(Depth, Body, {})
    BY <1>1, <1>2, <1>3, <1>4, <1>5, <1>6 DEF FlowLeaves
  <1>. QED  BY <1>7, FlowLeave

LEMMA ArrayLoopEndFlow ==
  ASSUME FlowInv, Inv', ArrayLoopEnd
  PROVE  FlowInv'
PROOF
  <1> DEFINE after == Top.after
             out == {<<Body, Top.cond>>}
  <1>1. /\ status = "run" /\ status' = "run" /\ phis' = phis /\ Top.fn = "arrayLoop"
        /\ Pop /\ edges' = edges \cup out /\ bbs' = bbs /\ owner' = owner
        /\ blocks' = WithBody(after) /\ ip' = after
    BY AtGuards, Added DEF ArrayLoopEnd, ArrayLoopIp, NoCreate
  <1>2. Grows
    BY <1>1, NoCreateGrows
  <1>3. "arrayLoopAfter" \in BodyKinds /\ "arrayLoop" \notin Opening
    BY DEF BodyKinds, Kinds, Opening, StmtCalls
  <1>4. /\ Located(bbs', owner', Top.cond, {"arrayLoopCond"}, Here)
        /\ Located(bbs', owner', after, BodyKinds, Around)
    <2>1. Locals(Top, bbs, owner, Here, Around) /\ Around = Here
      BY <1>1, FlowFacts
    <2>2. {"arrayLoopAfter"} \subseteq BodyKinds
      BY <1>3
    <2>. QED  BY <1>1, <1>2, <2>1, <2>2, Kept DEF Locals
  <1>5. after \in Nat
    BY <1>1, Calling
  <1>6. /\ Len(blocks') = Depth /\ blocks'[Depth].body = after
        /\ SameDeque(blocks, blocks', Depth)
    BY <1>1, <1>5, WithBodySame
  <1>7. GoodEdge(bbs', owner', <<Body, Top.cond>>) /\ bbs'[Top.cond].kind # "logicAfter"
    <2>1. Located(bbs', owner', Top.cond, {"arrayLoopCond"}, Here)
      BY <1>4
    <2>2. "arrayLoopCond" \notin {"globalBlockEnd", "repeatCond", "logicAfter"}
      OBVIOUS
    <2>. QED  BY <1>1, <1>2, <2>1, <2>2, FromBody
  <1>8. \A e \in out : GoodEdge(bbs', owner', e) /\ bbs'[e[2]].kind # "logicAfter"
    BY <1>7
  <1> HIDE DEF after, out
  <1>9. FlowLeaves(Depth, after, out)
    BY <1>1, <1>2, <1>3, <1>4, <1>6, <1>8 DEF FlowLeaves
  <1>. QED  BY <1>9, FlowLeave

LEMMA FuncEndFlow ==
  ASSUME FlowInv, Inv', FuncEnd
  PROVE  FlowInv'
PROOF
  <1> DEFINE b == blocks[Depth - 1].body
             end == Back.end
             out == {<<Body, end>>}
  <1>1. /\ status = "run" /\ status' = "run" /\ phis' = phis /\ Top.fn = "func"
        /\ Pop /\ edges' = edges \cup out /\ bbs' = bbs /\ owner' = owner
        /\ blocks' = Front(blocks)
    BY AtGuards, Added DEF FuncEnd, NoCreate
  <1>2. Grows
    BY <1>1, NoCreateGrows
  <1>3. "func" \in Opening
    BY DEF Opening, StmtCalls
  <1>4. Pushed(Top, Back, blocks[Depth - 1], bbs, owner, Here, Around)
    BY <1>1, <1>3, FlowFacts
  <1>5. /\ Located(bbs', owner', b, BodyKinds, Around)
        /\ Located(bbs', owner', end, {"funcBlockEnd"}, Here)
    BY <1>1, <1>2, <1>4, Kept DEF Pushed
  <1>6. Depth >= 2
    BY <1>1, <1>3, Calling
  <1>7. /\ Len(blocks') = Depth - 1 /\ blocks'[Depth - 1].body = b
        /\ SameDeque(blocks, blocks', Depth - 1)
    BY <1>1, <1>6, FrontSame
  <1>8. GoodEdge(bbs', owner', <<Body, end>>) /\ bbs'[end].kind # "logicAfter"
    <2>1. Located(bbs', owner', end, {"funcBlockEnd"}, Here)
      BY <1>5
    <2>2. "funcBlockEnd" \notin {"globalBlockEnd", "repeatCond", "logicAfter"}
      OBVIOUS
    <2> HIDE DEF end, b, out
    <2>. QED  BY <1>1, <1>2, <2>1, <2>2, FromBody
  <1>9. \A e \in out : GoodEdge(bbs', owner', e) /\ bbs'[e[2]].kind # "logicAfter"
    BY <1>8
  <1>10. Top.fn \notin SubExprCalls
    BY <1>1 DEF SubExprCalls
  <1> HIDE DEF b, end, out
  <1>11. FlowLeaves(Depth - 1, b, out)
    BY <1>1, <1>2, <1>3, <1>5, <1>7, <1>9, <1>10 DEF FlowLeaves
  <1>. QED  BY <1>11, FlowLeave

-----------------------------------------------------------------------------
(* Functions that go on with other local variables. *)

\* blocks.pop_back(); blocks.push_back(x).
LEMMA SwapSame ==
  ASSUME FlowInv, status = "run", Depth >= 2, NEW x \in BlockType
  PROVE  /\ Len(Append(Front(blocks), x)) = Depth
         /\ Append(Front(blocks), x)[Depth] = x
         /\ SameDeque(blocks, Append(Front(blocks), x), Depth - 1)
PROOF
  <1> DEFINE bl == Front(blocks)
  <1>0. blocks \in Seq(BlockType) /\ Depth = Len(blocks) /\ Depth \in Nat \ {0}
    BY Basics
  <1>1. /\ bl \in Seq(BlockType) /\ Len(bl) = Depth - 1
        /\ \A i \in 1..(Depth - 1) : bl[i] = blocks[i]
    BY <1>0, FrontFacts
  <1> HIDE DEF bl
  <1>2. /\ Len(Append(bl, x)) = Depth /\ Append(bl, x)[Depth] = x
        /\ \A i \in 1..(Depth - 1) : Append(bl, x)[i] = blocks[i]
    BY <1>0, <1>1, AppendFacts
  <1>3. SameDeque(blocks, Append(bl, x), Depth - 1)
    BY <1>0, <1>2 DEF SameDeque
  <1>. QED  BY <1>2, <1>3 DEF bl

LEMMA IfBranchFlow ==
  ASSUME FlowInv, Inv', IfThen \/ ElseThen
  PROVE  FlowInv'
PROOF
  <1> DEFINE head == NumBBs + 1
             end == NumBBs + 2
             x == CompBlock(head, end)
  <1>1. PICK fn \in {"ifThen", "elseThen"} :
          IfBranch(fn) /\ Returned({"ifCond", "ifNext"})
    BY DEF IfThen, ElseThen, Returned
  <1> DEFINE c == Call(fn, Depth + 1, Top.after, Body, head, 0)
  <1>2. /\ status = "run" /\ status' = "run" /\ phis' = phis
        /\ Top.fn \in {"ifCond", "ifNext"} /\ edges' = edges \cup {}
        /\ Create(<<BB("compBlockEntry"), BB("compBlockEnd")>>, getEnclosingFunc)
        /\ blocks' = Append(blocks, x) /\ Become(c)
    BY <1>1, AtGuards, Added DEF IfBranch
  <1>3. /\ Grows /\ Fresh(head, "compBlockEntry", getEnclosingFunc)
        /\ Fresh(end, "compBlockEnd", getEnclosingFunc)
    BY <1>2, CreateFlow2 DEF Kinds
  <1>4. "compBlockEntry" \in BodyKinds
    BY DEF BodyKinds, Kinds
  <1>5. /\ Located(bbs', owner', head, {"compBlockEntry"}, Here)
        /\ Located(bbs', owner', head, BodyKinds, Here)
        /\ Located(bbs', owner', end, {"compBlockEnd"}, Here)
    BY <1>3, <1>4, FreshHere
  <1>6. Locals(Top, bbs, owner, Here, Around) /\ Around = Here
    BY <1>2, FlowFacts
  <1>7. /\ Located(bbs', owner', Top.after, {"ifAfter"}, Here)
        /\ Located(bbs', owner', Body, BodyKinds, Here)
    BY <1>2, <1>3, <1>6, FlowFacts, Kept DEF Locals
  <1>8. /\ head \in Nat /\ end \in Nat /\ Depth \in Nat /\ Depth + 1 \in Nat
        /\ Body \in Nat /\ Top.after \in Nat
    <2>1. Depth \in Nat /\ NumBBs \in Nat /\ Body \in Nat /\ Top.after \in Nat
      BY <1>2, Calling
    <2>. QED  BY <2>1
  <1>9. x \in BlockType /\ x.body = head /\ x.end = end /\ x.type = "COMP_BLOCK"
    BY <1>8, CompBlockFacts DEF CompBlock, Block
  <1>10. /\ Len(blocks') = Depth + 1 /\ blocks'[Depth + 1] = x
         /\ SameDeque(blocks, blocks', Depth)
    BY <1>2, <1>9, AppendSame
  <1>11. /\ c \in CallType /\ c.fn = fn /\ c.depth = Depth + 1
         /\ c.after = Top.after /\ c.prevBody = Body /\ c.head = head
    BY <1>8 DEF Call, CallType, CallKinds, StmtCalls
  <1>12. /\ Top.fn \notin Opening /\ Top.fn \notin SubExprCalls /\ c.fn \notin SubExprCalls
    BY <1>2, <1>11 DEF Opening, StmtCalls, SubExprCalls
  <1> HIDE DEF head, end, c, x
  <1>13. Locals(c, bbs', owner', Here, Around)
    BY <1>5, <1>7, <1>11 DEF Locals, Repeats
  <1>14. Pushed(c, blocks'[c.depth], blocks'[c.depth - 1], bbs', owner', Here, Around)
    BY <1>5, <1>9, <1>10, <1>11 DEF Pushed
  <1>15. Here = Place(IF c.fn = "repeat" THEN c.cond ELSE Around.loop, Around.func)
    BY <1>6, <1>11, Records
  <1>16. FlowBecomes(c, Here, Depth, head, {})
    BY <1>2, <1>3, <1>5, <1>9, <1>10, <1>11, <1>12, <1>13, <1>14, <1>15 DEF FlowBecomes
  <1>. QED  BY <1>16, FlowBecome

LEMMA IfThenEndFlow ==
  ASSUME FlowInv, Inv', IfThenEnd
  PROVE  FlowInv'
PROOF
  <1> DEFINE elseIf == NumBBs + 1
             after == Top.after
             end == Back.end
             head == Top.head
             prev == Top.prevBody
             c == Call("ifNext", Depth - 1, after, 0, 0, 0)
             out == {<<Body, end>>, <<end, after>>, <<prev, head>>, <<prev, elseIf>>}
  <1>1. /\ status = "run" /\ status' = "run" /\ phis' = phis
        /\ Top.fn = "ifThen" /\ edges' = edges \cup out
        /\ Create(<<BB("ifElseIf")>>, getEnclosingFunc)
        /\ blocks' = PopTo(elseIf) /\ Become(c)
    BY AtGuards, Added DEF IfThenEnd
  <1>2. Grows /\ Fresh(elseIf, "ifElseIf", getEnclosingFunc)
    BY <1>1, CreateFlow1 DEF Kinds
  <1>3. "ifElseIf" \in BodyKinds /\ "ifThen" \in Opening /\ "globalBlockEnd" \notin BodyKinds
    BY DEF BodyKinds, Kinds, Opening, StmtCalls
  <1>4. /\ Located(bbs', owner', elseIf, {"ifElseIf"}, Here)
        /\ Located(bbs', owner', elseIf, BodyKinds, Here)
    BY <1>2, <1>3, FreshHere
  <1>5. Locals(Top, bbs, owner, Here, Around) /\ Around = Here
    BY <1>1, FlowFacts
  <1>6. /\ Located(bbs', owner', after, {"ifAfter"}, Here)
        /\ Located(bbs', owner', head, {"compBlockEntry"}, Here)
        /\ Located(bbs', owner', prev, BodyKinds, Here)
    BY <1>1, <1>2, <1>5, Kept DEF Locals
  <1>7. Located(bbs', owner', end, {"compBlockEnd"}, Here)
    BY <1>1, <1>2, <1>3, FlowFacts, Kept DEF Pushed
  <1>8. /\ Depth >= 2 /\ elseIf \in Nat /\ Depth - 1 \in Nat /\ after \in Nat
    BY <1>1, <1>3, Calling
  <1>9. /\ Len(blocks') = Depth - 1 /\ blocks'[Depth - 1].body = elseIf
        /\ SameDeque(blocks, blocks', Depth - 1)
    BY <1>1, <1>8, PopToSame
  <1>10. c \in CallType /\ c.fn = "ifNext" /\ c.after = after
    BY <1>8 DEF Call, CallType, CallKinds
  <1>11. /\ Top.fn \notin SubExprCalls /\ c.fn \notin SubExprCalls /\ c.fn \notin Opening
    BY <1>1, <1>10 DEF SubExprCalls, Opening, StmtCalls
  <1>12. GoodEdge(bbs', owner', <<Body, end>>) /\ bbs'[end].kind # "logicAfter"
    BY <1>1, <1>2, <1>7, FromBody
  <1> HIDE DEF c, elseIf, after, end, head, prev
  <1>13. /\ GoodEdge(bbs', owner', <<end, after>>) /\ bbs'[after].kind # "logicAfter"
    BY <1>6, <1>7, Branch
  <1>14. /\ GoodEdge(bbs', owner', <<prev, head>>) /\ bbs'[head].kind # "logicAfter"
    BY <1>3, <1>6, Branch
  <1>15. /\ GoodEdge(bbs', owner', <<prev, elseIf>>) /\ bbs'[elseIf].kind # "logicAfter"
    BY <1>3, <1>4, <1>6, Branch
  <1>16. \A e \in out : GoodEdge(bbs', owner', e) /\ bbs'[e[2]].kind # "logicAfter"
    BY <1>12, <1>13, <1>14, <1>15
  <1> HIDE DEF out
  <1>17. Locals(c, bbs', owner', Here, Around)
    BY <1>6, <1>10 DEF Locals, Repeats
  <1>18. Here = Place(IF c.fn = "repeat" THEN c.cond ELSE Around.loop, Around.func)
    BY <1>5, <1>10, Records
  <1>19. FlowBecomes(c, Here, Depth - 1, elseIf, out)
    BY <1>1, <1>2, <1>3, <1>4, <1>9, <1>10, <1>11, <1>16, <1>17, <1>18 DEF FlowBecomes
  <1>. QED  BY <1>19, FlowBecome

LEMMA ElseIfFlow ==
  ASSUME FlowInv, Inv', ElseIf
  PROVE  FlowInv'
PROOF
  <1> DEFINE c == Call("ifCond", Depth, Top.after, 0, 0, 0)
  <1>1. /\ status = "run" /\ status' = "run" /\ phis' = phis
        /\ Top.fn = "ifNext" /\ Become(c) /\ blocks' = blocks
        /\ edges' = edges /\ bbs' = bbs /\ owner' = owner
    BY DEF ElseIf, module
  <1>2. Grows
    BY <1>1, NoCreateGrows
  <1>3. Locals(Top, bbs, owner, Here, Around) /\ Around = Here
    BY <1>1, FlowFacts
  <1>4. /\ Located(bbs', owner', Top.after, {"ifAfter"}, Here)
        /\ Located(bbs', owner', Body, BodyKinds, Here)
    BY <1>1, <1>2, <1>3, FlowFacts, Kept DEF Locals
  <1>5. Depth \in Nat /\ Top.after \in Nat
    BY <1>1, Calling
  <1>6. c \in CallType /\ c.fn = "ifCond" /\ c.after = Top.after
    BY <1>5 DEF Call, CallType, CallKinds, ExprCalls
  <1>7. /\ Top.fn \notin Opening /\ c.fn \notin Opening
        /\ Top.fn \notin SubExprCalls /\ c.fn \notin SubExprCalls
    BY <1>1, <1>6 DEF Opening, StmtCalls, SubExprCalls
  <1>8. SameDeque(blocks, blocks', Depth) /\ blocks'[Len(blocks')].body = Body
    BY <1>1, SameSame, Basics
  <1> HIDE DEF c
  <1>9. Locals(c, bbs', owner', Here, Around)
    BY <1>4, <1>6 DEF Locals, Repeats
  <1>10. Here = Place(IF c.fn = "repeat" THEN c.cond ELSE Around.loop, Around.func)
    BY <1>3, <1>6, Records
  <1>11. FlowBecomes(c, Here, Depth, Body, {})
    BY <1>1, <1>2, <1>4, <1>6, <1>7, <1>8, <1>9, <1>10 DEF FlowBecomes
  <1>. QED  BY <1>11, FlowBecome

\* The header of a repeat: the only way in, and the way on when it has ended.
LEMMA RepeatBodyFlow ==
  ASSUME FlowInv, Inv', RepeatBody
  PROVE  FlowInv'
PROOF
  <1> DEFINE cond == Top.cond
             incr == cond + 1
             entry == cond + 2
             end == cond + 3
             after == Top.after
             exits == IF Top.fn = "repeatCount" THEN {entry, after} ELSE {entry}
             c == Call("repeat", Depth, after, 0, 0, cond)
             x == LoopBlock(entry, end, cond, incr, after)
             out == {<<Body, cond>>, <<incr, cond>>} \cup ({cond} \X exits)
             loop == Place(cond, Around.func)
  <1>1. /\ status = "run" /\ status' = "run" /\ phis' = phis
        /\ Top.fn \in {"repeatCount", "repeatForever"}
        /\ edges' = edges \cup out /\ bbs' = bbs /\ owner' = owner
        /\ blocks' = Append(Front(blocks), x) /\ Become(c)
    BY AtGuards, Added DEF RepeatBody, NoCreate
  <1>2. Grows
    BY <1>1, NoCreateGrows
  <1>3. /\ Top.fn \in Opening /\ Top.fn \in Repeats /\ "repeatBodyEntry" \in BodyKinds
        /\ Top.fn # "unit" /\ "globalBlockEnd" \notin BodyKinds
        /\ "repeatIncr" \notin BodyKinds /\ "repeatCond" \notin BodyKinds
    BY <1>1 DEF Opening, Repeats, BodyKinds, Kinds
  <1>4. Locals(Top, bbs, owner, Here, Around) /\ Around = Here
    BY <1>1, FlowFacts
  <1>5. /\ Located(bbs', owner', after, {"repeatAfter"}, Around)
        /\ Located(bbs', owner', cond, {"repeatCond"}, loop)
        /\ Located(bbs', owner', incr, {"repeatIncr"}, loop)
        /\ Located(bbs', owner', cond - 1, {"repeatInit"}, Around)
        /\ Located(bbs', owner', entry, {"repeatBodyEntry"}, loop)
        /\ Located(bbs', owner', end, {"repeatBodyEnd"}, loop)
        /\ Located(bbs', owner', Body, BodyKinds, Around)
    <2>1. /\ Located(bbs, owner, after, {"repeatAfter"}, Around)
          /\ Located(bbs, owner, cond, {"repeatCond"}, loop)
          /\ Located(bbs, owner, incr, {"repeatIncr"}, loop)
          /\ Located(bbs, owner, cond - 1, {"repeatInit"}, Around)
          /\ Located(bbs, owner, entry, {"repeatBodyEntry"}, loop)
          /\ Located(bbs, owner, end, {"repeatBodyEnd"}, loop)
      BY <1>1, <1>3, <1>4 DEF Locals
    <2>2. Located(bbs, owner, Body, BodyKinds, Around)
      BY <1>1, <1>4, FlowFacts
    <2> HIDE DEF cond, incr, entry, end, after, loop
    <2>. QED  BY <1>1, <2>1, <2>2
  <1>6. Located(bbs', owner', entry, BodyKinds, loop)
    BY <1>3, <1>5 DEF Located
  <1>7. /\ Depth >= 2 /\ Depth \in Nat /\ after \in Nat /\ cond \in Nat
        /\ incr \in Nat /\ entry \in Nat /\ end \in Nat
    <2>1. /\ Depth \in Nat /\ after \in Nat /\ cond \in Nat
          /\ Top.fn \in Opening /\ Top.fn # "unit" => Depth >= 2
      BY <1>1, Calling
    <2>2. Depth >= 2
      BY <1>1, <1>3, <2>1
    <2>. QED  BY <2>1, <2>2
  <1>8. /\ x \in BlockType /\ x.body = entry /\ x.end = end /\ x.type = "LOOP_BLOCK"
        /\ x.continue_ = incr /\ x.break_ = after
    BY <1>7 DEF LoopBlock, Block, BlockType, InnerBlockType
  <1>9. /\ Len(blocks') = Depth /\ blocks'[Depth] = x
        /\ SameDeque(blocks, blocks', Depth - 1)
    BY <1>1, <1>7, <1>8, SwapSame
  <1>10. /\ c \in CallType /\ c.fn = "repeat" /\ c.depth = Depth
         /\ c.after = after /\ c.cond = cond
    BY <1>7 DEF Call, CallType, CallKinds, StmtCalls
  <1>11. Top.fn \notin SubExprCalls /\ c.fn \notin SubExprCalls
    BY <1>1, <1>10 DEF SubExprCalls
  <1>12. c.cond + 1 = incr /\ c.cond - 1 = cond - 1 /\ incr = cond + 1
    BY <1>10
  <1>13. loop.loop = cond /\ loop.func = Around.func
    BY Records
  <1>14. Around.loop # cond
    <2>1. /\ cond - 1 \in 1..Len(bbs') /\ bbs'[cond - 1].loop = Around.loop
      BY <1>5 DEF Located
    <2>2. bbs'[cond - 1].loop <= cond - 1
      BY <1>2, <2>1 DEF Grows, BBs, NumBBs
    <2>3. Around.loop \in Nat
      BY <1>1, <1>4, LoopBound, Records
    <2> HIDE DEF cond
    <2>. QED  BY <1>7, <2>1, <2>2, <2>3
  <1>15. loop = Place(IF c.fn = "repeat" THEN c.cond ELSE Around.loop, Around.func)
    BY <1>10
  <1> HIDE DEF cond, incr, entry, end, after, c, x, loop
  <1>16. GoodEdge(bbs', owner', <<Body, cond>>)
    <2>1. /\ Body \in 1..Len(bbs') /\ cond \in 1..Len(bbs')
          /\ owner'[Body] = owner'[cond]
          /\ bbs'[Body].kind \notin {"globalBlockEnd", "repeatIncr"}
          /\ bbs'[cond].kind = "repeatCond"
          /\ bbs'[Body].loop = Around.loop /\ bbs'[cond].loop = cond
      BY <1>3, <1>5, <1>13 DEF Located
    <2>2. cond - 1 \in 1..Len(bbs') /\ bbs'[cond - 1].loop = Around.loop
      BY <1>5 DEF Located
    <2>. QED  BY <1>14, <2>1, <2>2 DEF GoodEdge
  <1>17. GoodEdge(bbs', owner', <<incr, cond>>)
    BY <1>5 DEF Located, GoodEdge
  <1>18. GoodEdge(bbs', owner', <<cond, entry>>) /\ bbs'[entry].kind # "logicAfter"
    BY <1>5, Branch
  <1>19. GoodEdge(bbs', owner', <<cond, after>>)
    <2>1. /\ after \in 1..Len(bbs') /\ cond \in 1..Len(bbs')
          /\ owner'[after] = owner'[cond]
          /\ bbs'[after].kind = "repeatAfter" /\ bbs'[cond].kind = "repeatCond"
          /\ bbs'[after].loop = Around.loop /\ bbs'[cond].loop = cond
      BY <1>5, <1>13 DEF Located
    <2>2. cond - 1 \in 1..Len(bbs') /\ bbs'[cond - 1].loop = Around.loop
      BY <1>5 DEF Located
    <2>. QED  BY <2>1, <2>2 DEF GoodEdge
  <1>20. bbs'[cond].kind # "logicAfter" /\ bbs'[after].kind # "logicAfter"
    BY <1>5 DEF Located
  <1>21. \A e \in out : GoodEdge(bbs', owner', e) /\ bbs'[e[2]].kind # "logicAfter"
    <2>1. \A e \in out : e \in {<<Body, cond>>, <<incr, cond>>, <<cond, entry>>, <<cond, after>>}
      OBVIOUS
    <2> HIDE DEF out
    <2>. QED  BY <1>16, <1>17, <1>18, <1>19, <1>20, <2>1
  <1> HIDE DEF out, exits
  <1>22. Locals(c, bbs', owner', loop, Around)
    <2>1. Place(c.cond, Around.func) = loop
      BY <1>10, <1>15
    <2>. QED  BY <1>5, <1>10, <1>12, <2>1 DEF Locals, Repeats
  <1>23. Pushed(c, blocks'[c.depth], blocks'[c.depth - 1], bbs', owner', loop, Around)
    BY <1>5, <1>8, <1>9, <1>10, <1>12 DEF Pushed
  <1>24. FlowBecomes(c, loop, Depth - 1, entry, out)
    BY <1>1, <1>2, <1>3, <1>6, <1>8, <1>9, <1>10, <1>11, <1>15, <1>21, <1>22, <1>23
       DEF FlowBecomes
  <1>. QED  BY <1>24, FlowBecome

-----------------------------------------------------------------------------
(* Logical operators: the only functions that make PHI nodes. *)

\* The blocks that running operators will join in are all different.
LEMMA OthersWait ==
  ASSUME FlowInv, status = "run", Top.fn \in {"logicLhs", "logicRhs"},
         NEW i \in 1..(Len(calls) - 1), calls[i].fn \in {"logicLhs", "logicRhs"}
  PROVE  calls[i].after # Top.after
PROOF
  <1> DEFINE n == Len(calls)
             H == Holdings(calls, blocks)
  <1>1. /\ n \in Nat \ {0} /\ Top = calls[n]
        /\ SharedOut(H, n, blocks[Len(blocks)].body, closed, BBs)
    BY Basics, Facts DEF Connected
  <1>2. i \in 1..n /\ n \in 1..n /\ i # n
    BY <1>1
  <1>3. /\ H[i] = Held(calls[i], blocks) /\ H[n] = Held(calls[n], blocks)
    BY <1>2 DEF Holdings
  <1> HIDE DEF H, n
  <1>4. H[i] \cap H[n] = {}
    BY <1>1, <1>2 DEF SharedOut
  <1>5. calls[i].after \in H[i] /\ Top.after \in H[n]
    BY <1>1, <1>3, HeldBy
  <1>. QED  BY <1>4, <1>5

\* What one more edge is to the predecessors of the blocks.
Adds(es, a, b, all) == all = es \cup {<<a, b>>}

Gains(es, a, b, all) ==
  /\ Preds(all, b) = Preds(es, b) \cup {a}
  /\ \A x : x # b => Preds(all, x) = Preds(es, x)

LEMMA PredsOf ==
  ASSUME NEW es, NEW a, NEW b, NEW all, Adds(es, a, b, all)
  PROVE  Gains(es, a, b, all)
PROOF
  <1>1. <<a, b>>[1] = a /\ <<a, b>>[2] = b
    OBVIOUS
  <1>. QED  BY <1>1 DEF Preds, Adds, Gains

LEMMA LogicRhsFlow ==
  ASSUME FlowInv, Inv', LogicRhs
  PROVE  FlowInv'
PROOF
  <1> DEFINE head == Top.head
             after == Top.after
             n == Len(calls)
             c == Call("logicRhs", Depth, after, Body, head, 0)
             out == {<<Body, head>>, <<Body, after>>}
  <1>1. /\ status = "run" /\ status' = "run" /\ phis' = phis
        /\ Top.fn = "logicLhs" /\ edges' = edges \cup out
        /\ bbs' = bbs /\ owner' = owner
        /\ blocks' = WithBody(head) /\ Become(c)
    BY AtGuards, Added DEF LogicRhs, NoCreate
  <1>2. Grows
    BY <1>1, NoCreateGrows
  <1>3. Locals(Top, bbs, owner, Here, Around) /\ Around = Here
    BY <1>1, FlowFacts
  <1>4. "logicRhs" \in BodyKinds /\ "globalBlockEnd" \notin BodyKinds
    BY DEF BodyKinds, Kinds
  <1>5. /\ Located(bbs', owner', after, {"logicAfter"}, Here)
        /\ Located(bbs', owner', head, {"logicRhs"}, Here)
        /\ Located(bbs', owner', head, BodyKinds, Here)
        /\ Located(bbs', owner', Body, BodyKinds, Here)
    BY <1>1, <1>2, <1>3, <1>4, FlowFacts, Kept DEF Locals
  <1>6. /\ Depth \in Nat /\ after \in Nat /\ head \in Nat /\ Body \in Nat
        /\ n \in Nat \ {0} /\ n \in 1..n /\ calls \in Seq(CallType) /\ Top = calls[n]
    BY <1>1, Calling, Basics
  <1>7. /\ c \in CallType /\ c.fn = "logicRhs" /\ c.after = after /\ c.prevBody = Body
    BY <1>6 DEF Call, CallType, CallKinds, ExprCalls
  <1>8. /\ Len(blocks') = Depth /\ blocks'[Depth].body = head
        /\ SameDeque(blocks, blocks', Depth)
    BY <1>1, <1>6, WithBodySame
  <1>9. /\ Top.fn \notin Opening /\ Top.fn \in SubExprCalls
        /\ c.fn \in SubExprCalls /\ c.fn \notin Opening
    BY <1>1, <1>7 DEF Opening, StmtCalls, SubExprCalls
  <1> HIDE DEF c, head, after
  <1>10. GoodEdge(bbs', owner', <<Body, head>>) /\ GoodEdge(bbs', owner', <<Body, after>>)
    <2>1. /\ "logicRhs" \notin {"globalBlockEnd", "repeatCond"}
          /\ "logicAfter" \notin {"globalBlockEnd", "repeatCond"}
      OBVIOUS
    <2>2. GoodEdge(bbs', owner', <<Body, head>>)
      BY <1>4, <1>5, <2>1, PlainEdge, Zenon
    <2>3. GoodEdge(bbs', owner', <<Body, after>>)
      BY <1>4, <1>5, <2>1, PlainEdge, Zenon
    <2>. QED  BY <2>2, <2>3
  <1>11. \A e \in out : GoodEdge(bbs', owner', e)
    BY <1>10
  <1>12. /\ Len(calls') = n /\ calls'[n] = c
         /\ \A i \in 1..(n - 1) : calls'[i] = calls[i]
    <2>1. Len(calls) >= 1
      BY <1>6
    <2>. QED  BY <1>1, <1>6, <1>7, <2>1, BecomeFacts
  <1>13. PhisOK(calls', bbs', edges', phis')
    <2>1. PhisOK(calls, bbs, edges, phis)
      BY <1>1, Basics DEF Flowing
    <2>2. head # after /\ \A b : b \in 1..Len(bbs) /\ bbs[b].kind = "logicAfter" => b # head
      BY <1>1, <1>5 DEF Located
    <2> DEFINE first == edges \cup {<<Body, head>>}
    <2>3. Gains(edges, Body, head, first) /\ Gains(first, Body, after, edges')
      <3>1. Adds(edges, Body, head, first) /\ Adds(first, Body, after, edges')
        BY <1>1 DEF Adds
      <3> HIDE DEF first
      <3>. QED  BY <3>1, PredsOf, Zenon
    <2> HIDE DEF first
    <2>4. \A b : b # head /\ b # after => Preds(edges', b) = Preds(edges, b)
      BY <2>3 DEF Gains
    <2>5. Preds(edges', after) = Preds(edges, after) \cup {Body}
      BY <2>2, <2>3 DEF Gains
    <2>6. Preds(edges, after) = {} /\ \A phi \in phis : phi.at # after
      BY <1>1, <1>6, <2>1 DEF PhisOK, after
    <2>7. \A phi \in phis : /\ phi.at \in 1..Len(bbs) /\ bbs[phi.at].kind = "logicAfter"
                            /\ phi.incoming = Preds(edges', phi.at)
      BY <2>1, <2>2, <2>4, <2>6 DEF PhisOK
    <2>8. ASSUME NEW i \in 1..(n - 1), calls[i].fn \in {"logicLhs", "logicRhs"}
          PROVE  Preds(edges', calls[i].after) = Preds(edges, calls[i].after)
      <3>1. i \in 1..n
        BY <1>6
      <3>2. Settled(calls, blocks, bbs, owner, i)
        BY <1>1, <3>1, Basics DEF Flowing
      <3>3. calls[i].after \in 1..Len(bbs) /\ bbs[calls[i].after].kind = "logicAfter"
        BY <2>8, <3>2 DEF Settled, Locals, Located
      <3>4. calls[i].after # after
        BY <1>1, <2>8, OthersWait DEF after, n
      <3>. QED  BY <2>2, <2>4, <3>3, <3>4
    <2>9. ASSUME NEW i \in 1..n
          PROVE  /\ calls'[i].fn = "logicLhs" => Preds(edges', calls'[i].after) = {}
                 /\ calls'[i].fn = "logicRhs" =>
                      Preds(edges', calls'[i].after) = {calls'[i].prevBody}
                 /\ calls'[i].fn \in {"logicLhs", "logicRhs"} =>
                      \A phi \in phis : phi.at # calls'[i].after
      <3>1. CASE i = n
        BY <1>7, <1>12, <2>5, <2>6, <3>1
      <3>2. CASE i # n
        <4>1. i \in 1..(n - 1)
          BY <1>6, <3>2
        <4>. QED  BY <1>12, <2>1, <2>8, <4>1 DEF PhisOK
      <3>. QED  BY <3>1, <3>2
    <2>. QED  BY <1>1, <1>12, <2>7, <2>9 DEF PhisOK
  <1> HIDE DEF n, out
  <1>14. Locals(c, bbs', owner', Here, Around)
    BY <1>3, <1>5, <1>7 DEF Locals, Repeats
  <1>15. Here = Place(IF c.fn = "repeat" THEN c.cond ELSE Around.loop, Around.func)
    BY <1>3, <1>7, Records
  <1>16. FlowBecomes(c, Here, Depth, head, out)
    BY <1>1, <1>2, <1>5, <1>7, <1>8, <1>9, <1>11, <1>13, <1>14, <1>15 DEF FlowBecomes
  <1>. QED  BY <1>16, FlowBecome

LEMMA LogicEndFlow ==
  ASSUME FlowInv, Inv', LogicEnd
  PROVE  FlowInv'
PROOF
  <1> DEFINE after == Top.after
             prev == Top.prevBody
             n == Len(calls)
             phi0 == [at |-> after, incoming |-> {prev, Body}]
             out == {<<Body, after>>}
  <1>1. /\ status = "run" /\ status' = "run" /\ phis' = phis \cup {phi0}
        /\ Top.fn = "logicRhs" /\ edges' = edges \cup out
        /\ bbs' = bbs /\ owner' = owner
        /\ blocks' = WithBody(after) /\ Pop /\ ip' = after
    BY AtGuards, Added DEF LogicEnd, NoCreate, PhiIncoming
  <1>2. Grows
    BY <1>1, NoCreateGrows
  <1>3. Locals(Top, bbs, owner, Here, Around) /\ Around = Here
    BY <1>1, FlowFacts
  <1>4. "logicAfter" \in BodyKinds /\ "globalBlockEnd" \notin BodyKinds
    BY DEF BodyKinds, Kinds
  <1>5. /\ Located(bbs', owner', after, {"logicAfter"}, Here)
        /\ Located(bbs', owner', after, BodyKinds, Around)
        /\ Located(bbs', owner', Body, BodyKinds, Here)
    BY <1>1, <1>2, <1>3, <1>4, FlowFacts, Kept DEF Locals
  <1>6. /\ Depth \in Nat /\ after \in Nat
        /\ n \in Nat \ {0} /\ n \in 1..n /\ calls \in Seq(CallType) /\ Top = calls[n]
    BY <1>1, Calling, Basics
  <1>7. /\ Len(blocks') = Depth /\ blocks'[Depth].body = after
        /\ SameDeque(blocks, blocks', Depth)
    BY <1>1, <1>6, WithBodySame
  <1>8. Top.fn \notin Opening
    BY <1>1 DEF Opening, StmtCalls
  <1> HIDE DEF after, prev
  <1>9. \A e \in out : GoodEdge(bbs', owner', e)
    <2>1. "logicAfter" \notin {"globalBlockEnd", "repeatCond"}
      OBVIOUS
    <2>2. GoodEdge(bbs', owner', <<Body, after>>)
      BY <1>4, <1>5, <2>1, PlainEdge, Zenon
    <2>. QED  BY <2>2
  <1>10. /\ Len(calls') = n - 1
         /\ \A i \in 1..(n - 1) : calls'[i] = calls[i]
    <2>1. Len(calls) >= 1
      BY <1>6
    <2>. QED  BY <1>1, <1>6, <2>1, PopFacts
  <1>11. PhisOK(calls', bbs', edges', phis')
    <2>1. PhisOK(calls, bbs, edges, phis)
      BY <1>1, Basics DEF Flowing
    <2>0. Gains(edges, Body, after, edges')
      <3>1. Adds(edges, Body, after, edges')
        BY <1>1 DEF Adds
      <3>. QED  BY <3>1, PredsOf, Zenon
    <2>2. \A b : b # after => Preds(edges', b) = Preds(edges, b)
      BY <2>0 DEF Gains
    <2>3. Preds(edges', after) = Preds(edges, after) \cup {Body}
      BY <2>0 DEF Gains
    <2>4. Preds(edges, after) = {prev} /\ \A phi \in phis : phi.at # after
      BY <1>1, <1>6, <2>1 DEF PhisOK, after, prev
    <2>5. /\ phi0.at = after /\ phi0.incoming = Preds(edges', after)
          /\ after \in 1..Len(bbs) /\ bbs[after].kind = "logicAfter"
      BY <1>1, <1>5, <2>3, <2>4 DEF Located
    <2>6. \A phi \in phis' : /\ phi.at \in 1..Len(bbs) /\ bbs[phi.at].kind = "logicAfter"
                             /\ phi.incoming = Preds(edges', phi.at)
      <3> HIDE DEF phi0
      <3>. QED  BY <1>1, <2>1, <2>2, <2>4, <2>5 DEF PhisOK
    <2>7. ASSUME NEW i \in 1..(n - 1)
          PROVE  /\ calls'[i].fn = "logicLhs" => Preds(edges', calls'[i].after) = {}
                 /\ calls'[i].fn = "logicRhs" =>
                      Preds(edges', calls'[i].after) = {calls'[i].prevBody}
                 /\ calls'[i].fn \in {"logicLhs", "logicRhs"} =>
                      \A phi \in phis' : phi.at # calls'[i].after
      <3>1. i \in 1..n /\ calls'[i] = calls[i]
        BY <1>6, <1>10
      <3>2. calls[i].fn \in {"logicLhs", "logicRhs"} => calls[i].after # after
        BY <1>1, OthersWait DEF after, n
      <3> HIDE DEF phi0
      <3>. QED  BY <1>1, <2>1, <2>2, <2>5, <3>1, <3>2 DEF PhisOK
    <2>. QED  BY <1>1, <1>10, <2>6, <2>7 DEF PhisOK
  <1> HIDE DEF n, out, phi0
  <1>12. FlowLeaves(Depth, after, out)
    BY <1>1, <1>2, <1>5, <1>7, <1>8, <1>9, <1>11 DEF FlowLeaves
  <1>. QED  BY <1>12, FlowLeave

-----------------------------------------------------------------------------
(* Labels, the end of the program, and assertions. *)

\* A label moves the end block of the transfer unit to another function; no
\* branch goes there yet.
LEMMA LabelStmtFlow ==
  ASSUME FlowInv, Inv', LabelStmt
  PROVE  FlowInv'
PROOF
  <1> DEFINE n == NumBBs
             entry == NumBBs + 1
             end == Back.end
             x == BB("labelEntry")
  <1>1. /\ status = "run" /\ status' = "run" /\ Top.fn = "unit" /\ Inv
        /\ calls' = calls /\ phis' = phis
    BY DEF LabelStmt, FlowInv
  <1>2. PICK l \in Labels :
          /\ bbs' = Append(bbs, x)
          /\ owner' = [b \in 1..(n + 1) |-> CASE b = entry -> l
                                              [] b = end   -> l
                                              [] OTHER     -> owner[b]]
          /\ blocks' = [blocks EXCEPT ![1].func = l, ![1].body = entry]
          /\ edges' = edges
    <2>1. PICK l \in Labels \ defined :
            /\ bbs' = Append(bbs, BB("labelEntry"))
            /\ owner' = [b \in 1..(NumBBs + 1) |-> CASE b = NumBBs + 1 -> l
                                                   [] b = Back.end   -> l
                                                   [] OTHER          -> owner[b]]
            /\ blocks' = [blocks EXCEPT ![1].func = l, ![1].body = NumBBs + 1]
            /\ edges' = edges \cup {}
      BY Zenon DEF LabelStmt, Terminate, EndOwner
    <2>2. edges' = edges
      BY <2>1
    <2>. QED  BY <2>1, <2>2, Zenon
  <1>3. /\ Len(calls) = 1 /\ Depth = 1 /\ Len(blocks) = 1 /\ calls[1] = Top
        /\ Top.depth = 1 /\ Back = blocks[1]
        /\ n \in Nat /\ n = Len(bbs) /\ bbs \in Seq(BBType) /\ Flowing
    BY <1>1, AtUnit, Basics DEF Inv, TypeOK, BBType
  <1>4. LoopAt(calls, 1) = 0
    <2>1. {j \in 1..1 : calls[j].fn = "repeat"} = {}
      BY <1>1, <1>3
    <2>. QED  BY <2>1 DEF LoopAt
  <1>5. x.kind = "labelEntry" /\ x.loop = 0 /\ x \in BBType
    <2>1. LexicalLoop = 0
      BY <1>1, <1>3, <1>4, LexicalLoopIs, Facts
    <2>. QED  BY <2>1 DEF BB, LoopBB, BBType, Kinds
  <1> HIDE DEF x
  <1>6. /\ Len(bbs') = n + 1 /\ bbs'[entry] = x
        /\ \A b \in 1..n : bbs'[b] = bbs[b]
    BY <1>2, <1>3, <1>5, AppendFacts
  <1>7. /\ Located(bbs, owner, end, {"globalBlockEnd"}, Here)
        /\ Here.loop = 0 /\ blocks[1].type = "GLOBAL_BLOCK"
    <2>1. Pushed(Top, Back, blocks[Depth - 1], bbs, owner, Here, Here)
      BY <1>1, FlowFacts
    <2>2. Here.loop = 0
      BY <1>1, <1>3, <1>4, FlowFacts DEF PlaceAt, Place
    <2>. QED  BY <1>1, <1>3, <2>1, <2>2 DEF Pushed
  <1>8. /\ end \in 1..n /\ bbs[end].kind = "globalBlockEnd" /\ bbs[end].loop = 0
        /\ end # entry
    BY <1>3, <1>7 DEF Located
  <1>9. /\ Len(blocks') = 1 /\ blocks'[1].func = l /\ blocks'[1].body = entry
        /\ blocks'[1].type = "GLOBAL_BLOCK" /\ blocks'[1].end = end
    <2> DEFINE y == [blocks[1] EXCEPT !.func = l, !.body = entry]
    <2>1. blocks \in Seq(BlockType) /\ blocks[1] \in BlockType /\ 1 \in 1..Len(blocks)
      BY <1>1, <1>3, Facts
    <2>2. blocks[1] \in FuncBlockType
      BY <1>7, <2>1 DEF BlockType, FuncBlockType, InnerBlockType
    <2>3. /\ y.func = l /\ y.body = entry /\ y.type = blocks[1].type
          /\ y.end = blocks[1].end
      BY <2>2 DEF FuncBlockType
    <2>4. blocks' = [blocks EXCEPT ![1] = y]
      BY <1>2
    <2> HIDE DEF y
    <2>5. Len(blocks') = Len(blocks) /\ blocks'[1] = y
      BY <2>1, <2>4
    <2>. QED  BY <1>3, <1>7, <2>3, <2>5
  <1>10. /\ owner'[entry] = l /\ owner'[end] = l
         /\ \A b \in 1..n : b # end => owner'[b] = owner[b]
    <2>1. entry \in 1..(n + 1) /\ end \in 1..(n + 1)
      BY <1>3, <1>8
    <2>2. \A b \in 1..n : b \in 1..(n + 1) /\ b # entry
      BY <1>3
    <2> HIDE DEF n, entry, end
    <2>. QED  BY <1>2, <1>8, <2>1, <2>2
  <1>11. PlaceAt(calls', blocks', 1) = Place(0, l)
    BY <1>1, <1>4, <1>9 DEF PlaceAt, FuncAt
  <1>12. /\ "unit" \in Opening /\ "labelEntry" \in BodyKinds
    BY DEF Opening, StmtCalls, BodyKinds, Kinds
  <1>13. /\ Located(bbs', owner', entry, BodyKinds, Place(0, l))
         /\ Located(bbs', owner', end, {"globalBlockEnd"}, Place(0, l))
    <2>1. entry \in 1..Len(bbs') /\ end \in 1..Len(bbs') /\ bbs'[end] = bbs[end]
      BY <1>3, <1>6, <1>8
    <2>. QED  BY <1>5, <1>6, <1>8, <1>10, <1>12, <2>1 DEF Located, Place
  <1>14. EveryBlockHasItsCall(calls', blocks')
    <2>1. \A d \in 1..1 : d = 1
      OBVIOUS
    <2>2. 1 \in 1..Len(calls')
      BY <1>1, <1>3
    <2>. QED  BY <1>1, <1>3, <1>9, <1>12, <2>1, <2>2 DEF EveryBlockHasItsCall
  <1>15. Settled(calls', blocks', bbs', owner', 1)
    <2>1. Locals(calls'[1], bbs', owner', Place(0, l), Place(0, l))
      BY <1>1, <1>3 DEF Locals, Repeats
    <2>2. Pushed(calls'[1], blocks'[1], blocks'[1 - 1], bbs', owner', Place(0, l), Place(0, l))
      BY <1>1, <1>3, <1>9, <1>13 DEF Pushed
    <2>. QED  BY <1>1, <1>3, <1>11, <2>1, <2>2 DEF Settled
  <1>16. \A b \in 1..(n + 1) : bbs'[b].loop <= b
    <2>1. \A b \in 1..n : bbs[b].loop <= b
      BY <1>3 DEF Flowing, BBs, NumBBs
    <2>2. \A b \in 1..(n + 1) : b \in 1..n \/ b = entry
      BY <1>3
    <2>3. 0 <= entry
      BY <1>3
    <2> HIDE DEF n, entry
    <2>. QED  BY <1>5, <1>6, <2>1, <2>2, <2>3
  <1>17. \A e \in edges' : GoodEdge(bbs', owner', e)
    <2> SUFFICES ASSUME NEW e \in edges PROVE GoodEdge(bbs', owner', e)
      BY <1>2
    <2>1. GoodEdge(bbs, owner, e)
      BY <1>3 DEF Flowing
    <2>2. \A b : b \in 1..Len(bbs) => b \in 1..Len(bbs') /\ bbs'[b] = bbs[b]
      BY <1>3, <1>6
    <2>3. /\ e[1] \in 1..Len(bbs) /\ e[2] \in 1..Len(bbs)
          /\ e[1] # end /\ e[2] # end
      BY <1>8, <2>1 DEF GoodEdge
    <2>4. owner'[e[1]] = owner[e[1]] /\ owner'[e[2]] = owner[e[2]]
      BY <1>3, <1>10, <2>3
    <2>. QED  BY <2>1, <2>2, <2>3, <2>4, Zenon DEF GoodEdge
  <1>18. PhisOK(calls', bbs', edges', phis')
    <2>1. PhisOK(calls, bbs, edges, phis)
      BY <1>3 DEF Flowing
    <2>2. \A b : b \in 1..Len(bbs) => b \in 1..Len(bbs') /\ bbs'[b] = bbs[b]
      BY <1>3, <1>6
    <2>. QED  BY <1>1, <1>2, <2>1, <2>2 DEF PhisOK
  <1>19. Flowing'
    <2>1. Body' = entry /\ Len(calls') = 1 /\ Top' = Top
      BY <1>1, <1>3, <1>9 DEF Body, Back, Last, Top
    <2>2. Located(bbs', owner', Body', BodyKinds, PlaceAt(calls', blocks', Len(calls')))
      BY <1>11, <1>13, <2>1
    <2>3. \A i \in 1..(Len(calls') - 1) : Nests(calls'[i], calls'[i + 1])
      BY <2>1
    <2>4. \A i \in 1..Len(calls') : Settled(calls', blocks', bbs', owner', i)
      BY <1>15, <2>1
    <2>5. BBs' = 1..(n + 1)
      BY <1>6 DEF BBs, NumBBs
    <2>6. InsertPointFollowsBody'
      BY <1>1, <2>1 DEF InsertPointFollowsBody
    <2>. QED  BY <1>14, <1>16, <1>17, <1>18, <2>2, <2>3, <2>4, <2>5, <2>6 DEF Flowing
  <1>. QED
    <2>1. (Flowing => /\ BranchesStayInFunction /\ JumpsReachTheirLoop
                      /\ EveryRoundIsCounted /\ PhisMatchPredecessors)'
      BY GoodFlow, PTL
    <2>. QED  BY <1>19, <2>1 DEF FlowInv

\* The last branch, to the end block of the transfer unit.
LEMMA TransUnitEndFlow ==
  ASSUME FlowInv, Inv', TransUnitEnd
  PROVE  FlowInv'
PROOF
  <1> DEFINE end == Back.end
             e0 == <<Body, end>>
  <1>1. /\ status = "run" /\ status' = "done" /\ Top.fn = "unit"
        /\ bbs' = bbs /\ phis' = phis /\ owner' = owner
        /\ edges' = edges \cup {e0}
    BY DEF TransUnitEnd, Returned, NoCreate, Terminate
  <1>2. /\ Located(bbs, owner, end, {"globalBlockEnd"}, Here)
        /\ Located(bbs, owner, Body, BodyKinds, Here)
    BY <1>1, FlowFacts DEF Pushed
  <1>3. /\ owner[Body] = owner[end] /\ bbs[Body].loop = bbs[end].loop
        /\ bbs[end].kind = "globalBlockEnd" /\ e0[1] = Body /\ e0[2] = end
    BY <1>2 DEF Located
  <1> HIDE DEF end, e0
  <1>4. /\ BranchesStayInFunction /\ JumpsReachTheirLoop
        /\ EveryRoundIsCounted /\ PhisMatchPredecessors /\ Flowing
    BY <1>1 DEF FlowInv
  <1>5. BranchesStayInFunction'
    BY <1>1, <1>3, <1>4 DEF BranchesStayInFunction
  <1>6. JumpsReachTheirLoop'
    <2>1. \A loop : Parent(loop)' = Parent(loop)
      BY <1>1 DEF Parent
    <2>. QED  BY <1>1, <1>3, <1>4, <2>1, Zenon DEF JumpsReachTheirLoop
  <1>7. EveryRoundIsCounted'
    BY <1>1, <1>3, <1>4, Zenon DEF EveryRoundIsCounted
  <1>8. PhisMatchPredecessors'
    <2>1. \A phi \in phis : phi.at # end
      BY <1>3, <1>4 DEF Flowing, PhisOK
    <2>2. \A phi \in phis : {e[1] : e \in {d \in edges' : d[2] = phi.at}}
                              = {e[1] : e \in {d \in edges : d[2] = phi.at}}
      BY <1>1, <1>3, <2>1
    <2>. QED  BY <1>1, <1>4, <2>2 DEF PhisMatchPredecessors
  <1>. QED  BY <1>1, <1>5, <1>6, <1>7, <1>8 DEF FlowInv

\* An assertion stops the compiler with the module as it is.
LEMMA StoppedFlow ==
  ASSUME FlowInv, Inv', UNCHANGED <<blocks, calls, module, ip>>,
         status' = status \/ status' # "run"
  PROVE  FlowInv'
PROOF
  <1>1. /\ bbs' = bbs /\ owner' = owner /\ edges' = edges /\ phis' = phis
        /\ calls' = calls /\ blocks' = blocks /\ ip' = ip
    BY DEF module
  <1>2. /\ BranchesStayInFunction' /\ JumpsReachTheirLoop'
        /\ EveryRoundIsCounted' /\ PhisMatchPredecessors'
    <2>1. /\ BranchesStayInFunction /\ JumpsReachTheirLoop
          /\ EveryRoundIsCounted /\ PhisMatchPredecessors
      BY DEF FlowInv
    <2>2. \A loop : Parent(loop)' = Parent(loop)
      BY <1>1 DEF Parent
    <2>. QED  BY <1>1, <2>1, <2>2 DEF BranchesStayInFunction, JumpsReachTheirLoop,
                 EveryRoundIsCounted, PhisMatchPredecessors
  <1>3. status' = "run" => Flowing'
    <2> SUFFICES ASSUME status' = "run" PROVE Flowing'
      OBVIOUS
    <2>1. Flowing /\ status = "run"
      BY DEF FlowInv
    <2>. QED  BY <1>1, <2>1 DEF Flowing, Body, Back, Last, BBs, NumBBs,
                 InsertPointFollowsBody, Top
  <1>. QED  BY <1>2, <1>3 DEF FlowInv

-----------------------------------------------------------------------------
(* The theorems. *)

LEMMA InitFlow == Init => FlowInv
PROOF
  <1> SUFFICES ASSUME Init PROVE FlowInv
    OBVIOUS
  <1> DEFINE c == Call("unit", 1, 0, 0, 0, 0)
             g == GlobalBlock(1, 2)
  <1>1. /\ Inv /\ status = "run" /\ edges = {} /\ phis = {}
        /\ owner = [b \in 1..2 |-> PeryanMain]
        /\ bbs = <<LoopBB("globalBlockEntry", 0), LoopBB("globalBlockEnd", 0)>>
        /\ calls = <<c>> /\ blocks = <<g>>
    BY InitInv DEF Init
  <1>2. /\ c.fn = "unit" /\ c.depth = 1
        /\ g.type = "GLOBAL_BLOCK" /\ g.func = PeryanMain /\ g.body = 1 /\ g.end = 2
    BY DEF Call, GlobalBlock, Block
  <1> HIDE DEF c, g
  <1>3. /\ Len(calls) = 1 /\ calls[1] = c /\ Len(blocks) = 1 /\ blocks[1] = g
        /\ Len(bbs) = 2 /\ owner[1] = PeryanMain /\ owner[2] = PeryanMain
        /\ bbs[1].kind = "globalBlockEntry" /\ bbs[1].loop = 0
        /\ bbs[2].kind = "globalBlockEnd" /\ bbs[2].loop = 0
    BY <1>1 DEF LoopBB
  <1>4. LoopAt(calls, 1) = 0
    <2>1. {j \in 1..1 : calls[j].fn = "repeat"} = {}
      BY <1>2, <1>3
    <2>. QED  BY <2>1 DEF LoopAt
  <1>5. PlaceAt(calls, blocks, 1) = Place(0, PeryanMain)
    BY <1>2, <1>3, <1>4 DEF PlaceAt, FuncAt
  <1>6. "globalBlockEntry" \in BodyKinds /\ "unit" \in Opening
    BY DEF BodyKinds, Kinds, Opening, StmtCalls
  <1>7. /\ Located(bbs, owner, 1, BodyKinds, Place(0, PeryanMain))
        /\ Located(bbs, owner, 2, {"globalBlockEnd"}, Place(0, PeryanMain))
    BY <1>3, <1>6 DEF Located, Place
  <1>8. Settled(calls, blocks, bbs, owner, 1)
    <2>1. Locals(c, bbs, owner, Place(0, PeryanMain), Place(0, PeryanMain))
      BY <1>2 DEF Locals, Repeats
    <2>2. Pushed(c, g, blocks[1 - 1], bbs, owner, Place(0, PeryanMain), Place(0, PeryanMain))
      BY <1>2, <1>7 DEF Pushed
    <2>. QED  BY <1>2, <1>3, <1>5, <2>1, <2>2 DEF Settled
  <1>9. EveryBlockHasItsCall(calls, blocks)
    <2>1. \A d \in 1..1 : d = 1
      OBVIOUS
    <2>. QED  BY <1>2, <1>3, <1>6, <2>1 DEF EveryBlockHasItsCall
  <1>10. Body = 1 /\ Top.fn = "unit" /\ BBs = 1..2
    BY <1>2, <1>3 DEF Body, Back, Last, Top, BBs, NumBBs
  <1>11. \A b \in 1..2 : bbs[b].loop <= b
    BY <1>3
  <1>12. Flowing
    <2>1. EveryBlockHasItsCall(calls, blocks)
      BY <1>9
    <2>2. \A i \in 1..(Len(calls) - 1) : Nests(calls[i], calls[i + 1])
      BY <1>3
    <2>3. \A i \in 1..Len(calls) : Settled(calls, blocks, bbs, owner, i)
      BY <1>3, <1>8
    <2>4. Located(bbs, owner, Body, BodyKinds, PlaceAt(calls, blocks, Len(calls)))
      BY <1>3, <1>5, <1>7, <1>10
    <2>5. \A b \in BBs : bbs[b].loop <= b
      BY <1>10, <1>11
    <2>6. \A e \in edges : GoodEdge(bbs, owner, e)
      BY <1>1
    <2>7. PhisOK(calls, bbs, edges, phis)
      BY <1>1, <1>2, <1>3 DEF PhisOK
    <2>8. InsertPointFollowsBody
      BY <1>10 DEF InsertPointFollowsBody
    <2>. QED  BY <2>1, <2>2, <2>3, <2>4, <2>5, <2>6, <2>7, <2>8 DEF Flowing
  <1>. QED  BY <1>1, <1>12, GoodFlow DEF FlowInv

LEMMA NextFlow == FlowInv /\ [Next]_vars => FlowInv'
PROOF
  <1> SUFFICES ASSUME FlowInv, [Next]_vars PROVE FlowInv'
    OBVIOUS
  <1>0. Inv'
    BY NextInv DEF FlowInv
  <1>1. CASE generateStmt
    <2>1. CASE CompStmt
      BY <1>0, <2>1, CompStmtFlow
    <2>2. CASE CompEnd
      BY <1>0, <2>2, CompEndFlow
    <2>3. CASE IfStmt
      BY <1>0, <2>3, IfStmtFlow
    <2>4. CASE IfThen \/ ElseThen
      BY <1>0, <2>4, IfBranchFlow
    <2>5. CASE IfThenEnd
      BY <1>0, <2>5, IfThenEndFlow
    <2>6. CASE ElseIf
      BY <1>0, <2>6, ElseIfFlow
    <2>7. CASE ElseThenEnd
      BY <1>0, <2>7, ElseThenEndFlow
    <2>8. CASE NoElse
      BY <1>0, <2>8, NoElseFlow
    <2>9. CASE RepeatStmt
      BY <1>0, <2>9, RepeatStmtFlow
    <2>10. CASE RepeatBody
      BY <1>0, <2>10, RepeatBodyFlow
    <2>11. CASE RepeatEnd
      BY <1>0, <2>11, RepeatEndFlow
    <2>12. CASE ContinueStmt
      BY <1>0, <2>12, ContinueStmtFlow
    <2>13. CASE BreakStmt
      BY <1>0, <2>13, BreakStmtFlow
    <2>14. CASE GlobalReturnStmt \/ GotoStmt
      BY <1>0, <2>14, ReturnJumpFlow
    <2>15. CASE JumpOutsideLoop \/ LabelJumpInFunc \/ LocalLabelStmt
      <3>1. PICK failed \in {"no loop block found", "goto should be global",
                             "func != NULL", "isFunctionalGlobal()"} : Assertion(failed)
        BY <2>15 DEF JumpOutsideLoop, LabelJumpInFunc, LocalLabelStmt
      <3>. QED  BY <1>0, <3>1, StoppedFlow DEF Assertion
    <2>16. CASE FuncReturnValue
      BY <1>0, <2>16, FuncReturnValueFlow
    <2>17. CASE FuncReturnStmt \/ ExprStmt
      BY <1>0, <2>17, ReturnExprFlow
    <2>18. CASE GosubStmt
      BY <1>0, <2>18, StayInBlockFlow
    <2>19. CASE ExprStmtEnd
      BY <1>0, <2>19, ExprEndFlow
    <2>20. CASE LabelStmt
      BY <1>0, <2>20, LabelStmtFlow
    <2>21. CASE FuncDefStmt
      BY <1>0, <2>21, FuncDefStmtFlow
    <2>22. CASE FuncEnd
      BY <1>0, <2>22, FuncEndFlow
    <2>. QED  BY <1>1, <2>1, <2>2, <2>3, <2>4, <2>5, <2>6, <2>7, <2>8, <2>9,
                 <2>10, <2>11, <2>12, <2>13, <2>14, <2>15, <2>16, <2>17,
                 <2>18, <2>19, <2>20, <2>21, <2>22 DEF generateStmt
  <1>2. CASE generateExpr
    <2>1. CASE LogicExpr
      BY <1>0, <2>1, LogicExprFlow
    <2>2. CASE LogicRhs
      BY <1>0, <2>2, LogicRhsFlow
    <2>3. CASE LogicEnd
      BY <1>0, <2>3, LogicEndFlow
    <2>4. CASE ArrayLoop
      BY <1>0, <2>4, ArrayLoopFlow
    <2>5. CASE ArrayLoopEnd
      BY <1>0, <2>5, ArrayLoopEndFlow
    <2>6. CASE Instr
      BY <1>0, <2>6, StayInBlockFlow
    <2>7. CASE InPlaceExpr
      BY <1>0, <2>7, InPlaceExprFlow
    <2>8. CASE InPlaceEnd
      BY <1>0, <2>8, ExprEndFlow
    <2>. QED  BY <1>2, <2>1, <2>2, <2>3, <2>4, <2>5, <2>6, <2>7, <2>8 DEF generateExpr
  <1>3. CASE TransUnitEnd
    BY <1>0, <1>3, TransUnitEndFlow
  <1>4. CASE UNCHANGED vars
    BY <1>0, <1>4, StoppedFlow DEF vars
  <1>. QED  BY <1>1, <1>2, <1>3, <1>4 DEF Next, Stopped

\* The deque of Blocks, the running generate* functions and the basic blocks
\* they hold always agree on the loop and the function everything belongs to.
THEOREM FlowInvariantHolds == Spec => []FlowInv
PROOF
  <1>. QED  BY InitFlow, NextFlow, PTL DEF Spec

\* Whatever the program: no branch leaves its LLVM function, although each
\* label moves the rest of the program, and the block it ends in, to another.
THEOREM NoBranchLeavesItsFunction == Spec => []BranchesStayInFunction
PROOF
  <1>1. FlowInv => BranchesStayInFunction
    BY DEF FlowInv
  <1>. QED  BY <1>1, FlowInvariantHolds, PTL

\* Whatever the nesting of compounds, branches and repeat statements: break and
\* continue act on the innermost repeat, and no other way leads into or out of
\* the body of one but a return.
THEOREM JumpsActOnTheirLoop == Spec => []JumpsReachTheirLoop
PROOF
  <1>1. FlowInv => JumpsReachTheirLoop
    BY DEF FlowInv
  <1>. QED  BY <1>1, FlowInvariantHolds, PTL

\* Whatever the program: inside a loop only repeatIncr leads to repeatCond, so
\* that every round is counted, those that a continue ends included.
THEOREM EveryRoundCounts == Spec => []EveryRoundIsCounted
PROOF
  <1>1. FlowInv => EveryRoundIsCounted
    BY DEF FlowInv
  <1>. QED  BY <1>1, FlowInvariantHolds, PTL

\* Whatever the operands of & and |: the PHI node names the blocks that do
\* branch to it, in the finished module and at every moment before.
THEOREM PhisNameTheirPredecessors == Spec => []PhisMatchPredecessors
PROOF
  <1>1. FlowInv => PhisMatchPredecessors
    BY DEF FlowInv
  <1>. QED  BY <1>1, FlowInvariantHolds, PTL

\* Whatever the operands of a subscript, a member access or a literal: code that
\* set the insertion point before them emits into the current block after them.
THEOREM EmitsWhereTheBodyIs == Spec => []InsertPointFollowsBody
PROOF
  <1>1. FlowInv => InsertPointFollowsBody
    BY DEF FlowInv, Flowing, InsertPointFollowsBody
  <1>. QED  BY <1>1, FlowInvariantHolds, PTL
==============================================================================
