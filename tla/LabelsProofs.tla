---------------------------- MODULE LabelsProofs ----------------------------
(***************************************************************************)
(* The calls and rets of the generated code implement goto, gosub and      *)
(* return, for every program, number of labels and size of the stack.      *)
(***************************************************************************)
EXTENDS Labels, SequenceTheorems, TLAPS

\* The code of a statement, by its kind.
LEMMA Code ==
  ASSUME NEW s \in Stmts
  PROVE  /\ s.op \in {"goto", "gosub", "label", "return", "other"}
         /\ s.op \in {"goto", "label"} => Emitted(s) = <<"call", "ret">>
         /\ s.op = "gosub" => Emitted(s) = <<"call">>
         /\ s.op = "return" => Emitted(s) = <<"ret">>
         /\ s.op = "other" => Emitted(s) = <<"other">>
         /\ s.op \in {"goto", "gosub", "label"} => s.to \in Labels
  BY DEF Stmts, Emitted, JumpCode

\* The addresses of a program: every statement's first one, the ret of a goto or
\* of a label, and the end.
LEMMA AddressIs ==
  ASSUME IsProgram(prog), NEW a \in Addresses
  PROVE  IsAddress(a) <=>
           \/ a[1] \in 1..Len(prog) /\ a[2] = 1
           \/ a[1] \in 1..Len(prog) /\ a[2] = 2 /\ prog[a[1]].op \in {"goto", "label"}
           \/ a = <<Len(prog) + 1, 1>>
<1>1. prog \in Seq(Stmts) /\ DOMAIN prog = 1..Len(prog) /\ Len(prog) \in Nat
  BY DEF IsProgram
<1>0. a = <<a[1], a[2]>> /\ a[1] \in Nat /\ a[2] \in Nat
  BY DEF Addresses
<1>2. ASSUME a[1] \in 1..Len(prog)
      PROVE  a[2] \in DOMAIN Emitted(prog[a[1]]) <=>
               a[2] = 1 \/ (a[2] = 2 /\ prog[a[1]].op \in {"goto", "label"})
  <2>1. prog[a[1]] \in Stmts
    BY <1>1, <1>2
  <2> DEFINE op == prog[a[1]].op
  <2>2. CASE op \in {"goto", "label"}
    <3>1. DOMAIN Emitted(prog[a[1]]) = 1..2
      BY <2>1, <2>2, Code
    <3> QED BY <1>0, <2>2, <3>1
  <2>3. CASE op \in {"gosub", "return", "other"}
    <3>1. DOMAIN Emitted(prog[a[1]]) = {1}
      BY <2>1, <2>3, Code
    <3>2. op \notin {"goto", "label"}
      BY <2>3
    <3> HIDE DEF op
    <3> QED BY <3>1, <3>2 DEF op
  <2> QED BY <2>1, <2>2, <2>3, Code
<1>3. CASE a[1] \in 1..Len(prog)
  <2>1. IsAddress(a) <=>
          a[2] \in DOMAIN Emitted(prog[a[1]]) \/ a = <<Len(prog) + 1, 1>>
    BY <1>1, <1>3 DEF IsAddress
  <2>2. a # <<Len(prog) + 1, 1>>
    BY <1>1, <1>3
  <2>3. a[2] \in DOMAIN Emitted(prog[a[1]]) <=>
          a[2] = 1 \/ (a[2] = 2 /\ prog[a[1]].op \in {"goto", "label"})
    BY <1>2, <1>3
  <2> QED BY ONLY <1>3, <2>1, <2>2, <2>3
<1>4. CASE a[1] \notin 1..Len(prog)
  BY <1>0, <1>1, <1>4 DEF IsAddress
<1> QED BY <1>3, <1>4

\* Whatever the place, a statement or the end may begin there.
LEMMA StatementIsAddress ==
  ASSUME IsProgram(prog), NEW n \in 1..(Len(prog) + 1)
  PROVE  <<n, 1>> \in Addresses /\ IsAddress(<<n, 1>>)
<1>1. Len(prog) \in Nat
  BY DEF IsProgram
<1>2. <<n, 1>> \in Addresses
  BY <1>1 DEF Addresses
<1>3. n \in 1..Len(prog) \/ n = Len(prog) + 1
  BY <1>1
<1> QED BY <1>2, <1>3, AddressIs

\* What follows a label that a statement of the program names, and that what
\* follows the label of a label statement is what follows the statement.
LEMMA Targets ==
  ASSUME IsProgram(prog), NEW i \in 1..Len(prog), prog[i].op \in {"goto", "gosub", "label"}
  PROVE  /\ After(prog, prog[i].to) \in 1..(Len(prog) + 1)
         /\ prog[i].op = "label" => After(prog, prog[i].to) = i + 1
<1>1. prog \in Seq(Stmts) /\ DOMAIN prog = 1..Len(prog) /\ Len(prog) \in Nat
  BY DEF IsProgram
<1>2. \E j \in DOMAIN prog : IsLabel(prog[j], prog[i].to)
  BY <1>1 DEF IsProgram, IsLabel
<1> DEFINE j == CHOOSE j \in DOMAIN prog : IsLabel(prog[j], prog[i].to)
<1>3. j \in DOMAIN prog /\ IsLabel(prog[j], prog[i].to)
  BY <1>2
<1>4. After(prog, prog[i].to) = j + 1
  BY DEF After
<1>5. ASSUME prog[i].op = "label"
      PROVE  i = j
  BY <1>1, <1>3, <1>5 DEF IsProgram
<1> HIDE DEF j
<1> QED BY <1>1, <1>3, <1>4, <1>5

-----------------------------------------------------------------------------
LEMMA InitTypeOK == Init => TypeOK
<1> SUFFICES ASSUME Init PROVE TypeOK
  OBVIOUS
<1>1. IsProgram(prog) /\ Len(prog) \in Nat
  BY ProgramsAssumption DEF Init, IsProgram
<1>2. pc \in Addresses /\ IsAddress(pc)
  BY <1>1, StatementIsAddress DEF Init
<1> QED BY <1>1, <1>2, MaxStackAssumption DEF Init, TypeOK

\* Where a running program is, and what it executes there.
LEMMA Running ==
  ASSUME TypeOK, IsRunning
  PROVE  /\ pc = <<pc[1], pc[2]>> /\ pc[1] \in Nat /\ pc[2] \in Nat
         /\ Len(prog) \in Nat
         /\ \/ /\ pc[1] \in 1..Len(prog) /\ pc[2] = 1
               /\ prog[pc[1]] \in Stmts
               /\ Instr = "call" <=> prog[pc[1]].op \in {"goto", "gosub", "label"}
               /\ Instr = "ret" <=> prog[pc[1]].op = "return"
               /\ Instr = "other" <=> prog[pc[1]].op = "other"
            \/ /\ pc[1] \in 1..Len(prog) /\ pc[2] = 2
               /\ prog[pc[1]].op \in {"goto", "label"} /\ Instr = "ret"
            \/ pc[1] = Len(prog) + 1 /\ pc[2] = 1 /\ Instr = "ret"
<1>1. /\ pc = <<pc[1], pc[2]>> /\ pc[1] \in Nat /\ pc[2] \in Nat
      /\ prog \in Seq(Stmts) /\ Len(prog) \in Nat /\ IsProgram(prog)
  BY DEF TypeOK, IsRunning, Addresses, IsProgram
<1>2. IsAddress(pc)
  BY PlacesAssumption DEF TypeOK, IsRunning, Addresses
<1>3. CASE pc[1] \in 1..Len(prog) /\ pc[2] = 1
  <2>1. prog[pc[1]] \in Stmts
    BY <1>1, <1>3
  <2>2. Instr = Emitted(prog[pc[1]])[1]
    BY <1>1, <1>3 DEF Instr
  <2> QED BY <1>1, <1>3, <2>1, <2>2, Code
<1>4. CASE pc[1] \in 1..Len(prog) /\ pc[2] = 2 /\ prog[pc[1]].op \in {"goto", "label"}
  <2>1. prog[pc[1]] \in Stmts
    BY <1>1, <1>4
  <2>2. Instr = Emitted(prog[pc[1]])[2]
    BY <1>1, <1>4 DEF Instr
  <2> QED BY <1>1, <1>4, <2>1, <2>2, Code
<1>5. CASE pc = <<Len(prog) + 1, 1>>
  BY <1>1, <1>5 DEF Instr
<1> QED BY <1>1, <1>2, <1>3, <1>4, <1>5, AddressIs DEF IsRunning

\* The address behind a statement's first instruction.
LEMMA NextIs ==
  ASSUME TypeOK, IsRunning, pc[1] \in 1..Len(prog), pc[2] = 1
  PROVE  /\ prog[pc[1]].op \in {"goto", "label"} => NextAddress = <<pc[1], 2>>
         /\ prog[pc[1]].op \notin {"goto", "label"} => NextAddress = <<pc[1] + 1, 1>>
         /\ NextAddress \in Addresses /\ IsAddress(NextAddress)
<1>1. prog \in Seq(Stmts) /\ IsProgram(prog) /\ prog[pc[1]] \in Stmts /\ Len(prog) \in Nat
  BY DEF TypeOK, IsProgram
<1>2. CASE prog[pc[1]].op \in {"goto", "label"}
  <2>1. NextAddress = <<pc[1], 2>>
    <3>1. Emitted(prog[pc[1]]) = <<"call", "ret">>
      BY <1>1, <1>2, Code
    <3> QED BY <3>1 DEF NextAddress
  <2>2. <<pc[1], 2>> \in Addresses
    BY DEF Addresses
  <2> QED BY <1>1, <1>2, <2>1, <2>2, AddressIs
<1>3. CASE prog[pc[1]].op \notin {"goto", "label"}
  <2>1. NextAddress = <<pc[1] + 1, 1>>
    <3>1. Len(Emitted(prog[pc[1]])) = 1
      BY <1>1, <1>3, Code
    <3> QED BY <3>1 DEF NextAddress
  <2> QED BY <1>1, <1>3, <2>1, StatementIsAddress
<1> QED BY <1>2, <1>3

\* A call goes to the statement after the label.
LEMMA CallGoesTo ==
  ASSUME TypeOK, IsRunning, Instr = "call"
  PROVE  /\ pc[1] \in 1..Len(prog) /\ pc[2] = 1
         /\ prog[pc[1]].op \in {"goto", "gosub", "label"}
         /\ After(prog, prog[pc[1]].to) \in 1..(Len(prog) + 1)
         /\ prog[pc[1]].op = "label" => After(prog, prog[pc[1]].to) = pc[1] + 1
<1>1. IsProgram(prog)
  BY DEF TypeOK
<1>2. /\ pc[1] \in 1..Len(prog) /\ pc[2] = 1
      /\ prog[pc[1]].op \in {"goto", "gosub", "label"}
  BY Running
<1> QED BY <1>1, <1>2, Targets

\* What a frame less leaves of the stack
LEMMA Popped ==
  ASSUME stack \in Seq(Addresses), stack # <<>>
  PROVE  LET rest == SubSeq(stack, 1, Len(stack) - 1)
         IN  /\ rest \in Seq(Addresses) /\ Len(rest) = Len(stack) - 1
             /\ \A i \in 1..(Len(stack) - 1) : rest[i] = stack[i]
<1>1. Len(stack) \in Nat /\ Len(stack) >= 1
  OBVIOUS
<1>2. \A i \in 1..(Len(stack) - 1) : stack[i] \in Addresses
  BY <1>1
<1> DEFINE rest == SubSeq(stack, 1, Len(stack) - 1)
<1>3. /\ rest \in Seq(Addresses)
      /\ Len(rest) = IF 1 <= Len(stack) - 1 THEN (Len(stack) - 1) - 1 + 1 ELSE 0
      /\ \A i \in 1..((Len(stack) - 1) - 1 + 1) : rest[i] = stack[1 + i - 1]
  BY <1>1, <1>2, SubSeqProperties
<1> HIDE DEF rest
<1>4. /\ rest \in Seq(Addresses) /\ Len(rest) = Len(stack) - 1
      /\ \A i \in 1..(Len(stack) - 1) : rest[i] = stack[i]
  <2>1. (Len(stack) - 1) - 1 + 1 = Len(stack) - 1
    BY <1>1
  <2>2. \A i \in 1..(Len(stack) - 1) : 1 + i - 1 = i
    OBVIOUS
  <2>3. Len(rest) = Len(stack) - 1
    <3>1. CASE Len(stack) = 1
      <4>1. ~(1 <= Len(stack) - 1)
        BY <3>1
      <4> QED BY <1>3, <3>1, <4>1
    <3>2. CASE Len(stack) # 1
      <4>1. 1 <= Len(stack) - 1
        BY ONLY <1>1, <3>2
      <4> QED BY <1>3, <2>1, <4>1
    <3> QED BY <3>1, <3>2
  <2> QED BY ONLY <1>3, <2>1, <2>2, <2>3
<1> QED BY <1>4 DEF rest

\* Addresses remain addresses as long as the program is the same.
LEMMA TypeOKStep == TypeOK /\ [Next]_vars => TypeOK'
<1> SUFFICES ASSUME TypeOK, [Next]_vars PROVE TypeOK'
  OBVIOUS
<1>1. /\ prog' = prog /\ IsProgram(prog) /\ Len(prog) \in Nat
      /\ stack \in Seq(Addresses) /\ Len(stack) \in Nat /\ Len(stack) <= MaxStack
      /\ \A i \in 1..Len(stack) : IsAddress(stack[i])
  BY DEF TypeOK, Next, vars, Call, Ret, Pop, Other, Branch, IsProgram
\* What remains to be shown of a step.
<1> DEFINE GoodPc(p) == p \in {Returning, Done, Overflow} \/ (p \in Addresses /\ IsAddress(p))
           GoodStack(st) == /\ st \in Seq(Addresses)
                            /\ Len(st) <= MaxStack
                            /\ \A i \in 1..Len(st) : IsAddress(st[i])
<1>2. ASSUME GoodPc(pc'), GoodStack(stack')
      PROVE  TypeOK'
  <2>1. IsProgram(prog)'
    BY <1>1
  <2>2. IsAddress(pc)' <=> IsAddress(pc')
    BY <1>1 DEF IsAddress
  <2>3. ASSUME NEW i \in DOMAIN stack'
        PROVE  IsAddress(stack[i])'
    <3>1. IsAddress(stack'[i])
      BY <1>2, <2>3
    <3> QED BY <1>1, <3>1 DEF IsAddress
  <2> QED BY <1>2, <2>1, <2>2, <2>3 DEF TypeOK
<1>3. GoodPc(pc) /\ GoodStack(stack)
  BY <1>1 DEF TypeOK
<1>4. CASE Call
  <2>1. IsRunning /\ Instr = "call"
    BY <1>4 DEF Call
  <2>2. CASE Len(stack) < MaxStack
    <3>1. pc' = <<After(prog, prog[pc[1]].to), 1>> /\ stack' = Append(stack, NextAddress)
      BY <1>4, <2>2 DEF Call, Pushed
    <3>2. GoodPc(pc')
      BY <1>1, <2>1, <3>1, CallGoesTo, StatementIsAddress
    <3>3. NextAddress \in Addresses /\ IsAddress(NextAddress)
      BY <2>1, CallGoesTo, NextIs
    <3>4. GoodStack(stack')
      <4>1. stack' \in Seq(Addresses) /\ Len(stack') = Len(stack) + 1
        BY <1>1, <3>1, <3>3
      <4>2. ASSUME NEW i \in 1..Len(stack')
            PROVE  IsAddress(stack'[i])
        <5>1. CASE i = Len(stack) + 1
          BY <1>1, <3>1, <3>3, <5>1
        <5>2. CASE i \in 1..Len(stack)
          BY <1>1, <3>1, <3>3, <5>2
        <5> QED BY <1>1, <4>1, <5>1, <5>2
      <4> QED BY <1>1, <2>2, <4>1, <4>2, MaxStackAssumption
    <3> QED BY <1>2, <3>2, <3>4
  <2>3. CASE ~(Len(stack) < MaxStack)
    BY <1>2, <1>3, <1>4, <2>3 DEF Call
  <2> QED BY <2>2, <2>3
<1>5. CASE Ret
  BY <1>2, <1>3, <1>5 DEF Ret
<1>6. CASE Pop
  <2>1. CASE stack = <<>>
    BY <1>2, <1>3, <1>6, <2>1 DEF Pop
  <2>2. CASE stack # <<>>
    <3>1. Len(stack) \in 1..Len(stack) /\ Len(stack) - 1 \in Nat
      BY <1>1, <2>2
    <3>2. pc' = stack[Len(stack)] /\ stack' = SubSeq(stack, 1, Len(stack) - 1)
      BY <1>6, <2>2 DEF Pop
    <3>3. GoodPc(pc')
      BY <1>1, <3>1, <3>2
    <3>4. /\ stack' \in Seq(Addresses) /\ Len(stack') = Len(stack) - 1
          /\ \A i \in 1..(Len(stack) - 1) : stack'[i] = stack[i]
      BY <1>1, <2>2, <3>1, <3>2, Popped
    <3>5. GoodStack(stack')
      BY <1>1, <3>4, MaxStackAssumption
    <3> QED BY <1>2, <3>3, <3>5
  <2> QED BY <2>1, <2>2
<1>7. CASE Other
  <2>1. IsRunning /\ Instr = "other" /\ pc' = NextAddress /\ stack' = stack
    BY <1>7 DEF Other
  <2>2. pc[1] \in 1..Len(prog) /\ pc[2] = 1
    BY <2>1, Running
  <2>3. GoodPc(pc')
    BY <2>1, <2>2, NextIs
  <2> QED BY <1>2, <1>3, <2>1, <2>3
<1>8. CASE Branch
  <2>1. pc[1] \in 1..Len(prog) /\ pc' = <<pc[1] + 1, 1>> /\ stack' = stack
    BY <1>1, <1>8 DEF Branch, IsProgram
  <2>2. GoodPc(pc')
    BY <1>1, <2>1, StatementIsAddress
  <2> QED BY <1>2, <1>3, <2>1, <2>2
<1>9. CASE UNCHANGED vars
  BY <1>2, <1>3, <1>9 DEF vars
<1> QED BY <1>4, <1>5, <1>6, <1>7, <1>8, <1>9 DEF Next

\* The program counter is at an instruction of the program or at one of the places
\* that are none, and every frame returns into the program.
THEOREM TypeCorrect == Spec => []TypeOK
<1>1. Init => TypeOK
  BY InitTypeOK
<1>2. TypeOK /\ [Next]_vars => TypeOK'
  BY TypeOKStep
<1> QED BY <1>1, <1>2, PTL DEF Spec

-----------------------------------------------------------------------------
(* The refinement *)

\* Where the places are none of the program's, the statement is the place.
LEMMA StatementOfPlace ==
  ASSUME pc \in {Returning, Done, Overflow}
  PROVE  Statement = pc
  BY PlacesAssumption DEF Statement, IsRunning, Addresses

\* The address of a statement's first instruction stands for the statement.
LEMMA StatementOfAddress ==
  ASSUME NEW n \in Nat, NEW k \in Nat, pc = <<n, k>>
  PROVE  Statement = IF k = 2 THEN Returning ELSE n
  BY DEF Statement, IsRunning, Addresses

\* A frame that returns to a ret is no gosub's; one that returns to a statement is
\* the latest of them.
LEMMA PushedFrame ==
  ASSUME stack \in Seq(Addresses), NEW n \in Nat, NEW k \in {1, 2},
         stack' = Append(stack, <<n, k>>)
  PROVE  Gosubs' = IF k = 2 THEN Gosubs
                   ELSE Gosubs \cup {[at |-> Len(stack) + 1, next |-> n]}
<1>1. /\ Len(stack) \in Nat /\ DOMAIN stack = 1..Len(stack)
      /\ DOMAIN stack' = 1..(Len(stack) + 1)
      /\ stack'[Len(stack) + 1] = <<n, k>>
      /\ \A i \in 1..Len(stack) : stack'[i] = stack[i]
  BY DEF Addresses
<1>2. CASE k = 2
  <2>1. GosubFrames' = GosubFrames
    BY <1>1, <1>2 DEF GosubFrames
  <2>2. \A i \in GosubFrames : stack'[i] = stack[i]
    BY <1>1 DEF GosubFrames
  <2> QED BY <1>2, <2>1, <2>2 DEF Gosubs
<1>3. CASE k = 1
  <2>1. GosubFrames' = GosubFrames \cup {Len(stack) + 1}
    BY <1>1, <1>3 DEF GosubFrames
  <2>2. \A i \in GosubFrames : stack'[i] = stack[i]
    BY <1>1 DEF GosubFrames
  <2>3. stack'[Len(stack) + 1][1] = n
    BY <1>1
  <2>4. Gosubs' = {[at |-> i, next |-> stack'[i][1]] : i \in GosubFrames}
                    \cup {[at |-> Len(stack) + 1, next |-> stack'[Len(stack) + 1][1]]}
    BY <2>1 DEF Gosubs
  <2>5. {[at |-> i, next |-> stack'[i][1]] : i \in GosubFrames} = Gosubs
    BY <2>2 DEF Gosubs
  <2>6. k # 2
    BY <1>3
  <2> QED BY <2>3, <2>4, <2>5, <2>6
<1> QED BY <1>2, <1>3

LEMMA PoppedFrame ==
  ASSUME stack \in Seq(Addresses), stack # <<>>,
         stack' = SubSeq(stack, 1, Len(stack) - 1)
  PROVE  LET last == [at |-> Len(stack), next |-> stack[Len(stack)][1]]
         IN  IF stack[Len(stack)][2] = 1
             THEN last \in Gosubs /\ Gosubs' = Gosubs \ {last}
             ELSE Gosubs' = Gosubs
<1>1. /\ Len(stack) \in Nat /\ Len(stack) >= 1 /\ DOMAIN stack = 1..Len(stack)
      /\ DOMAIN stack' = 1..(Len(stack) - 1)
      /\ \A i \in 1..(Len(stack) - 1) : stack'[i] = stack[i]
  BY Popped
<1>2. GosubFrames' = GosubFrames \ {Len(stack)}
  BY <1>1 DEF GosubFrames
<1>3. \A i \in GosubFrames' : stack'[i] = stack[i]
  BY <1>1, <1>2 DEF GosubFrames
<1>4. CASE stack[Len(stack)][2] = 1
  <2>1. Len(stack) \in GosubFrames
    BY <1>1, <1>4 DEF GosubFrames
  <2>2. Gosubs' = {[at |-> i, next |-> stack[i][1]] : i \in GosubFrames \ {Len(stack)}}
    BY <1>2, <1>3 DEF Gosubs
  <2>3. \A c \in Gosubs : c.at = Len(stack) => c.next = stack[Len(stack)][1]
    BY DEF Gosubs
  <2>4. Gosubs' = {c \in Gosubs : c.at # Len(stack)}
    <3>2. ASSUME NEW c \in Gosubs'
          PROVE  c \in Gosubs /\ c.at # Len(stack)
      <4>1. PICK i \in GosubFrames \ {Len(stack)} : c = [at |-> i, next |-> stack[i][1]]
        BY <2>2, <3>2
      <4> QED BY <4>1 DEF Gosubs
    <3>3. ASSUME NEW c \in Gosubs, c.at # Len(stack)
          PROVE  c \in Gosubs'
      <4>1. PICK i \in GosubFrames : c = [at |-> i, next |-> stack[i][1]]
        BY <3>3 DEF Gosubs
      <4> QED BY <2>2, <3>3, <4>1
    <3> QED BY <3>2, <3>3
  <2>5. {c \in Gosubs : c.at # Len(stack)} =
          Gosubs \ {[at |-> Len(stack), next |-> stack[Len(stack)][1]]}
    <3>1. \A c \in Gosubs : c = [at |-> c.at, next |-> c.next]
      BY DEF Gosubs
    <3>2. \A c \in Gosubs : c.at = Len(stack) =>
             c = [at |-> Len(stack), next |-> stack[Len(stack)][1]]
      BY <2>3, <3>1
    <3> QED BY <3>2
  <2>6. [at |-> Len(stack), next |-> stack[Len(stack)][1]] \in Gosubs
    BY <2>1 DEF Gosubs
  <2> QED BY <1>4, <2>4, <2>5, <2>6
<1>5. CASE stack[Len(stack)][2] # 1
  <2>1. GosubFrames' = GosubFrames
    BY <1>1, <1>2, <1>5 DEF GosubFrames
  <2>2. Gosubs' = Gosubs
    BY <1>3, <2>1 DEF Gosubs
  <2> QED BY <1>5, <2>2
<1> QED BY <1>4, <1>5

\* What the refinement sees of a statement
LEMMA AtStatement ==
  ASSUME TypeOK, IsRunning, pc[2] = 1
  PROVE  /\ Statement = pc[1] /\ Statement \in Nat
         /\ Statement \in DOMAIN prog <=> pc[1] \in 1..Len(prog)
  BY DEF TypeOK, IsProgram, Statement, IsRunning, Addresses

LEMMA InitStep == Init => Meaning!Init
<1> SUFFICES ASSUME Init PROVE Meaning!Init
  OBVIOUS
<1>1. Statement = 1
  BY StatementOfAddress DEF Init
<1>2. Gosubs = {}
  BY DEF Init, Gosubs, GosubFrames
<1> QED BY <1>1, <1>2 DEF Init, Meaning!Init

LEMMA CallStep == TypeOK /\ Call => Meaning!Next
<1> SUFFICES ASSUME TypeOK, Call PROVE Meaning!Next
  OBVIOUS
<1> DEFINE op == prog[pc[1]].op
           target == After(prog, prog[pc[1]].to)
<1>1. /\ IsRunning /\ Instr = "call" /\ prog' = prog
      /\ stack \in Seq(Addresses) /\ Len(stack) \in Nat
      /\ pc[1] \in 1..Len(prog) /\ pc[2] = 1 /\ pc[1] \in Nat
      /\ op \in {"goto", "gosub", "label"}
      /\ target \in 1..(Len(prog) + 1) /\ target \in Nat
      /\ op = "label" => target = pc[1] + 1
  BY CallGoesTo DEF TypeOK, Call
<1>2. /\ Statement = pc[1] /\ Statement \in DOMAIN prog
      /\ target = Meaning!After(prog, prog[Statement].to)
  BY <1>1, AtStatement DEF After, IsLabel, Meaning!After, Meaning!IsLabel
<1>3. CASE Len(stack) < MaxStack
  <2>1. pc' = <<target, 1>> /\ stack' = Append(stack, NextAddress)
    BY <1>3 DEF Call, Pushed
  <2>2. Statement' = target
    <3>1. IsRunning'
      BY <1>1, <2>1 DEF IsRunning, Addresses
    <3> QED BY <2>1, <3>1 DEF Statement
  <2>3. CASE op = "goto"
    <3>1. NextAddress = <<pc[1], 2>>
      BY <1>1, <2>3, NextIs
    <3>2. Gosubs' = Gosubs
      BY <1>1, <2>1, <3>1, PushedFrame
    <3> QED BY <1>1, <1>2, <2>2, <2>3, <3>2
            DEF Meaning!Next, Meaning!Goto, Meaning!AtStmt
  <2>4. CASE op = "label"
    <3>1. NextAddress = <<pc[1], 2>>
      BY <1>1, <2>4, NextIs
    <3>2. Gosubs' = Gosubs
      BY <1>1, <2>1, <3>1, PushedFrame
    <3> QED BY <1>1, <1>2, <2>2, <2>4, <3>2
            DEF Meaning!Next, Meaning!Fall, Meaning!Follow, Meaning!AtStmt
  <2>5. CASE op = "gosub"
    <3>1. NextAddress = <<pc[1] + 1, 1>>
      BY <1>1, <2>5, NextIs
    <3> DEFINE c == [at |-> Len(stack) + 1, next |-> pc[1] + 1]
    <3>2. Gosubs' = Gosubs \cup {c}
      BY <1>1, <2>1, <3>1, PushedFrame
    <3>3. ASSUME NEW b \in Gosubs
          PROVE  b.at < c.at
      BY <1>1 DEF Gosubs, GosubFrames
    <3>4. c \in Gosubs' /\ c.next = Statement + 1
      BY <1>2, <3>2
    <3> HIDE DEF c
    <3>5. Meaning!AtStmt({"gosub"})
      BY <1>2, <2>5 DEF Meaning!AtStmt
    <3> HIDE DEF target, op
    <3> QED BY <1>1, <1>2, <2>2, <3>2, <3>3, <3>4, <3>5 DEF Meaning!Next, Meaning!Gosub
  <2> QED BY <1>1, <2>3, <2>4, <2>5
<1>4. CASE ~(Len(stack) < MaxStack)
  <2>1. pc' = Overflow /\ stack' = stack
    BY <1>4 DEF Call
  <2>2. Statement' = Overflow
    BY <2>1, PlacesAssumption DEF Statement, IsRunning, Addresses
  <2>3. Gosubs' = Gosubs
    BY <2>1 DEF Gosubs, GosubFrames
  <2> QED BY <1>1, <1>2, <2>2, <2>3 DEF Meaning!Next, Meaning!Exhaust, Meaning!AtStmt
<1> QED BY <1>3, <1>4

\* The ret of a goto or a label goes on with the return that was begun.
LEMMA RetStep == TypeOK /\ Ret => Meaning!Next \/ UNCHANGED Meaning!vars
<1> SUFFICES ASSUME TypeOK, Ret PROVE Meaning!Next \/ UNCHANGED Meaning!vars
  OBVIOUS
<1>1. IsRunning /\ Instr = "ret" /\ pc' = Returning /\ prog' = prog /\ stack' = stack
  BY DEF Ret
<1>2. Statement' = Returning
  BY <1>1, PlacesAssumption DEF Statement, IsRunning, Addresses
<1>3. Gosubs' = Gosubs
  BY <1>1 DEF Gosubs, GosubFrames
<1>4. CASE pc[2] = 1
  <2>1. Statement = pc[1] /\ Statement \in Nat
    BY <1>1, <1>4, AtStatement
  <2>2. \/ pc[1] \in DOMAIN prog /\ prog[pc[1]].op = "return"
        \/ pc[1] = Len(prog) + 1
    <3>1. DOMAIN prog = 1..Len(prog)
      BY DEF TypeOK, IsProgram
    <3> QED BY <1>1, <1>4, <3>1, Running
  <2> QED BY <1>1, <1>2, <1>3, <2>1, <2>2
          DEF Meaning!Next, Meaning!Return, Meaning!AtStmt
<1>5. CASE pc[2] = 2
  <2>1. Statement = Returning
    BY <1>1, <1>5 DEF Statement
  <2> QED BY <1>1, <1>2, <1>3, <2>1 DEF Meaning!vars
<1> QED BY <1>1, <1>4, <1>5, Running

LEMMA PopStep == TypeOK /\ Pop => Meaning!Next \/ UNCHANGED Meaning!vars
<1> SUFFICES ASSUME TypeOK, Pop PROVE Meaning!Next \/ UNCHANGED Meaning!vars
  OBVIOUS
<1>1. /\ pc = Returning /\ prog' = prog /\ stack \in Seq(Addresses) /\ Len(stack) \in Nat
      /\ DOMAIN stack = 1..Len(stack)
  BY DEF TypeOK, Pop
<1>2. Statement = Returning
  BY <1>1, StatementOfPlace
<1>3. CASE stack = <<>>
  <2>1. pc' = Done /\ stack' = stack
    BY <1>3 DEF Pop
  <2>2. Statement' = Done
    BY <2>1, PlacesAssumption DEF Statement, IsRunning, Addresses
  <2>3. Gosubs = {} /\ Gosubs' = Gosubs
    BY <1>3, <2>1 DEF Gosubs, GosubFrames
  <2> QED BY <1>1, <1>2, <2>2, <2>3 DEF Meaning!Next, Meaning!Resume
<1>4. CASE stack # <<>>
  <2> DEFINE top == stack[Len(stack)]
  <2>1. pc' = top /\ stack' = SubSeq(stack, 1, Len(stack) - 1)
    BY <1>4 DEF Pop
  <2>2. top \in Addresses /\ IsAddress(top)
    BY <1>1, <1>4 DEF TypeOK
  <2>3. /\ top = <<top[1], top[2]>> /\ top[1] \in Nat /\ top[2] \in Nat /\ top[2] \in {1, 2}
        /\ IsRunning'
    <3>1. top[2] \in {1, 2}
      <4>1. IsProgram(prog)
        BY DEF TypeOK
      <4> QED BY <2>2, <4>1, AddressIs
    <3> QED BY <2>1, <2>2, <3>1 DEF IsRunning, Addresses
  <2>4. CASE top[2] = 2
    <3>1. Statement' = Returning
      BY <2>1, <2>3, <2>4 DEF Statement
    <3>2. Gosubs' = Gosubs
      BY <1>1, <1>4, <2>1, <2>4, PoppedFrame
    <3> QED BY <1>1, <1>2, <3>1, <3>2 DEF Meaning!vars
  <2>5. CASE top[2] = 1
    <3>1. Statement' = top[1]
      BY <2>1, <2>3, <2>5 DEF Statement
    <3> DEFINE c == [at |-> Len(stack), next |-> top[1]]
    <3>2. c \in Gosubs /\ Gosubs' = Gosubs \ {c}
      BY <1>1, <1>4, <2>1, <2>5, PoppedFrame
    <3>3. ASSUME NEW b \in Gosubs
          PROVE  b.at <= c.at
      BY <1>1 DEF Gosubs, GosubFrames
    <3>4. c.next = top[1]
      OBVIOUS
    <3> HIDE DEF c, top
    <3> QED BY <1>1, <1>2, <3>1, <3>2, <3>3, <3>4 DEF Meaning!Next, Meaning!Resume
  <2> QED BY <2>3, <2>4, <2>5
<1> QED BY <1>3, <1>4

LEMMA FollowStep ==
  ASSUME TypeOK, IsRunning, pc[1] \in 1..Len(prog), pc[2] = 1,
         pc' = <<pc[1] + 1, 1>>, prog' = prog, stack' = stack
  PROVE  Statement \in DOMAIN prog /\ Statement = pc[1] /\ Meaning!Follow
<1>1. Statement = pc[1] /\ Statement \in DOMAIN prog /\ Statement \in Nat
  BY AtStatement
<1>2. Statement' = Statement + 1
  BY <1>1 DEF Statement, IsRunning, Addresses
<1>3. Gosubs' = Gosubs
  BY DEF Gosubs, GosubFrames
<1> QED BY <1>1, <1>2, <1>3 DEF Meaning!Follow

LEMMA OtherStep == TypeOK /\ Other => Meaning!Next
<1> SUFFICES ASSUME TypeOK, Other PROVE Meaning!Next
  OBVIOUS
<1>1. IsRunning /\ Instr = "other" /\ pc' = NextAddress /\ prog' = prog /\ stack' = stack
  BY DEF Other
<1>2. pc[1] \in 1..Len(prog) /\ pc[2] = 1 /\ prog[pc[1]].op = "other"
  BY <1>1, Running
<1>3. NextAddress = <<pc[1] + 1, 1>>
  BY <1>1, <1>2, NextIs
<1> QED BY <1>1, <1>2, <1>3, FollowStep DEF Meaning!Next, Meaning!Fall, Meaning!AtStmt

LEMMA BranchStep == TypeOK /\ Branch => Meaning!Next
<1> SUFFICES ASSUME TypeOK, Branch PROVE Meaning!Next
  OBVIOUS
<1>1. /\ IsRunning /\ pc[1] \in 1..Len(prog) /\ pc[2] = 1 /\ prog[pc[1]].if
      /\ pc' = <<pc[1] + 1, 1>> /\ prog' = prog /\ stack' = stack
  BY DEF Branch, TypeOK, IsProgram
<1> QED BY <1>1, FollowStep DEF Meaning!Next, Meaning!IfNot

\* A return goes on after the latest gosub that has not returned, however many
\* gotos and labels there were since (generateGotoStmt, generateLabelStmt,
\* generateGosubStmt and generateGlobalReturnStmt).
THEOREM LabelsImplementJumps == Spec => ImplementsJumps
<1>1. Init => Meaning!Init
  BY InitStep
<1>2. TypeOK /\ [Next]_vars => [Meaning!Next]_(Meaning!vars)
  <2> SUFFICES ASSUME TypeOK, [Next]_vars
               PROVE  Meaning!Next \/ UNCHANGED Meaning!vars
    OBVIOUS
  <2>1. CASE Call
    BY <2>1, CallStep
  <2>2. CASE Ret
    BY <2>2, RetStep
  <2>3. CASE Pop
    BY <2>3, PopStep
  <2>4. CASE Other
    BY <2>4, OtherStep
  <2>5. CASE Branch
    BY <2>5, BranchStep
  <2>6. CASE UNCHANGED vars
    BY <2>6 DEF vars, Meaning!vars, Statement, IsRunning, Gosubs, GosubFrames
  <2> QED BY <2>1, <2>2, <2>3, <2>4, <2>5, <2>6 DEF Next
<1> QED BY <1>1, <1>2, TypeCorrect, PTL DEF Spec, ImplementsJumps, Meaning!Spec
===============================================================================
