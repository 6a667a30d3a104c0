------------------------------- MODULE Labels -------------------------------
(***************************************************************************)
(* What the code generator makes of labels, and how it runs.  Each label   *)
(* begins a function; the one before it ends with a call of it.  A goto is *)
(* a call and a ret, a gosub a call, and a return a ret.  The calls are no *)
(* tail calls, so that each leaves a frame on the stack.                   *)
(*                                                                         *)
(* An address is a statement and an instruction of it; what is emitted for *)
(* the end of PeryanMain, or of the last label's function, is that of a    *)
(* statement after the last.                                               *)
(***************************************************************************)
EXTENDS Programs

CONSTANTS
  MaxStack,                   \* how many frames the stack has room for
  Returning, Done, Overflow   \* what the program counter is otherwise

ASSUME MaxStackAssumption == MaxStack \in Nat
ASSUME PlacesAssumption ==
  /\ Returning # Done /\ Done # Overflow /\ Overflow # Returning
  /\ \A place \in {Returning, Done, Overflow} : place \notin Nat /\ place \notin Nat \X Nat

VARIABLES
  prog,  \* the program
  pc,    \* the address of the next instruction
  stack  \* the addresses the frames return to

vars == <<prog, pc, stack>>

JumpCode_NoRet == <<"call">>
JumpCode == <<"call", "ret">>
Emitted(s) ==
  CASE s.op \in {"goto", "label"} -> JumpCode
    [] s.op = "gosub" -> <<"call">>
    [] s.op = "return" -> <<"ret">>
    [] s.op = "other" -> <<"other">>

IsAddress(a) ==
  \/ a[1] \in DOMAIN prog /\ a[2] \in DOMAIN Emitted(prog[a[1]])
  \/ a = <<Len(prog) + 1, 1>>

Instr ==
  IF pc[1] = Len(prog) + 1 THEN "ret" ELSE Emitted(prog[pc[1]])[pc[2]]

NextAddress ==
  IF pc[2] < Len(Emitted(prog[pc[1]])) THEN <<pc[1], pc[2] + 1>> ELSE <<pc[1] + 1, 1>>

Addresses == Nat \X Nat
IsRunning == pc \in Addresses

-----------------------------------------------------------------------------
Init ==
  /\ prog \in Programs
  /\ pc = <<1, 1>>
  /\ stack = <<>>

Pushed_TailCall(a) == IF a[2] = 2 THEN stack ELSE Append(stack, a)
Pushed(a) == Append(stack, a)

Call ==
  /\ IsRunning /\ Instr = "call"
  /\ IF Len(stack) < MaxStack
     THEN /\ pc' = <<After(prog, prog[pc[1]].to), 1>>
          /\ stack' = Pushed(NextAddress)
     ELSE pc' = Overflow /\ UNCHANGED stack
  /\ UNCHANGED prog

Ret ==
  /\ IsRunning /\ Instr = "ret"
  /\ pc' = Returning
  /\ UNCHANGED <<prog, stack>>

\* A ret of the first frame is the end of PeryanMain.
Pop ==
  /\ pc = Returning
  /\ IF stack = <<>> THEN pc' = Done /\ UNCHANGED stack
     ELSE pc' = stack[Len(stack)] /\ stack' = SubSeq(stack, 1, Len(stack) - 1)
  /\ UNCHANGED prog

Other ==
  /\ IsRunning /\ Instr = "other"
  /\ pc' = NextAddress
  /\ UNCHANGED <<prog, stack>>

\* The branch around a statement whose condition does not hold.
Branch ==
  /\ IsRunning
  /\ pc[1] \in DOMAIN prog /\ pc[2] = 1 /\ prog[pc[1]].if
  /\ pc' = <<pc[1] + 1, 1>>
  /\ UNCHANGED <<prog, stack>>

Next == Call \/ Ret \/ Pop \/ Other \/ Branch

\* The processor goes on.
Spec == Init /\ [][Next]_vars /\ WF_vars(Next)

-----------------------------------------------------------------------------
TypeOK ==
  /\ IsProgram(prog)
  /\ \/ pc \in {Returning, Done, Overflow}
     \/ pc \in Addresses /\ IsAddress(pc)
  /\ stack \in Seq(Addresses)
  /\ Len(stack) <= MaxStack
  /\ \A i \in DOMAIN stack : IsAddress(stack[i])

\* The frames of gosubs return to the beginning of a statement, those of gotos
\* and labels to the ret.
GosubFrames == {i \in DOMAIN stack : stack[i][2] = 1}
Gosubs == {[at |-> i, next |-> stack[i][1]] : i \in GosubFrames}

Statement == IF ~IsRunning THEN pc ELSE IF pc[2] = 2 THEN Returning ELSE pc[1]

(***************************************************************************)
(* The calls and rets implement goto, gosub and return: the frames that    *)
(* gotos leave do not keep a return from what follows the latest gosub.    *)
(***************************************************************************)
Meaning == INSTANCE Jumps WITH pc <- Statement, calls <- Gosubs
ImplementsJumps == Meaning!Spec

(***************************************************************************)
(* Code that goes back with goto does not run for ever: it comes to its    *)
(* end, or the frames of the jumps use up the stack.                       *)
(***************************************************************************)
EveryRunEnds == <>(pc \in {Done, Overflow})
===============================================================================
