-------------------------------- MODULE Jumps --------------------------------
(***************************************************************************)
(* What goto, gosub and return do: a gosub is remembered until a return    *)
(* takes it, the latest one first, and a goto is not.  The end of the code *)
(* is a return, and a return that finds no gosub ends the program.  A jump *)
(* may find that the stack is used up.                                     *)
(***************************************************************************)
EXTENDS Programs

CONSTANTS Returning, Done, Overflow  \* places that are no statement

VARIABLES
  prog,  \* the program
  pc,    \* the statement to be executed
  calls  \* when each gosub that is remembered was executed, and what follows it

vars == <<prog, pc, calls>>

Init ==
  /\ prog \in Programs
  /\ pc = 1
  /\ calls = {}

AtStmt(ops) == pc \in DOMAIN prog /\ prog[pc].op \in ops
Follow == pc' = pc + 1 /\ UNCHANGED <<prog, calls>>

Fall == AtStmt({"label", "other"}) /\ Follow

IfNot == pc \in DOMAIN prog /\ prog[pc].if /\ Follow

Goto ==
  /\ AtStmt({"goto"})
  /\ pc' = After(prog, prog[pc].to)
  /\ UNCHANGED <<prog, calls>>

Gosub ==
  /\ AtStmt({"gosub"})
  /\ pc' = After(prog, prog[pc].to)
  /\ \E c \in calls' :
       /\ calls' = calls \cup {c}
       /\ c.next = pc + 1
       /\ \A b \in calls : b.at < c.at
  /\ UNCHANGED prog

Exhaust ==
  /\ AtStmt({"label", "goto", "gosub"})
  /\ pc' = Overflow
  /\ UNCHANGED <<prog, calls>>

Return ==
  /\ AtStmt({"return"}) \/ pc = Len(prog) + 1
  /\ pc' = Returning
  /\ UNCHANGED <<prog, calls>>

Resume ==
  /\ pc = Returning
  /\ \/ calls = {} /\ pc' = Done /\ UNCHANGED calls
     \/ \E c \in calls :
          /\ \A b \in calls : b.at <= c.at
          /\ pc' = c.next
          /\ calls' = calls \ {c}
  /\ UNCHANGED prog

Next == Fall \/ IfNot \/ Goto \/ Gosub \/ Exhaust \/ Return \/ Resume

Spec == Init /\ [][Next]_vars
===============================================================================
