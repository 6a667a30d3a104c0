------------------------------ MODULE Programs ------------------------------
(***************************************************************************)
(* Top-level code that uses labels, as the resolved tree holds it: the     *)
(* statements in order, a jump with the label it goes to and whether it    *)
(* stands in an `if`.                                                      *)
(***************************************************************************)
EXTENDS Integers, Sequences

CONSTANTS
  Labels,
  Programs  \* the top-level codes

Stmts ==
  [op : {"goto", "gosub", "label"}, to : Labels, if : BOOLEAN] \cup
  [op : {"return", "other"}, if : BOOLEAN]

IsLabel(s, l) == s.op = "label" /\ s.to = l

\* A label is defined once, and not in an `if`; one that is not defined is an error.
IsProgram(p) ==
  /\ p \in Seq(Stmts)
  /\ \A i \in DOMAIN p :
       /\ p[i].op \in {"goto", "gosub"} => \E j \in DOMAIN p : IsLabel(p[j], p[i].to)
       /\ p[i].op = "label" =>
            ~p[i].if /\ \A j \in DOMAIN p : IsLabel(p[j], p[i].to) => i = j

ASSUME ProgramsAssumption == \A p \in Programs : IsProgram(p)

\* The statement that follows label l
After(p, l) == (CHOOSE i \in DOMAIN p : IsLabel(p[i], l)) + 1
===============================================================================
