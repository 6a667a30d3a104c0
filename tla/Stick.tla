-------------------------------- MODULE Stick --------------------------------
(***************************************************************************)
(* The runtime function stick (runtime/win32.c): which key of its table is *)
(* down and was not at the call before.  It asks Windows for one key after *)
(* the other while the user goes on typing; a key that is pressed and let  *)
(* go of between two calls is never seen.  A mask of keys is a set; keys   *)
(* are numbered as in the table.                                           *)
(***************************************************************************)
EXTENDS Integers

CONSTANT NKeys  \* length of the table

ASSUME NKeysAssumption == NKeys \in Nat

Keys == 0..(NKeys - 1)

VARIABLES
  down,        \* keys that are down (external)
  active,      \* a window of the program is active (external)
  pc,          \* "user" or "loop"
  i,           \* the next key of the table
  nonTrigger,  \* the argument
  res,         \* *res
  curStick,
  prevStick,   \* ctx->prevStick
  found,       \* history: keys found down by the last call that asked for keys
  earlier      \* history: those found by the one before it

user == <<down, active>>
history == <<found, earlier>>
vars == <<user, pc, i, nonTrigger, res, curStick, prevStick, history>>

Init ==
  /\ down = {} /\ active = TRUE
  /\ pc = "user" /\ i = 0
  /\ nonTrigger = {} /\ res = {} /\ curStick = {} /\ prevStick = {}
  /\ found = {} /\ earlier = {}

-----------------------------------------------------------------------------
\* The user presses or lets go of a key, or goes to another window.
Press(k) == down' = down \cup {k} /\ UNCHANGED active
LetGo(k) == down' = down \ {k} /\ UNCHANGED active
SwitchWindow == active' = ~active /\ UNCHANGED down

User ==
  /\ \/ \E k \in Keys \ down : Press(k)
     \/ \E k \in down : LetGo(k)
     \/ SwitchWindow
  /\ UNCHANGED <<pc, i, nonTrigger, res, curStick, prevStick, history>>

\* Called; with checkWindowFocus it returns at once when no window is active.
Call(mask, checkWindowFocus) ==
  /\ pc = "user"
  /\ res' = {}
  /\ nonTrigger' = mask
  /\ IF checkWindowFocus /\ ~active
     THEN UNCHANGED <<pc, i, curStick, history>>
     ELSE /\ pc' = "loop" /\ i' = 0 /\ curStick' = {}
          /\ earlier' = found /\ found' = {}
  /\ UNCHANGED <<user, prevStick>>

\* Not previously pressed or non-triggered.
Reports_TriggerOnly(k) == k \notin prevStick
Reports(k) == k \notin prevStick \/ k \in nonTrigger

AskForKey ==
  /\ pc = "loop"
  /\ i < NKeys
  /\ i' = i + 1
  /\ IF i \in down
     THEN /\ curStick' = {i}
          /\ res' = IF Reports(i) THEN {i} ELSE res
          /\ found' = found \cup {i}
     ELSE UNCHANGED <<curStick, res, found>>
  /\ UNCHANGED <<user, pc, nonTrigger, prevStick, earlier>>

Remembered_Before == prevStick
Remembered == curStick

Return ==
  /\ pc = "loop"
  /\ i = NKeys
  /\ prevStick' = Remembered
  /\ pc' = "user"
  /\ UNCHANGED <<user, i, nonTrigger, res, curStick, history>>

Next ==
  \/ User
  \/ \E mask \in SUBSET Keys, check \in BOOLEAN : Call(mask, check)
  \/ AskForKey
  \/ Return

Spec == Init /\ [][Next]_vars

-----------------------------------------------------------------------------
Returning == pc = "loop" /\ i = NKeys

\* The key of a mask that is last in the table, as a mask.
LastOf(mask) == {k \in mask : \A j \in mask : j <= k}

\* stick reports one key or none: of the keys it has found down it is the last
\* that was up at the call before, is asked for as non-trigger, or was then
\* hidden from prevStick by a later one.  A key that gives way to a later one
\* is reported by another call if it is still down then, and lost if not.
LastTriggerIsReported ==
  Returning =>
    res = LastOf({k \in found : \/ k \notin earlier
                                \/ k \in nonTrigger
                                \/ \E j \in earlier : j > k})

\* Only a key that another one further down the table has hidden from prevStick
\* is reported again while it is held, whatever else is found.
OnlyHiddenKeysRepeat ==
  Returning =>
    \A k \in res \ nonTrigger : k \in earlier => \E j \in earlier : j > k

\* What the comment in stick says: a key that is reported was not pressed
\* previously, or is non-triggered.
ReportedKeysAreNew == Returning => (res \ nonTrigger) \cap earlier = {}
===============================================================================
