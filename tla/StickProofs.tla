----------------------------- MODULE StickProofs -----------------------------
(***************************************************************************)
(* Proofs about Stick, for a table of any length, whatever the user types  *)
(* and whatever the program asks for.                                      *)
(***************************************************************************)
EXTENDS Stick, TLAPS

TypeOK ==
  /\ pc \in {"user", "loop"}
  /\ i \in 0..NKeys
  /\ down \subseteq Keys
  /\ found \subseteq Keys
  /\ earlier \subseteq Keys
  /\ res \subseteq Keys

(***************************************************************************)
(* The inductive invariant.  Of the keys it found, a call remembers the    *)
(* last one, for curStick is assigned to and not added to.  While the      *)
(* table is gone through, prevStick is therefore the last of the keys of   *)
(* the call before, and what is reported is the last of the keys found     *)
(* that may be reported, for *res is assigned to as well.                  *)
(***************************************************************************)
SearchInv ==
  /\ \A k \in found : k < i
  /\ curStick = LastOf(found)
  /\ prevStick = LastOf(earlier)
  /\ res = LastOf({k \in found : Reports(k)})

StickInv ==
  /\ TypeOK
  /\ pc = "user" => prevStick = LastOf(found)
  /\ pc = "loop" => SearchInv

LEMMA InitStick == Init => StickInv
BY NKeysAssumption DEF Init, StickInv, TypeOK, LastOf

\* The user changes nothing that stick has seen.
LEMMA UserStick ==
  ASSUME StickInv, User
  PROVE  StickInv'
<1>1. down' \subseteq Keys
  BY DEF User, Press, LetGo, SwitchWindow, StickInv, TypeOK
<1> QED BY <1>1 DEF User, history, StickInv, TypeOK, SearchInv, Reports, LastOf

LEMMA CallStick ==
  ASSUME StickInv, NEW mask \in SUBSET Keys, NEW check \in BOOLEAN, Call(mask, check)
  PROVE  StickInv'
<1>1. pc = "user" /\ prevStick = LastOf(found)
  BY DEF Call, StickInv
<1>2. CASE check /\ ~active
  BY <1>1, <1>2 DEF Call, user, history, StickInv, TypeOK, LastOf
<1>3. CASE ~(check /\ ~active)
  <2>1. /\ pc' = "loop" /\ i' = 0 /\ curStick' = {} /\ res' = {}
        /\ earlier' = found /\ found' = {} /\ prevStick' = prevStick /\ down' = down
    BY <1>3 DEF Call, user
  <2>2. TypeOK'
    BY <2>1, NKeysAssumption DEF StickInv, TypeOK
  <2>3. SearchInv'
    BY <1>1, <2>1 DEF SearchInv, LastOf
  <2> QED BY <2>1, <2>2, <2>3 DEF StickInv
<1> QED BY <1>2, <1>3

\* A key that is found comes after all that were found before it.
LEMMA AskStick ==
  ASSUME StickInv, AskForKey
  PROVE  StickInv'
<1>1. /\ pc = "loop" /\ pc' = "loop" /\ SearchInv /\ TypeOK /\ i < NKeys /\ i' = i + 1
      /\ UNCHANGED <<down, nonTrigger, prevStick, earlier>>
  BY DEF AskForKey, StickInv, user
<1>2. i \in Keys /\ i' \in 0..NKeys /\ i \in Int /\ found \subseteq Int /\ res \subseteq Int
  BY <1>1, NKeysAssumption DEF TypeOK, Keys
<1>3. CASE i \in down
  <2>1. found' = found \cup {i} /\ curStick' = {i} /\ res' = IF Reports(i) THEN {i} ELSE res
    BY <1>3 DEF AskForKey
  <2>2. TypeOK'
    BY <1>1, <1>2, <2>1 DEF TypeOK
  <2>3. \A k \in found' : k < i'
    BY <1>1, <1>2, <2>1 DEF SearchInv
  <2>4. curStick' = LastOf(found')
    <3>1. \A k \in found' : k \in Int /\ k <= i /\ (i <= k => k = i)
      BY <1>1, <1>2, <2>1 DEF SearchInv
    <3>2. i \in found' /\ i <= i
      BY <1>2, <2>1
    <3>3. LastOf(found') = {i}
      BY <3>1, <3>2 DEF LastOf
    <3> QED BY <2>1, <3>3
  <2>5. prevStick' = LastOf(earlier')
    BY <1>1 DEF SearchInv, LastOf
  <2>6. res' = LastOf({k \in found' : Reports(k)'})
    <3>1. {k \in found' : Reports(k)'} =
            {k \in found : Reports(k)} \cup (IF Reports(i) THEN {i} ELSE {})
      BY <1>1, <2>1 DEF Reports
    <3>2. \A k \in found : k \in Int /\ k < i
      BY <1>1, <1>2 DEF SearchInv
    <3>3. CASE Reports(i)
      <4> DEFINE F == {k \in found : Reports(k)} \cup {i}
      <4>1. \A k \in F : k \in Int /\ k <= i /\ (i <= k => k = i)
        BY <1>2, <3>2
      <4>2. i \in F /\ i <= i
        BY <1>2
      <4>3. LastOf(F) = {i}
        <5> HIDE DEF F
        <5> QED BY <4>1, <4>2 DEF LastOf
      <4> QED BY <2>1, <3>1, <3>3, <4>3
    <3>4. CASE ~Reports(i)
      BY <1>1, <2>1, <3>1, <3>4 DEF SearchInv
    <3> QED BY <3>3, <3>4
  <2> QED BY <1>1, <2>2, <2>3, <2>4, <2>5, <2>6 DEF StickInv, SearchInv
<1>4. CASE i \notin down
  <2>1. UNCHANGED <<curStick, res, found>>
    BY <1>4 DEF AskForKey
  <2>2. TypeOK'
    BY <1>1, <1>2, <2>1 DEF TypeOK
  <2>3. \A k \in found' : k < i'
    BY <1>1, <1>2, <2>1 DEF SearchInv
  <2>4. SearchInv'
    BY <1>1, <2>1, <2>3 DEF SearchInv, Reports, LastOf
  <2> QED BY <1>1, <2>2, <2>4 DEF StickInv
<1> QED BY <1>3, <1>4

LEMMA ReturnStick ==
  ASSUME StickInv, Return
  PROVE  StickInv'
BY DEF Return, Remembered, user, history, StickInv, SearchInv, TypeOK, LastOf

LEMMA NextStick == StickInv /\ [Next]_vars => StickInv'
<1> SUFFICES ASSUME StickInv, [Next]_vars PROVE StickInv'
  OBVIOUS
<1>1. CASE User
  BY <1>1, UserStick
<1>2. CASE \E mask \in SUBSET Keys, check \in BOOLEAN : Call(mask, check)
  BY <1>2, CallStick
<1>3. CASE AskForKey
  BY <1>3, AskStick
<1>4. CASE Return
  BY <1>4, ReturnStick
<1>5. CASE UNCHANGED vars
  BY <1>5 DEF vars, user, history, StickInv, TypeOK, SearchInv, Reports, LastOf
<1> QED BY <1>1, <1>2, <1>3, <1>4, <1>5 DEF Next

\* What stick remembers and reports is as SearchInv says, at every moment of a
\* call and between calls.
THEOREM StickInvariant == Spec => []StickInv
<1> QED BY InitStick, NextStick, PTL DEF Spec

\* Of the keys that are found down and are new, or asked for as non-trigger, or
\* were hidden, the last one is reported and no other, however long the table is
\* and whatever the user does while it is gone through.
THEOREM OneKeyIsReported == Spec => []LastTriggerIsReported
<1>1. StickInv => LastTriggerIsReported
  <2> SUFFICES ASSUME StickInv, Returning
               PROVE  res = LastOf({k \in found : \/ k \notin earlier
                                                  \/ k \in nonTrigger
                                                  \/ \E j \in earlier : j > k})
    BY DEF LastTriggerIsReported
  <2>1. /\ SearchInv /\ earlier \subseteq Int /\ found \subseteq Int
    BY NKeysAssumption DEF StickInv, Returning, TypeOK, Keys
  <2>2. \A k \in found : Reports(k) <=> \/ k \notin earlier
                                         \/ k \in nonTrigger
                                         \/ \E j \in earlier : j > k
    BY <2>1 DEF SearchInv, Reports, LastOf
  <2>3. {k \in found : Reports(k)} = {k \in found : \/ k \notin earlier
                                                    \/ k \in nonTrigger
                                                    \/ \E j \in earlier : j > k}
    BY <2>2
  <2> QED BY <2>1, <2>3 DEF SearchInv
<1> QED BY <1>1, StickInvariant, PTL

\* A key that is held is reported again only if the call before found a later
\* one too, and remembered that one alone.
THEOREM HeldKeysAreHidden == Spec => []OnlyHiddenKeysRepeat
<1>1. StickInv => OnlyHiddenKeysRepeat
  <2> SUFFICES ASSUME StickInv, Returning, NEW k \in res \ nonTrigger, k \in earlier
               PROVE  \E j \in earlier : j > k
    BY DEF OnlyHiddenKeysRepeat
  <2>1. Reports(k) /\ prevStick = LastOf(earlier) /\ earlier \subseteq Int
    BY NKeysAssumption DEF StickInv, SearchInv, Returning, TypeOK, Keys, LastOf
  <2>2. k \notin LastOf(earlier)
    BY <2>1 DEF Reports
  <2> QED BY <2>1, <2>2 DEF LastOf
<1> QED BY <1>1, StickInvariant, PTL
==============================================================================
