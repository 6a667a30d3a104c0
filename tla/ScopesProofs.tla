------------------------------ MODULE ScopesProofs ------------------------------
(***************************************************************************)
(* Proofs about Scopes: that the two passes give every name the meaning    *)
(* the text gives it, and that what they accept, reject and stop at is     *)
(* what the text says, for every program.                                  *)
(***************************************************************************)
EXTENDS Scopes, SequenceTheorems, FiniteSetTheorems, WellFoundedInduction, TLAPS

-----------------------------------------------------------------------------
(* Open: how many scopes begun from i on have not ended by j. *)

Count(X, i, j) == Cardinality({k \in i..j : k \in X})

LEMMA CountSplits ==
  \A X : \A a, b, c \in Int : a <= b /\ b <= c + 1 =>
    /\ Count(X, a, b - 1) \in Nat /\ Count(X, b, c) \in Nat
    /\ Count(X, a, c) = Count(X, a, b - 1) + Count(X, b, c)
<1> SUFFICES ASSUME NEW X, NEW a \in Int, NEW b \in Int, NEW c \in Int, a <= b, b <= c + 1
             PROVE  /\ Count(X, a, b - 1) \in Nat /\ Count(X, b, c) \in Nat
                    /\ Count(X, a, c) = Count(X, a, b - 1) + Count(X, b, c)
  OBVIOUS
<1> DEFINE S == {k \in a..(b - 1) : k \in X}
           T == {k \in b..c : k \in X}
<1>1. IsFiniteSet(S) /\ IsFiniteSet(T)
  <2>1. IsFiniteSet(a..(b - 1)) /\ IsFiniteSet(b..c)
    BY FS_Interval
  <2>2. S \in SUBSET (a..(b - 1)) /\ T \in SUBSET (b..c)
    OBVIOUS
  <2> HIDE DEF S, T
  <2> QED BY <2>1, <2>2, FS_Subset
<1>2. S \cap T = {}
  OBVIOUS
<1>3. {k \in a..c : k \in X} = S \cup T
  OBVIOUS
<1>4. /\ Count(X, a, b - 1) = Cardinality(S) /\ Count(X, b, c) = Cardinality(T)
      /\ Count(X, a, c) = Cardinality(S \cup T)
  BY <1>3 DEF Count
<1> HIDE DEF S, T
<1>5. Cardinality(S) \in Nat /\ Cardinality(T) \in Nat
  BY <1>1, FS_CardinalityType
<1>6. Cardinality(S \cup T) = Cardinality(S) + Cardinality(T) - Cardinality({})
  BY <1>1, <1>2, FS_Union
<1>7. Cardinality(S \cup T) = Cardinality(S) + Cardinality(T)
  BY <1>5, <1>6, FS_EmptySet
<1> QED BY <1>4, <1>5, <1>7

Begins(prog) == {k \in Int : prog[k].kind \in Scopings}
Ends(prog) == {k \in Int : prog[k].kind = "end"}

LEMMA OpenCounts ==
  \A prog : \A i, j \in Int :
    Open(prog, i, j) = Count(Begins(prog), i, j) - Count(Ends(prog), i, j)
<1> SUFFICES ASSUME NEW prog, NEW i \in Int, NEW j \in Int
             PROVE  Open(prog, i, j) = Count(Begins(prog), i, j) - Count(Ends(prog), i, j)
  OBVIOUS
<1>1. /\ {k \in i..j : prog[k].kind \in Scopings} = {k \in i..j : k \in Begins(prog)}
      /\ {k \in i..j : prog[k].kind = "end"} = {k \in i..j : k \in Ends(prog)}
  BY DEF Begins, Ends
<1> QED BY <1>1 DEF Open, Count

LEMMA OpenAdds ==
  \A prog : \A a, b, c \in Int : a <= b /\ b <= c + 1 =>
    /\ Open(prog, a, c) \in Int /\ Open(prog, a, b - 1) \in Int /\ Open(prog, b, c) \in Int
    /\ Open(prog, a, c) = Open(prog, a, b - 1) + Open(prog, b, c)
<1> SUFFICES ASSUME NEW prog, NEW a \in Int, NEW b \in Int, NEW c \in Int, a <= b, b <= c + 1
             PROVE  /\ Open(prog, a, c) \in Int /\ Open(prog, a, b - 1) \in Int
                    /\ Open(prog, b, c) \in Int
                    /\ Open(prog, a, c) = Open(prog, a, b - 1) + Open(prog, b, c)
  OBVIOUS
<1> DEFINE X == Begins(prog)
           Y == Ends(prog)
<1> HIDE DEF X, Y
<1>1. /\ Open(prog, a, c) = Count(X, a, c) - Count(Y, a, c)
      /\ Open(prog, a, b - 1) = Count(X, a, b - 1) - Count(Y, a, b - 1)
      /\ Open(prog, b, c) = Count(X, b, c) - Count(Y, b, c)
  <2>1. b - 1 \in Int
    OBVIOUS
  <2> QED BY <2>1, OpenCounts DEF X, Y
<1>2. /\ Count(X, a, b - 1) \in Nat /\ Count(X, b, c) \in Nat
      /\ Count(X, a, c) = Count(X, a, b - 1) + Count(X, b, c)
  BY CountSplits
<1>3. /\ Count(Y, a, b - 1) \in Nat /\ Count(Y, b, c) \in Nat
      /\ Count(Y, a, c) = Count(Y, a, b - 1) + Count(Y, b, c)
  BY CountSplits
<1> QED BY <1>1, <1>2, <1>3

LEMMA OpenOne ==
  ASSUME NEW prog, NEW p \in Int
  PROVE  /\ Open(prog, p, p - 1) = 0
         /\ prog[p].kind \in Scopings => Open(prog, p, p) = 1
         /\ prog[p].kind = "end" => Open(prog, p, p) = 0 - 1
         /\ prog[p].kind \notin Scopings /\ prog[p].kind # "end" => Open(prog, p, p) = 0
<1>1. "end" \notin Scopings
  BY DEF Scopings
<1>2. /\ {k \in p..(p - 1) : prog[k].kind \in Scopings} = {}
      /\ {k \in p..(p - 1) : prog[k].kind = "end"} = {}
  OBVIOUS
<1>3. /\ {k \in p..p : prog[k].kind \in Scopings}
           = IF prog[p].kind \in Scopings THEN {p} ELSE {}
      /\ {k \in p..p : prog[k].kind = "end"} = IF prog[p].kind = "end" THEN {p} ELSE {}
  OBVIOUS
<1>4. Cardinality({}) = 0 /\ Cardinality({p}) = 1
  BY FS_EmptySet, FS_Singleton
<1>5. Open(prog, p, p - 1) = 0
  <2>1. Open(prog, p, p - 1) = Cardinality({}) - Cardinality({})
    BY <1>2 DEF Open
  <2> QED BY <2>1, <1>4
<1>6. /\ prog[p].kind \in Scopings => Open(prog, p, p) = 1 - 0
      /\ prog[p].kind = "end" => Open(prog, p, p) = 0 - 1
      /\ prog[p].kind \notin Scopings /\ prog[p].kind # "end" => Open(prog, p, p) = 0 - 0
  BY <1>1, <1>3, <1>4 DEF Open
<1> QED BY <1>5, <1>6

\* What the item at p does to a scope that was begun before it.
LEMMA OpenNext ==
  \A prog : \A s, p \in Int : s <= p =>
    /\ Open(prog, s, p - 1) \in Int
    /\ prog[p].kind \in Scopings => Open(prog, s, p) = Open(prog, s, p - 1) + 1
    /\ prog[p].kind = "end" => Open(prog, s, p) = Open(prog, s, p - 1) - 1
    /\ prog[p].kind \notin Scopings /\ prog[p].kind # "end" =>
         Open(prog, s, p) = Open(prog, s, p - 1)
<1> SUFFICES ASSUME NEW prog, NEW s \in Int, NEW p \in Int, s <= p
             PROVE  /\ Open(prog, s, p - 1) \in Int
                    /\ prog[p].kind \in Scopings =>
                         Open(prog, s, p) = Open(prog, s, p - 1) + 1
                    /\ prog[p].kind = "end" => Open(prog, s, p) = Open(prog, s, p - 1) - 1
                    /\ prog[p].kind \notin Scopings /\ prog[p].kind # "end" =>
                         Open(prog, s, p) = Open(prog, s, p - 1)
  OBVIOUS
<1>1. p <= p + 1
  OBVIOUS
<1>2. /\ Open(prog, s, p - 1) \in Int /\ Open(prog, p, p) \in Int
      /\ Open(prog, s, p) = Open(prog, s, p - 1) + Open(prog, p, p)
  BY <1>1, OpenAdds
<1> QED BY <1>2, OpenOne

-----------------------------------------------------------------------------
(* Enclosing: the scopes that are open at a position. *)

LEMMA EnclosingIs ==
  \A prog : \A p \in Nat : \A s :
    s \in Enclosing(prog, p) <=>
      /\ s \in Nat /\ s < p
      /\ s # Global => /\ prog[s].kind \in Scopings
                       /\ \A j \in s..(p - 1) : Open(prog, s, j) > 0
<1> SUFFICES ASSUME NEW prog, NEW p \in Nat, NEW s
             PROVE  s \in Enclosing(prog, p) <=>
                      /\ s \in Nat /\ s < p
                      /\ s # Global => /\ prog[s].kind \in Scopings
                                       /\ \A j \in s..(p - 1) : Open(prog, s, j) > 0
  OBVIOUS
<1>1. s \in Global..(p - 1) <=> s \in Nat /\ s < p
  BY DEF Global
<1> QED BY <1>1 DEF Enclosing, Encloses

LEMMA EnclosingStep ==
  \A prog : \A n \in Nat \ {0} : \A s :
    s \in Enclosing(prog, n + 1) <=>
      \/ s = Global
      \/ s # Global /\ s \in Enclosing(prog, n) /\ Open(prog, s, n) > 0
      \/ s = n /\ prog[n].kind \in Scopings
<1> SUFFICES ASSUME NEW prog, NEW n \in Nat \ {0}, NEW s
             PROVE  s \in Enclosing(prog, n + 1) <=>
                      \/ s = Global
                      \/ s # Global /\ s \in Enclosing(prog, n) /\ Open(prog, s, n) > 0
                      \/ s = n /\ prog[n].kind \in Scopings
  OBVIOUS
<1> DEFINE In(p) == /\ s \in Nat /\ s < p
                    /\ s # Global => /\ prog[s].kind \in Scopings
                                     /\ \A j \in s..(p - 1) : Open(prog, s, j) > 0
<1>1. (s \in Enclosing(prog, n) <=> In(n)) /\ (s \in Enclosing(prog, n + 1) <=> In(n + 1))
  <2>1. n \in Nat /\ n + 1 \in Nat
    OBVIOUS
  <2> QED BY <2>1, EnclosingIs
<1>2. CASE s = Global
  BY <1>1, <1>2 DEF Global
<1>3. CASE s # Global /\ s = n
  <2>1. ~In(n)
    BY <1>3
  <2>2. \A j \in n..((n + 1) - 1) : j = n
    OBVIOUS
  <2>3. prog[n].kind \in Scopings => Open(prog, n, n) > 0
    BY OpenOne
  <2>4. In(n + 1) <=> prog[n].kind \in Scopings
    BY <1>3, <2>2, <2>3
  <2> QED BY <1>1, <1>3, <2>1, <2>4
<1>4. CASE s # Global /\ s # n
  <2>1. In(n + 1) <=> In(n) /\ Open(prog, s, n) > 0
    <3>1. s \in Nat => (s < n + 1 <=> s < n)
      BY <1>4
    <3>2. s \in Nat /\ s < n =>
            ((\A j \in s..((n + 1) - 1) : Open(prog, s, j) > 0) <=>
               ((\A j \in s..(n - 1) : Open(prog, s, j) > 0) /\ Open(prog, s, n) > 0))
      <4> SUFFICES ASSUME s \in Nat, s < n
                   PROVE  (\A j \in s..((n + 1) - 1) : Open(prog, s, j) > 0) <=>
                            (\A j \in s..(n - 1) : Open(prog, s, j) > 0) /\ Open(prog, s, n) > 0
        OBVIOUS
      <4>1. \A j : j \in s..((n + 1) - 1) <=> j \in s..(n - 1) \/ j = n
        OBVIOUS
      <4> QED BY <4>1
    <3> QED BY <1>4, <3>1, <3>2
  <2> QED BY <1>1, <1>4, <2>1
<1> QED BY <1>2, <1>3, <1>4

\* The scopes around a scope that is open are open, and no others are that
\* began before it.
LEMMA EnclosingNests ==
  \A prog : \A p \in Nat : \A i \in Enclosing(prog, p) : \A t :
    t \in Enclosing(prog, p) /\ t < i <=> t \in Enclosing(prog, i)
<1> SUFFICES ASSUME NEW prog, NEW p \in Nat, NEW i \in Enclosing(prog, p), NEW t
             PROVE  t \in Enclosing(prog, p) /\ t < i <=> t \in Enclosing(prog, i)
  OBVIOUS
<1>1. /\ i \in Nat /\ i < p
      /\ i # Global => \A j \in i..(p - 1) : Open(prog, i, j) > 0
  BY EnclosingIs
<1>2. ASSUME t \in Enclosing(prog, p), t < i PROVE t \in Enclosing(prog, i)
  <2>1. /\ t \in Nat
        /\ t # Global => /\ prog[t].kind \in Scopings
                         /\ \A j \in t..(p - 1) : Open(prog, t, j) > 0
    BY <1>2, EnclosingIs
  <2>2. \A j : j \in t..(i - 1) => j \in t..(p - 1)
    BY <1>1, <2>1
  <2> QED BY <1>1, <1>2, <2>1, <2>2, EnclosingIs
<1>3. ASSUME t \in Enclosing(prog, i) PROVE t \in Enclosing(prog, p) /\ t < i
  <2>1. /\ t \in Nat /\ t < i
        /\ t # Global => /\ prog[t].kind \in Scopings
                         /\ \A j \in t..(i - 1) : Open(prog, t, j) > 0
    BY <1>1, <1>3, EnclosingIs
  <2>2. ASSUME t # Global, NEW j \in t..(p - 1) PROVE Open(prog, t, j) > 0
    <3>1. CASE j < i
      <4>1. j \in t..(i - 1)
        BY <1>1, <2>1, <3>1
      <4> QED BY <2>1, <2>2, <4>1
    <3>2. CASE ~(j < i)
      <4>1. i \in Int /\ j \in Int /\ t <= i /\ i <= j + 1 /\ j \in i..(p - 1) /\ i - 1 \in t..(i - 1)
        BY <1>1, <2>1, <3>2
      <4>2. Open(prog, t, j) = Open(prog, t, i - 1) + Open(prog, i, j)
            /\ Open(prog, t, i - 1) \in Int /\ Open(prog, i, j) \in Int
        BY <2>1, <4>1, OpenAdds
      <4>3. Open(prog, t, i - 1) > 0 /\ Open(prog, i, j) > 0
        BY <1>1, <2>1, <2>2, <4>1 DEF Global
      <4> QED BY <4>2, <4>3
    <3> QED BY <3>1, <3>2
  <2>3. t < p
    BY <1>1, <2>1
  <2> QED BY <2>1, <2>2, <2>3, EnclosingIs
<1> QED BY <1>2, <1>3

\* A nonempty set of numbers with a bound has a greatest element.
LEMMA MaxIs ==
  \A S : \A n \in Nat : S # {} /\ S \subseteq 0..n => Max(S) \in S /\ \A x \in S : x <= Max(S)
<1> SUFFICES ASSUME NEW S, NEW n \in Nat, S # {}, S \subseteq 0..n
             PROVE  Max(S) \in S /\ \A x \in S : x <= Max(S)
  OBVIOUS
<1> DEFINE T == {m \in Nat : \E i \in S : m = n - i}
<1>1. T \subseteq Nat /\ T # {}
  <2>1. PICK i \in S : TRUE
    OBVIOUS
  <2>2. n - i \in T
    OBVIOUS
  <2> QED BY <2>2
<1>2. PICK m \in T : \A y \in T : ~(<<y, m>> \in OpToRel(<, Nat))
  <2> HIDE DEF T
  <2> QED BY <1>1, NatLessThanWellFounded, WFMin
<1>3. \A y \in T : ~(y < m)
  BY <1>2 DEF OpToRel
<1>4. PICK k \in S : m = n - k
  OBVIOUS
<1>5. \A x \in S : x <= k
  <2> SUFFICES ASSUME NEW x \in S PROVE x <= k
    OBVIOUS
  <2>1. n - x \in T
    OBVIOUS
  <2>2. ~(n - x < n - k)
    BY <1>3, <1>4, <2>1
  <2> QED BY <2>2
<1>6. \E x \in S : \A y \in S : x >= y
  BY <1>5
<1>7. Max(S) \in S /\ \A y \in S : Max(S) >= y
  BY <1>6 DEF Max
<1> QED BY <1>7

\* The innermost scope at a position, and the ones around it, are all there are.
LEMMA InnermostIs ==
  \A prog : \A p \in Nat \ {0} :
    /\ Innermost(prog, p) \in Nat /\ Innermost(prog, p) < p
    /\ Innermost(prog, p) \in Enclosing(prog, p)
    /\ \A t \in Enclosing(prog, p) : t <= Innermost(prog, p)
    /\ Enclosing(prog, p) = {Innermost(prog, p)} \cup Enclosing(prog, Innermost(prog, p))
<1> SUFFICES ASSUME NEW prog, NEW p \in Nat \ {0}
             PROVE  /\ Innermost(prog, p) \in Nat /\ Innermost(prog, p) < p
                    /\ Innermost(prog, p) \in Enclosing(prog, p)
                    /\ \A t \in Enclosing(prog, p) : t <= Innermost(prog, p)
                    /\ Enclosing(prog, p) =
                         {Innermost(prog, p)} \cup Enclosing(prog, Innermost(prog, p))
  OBVIOUS
<1> DEFINE i == Innermost(prog, p)
<1>1. Global \in Enclosing(prog, p) /\ Enclosing(prog, p) \subseteq 0..p
  BY EnclosingIs DEF Global
<1>2. i \in Enclosing(prog, p) /\ \A t \in Enclosing(prog, p) : t <= i
  BY <1>1, MaxIs DEF Innermost
<1>3. i \in Nat /\ i < p
  BY <1>2, EnclosingIs
<1> HIDE DEF i
<1>4. \A t : t \in Enclosing(prog, p) <=> t = i \/ t \in Enclosing(prog, i)
  <2> SUFFICES ASSUME NEW t
               PROVE  t \in Enclosing(prog, p) <=> t = i \/ t \in Enclosing(prog, i)
    OBVIOUS
  <2>1. t \in Enclosing(prog, p) /\ t < i <=> t \in Enclosing(prog, i)
    BY <1>2, EnclosingNests
  <2>2. t \in Enclosing(prog, p) => t \in Nat /\ t <= i
    BY <1>2, EnclosingIs
  <2> QED BY <1>2, <1>3, <2>1, <2>2
<1> QED BY <1>2, <1>3, <1>4 DEF i

\* Innermost is the one scope around p that no other is inside of.
LEMMA InnermostIfGreatest ==
  \A prog : \A p \in Nat \ {0} : \A s \in Enclosing(prog, p) :
    (\A t \in Enclosing(prog, p) : t <= s) => s = Innermost(prog, p)
<1> SUFFICES ASSUME NEW prog, NEW p \in Nat \ {0}, NEW s \in Enclosing(prog, p),
                    \A t \in Enclosing(prog, p) : t <= s
             PROVE  s = Innermost(prog, p)
  OBVIOUS
<1>1. Innermost(prog, p) <= s /\ s <= Innermost(prog, p) /\ Innermost(prog, p) \in Nat
  BY InnermostIs
<1>2. s \in Nat
  BY EnclosingIs
<1> QED BY <1>1, <1>2

-----------------------------------------------------------------------------
(* The stack of scopes, in both passes. *)

\* The stack holds the scopes that are open at n, the outermost first, and each
\* will have ended when those above it and then one more have.
StackFits(prog, stack, n) ==
  /\ stack \in Seq(Nat) /\ Len(stack) >= 1 /\ stack[1] = Global
  /\ \A i, j \in 1..Len(stack) : i < j => stack[i] < stack[j]
  /\ \A s : s \in Enclosing(prog, n) <=> \E i \in 1..Len(stack) : stack[i] = s
  /\ \A i \in 2..Len(stack) : Open(prog, stack[i], n - 1) = Len(stack) - i + 1
  /\ Open(prog, 1, n - 1) = Len(stack) - 1

LEMMA StackBegins == \A prog : StackFits(prog, <<Global>>, 1)
<1> SUFFICES ASSUME NEW prog PROVE StackFits(prog, <<Global>>, 1)
  OBVIOUS
<1> DEFINE stack == <<Global>>
<1>1. stack \in Seq(Nat) /\ Len(stack) = 1 /\ stack[1] = Global
  BY DEF Global
<1> HIDE DEF stack
<1>2. \A s : s \in Enclosing(prog, 1) <=> s = Global
  BY EnclosingIs DEF Global
<1>3. Open(prog, 1, 1 - 1) = 0
  BY OpenOne
<1>4. StackFits(prog, stack, 1)
  BY <1>1, <1>2, <1>3 DEF StackFits
<1> QED BY <1>4 DEF stack

LEMMA TopIsInnermost ==
  \A prog, stack : \A n \in Nat \ {0} :
    StackFits(prog, stack, n) =>
      stack[Len(stack)] = Innermost(prog, n) /\ stack[Len(stack)] \in Nat
<1> SUFFICES ASSUME NEW prog, NEW stack, NEW n \in Nat \ {0}, StackFits(prog, stack, n)
             PROVE  stack[Len(stack)] = Innermost(prog, n) /\ stack[Len(stack)] \in Nat
  OBVIOUS
<1>1. Len(stack) \in Nat /\ Len(stack) \in 1..Len(stack)
  BY DEF StackFits
<1>2. stack[Len(stack)] \in Enclosing(prog, n)
  BY <1>1 DEF StackFits
<1>3. \A t \in Enclosing(prog, n) : t <= stack[Len(stack)]
  <2> SUFFICES ASSUME NEW t \in Enclosing(prog, n) PROVE t <= stack[Len(stack)]
    OBVIOUS
  <2>1. PICK i \in 1..Len(stack) : stack[i] = t
    BY DEF StackFits
  <2>2. \A k \in 1..Len(stack) : stack[k] \in Nat
    <3>1. stack \in Seq(Nat)
      BY DEF StackFits
    <3> QED BY <3>1
  <2>3. CASE i = Len(stack)
    BY <1>1, <2>1, <2>2, <2>3
  <2>4. CASE i # Len(stack)
    <3>1. i < Len(stack)
      BY <1>1, <2>4
    <3>2. stack[i] < stack[Len(stack)]
      BY <1>1, <3>1 DEF StackFits
    <3> QED BY <1>1, <2>1, <2>2, <3>2
  <2> QED BY <2>3, <2>4
<1>4. stack[Len(stack)] \in Nat
  BY <1>2, EnclosingIs
<1> QED BY <1>2, <1>3, <1>4, InnermostIfGreatest

\* An item that neither begins nor ends a scope.
LEMMA StackStays ==
  \A prog, stack : \A n \in Nat \ {0} :
    /\ StackFits(prog, stack, n)
    /\ prog[n].kind \notin Scopings /\ prog[n].kind # "end"
    => StackFits(prog, stack, n + 1)
<1> SUFFICES ASSUME NEW prog, NEW stack, NEW n \in Nat \ {0}, StackFits(prog, stack, n),
                    prog[n].kind \notin Scopings, prog[n].kind # "end"
             PROVE  StackFits(prog, stack, n + 1)
  OBVIOUS
<1>1. \A s \in Int : s <= n => Open(prog, s, n) = Open(prog, s, n - 1)
  BY OpenNext
<1>2. \A s \in Enclosing(prog, n) : s \in Int /\ s <= n
  BY EnclosingIs
<1>3. \A i \in 1..Len(stack) : stack[i] \in Enclosing(prog, n)
  BY DEF StackFits
<1>4. \A i \in 2..Len(stack) : Open(prog, stack[i], (n + 1) - 1) = Len(stack) - i + 1
  <2> SUFFICES ASSUME NEW i \in 2..Len(stack)
               PROVE  Open(prog, stack[i], (n + 1) - 1) = Len(stack) - i + 1
    OBVIOUS
  <2>1. i \in 1..Len(stack) /\ (n + 1) - 1 = n
    OBVIOUS
  <2>2. Open(prog, stack[i], n) = Open(prog, stack[i], n - 1)
    BY <1>1, <1>2, <1>3, <2>1
  <2> QED BY <2>1, <2>2 DEF StackFits
<1>5. Open(prog, 1, (n + 1) - 1) = Len(stack) - 1
  BY <1>1 DEF StackFits
<1>6. \A s \in Enclosing(prog, n) : s # Global => Open(prog, s, n) > 0
  <2> SUFFICES ASSUME NEW s \in Enclosing(prog, n), s # Global PROVE Open(prog, s, n) > 0
    OBVIOUS
  <2>1. PICK i \in 1..Len(stack) : stack[i] = s
    BY DEF StackFits
  <2>2. i \in 2..Len(stack)
    BY <2>1 DEF StackFits
  <2>3. (n + 1) - 1 = n /\ Len(stack) \in Nat
    BY DEF StackFits
  <2> QED BY <1>4, <2>1, <2>2, <2>3
<1>7. \A s : s \in Enclosing(prog, n + 1) <=> s \in Enclosing(prog, n)
  BY <1>6, EnclosingStep, EnclosingIs DEF Global
<1> QED BY <1>4, <1>5, <1>7 DEF StackFits

\* A scope begins.
LEMMA StackGrows ==
  \A prog, stack : \A n \in Nat \ {0} :
    StackFits(prog, stack, n) /\ prog[n].kind \in Scopings
      => StackFits(prog, Append(stack, n), n + 1)
<1> SUFFICES ASSUME NEW prog, NEW stack, NEW n \in Nat \ {0}, StackFits(prog, stack, n),
                    prog[n].kind \in Scopings
             PROVE  StackFits(prog, Append(stack, n), n + 1)
  OBVIOUS
<1> DEFINE grown == Append(stack, n)
           m == Len(stack)
<1>0. stack \in Seq(Nat) /\ m \in Nat /\ m >= 1 /\ stack[1] = Global
  BY DEF StackFits
<1>1. /\ grown \in Seq(Nat) /\ Len(grown) = m + 1
      /\ \A i \in 1..m : grown[i] = stack[i]
      /\ grown[m + 1] = n
  BY <1>0
<1> HIDE DEF grown, m
<1>2. \A i \in 1..m : stack[i] \in Enclosing(prog, n) /\ stack[i] \in Nat /\ stack[i] < n
  <2>1. \A i \in 1..m : stack[i] \in Enclosing(prog, n)
    BY DEF StackFits, m
  <2> QED BY <2>1, EnclosingIs
<1>3. \A i, j \in 1..(m + 1) : i < j => grown[i] < grown[j]
  <2> SUFFICES ASSUME NEW i \in 1..(m + 1), NEW j \in 1..(m + 1), i < j
               PROVE  grown[i] < grown[j]
    OBVIOUS
  <2>1. i \in 1..m
    BY <1>0
  <2>2. CASE j \in 1..m
    <3>1. stack[i] < stack[j]
      BY <2>1, <2>2 DEF StackFits, m
    <3> QED BY <1>1, <2>1, <2>2, <3>1
  <2>3. CASE j \notin 1..m
    <3>1. j = m + 1
      BY <1>0, <2>3
    <3> QED BY <1>1, <1>2, <2>1, <3>1
  <2> QED BY <2>2, <2>3
<1>4. \A s \in Int : s <= n => Open(prog, s, n) = Open(prog, s, n - 1) + 1
  BY OpenNext
<1>5. \A i \in 2..m : Open(prog, stack[i], n) = m - i + 2
  <2> SUFFICES ASSUME NEW i \in 2..m PROVE Open(prog, stack[i], n) = m - i + 2
    OBVIOUS
  <2>1. i \in 1..m
    BY <1>0
  <2>2. Open(prog, stack[i], n) = Open(prog, stack[i], n - 1) + 1
    BY <1>2, <1>4, <2>1
  <2>3. Open(prog, stack[i], n - 1) = m - i + 1
    BY DEF StackFits, m
  <2> QED BY <1>0, <2>2, <2>3
<1>6. Open(prog, n, n) = 1
  BY OpenOne
<1>7. \A i \in 2..(m + 1) : Open(prog, grown[i], (n + 1) - 1) = (m + 1) - i + 1
  <2> SUFFICES ASSUME NEW i \in 2..(m + 1)
               PROVE  Open(prog, grown[i], (n + 1) - 1) = (m + 1) - i + 1
    OBVIOUS
  <2>1. (n + 1) - 1 = n
    OBVIOUS
  <2>2. CASE i \in 2..m
    <3>1. grown[i] = stack[i]
      BY <1>0, <1>1, <2>2
    <3>2. Open(prog, stack[i], n) = m - i + 2
      BY <1>5, <2>2
    <3> QED BY <1>0, <2>1, <3>1, <3>2
  <2>3. CASE i \notin 2..m
    <3>1. i = m + 1
      BY <1>0, <2>3
    <3> QED BY <1>0, <1>1, <1>6, <2>1, <3>1
  <2> QED BY <2>2, <2>3
<1>8. Open(prog, 1, (n + 1) - 1) = (m + 1) - 1
  <2>1. Open(prog, 1, n) = Open(prog, 1, n - 1) + 1
    BY <1>4
  <2>2. Open(prog, 1, n - 1) = m - 1
    BY DEF StackFits, m
  <2>3. (n + 1) - 1 = n
    OBVIOUS
  <2> QED BY <1>0, <2>1, <2>2, <2>3
<1>9. \A s : s \in Enclosing(prog, n + 1) <=> s \in Enclosing(prog, n) \/ s = n
  <2> SUFFICES ASSUME NEW s
               PROVE  s \in Enclosing(prog, n + 1) <=> s \in Enclosing(prog, n) \/ s = n
    OBVIOUS
  <2>1. s \in Enclosing(prog, n) /\ s # Global => Open(prog, s, n) > 0
    <3> SUFFICES ASSUME s \in Enclosing(prog, n), s # Global PROVE Open(prog, s, n) > 0
      OBVIOUS
    <3>1. PICK i \in 1..m : stack[i] = s
      BY DEF StackFits, m
    <3>2. i \in 2..m
      BY <1>0, <3>1
    <3>3. Open(prog, s, n) = m - i + 2
      BY <1>5, <3>1, <3>2
    <3> QED BY <1>0, <3>2, <3>3
  <2>2. Global \in Enclosing(prog, n)
    BY EnclosingIs DEF Global
  <2>3. s \in Enclosing(prog, n + 1) <=>
          \/ s = Global
          \/ s # Global /\ s \in Enclosing(prog, n) /\ Open(prog, s, n) > 0
          \/ s = n /\ prog[n].kind \in Scopings
    BY EnclosingStep
  <2> QED BY <2>1, <2>2, <2>3
<1>10. \A s : s \in Enclosing(prog, n + 1) <=> \E i \in 1..(m + 1) : grown[i] = s
  <2> SUFFICES ASSUME NEW s
               PROVE  s \in Enclosing(prog, n + 1) <=> \E i \in 1..(m + 1) : grown[i] = s
    OBVIOUS
  <2>1. s \in Enclosing(prog, n) <=> \E i \in 1..m : stack[i] = s
    BY DEF StackFits, m
  <2>2. \A i : i \in 1..(m + 1) <=> i \in 1..m \/ i = m + 1
    BY <1>0
  <2>3. (\E i \in 1..(m + 1) : grown[i] = s) <=> (\E i \in 1..m : stack[i] = s) \/ s = n
    BY <1>1, <2>2
  <2> QED BY <1>9, <2>1, <2>3
<1>11. grown[1] = Global /\ Len(grown) >= 1
  BY <1>0, <1>1
<1>12. StackFits(prog, grown, n + 1)
  BY <1>1, <1>3, <1>7, <1>8, <1>10, <1>11 DEF StackFits
<1> QED BY <1>12 DEF grown

\* A scope ends.
LEMMA StackShrinks ==
  \A prog, stack : \A n \in Nat \ {0} :
    StackFits(prog, stack, n) /\ prog[n].kind = "end" /\ Open(prog, 1, n) >= 0
      => StackFits(prog, SubSeq(stack, 1, Len(stack) - 1), n + 1)
<1> SUFFICES ASSUME NEW prog, NEW stack, NEW n \in Nat \ {0}, StackFits(prog, stack, n),
                    prog[n].kind = "end", Open(prog, 1, n) >= 0
             PROVE  StackFits(prog, SubSeq(stack, 1, Len(stack) - 1), n + 1)
  OBVIOUS
<1> DEFINE m == Len(stack) - 1
           popped == SubSeq(stack, 1, m)
<1>0. stack \in Seq(Nat) /\ m \in Nat /\ stack[1] = Global /\ Len(stack) = m + 1
  BY DEF StackFits
<1>1. \A s \in Int : s <= n => Open(prog, s, n) = Open(prog, s, n - 1) - 1
  BY OpenNext
<1>2. m >= 1
  <2>1. Open(prog, 1, n) = Open(prog, 1, n - 1) - 1
    BY <1>1
  <2>2. Open(prog, 1, n - 1) = m
    BY DEF StackFits
  <2> HIDE DEF m
  <2> QED BY <1>0, <2>1, <2>2
<1>3. /\ popped \in Seq(Nat) /\ Len(popped) = m
      /\ \A i \in 1..m : popped[i] = stack[i]
  BY <1>0
<1> HIDE DEF m, popped
<1>4. \A i \in 1..(m + 1) : stack[i] \in Enclosing(prog, n) /\ stack[i] \in Nat /\ stack[i] < n
  <2>1. \A i \in 1..(m + 1) : stack[i] \in Enclosing(prog, n)
    BY <1>0 DEF StackFits
  <2> QED BY <2>1, EnclosingIs
<1>5. \A i, j \in 1..m : i < j => popped[i] < popped[j]
  <2> SUFFICES ASSUME NEW i \in 1..m, NEW j \in 1..m, i < j PROVE popped[i] < popped[j]
    OBVIOUS
  <2>1. i \in 1..Len(stack) /\ j \in 1..Len(stack)
    BY <1>0
  <2>2. stack[i] < stack[j]
    BY <2>1 DEF StackFits
  <2> QED BY <1>3, <2>2
<1>6. \A i \in 2..(m + 1) : Open(prog, stack[i], n) = (m + 1) - i
  <2> SUFFICES ASSUME NEW i \in 2..(m + 1) PROVE Open(prog, stack[i], n) = (m + 1) - i
    OBVIOUS
  <2>1. i \in 1..(m + 1)
    BY <1>0
  <2>2. Open(prog, stack[i], n) = Open(prog, stack[i], n - 1) - 1
    BY <1>1, <1>4, <2>1
  <2>3. Open(prog, stack[i], n - 1) = (m + 1) - i + 1
    BY <1>0 DEF StackFits
  <2> QED BY <1>0, <2>2, <2>3
<1>7. \A i \in 2..m : Open(prog, popped[i], (n + 1) - 1) = m - i + 1
  <2> SUFFICES ASSUME NEW i \in 2..m
               PROVE  Open(prog, popped[i], (n + 1) - 1) = m - i + 1
    OBVIOUS
  <2>1. (n + 1) - 1 = n /\ i \in 1..m /\ i \in 2..(m + 1)
    BY <1>0
  <2> QED BY <1>0, <1>3, <1>6, <2>1
<1>8. Open(prog, 1, (n + 1) - 1) = m - 1
  <2>1. Open(prog, 1, n) = Open(prog, 1, n - 1) - 1
    BY <1>1
  <2>2. Open(prog, 1, n - 1) = (m + 1) - 1
    BY <1>0 DEF StackFits
  <2>3. (n + 1) - 1 = n
    OBVIOUS
  <2> QED BY <1>0, <2>1, <2>2, <2>3
<1>9. \A s : s \in Enclosing(prog, n + 1) <=> \E i \in 1..m : popped[i] = s
  <2>1. \A i \in 2..m : Open(prog, stack[i], n) > 0
    <3> SUFFICES ASSUME NEW i \in 2..m PROVE Open(prog, stack[i], n) > 0
      OBVIOUS
    <3>1. i \in 2..(m + 1)
      BY <1>0
    <3> QED BY <1>0, <1>6, <3>1
  <2>2. ~(Open(prog, stack[m + 1], n) > 0)
    BY <1>0, <1>2, <1>6
  <2>3. "end" \notin Scopings
    BY DEF Scopings
  <2> SUFFICES ASSUME NEW s
               PROVE  s \in Enclosing(prog, n + 1) <=> \E i \in 1..m : popped[i] = s
    OBVIOUS
  <2>4. s \in Enclosing(prog, n + 1) <=>
          \/ s = Global
          \/ s # Global /\ s \in Enclosing(prog, n) /\ Open(prog, s, n) > 0
    BY <2>3, EnclosingStep
  <2>5. ASSUME NEW i \in 1..m, popped[i] = s PROVE s \in Enclosing(prog, n + 1)
    <3>1. stack[i] = s /\ s \in Enclosing(prog, n)
      BY <1>0, <1>3, <1>4, <2>5
    <3>2. i = 1 => s = Global
      BY <1>0, <3>1
    <3>3. i # 1 => Open(prog, s, n) > 0
      <4>1. i # 1 => i \in 2..m
        BY <1>0
      <4> QED BY <2>1, <3>1, <4>1
    <3> QED BY <2>4, <3>1, <3>2, <3>3
  <2>6. CASE s = Global
    <3>1. 1 \in 1..m
      BY <1>0, <1>2
    <3>2. popped[1] = s
      BY <1>0, <1>3, <2>6, <3>1
    <3> QED BY <2>4, <2>6, <3>1, <3>2
  <2>7. ASSUME s # Global, s \in Enclosing(prog, n), Open(prog, s, n) > 0
        PROVE  \E i \in 1..m : popped[i] = s
    <3>1. PICK i \in 1..(m + 1) : stack[i] = s
      BY <1>0, <2>7 DEF StackFits
    <3>2. i # m + 1
      BY <2>2, <2>7, <3>1
    <3>3. i \in 1..m
      BY <1>0, <3>2
    <3> QED BY <1>3, <3>1, <3>3
  <2> QED BY <2>4, <2>5, <2>6, <2>7
<1>10. popped[1] = Global /\ Len(popped) >= 1
  <2>1. 1 \in 1..m
    BY <1>0, <1>2
  <2> QED BY <1>0, <1>2, <1>3, <2>1
<1>11. StackFits(prog, popped, n + 1)
  BY <1>3, <1>5, <1>7, <1>8, <1>9, <1>10 DEF StackFits
<1> QED BY <1>11 DEF popped, m

-----------------------------------------------------------------------------
(* Symbols. *)

LEMMA ClassIs ==
  /\ ClassOf("ref") = "id" /\ ClassOf("var") = "id" /\ ClassOf("builtin") = "type"
  /\ \A kind : ClassOf(kind) \in {"id", "type", "label"}
  /\ \A kind \in Uses : ClassOf(kind) = "id" => kind = "ref"
<1>1. ClassOf("ref") = "id" /\ ClassOf("var") = "id" /\ ClassOf("builtin") = "type"
  BY DEF ClassOf
<1>2. \A kind : ClassOf(kind) \in {"id", "type", "label"}
  BY DEF ClassOf
<1>3. ASSUME NEW kind \in Uses, ClassOf(kind) = "id" PROVE kind = "ref"
  <2>1. kind = "ref" \/ kind = "jump" \/ kind = "type"
    BY DEF Uses
  <2>2. ClassOf("jump") = "label" /\ ClassOf("type") = "type"
    BY DEF ClassOf
  <2> QED BY <1>3, <2>1, <2>2
<1> QED BY <1>1, <1>2, <1>3

LEMMA KindsAre ==
  /\ Declarations \cap Uses = {} /\ Uses \cap Scopings = {}
  /\ \A kind \in Declarations \cup Uses :
       kind \notin {"comp", "repeat", "end"} /\ kind # "builtin"
  /\ "var" \in Declarations /\ "ref" \in Uses
BY DEF Declarations, Uses, Scopings

LEMMA ItemIs ==
  \A it \in Items : it.kind \in Declarations \cup Uses => it.name \in Names
<1> SUFFICES ASSUME NEW it \in Items, it.kind \in Declarations \cup Uses
             PROVE  it.name \in Names
  OBVIOUS
<1>1. it.kind \notin {"comp", "repeat", "end"}
  BY KindsAre
<1> QED BY <1>1 DEF Items

LEMMA SymbolIs ==
  \A it, scope, pos :
    LET s == Symbol(it, scope, pos) IN
      /\ s.key = Key(it) /\ s.kind = it.kind /\ s.scope = scope /\ s.pos = pos
      /\ it.name \in Names /\ it.kind \in Declarations \cup {"builtin"}
         /\ scope \in Nat /\ pos \in Nat => s \in Symbols
<1> SUFFICES ASSUME NEW it, NEW scope, NEW pos
             PROVE  LET s == Symbol(it, scope, pos) IN
                      /\ s.key = Key(it) /\ s.kind = it.kind /\ s.scope = scope /\ s.pos = pos
                      /\ it.name \in Names /\ it.kind \in Declarations \cup {"builtin"}
                         /\ scope \in Nat /\ pos \in Nat => s \in Symbols
  OBVIOUS
<1>1. it.name \in Names => Key(it) \in {"id", "type", "label"} \X Names
  BY ClassIs DEF Key
<1> DEFINE K == {"id", "type", "label"} \X Names
           D == Declarations \cup {"builtin"}
<1>2. Symbols = [key : K, kind : D, scope : Nat, pos : Nat]
  BY DEF Symbols
<1>3. it.name \in Names => Key(it) \in K
  BY <1>1
<1> HIDE DEF K, D
<1>4. it.name \in Names /\ it.kind \in D /\ scope \in Nat /\ pos \in Nat
        => Symbol(it, scope, pos) \in Symbols
  BY <1>2, <1>3 DEF Symbol
<1> QED BY <1>4 DEF Symbol, D

LEMMA CntIs ==
  \A r \in Nat :
    /\ CntSymbol(r).key = <<"id", Cnt>> /\ CntSymbol(r).kind = "var"
    /\ CntSymbol(r).scope = r /\ CntSymbol(r).pos = r /\ CntSymbol(r) \in Symbols
<1> SUFFICES ASSUME NEW r \in Nat
             PROVE  /\ CntSymbol(r).key = <<"id", Cnt>> /\ CntSymbol(r).kind = "var"
                    /\ CntSymbol(r).scope = r /\ CntSymbol(r).pos = r /\ CntSymbol(r) \in Symbols
  OBVIOUS
<1> DEFINE it == [kind |-> "var", name |-> Cnt]
<1>1. it.kind = "var" /\ it.name = Cnt /\ CntSymbol(r) = Symbol(it, r, r)
  BY DEF CntSymbol
<1> HIDE DEF it
<1>2. it.name \in Names /\ it.kind \in Declarations \cup {"builtin"}
  BY <1>1, ReservedAssumption, KindsAre
<1>3. Key(it) = <<"id", Cnt>>
  BY <1>1, ClassIs DEF Key
<1> QED BY <1>1, <1>2, <1>3, SymbolIs

LEMMA BuiltInIs ==
  \A m \in BuiltInSymbols :
    \E T \in BuiltIns : /\ m.key = <<"type", T>> /\ m.kind = "builtin"
                        /\ m.scope = Global /\ m.pos = 0 /\ m \in Symbols
<1> SUFFICES ASSUME NEW T \in BuiltIns, NEW m,
                    m = Symbol([kind |-> "builtin", name |-> T], Global, 0)
             PROVE  /\ m.key = <<"type", T>> /\ m.kind = "builtin"
                    /\ m.scope = Global /\ m.pos = 0 /\ m \in Symbols
  BY DEF BuiltInSymbols
<1> DEFINE it == [kind |-> "builtin", name |-> T]
<1>1. it.kind = "builtin" /\ it.name = T /\ m = Symbol(it, Global, 0)
  OBVIOUS
<1> HIDE DEF it
<1>2. it.name \in Names /\ it.kind \in Declarations \cup {"builtin"}
  BY <1>1, ReservedAssumption
<1>3. Key(it) = <<"type", T>>
  BY <1>1, ClassIs DEF Key
<1>4. Global \in Nat /\ 0 \in Nat
  BY DEF Global
<1> QED BY <1>1, <1>2, <1>3, <1>4, SymbolIs

LEMMA ImplicitIs ==
  \A it : it.name \in Names =>
    LET m == ImplicitSymbol(it) IN
      /\ m.key = <<"id", it.name>> /\ m.kind = "var" /\ m.scope = Global /\ m.pos = 0
      /\ m \in Symbols
      /\ it.kind = "ref" => m.key = Key(it)
<1> SUFFICES ASSUME NEW it, it.name \in Names, NEW m, m = ImplicitSymbol(it)
             PROVE  /\ m.key = <<"id", it.name>> /\ m.kind = "var" /\ m.scope = Global
                    /\ m.pos = 0 /\ m \in Symbols
                    /\ it.kind = "ref" => m.key = Key(it)
  OBVIOUS
<1> DEFINE var == [kind |-> "var", name |-> it.name]
<1>1. var.kind = "var" /\ var.name = it.name /\ m = Symbol(var, Global, 0)
  BY DEF ImplicitSymbol
<1> HIDE DEF var
<1>2. var.name \in Names /\ var.kind \in Declarations \cup {"builtin"}
  BY <1>1, KindsAre
<1>3. Key(var) = <<"id", it.name>>
  BY <1>1, ClassIs DEF Key
<1>4. Global \in Nat /\ 0 \in Nat
  BY DEF Global
<1>5. it.kind = "ref" => Key(it) = <<"id", it.name>>
  BY ClassIs DEF Key
<1> QED BY <1>1, <1>2, <1>3, <1>4, <1>5, SymbolIs

DeclaredAt(prog, d) == Symbol(prog[d], Innermost(prog, d), d)

\* What is in the tables once the declarations before n and the repeats before
\* k have been visited.
TextSymbols(prog, n, k) ==
  {DeclaredAt(prog, d) : d \in {d \in Positions(prog, Declarations) : d < n}}
  \cup {CntSymbol(d) : d \in {d \in Positions(prog, {"repeat"}) : d < k}}
  \cup BuiltInSymbols

LEMMA PositionIs ==
  \A prog \in Programs : \A kinds : \A p \in Positions(prog, kinds) :
    /\ p \in Nat \ {0} /\ p < Len(prog) + 1 /\ p \in 1..Len(prog)
    /\ prog[p] \in Items /\ prog[p].kind \in kinds
<1> SUFFICES ASSUME NEW prog \in Programs, NEW kinds, NEW p \in Positions(prog, kinds)
             PROVE  /\ p \in Nat \ {0} /\ p < Len(prog) + 1 /\ p \in 1..Len(prog)
                    /\ prog[p] \in Items /\ prog[p].kind \in kinds
  OBVIOUS
<1>1. prog \in Seq(Items) /\ p \in DOMAIN prog /\ prog[p].kind \in kinds
  BY ProgramsAssumption DEF Positions
<1>2. DOMAIN prog = 1..Len(prog) /\ Len(prog) \in Nat /\ prog[p] \in Items
  BY <1>1
<1> QED BY <1>1, <1>2

LEMMA DeclaredAtIs ==
  \A prog \in Programs : \A d \in Positions(prog, Declarations) :
    /\ DeclaredAt(prog, d).key = Key(prog[d]) /\ DeclaredAt(prog, d).kind = prog[d].kind
    /\ DeclaredAt(prog, d).scope = Innermost(prog, d) /\ DeclaredAt(prog, d).pos = d
    /\ DeclaredAt(prog, d) \in Symbols
<1> SUFFICES ASSUME NEW prog \in Programs, NEW d \in Positions(prog, Declarations)
             PROVE  /\ DeclaredAt(prog, d).key = Key(prog[d])
                    /\ DeclaredAt(prog, d).kind = prog[d].kind
                    /\ DeclaredAt(prog, d).scope = Innermost(prog, d)
                    /\ DeclaredAt(prog, d).pos = d
                    /\ DeclaredAt(prog, d) \in Symbols
  OBVIOUS
<1>1. d \in Nat \ {0} /\ prog[d] \in Items /\ prog[d].kind \in Declarations
  BY PositionIs
<1>2. prog[d].name \in Names
  BY <1>1, ItemIs
<1>3. Innermost(prog, d) \in Nat
  BY <1>1, InnermostIs
<1> QED BY <1>1, <1>2, <1>3, SymbolIs DEF DeclaredAt

LEMMA TextIs ==
  \A prog \in Programs : \A n, k \in Nat :
    /\ TextSymbols(prog, n, k) \subseteq Symbols
    /\ \A m \in TextSymbols(prog, n, k) :
         \/ \E d \in Positions(prog, Declarations) : d < n /\ m = DeclaredAt(prog, d)
         \/ \E d \in Positions(prog, {"repeat"}) : d < k /\ m = CntSymbol(d)
         \/ m \in BuiltInSymbols
<1> SUFFICES ASSUME NEW prog \in Programs, NEW n \in Nat, NEW k \in Nat,
                    NEW m \in TextSymbols(prog, n, k)
             PROVE  /\ m \in Symbols
                    /\ \/ \E d \in Positions(prog, Declarations) : d < n /\ m = DeclaredAt(prog, d)
                       \/ \E d \in Positions(prog, {"repeat"}) : d < k /\ m = CntSymbol(d)
                       \/ m \in BuiltInSymbols
  OBVIOUS
<1>1. \/ \E d \in Positions(prog, Declarations) : d < n /\ m = DeclaredAt(prog, d)
      \/ \E d \in Positions(prog, {"repeat"}) : d < k /\ m = CntSymbol(d)
      \/ m \in BuiltInSymbols
  BY DEF TextSymbols
<1>2. ASSUME NEW d \in Positions(prog, Declarations), m = DeclaredAt(prog, d)
      PROVE  m \in Symbols
  BY <1>2, DeclaredAtIs
<1>3. ASSUME NEW d \in Positions(prog, {"repeat"}), m = CntSymbol(d) PROVE m \in Symbols
  <2>1. d \in Nat
    BY PositionIs
  <2> QED BY <1>3, <2>1, CntIs
<1>4. m \in BuiltInSymbols => m \in Symbols
  BY BuiltInIs
<1> QED BY <1>1, <1>2, <1>3, <1>4

LEMMA BeforeStep ==
  \A prog \in Programs : \A n \in 1..Len(prog) : \A kinds :
    /\ prog[n].kind \in kinds =>
         {d \in Positions(prog, kinds) : d < n + 1}
           = {d \in Positions(prog, kinds) : d < n} \cup {n}
    /\ prog[n].kind \notin kinds =>
         {d \in Positions(prog, kinds) : d < n + 1} = {d \in Positions(prog, kinds) : d < n}
<1> SUFFICES ASSUME NEW prog \in Programs, NEW n \in 1..Len(prog), NEW kinds
             PROVE  /\ prog[n].kind \in kinds =>
                         {d \in Positions(prog, kinds) : d < n + 1}
                           = {d \in Positions(prog, kinds) : d < n} \cup {n}
                    /\ prog[n].kind \notin kinds =>
                         {d \in Positions(prog, kinds) : d < n + 1}
                           = {d \in Positions(prog, kinds) : d < n}
  OBVIOUS
<1>1. n \in DOMAIN prog
  <2>1. prog \in Seq(Items)
    BY ProgramsAssumption
  <2> QED BY <2>1
<1>2. n \in Positions(prog, kinds) <=> prog[n].kind \in kinds
  BY <1>1 DEF Positions
<1>3. \A d \in Positions(prog, kinds) : d < n + 1 <=> d < n \/ d = n
  <2>1. \A d \in Positions(prog, kinds) : d \in Nat
    BY PositionIs
  <2> QED BY <2>1
<1> QED BY <1>2, <1>3

\* What visiting an item adds.
LEMMA TextGrows ==
  \A prog \in Programs : \A n \in 1..Len(prog) : prog[n].kind \in Declarations =>
    \A k : TextSymbols(prog, n + 1, k) = TextSymbols(prog, n, k) \cup {DeclaredAt(prog, n)}
<1> SUFFICES ASSUME NEW prog \in Programs, NEW n \in 1..Len(prog),
                    prog[n].kind \in Declarations, NEW k
             PROVE  TextSymbols(prog, n + 1, k)
                      = TextSymbols(prog, n, k) \cup {DeclaredAt(prog, n)}
  OBVIOUS
<1> DEFINE S == {d \in Positions(prog, Declarations) : d < n}
<1>1. {d \in Positions(prog, Declarations) : d < n + 1} = S \cup {n}
  BY BeforeStep
<1> HIDE DEF S
<1>2. {DeclaredAt(prog, d) : d \in S \cup {n}}
        = {DeclaredAt(prog, d) : d \in S} \cup {DeclaredAt(prog, n)}
  OBVIOUS
<1> QED BY <1>1, <1>2 DEF TextSymbols, S

LEMMA TextStays ==
  \A prog \in Programs : \A n \in 1..Len(prog) : prog[n].kind \notin Declarations =>
    \A k : TextSymbols(prog, n + 1, k) = TextSymbols(prog, n, k)
<1> SUFFICES ASSUME NEW prog \in Programs, NEW n \in 1..Len(prog),
                    prog[n].kind \notin Declarations, NEW k
             PROVE  TextSymbols(prog, n + 1, k) = TextSymbols(prog, n, k)
  OBVIOUS
<1>1. {d \in Positions(prog, Declarations) : d < n + 1}
        = {d \in Positions(prog, Declarations) : d < n}
  BY BeforeStep
<1> QED BY <1>1 DEF TextSymbols

LEMMA CountGrows ==
  \A prog \in Programs : \A n \in 1..Len(prog) : prog[n].kind = "repeat" =>
    \A k : TextSymbols(prog, k, n + 1) = TextSymbols(prog, k, n) \cup {CntSymbol(n)}
<1> SUFFICES ASSUME NEW prog \in Programs, NEW n \in 1..Len(prog),
                    prog[n].kind = "repeat", NEW k
             PROVE  TextSymbols(prog, k, n + 1) = TextSymbols(prog, k, n) \cup {CntSymbol(n)}
  OBVIOUS
<1> DEFINE S == {d \in Positions(prog, {"repeat"}) : d < n}
<1>1. prog[n].kind \in {"repeat"}
  OBVIOUS
<1>2. {d \in Positions(prog, {"repeat"}) : d < n + 1} = S \cup {n}
  BY <1>1, BeforeStep
<1> HIDE DEF S
<1>3. {CntSymbol(d) : d \in S \cup {n}} = {CntSymbol(d) : d \in S} \cup {CntSymbol(n)}
  OBVIOUS
<1> QED BY <1>2, <1>3 DEF TextSymbols, S

LEMMA CountStays ==
  \A prog \in Programs : \A n \in 1..Len(prog) : prog[n].kind # "repeat" =>
    \A k : TextSymbols(prog, k, n + 1) = TextSymbols(prog, k, n)
<1> SUFFICES ASSUME NEW prog \in Programs, NEW n \in 1..Len(prog),
                    prog[n].kind # "repeat", NEW k
             PROVE  TextSymbols(prog, k, n + 1) = TextSymbols(prog, k, n)
  OBVIOUS
<1>1. prog[n].kind \notin {"repeat"}
  OBVIOUS
<1>2. {d \in Positions(prog, {"repeat"}) : d < n + 1} = {d \in Positions(prog, {"repeat"}) : d < n}
  BY <1>1, BeforeStep
<1> QED BY <1>2 DEF TextSymbols

LEMMA TextBegins == \A prog \in Programs : TextSymbols(prog, 1, 1) = BuiltInSymbols
<1> SUFFICES ASSUME NEW prog \in Programs PROVE TextSymbols(prog, 1, 1) = BuiltInSymbols
  OBVIOUS
<1>1. \A kinds : {d \in Positions(prog, kinds) : d < 1} = {}
  BY PositionIs
<1> QED BY <1>1 DEF TextSymbols

LEMMA TextEnds ==
  \A prog \in Programs : TextSymbols(prog, Len(prog) + 1, Len(prog) + 1) = Declared(prog)
<1> SUFFICES ASSUME NEW prog \in Programs
             PROVE  TextSymbols(prog, Len(prog) + 1, Len(prog) + 1) = Declared(prog)
  OBVIOUS
<1>1. \A kinds : {d \in Positions(prog, kinds) : d < Len(prog) + 1} = Positions(prog, kinds)
  BY PositionIs
<1> QED BY <1>1 DEF TextSymbols, Declared, DeclaredAt

LEMMA TextIsMonotonic ==
  \A prog \in Programs : \A n, k : \A j \in Nat : k \in Nat /\ k <= j =>
    TextSymbols(prog, n, k) \subseteq TextSymbols(prog, n, j)
<1> SUFFICES ASSUME NEW prog \in Programs, NEW n, NEW k \in Nat, NEW j \in Nat, k <= j
             PROVE  TextSymbols(prog, n, k) \subseteq TextSymbols(prog, n, j)
  OBVIOUS
<1>1. {d \in Positions(prog, {"repeat"}) : d < k} \subseteq {d \in Positions(prog, {"repeat"}) : d < j}
  <2>1. \A d \in Positions(prog, {"repeat"}) : d \in Nat
    BY PositionIs
  <2> QED BY <2>1
<1> QED BY <1>1 DEF TextSymbols

-----------------------------------------------------------------------------
(* Scope::resolve: the walk along enclosing_. *)

\* Every scope that begins before n is enclosed by the innermost around it.
ChainFits(prog, chain, n) ==
  chain = [d \in {d \in Positions(prog, Scopings) : d < n} |-> Innermost(prog, d)]

LEMMA ChainCloses ==
  \A prog \in Programs : \A chain : \A n \in Nat : ChainFits(prog, chain, n) =>
    \A d \in DOMAIN chain :
      /\ d \in Nat \ {0} /\ chain[d] \in Nat /\ chain[d] < d
      /\ chain[d] \in {Global} \cup DOMAIN chain
      /\ Enclosing(prog, d) = {chain[d]} \cup Enclosing(prog, chain[d])
<1> SUFFICES ASSUME NEW prog \in Programs, NEW chain, NEW n \in Nat, ChainFits(prog, chain, n),
                    NEW d \in DOMAIN chain
             PROVE  /\ d \in Nat \ {0} /\ chain[d] \in Nat /\ chain[d] < d
                    /\ chain[d] \in {Global} \cup DOMAIN chain
                    /\ Enclosing(prog, d) = {chain[d]} \cup Enclosing(prog, chain[d])
  OBVIOUS
<1>1. d \in Positions(prog, Scopings) /\ d < n /\ chain[d] = Innermost(prog, d)
  BY DEF ChainFits
<1>2. d \in Nat \ {0} /\ d \in 1..Len(prog)
  BY <1>1, PositionIs
<1> DEFINE i == chain[d]
<1>3. /\ i \in Nat /\ i < d /\ i \in Enclosing(prog, d)
      /\ Enclosing(prog, d) = {i} \cup Enclosing(prog, i)
  BY <1>1, <1>2, InnermostIs
<1> HIDE DEF i
<1>4. ASSUME i # Global PROVE i \in DOMAIN chain
  <2>1. prog[i].kind \in Scopings
    BY <1>2, <1>3, <1>4, EnclosingIs
  <2>2. prog \in Seq(Items)
    BY ProgramsAssumption
  <2>3. i \in DOMAIN prog
    <3>1. i \in 1..Len(prog)
      BY <1>2, <1>3, <1>4, <2>2 DEF Global
    <3> QED BY <2>2, <3>1
  <2>4. i \in Positions(prog, Scopings)
    BY <2>1, <2>3 DEF Positions
  <2>5. i < n
    BY <1>1, <1>2, <1>3
  <2> QED BY <2>4, <2>5 DEF ChainFits
<1> QED BY <1>2, <1>3, <1>4 DEF i

\* The value From has at s, told by those it has at the scopes around s.
FoundFrom(f, s, key, cur) ==
  IF Found(s, key, cur) # {} THEN CHOOSE m \in Found(s, key, cur) : TRUE
  ELSE IF s = Global THEN None
  ELSE f[enclosing[s]]

From(key, cur) ==
  CHOOSE f : f = [s \in {Global} \cup DOMAIN enclosing |-> FoundFrom(f, s, key, cur)]

LEMMA ResolveIsFrom ==
  \A scope, key, cur : resolve(scope, key, cur) = From(key, cur)[scope]
BY DEF resolve, From, FoundFrom

\* From is defined: the chain ends at the global scope.
LEMMA FromIs ==
  ASSUME program \in Programs, NEW n \in Nat, ChainFits(program, enclosing, n), NEW key, NEW cur
  PROVE  From(key, cur) = [s \in {Global} \cup DOMAIN enclosing |-> FoundFrom(From(key, cur), s, key, cur)]
<1> DEFINE D == {Global} \cup DOMAIN enclosing
           Around(s) == {t \in {s} \cup Enclosing(program, s) : Found(t, key, cur) # {}}
           Nearest(T) == CHOOSE t \in T : \A u \in T : u <= t
           At(s) == IF Around(s) = {} THEN None
                    ELSE CHOOSE m \in Found(Nearest(Around(s)), key, cur) : TRUE
           G == [s \in D |-> At(s)]
<1>1. \A d \in DOMAIN enclosing :
        /\ d \in Nat \ {0} /\ enclosing[d] \in Nat /\ enclosing[d] < d
        /\ enclosing[d] \in D
        /\ Enclosing(program, d) = {enclosing[d]} \cup Enclosing(program, enclosing[d])
  BY ChainCloses
<1>2. ASSUME NEW s \in D PROVE At(s) = FoundFrom(G, s, key, cur)
  <2>1. s \in Nat
    BY <1>1 DEF Global
  <2>2. CASE Found(s, key, cur) # {}
    <3>1. s \in Around(s)
      BY <2>2
    <3>2. \A u \in Around(s) : u \in Nat /\ u <= s
      <4>1. \A u \in Enclosing(program, s) : u \in Nat /\ u < s
        BY <2>1, EnclosingIs
      <4> QED BY <2>1, <4>1
    <3> HIDE DEF Around
    <3>3. Nearest(Around(s)) = s
      <4>1. \E t \in Around(s) : \A u \in Around(s) : u <= t
        BY <3>1, <3>2
      <4>2. /\ Nearest(Around(s)) \in Around(s)
            /\ \A u \in Around(s) : u <= Nearest(Around(s))
        BY <4>1
      <4> HIDE DEF Nearest
      <4> QED BY <2>1, <3>1, <3>2, <4>2
    <3> HIDE DEF Nearest
    <3>4. At(s) = CHOOSE m \in Found(s, key, cur) : TRUE
      BY <3>1, <3>3
    <3> QED BY <2>2, <3>4 DEF FoundFrom
  <2>3. CASE Found(s, key, cur) = {} /\ s = Global
    <3>1. Enclosing(program, s) = {}
      BY <2>1, <2>3, EnclosingIs DEF Global
    <3>2. Around(s) = {}
      BY <2>3, <3>1
    <3> QED BY <2>3, <3>2 DEF FoundFrom
  <2>4. CASE Found(s, key, cur) = {} /\ s # Global
    <3>1. s \in DOMAIN enclosing
      BY <2>4
    <3>2. Enclosing(program, s) = {enclosing[s]} \cup Enclosing(program, enclosing[s])
      BY <1>1, <3>1
    <3>3. Around(s) = Around(enclosing[s])
      BY <2>4, <3>2
    <3> HIDE DEF Around
    <3>4. At(s) = At(enclosing[s]) /\ enclosing[s] \in D
      BY <1>1, <3>1, <3>3
    <3> HIDE DEF At, D
    <3>5. G[enclosing[s]] = At(enclosing[s])
      BY <3>4
    <3> QED BY <2>4, <3>4, <3>5 DEF FoundFrom
  <2> QED BY <2>2, <2>3, <2>4
<1> HIDE DEF At
<1>3. G = [s \in D |-> FoundFrom(G, s, key, cur)]
  BY <1>2
<1> HIDE DEF D, G
<1>4. \E f : f = [s \in D |-> FoundFrom(f, s, key, cur)]
  BY <1>3
<1>5. From(key, cur) = CHOOSE f : f = [s \in D |-> FoundFrom(f, s, key, cur)]
  BY DEF From, D
<1>6. From(key, cur) = [s \in D |-> FoundFrom(From(key, cur), s, key, cur)]
  BY <1>4, <1>5
<1> QED BY <1>6 DEF D

\* What is found is in the innermost scope around that has something to find.
LEMMA ResolveIs ==
  ASSUME program \in Programs, NEW n \in Nat, ChainFits(program, enclosing, n), NEW key, NEW cur
  PROVE  \A s \in {Global} \cup DOMAIN enclosing :
           \/ /\ resolve(s, key, cur) = None
              /\ \A t \in {s} \cup Enclosing(program, s) : Found(t, key, cur) = {}
           \/ \E t \in {s} \cup Enclosing(program, s) :
                /\ resolve(s, key, cur) \in Found(t, key, cur)
                /\ \A u \in {s} \cup Enclosing(program, s) : Found(u, key, cur) # {} => u <= t
<1> DEFINE D == {Global} \cup DOMAIN enclosing
           f == From(key, cur)
           Around(s) == {s} \cup Enclosing(program, s)
           Is(s) == \/ f[s] = None /\ \A t \in Around(s) : Found(t, key, cur) = {}
                    \/ \E t \in Around(s) :
                         /\ f[s] \in Found(t, key, cur)
                         /\ \A u \in Around(s) : Found(u, key, cur) # {} => u <= t
<1>1. \A d \in DOMAIN enclosing :
        /\ d \in Nat \ {0} /\ enclosing[d] \in Nat /\ enclosing[d] < d
        /\ enclosing[d] \in D
        /\ Enclosing(program, d) = {enclosing[d]} \cup Enclosing(program, enclosing[d])
  BY ChainCloses
<1>2. f = [s \in D |-> FoundFrom(f, s, key, cur)]
  BY FromIs
<1> HIDE DEF f
<1>3. ASSUME NEW s \in D, s # Global => Is(enclosing[s]) PROVE Is(s)
  <2>1. s \in Nat
    BY <1>1 DEF Global
  <2>2. f[s] = FoundFrom(f, s, key, cur)
    BY <1>2
  <2>3. CASE Found(s, key, cur) # {}
    <3>1. f[s] \in Found(s, key, cur)
      BY <2>2, <2>3 DEF FoundFrom
    <3>2. \A u \in Enclosing(program, s) : u \in Nat /\ u < s
      BY <2>1, EnclosingIs
    <3>3. \A u \in Around(s) : u <= s
      BY <2>1, <3>2
    <3> QED BY <3>1, <3>3
  <2>4. CASE Found(s, key, cur) = {} /\ s = Global
    <3>1. f[s] = None
      BY <2>2, <2>4 DEF FoundFrom
    <3>2. Enclosing(program, s) = {}
      BY <2>1, <2>4, EnclosingIs DEF Global
    <3> QED BY <2>4, <3>1, <3>2
  <2>5. CASE Found(s, key, cur) = {} /\ s # Global
    <3>1. s \in DOMAIN enclosing
      BY <2>5
    <3>2. f[s] = f[enclosing[s]]
      BY <2>2, <2>5 DEF FoundFrom
    <3>3. \A t : t \in Around(s) <=> t = s \/ t \in Around(enclosing[s])
      BY <1>1, <3>1
    <3>4. Is(enclosing[s])
      BY <1>3, <2>5
    <3> HIDE DEF Around
    <3> QED BY <2>5, <3>2, <3>3, <3>4
  <2> QED BY <2>3, <2>4, <2>5
<1> HIDE DEF Is
<1> DEFINE Bad == {s \in D : ~Is(s)}
<1>4. D \subseteq Nat
  BY <1>1 DEF Global
<1>5. Bad = {}
  <2> SUFFICES ASSUME Bad # {} PROVE FALSE
    OBVIOUS
  <2>1. Bad \subseteq Nat
    BY <1>4
  <2>2. PICK s \in Bad : \A y \in Bad : ~(<<y, s>> \in OpToRel(<, Nat))
    <3> HIDE DEF Bad
    <3> QED BY <2>1, NatLessThanWellFounded, WFMin
  <2>3. \A y \in Bad : ~(y < s)
    BY <2>1, <2>2 DEF OpToRel
  <2>4. s # Global => Is(enclosing[s])
    <3> SUFFICES ASSUME s # Global PROVE Is(enclosing[s])
      OBVIOUS
    <3>1. s \in DOMAIN enclosing
      OBVIOUS
    <3>2. enclosing[s] \in D /\ enclosing[s] < s
      BY <1>1, <3>1
    <3> QED BY <2>3, <3>2
  <2> QED BY <1>3, <2>4
<1>6. \A s \in D : Is(s)
  BY <1>5
<1>7. \A s : resolve(s, key, cur) = f[s]
  BY ResolveIsFrom DEF f
<1> QED BY <1>6, <1>7 DEF Is

-----------------------------------------------------------------------------
(* The inductive invariant. *)

Unique(table) ==
  \A m1, m2 \in table : m1.scope = m2.scope /\ m1.key = m2.key => m1 = m2

\* A declaration is of a name that may be declared, a label only in HSP mode.
NamesFit(prog, hsp, n) ==
  \A d \in Positions(prog, Declarations) : d < n =>
    prog[d].name \notin Reserved /\ (prog[d].kind = "label" => hsp)

\* The tables hold what the text declares and, in HSP mode, what was declared
\* by its use.
TablesFit(prog, table, implicit, n, k) ==
  /\ TextSymbols(prog, n, k) \subseteq table
  /\ \A m \in table :
       m \in TextSymbols(prog, n, k)
       \/ (implicit /\ \E it \in Items : it.kind = "ref" /\ m = ImplicitSymbol(it))

\* The declarations before Registered and the repeats before Counted have been
\* entered.
Registered == IF pass = "register" THEN next ELSE Len(program) + 1
Counted == IF pass = "register" THEN 1 ELSE next

Shape ==
  /\ program \in Programs /\ hspCompat \in BOOLEAN
  /\ pass \in {"register", "resolve"}
  /\ status \in {"running", "done", "error", "abort"}
  /\ next \in 1..(Len(program) + 1)
  /\ resolved \in [1..Len(program) -> Symbols \cup {None}]

Tables == TablesFit(program, members, pass = "resolve" /\ hspCompat, Registered, Counted)

UsesAreKnown ==
  \A p \in Positions(program, Uses) :
    pass = "resolve" /\ p < next =>
      Meaning(program, p) # None \/ (hspCompat /\ program[p].kind = "ref")

ScopesInv ==
  /\ Shape
  /\ StackFits(program, scopes, next)
  /\ ChainFits(program, enclosing, Registered)
  /\ NamesFit(program, hspCompat, Registered)
  /\ Tables
  /\ Unique(members)
  /\ LexicallyScoped
  /\ UsesAreKnown
  /\ VerdictIsRight

-----------------------------------------------------------------------------
(* What is found is what is meant. *)

LEMMA MeaningIs ==
  \A prog \in Programs : \A p \in Nat :
    /\ Meaning(prog, p) = None <=> Candidates(prog, p) = {}
    /\ \A c \in Candidates(prog, p) :
         /\ c \in Symbols /\ c.key = Key(prog[p]) /\ c.scope \in Enclosing(prog, p)
         /\ (\A t \in Candidates(prog, p) : t = c \/ ~(c.scope <= t.scope)) => Meaning(prog, p) = c
<1> SUFFICES ASSUME NEW prog \in Programs, NEW p \in Nat
             PROVE  /\ Meaning(prog, p) = None <=> Candidates(prog, p) = {}
                    /\ \A c \in Candidates(prog, p) :
                         /\ c \in Symbols /\ c.key = Key(prog[p])
                         /\ c.scope \in Enclosing(prog, p)
                         /\ (\A t \in Candidates(prog, p) : t = c \/ ~(c.scope <= t.scope))
                              => Meaning(prog, p) = c
  OBVIOUS
<1> DEFINE C == Candidates(prog, p)
           Greatest == CHOOSE s \in C : \A t \in C : t.scope <= s.scope
<1>1. \A c \in C : c \in Symbols /\ c.key = Key(prog[p]) /\ c.scope \in Enclosing(prog, p)
  <2>1. Declared(prog) \subseteq Symbols
    <3>1. prog \in Seq(Items)
      BY ProgramsAssumption
    <3>2. Len(prog) + 1 \in Nat
      BY <3>1
    <3> QED BY <3>2, TextIs, TextEnds
  <2> QED BY <2>1 DEF Candidates
<1>2. Meaning(prog, p) = IF C = {} THEN None ELSE Greatest
  BY DEF Meaning
<1>3. C # {} => \E s \in C : \A t \in C : t.scope <= s.scope
  <2> SUFFICES ASSUME C # {} PROVE \E s \in C : \A t \in C : t.scope <= s.scope
    OBVIOUS
  <2> DEFINE S == {c.scope : c \in C}
  <2>1. S # {} /\ S \subseteq 0..p
    <3>1. \A c \in C : c.scope \in 0..p
      BY <1>1, EnclosingIs
    <3> HIDE DEF C
    <3> QED BY <3>1
  <2> HIDE DEF S
  <2>2. Max(S) \in S /\ \A x \in S : x <= Max(S)
    BY <2>1, MaxIs
  <2> QED BY <2>2 DEF S
<1> HIDE DEF C
<1>4. C # {} => Greatest \in C /\ \A t \in C : t.scope <= Greatest.scope
  BY <1>3
<1> HIDE DEF Greatest
<1>5. C # {} => Meaning(prog, p) # None
  BY <1>1, <1>2, <1>4, NoneAssumption
<1>6. ASSUME NEW c \in C, \A t \in C : t = c \/ ~(c.scope <= t.scope)
      PROVE  Meaning(prog, p) = c
  <2>1. Greatest \in C /\ c.scope <= Greatest.scope
    BY <1>4
  <2> QED BY <1>2, <1>6, <2>1
<1> QED BY <1>1, <1>2, <1>5, <1>6 DEF C

\* A cnt of a repeat that is further down is not in a scope around.
LEMMA CandidatesAre ==
  \A prog \in Programs : \A p \in Positions(prog, Uses) : \A m :
    m \in Candidates(prog, p) <=>
      /\ m \in TextSymbols(prog, Len(prog) + 1, p)
      /\ m.key = Key(prog[p])
      /\ m.scope \in Enclosing(prog, p)
      /\ m.pos <= p \/ m.kind \in UsableBefore
<1> SUFFICES ASSUME NEW prog \in Programs, NEW p \in Positions(prog, Uses), NEW m
             PROVE  m \in Candidates(prog, p) <=>
                      /\ m \in TextSymbols(prog, Len(prog) + 1, p)
                      /\ m.key = Key(prog[p])
                      /\ m.scope \in Enclosing(prog, p)
                      /\ m.pos <= p \/ m.kind \in UsableBefore
  OBVIOUS
<1> DEFINE L == Len(prog) + 1
<1>1. L \in Nat
  <2>1. prog \in Seq(Items)
    BY ProgramsAssumption
  <2> QED BY <2>1
<1>2. p \in Nat /\ p <= L
  BY <1>1, PositionIs
<1> HIDE DEF L
<1>3. TextSymbols(prog, L, p) \subseteq Declared(prog)
  <2>1. TextSymbols(prog, L, p) \subseteq TextSymbols(prog, L, L)
    BY <1>1, <1>2, TextIsMonotonic
  <2> QED BY <2>1, TextEnds DEF L
<1>4. ASSUME m \in Declared(prog), m.scope \in Enclosing(prog, p)
      PROVE  m \in TextSymbols(prog, L, p)
  <2>1. m \in TextSymbols(prog, L, L)
    BY <1>4, TextEnds DEF L
  <2>2. CASE \E d \in Positions(prog, Declarations) : d < L /\ m = DeclaredAt(prog, d)
    BY <2>2 DEF TextSymbols
  <2>3. CASE \E d \in Positions(prog, {"repeat"}) : d < L /\ m = CntSymbol(d)
    <3>1. PICK d \in Positions(prog, {"repeat"}) : m = CntSymbol(d)
      BY <2>3
    <3>2. d \in Nat
      BY PositionIs
    <3>3. m.scope = d
      BY <3>1, <3>2, CntIs
    <3>4. d < p
      BY <1>2, <1>4, <3>3, EnclosingIs
    <3> QED BY <3>1, <3>4 DEF TextSymbols
  <2>4. CASE m \in BuiltInSymbols
    BY <2>4 DEF TextSymbols
  <2> QED BY <1>1, <2>1, <2>2, <2>3, <2>4, TextIs
<1>5. m \in Candidates(prog, p) <=>
        /\ m \in Declared(prog) /\ m.key = Key(prog[p])
        /\ m.scope \in Enclosing(prog, p)
        /\ m.pos <= p \/ m.kind \in UsableBefore
  BY DEF Candidates
<1> QED BY <1>3, <1>4, <1>5 DEF L


\* The item that is visited.
LEMMA VisitIs ==
  ASSUME ScopesInv, NEW which, NEW kinds, Visit(which, kinds)
  PROVE  /\ program \in Programs /\ program \in Seq(Items) /\ Len(program) \in Nat
         /\ next \in Nat \ {0} /\ next \in 1..Len(program) /\ next \in DOMAIN program
         /\ item \in Items /\ item.kind \in kinds /\ next \in Positions(program, kinds)
         /\ next + 1 \in 1..(Len(program) + 1)
         /\ top = Innermost(program, next) /\ top \in Nat
         /\ pass = which /\ status = "running"
<1>1. program \in Programs /\ next \in 1..(Len(program) + 1) /\ StackFits(program, scopes, next)
  BY DEF ScopesInv, Shape
<1>2. next <= Len(program) /\ pass = which /\ status = "running" /\ program[next].kind \in kinds
  BY DEF Visit, item
<1>3. program \in Seq(Items)
  BY <1>1, ProgramsAssumption
<1>4. Len(program) \in Nat /\ DOMAIN program = 1..Len(program)
  BY <1>3
<1>5. /\ next \in Nat \ {0} /\ next \in 1..Len(program)
      /\ next + 1 \in 1..(Len(program) + 1)
  BY <1>1, <1>2, <1>4
<1>6. next \in DOMAIN program /\ next \in Positions(program, kinds)
  BY <1>2, <1>4, <1>5 DEF Positions
<1>7. program[next] \in Items
  BY <1>3, <1>4, <1>5
<1>8. top = Innermost(program, next) /\ top \in Nat
  BY <1>1, <1>5, TopIsInnermost DEF top
<1> QED BY <1>1, <1>2, <1>3, <1>4, <1>5, <1>6, <1>7, <1>8 DEF item

LEMMA LookupIs ==
  ASSUME ScopesInv, Visit("resolve", Uses)
  PROVE  /\ Meaning(program, next) # None => Lookup = Meaning(program, next)
         /\ Meaning(program, next) = None =>
              Lookup = None \/ (hspCompat /\ item.kind = "ref" /\ Lookup = Implicit)
         /\ Lookup = None =>
              \A t \in Enclosing(program, next) : Found(t, Key(item), next) = {}
         /\ Lookup # None => Lookup \in members
<1> DEFINE p == next
           E == Enclosing(program, p)
           key == Key(item)
           text == TextSymbols(program, Len(program) + 1, p)
<1>1. /\ program \in Programs /\ program \in Seq(Items) /\ Len(program) \in Nat
      /\ p \in Nat \ {0} /\ p \in 1..Len(program) /\ p \in Positions(program, Uses)
      /\ item \in Items /\ item.kind \in Uses
      /\ top = Innermost(program, p) /\ top \in Nat /\ pass = "resolve"
  BY VisitIs
<1>2. Registered = Len(program) + 1 /\ Counted = p
  BY <1>1 DEF Registered, Counted
<1>3. /\ ChainFits(program, enclosing, Len(program) + 1)
      /\ text \subseteq members
      /\ \A m \in members :
           m \in text \/ (hspCompat /\ \E it \in Items : it.kind = "ref" /\ m = ImplicitSymbol(it))
      /\ \A m1, m2 \in members : m1.scope = m2.scope /\ m1.key = m2.key => m1 = m2
  BY <1>2 DEF ScopesInv, Tables, TablesFit, Unique
<1>4. /\ top \in E /\ top < p /\ E = {top} \cup Enclosing(program, top)
  BY <1>1, InnermostIs
<1>5. top \in {Global} \cup DOMAIN enclosing
  <2> SUFFICES ASSUME top # Global PROVE top \in DOMAIN enclosing
    OBVIOUS
  <2>1. program[top].kind \in Scopings
    BY <1>1, <1>4, EnclosingIs
  <2>2. top \in 1..Len(program) /\ top < Len(program) + 1
    BY <1>1, <1>4 DEF Global
  <2>3. top \in DOMAIN program
    BY <1>1, <2>2
  <2>4. top \in Positions(program, Scopings)
    BY <2>1, <2>3 DEF Positions
  <2> QED BY <1>3, <2>2, <2>4 DEF ChainFits
<1>6. \/ Lookup = None /\ \A t \in E : Found(t, key, p) = {}
      \/ \E t \in E : /\ Lookup \in Found(t, key, p)
                      /\ \A u \in E : Found(u, key, p) # {} => u <= t
  <2>1. Len(program) + 1 \in Nat
    BY <1>1
  <2>2. \/ resolve(top, key, p) = None
           /\ \A t \in {top} \cup Enclosing(program, top) : Found(t, key, p) = {}
        \/ \E t \in {top} \cup Enclosing(program, top) :
             /\ resolve(top, key, p) \in Found(t, key, p)
             /\ \A u \in {top} \cup Enclosing(program, top) : Found(u, key, p) # {} => u <= t
    BY <1>1, <1>3, <1>5, <2>1, ResolveIs
  <2> QED BY <1>4, <2>2 DEF Lookup
<1>7. key = Key(program[p]) /\ item = program[p]
  BY DEF item
<1>8. \A m : m \in Candidates(program, p) <=>
        /\ m \in text /\ m.key = key /\ m.scope \in E
        /\ m.pos <= p \/ m.kind \in UsableBefore
  BY <1>1, <1>7, CandidatesAre
<1>9. \A c \in Candidates(program, p) :
        c \in members /\ c.scope \in E /\ c.key = key /\ c \in Found(c.scope, key, p)
  BY <1>3, <1>8 DEF Found, ForwardKinds, UsableBefore
<1>10. ASSUME NEW t \in E, NEW m \in Found(t, key, p)
       PROVE  /\ m \in members /\ m.scope = t /\ m.key = key
              /\ m \in Candidates(program, p) \/ (hspCompat /\ item.kind = "ref" /\ m = Implicit)
  <2>1. m \in members /\ m.scope = t /\ m.key = key /\ (m.pos <= p \/ m.kind \in ForwardKinds)
    BY <1>10 DEF Found
  <2>2. m \in text => m \in Candidates(program, p)
    BY <1>8, <2>1 DEF ForwardKinds, UsableBefore
  <2>3. ASSUME NEW it \in Items, it.kind = "ref", m = ImplicitSymbol(it)
        PROVE  item.kind = "ref" /\ m = Implicit
    <3>1. it.name \in Names
      <4>1. "ref" \in Uses
        BY KindsAre
      <4> QED BY <2>3, <4>1, ItemIs
    <3>2. key = <<"id", it.name>>
      BY <2>1, <2>3, <3>1, ImplicitIs
    <3>3. ClassOf(item.kind) = "id" /\ item.name = it.name
      BY <3>2 DEF Key
    <3>4. item.kind = "ref"
      BY <1>1, <3>3, ClassIs
    <3>5. m = Implicit
      BY <2>3, <3>3 DEF Implicit, ImplicitSymbol
    <3> QED BY <3>4, <3>5
  <2> QED BY <1>3, <2>1, <2>2, <2>3
<1> HIDE DEF E, key, text
<1>11. ASSUME Meaning(program, p) # None PROVE Lookup = Meaning(program, p)
  <2>1. PICK c \in Candidates(program, p) : TRUE
    BY <1>1, <1>11, MeaningIs
  <2>2. PICK t \in E : /\ Lookup \in Found(t, key, p)
                       /\ \A u \in E : Found(u, key, p) # {} => u <= t
    BY <1>6, <1>9, <2>1
  <2>3. \A d \in Candidates(program, p) : d.scope \in Nat /\ d.scope <= t
    <3>1. \A u \in E : u \in Nat
      BY <1>1, EnclosingIs DEF E
    <3> QED BY <1>9, <2>2, <3>1
  <2>4. Lookup \in members /\ Lookup.scope = t /\ Lookup.key = key /\ t \in Nat
    <3>1. t \in Nat
      BY <1>1, EnclosingIs DEF E
    <3> QED BY <1>10, <2>2, <3>1
  <2>5. \A d \in Candidates(program, p) : t <= d.scope => d = Lookup
    <3> SUFFICES ASSUME NEW d \in Candidates(program, p), t <= d.scope PROVE d = Lookup
      OBVIOUS
    <3>1. d.scope = t
      BY <2>3, <2>4
    <3> QED BY <1>3, <1>9, <2>4, <3>1
  <2>6. Lookup \in Candidates(program, p)
    <3>1. CASE Lookup \in Candidates(program, p)
      BY <3>1
    <3>2. CASE item.kind = "ref" /\ Lookup = Implicit
      <4>1. item.name \in Names
        BY <1>1, ItemIs
      <4>2. Lookup.scope = Global
        BY <3>2, <4>1, ImplicitIs DEF Implicit
      <4>3. t <= c.scope
        BY <2>1, <2>3, <2>4, <4>2 DEF Global
      <4> QED BY <2>1, <2>5, <4>3
    <3> QED BY <1>10, <2>2, <3>1, <3>2
  <2>7. \A d \in Candidates(program, p) : d = Lookup \/ ~(Lookup.scope <= d.scope)
    BY <2>4, <2>5
  <2> QED BY <1>1, <2>6, <2>7, MeaningIs
<1>12. ASSUME Meaning(program, p) = None
       PROVE  Lookup = None \/ (hspCompat /\ item.kind = "ref" /\ Lookup = Implicit)
  <2>1. Candidates(program, p) = {}
    BY <1>1, <1>12, MeaningIs
  <2> QED BY <1>6, <1>10, <2>1
<1>13. ASSUME Lookup = None PROVE \A t \in E : Found(t, key, p) = {}
  <2>1. None \notin members
    <3>1. text \subseteq Symbols
      <4>1. Len(program) + 1 \in Nat /\ p \in Nat
        BY <1>1
      <4> QED BY <1>1, <4>1, TextIs DEF text
    <3>2. \A it \in Items : it.kind = "ref" => ImplicitSymbol(it) \in Symbols
      <4>1. "ref" \in Uses
        BY KindsAre
      <4> QED BY <4>1, ItemIs, ImplicitIs
    <3> QED BY <1>3, <3>1, <3>2, NoneAssumption
  <2> QED BY <1>6, <1>10, <1>13, <2>1
<1>14. Lookup # None => Lookup \in members
  BY <1>6, <1>10
<1> QED BY <1>11, <1>12, <1>13, <1>14 DEF E, key


-----------------------------------------------------------------------------
(* What visiting an item does to the parts of the invariant. *)

LEMMA NamesStep ==
  \A prog \in Programs : \A hsp : \A n \in 1..Len(prog) :
    /\ NamesFit(prog, hsp, n)
    /\ prog[n].kind \in Declarations =>
         prog[n].name \notin Reserved /\ (prog[n].kind = "label" => hsp)
    => NamesFit(prog, hsp, n + 1)
<1> SUFFICES ASSUME NEW prog \in Programs, NEW hsp, NEW n \in 1..Len(prog),
                    NamesFit(prog, hsp, n),
                    prog[n].kind \in Declarations =>
                      prog[n].name \notin Reserved /\ (prog[n].kind = "label" => hsp),
                    NEW d \in Positions(prog, Declarations), d < n + 1
             PROVE  prog[d].name \notin Reserved /\ (prog[d].kind = "label" => hsp)
  BY DEF NamesFit
<1>1. d \in Nat /\ prog[d].kind \in Declarations
  BY PositionIs
<1>2. d < n \/ d = n
  BY <1>1
<1> QED BY <1>1, <1>2 DEF NamesFit

LEMMA ChainStays ==
  \A prog \in Programs : \A chain : \A n \in 1..Len(prog) :
    ChainFits(prog, chain, n) /\ prog[n].kind \notin Scopings => ChainFits(prog, chain, n + 1)
<1> SUFFICES ASSUME NEW prog \in Programs, NEW chain, NEW n \in 1..Len(prog),
                    ChainFits(prog, chain, n), prog[n].kind \notin Scopings
             PROVE  ChainFits(prog, chain, n + 1)
  OBVIOUS
<1>1. \A d \in Positions(prog, Scopings) : d \in Nat /\ prog[d].kind \in Scopings
  BY PositionIs
<1>2. \A d \in Positions(prog, Scopings) : d < n + 1 <=> d < n
  BY <1>1
<1> QED BY <1>2 DEF ChainFits

LEMMA ChainGrows ==
  \A prog \in Programs : \A chain : \A n \in 1..Len(prog) :
    ChainFits(prog, chain, n) /\ prog[n].kind \in Scopings =>
      ChainFits(prog, [s \in DOMAIN chain \cup {n} |->
                         IF s = n THEN Innermost(prog, n) ELSE chain[s]], n + 1)
<1> SUFFICES ASSUME NEW prog \in Programs, NEW chain, NEW n \in 1..Len(prog),
                    ChainFits(prog, chain, n), prog[n].kind \in Scopings
             PROVE  ChainFits(prog, [s \in DOMAIN chain \cup {n} |->
                                       IF s = n THEN Innermost(prog, n) ELSE chain[s]], n + 1)
  OBVIOUS
<1>1. \A d \in Positions(prog, Scopings) : d \in Nat
  BY PositionIs
<1>2. n \in Positions(prog, Scopings)
  <2>1. prog \in Seq(Items)
    BY ProgramsAssumption
  <2>2. n \in DOMAIN prog
    BY <2>1
  <2> QED BY <2>2 DEF Positions
<1>3. \A d \in Positions(prog, Scopings) : d < n + 1 <=> d < n \/ d = n
  BY <1>1
<1>4. {d \in Positions(prog, Scopings) : d < n + 1}
        = {d \in Positions(prog, Scopings) : d < n} \cup {n}
  BY <1>2, <1>3
<1> QED BY <1>4 DEF ChainFits

LEMMA TablesStep ==
  \A prog, table, implicit, n1, k1, n2, k2 : TablesFit(prog, table, implicit, n1, k1) =>
    /\ TextSymbols(prog, n2, k2) = TextSymbols(prog, n1, k1)
         => TablesFit(prog, table, implicit, n2, k2)
    /\ \A m : TextSymbols(prog, n2, k2) = TextSymbols(prog, n1, k1) \cup {m}
         => TablesFit(prog, table \cup {m}, implicit, n2, k2)
BY DEF TablesFit

LEMMA UniqueStep ==
  \A table, m :
    /\ Unique(table)
    /\ ~(\E t \in table : t.scope = m.scope /\ t.key = m.key)
    => Unique(table \cup {m})
BY DEF Unique

\* The first pass looks nothing up.
LEMMA RegisterGoesOn ==
  ASSUME ScopesInv, NEW kinds, Visit("register", kinds),
         next' = next + 1, UNCHANGED <<program, hspCompat, pass, status, resolved>>
  PROVE  /\ Shape' /\ LexicallyScoped' /\ UsesAreKnown' /\ VerdictIsRight'
         /\ Registered = next /\ Registered' = next + 1 /\ Counted = 1 /\ Counted' = 1
<1>1. pass = "register" /\ status = "running" /\ next + 1 \in 1..(Len(program) + 1)
  BY VisitIs
<1>2. Shape'
  BY <1>1 DEF ScopesInv, Shape
<1>3. LexicallyScoped' /\ UsesAreKnown'
  BY <1>1 DEF LexicallyScoped, UsesAreKnown
<1>4. VerdictIsRight'
  BY <1>1 DEF VerdictIsRight
<1> QED BY <1>1, <1>2, <1>3, <1>4 DEF Registered, Counted

LEMMA ResolveGoesOn ==
  ASSUME ScopesInv, NEW kinds, Visit("resolve", kinds), kinds \cap Uses = {},
         next' = next + 1, UNCHANGED <<program, hspCompat, pass, status, resolved>>
  PROVE  /\ Shape' /\ LexicallyScoped' /\ UsesAreKnown' /\ VerdictIsRight'
         /\ Registered = Len(program) + 1 /\ Registered' = Len(program) + 1
         /\ Counted = next /\ Counted' = next + 1
<1>1. /\ pass = "resolve" /\ status = "running" /\ next + 1 \in 1..(Len(program) + 1)
      /\ program \in Programs /\ next \in Nat /\ program[next].kind \in kinds
  BY VisitIs DEF item
<1>2. Shape'
  BY <1>1 DEF ScopesInv, Shape
<1>3. \A p \in Positions(program, Uses) : p < next + 1 => p < next
  <2> SUFFICES ASSUME NEW p \in Positions(program, Uses), p < next + 1 PROVE p < next
    OBVIOUS
  <2>1. p \in Nat /\ program[p].kind \in Uses
    BY <1>1, PositionIs
  <2>2. p # next
    BY <1>1, <2>1
  <2> QED BY <1>1, <2>1, <2>2
<1>4. LexicallyScoped' /\ UsesAreKnown'
  BY <1>1, <1>3 DEF ScopesInv, LexicallyScoped, UsesAreKnown
<1>5. VerdictIsRight'
  BY <1>1 DEF VerdictIsRight
<1> QED BY <1>1, <1>2, <1>4, <1>5 DEF Registered, Counted

\* A declaration that is entered.
LEMMA RegisterKeeps ==
  ASSUME ScopesInv, NEW kind \in Declarations, Register(kind)
  PROVE  /\ Shape' /\ NamesFit(program, hspCompat, Registered)' /\ Tables'
         /\ Unique(members)' /\ LexicallyScoped' /\ UsesAreKnown' /\ VerdictIsRight'
         /\ Registered = next /\ Registered' = next + 1
<1>1. Visit("register", {kind}) /\ ~IsRejected /\ Define(Symbol(item, top, next))
  BY DEF Register
<1>2. next' = next + 1 /\ UNCHANGED <<program, hspCompat, pass, status, resolved>>
  BY DEF Register
<1>3. /\ program \in Programs /\ next \in 1..Len(program) /\ item.kind = kind
      /\ top = Innermost(program, next)
  BY <1>1, VisitIs
<1>4. /\ Shape' /\ LexicallyScoped' /\ UsesAreKnown' /\ VerdictIsRight'
      /\ Registered = next /\ Registered' = next + 1 /\ Counted = 1 /\ Counted' = 1
  BY <1>1, <1>2, RegisterGoesOn
<1>5. Symbol(item, top, next) = DeclaredAt(program, next)
  BY <1>3 DEF DeclaredAt, item
<1>6. NamesFit(program, hspCompat, next + 1)
  <2>1. NamesFit(program, hspCompat, next)
    BY <1>4 DEF ScopesInv
  <2>2. program[next].name \notin Reserved /\ (program[next].kind = "label" => hspCompat)
    BY <1>1 DEF IsRejected, IsDisallowedIdentifier, Reserved, item
  <2> QED BY <1>3, <2>1, <2>2, NamesStep
<1>7. members' = members \cup {DeclaredAt(program, next)}
  BY <1>1, <1>5 DEF Define
<1>8. TablesFit(program, members', pass = "resolve" /\ hspCompat, next + 1, 1)
  <2>1. TablesFit(program, members, pass = "resolve" /\ hspCompat, next, 1)
    BY <1>4 DEF ScopesInv, Tables
  <2>2. TextSymbols(program, next + 1, 1)
          = TextSymbols(program, next, 1) \cup {DeclaredAt(program, next)}
    <3>1. program[next].kind \in Declarations
      BY <1>3 DEF item
    <3> QED BY <1>3, <3>1, TextGrows
  <2> QED BY <1>7, <2>1, <2>2, TablesStep
<1>9. Unique(members')
  <2>1. Unique(members)
    BY DEF ScopesInv
  <2>2. ~(\E t \in members : t.scope = DeclaredAt(program, next).scope
                             /\ t.key = DeclaredAt(program, next).key)
    BY <1>1, <1>5 DEF IsRejected, IsDefined
  <2> QED BY <1>7, <2>1, <2>2, UniqueStep
<1>10. NamesFit(program, hspCompat, Registered)'
  BY <1>2, <1>4, <1>6
<1>11. Tables'
  BY <1>2, <1>4, <1>8 DEF Tables
<1> QED BY <1>4, <1>9, <1>10, <1>11

\* An item of the first pass that declares nothing.
LEMMA PassKeeps ==
  ASSUME ScopesInv, NEW kinds, Visit("register", kinds), kinds \cap Declarations = {},
         next' = next + 1, UNCHANGED <<program, hspCompat, pass, status, members, resolved>>
  PROVE  /\ Shape' /\ NamesFit(program, hspCompat, Registered)' /\ Tables'
         /\ Unique(members)' /\ LexicallyScoped' /\ UsesAreKnown' /\ VerdictIsRight'
         /\ Registered = next /\ Registered' = next + 1
<1>1. /\ program \in Programs /\ next \in 1..Len(program) /\ program[next].kind \in kinds
  BY VisitIs DEF item
<1>2. program[next].kind \notin Declarations
  BY <1>1
<1>3. /\ Shape' /\ LexicallyScoped' /\ UsesAreKnown' /\ VerdictIsRight'
      /\ Registered = next /\ Registered' = next + 1 /\ Counted = 1 /\ Counted' = 1
  BY RegisterGoesOn
<1>4. NamesFit(program, hspCompat, next + 1)
  BY <1>1, <1>2, <1>3, NamesStep DEF ScopesInv
<1>5. TablesFit(program, members, pass = "resolve" /\ hspCompat, next + 1, 1)
  <2>1. TablesFit(program, members, pass = "resolve" /\ hspCompat, next, 1)
    BY <1>3 DEF ScopesInv, Tables
  <2>2. TextSymbols(program, next + 1, 1) = TextSymbols(program, next, 1)
    BY <1>1, <1>2, TextStays
  <2> QED BY <2>1, <2>2, TablesStep
<1>6. NamesFit(program, hspCompat, Registered)'
  BY <1>3, <1>4
<1>7. Tables'
  BY <1>3, <1>5 DEF Tables
<1>8. Unique(members)'
  BY DEF ScopesInv
<1> QED BY <1>3, <1>6, <1>7, <1>8


\* What it does to the stack.
LEMMA StackStep ==
  ASSUME ScopesInv, NEW which, NEW kinds, Visit(which, kinds)
  PROVE  /\ item.kind \notin Scopings /\ item.kind # "end" => StackFits(program, scopes, next + 1)
         /\ item.kind \in Scopings => StackFits(program, Pushed(next), next + 1)
         /\ item.kind = "end" => StackFits(program, Popped, next + 1)
<1>1. /\ program \in Programs /\ next \in Nat \ {0} /\ next \in DOMAIN program
      /\ StackFits(program, scopes, next) /\ item = program[next]
  BY VisitIs DEF ScopesInv, item
<1>2. Open(program, 1, next) >= 0
  BY <1>1, ProgramsAssumption DEF IsNested
<1>3. item.kind \notin Scopings /\ item.kind # "end" => StackFits(program, scopes, next + 1)
  BY <1>1, StackStays
<1>4. item.kind \in Scopings => StackFits(program, Pushed(next), next + 1)
  BY <1>1, StackGrows DEF Pushed
<1>5. item.kind = "end" => StackFits(program, Popped, next + 1)
  BY <1>1, <1>2, StackShrinks DEF Popped
<1> QED BY <1>3, <1>4, <1>5

LEMMA ActionKinds ==
  /\ "var" \in Declarations /\ "extern" \in Declarations /\ "label" \in Declarations
  /\ "func" \in Declarations /\ "namespace" \in Declarations
  /\ "var" \notin Scopings /\ "extern" \notin Scopings /\ "label" \notin Scopings
  /\ "func" \in Scopings /\ "namespace" \in Scopings
  /\ "comp" \in Scopings /\ "repeat" \in Scopings /\ "end" \notin Scopings
  /\ "comp" \notin Declarations /\ "repeat" \notin Declarations /\ "end" \notin Declarations
  /\ "comp" \notin Uses /\ "repeat" \notin Uses /\ "end" \notin Uses
  /\ "ref" \in Uses /\ "end" \notin Declarations \cup Uses
BY DEF Declarations, Scopings, Uses

LEMMA RegisterFailsKeeps == ScopesInv /\ RegisterFails => ScopesInv'
<1> SUFFICES ASSUME ScopesInv, RegisterFails PROVE ScopesInv'
  OBVIOUS
<1>1. Visit("register", Declarations) /\ IsRejected /\ status' = "error"
  BY DEF RegisterFails, Throw
<1>2. UNCHANGED <<program, hspCompat, pass, next, scopes, enclosing, members, resolved>>
  BY DEF RegisterFails, Throw
<1>3. /\ program \in Programs /\ next \in 1..Len(program) /\ next \in Nat
      /\ next \in Positions(program, Declarations) /\ pass = "register"
      /\ top = Innermost(program, next) /\ item = program[next] /\ item.kind \in Declarations
      /\ Len(program) \in Nat
  BY <1>1, VisitIs DEF item
<1>4. IsIllegal(program, hspCompat)
  <2>1. CASE item.kind = "label" /\ ~hspCompat
    <3>1. next \in Positions(program, {"label"})
      BY <1>3, <2>1 DEF Positions
    <3> QED BY <2>1, <3>1 DEF IsIllegal
  <2>2. CASE IsDisallowedIdentifier(item.name)
    BY <1>3, <2>2 DEF IsIllegal, IsDisallowedIdentifier, Reserved
  <2>3. CASE IsDefined(Symbol(item, top, next))
    <3> DEFINE s == DeclaredAt(program, next)
    <3>1. s = Symbol(item, top, next)
      BY <1>3 DEF DeclaredAt
    <3>2. PICK m \in members : m.scope = s.scope /\ m.key = s.key
      BY <2>3, <3>1 DEF IsDefined
    <3>3. s \in Declared(program) /\ s.pos = next
      BY <1>3, DeclaredAtIs DEF Declared, DeclaredAt
    <3>4. m \in TextSymbols(program, next, 1)
      BY <1>3, <3>2 DEF ScopesInv, Tables, TablesFit, Registered, Counted
    <3>5. m \in Declared(program) /\ m # s
      <4>1. CASE \E d \in Positions(program, Declarations) : d < next /\ m = DeclaredAt(program, d)
        <5>1. PICK d \in Positions(program, Declarations) : d < next /\ m = DeclaredAt(program, d)
          BY <4>1
        <5>2. m.pos = d /\ d \in Nat
          BY <1>3, <5>1, DeclaredAtIs, PositionIs
        <5>3. m \in Declared(program)
          BY <5>1 DEF Declared, DeclaredAt
        <5> QED BY <1>3, <3>3, <5>1, <5>2, <5>3
      <4>2. ~(\E d \in Positions(program, {"repeat"}) : d < 1 /\ m = CntSymbol(d))
        <5>1. \A d \in Positions(program, {"repeat"}) : d \in Nat \ {0}
          BY <1>3, PositionIs
        <5> QED BY <5>1
      <4>3. CASE m \in BuiltInSymbols
        <5>1. m.pos = 0
          BY <4>3, BuiltInIs
        <5>2. m \in Declared(program)
          BY <4>3 DEF Declared
        <5> QED BY <1>3, <3>3, <5>1, <5>2
      <4>4. 1 \in Nat
        OBVIOUS
      <4> QED BY <1>3, <3>4, <4>1, <4>2, <4>3, <4>4, TextIs
    <3> HIDE DEF s
    <3>6. IsRedeclared(program)
      BY <3>2, <3>3, <3>5 DEF IsRedeclared
    <3> QED BY <3>6 DEF IsIllegal
  <2> QED BY <1>1, <2>1, <2>2, <2>3 DEF IsRejected
<1>5. VerdictIsRight'
  BY <1>1, <1>2, <1>4 DEF VerdictIsRight
<1>6. Shape'
  BY <1>1, <1>2 DEF ScopesInv, Shape
<1>7. Registered' = Registered /\ Counted' = Counted
  BY <1>2 DEF Registered, Counted
<1>8. Tables'
  BY <1>2, <1>7 DEF ScopesInv, Tables
<1>9. LexicallyScoped' /\ UsesAreKnown'
  BY <1>2 DEF ScopesInv, LexicallyScoped, UsesAreKnown
<1> QED BY <1>2, <1>5, <1>6, <1>7, <1>8, <1>9 DEF ScopesInv

LEMMA RegisterPlainKeeps ==
  ASSUME ScopesInv, NEW kind \in {"var", "extern", "label"}, Register(kind),
         UNCHANGED <<scopes, enclosing>>
  PROVE  ScopesInv'
<1>1. kind \in Declarations /\ kind \notin Scopings /\ kind # "end"
  BY ActionKinds
<1>2. /\ Shape' /\ NamesFit(program, hspCompat, Registered)' /\ Tables'
      /\ Unique(members)' /\ LexicallyScoped' /\ UsesAreKnown' /\ VerdictIsRight'
      /\ Registered = next /\ Registered' = next + 1
  BY <1>1, RegisterKeeps
<1>3. Visit("register", {kind}) /\ next' = next + 1 /\ program' = program
  BY DEF Register
<1>4. /\ item.kind = kind /\ item = program[next]
      /\ program \in Programs /\ next \in 1..Len(program)
  BY <1>3, VisitIs DEF item
<1>5. StackFits(program, scopes, next)'
  <2>1. StackFits(program, scopes, next + 1)
    BY <1>1, <1>3, <1>4, StackStep
  <2> QED BY <1>3, <2>1
<1>6. ChainFits(program, enclosing, Registered)'
  <2>1. ChainFits(program, enclosing, next + 1)
    BY <1>1, <1>2, <1>4, ChainStays DEF ScopesInv
  <2> QED BY <1>2, <1>3, <2>1
<1> QED BY <1>2, <1>5, <1>6 DEF ScopesInv

\* A scope is created.
LEMMA NewScopeFits ==
  ASSUME ScopesInv, NEW kinds, Visit("register", kinds), item.kind \in Scopings, NewScope,
         next' = next + 1, UNCHANGED program, Registered = next, Registered' = next + 1
  PROVE  StackFits(program, scopes, next)' /\ ChainFits(program, enclosing, Registered)'
<1>1. /\ program \in Programs /\ next \in 1..Len(program) /\ item = program[next]
      /\ top = Innermost(program, next)
  BY VisitIs DEF item
<1>2. StackFits(program, scopes, next)'
  <2>1. StackFits(program, Pushed(next), next + 1)
    BY StackStep
  <2> QED BY <2>1 DEF NewScope
<1>3. ChainFits(program, enclosing, Registered)'
  <2>1. ChainFits(program, enclosing, next)
    BY DEF ScopesInv
  <2>2. ChainFits(program, [s \in DOMAIN enclosing \cup {next} |->
                              IF s = next THEN Innermost(program, next) ELSE enclosing[s]],
                  next + 1)
    BY <1>1, <2>1, ChainGrows
  <2> QED BY <1>1, <2>2 DEF NewScope
<1> QED BY <1>2, <1>3

LEMMA RegisterScopeKeeps ==
  ASSUME ScopesInv, NEW kind \in {"func", "namespace"}, Register(kind), NewScope
  PROVE  ScopesInv'
<1>1. kind \in Declarations /\ kind \in Scopings
  BY ActionKinds
<1>2. /\ Shape' /\ NamesFit(program, hspCompat, Registered)' /\ Tables'
      /\ Unique(members)' /\ LexicallyScoped' /\ UsesAreKnown' /\ VerdictIsRight'
      /\ Registered = next /\ Registered' = next + 1
  BY <1>1, RegisterKeeps
<1>3. Visit("register", {kind}) /\ next' = next + 1 /\ program' = program
  BY DEF Register
<1>4. item.kind = kind
  BY <1>3, VisitIs
<1>5. StackFits(program, scopes, next)' /\ ChainFits(program, enclosing, Registered)'
  BY <1>1, <1>2, <1>3, <1>4, NewScopeFits
<1> QED BY <1>2, <1>5 DEF ScopesInv

LEMMA RegisterLocalScopeKeeps ==
  ASSUME ScopesInv, NEW kind \in {"comp", "repeat"}, RegisterLocalScope(kind)
  PROVE  ScopesInv'
<1>1. kind \in Scopings /\ {kind} \cap Declarations = {}
  BY ActionKinds
<1>2. Visit("register", {kind}) /\ NewScope /\ next' = next + 1
  BY DEF RegisterLocalScope
<1>3. UNCHANGED <<program, hspCompat, pass, status, members, resolved>>
  BY DEF RegisterLocalScope
<1>4. /\ Shape' /\ NamesFit(program, hspCompat, Registered)' /\ Tables'
      /\ Unique(members)' /\ LexicallyScoped' /\ UsesAreKnown' /\ VerdictIsRight'
      /\ Registered = next /\ Registered' = next + 1
  BY <1>1, <1>2, <1>3, PassKeeps
<1>5. item.kind = kind
  BY <1>2, VisitIs
<1>6. StackFits(program, scopes, next)' /\ ChainFits(program, enclosing, Registered)'
  BY <1>1, <1>2, <1>3, <1>4, <1>5, NewScopeFits
<1> QED BY <1>4, <1>6 DEF ScopesInv

LEMMA RegisterUseKeeps == ScopesInv /\ RegisterUse => ScopesInv'
<1> SUFFICES ASSUME ScopesInv, RegisterUse PROVE ScopesInv'
  OBVIOUS
<1>1. Visit("register", Uses) /\ next' = next + 1
  BY DEF RegisterUse
<1>2. UNCHANGED <<program, hspCompat, pass, status, scopes, enclosing, members, resolved>>
  BY DEF RegisterUse
<1>3. Uses \cap Declarations = {} /\ Uses \cap Scopings = {} /\ "end" \notin Uses
  BY KindsAre, ActionKinds
<1>4. /\ Shape' /\ NamesFit(program, hspCompat, Registered)' /\ Tables'
      /\ Unique(members)' /\ LexicallyScoped' /\ UsesAreKnown' /\ VerdictIsRight'
      /\ Registered = next /\ Registered' = next + 1
  BY <1>1, <1>2, <1>3, PassKeeps
<1>5. /\ program \in Programs /\ next \in 1..Len(program) /\ item = program[next]
      /\ item.kind \in Uses
  BY <1>1, VisitIs DEF item
<1>6. StackFits(program, scopes, next + 1)
  BY <1>1, <1>3, <1>5, StackStep
<1>7. ChainFits(program, enclosing, next + 1)
  BY <1>3, <1>4, <1>5, ChainStays DEF ScopesInv
<1>8. StackFits(program, scopes, next)' /\ ChainFits(program, enclosing, Registered)'
  BY <1>1, <1>2, <1>4, <1>6, <1>7
<1> QED BY <1>4, <1>8 DEF ScopesInv

LEMMA RegisterEndKeeps == ScopesInv /\ RegisterEnd => ScopesInv'
<1> SUFFICES ASSUME ScopesInv, RegisterEnd PROVE ScopesInv'
  OBVIOUS
<1>1. Visit("register", {"end"}) /\ next' = next + 1 /\ scopes' = Popped
  BY DEF RegisterEnd, LeaveScope
<1>2. UNCHANGED <<program, hspCompat, pass, status, enclosing, members, resolved>>
  BY DEF RegisterEnd, LeaveScope
<1>3. {"end"} \cap Declarations = {} /\ "end" \notin Scopings
  BY ActionKinds
<1>4. /\ Shape' /\ NamesFit(program, hspCompat, Registered)' /\ Tables'
      /\ Unique(members)' /\ LexicallyScoped' /\ UsesAreKnown' /\ VerdictIsRight'
      /\ Registered = next /\ Registered' = next + 1
  BY <1>1, <1>2, <1>3, PassKeeps
<1>5. /\ program \in Programs /\ next \in 1..Len(program) /\ item = program[next]
      /\ item.kind = "end"
  BY <1>1, VisitIs DEF item
<1>6. StackFits(program, Popped, next + 1)
  BY <1>1, <1>5, StackStep
<1>7. ChainFits(program, enclosing, next + 1)
  BY <1>3, <1>4, <1>5, ChainStays DEF ScopesInv
<1>8. StackFits(program, scopes, next)' /\ ChainFits(program, enclosing, Registered)'
  BY <1>1, <1>2, <1>4, <1>6, <1>7
<1> QED BY <1>4, <1>8 DEF ScopesInv

LEMMA StartResolvingKeeps == ScopesInv /\ StartResolving => ScopesInv'
<1> SUFFICES ASSUME ScopesInv, StartResolving PROVE ScopesInv'
  OBVIOUS
<1>1. /\ status = "running" /\ pass = "register" /\ next > Len(program)
      /\ pass' = "resolve" /\ next' = 1 /\ scopes' = <<Global>>
  BY DEF StartResolving
<1>2. UNCHANGED <<program, hspCompat, status, enclosing, members, resolved>>
  BY DEF StartResolving
<1>3. program \in Programs /\ next \in 1..(Len(program) + 1)
  BY DEF ScopesInv, Shape
<1>4. Len(program) \in Nat
  <2>1. program \in Seq(Items)
    BY <1>3, ProgramsAssumption
  <2> QED BY <2>1
<1>5. next = Len(program) + 1
  BY <1>1, <1>3, <1>4
<1>6. Shape'
  <2>1. 1 \in 1..(Len(program) + 1)
    BY <1>4
  <2> QED BY <1>1, <1>2, <2>1 DEF ScopesInv, Shape
<1>7. Registered' = Registered /\ Counted' = Counted
  BY <1>1, <1>2, <1>5 DEF Registered, Counted
<1>8. StackFits(program, scopes, next)'
  BY <1>1, <1>2, StackBegins
<1>9. Tables'
  <2>1. TablesFit(program, members, FALSE, Registered, Counted)
    BY <1>1 DEF ScopesInv, Tables, TablesFit
  <2>2. TablesFit(program, members, hspCompat, Registered, Counted)
    BY <2>1 DEF TablesFit
  <2> QED BY <1>1, <1>2, <1>7, <2>2 DEF Tables, TablesFit
<1>10. LexicallyScoped' /\ UsesAreKnown'
  <2>1. \A p \in Positions(program, Uses) : ~(p < 1)
    BY <1>3, PositionIs
  <2> QED BY <1>1, <1>2, <2>1 DEF LexicallyScoped, UsesAreKnown
<1>11. VerdictIsRight'
  BY <1>1, <1>2 DEF VerdictIsRight
<1> QED BY <1>2, <1>6, <1>7, <1>8, <1>9, <1>10, <1>11 DEF ScopesInv


\* A use that gets its symbol.
LEMMA UseKeeps ==
  ASSUME ScopesInv, Visit("resolve", Uses), NEW s \in Symbols,
         IF Meaning(program, next) # None THEN s = Meaning(program, next)
         ELSE hspCompat /\ item.kind = "ref" /\ s = Implicit,
         resolved' = [resolved EXCEPT ![next] = s], next' = next + 1,
         UNCHANGED <<program, hspCompat, pass, status, scopes, enclosing>>
  PROVE  /\ Shape' /\ StackFits(program, scopes, next)'
         /\ ChainFits(program, enclosing, Registered)'
         /\ NamesFit(program, hspCompat, Registered)'
         /\ LexicallyScoped' /\ UsesAreKnown' /\ VerdictIsRight'
         /\ TextSymbols(program, Registered', Counted') = TextSymbols(program, Registered, Counted)
<1>1. /\ program \in Programs /\ next \in Nat \ {0} /\ next \in 1..Len(program)
      /\ next + 1 \in 1..(Len(program) + 1) /\ item.kind \in Uses /\ item = program[next]
      /\ pass = "resolve" /\ status = "running"
  BY VisitIs DEF item
<1>2. item.kind \notin Scopings /\ item.kind # "end" /\ item.kind # "repeat"
  BY <1>1, KindsAre, ActionKinds
<1>3. resolved \in [1..Len(program) -> Symbols \cup {None}]
  BY DEF ScopesInv, Shape
<1>4. /\ resolved' \in [1..Len(program) -> Symbols \cup {None}]
      /\ resolved'[next] = s
      /\ \A p \in 1..Len(program) : p # next => resolved'[p] = resolved[p]
  BY <1>1, <1>3
<1>5. Shape'
  BY <1>1, <1>4 DEF ScopesInv, Shape
<1>6. StackFits(program, scopes, next)'
  <2>1. StackFits(program, scopes, next + 1)
    BY <1>2, StackStep
  <2> QED BY <2>1
<1>7. /\ Registered = Len(program) + 1 /\ Registered' = Len(program) + 1
      /\ Counted = next /\ Counted' = next + 1
  BY <1>1 DEF Registered, Counted
<1>8. ChainFits(program, enclosing, Registered)' /\ NamesFit(program, hspCompat, Registered)'
  BY <1>7 DEF ScopesInv
<1>9. TextSymbols(program, Registered', Counted') = TextSymbols(program, Registered, Counted)
  <2>1. program[next].kind # "repeat"
    BY <1>1, <1>2
  <2>2. \A k : TextSymbols(program, k, next + 1) = TextSymbols(program, k, next)
    BY <1>1, <2>1, CountStays
  <2> QED BY <1>7, <2>2
<1>10. \A p \in Positions(program, Uses) :
         /\ p \in 1..Len(program)
         /\ p < next + 1 => p < next \/ p = next
         /\ p < next => p # next
  <2>1. \A p \in Positions(program, Uses) : p \in Nat /\ p \in 1..Len(program)
    BY <1>1, PositionIs
  <2> QED BY <1>1, <2>1
<1>11. LexicallyScoped'
  <2> SUFFICES ASSUME NEW p \in Positions(program, Uses), p < next + 1
               PROVE  resolved'[p] = IF Meaning(program, p) # None THEN Meaning(program, p)
                                     ELSE ImplicitSymbol(program[p])
    BY DEF LexicallyScoped
  <2>1. CASE p = next
    BY <1>1, <1>4, <2>1 DEF Implicit
  <2>2. CASE p < next
    BY <1>1, <1>4, <1>10, <2>2 DEF ScopesInv, LexicallyScoped
  <2> QED BY <1>10, <2>1, <2>2
<1>12. UsesAreKnown'
  <2> SUFFICES ASSUME NEW p \in Positions(program, Uses), p < next + 1
               PROVE  Meaning(program, p) # None \/ (hspCompat /\ program[p].kind = "ref")
    BY DEF UsesAreKnown
  <2>1. CASE p = next
    BY <1>1, <2>1
  <2>2. CASE p < next
    BY <1>1, <2>2 DEF ScopesInv, UsesAreKnown
  <2> QED BY <1>10, <2>1, <2>2
<1>13. VerdictIsRight'
  BY <1>1 DEF VerdictIsRight
<1> QED BY <1>5, <1>6, <1>8, <1>9, <1>11, <1>12, <1>13

LEMMA SymbolsAre ==
  ASSUME ScopesInv
  PROVE  /\ members \subseteq Symbols
         /\ program \in Programs /\ program \in Seq(Items) /\ Len(program) \in Nat
         /\ Registered \in Nat /\ Counted \in Nat
<1>1. program \in Programs /\ next \in 1..(Len(program) + 1)
  BY DEF ScopesInv, Shape
<1>2. program \in Seq(Items)
  BY <1>1, ProgramsAssumption
<1>3. Len(program) \in Nat
  BY <1>2
<1>4. Registered \in Nat /\ Counted \in Nat
  BY <1>1, <1>3 DEF Registered, Counted
<1>5. TextSymbols(program, Registered, Counted) \subseteq Symbols
  BY <1>1, <1>4, TextIs
<1>6. \A it \in Items : it.kind = "ref" => ImplicitSymbol(it) \in Symbols
  <2>1. "ref" \in Uses
    BY KindsAre
  <2> QED BY <2>1, ItemIs, ImplicitIs
<1>7. members \subseteq Symbols
  BY <1>5, <1>6 DEF ScopesInv, Tables, TablesFit
<1> QED BY <1>1, <1>2, <1>3, <1>4, <1>7

LEMMA ResolveUseKeeps == ScopesInv /\ ResolveUse => ScopesInv'
<1> SUFFICES ASSUME ScopesInv, ResolveUse PROVE ScopesInv'
  OBVIOUS
<1>1. /\ Visit("resolve", Uses) /\ Lookup # None /\ next' = next + 1
      /\ resolved' = [resolved EXCEPT ![next] = Lookup]
  BY DEF ResolveUse
<1>2. UNCHANGED <<program, hspCompat, pass, status, scopes, enclosing, members>>
  BY DEF ResolveUse
<1>3. IF Meaning(program, next) # None THEN Lookup = Meaning(program, next)
      ELSE hspCompat /\ item.kind = "ref" /\ Lookup = Implicit
  BY <1>1, LookupIs
<1>4. Lookup \in Symbols
  BY <1>1, LookupIs, SymbolsAre
<1>5. /\ Shape' /\ StackFits(program, scopes, next)'
      /\ ChainFits(program, enclosing, Registered)'
      /\ NamesFit(program, hspCompat, Registered)'
      /\ LexicallyScoped' /\ UsesAreKnown' /\ VerdictIsRight'
      /\ TextSymbols(program, Registered', Counted') = TextSymbols(program, Registered, Counted)
  BY <1>1, <1>2, <1>3, <1>4, UseKeeps
<1>6. Tables'
  BY <1>2, <1>5, TablesStep DEF ScopesInv, Tables
<1>7. Unique(members)'
  BY <1>2 DEF ScopesInv
<1> QED BY <1>5, <1>6, <1>7 DEF ScopesInv

LEMMA DeclareImplicitlyKeeps == ScopesInv /\ DeclareImplicitly => ScopesInv'
<1> SUFFICES ASSUME ScopesInv, DeclareImplicitly PROVE ScopesInv'
  OBVIOUS
<1>1. Visit("resolve", {"ref"}) /\ Lookup = None /\ hspCompat
  BY DEF DeclareImplicitly
<1>2. UNCHANGED <<program, hspCompat, pass, scopes, enclosing>>
  BY DEF DeclareImplicitly
<1>3. /\ program \in Programs /\ next \in Nat \ {0} /\ next \in 1..Len(program)
      /\ item \in Items /\ item = program[next] /\ item.kind = "ref" /\ item.name \in Names
      /\ next \in Positions(program, {"ref"}) /\ pass = "resolve" /\ status = "running"
  <2>1. /\ program \in Programs /\ next \in Nat \ {0} /\ next \in 1..Len(program)
        /\ item \in Items /\ item.kind \in {"ref"}
        /\ next \in Positions(program, {"ref"}) /\ pass = "resolve" /\ status = "running"
    BY <1>1, VisitIs
  <2>2. item.name \in Names
    BY <2>1, ActionKinds, ItemIs
  <2> QED BY <2>1, <2>2 DEF item
<1>4. Visit("resolve", Uses)
  BY <1>1, ActionKinds DEF Visit
<1>5. /\ Meaning(program, next) = None
      /\ \A t \in Enclosing(program, next) : Found(t, Key(item), next) = {}
  BY <1>1, <1>4, LookupIs
<1>6. /\ Implicit.key = Key(item) /\ Implicit.kind = "var" /\ Implicit.scope = Global
      /\ Implicit \in Symbols
  BY <1>3, ImplicitIs DEF Implicit
<1>7. CASE IsDefined(Implicit)
  <2>1. status' = "abort" /\ UNCHANGED <<next, members, resolved>>
    BY <1>7 DEF DeclareImplicitly
  <2>2. PICK m \in members : m.scope = Global /\ m.key = Key(item)
    BY <1>6, <1>7 DEF IsDefined
  <2>3. Registered = Len(program) + 1 /\ Counted = next
    BY <1>3 DEF Registered, Counted
  <2>4. m \in TextSymbols(program, Len(program) + 1, next)
    <3>1. ASSUME NEW it \in Items, it.kind = "ref", m = ImplicitSymbol(it) PROVE FALSE
      <4>1. it.name \in Names
        BY <3>1, ActionKinds, ItemIs
      <4>2. m.pos = 0
        BY <3>1, <4>1, ImplicitIs
      <4>3. m \in Found(Global, Key(item), next)
        BY <1>3, <2>2, <4>2 DEF Found
      <4>4. Global \in Enclosing(program, next)
        BY <1>3, EnclosingIs DEF Global
      <4> QED BY <1>5, <4>3, <4>4
    <3> QED BY <2>3, <3>1 DEF ScopesInv, Tables, TablesFit
  <2>5. m \in Declared(program)
    <3> DEFINE L == Len(program) + 1
    <3>1. L \in Nat /\ next \in Nat /\ next <= L
      BY <1>3, SymbolsAre
    <3> HIDE DEF L
    <3>2. m \in TextSymbols(program, L, L)
      <4>1. TextSymbols(program, L, next) \subseteq TextSymbols(program, L, L)
        BY <1>3, <3>1, TextIsMonotonic
      <4> QED BY <2>4, <4>1 DEF L
    <3> QED BY <1>3, <3>2, TextEnds DEF L
  <2>6. IsDeclaredLate(program)
    <3>1. next \in Unknown(program, {"ref"})
      BY <1>3, <1>5 DEF Unknown
    <3> QED BY <1>3, <2>2, <2>5, <3>1 DEF IsDeclaredLate
  <2>7. VerdictIsRight'
    BY <1>2, <2>1, <2>6 DEF VerdictIsRight
  <2>8. Shape'
    BY <1>2, <2>1 DEF ScopesInv, Shape
  <2>9. Registered' = Registered /\ Counted' = Counted
    BY <1>2, <2>1 DEF Registered, Counted
  <2>10. Tables'
    BY <1>2, <2>1, <2>9 DEF ScopesInv, Tables
  <2>11. LexicallyScoped' /\ UsesAreKnown'
    BY <1>2, <2>1 DEF ScopesInv, LexicallyScoped, UsesAreKnown
  <2> QED BY <1>2, <2>1, <2>7, <2>8, <2>9, <2>10, <2>11 DEF ScopesInv
<1>8. CASE ~IsDefined(Implicit)
  <2>1. /\ members' = members \cup {Implicit} /\ resolved' = [resolved EXCEPT ![next] = Implicit]
        /\ next' = next + 1 /\ UNCHANGED status
    BY <1>8 DEF DeclareImplicitly, Define
  <2>2. /\ Shape' /\ StackFits(program, scopes, next)'
        /\ ChainFits(program, enclosing, Registered)'
        /\ NamesFit(program, hspCompat, Registered)'
        /\ LexicallyScoped' /\ UsesAreKnown' /\ VerdictIsRight'
        /\ TextSymbols(program, Registered', Counted') = TextSymbols(program, Registered, Counted)
    BY <1>1, <1>2, <1>3, <1>4, <1>5, <1>6, <2>1, UseKeeps
  <2>3. Unique(members)'
    <3>1. Unique(members)
      BY DEF ScopesInv
    <3>2. ~(\E t \in members : t.scope = Implicit.scope /\ t.key = Implicit.key)
      BY <1>8 DEF IsDefined
    <3>3. Unique(members \cup {Implicit})
      BY <3>1, <3>2, UniqueStep
    <3> QED BY <2>1, <3>3
  <2>4. Tables'
    <3>1. TablesFit(program, members, TRUE, Registered, Counted)
      BY <1>1, <1>3 DEF ScopesInv, Tables, TablesFit
    <3>2. TablesFit(program, members \cup {Implicit}, TRUE, Registered, Counted)
      BY <1>3, <3>1 DEF TablesFit, Implicit
    <3>3. TablesFit(program, members \cup {Implicit}, TRUE, Registered', Counted')
      BY <2>2, <3>2 DEF TablesFit
    <3> QED BY <1>1, <1>2, <1>3, <2>1, <3>3 DEF Tables, TablesFit
  <2> QED BY <2>2, <2>3, <2>4 DEF ScopesInv
<1> QED BY <1>7, <1>8

LEMMA ResolveFailsKeeps == ScopesInv /\ ResolveFails => ScopesInv'
<1> SUFFICES ASSUME ScopesInv, ResolveFails PROVE ScopesInv'
  OBVIOUS
<1>1. /\ Visit("resolve", Uses) /\ Lookup = None /\ ~(hspCompat /\ item.kind = "ref")
      /\ status' = "error"
  BY DEF ResolveFails, Throw
<1>2. UNCHANGED <<program, hspCompat, pass, next, scopes, enclosing, members, resolved>>
  BY DEF ResolveFails, Throw
<1>3. /\ next \in Positions(program, Uses) /\ next \in DOMAIN program
      /\ item = program[next] /\ item.kind \in Uses
  BY <1>1, VisitIs DEF item
<1>4. Meaning(program, next) = None
  BY <1>1, LookupIs
<1>5. IsIllegal(program, hspCompat)
  <2>1. hspCompat => item.kind \in {"jump", "type"}
    BY <1>1, <1>3 DEF Uses
  <2>2. hspCompat => next \in Unknown(program, {"jump", "type"})
    BY <1>3, <1>4, <2>1 DEF Unknown, Positions
  <2>3. next \in Unknown(program, Uses)
    BY <1>3, <1>4 DEF Unknown
  <2> QED BY <2>2, <2>3 DEF IsIllegal
<1>6. VerdictIsRight'
  BY <1>1, <1>2, <1>5 DEF VerdictIsRight
<1>7. Shape'
  BY <1>1, <1>2 DEF ScopesInv, Shape
<1>8. Registered' = Registered /\ Counted' = Counted
  BY <1>2 DEF Registered, Counted
<1>9. Tables'
  BY <1>2, <1>8 DEF ScopesInv, Tables
<1>10. LexicallyScoped' /\ UsesAreKnown'
  BY <1>2 DEF ScopesInv, LexicallyScoped, UsesAreKnown
<1> QED BY <1>2, <1>6, <1>7, <1>8, <1>9, <1>10 DEF ScopesInv

\* The scopes that are entered in the second pass exist.
LEMMA ResolveStep ==
  ASSUME ScopesInv, NEW kinds, Visit("resolve", kinds), kinds \cap Uses = {},
         next' = next + 1, UNCHANGED <<program, hspCompat, pass, status, enclosing, resolved>>
  PROVE  /\ Shape' /\ ChainFits(program, enclosing, Registered)'
         /\ NamesFit(program, hspCompat, Registered)'
         /\ LexicallyScoped' /\ UsesAreKnown' /\ VerdictIsRight'
         /\ Registered = Len(program) + 1 /\ Registered' = Len(program) + 1
         /\ Counted = next /\ Counted' = next + 1
<1>1. /\ Shape' /\ LexicallyScoped' /\ UsesAreKnown' /\ VerdictIsRight'
      /\ Registered = Len(program) + 1 /\ Registered' = Len(program) + 1
      /\ Counted = next /\ Counted' = next + 1
  BY ResolveGoesOn
<1>2. ChainFits(program, enclosing, Registered)' /\ NamesFit(program, hspCompat, Registered)'
  BY <1>1 DEF ScopesInv
<1> QED BY <1>1, <1>2

\* The symbol of cnt is never there yet.
LEMMA CntIsNew ==
  ASSUME ScopesInv, Visit("resolve", {"repeat"})
  PROVE  ~IsDefined(CntOf)
<1>1. /\ program \in Programs /\ next \in Nat \ {0} /\ pass = "resolve" /\ item.kind = "repeat"
      /\ Len(program) \in Nat
  BY VisitIs
<1>2. Registered = Len(program) + 1 /\ Counted = next
  BY <1>1 DEF Registered, Counted
<1>3. CntOf.scope = next /\ CntOf.key = <<"id", Cnt>>
  BY <1>1, CntIs DEF CntOf
<1> SUFFICES ASSUME NEW m \in members, m.scope = next, m.key = <<"id", Cnt>> PROVE FALSE
  BY <1>3 DEF IsDefined
<1>4. ASSUME m \in TextSymbols(program, Len(program) + 1, next) PROVE FALSE
  <2>1. CASE \E d \in Positions(program, Declarations) :
               d < Len(program) + 1 /\ m = DeclaredAt(program, d)
    <3>1. PICK d \in Positions(program, Declarations) :
                 d < Len(program) + 1 /\ m = DeclaredAt(program, d)
      BY <2>1
    <3>2. program[d].name \notin Reserved
      BY <1>2, <3>1 DEF ScopesInv, NamesFit
    <3>3. m.key = Key(program[d])
      BY <1>1, <3>1, DeclaredAtIs
    <3>4. program[d].name = Cnt
      BY <3>3 DEF Key
    <3> QED BY <3>2, <3>4 DEF Reserved
  <2>2. CASE \E d \in Positions(program, {"repeat"}) : d < next /\ m = CntSymbol(d)
    <3>1. PICK d \in Positions(program, {"repeat"}) : d < next /\ m = CntSymbol(d)
      BY <2>2
    <3>2. d \in Nat
      BY <1>1, PositionIs
    <3>3. m.scope = d
      BY <3>1, <3>2, CntIs
    <3> QED BY <1>1, <3>1, <3>2, <3>3
  <2>3. CASE m \in BuiltInSymbols
    <3>1. m.scope = 0
      BY <2>3, BuiltInIs DEF Global
    <3> QED BY <1>1, <3>1
  <2>4. Len(program) + 1 \in Nat /\ next \in Nat
    BY <1>1
  <2> QED BY <1>1, <1>4, <2>1, <2>2, <2>3, <2>4, TextIs
<1>5. ASSUME NEW it \in Items, it.kind = "ref", m = ImplicitSymbol(it) PROVE FALSE
  <2>1. it.name \in Names
    BY <1>5, ActionKinds, ItemIs
  <2>2. m.scope = 0
    BY <1>5, <2>1, ImplicitIs DEF Global
  <2> QED BY <1>1, <2>2
<1> QED BY <1>2, <1>4, <1>5 DEF ScopesInv, Tables, TablesFit

LEMMA ResolveRepeatKeeps == ScopesInv /\ ResolveRepeat => ScopesInv'
<1> SUFFICES ASSUME ScopesInv, ResolveRepeat PROVE ScopesInv'
  OBVIOUS
<1>1. Visit("resolve", {"repeat"}) /\ scopes' = Pushed(next) /\ next' = next + 1
  BY DEF ResolveRepeat
<1>2. UNCHANGED <<program, hspCompat, pass, status, enclosing, resolved>>
  BY DEF ResolveRepeat
<1>3. /\ program \in Programs /\ next \in Nat \ {0} /\ next \in 1..Len(program)
      /\ item = program[next] /\ item.kind = "repeat"
  BY <1>1, VisitIs DEF item
<1>4. ~IsDefined(CntOf) /\ members' = members \cup {CntSymbol(next)}
  BY <1>1, CntIsNew DEF ResolveRepeat, Define, CntOf
<1>5. {"repeat"} \cap Uses = {} /\ "repeat" \in Scopings
  BY ActionKinds
<1>6. /\ Shape' /\ ChainFits(program, enclosing, Registered)'
      /\ NamesFit(program, hspCompat, Registered)'
      /\ LexicallyScoped' /\ UsesAreKnown' /\ VerdictIsRight'
      /\ Registered = Len(program) + 1 /\ Registered' = Len(program) + 1
      /\ Counted = next /\ Counted' = next + 1
  BY <1>1, <1>2, <1>5, ResolveStep
<1>7. StackFits(program, scopes, next)'
  <2>1. StackFits(program, Pushed(next), next + 1)
    BY <1>1, <1>3, <1>5, StackStep
  <2> QED BY <1>1, <1>2, <2>1
<1>8. Unique(members)'
  <2>1. Unique(members \cup {CntSymbol(next)})
    <3>1. ~(\E t \in members : t.scope = CntSymbol(next).scope /\ t.key = CntSymbol(next).key)
      BY <1>4 DEF IsDefined, CntOf
    <3> QED BY <3>1, UniqueStep DEF ScopesInv
  <2> QED BY <1>4, <2>1
<1>9. Tables'
  <2> DEFINE L == Len(program) + 1
  <2> HIDE DEF L
  <2>1. TablesFit(program, members, pass = "resolve" /\ hspCompat, L, next)
    BY <1>6 DEF ScopesInv, Tables, L
  <2>2. TextSymbols(program, L, next + 1) = TextSymbols(program, L, next) \cup {CntSymbol(next)}
    <3>1. program[next].kind = "repeat"
      BY <1>3
    <3>2. program \in Programs /\ next \in 1..Len(program)
      BY <1>3
    <3> QED BY <3>1, <3>2, CountGrows
  <2>3. TablesFit(program, members \cup {CntSymbol(next)}, pass = "resolve" /\ hspCompat,
                  L, next + 1)
    BY <2>1, <2>2, TablesStep
  <2> QED BY <1>2, <1>4, <1>6, <2>3 DEF Tables, L
<1> QED BY <1>6, <1>7, <1>8, <1>9 DEF ScopesInv

\* An item of the second pass that adds nothing.
LEMMA WalkKeeps ==
  ASSUME ScopesInv, NEW kinds, Visit("resolve", kinds), kinds \cap Uses = {},
         "repeat" \notin kinds, next' = next + 1,
         UNCHANGED <<program, hspCompat, pass, status, enclosing, members, resolved>>,
         StackFits(program, scopes', next + 1)
  PROVE  ScopesInv'
<1>1. /\ program \in Programs /\ next \in 1..Len(program) /\ program[next].kind # "repeat"
  BY VisitIs DEF item
<1>2. /\ Shape' /\ ChainFits(program, enclosing, Registered)'
      /\ NamesFit(program, hspCompat, Registered)'
      /\ LexicallyScoped' /\ UsesAreKnown' /\ VerdictIsRight'
      /\ Registered = Len(program) + 1 /\ Registered' = Len(program) + 1
      /\ Counted = next /\ Counted' = next + 1
  BY ResolveStep
<1>3. StackFits(program, scopes, next)'
  OBVIOUS
<1>4. Unique(members)'
  BY DEF ScopesInv
<1>5. Tables'
  <2> DEFINE L == Len(program) + 1
  <2> HIDE DEF L
  <2>1. TablesFit(program, members, pass = "resolve" /\ hspCompat, L, next)
    BY <1>2 DEF ScopesInv, Tables, L
  <2>2. TextSymbols(program, L, next + 1) = TextSymbols(program, L, next)
    BY <1>1, CountStays
  <2>3. TablesFit(program, members, pass = "resolve" /\ hspCompat, L, next + 1)
    BY <2>1, <2>2, TablesStep
  <2> QED BY <1>2, <2>3 DEF Tables, L
<1> QED BY <1>2, <1>3, <1>4, <1>5 DEF ScopesInv


LEMMA EnterScopeKeeps == ScopesInv /\ EnterScope => ScopesInv'
<1> SUFFICES ASSUME ScopesInv, EnterScope PROVE ScopesInv'
  OBVIOUS
<1> DEFINE kinds == {"func", "namespace", "comp"}
<1>1. Visit("resolve", kinds) /\ scopes' = Pushed(next) /\ next' = next + 1
  BY DEF EnterScope
<1>2. UNCHANGED <<program, hspCompat, pass, status, enclosing, members, resolved>>
  BY DEF EnterScope
<1>3. kinds \cap Uses = {} /\ kinds \subseteq Scopings /\ "repeat" \notin kinds
  BY KindsAre DEF Scopings
<1> HIDE DEF kinds
<1>4. StackFits(program, Pushed(next), next + 1)
  <2>1. item.kind \in Scopings
    BY <1>1, <1>3, VisitIs
  <2> QED BY <1>1, <2>1, StackStep
<1> QED BY <1>1, <1>2, <1>3, <1>4, WalkKeeps

LEMMA ResolveEndKeeps == ScopesInv /\ ResolveEnd => ScopesInv'
<1> SUFFICES ASSUME ScopesInv, ResolveEnd PROVE ScopesInv'
  OBVIOUS
<1>1. Visit("resolve", {"end"}) /\ scopes' = Popped /\ next' = next + 1
  BY DEF ResolveEnd, LeaveScope
<1>2. UNCHANGED <<program, hspCompat, pass, status, enclosing, members, resolved>>
  BY DEF ResolveEnd, LeaveScope
<1>3. {"end"} \cap Uses = {} /\ "repeat" \notin {"end"}
  BY ActionKinds
<1>4. StackFits(program, Popped, next + 1)
  <2>1. item.kind = "end"
    BY <1>1, VisitIs
  <2> QED BY <1>1, <2>1, StackStep
<1> QED BY <1>1, <1>2, <1>3, <1>4, WalkKeeps

LEMMA ResolveDeclaredKeeps == ScopesInv /\ ResolveDeclared => ScopesInv'
<1> SUFFICES ASSUME ScopesInv, ResolveDeclared PROVE ScopesInv'
  OBVIOUS
<1> DEFINE kinds == {"var", "extern", "label"}
<1>1. Visit("resolve", kinds) /\ next' = next + 1
  BY DEF ResolveDeclared
<1>2. UNCHANGED <<program, hspCompat, pass, status, scopes, enclosing, members, resolved>>
  BY DEF ResolveDeclared
<1>3. /\ kinds \cap Uses = {} /\ kinds \cap Scopings = {}
      /\ "end" \notin kinds /\ "repeat" \notin kinds
  BY ActionKinds, KindsAre
<1> HIDE DEF kinds
<1>4. StackFits(program, scopes, next + 1)
  <2>1. item.kind \in kinds
    BY <1>1, VisitIs
  <2>2. item.kind \notin Scopings /\ item.kind # "end"
    BY <1>3, <2>1
  <2> QED BY <1>1, <2>2, StackStep
<1> QED BY <1>1, <1>2, <1>3, <1>4, WalkKeeps

LEMMA FinishKeeps == ScopesInv /\ Finish => ScopesInv'
<1> SUFFICES ASSUME ScopesInv, Finish PROVE ScopesInv'
  OBVIOUS
<1>1. pass = "resolve" /\ next > Len(program) /\ status' = "done"
  BY DEF Finish
<1>2. UNCHANGED <<program, hspCompat, pass, next, scopes, enclosing, members, resolved>>
  BY DEF Finish
<1> DEFINE L == Len(program) + 1
<1>3. program \in Programs /\ Len(program) \in Nat /\ next = L
  <2>1. program \in Programs /\ next \in 1..(Len(program) + 1) /\ Len(program) \in Nat
    BY SymbolsAre DEF ScopesInv, Shape
  <2> QED BY <1>1, <2>1
<1>4. Registered = L /\ Counted = L
  BY <1>1, <1>3 DEF Registered, Counted
<1>5. \A kinds : \A p \in Positions(program, kinds) :
        p < L /\ p \in DOMAIN program /\ program[p].kind \in kinds
  BY <1>3, PositionIs DEF Positions
<1> HIDE DEF L
<1>6. \A d \in Positions(program, Declarations) :
        program[d].name \notin Reserved /\ (program[d].kind = "label" => hspCompat)
  BY <1>4, <1>5 DEF ScopesInv, NamesFit
<1>7. hspCompat \/ Positions(program, {"label"}) = {}
  <2> SUFFICES ASSUME NEW d \in Positions(program, {"label"}) PROVE hspCompat
    OBVIOUS
  <2>1. d \in DOMAIN program /\ program[d].kind = "label"
    BY <1>5
  <2>2. d \in Positions(program, Declarations)
    BY <2>1, ActionKinds DEF Positions
  <2> QED BY <1>6, <2>1, <2>2
<1>8. ~IsRedeclared(program)
  <2>1. Declared(program) \subseteq members
    <3>1. TextSymbols(program, L, L) \subseteq members
      BY <1>4 DEF ScopesInv, Tables, TablesFit
    <3> QED BY <1>3, <3>1, TextEnds DEF L
  <2>2. Unique(members)
    BY DEF ScopesInv
  <2> QED BY <2>1, <2>2 DEF IsRedeclared, Unique
<1>9. \A p \in Positions(program, Uses) :
        Meaning(program, p) # None \/ (hspCompat /\ program[p].kind = "ref")
  BY <1>1, <1>3, <1>5 DEF ScopesInv, UsesAreKnown
<1>10. Unknown(program, IF hspCompat THEN {"jump", "type"} ELSE Uses) = {}
  <2>1. CASE hspCompat
    <3> SUFFICES ASSUME NEW p \in Positions(program, {"jump", "type"}),
                        Meaning(program, p) = None
                 PROVE  FALSE
      BY <2>1 DEF Unknown
    <3>1. p \in DOMAIN program /\ (program[p].kind = "jump" \/ program[p].kind = "type")
      BY <1>5
    <3>2. p \in Positions(program, Uses)
      BY <3>1 DEF Positions, Uses
    <3>3. program[p].kind = "ref"
      BY <1>9, <3>2
    <3> QED BY <3>1, <3>3
  <2>2. CASE ~hspCompat
    BY <1>9, <2>2 DEF Unknown
  <2> QED BY <2>1, <2>2
<1>11. ~IsIllegal(program, hspCompat)
  BY <1>6, <1>7, <1>8, <1>10 DEF IsIllegal
<1>12. VerdictIsRight'
  BY <1>1, <1>2, <1>11 DEF VerdictIsRight
<1>13. Shape'
  BY <1>1, <1>2 DEF ScopesInv, Shape
<1>14. Registered' = Registered /\ Counted' = Counted
  BY <1>2 DEF Registered, Counted
<1>15. Tables'
  BY <1>2, <1>14 DEF ScopesInv, Tables
<1>16. LexicallyScoped' /\ UsesAreKnown'
  BY <1>2 DEF ScopesInv, LexicallyScoped, UsesAreKnown
<1> QED BY <1>2, <1>12, <1>13, <1>14, <1>15, <1>16 DEF ScopesInv

LEMMA InitFits == Init => ScopesInv
<1> SUFFICES ASSUME Init PROVE ScopesInv
  OBVIOUS
<1>1. /\ program \in Programs /\ hspCompat \in BOOLEAN
      /\ pass = "register" /\ status = "running" /\ next = 1 /\ scopes = <<Global>>
      /\ members = BuiltInSymbols
  BY DEF Init
<1>2. Len(program) \in Nat
  <2>1. program \in Seq(Items)
    BY <1>1, ProgramsAssumption
  <2> QED BY <2>1
<1>3. Registered = 1 /\ Counted = 1
  BY <1>1 DEF Registered, Counted
<1>4. Shape
  <2>1. 1 \in 1..(Len(program) + 1)
    BY <1>2
  <2>2. resolved \in [1..Len(program) -> Symbols \cup {None}]
    BY DEF Init
  <2> QED BY <1>1, <2>1, <2>2 DEF Shape
<1>5. \A kinds : \A p \in Positions(program, kinds) : ~(p < 1)
  BY <1>1, PositionIs
<1>6. StackFits(program, scopes, next)
  BY <1>1, StackBegins
<1>7. ChainFits(program, enclosing, Registered)
  <2>1. DOMAIN enclosing = {}
    BY DEF Init
  <2> QED BY <1>3, <1>5, <2>1 DEF ChainFits
<1>8. NamesFit(program, hspCompat, Registered)
  BY <1>3, <1>5 DEF NamesFit
<1>9. Tables
  BY <1>1, <1>3, TextBegins DEF Tables, TablesFit
<1>10. Unique(members)
  <2> SUFFICES ASSUME NEW m1 \in BuiltInSymbols, NEW m2 \in BuiltInSymbols, m1.key = m2.key
               PROVE  m1 = m2
    BY <1>1 DEF Unique
  <2>1. PICK T1 \in BuiltIns : m1 = Symbol([kind |-> "builtin", name |-> T1], Global, 0)
    BY DEF BuiltInSymbols
  <2>2. PICK T2 \in BuiltIns : m2 = Symbol([kind |-> "builtin", name |-> T2], Global, 0)
    BY DEF BuiltInSymbols
  <2>3. m1.key[2] = T1 /\ m2.key[2] = T2
    BY <2>1, <2>2 DEF Symbol, Key
  <2> QED BY <2>1, <2>2, <2>3
<1>11. LexicallyScoped /\ UsesAreKnown /\ VerdictIsRight
  BY <1>1 DEF LexicallyScoped, UsesAreKnown, VerdictIsRight
<1> QED BY <1>4, <1>6, <1>7, <1>8, <1>9, <1>10, <1>11 DEF ScopesInv

LEMMA StutterKeeps == ScopesInv /\ UNCHANGED vars => ScopesInv'
<1> SUFFICES ASSUME ScopesInv, UNCHANGED vars PROVE ScopesInv'
  OBVIOUS
<1>1. UNCHANGED <<program, hspCompat, pass, status, next, scopes, enclosing, members, resolved>>
  BY DEF vars
<1>2. Registered' = Registered /\ Counted' = Counted
  BY <1>1 DEF Registered, Counted
<1>3. Shape' /\ Tables'
  BY <1>1, <1>2 DEF ScopesInv, Shape, Tables
<1>4. LexicallyScoped' /\ UsesAreKnown' /\ VerdictIsRight'
  BY <1>1 DEF ScopesInv, LexicallyScoped, UsesAreKnown, VerdictIsRight
<1> QED BY <1>1, <1>2, <1>3, <1>4 DEF ScopesInv

LEMMA NextKeeps == ScopesInv /\ [Next]_vars => ScopesInv'
<1> SUFFICES ASSUME ScopesInv, [Next]_vars PROVE ScopesInv'
  OBVIOUS
<1>1. ASSUME RegisterVarDef \/ RegisterExtern \/ RegisterLabel PROVE ScopesInv'
  <2>1. PICK kind \in {"var", "extern", "label"} : Register(kind)
    BY <1>1 DEF RegisterVarDef, RegisterExtern, RegisterLabel
  <2>2. UNCHANGED <<scopes, enclosing>>
    BY <1>1 DEF RegisterVarDef, RegisterExtern, RegisterLabel
  <2> QED BY <2>1, <2>2, RegisterPlainKeeps
<1>2. ASSUME RegisterFuncDef \/ RegisterNamespace PROVE ScopesInv'
  <2>1. PICK kind \in {"func", "namespace"} : Register(kind)
    BY <1>2 DEF RegisterFuncDef, RegisterNamespace
  <2>2. NewScope
    BY <1>2 DEF RegisterFuncDef, RegisterNamespace
  <2> QED BY <2>1, <2>2, RegisterScopeKeeps
<1>3. ASSUME RegisterComp \/ RegisterRepeat PROVE ScopesInv'
  <2>1. PICK kind \in {"comp", "repeat"} : RegisterLocalScope(kind)
    BY <1>3 DEF RegisterComp, RegisterRepeat
  <2> QED BY <2>1, RegisterLocalScopeKeeps
<1>4. CASE RegisterFails
  BY <1>4, RegisterFailsKeeps
<1>5. CASE RegisterUse
  BY <1>5, RegisterUseKeeps
<1>6. CASE RegisterEnd
  BY <1>6, RegisterEndKeeps
<1>7. CASE StartResolving
  BY <1>7, StartResolvingKeeps
<1>8. CASE ResolveUse
  BY <1>8, ResolveUseKeeps
<1>9. CASE DeclareImplicitly
  BY <1>9, DeclareImplicitlyKeeps
<1>10. CASE ResolveFails
  BY <1>10, ResolveFailsKeeps
<1>11. CASE ResolveRepeat
  BY <1>11, ResolveRepeatKeeps
<1>12. CASE EnterScope
  BY <1>12, EnterScopeKeeps
<1>13. CASE ResolveEnd
  BY <1>13, ResolveEndKeeps
<1>14. CASE ResolveDeclared
  BY <1>14, ResolveDeclaredKeeps
<1>15. CASE Finish
  BY <1>15, FinishKeeps
<1>16. CASE UNCHANGED vars
  BY <1>16, StutterKeeps
<1> QED
  BY <1>1, <1>2, <1>3, <1>4, <1>5, <1>6, <1>7, <1>8, <1>9, <1>10, <1>11, <1>12, <1>13,
     <1>14, <1>15, <1>16 DEF Next

LEMMA InvHolds == Spec => []ScopesInv
BY InitFits, NextKeeps, PTL DEF Spec

-----------------------------------------------------------------------------
\* Scopes keeps its types: every scope on the stack and in enclosing_ is one
\* that begins in the program, and every symbol in a table is well-formed.
THEOREM ScopesAreTyped == Spec => []TypeOK
<1>1. ScopesInv => TypeOK
  <2> SUFFICES ASSUME ScopesInv PROVE TypeOK
    OBVIOUS
  <2>1. /\ members \subseteq Symbols /\ program \in Programs /\ Len(program) \in Nat
        /\ next \in 1..(Len(program) + 1) /\ next \in Nat
    BY SymbolsAre DEF ScopesInv, Shape
  <2>2. StackFits(program, scopes, next) /\ ChainFits(program, enclosing, Registered)
    BY DEF ScopesInv
  <2>3. scopes \in Seq(Nat) /\ scopes # <<>>
    BY <2>2 DEF StackFits
  <2>4. \A i \in 1..Len(scopes) : scopes[i] \in Global..Len(program)
    <3>1. \A s \in Enclosing(program, next) : s \in Nat /\ s < next
      BY <2>1, EnclosingIs
    <3>2. \A i \in 1..Len(scopes) : scopes[i] \in Enclosing(program, next)
      BY <2>2 DEF StackFits
    <3>3. \A s \in Enclosing(program, next) : s \in Global..Len(program)
      BY <2>1, <3>1 DEF Global
    <3> QED BY <3>2, <3>3
  <2>5. scopes \in Seq(Global..Len(program))
    <3> DEFINE T == Global..Len(program)
    <3> HIDE DEF T
    <3>1. scopes \in [1..Len(scopes) -> Nat] /\ Len(scopes) \in Nat
      BY <2>3
    <3>2. scopes \in [1..Len(scopes) -> T]
      BY <2>4, <3>1 DEF T
    <3>3. scopes \in Seq(T)
      BY <3>1, <3>2, SeqDef
    <3> QED BY <3>3 DEF T
  <2>6. DOMAIN enclosing \subseteq Positions(program, Scopings)
    BY <2>2 DEF ChainFits
  <2>7. \A d \in DOMAIN enclosing : enclosing[d] \in Global..Len(program)
    <3> SUFFICES ASSUME NEW d \in DOMAIN enclosing
                 PROVE  enclosing[d] \in Global..Len(program)
      OBVIOUS
    <3>1. d \in Nat \ {0} /\ d \in 1..Len(program) /\ enclosing[d] = Innermost(program, d)
      BY <2>1, <2>2, <2>6, PositionIs DEF ChainFits
    <3>2. enclosing[d] \in Nat /\ enclosing[d] < d
      BY <3>1, InnermostIs
    <3> QED BY <2>1, <3>1, <3>2 DEF Global
  <2>8. enclosing \in [DOMAIN enclosing -> Global..Len(program)]
    BY <2>2, <2>7 DEF ChainFits
  <2> QED BY <2>1, <2>3, <2>5, <2>6, <2>8 DEF TypeOK, ScopesInv, Shape
<1> QED BY <1>1, InvHolds, PTL

\* SymbolResolver gives every use of a name the symbol the text gives it, or
\* the variable its use declares, for every program that is nested.
THEOREM NamesAreLexicallyScoped == Spec => []LexicallyScoped
<1>1. ScopesInv => LexicallyScoped
  BY DEF ScopesInv
<1> QED BY <1>1, InvHolds, PTL

\* The two passes accept what is legal and reject what is not, and the
\* assertion in SymbolResolver stops only programs that declare a variable
\* after they have used it, for every program that is nested.
THEOREM VerdictsAreRight == Spec => []VerdictIsRight
<1>1. ScopesInv => VerdictIsRight
  BY DEF ScopesInv
<1> QED BY <1>1, InvHolds, PTL
===============================================================================
