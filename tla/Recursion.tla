----------------------------- MODULE Recursion -----------------------------
(***************************************************************************)
(* What a recursive function over the natural numbers is, for a proof: a   *)
(* function that satisfies its equation exists, so the one its definition  *)
(* chooses does.  A module that proves things about such a function takes  *)
(* an instance of this one for it.                                         *)
(***************************************************************************)
EXTENDS Integers, TLAPS, WellFoundedInduction

CONSTANTS
    Base(_),     \* the value at 0, from the parameters of the function
    Step(_, _, _) \* the value at n, from the parameters, the value at n - 1, and n

IsRecursive(param, f) ==
    f = [n \in Nat |-> IF n = 0 THEN Base(param) ELSE Step(param, f[n - 1], n)]

-----------------------------------------------------------------------------

\* Induction, for a set of numbers.
LEMMA SetInduction ==
    ASSUME NEW S, 0 \in S, \A n \in Nat : n \in S => n + 1 \in S
    PROVE  Nat \subseteq S
<1>. DEFINE T == {n \in Nat : n \notin S}
            R == {pair \in Nat \X Nat : pair[1] < pair[2]}
<1>1. IsWellFoundedOn(R, Nat)
  BY NatLessThanWellFounded DEF OpToRel
<1>2. SUFFICES ASSUME T # {} PROVE FALSE
  OBVIOUS
<1>. HIDE DEF R
<1>3. PICK x \in T : \A y \in T : ~ (<<y, x>> \in R)
  BY <1>1, <1>2, WFMin
<1>4. x \in Nat /\ x # 0 /\ x - 1 \in Nat /\ x - 1 < x
  OBVIOUS
<1>5. x - 1 \in T
  BY <1>4
<1>6. <<x - 1, x>> \in R
  BY <1>4 DEF R
<1>. QED BY <1>3, <1>5, <1>6

\* A set of numbers that is not empty has a least one.
LEMMA LeastNumber ==
    ASSUME NEW S \in SUBSET Nat, S # {}
    PROVE  \E least \in S : \A n \in S : least <= n
<1>. DEFINE T == {n \in Nat : \A i \in S : n <= i}
<1>1. SUFFICES ASSUME \A least \in S : least \notin T PROVE FALSE
  OBVIOUS
<1>2. 0 \in T
  OBVIOUS
<1>3. ASSUME NEW n \in Nat, n \in T PROVE n + 1 \in T
  <2>1. n \notin S
    BY <1>1, <1>3
  <2>2. \A i \in S : i \in Nat /\ n <= i /\ i # n
    BY <1>3, <2>1
  <2>3. \A i \in S : n + 1 <= i
    BY <2>2
  <2>. QED BY <2>3
<1>. HIDE DEF T
<1>4. Nat \subseteq T
  BY <1>2, <1>3, SetInduction
<1>5. PICK i \in S : TRUE
  OBVIOUS
<1>. QED BY <1>1, <1>4, <1>5

-----------------------------------------------------------------------------

\* The functions that satisfy the equation up to n, and no further.
Approximates(param, f, n) ==
    f = [i \in 0 .. n |-> IF i = 0 THEN Base(param) ELSE Step(param, f[i - 1], i)]

LEMMA SomeApproximates ==
    ASSUME NEW param PROVE \A n \in Nat : \E f : Approximates(param, f, n)
<1>. DEFINE S == {n \in Nat : \E f : Approximates(param, f, n)}
<1>1. 0 \in S
  <2>1. Approximates(param, [i \in 0 .. 0 |-> Base(param)], 0)
    BY DEF Approximates
  <2>. QED BY <2>1
<1>2. ASSUME NEW n \in Nat, n \in S PROVE n + 1 \in S
  <2>1. PICK f : Approximates(param, f, n)
    BY <1>2
  <2>. DEFINE g == [i \in 0 .. n + 1 |-> IF i = n + 1 THEN Step(param, f[n], i) ELSE f[i]]
  <2>2. \A i \in 0 .. n + 1 : g[i] = IF i = 0 THEN Base(param) ELSE Step(param, g[i - 1], i)
    BY <2>1 DEF Approximates
  <2>3. Approximates(param, g, n + 1)
    BY <2>2 DEF Approximates
  <2>. QED BY <2>3
<1>. HIDE DEF S
<1>3. Nat \subseteq S
  BY <1>1, <1>2, SetInduction
<1>. QED BY <1>3 DEF S

LEMMA ApproximationsAgree ==
    ASSUME NEW param, NEW m \in Nat, NEW n \in Nat, m <= n,
           NEW f, Approximates(param, f, m), NEW g, Approximates(param, g, n)
    PROVE  f[m] = g[m]
<1>. DEFINE S == {i \in Nat : i <= m => f[i] = g[i]}
<1>1. 0 \in S
  BY DEF Approximates
<1>2. ASSUME NEW i \in Nat, i \in S PROVE i + 1 \in S
  BY <1>2 DEF Approximates
<1>. HIDE DEF S
<1>3. Nat \subseteq S
  BY <1>1, <1>2, SetInduction
<1>. QED BY <1>3 DEF S

\* A recursive function over the natural numbers exists.
LEMMA RecursiveFunctionExists == \A param : \E f : IsRecursive(param, f)
<1>. TAKE param
<1>. DEFINE G(n) == CHOOSE f : Approximates(param, f, n)
            F == [n \in Nat |-> G(n)[n]]
<1>1. ASSUME NEW n \in Nat PROVE Approximates(param, G(n), n)
  BY SomeApproximates
<1>. HIDE DEF G
<1>2. \A n \in Nat : F[n] = IF n = 0 THEN Base(param) ELSE Step(param, F[n - 1], n)
  <2>. TAKE n \in Nat
  <2>1. CASE n = 0
    BY <2>1, <1>1 DEF Approximates
  <2>2. CASE n # 0
    <3>1. n - 1 \in Nat
      BY <2>2
    <3>2. G(n)[n - 1] = G(n - 1)[n - 1]
      <4>1. G(n)[n - 1] = [i \in 0 .. n - 1 |-> G(n)[i]][n - 1]
        BY <3>1
      <4>. QED BY <3>1, <1>1, ApproximationsAgree
    <3>3. G(n)[n] = Step(param, G(n)[n - 1], n)
      BY <2>2, <1>1 DEF Approximates
    <3>. QED BY <3>1, <3>2, <3>3, <2>2
  <2>. QED BY <2>1, <2>2
<1>3. F = [n \in Nat |-> IF n = 0 THEN Base(param) ELSE Step(param, F[n - 1], n)]
  BY <1>2
<1>. HIDE DEF F
<1>. QED BY <1>3 DEF IsRecursive
=============================================================================
