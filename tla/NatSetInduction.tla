-------------------------- MODULE NatSetInduction --------------------------
(***************************************************************************)
(* Induction over the natural numbers, stated with sets instead of         *)
(* predicates.  The provers cannot instantiate the predicates of the       *)
(* library's induction theorems, so that these lemmas start from another   *)
(* theorem of it: finite sets are well founded under strict inclusion.     *)
(***************************************************************************)
EXTENDS Integers, TLAPS, FiniteSetTheorems

\* A set that holds 0 and, with a number, the next one holds every number.
LEMMA SetInduction ==
    ASSUME NEW S, 0 \in S, \A n \in Nat : n \in S => n + 1 \in S
    PROVE  Nat \subseteq S
  <1> SUFFICES ASSUME NEW k \in Nat \ S PROVE FALSE
    OBVIOUS
  <1> DEFINE T == {0..n : n \in Nat \ S}
             F == FiniteSubsetsOf(Nat)
  <1>1. T # {} /\ T \subseteq F
    <2>1. \A n \in Nat : IsFiniteSet(0..n)
      BY FS_Interval
    <2>2. T # {}
      OBVIOUS
    <2>3. \A n \in Nat : 0..n \in SUBSET Nat
      OBVIOUS
    <2>. QED
      BY <2>1, <2>2, <2>3 DEF FiniteSubsetsOf
  <1>2. IsWellFoundedOn(StrictSubsetOrdering(Nat), F)
    BY FS_StrictSubsetOrderingWellFounded
  <1>3. \E x \in T : \A y \in T : <<y, x>> \notin StrictSubsetOrdering(Nat)
    <2> HIDE DEF T, F
    <2>. QED
      BY <1>1, <1>2, WFMin
  <1>4. PICK n \in Nat \ S : \A y \in T : <<y, 0..n>> \notin StrictSubsetOrdering(Nat)
    BY <1>3
  <1>5. n # 0 /\ n - 1 \in Nat \ S
    OBVIOUS
  <1>6. 0..(n - 1) \in T
    BY <1>5
  <1>7. <<0..(n - 1), 0..n>> \in StrictSubsetOrdering(Nat)
    <2>1. 0..(n - 1) \subseteq 0..n /\ 0..(n - 1) \in SUBSET Nat /\ 0..n \in SUBSET Nat
      BY <1>5
    <2>2. n \in 0..n /\ n \notin 0..(n - 1)
      BY <1>5
    <2>3. 0..(n - 1) # 0..n
      BY <2>2
    <2>. QED
      BY <2>1, <2>3 DEF StrictSubsetOrdering
  <1>. QED
    BY <1>4, <1>6, <1>7

\* A set of numbers that is not empty has a least element.
LEMMA LeastElement ==
    ASSUME NEW T \in SUBSET Nat, T # {}
    PROVE  \E n \in T : \A m \in T : n <= m
  <1> SUFFICES ASSUME \A n \in T : \E m \in T : m < n PROVE FALSE
    OBVIOUS
  <1> DEFINE S == {n \in Nat : \A m \in 0..n : m \notin T}
  <1>1. 0 \in S
    OBVIOUS
  <1>2. \A n \in Nat : n \in S => n + 1 \in S
    <2> SUFFICES ASSUME NEW n \in Nat, n \in S, NEW m \in 0..(n + 1), m \in T PROVE FALSE
      OBVIOUS
    <2>1. PICK k \in T : k < m
      OBVIOUS
    <2>2. k \in 0..n
      BY <2>1
    <2>. QED
      BY <2>1, <2>2
  <1> HIDE DEF S
  <1>3. Nat \subseteq S
    BY <1>1, <1>2, SetInduction
  <1>4. PICK n \in T : TRUE
    OBVIOUS
  <1>5. n \in S
    BY <1>3, <1>4
  <1>. QED
    BY <1>4, <1>5 DEF S

\* f begins with a and goes on by steps.
Iterates(f, N, A, a, step) ==
    /\ f \in [0..N -> A]
    /\ f[0] = a
    /\ \A n \in 1..N : f[n] = step[<<n, f[n - 1]>>]

\* A function defined by its first value and a step from one value to the next exists.
LEMMA Iteration ==
    ASSUME NEW N \in Nat, NEW A, NEW a \in A, NEW step \in [(1..N) \X A -> A]
    PROVE  \E f : Iterates(f, N, A, a, step)
  <1> DEFINE G(k) == \E f \in [0..k -> A] :
                        f[0] = a /\ \A n \in 1..k : f[n] = step[<<n, f[n - 1]>>]
             S == {k \in Nat : k <= N => G(k)}
  <1>1. 0 \in S
    <2> DEFINE f == [n \in 0..0 |-> a]
    <2>1. f \in [0..0 -> A] /\ f[0] = a /\ \A n \in 1..0 : FALSE
      OBVIOUS
    <2>2. G(0)
      BY <2>1
    <2>. QED
      BY <2>2
  <1>2. \A k \in Nat : k \in S => k + 1 \in S
    <2> SUFFICES ASSUME NEW k \in Nat, k \in S, k + 1 <= N PROVE G(k + 1)
      OBVIOUS
    <2>1. PICK f \in [0..k -> A] : f[0] = a /\ \A n \in 1..k : f[n] = step[<<n, f[n - 1]>>]
      OBVIOUS
    <2> DEFINE g == [n \in 0..(k + 1) |-> IF n = k + 1 THEN step[<<k + 1, f[k]>>] ELSE f[n]]
    <2>2. <<k + 1, f[k]>> \in (1..N) \X A
      BY <2>1
    <2>3. g \in [0..(k + 1) -> A]
      BY <2>1, <2>2
    <2>4. g[0] = a /\ \A n \in 1..(k + 1) : g[n] = step[<<n, g[n - 1]>>]
      <3>1. \A n \in 0..k : g[n] = f[n]
        OBVIOUS
      <3>2. g[k + 1] = step[<<k + 1, f[k]>>]
        OBVIOUS
      <3>3. ASSUME NEW n \in 1..k PROVE g[n] = step[<<n, g[n - 1]>>]
        <4>1. n \in 0..k /\ n - 1 \in 0..k
          OBVIOUS
        <4>. QED
          BY <2>1, <3>1, <4>1
      <3>4. k + 1 - 1 = k /\ k \in 0..k /\ 0 \in 0..k
        OBVIOUS
      <3>5. g[k + 1] = step[<<k + 1, g[k + 1 - 1]>>]
        BY <3>1, <3>2, <3>4
      <3>6. \A n \in 1..(k + 1) : n \in 1..k \/ n = k + 1
        OBVIOUS
      <3> HIDE DEF g
      <3>. QED
        BY <2>1, <3>1, <3>3, <3>4, <3>5, <3>6
    <2> HIDE DEF g
    <2>. QED
      BY <2>3, <2>4
  <1> HIDE DEF S
  <1>3. Nat \subseteq S
    BY <1>1, <1>2, SetInduction
  <1>. QED
    BY <1>3 DEF S, Iterates
=============================================================================
