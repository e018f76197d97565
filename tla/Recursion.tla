----------------------------- MODULE Recursion ------------------------------
(***************************************************************************)
(* Induction and recursion over the natural numbers in a form in which     *)
(* sets and functions, not operators, are the parameters: the proofs about *)
(* what the configuration's loops compute rest on it.                      *)
(***************************************************************************)
EXTENDS Naturals, WellFoundedInduction, TLAPS

\* A set of natural numbers has a least element.
LEMMA LeastNat ==
  ASSUME NEW T \in SUBSET Nat, T # {}
  PROVE  \E n \in T : \A m \in T : n <= m
<1> DEFINE R == OpToRel(<, Nat)
<1>1. IsWellFoundedOn(R, Nat)
  BY NatLessThanWellFounded
<1>2. \A x, y \in Nat : <<x, y>> \in R <=> x < y
  BY DEF OpToRel
<1> HIDE DEF R
<1>3. PICK x \in T : \A y \in T : ~(<<y, x>> \in R)
  BY <1>1, WFMin
<1>4. \A y \in T : x <= y
  <2>1. \A y \in T : x \in Nat /\ y \in Nat /\ ~(y < x)
    BY <1>2, <1>3
  <2> QED BY <2>1
<1> QED BY <1>4

\* What holds of 0 and of every successor holds up to n: H is the set of the
\* numbers it holds of.
LEMMA UpTo ==
  ASSUME NEW n \in Nat, NEW H, 0 \in H,
         \A i \in 1 .. n : i - 1 \in H => i \in H
  PROVE  \A i \in 0 .. n : i \in H
<1> DEFINE T == { i \in 0 .. n : i \notin H }
<1> SUFFICES ASSUME T # {} PROVE FALSE
  OBVIOUS
<1>1. T \in SUBSET Nat
  OBVIOUS
<1>2. PICK i \in T : \A j \in T : i <= j
  <2> HIDE DEF T
  <2> QED BY <1>1, LeastNat
<1>3. i \in 1 .. n
  <2>1. i \in 0 .. n /\ i # 0
    OBVIOUS
  <2> QED BY <2>1
<1>4. i - 1 \in 0 .. n /\ ~(i <= i - 1)
  BY <1>3
<1>5. i - 1 \in H
  BY <1>2, <1>4
<1> QED BY <1>3, <1>5

\* n steps of g from a: the values on the way.
IsRunOf(f, n, S, a, g) ==
  /\ f \in [0 .. n -> S]
  /\ f[0] = a
  /\ \A i \in 1 .. n : f[i] = g[<<i, f[i - 1]>>]

\* A recursively defined function of 0 .. n is there.
LEMMA RunExists ==
  ASSUME NEW n \in Nat, NEW S, NEW a \in S, NEW g \in [(1 .. n) \X S -> S]
  PROVE  \E f : IsRunOf(f, n, S, a, g)
<1> DEFINE H == { i \in 0 .. n : \E f : IsRunOf(f, i, S, a, g) }
<1>1. 0 \in H
  <2> DEFINE f == [i \in 0 .. 0 |-> a]
  <2>1. IsRunOf(f, 0, S, a, g)
    BY DEF IsRunOf
  <2> QED BY <2>1
<1>2. ASSUME NEW i \in 1 .. n, i - 1 \in H
      PROVE  i \in H
  <2>1. PICK f : IsRunOf(f, i - 1, S, a, g)
    BY <1>2
  <2> DEFINE k == i - 1
             h == [j \in 0 .. i |-> IF j = i THEN g[<<i, f[k]>>] ELSE f[j]]
  <2>2. k \in Nat /\ i = k + 1 /\ k \in 0 .. k /\ i \in Nat
    OBVIOUS
  <2>3. f[k] \in S /\ g[<<i, f[k]>>] \in S
    BY <2>1, <2>2 DEF IsRunOf
  <2>4. \A j \in 0 .. i : j # i => j \in 0 .. k
    BY <2>2
  <2>5. h \in [0 .. i -> S]
    BY <2>1, <2>3, <2>4 DEF IsRunOf
  <2>6. h[0] = a
    BY <2>1, <2>2 DEF IsRunOf
  <2>7. ASSUME NEW j \in 1 .. i
        PROVE  h[j] = g[<<j, h[j - 1]>>]
    <3>1. j - 1 \in 0 .. i /\ j - 1 # i /\ j \in 0 .. i
      BY <2>2
    <3>2. h[j - 1] = f[j - 1]
      BY <3>1
    <3>3. CASE j = i
      <4>1. j - 1 = k /\ h[j] = g[<<i, f[k]>>]
        BY <3>1, <3>3
      <4> HIDE DEF h, k
      <4> QED BY <3>2, <3>3, <4>1
    <3>4. CASE j # i
      <4>1. j \in 1 .. k
        BY <2>2, <3>4
      <4>2. f[j] = g[<<j, f[j - 1]>>]
        BY <2>1, <4>1 DEF IsRunOf
      <4> QED BY <3>1, <3>2, <3>4, <4>2
    <3> QED BY <3>3, <3>4
  <2> HIDE DEF h
  <2>8. IsRunOf(h, i, S, a, g)
    BY <2>5, <2>6, <2>7 DEF IsRunOf
  <2> QED BY <2>2, <2>8
<1> HIDE DEF H
<1>3. \A i \in 0 .. n : i \in H
  BY <1>1, <1>2, UpTo
<1> QED BY <1>3 DEF H

\* Two runs from the same value agree as far as both go.
LEMMA RunsAgree ==
  ASSUME NEW m \in Nat, NEW n \in 0 .. m, NEW S, NEW a \in S, NEW g, NEW f, NEW h,
         IsRunOf(f, n, S, a, g), IsRunOf(h, m, S, a, g)
  PROVE  \A i \in 0 .. n : f[i] = h[i]
<1> DEFINE H == { i \in 0 .. n : f[i] = h[i] }
<1>1. n \in Nat /\ 0 \in H
  BY DEF IsRunOf
<1>2. ASSUME NEW i \in 1 .. n, i - 1 \in H
      PROVE  i \in H
  <2>1. i \in 1 .. m /\ i \in 0 .. n
    OBVIOUS
  <2>2. f[i - 1] = h[i - 1]
    BY <1>2
  <2>3. f[i] = g[<<i, f[i - 1]>>] /\ h[i] = g[<<i, h[i - 1]>>]
    BY <2>1 DEF IsRunOf
  <2> QED BY <2>1, <2>2, <2>3
<1> HIDE DEF H
<1>3. \A i \in 0 .. n : i \in H
  BY <1>1, <1>2, UpTo
<1> QED BY <1>3 DEF H

\* Any number of steps of g from a.
IsEndlessRunOf(f, S, a, g) ==
  /\ f \in [Nat -> S]
  /\ f[0] = a
  /\ \A i \in Nat \ {0} : f[i] = g[<<i, f[i - 1]>>]

\* A recursively defined function of all numbers is there: at n it is where n
\* steps lead.
LEMMA EndlessRunExists ==
  ASSUME NEW S, NEW a \in S, NEW g \in [Nat \X S -> S]
  PROVE  \E f : IsEndlessRunOf(f, S, a, g)
<1> DEFINE run(n) == CHOOSE f : IsRunOf(f, n, S, a, g)
<1>1. ASSUME NEW n \in Nat PROVE IsRunOf(run(n), n, S, a, g)
  <2> DEFINE part == [p \in (1 .. n) \X S |-> g[p]]
  <2>1. part \in [(1 .. n) \X S -> S]
    OBVIOUS
  <2>2. PICK f : IsRunOf(f, n, S, a, part)
    BY <2>1, RunExists
  <2>3. ASSUME NEW i \in 1 .. n PROVE f[i] = g[<<i, f[i - 1]>>]
    <3>1. f[i - 1] \in S
      BY <2>2 DEF IsRunOf
    <3>2. part[<<i, f[i - 1]>>] = g[<<i, f[i - 1]>>]
      BY <3>1
    <3> QED BY <2>2, <3>2 DEF IsRunOf
  <2>4. IsRunOf(f, n, S, a, g)
    BY <2>2, <2>3 DEF IsRunOf
  <2> QED BY <2>4
<1> HIDE DEF run
<1> DEFINE f == [n \in Nat |-> run(n)[n]]
<1>2. f \in [Nat -> S]
  BY <1>1 DEF IsRunOf
<1>3. f[0] = a
  BY <1>1 DEF IsRunOf
<1>4. ASSUME NEW i \in Nat \ {0}
      PROVE  f[i] = g[<<i, f[i - 1]>>]
  <2> DEFINE k == i - 1
  <2>1. k \in Nat /\ k \in 0 .. i /\ i \in 1 .. i /\ k \in 0 .. k
    OBVIOUS
  <2>2. run(i)[i] = g[<<i, run(i)[k]>>]
    BY <1>1, <2>1 DEF IsRunOf
  <2>3. run(k)[k] = run(i)[k]
    <3> HIDE DEF k
    <3>1. IsRunOf(run(k), k, S, a, g) /\ IsRunOf(run(i), i, S, a, g)
      BY <1>1, <2>1
    <3>2. \A j \in 0 .. k : run(k)[j] = run(i)[j]
      BY <2>1, <3>1, RunsAgree
    <3> QED BY <2>1, <3>2
  <2> QED BY <2>1, <2>2, <2>3
<1> HIDE DEF f
<1>5. IsEndlessRunOf(f, S, a, g)
  BY <1>2, <1>3, <1>4 DEF IsEndlessRunOf
<1> QED BY <1>5
=============================================================================
