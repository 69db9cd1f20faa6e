---------------------------- MODULE NaturalFacts ----------------------------
(***************************************************************************)
(* What the proofs about the crypto crate need of the naturals and the     *)
(* library does not say in a form they can use: induction over a set,      *)
(* functions defined by recursion, and remainders.                         *)
(***************************************************************************)
EXTENDS Integers, FiniteSetTheorems, FunctionTheorems, TLAPS

(* Induction.  The numbers below which A has no gap could otherwise be      *)
(* mapped, each to the next, into themselves without 0.                    *)
LEMMA Induction ==
  ASSUME NEW A \in SUBSET Nat, 0 \in A, \A n \in A : n + 1 \in A
  PROVE  A = Nat
<1> SUFFICES ASSUME NEW n \in Nat, n \notin A
             PROVE  FALSE
  OBVIOUS
<1> DEFINE B == {k \in Nat : \A j \in 0..k : j \in A}
           C == B \ {0}
           next == [k \in B |-> k + 1]
<1>1. B \in SUBSET (0..n)
  OBVIOUS
<1>2. 0 \in B
  OBVIOUS
<1>3. \A k \in B : k + 1 \in C
  OBVIOUS
<1>4. IsFiniteSet(B)
  <2> HIDE DEF B
  <2>1. IsFiniteSet(0..n)
    BY FS_Interval
  <2> QED
    BY <1>1, <2>1, FS_Subset
<1>5. IsFiniteSet(C) /\ Cardinality(C) = Cardinality(B) - 1
  BY <1>2, <1>4, FS_RemoveElement
<1>6. next \in Injection(B, C)
  BY <1>3 DEF Injection, IsInjective
<1>7. Cardinality(B) \in Nat /\ Cardinality(B) <= Cardinality(C)
  <2> HIDE DEF next, B, C
  <2> QED
    BY <1>4, <1>5, <1>6, FS_Injection, FS_CardinalityType
<1> QED
  BY <1>5, <1>7

(* A set of naturals with a member has a least one.                        *)
LEMMA Least ==
  ASSUME NEW A \in SUBSET Nat, A # {}
  PROVE  \E n \in A : \A k \in A : n <= k
<1> SUFFICES ASSUME \A n \in A : \E k \in A : k < n
             PROVE  FALSE
  OBVIOUS
<1> DEFINE B == {n \in Nat : \A k \in A : n < k}
<1>1. 0 \in B
  <2>1. 0 \notin A
    OBVIOUS
  <2> QED
    BY <2>1
<1>2. \A n \in B : n + 1 \in B
  <2> SUFFICES ASSUME NEW n \in B, NEW k \in A
               PROVE  n + 1 < k
    OBVIOUS
  <2>1. k # n + 1
    OBVIOUS
  <2> QED
    BY <2>1
<1>3. B = Nat
  <2> HIDE DEF B
  <2>1. B \in SUBSET Nat
    BY DEF B
  <2> QED
    BY <1>1, <1>2, <2>1, Induction
<1>4. PICK n \in A : TRUE
  OBVIOUS
<1>5. n \in B
  BY <1>3
<1> QED
  BY <1>4, <1>5

(* Course-of-values induction.                                             *)
LEMMA StrongInduction ==
  ASSUME NEW A \in SUBSET Nat,
         \A n \in Nat : (\A k \in Nat : k < n => k \in A) => n \in A
  PROVE  A = Nat
<1> SUFFICES ASSUME Nat \ A # {}
             PROVE  FALSE
  OBVIOUS
<1>1. PICK n \in Nat \ A : \A k \in Nat \ A : n <= k
  BY Least
<1>2. \A k \in Nat : k < n => k \in A
  BY <1>1
<1> QED
  BY <1>1, <1>2

(* Recursion: where A does not give the value of f, G computes it from the *)
(* value of a smaller number, d[k].                                        *)
Recursive(S, A, a, d, G) ==
  /\ A \in SUBSET Nat
  /\ a \in [A -> S]
  /\ d \in [Nat -> Nat]
  /\ \A k \in Nat \ A : d[k] < k
  /\ G \in [Nat -> [S -> S]]

Solves(f, S, A, a, d, G) ==
  \A k \in Nat :
    /\ k \in A => f[k] = a[k]
    /\ k \notin A /\ f[d[k]] \in S => f[k] = G[k][f[d[k]]]

(* Functions on the naturals may be defined by recursion.                  *)
LEMMA Recursion ==
  ASSUME NEW S, NEW A, NEW a, NEW d, NEW G, Recursive(S, A, a, d, G)
  PROVE  \E f \in [Nat -> S] : Solves(f, S, A, a, d, G)
<1> USE DEF Recursive
<1> DEFINE Up(n) == {f \in [0..n -> S] :
                       \A k \in 0..n :
                         f[k] = IF k \in A THEN a[k] ELSE G[k][f[d[k]]]}
(* Two such functions agree where both are defined.                        *)
<1>1. ASSUME NEW m \in Nat, NEW n \in Nat, NEW f \in Up(m), NEW g \in Up(n),
             NEW i \in Nat, i <= m, i <= n
      PROVE  f[i] = g[i]
  <2> DEFINE E == {k \in Nat : k <= m /\ k <= n => f[k] = g[k]}
  <2>1. ASSUME NEW k \in Nat, \A j \in Nat : j < k => j \in E
        PROVE  k \in E
    <3> SUFFICES ASSUME k <= m, k <= n
                 PROVE  f[k] = g[k]
      OBVIOUS
    <3>1. CASE k \in A
      BY <3>1
    <3>2. CASE k \notin A
      <4>1. d[k] \in Nat /\ d[k] < k
        BY <3>2
      <4>2. f[d[k]] = g[d[k]]
        BY <2>1, <4>1
      <4> QED
        BY <3>2, <4>2
    <3> QED
      BY <3>1, <3>2
  <2>2. E = Nat
    <3> HIDE DEF E
    <3>1. E \in SUBSET Nat
      BY DEF E
    <3> QED
      BY <2>1, <3>1, StrongInduction
  <2> QED
    BY <1>1, <2>2
<1>2. \A n \in Nat : Up(n) # {}
  <2> DEFINE E == {n \in Nat : Up(n) # {}}
  <2>1. ASSUME NEW n \in Nat, \A j \in Nat : j < n => j \in E
        PROVE  n \in E
    <3> DEFINE below == [k \in 0..n |-> CHOOSE f : f \in Up(k)]
               last == IF n \in A THEN a[n] ELSE G[n][below[d[n]][d[n]]]
               F == [k \in 0..n |-> IF k = n THEN last ELSE below[k][k]]
    <3>1. \A k \in 0..n : k < n => below[k] \in Up(k)
      <4> SUFFICES ASSUME NEW k \in 0..n, k < n
                   PROVE  below[k] \in Up(k)
        OBVIOUS
      <4> HIDE DEF Up
      <4>1. Up(k) # {}
        <5>1. k \in E
          <6> HIDE DEF E
          <6> QED
            BY <2>1
        <5> QED
          BY <5>1
      <4>2. (CHOOSE f : f \in Up(k)) \in Up(k)
        BY <4>1
      <4> QED
        BY <4>2
    <3>2. \A k \in 0..n : k < n => below[k][k] \in S
      <4> HIDE DEF below
      <4> QED
        BY <3>1
    <3>3. n \notin A => d[n] \in 0..n /\ d[n] < n
      OBVIOUS
    <3>4. last \in S
      <4> HIDE DEF below
      <4>1. CASE n \in A
        BY <4>1
      <4>2. CASE n \notin A
        BY <3>2, <3>3, <4>2
      <4> QED
        BY <4>1, <4>2
    <3>5. F \in [0..n -> S]
      <4> HIDE DEF below, last
      <4> QED
        BY <3>2, <3>4
    <3>6. ASSUME NEW k \in 0..n
          PROVE  F[k] = IF k \in A THEN a[k] ELSE G[k][F[d[k]]]
      <4> HIDE DEF below
      <4>1. CASE k = n
        <5>1. F[k] = last
          BY <4>1
        <5>2. n \notin A => F[d[n]] = below[d[n]][d[n]]
          BY <3>3
        <5> HIDE DEF F
        <5> QED
          BY <4>1, <5>1, <5>2
      <4>2. CASE k < n
        <5>1. k \notin A => d[k] \in 0..n /\ d[k] < k
          OBVIOUS
        <5>2. F[k] = below[k][k]
          BY <4>2
        <5>3. k \notin A => F[d[k]] = below[d[k]][d[k]]
          BY <4>2, <5>1
        <5>4. below[k] \in Up(k)
          BY <3>1, <4>2
        <5>5. below[k][k] = IF k \in A THEN a[k] ELSE G[k][below[k][d[k]]]
          BY <5>4
        <5>6. k \notin A => below[k][d[k]] = below[d[k]][d[k]]
          <6> SUFFICES ASSUME k \notin A
                       PROVE  below[k][d[k]] = below[d[k]][d[k]]
            OBVIOUS
          <6>1. below[d[k]] \in Up(d[k])
            <7>1. d[k] \in 0..n /\ d[k] < n
              BY <4>2, <5>1
            <7> HIDE DEF Up
            <7> QED
              BY <3>1, <7>1
          <6>2. d[k] \in Nat /\ d[k] <= k /\ d[k] <= d[k] /\ k \in Nat
            BY <5>1
          <6> HIDE DEF Up
          <6> QED
            BY <1>1, <5>4, <6>1, <6>2
        <5> HIDE DEF F, Up
        <5> QED
          BY <5>2, <5>3, <5>5, <5>6
      <4> QED
        BY <4>1, <4>2
    <3>7. F \in Up(n)
      <4> HIDE DEF F
      <4> QED
        BY <3>5, <3>6
    <3> QED
      BY <3>7
  <2>2. E = Nat
    <3> HIDE DEF E
    <3>1. E \in SUBSET Nat
      BY DEF E
    <3> QED
      BY <2>1, <3>1, StrongInduction
  <2> QED
    BY <2>2
<1> DEFINE up == [n \in Nat |-> CHOOSE f : f \in Up(n)]
           F == [n \in Nat |-> up[n][n]]
<1>3. \A n \in Nat : up[n] \in Up(n)
  <2> HIDE DEF Up
  <2> QED
    BY <1>2
<1>4. F \in [Nat -> S]
  <2> HIDE DEF up
  <2> QED
    BY <1>3
<1>5. ASSUME NEW k \in Nat
      PROVE  F[k] = IF k \in A THEN a[k] ELSE G[k][F[d[k]]]
  <2> HIDE DEF up
  <2>1. up[k][k] = IF k \in A THEN a[k] ELSE G[k][up[k][d[k]]]
    BY <1>3
  <2>2. k \notin A => up[k][d[k]] = up[d[k]][d[k]]
    <3> SUFFICES ASSUME k \notin A
                 PROVE  up[k][d[k]] = up[d[k]][d[k]]
      OBVIOUS
    <3>1. d[k] \in Nat /\ d[k] <= k /\ d[k] <= d[k]
      OBVIOUS
    <3>2. up[k] \in Up(k) /\ up[d[k]] \in Up(d[k])
      BY <1>3, <3>1
    <3> HIDE DEF Up
    <3> QED
      BY <1>1, <3>1, <3>2
  <2>3. F[k] = up[k][k] /\ F[d[k]] = up[d[k]][d[k]]
    OBVIOUS
  <2> HIDE DEF F, Up
  <2> QED
    BY <2>1, <2>2, <2>3
<1>6. Solves(F, S, A, a, d, G)
  <2> HIDE DEF F
  <2> QED
    BY <1>5 DEF Solves
<1> QED
  <2> HIDE DEF F
  <2> QED
    BY <1>4, <1>6

(* Whatever is defined by recursion has the values G gives.                *)
LEMMA RecursionType ==
  ASSUME NEW S, NEW A, NEW a, NEW d, NEW G, Recursive(S, A, a, d, G),
         NEW f, Solves(f, S, A, a, d, G)
  PROVE  \A k \in Nat : f[k] \in S
<1> DEFINE E == {k \in Nat : f[k] \in S}
<1>1. ASSUME NEW k \in Nat, \A j \in Nat : j < k => j \in E
      PROVE  k \in E
  <2>1. CASE k \in A
    BY <2>1 DEF Recursive, Solves
  <2>2. CASE k \notin A
    <3>1. d[k] \in Nat /\ d[k] < k
      BY <2>2 DEF Recursive
    <3>2. f[d[k]] \in S
      BY <1>1, <3>1
    <3>3. f[k] = G[k][f[d[k]]]
      BY <2>2, <3>2 DEF Solves
    <3>4. G[k] \in [S -> S]
      BY DEF Recursive
    <3> QED
      BY <3>2, <3>3, <3>4
  <2> QED
    BY <2>1, <2>2
<1>2. E = Nat
  <2> HIDE DEF E
  <2>1. E \in SUBSET Nat
    BY DEF E
  <2> QED
    BY <1>1, <2>1, StrongInduction
<1> QED
  BY <1>2

(* The common case, up to some n: each value is made from the one before.  *)
Iterated(S, n, v, G) ==
  /\ n \in Nat
  /\ v \in S
  /\ G \in [1..n -> [S -> S]]

Iterates(f, S, n, v, G) ==
  /\ f[0] = v
  /\ \A k \in 1..n : f[k - 1] \in S => f[k] = G[k][f[k - 1]]

(* A function on 0..n may be defined by iteration.                         *)
LEMMA Iteration ==
  ASSUME NEW S, NEW n, NEW v, NEW G, Iterated(S, n, v, G)
  PROVE  \E f \in [0..n -> S] : Iterates(f, S, n, v, G)
<1> DEFINE A == {0}
           a == [k \in A |-> v]
           d == [k \in Nat |-> IF k = 0 THEN 0 ELSE k - 1]
           H == [k \in Nat |-> [x \in S |-> IF k \in 1..n THEN G[k][x] ELSE x]]
<1>1. Recursive(S, A, a, d, H)
  <2>1. /\ A \in SUBSET Nat
        /\ a \in [A -> S]
        /\ d \in [Nat -> Nat]
        /\ \A k \in Nat \ A : d[k] < k
    BY DEF Iterated
  <2>2. ASSUME NEW k \in Nat, NEW x \in S
        PROVE  (IF k \in 1..n THEN G[k][x] ELSE x) \in S
    BY DEF Iterated
  <2>3. H \in [Nat -> [S -> S]]
    BY <2>2
  <2> HIDE DEF A, a, d, H
  <2> QED
    BY <2>1, <2>3 DEF Recursive
<1>2. PICK g \in [Nat -> S] : Solves(g, S, A, a, d, H)
  <2> HIDE DEF A, a, d, H
  <2> QED
    BY <1>1, Recursion
<1> DEFINE f == [k \in 0..n |-> g[k]]
<1>3. f \in [0..n -> S]
  OBVIOUS
<1>4. f[0] = v
  <2>1. 0 \in 0..n
    BY DEF Iterated
  <2>2. g[0] = a[0]
    BY <1>2 DEF Solves
  <2> QED
    BY <2>1, <2>2
<1>5. ASSUME NEW k \in 1..n
      PROVE  f[k] = G[k][f[k - 1]]
  <2>1. n \in Nat
    BY DEF Iterated
  <2>2. k \in Nat /\ k \notin A /\ d[k] = k - 1 /\ k - 1 \in Nat
    BY <2>1
  <2>3. g[k - 1] \in S
    BY <2>2
  <2>4. H[k][g[k - 1]] = G[k][g[k - 1]]
    BY <2>2, <2>3
  <2>5. g[k] = H[k][g[d[k]]]
    <3> HIDE DEF A, a, d, H
    <3> QED
      BY <1>2, <2>2, <2>3 DEF Solves
  <2>6. f[k] = g[k] /\ f[k - 1] = g[k - 1]
    BY <2>1
  <2> HIDE DEF f, A, a, d, H
  <2> QED
    BY <2>2, <2>4, <2>5, <2>6
<1> QED
  <2> HIDE DEF f
  <2> QED
    BY <1>3, <1>4, <1>5 DEF Iterates

(* Whatever is defined by iteration has the values G gives.                *)
LEMMA IterationType ==
  ASSUME NEW S, NEW n, NEW v, NEW G, Iterated(S, n, v, G),
         NEW f, Iterates(f, S, n, v, G)
  PROVE  \A k \in 0..n : f[k] \in S
<1> DEFINE E == {k \in Nat : k <= n => f[k] \in S}
<1>1. n \in Nat
  BY DEF Iterated
<1>2. 0 \in E
  BY DEF Iterated, Iterates
<1>3. ASSUME NEW k \in E
      PROVE  k + 1 \in E
  <2> SUFFICES ASSUME k + 1 <= n
               PROVE  f[k + 1] \in S
    OBVIOUS
  <2>1. f[k] \in S /\ k + 1 \in 1..n /\ (k + 1) - 1 = k
    BY <1>1
  <2>2. f[k + 1] = G[k + 1][f[k]]
    BY <2>1 DEF Iterates
  <2>3. G[k + 1] \in [S -> S]
    BY <2>1 DEF Iterated
  <2> QED
    BY <2>1, <2>2, <2>3
<1>4. E = Nat
  <2> HIDE DEF E
  <2>1. E \in SUBSET Nat
    BY DEF E
  <2> QED
    BY <1>2, <1>3, <2>1, Induction
<1> QED
  BY <1>1, <1>4

-----------------------------------------------------------------------------

(* Quotient and remainder.                                                 *)
LEMMA DivMod ==
  ASSUME NEW n \in Nat, NEW b \in Nat \ {0}
  PROVE  /\ n \div b \in Nat
         /\ n % b \in 0..b - 1
         /\ n % b \in Nat
         /\ n % b < b
         /\ n = (b * (n \div b)) + (n % b)
  OBVIOUS

(* They are the only ones.                                                 *)
LEMMA DivModUnique ==
  ASSUME NEW n \in Nat, NEW b \in Nat \ {0}, NEW q \in Nat, NEW r \in Nat,
         r < b, n = (b * q) + r
  PROVE  n \div b = q /\ n % b = r
  OBVIOUS

(* A number below b * x has a quotient below x.                            *)
LEMMA QuotientBelow ==
  ASSUME NEW n \in Nat, NEW b \in Nat \ {0}, NEW x \in Nat, n < b * x
  PROVE  n \div b < x
<1> DEFINE q == n \div b
<1>1. q \in Nat /\ b * q <= n
  BY DivMod
<1> SUFFICES ASSUME x <= q
             PROVE  FALSE
  BY <1>1
<1> HIDE DEF q
<1>2. b * x <= b * q
  BY <1>1
<1> QED
  BY <1>1, <1>2

(* A multiple of p does not change a remainder.                            *)
LEMMA ModMultiple ==
  ASSUME NEW n \in Nat, NEW k \in Nat, NEW p \in Nat \ {0}
  PROVE  (n + (p * k)) % p = n % p
<1> DEFINE q == n \div p
           r == n % p
<1>1. q \in Nat /\ r \in Nat /\ r < p /\ n = (p * q) + r
  BY DivMod
<1> HIDE DEF q, r
<1>2. n + (p * k) = (p * (q + k)) + r
  BY <1>1
<1>3. (n + (p * k)) % p = r
  BY <1>1, <1>2, DivModUnique
<1> QED
  BY <1>3 DEF r

(* A factor may be reduced before a product is.                            *)
LEMMA ModTimes ==
  ASSUME NEW a \in Nat, NEW b \in Nat, NEW p \in Nat \ {0}
  PROVE  /\ ((a % p) * b) % p = (a * b) % p
         /\ (b * (a % p)) % p = (a * b) % p
<1> DEFINE q == a \div p
           r == a % p
<1>1. q \in Nat /\ r \in Nat /\ a = (p * q) + r
  BY DivMod
<1> HIDE DEF q, r
<1>2. a * b = (r * b) + (p * (q * b))
  BY <1>1
<1>3. ((r * b) + (p * (q * b))) % p = (r * b) % p
  <2>1. r * b \in Nat /\ q * b \in Nat
    BY <1>1
  <2> QED
    BY <2>1, ModMultiple
<1>4. b * r = r * b
  BY <1>1
<1> QED
  BY <1>2, <1>3, <1>4 DEF r

(* A summand may be reduced before a sum is.                               *)
LEMMA ModPlus ==
  ASSUME NEW a \in Nat, NEW b \in Nat, NEW p \in Nat \ {0}
  PROVE  (a + (b % p)) % p = (a + b) % p
<1> DEFINE q == b \div p
           r == b % p
<1>1. q \in Nat /\ r \in Nat /\ b = (p * q) + r
  BY DivMod
<1> HIDE DEF q, r
<1>2. a + b = (a + r) + (p * q)
  BY <1>1
<1>3. ((a + r) + (p * q)) % p = (a + r) % p
  <2>1. a + r \in Nat
    BY <1>1
  <2> QED
    BY <1>1, <2>1, ModMultiple
<1> QED
  BY <1>2, <1>3 DEF r

(* Both factors may be reduced.                                            *)
LEMMA ModProduct ==
  ASSUME NEW a \in Nat, NEW b \in Nat, NEW p \in Nat \ {0}
  PROVE  ((a % p) * (b % p)) % p = (a * b) % p
<1>1. b % p \in Nat
  BY DivMod
<1>2. ((a % p) * (b % p)) % p = (a * (b % p)) % p
  BY <1>1, ModTimes
<1>3. (a * (b % p)) % p = (b * a) % p
  BY ModTimes
<1>4. b * a = a * b
  OBVIOUS
<1> QED
  BY <1>2, <1>3, <1>4
=============================================================================
