---------------------------- MODULE ElGamalProofs ----------------------------
(***************************************************************************)
(* What the operators of ElGamal compute, for every number of values of a  *)
(* byte, every Prime and every Generator ElGamalAssumption allows: numbers *)
(* survive their bytes, and messages survive their encryption.             *)
(***************************************************************************)
EXTENDS ElGamal, NaturalFacts

(* ModPow squares and multiplies, and stays below Prime.                   *)
LEMMA ModPowStep ==
  ASSUME NEW base \in Nat, NEW n \in Nat
  PROVE  /\ ModPow(base, n) \in 0..Prime - 1
         /\ n = 0 => ModPow(base, n) = 1
         /\ n # 0 =>
              ModPow(base, n) =
                (ModPow(base, n \div 2) * ModPow(base, n \div 2) *
                   (IF n % 2 = 1 THEN base % Prime ELSE 1)) % Prime
<1> DEFINE S == 0..Prime - 1
           P(f) == f = [k \in Nat |->
                          IF k = 0 THEN 1
                          ELSE LET half == f[k \div 2]
                               IN  (half * half *
                                     (IF k % 2 = 1 THEN base % Prime ELSE 1))
                                     % Prime]
           A == {0}
           a == [k \in A |-> 1]
           d == [k \in Nat |-> k \div 2]
           G == [k \in Nat |-> [v \in S |->
                  (v * v * (IF k % 2 = 1 THEN base % Prime ELSE 1)) % Prime]]
           pow == CHOOSE f : P(f)
<1>1. Prime \in Nat \ {0, 1}
  BY ElGamalAssumption
<1>2. G \in [Nat -> [S -> S]]
  <2> SUFFICES ASSUME NEW k \in Nat, NEW v \in S
               PROVE  (v * v * (IF k % 2 = 1 THEN base % Prime ELSE 1)) % Prime
                        \in S
    OBVIOUS
  <2>1. base % Prime \in Nat
    BY <1>1
  <2>2. v * v * (IF k % 2 = 1 THEN base % Prime ELSE 1) \in Nat
    BY <1>1, <2>1
  <2> QED
    BY <1>1, <2>2
<1>3. Recursive(S, A, a, d, G)
  <2>1. /\ A \in SUBSET Nat
        /\ a \in [A -> S]
        /\ d \in [Nat -> Nat]
        /\ \A k \in Nat \ A : d[k] < k
    BY <1>1
  <2> HIDE DEF S, A, a, d, G
  <2> QED
    BY <1>2, <2>1 DEF Recursive
<1>4. PICK g \in [Nat -> S] : Solves(g, S, A, a, d, G)
  <2> HIDE DEF S, A, a, d, G
  <2> QED
    BY <1>3, Recursion
<1>5. \A k \in Nat :
        g[k] = IF k = 0 THEN 1
               ELSE (g[k \div 2] * g[k \div 2] *
                       (IF k % 2 = 1 THEN base % Prime ELSE 1)) % Prime
  <2> SUFFICES ASSUME NEW k \in Nat
               PROVE  g[k] = IF k = 0 THEN 1
                             ELSE (g[k \div 2] * g[k \div 2] *
                                     (IF k % 2 = 1 THEN base % Prime ELSE 1))
                                     % Prime
    OBVIOUS
  <2>1. k \div 2 \in Nat /\ d[k] = k \div 2
    OBVIOUS
  <2>2. g[k \div 2] \in S
    <3> HIDE DEF S
    <3> QED
      BY <2>1
  <2>3. G[k][g[k \div 2]] =
          (g[k \div 2] * g[k \div 2] *
             (IF k % 2 = 1 THEN base % Prime ELSE 1)) % Prime
    BY <2>2
  <2> HIDE DEF G, d
  <2> QED
    BY <1>4, <2>1, <2>3 DEF Solves
<1>6. P(g)
  BY <1>4, <1>5
<1>7. P(pow)
  <2> HIDE DEF P
  <2> QED
    BY <1>6
<1>8. \A k \in Nat : ModPow(base, k) = pow[k]
  BY DEF ModPow
<1>9. \A k \in Nat :
         pow[k] = IF k = 0 THEN 1
                  ELSE (pow[k \div 2] * pow[k \div 2] *
                          (IF k % 2 = 1 THEN base % Prime ELSE 1)) % Prime
  <2>1. pow = [k \in Nat |->
                 IF k = 0 THEN 1
                 ELSE (pow[k \div 2] * pow[k \div 2] *
                         (IF k % 2 = 1 THEN base % Prime ELSE 1)) % Prime]
    BY <1>7
  <2> HIDE DEF pow
  <2> QED
    BY <2>1
<1>10. Solves(pow, S, A, a, d, G)
  <2> SUFFICES ASSUME NEW k \in Nat
               PROVE  /\ k \in A => pow[k] = a[k]
                      /\ k \notin A /\ pow[d[k]] \in S =>
                           pow[k] = G[k][pow[d[k]]]
    BY DEF Solves
  <2>1. d[k] = k \div 2
    OBVIOUS
  <2>2. pow[d[k]] \in S =>
          G[k][pow[d[k]]] =
            (pow[k \div 2] * pow[k \div 2] *
               (IF k % 2 = 1 THEN base % Prime ELSE 1)) % Prime
    BY <2>1
  <2>3. k \in A <=> k = 0
    OBVIOUS
  <2>4. k \in A => a[k] = 1
    OBVIOUS
  <2> HIDE DEF pow, G, d, A, a
  <2> QED
    BY <1>9, <2>2, <2>3, <2>4
<1>11. \A k \in Nat : pow[k] \in S
  <2> HIDE DEF S, A, a, d, G, pow
  <2> QED
    BY <1>3, <1>10, RecursionType
<1> QED
  <2>1. pow[n] \in 0..Prime - 1
    BY <1>11
  <2> HIDE DEF pow
  <2> QED
    BY <1>8, <1>9, <2>1

-----------------------------------------------------------------------------

(* Bytes are naturals.                                                     *)
LEMMA ByteFacts ==
  /\ ByteValues \in Nat \ {0, 1}
  /\ Prime \in Nat \ {0, 1}
  /\ Byte \subseteq Nat
  /\ \A b \in Byte : b < ByteValues
  /\ \A n \in Nat : n < ByteValues => n \in Byte
<1>1. ByteValues \in Nat \ {0, 1} /\ Prime \in Nat \ {0, 1}
  BY ElGamalAssumption
<1> QED
  BY <1>1 DEF Byte

(* The recursion of FromBytes has a solution, and FromBytes is its value.  *)
LEMMA FromBytesValue ==
  ASSUME NEW s \in Seq(Byte)
  PROVE  \E f \in [0..Len(s) -> 0..Prime - 1] :
           /\ f[0] = 0
           /\ \A k \in 1..Len(s) :
                f[k] = (s[Len(s) + 1 - k] + (ByteValues * f[k - 1])) % Prime
           /\ FromBytes(s) = f[Len(s)]
<1> DEFINE S == 0..Prime - 1
           L == Len(s)
           P(f) == f = [k \in 0..Len(s) |->
                          IF k = 0 THEN 0
                          ELSE (s[Len(s) + 1 - k] + ByteValues * f[k - 1])
                                 % Prime]
           G == [k \in 1..L |-> [x \in S |->
                  (s[Len(s) + 1 - k] + ByteValues * x) % Prime]]
           value == CHOOSE f : P(f)
<1>1. L \in Nat /\ 0 \in S /\ S \subseteq Nat
  BY ByteFacts
<1>2. \A k \in 1..L : s[Len(s) + 1 - k] \in Nat
  <2> SUFFICES ASSUME NEW k \in 1..L
               PROVE  s[Len(s) + 1 - k] \in Nat
    OBVIOUS
  <2>1. Len(s) + 1 - k \in 1..Len(s)
    BY <1>1
  <2>2. s[Len(s) + 1 - k] \in Byte
    BY <2>1
  <2> QED
    BY <2>2, ByteFacts
<1>3. \A k \in 1..L : \A x \in S :
        (s[Len(s) + 1 - k] + ByteValues * x) % Prime \in S
  <2> SUFFICES ASSUME NEW k \in 1..L, NEW x \in S
               PROVE  (s[Len(s) + 1 - k] + ByteValues * x) % Prime \in S
    OBVIOUS
  <2>1. ByteValues * x \in Nat
    BY <1>1, ByteFacts
  <2>2. s[Len(s) + 1 - k] + ByteValues * x \in Nat
    BY <1>2, <2>1
  <2> QED
    BY <2>2, ByteFacts
<1>4. G \in [1..L -> [S -> S]]
  BY <1>3
<1>5. Iterated(S, L, 0, G)
  <2> HIDE DEF S, L, G
  <2> QED
    BY <1>1, <1>4 DEF Iterated
<1>6. PICK g \in [0..L -> S] : Iterates(g, S, L, 0, G)
  <2> HIDE DEF S, L, G
  <2> QED
    BY <1>5, Iteration
<1>7. \A k \in 0..L :
        g[k] = IF k = 0 THEN 0
               ELSE (s[Len(s) + 1 - k] + ByteValues * g[k - 1]) % Prime
  <2> SUFFICES ASSUME NEW k \in 1..L
               PROVE  g[k] = (s[Len(s) + 1 - k] + ByteValues * g[k - 1]) % Prime
    <3>1. g[0] = 0
      BY <1>6 DEF Iterates
    <3> HIDE DEF G, S
    <3> QED
      BY <1>1, <3>1
  <2>1. k - 1 \in 0..L
    BY <1>1
  <2>2. g[k - 1] \in S
    BY <2>1
  <2>3. g[k] = G[k][g[k - 1]]
    <3> HIDE DEF G, S, L
    <3> QED
      BY <1>6, <2>2 DEF Iterates
  <2> QED
    BY <2>2, <2>3
<1>8. P(g)
  <2> HIDE DEF S
  <2> QED
    BY <1>6, <1>7
<1>9. P(value)
  <2> HIDE DEF P
  <2> QED
    BY <1>8
<1>10. FromBytes(s) = value[Len(s)]
  BY DEF FromBytes
<1>11. value = [k \in 0..L |->
                  IF k = 0 THEN 0
                  ELSE (s[Len(s) + 1 - k] + ByteValues * value[k - 1]) % Prime]
  BY <1>9
<1>12. /\ value[0] = 0
       /\ \A k \in 1..L :
            value[k] = (s[Len(s) + 1 - k] + (ByteValues * value[k - 1])) % Prime
  <2>1. 0 \in 0..L /\ \A k \in 1..L : k \in 0..L /\ k # 0
    BY <1>1
  <2> HIDE DEF value, L
  <2> QED
    BY <1>11, <2>1
<1>13. Iterates(value, S, L, 0, G)
  <2> SUFFICES ASSUME NEW k \in 1..L, value[k - 1] \in S
               PROVE  value[k] = G[k][value[k - 1]]
    BY <1>12 DEF Iterates
  <2> HIDE DEF value
  <2> QED
    BY <1>12
<1>14. \A k \in 0..L : value[k] \in S
  <2> HIDE DEF S, L, G, value
  <2> QED
    BY <1>5, <1>13, IterationType
<1>15. value \in [0..L -> S]
  <2> HIDE DEF value, S
  <2> QED
    BY <1>11, <1>14
<1> QED
  <2> HIDE DEF value
  <2> QED
    BY <1>10, <1>12, <1>15

(* The value of bytes is below Prime, and the first one is the lowest.     *)
LEMMA FromBytesType ==
  ASSUME NEW s \in Seq(Byte)
  PROVE  FromBytes(s) \in 0..Prime - 1
<1>1. Len(s) \in 0..Len(s)
  OBVIOUS
<1> QED
  BY <1>1, FromBytesValue

(* No bytes are the number 0.                                              *)
LEMMA FromBytesEmpty == FromBytes(<<>>) = 0
<1>1. <<>> \in Seq(Byte) /\ Len(<<>>) = 0
  OBVIOUS
<1> QED
  BY <1>1, FromBytesValue

(* A number is its lowest byte and what the bytes above it are worth.      *)
LEMMA FromBytesCons ==
  ASSUME NEW b \in Byte, NEW t \in Seq(Byte)
  PROVE  FromBytes(<<b>> \o t) = (b + (ByteValues * FromBytes(t))) % Prime
<1> DEFINE s == <<b>> \o t
           L == Len(t)
<1>1. s \in Seq(Byte) /\ Len(s) = L + 1 /\ L \in Nat
  OBVIOUS
<1>2. s[1] = b /\ \A i \in 1..L : s[i + 1] = t[i]
  OBVIOUS
<1>3. PICK f \in [0..L -> 0..Prime - 1] :
        /\ f[0] = 0
        /\ \A k \in 1..L :
             f[k] = (t[L + 1 - k] + (ByteValues * f[k - 1])) % Prime
        /\ FromBytes(t) = f[L]
  BY FromBytesValue
<1> HIDE DEF s
<1>4. PICK g \in [0..L + 1 -> 0..Prime - 1] :
        /\ g[0] = 0
        /\ \A k \in 1..L + 1 :
             g[k] = (s[L + 2 - k] + (ByteValues * g[k - 1])) % Prime
        /\ FromBytes(s) = g[L + 1]
  <2>1. PICK g \in [0..Len(s) -> 0..Prime - 1] :
          /\ g[0] = 0
          /\ \A k \in 1..Len(s) :
               g[k] = (s[Len(s) + 1 - k] + (ByteValues * g[k - 1])) % Prime
          /\ FromBytes(s) = g[Len(s)]
    BY <1>1, FromBytesValue
  <2>2. \A k \in 1..L + 1 : Len(s) + 1 - k = L + 2 - k
    BY <1>1
  <2> HIDE DEF L
  <2> QED
    BY <1>1, <2>1, <2>2
<1> DEFINE E == {k \in Nat : k <= L => f[k] = g[k]}
<1>5. 0 \in E
  BY <1>3, <1>4
<1>6. ASSUME NEW k \in E
      PROVE  k + 1 \in E
  <2> SUFFICES ASSUME k + 1 <= L
               PROVE  f[k + 1] = g[k + 1]
    OBVIOUS
  <2> HIDE DEF L
  <2>1. k + 1 \in 1..L /\ k + 1 \in 1..L + 1 /\ (k + 1) - 1 = k /\ k \in Nat
    BY <1>1
  <2>2. f[k] = g[k]
    BY <1>1, <2>1
  <2>3. L + 1 - (k + 1) \in 1..L
    BY <1>1, <2>1
  <2>4. s[(L + 1 - (k + 1)) + 1] = t[L + 1 - (k + 1)]
    BY <1>2, <2>3
  <2>5. (L + 1 - (k + 1)) + 1 = L + 2 - (k + 1)
    BY <1>1, <2>1
  <2> QED
    BY <1>3, <1>4, <2>1, <2>2, <2>4, <2>5
<1>7. E = Nat
  <2> HIDE DEF E
  <2>1. E \in SUBSET Nat
    BY DEF E
  <2> QED
    BY <1>5, <1>6, <2>1, Induction
<1>8. f[L] = g[L]
  BY <1>1, <1>7
<1>9. g[L + 1] = (s[1] + (ByteValues * g[L])) % Prime
  <2> HIDE DEF L
  <2>1. L + 1 \in 1..L + 1 /\ L + 2 - (L + 1) = 1 /\ (L + 1) - 1 = L
    BY <1>1
  <2> QED
    BY <1>4, <2>1
<1> QED
  BY <1>2, <1>3, <1>4, <1>8, <1>9 DEF s

(* A number is written from its lowest byte on.                            *)
LEMMA ToBytesStep ==
  ASSUME NEW n \in Nat
  PROVE  /\ ToBytes(n) \in Seq(Byte)
         /\ n < ByteValues => ToBytes(n) = <<n>>
         /\ n >= ByteValues =>
              ToBytes(n) = <<n % ByteValues>> \o ToBytes(n \div ByteValues)
<1> DEFINE S == Seq(Byte)
           A == 0..ByteValues - 1
           P(f) == f = [k \in Nat |->
                          IF k < ByteValues THEN <<k>>
                          ELSE <<k % ByteValues>> \o f[k \div ByteValues]]
           a == [k \in A |-> <<k>>]
           d == [k \in Nat |-> k \div ByteValues]
           G == [k \in Nat |-> [x \in S |-> <<k % ByteValues>> \o x]]
           digits == CHOOSE f : P(f)
<1>1. Recursive(S, A, a, d, G)
  <2>1. A \in SUBSET Nat
    BY ByteFacts
  <2>2. a \in [A -> S]
    BY DEF Byte
  <2>3. d \in [Nat -> Nat]
    BY ByteFacts
  <2>4. ASSUME NEW k \in Nat \ A
        PROVE  d[k] < k
    <3>1. k \in Nat /\ k >= ByteValues
      BY ByteFacts
    <3> QED
      BY <3>1, ByteFacts
  <2>5. ASSUME NEW k \in Nat
        PROVE  k % ByteValues \in Byte
    BY ByteFacts DEF Byte
  <2>6. G \in [Nat -> [S -> S]]
    BY <2>5
  <2> HIDE DEF S, A, a, d, G
  <2> QED
    BY <2>1, <2>2, <2>3, <2>4, <2>6 DEF Recursive
<1>2. PICK g \in [Nat -> S] : Solves(g, S, A, a, d, G)
  <2> HIDE DEF S, A, a, d, G
  <2> QED
    BY <1>1, Recursion
<1>3. \A k \in Nat : k \in A <=> k < ByteValues
  BY ByteFacts
<1>4. ASSUME NEW k \in Nat
      PROVE  g[k] = IF k < ByteValues THEN <<k>>
                    ELSE <<k % ByteValues>> \o g[k \div ByteValues]
  <2>1. d[k] = k \div ByteValues /\ k \div ByteValues \in Nat
    BY ByteFacts
  <2>2. g[k \div ByteValues] \in S
    <3> HIDE DEF S
    <3> QED
      BY <2>1
  <2>3. G[k][g[k \div ByteValues]] =
          <<k % ByteValues>> \o g[k \div ByteValues]
    BY <2>2
  <2>4. k \in A => a[k] = <<k>>
    OBVIOUS
  <2> HIDE DEF G, d, A, a, S
  <2> QED
    BY <1>2, <1>3, <2>1, <2>2, <2>3, <2>4 DEF Solves
<1>5. P(g)
  <2> HIDE DEF S
  <2> QED
    BY <1>2, <1>4
<1>6. P(digits)
  <2> HIDE DEF P
  <2> QED
    BY <1>5
<1>7. \A k \in Nat : ToBytes(k) = digits[k]
  BY DEF ToBytes
<1>8. \A k \in Nat :
        digits[k] = IF k < ByteValues THEN <<k>>
                    ELSE <<k % ByteValues>> \o digits[k \div ByteValues]
  <2>1. digits = [k \in Nat |->
                    IF k < ByteValues THEN <<k>>
                    ELSE <<k % ByteValues>> \o digits[k \div ByteValues]]
    BY <1>6
  <2> HIDE DEF digits
  <2> QED
    BY <2>1
<1>9. Solves(digits, S, A, a, d, G)
  <2> SUFFICES ASSUME NEW k \in Nat
               PROVE  /\ k \in A => digits[k] = a[k]
                      /\ k \notin A /\ digits[d[k]] \in S =>
                           digits[k] = G[k][digits[d[k]]]
    BY DEF Solves
  <2>1. d[k] = k \div ByteValues
    OBVIOUS
  <2> HIDE DEF digits
  <2>2. digits[d[k]] \in S =>
          G[k][digits[d[k]]] = <<k % ByteValues>> \o digits[k \div ByteValues]
    BY <2>1
  <2>3. k \in A => a[k] = <<k>>
    OBVIOUS
  <2> HIDE DEF G, d, A, a, S
  <2> QED
    BY <1>3, <1>8, <2>2, <2>3
<1>10. \A k \in Nat : digits[k] \in S
  <2> HIDE DEF S, A, a, d, G, digits
  <2> QED
    BY <1>1, <1>9, RecursionType
<1>11. n \div ByteValues \in Nat
  BY ByteFacts
<1>12. /\ ToBytes(n) = digits[n]
       /\ ToBytes(n \div ByteValues) = digits[n \div ByteValues]
  <2> HIDE DEF digits
  <2> QED
    BY <1>7, <1>11
<1>13. /\ n < ByteValues => digits[n] = <<n>>
       /\ n >= ByteValues =>
            digits[n] = <<n % ByteValues>> \o digits[n \div ByteValues]
  <2>1. digits[n] = IF n < ByteValues THEN <<n>>
                    ELSE <<n % ByteValues>> \o digits[n \div ByteValues]
    <3> HIDE DEF digits
    <3> QED
      BY <1>8
  <2>2. ~(n < ByteValues /\ n >= ByteValues)
    BY ByteFacts
  <2> HIDE DEF digits
  <2>3. CASE n < ByteValues
    BY <2>1, <2>2, <2>3
  <2>4. CASE ~(n < ByteValues)
    BY <2>1, <2>4
  <2> QED
    BY <2>3, <2>4
<1> QED
  <2> HIDE DEF digits
  <2> QED
    BY <1>10, <1>12, <1>13

(* A number below Prime is read back from its bytes as it was.             *)
LEMMA BytesRoundTrip ==
  ASSUME NEW n \in 0..Prime - 1
  PROVE  FromBytes(ToBytes(n)) = n
<1> DEFINE E == {k \in Nat : k < Prime => FromBytes(ToBytes(k)) = k}
<1>1. ASSUME NEW k \in Nat, \A j \in Nat : j < k => j \in E
      PROVE  k \in E
  <2> SUFFICES ASSUME k < Prime
               PROVE  FromBytes(ToBytes(k)) = k
    OBVIOUS
  <2>1. CASE k < ByteValues
    <3>1. k \in Byte /\ <<>> \in Seq(Byte)
      BY <2>1, ByteFacts
    <3>2. ToBytes(k) = <<k>> \o <<>>
      <4>1. ToBytes(k) = <<k>>
        BY <2>1, ToBytesStep
      <4>2. <<k>> \o <<>> = <<k>>
        OBVIOUS
      <4> QED
        BY <4>1, <4>2
    <3>3. FromBytes(ToBytes(k)) = (k + (ByteValues * 0)) % Prime
      BY <3>1, <3>2, FromBytesCons, FromBytesEmpty
    <3> QED
      BY <3>3, ByteFacts
  <2>2. CASE k >= ByteValues
    <3> DEFINE q == k \div ByteValues
               r == k % ByteValues
    <3>1. q \in Nat /\ q < k /\ q < Prime /\ r \in Nat /\ r < ByteValues
      BY <2>2, ByteFacts
    <3>2. k = (ByteValues * q) + r
      BY ByteFacts, DivMod
    <3> HIDE DEF q, r
    <3>3. FromBytes(ToBytes(q)) = q
      BY <1>1, <3>1
    <3>4. r \in Byte /\ ToBytes(q) \in Seq(Byte)
      BY <3>1, ByteFacts, ToBytesStep
    <3>5. ToBytes(k) = <<r>> \o ToBytes(q)
      BY <2>2, ToBytesStep DEF q, r
    <3>6. FromBytes(ToBytes(k)) = (r + (ByteValues * q)) % Prime
      BY <3>3, <3>4, <3>5, FromBytesCons
    <3>7. r + (ByteValues * q) = k
      BY <3>1, <3>2, ByteFacts
    <3> QED
      BY <3>6, <3>7, ByteFacts
  <2> QED
    BY <2>1, <2>2, ByteFacts
<1>2. E = Nat
  <2> HIDE DEF E
  <2>1. E \in SUBSET Nat
    BY DEF E
  <2> QED
    BY <1>1, <2>1, StrongInduction
<1> QED
  BY <1>2, ByteFacts

-----------------------------------------------------------------------------

(* A u32 is four bytes.                                                    *)
LEMMA U32BytesType ==
  ASSUME NEW n \in Nat
  PROVE  /\ U32Bytes(n) \in Seq(Byte)
         /\ Len(U32Bytes(n)) = 4
<1>1. \A k \in Nat : k \div ByteValues \in Nat /\ k % ByteValues \in Byte
  BY ByteFacts DEF Byte
<1> QED
  BY <1>1 DEF U32Bytes

(* Below the limit of a u32, they are the number.                          *)
LEMMA U32RoundTrip ==
  ASSUME NEW n \in Nat,
         n < ByteValues * ByteValues * ByteValues * ByteValues,
         NEW s, NEW i \in Nat,
         \A j \in 1..4 : s[i + j] = U32Bytes(n)[j]
  PROVE  U32(s, i) = n
<1> DEFINE n1 == n \div ByteValues
           n2 == n1 \div ByteValues
           n3 == n2 \div ByteValues
<1>1. ByteValues \in Nat \ {0}
  BY ByteFacts
<1>2. n1 \in Nat /\ n = (ByteValues * n1) + (n % ByteValues)
  BY <1>1, DivMod
<1>3. n1 < ByteValues * ByteValues * ByteValues
  BY <1>1, QuotientBelow
<1>4. /\ s[i + 1] = n % ByteValues
      /\ s[i + 2] = n1 % ByteValues
      /\ s[i + 3] = n2 % ByteValues
      /\ s[i + 4] = n3 % ByteValues
  BY DEF U32Bytes
<1> HIDE DEF n1
<1>5. n2 \in Nat /\ n1 = (ByteValues * n2) + (n1 % ByteValues)
  BY <1>1, <1>2, DivMod
<1>6. n2 < ByteValues * ByteValues
  BY <1>1, <1>2, <1>3, QuotientBelow
<1> HIDE DEF n2
<1>7. n3 \in Nat /\ n2 = (ByteValues * n3) + (n2 % ByteValues)
  BY <1>1, <1>5, DivMod
<1>8. n3 < ByteValues
  BY <1>1, <1>5, <1>6, QuotientBelow
<1> HIDE DEF n3
<1>9. n3 % ByteValues = n3
  BY <1>1, <1>7, <1>8
<1>10. /\ n % ByteValues \in Nat
       /\ n1 % ByteValues \in Nat
       /\ n2 % ByteValues \in Nat
  BY <1>1, <1>2, <1>5, DivMod
<1>11. s[i + 3] + ByteValues * s[i + 4] = n2
  BY <1>1, <1>4, <1>7, <1>9, <1>10
<1>12. s[i + 2] + ByteValues * n2 = n1
  BY <1>1, <1>2, <1>4, <1>5, <1>10
<1>13. s[i + 1] + ByteValues * n1 = n
  BY <1>1, <1>2, <1>4, <1>10
<1> QED
  BY <1>11, <1>12, <1>13 DEF U32

-----------------------------------------------------------------------------

(* ModPow is the power: one more factor multiplies by the base.            *)
LEMMA ModPowNext ==
  ASSUME NEW base \in Nat, NEW n \in Nat
  PROVE  ModPow(base, n + 1) = (ModPow(base, n) * base) % Prime
<1> DEFINE M(k) == ModPow(base, k)
           E == {k \in Nat : M(k + 1) = (M(k) * base) % Prime}
<1>1. Prime \in Nat \ {0}
  BY ByteFacts
<1>2. \A k \in Nat : M(k) \in Nat
  BY <1>1, ModPowStep
<1>3. ASSUME NEW k \in Nat, \A j \in Nat : j < k => j \in E
      PROVE  k \in E
  <2> DEFINE q == k \div 2
             x == M(q)
             b == base % Prime
  <2>1. q \in Nat /\ b \in Nat
    BY <1>1
  <2>2. x \in Nat
    BY <1>2, <2>1
  <2> DEFINE next == k + 1
  <2>3. next \in Nat /\ next # 0
    OBVIOUS
  <2>4. CASE k % 2 = 0
    <3>1. next \div 2 = q /\ next % 2 = 1
      BY <2>4
    <3>2. M(next) = (x * x * b) % Prime
      <4> HIDE DEF next
      <4> QED
        BY <2>3, <3>1, ModPowStep
    <3>3. M(k) = (x * x) % Prime
      <4>1. CASE k = 0
        <5>1. M(k) = 1 /\ x = 1
          BY <4>1, ModPowStep
        <5> QED
          BY <5>1, ByteFacts
      <4>2. CASE k # 0
        <5>1. M(k) = (x * x * 1) % Prime
          BY <2>4, <4>2, ModPowStep
        <5> HIDE DEF x
        <5>2. x * x * 1 = x * x
          BY <2>2
        <5> QED
          BY <5>1, <5>2
      <4> QED
        BY <4>1, <4>2
    <3> DEFINE c == x * x
    <3>4. c \in Nat
      <4> HIDE DEF x
      <4> QED
        BY <2>2
    <3>5. M(next) = (c * b) % Prime /\ M(k) = c % Prime
      BY <3>2, <3>3
    <3> HIDE DEF x, q, c, next, M
    <3>6. ((c % Prime) * base) % Prime = (c * base) % Prime
      BY <1>1, <3>4, ModTimes, Zenon
    <3>7. (c * (base % Prime)) % Prime = (base * c) % Prime
      BY <1>1, <3>4, ModTimes, Zenon
    <3>8. base * c = c * base
      BY <3>4
    <3>9. M(next) = (M(k) * base) % Prime
      BY <3>5, <3>6, <3>7, <3>8
    <3> QED
      BY <3>9 DEF next
  <2>5. CASE k % 2 = 1
    <3>1. k # 0 /\ q < k /\ next \div 2 = q + 1 /\ next % 2 = 0
      BY <2>5
    <3>2. M(k) = (x * x * b) % Prime
      BY <2>5, <3>1, ModPowStep
    <3> DEFINE y == (x * base) % Prime
    <3>3. M(q + 1) = y
      BY <1>3, <2>1, <3>1
    <3>4. M(next) = (M(q + 1) * M(q + 1) * 1) % Prime
      <4> HIDE DEF next, q
      <4> QED
        BY <2>3, <3>1, ModPowStep
    <3> DEFINE c == x * x
               e == x * base
    <3>5. c \in Nat /\ e \in Nat /\ c * b \in Nat /\ c * base \in Nat
      <4> HIDE DEF x
      <4> QED
        BY <2>1, <2>2
    <3>6. y = e % Prime /\ y \in Nat /\ M(k) = (c * b) % Prime
      <4> HIDE DEF x
      <4> QED
        BY <1>1, <3>2, <3>5
    <3>7. M(next) = (y * y) % Prime
      <4> HIDE DEF y, next, q, M
      <4>1. y * y * 1 = y * y
        BY <3>6
      <4> QED
        BY <3>3, <3>4, <4>1
    <3>8. e * e = base * (c * base)
      <4> HIDE DEF x
      <4> QED
        BY <2>2
    <3>9. (c * b) * base = (c * base) * b
      <4> HIDE DEF c, b
      <4> QED
        BY <2>1, <3>5
    <3> HIDE DEF x, y, q, c, e, next, M
    <3>10. ((e % Prime) * (e % Prime)) % Prime = (e * e) % Prime
      BY <1>1, <3>5, ModProduct, Zenon
    <3> DEFINE u == c * base
               w == c * b
    <3>11. ((w % Prime) * base) % Prime = (w * base) % Prime
      <4>1. w \in Nat
        BY <3>5
      <4> HIDE DEF w
      <4> QED
        BY <1>1, <4>1, ModTimes, Zenon
    <3>12. (u * (base % Prime)) % Prime = (base * u) % Prime
      <4>1. u \in Nat
        BY <3>5
      <4> HIDE DEF u
      <4> QED
        BY <1>1, <4>1, ModTimes, Zenon
    <3>13. M(next) = (M(k) * base) % Prime
      BY <3>6, <3>7, <3>8, <3>9, <3>10, <3>11, <3>12
    <3> QED
      BY <3>13 DEF next
  <2> QED
    BY <2>4, <2>5
<1>4. E = Nat
  <2> HIDE DEF E
  <2>1. E \in SUBSET Nat
    BY DEF E
  <2> QED
    BY <1>3, <2>1, StrongInduction
<1> QED
  BY <1>4

(* Exponents add up when powers are multiplied.                            *)
LEMMA ModPowSum ==
  ASSUME NEW base \in Nat, NEW j \in Nat, NEW k \in Nat
  PROVE  ModPow(base, j + k) = (ModPow(base, j) * ModPow(base, k)) % Prime
<1> DEFINE M(n) == ModPow(base, n)
           x == M(j)
           E == {n \in Nat : M(j + n) = (x * M(n)) % Prime}
<1>1. Prime \in Nat \ {0} /\ 1 < Prime
  BY ByteFacts
<1>2. \A n \in Nat : M(n) \in Nat /\ M(n) < Prime
  <2>1. \A n \in Nat : M(n) \in 0..Prime - 1
    BY ModPowStep
  <2> HIDE DEF M
  <2> QED
    BY <1>1, <2>1
<1>3. x \in Nat /\ x % Prime = x
  BY <1>1, <1>2
<1>4. 0 \in E
  <2>1. M(0) = 1 /\ j + 0 = j
    BY ModPowStep
  <2> QED
    BY <1>3, <2>1
<1>5. ASSUME NEW n \in E
      PROVE  n + 1 \in E
  <2> DEFINE y == M(n)
  <2>1. n \in Nat /\ y \in Nat
    BY <1>2
  <2>2. M(n + 1) = (y * base) % Prime
    BY <2>1, ModPowNext
  <2>3. M((j + n) + 1) = (M(j + n) * base) % Prime
    <3>1. j + n \in Nat
      BY <2>1
    <3> QED
      BY <3>1, ModPowNext
  <2>4. M(j + n) = (x * y) % Prime
    OBVIOUS
  <2>5. (j + n) + 1 = j + (n + 1)
    BY <2>1
  <2> HIDE DEF x, y, M
  <2> DEFINE u == x * y
             w == y * base
  <2>6. u \in Nat /\ w \in Nat /\ u * base = w * x
    BY <1>3, <2>1
  <2> HIDE DEF u, w
  <2>7. ((u % Prime) * base) % Prime = (u * base) % Prime
    BY <1>1, <2>6, ModTimes, Zenon
  <2>8. (x * (w % Prime)) % Prime = (w * x) % Prime
    BY <1>1, <1>3, <2>6, ModTimes, Zenon
  <2>9. M(j + (n + 1)) = (x * M(n + 1)) % Prime
    BY <2>2, <2>3, <2>4, <2>5, <2>6, <2>7, <2>8 DEF u, w
  <2> QED
    BY <2>1, <2>9
<1>6. E = Nat
  <2> HIDE DEF E
  <2>1. E \in SUBSET Nat
    BY DEF E
  <2> QED
    BY <1>4, <1>5, <2>1, Induction
<1> QED
  BY <1>6

(* Exponents multiply when a power is raised to another.                   *)
LEMMA ModPowProduct ==
  ASSUME NEW base \in Nat, NEW j \in Nat, NEW k \in Nat
  PROVE  ModPow(ModPow(base, j), k) = ModPow(base, j * k)
<1> DEFINE x == ModPow(base, j)
           E == {n \in Nat : ModPow(x, n) = ModPow(base, j * n)}
<1>1. x \in Nat
  BY ByteFacts, ModPowStep
<1>2. 0 \in E
  <2>1. j * 0 = 0
    OBVIOUS
  <2>2. ModPow(x, 0) = 1 /\ ModPow(base, 0) = 1
    <3> HIDE DEF x
    <3> QED
      BY <1>1, ModPowStep
  <2> QED
    BY <2>1, <2>2
<1>3. ASSUME NEW n \in E
      PROVE  n + 1 \in E
  <2> HIDE DEF x
  <2> DEFINE e == j * n
  <2>1. n \in Nat /\ e \in Nat
    OBVIOUS
  <2>2. ModPow(x, n + 1) = (ModPow(x, n) * x) % Prime
    BY <1>1, <2>1, ModPowNext
  <2>3. ModPow(x, n) = ModPow(base, e)
    OBVIOUS
  <2>4. e + j = j * (n + 1)
    BY <2>1
  <2> HIDE DEF e
  <2>5. ModPow(base, e + j) = (ModPow(base, e) * x) % Prime
    BY <2>1, ModPowSum DEF x
  <2> QED
    BY <2>1, <2>2, <2>3, <2>4, <2>5
<1>4. E = Nat
  <2> HIDE DEF E
  <2>1. E \in SUBSET Nat
    BY DEF E
  <2> QED
    BY <1>2, <1>3, <2>1, Induction
<1> QED
  BY <1>4

(* Every power of Generator has an inverse.                                *)
LEMMA PowersInvertible ==
  ASSUME NEW n \in Nat
  PROVE  \E i \in 0..Prime - 1 : (ModPow(Generator, n) * i) % Prime = 1
<1>1. Prime \in Nat \ {0} /\ 1 < Prime /\ Generator \in Nat
  BY ElGamalAssumption
<1>2. PICK h \in Nat : (Generator * h) % Prime = 1
  BY ElGamalAssumption
<1> DEFINE M(k) == ModPow(Generator, k)
           I(k) == ModPow(h, k)
           E == {k \in Nat : (M(k) * I(k)) % Prime = 1}
<1>3. \A k \in Nat : M(k) \in Nat /\ I(k) \in 0..Prime - 1 /\ I(k) \in Nat
  <2>1. \A k \in Nat : M(k) \in 0..Prime - 1 /\ I(k) \in 0..Prime - 1
    BY <1>1, ModPowStep
  <2> HIDE DEF M, I
  <2> QED
    BY <1>1, <2>1
<1>4. 0 \in E
  <2>1. M(0) = 1 /\ I(0) = 1
    BY <1>1, ModPowStep
  <2> QED
    BY <1>1, <2>1
<1>5. ASSUME NEW k \in E
      PROVE  k + 1 \in E
  <2> DEFINE x == M(k)
             y == I(k)
             u == x * Generator
             w == y * h
             s == x * y
             t == Generator * h
  <2>1. k \in Nat /\ x \in Nat /\ y \in Nat
    BY <1>3
  <2>2. M(k + 1) = u % Prime /\ I(k + 1) = w % Prime
    BY <1>1, <2>1, ModPowNext
  <2>3. s % Prime = 1 /\ t % Prime = 1
    BY <1>2
  <2> HIDE DEF x, y, M, I
  <2>4. /\ u \in Nat /\ w \in Nat /\ s \in Nat /\ t \in Nat
        /\ u * w = s * t
    BY <1>1, <2>1
  <2> HIDE DEF u, w, s, t
  <2>5. ((u % Prime) * (w % Prime)) % Prime = (u * w) % Prime
    BY <1>1, <2>4, ModProduct, Zenon
  <2>6. ((s % Prime) * (t % Prime)) % Prime = (s * t) % Prime
    BY <1>1, <2>4, ModProduct, Zenon
  <2>7. (1 * 1) % Prime = 1
    BY <1>1
  <2>8. (M(k + 1) * I(k + 1)) % Prime = 1
    BY <2>2, <2>3, <2>4, <2>5, <2>6, <2>7
  <2> QED
    BY <2>1, <2>8
<1>6. E = Nat
  <2> HIDE DEF E
  <2>1. E \in SUBSET Nat
    BY DEF E
  <2> QED
    BY <1>4, <1>5, <2>1, Induction
<1>7. (M(n) * I(n)) % Prime = 1
  BY <1>6
<1> QED
  BY <1>3, <1>7

(* A message below Prime is recovered from its ciphertext under the same   *)
(* key, whatever the key and the random number: decryption of keypair.rs   *)
(* has one answer, and it is the message.                                  *)
THEOREM DecryptsToMessage ==
  ASSUME NEW n \in Nat, NEW m \in 0..Prime - 1, NEW random \in Nat
  PROVE  DecryptNumber(PrivateKeyFrom(n),
                       EncryptNumber(PrivateKeyFrom(n), m, random)) = {m}
<1> DEFINE x == n % Prime
           y == random % (Prime - 1)
           s == ModPow(Generator, y * x)
           c2 == (m * s) % Prime
<1>1. Prime \in Nat \ {0} /\ 1 < Prime /\ Generator \in Nat
  BY ElGamalAssumption
<1>2. x \in Nat /\ y \in Nat
  <2>1. Prime - 1 \in Nat \ {0}
    BY <1>1
  <2> QED
    BY <1>1, <2>1
<1> HIDE DEF x, y
<1>3. s \in Nat
  BY <1>1, <1>2, ModPowStep
<1>4. ModPow(ModPow(Generator, y), x) = s
  BY <1>1, <1>2, ModPowProduct
<1>5. ModPow(ModPow(Generator, x), y) = s
  <2>1. x * y = y * x
    BY <1>2
  <2> QED
    BY <1>1, <1>2, <2>1, ModPowProduct
<1> HIDE DEF s
<1>6. EncryptNumber(PrivateKeyFrom(n), m, random) =
        [c1 |-> ModPow(Generator, y), c2 |-> c2]
  BY <1>5 DEF EncryptNumber, PrivateKeyFrom, x, y
<1>7. DecryptNumber(PrivateKeyFrom(n),
                    EncryptNumber(PrivateKeyFrom(n), m, random))
        = {(c2 * i) % Prime : i \in Inverses(s)}
  BY <1>4, <1>6 DEF DecryptNumber, PrivateKeyFrom, x
<1>8. ASSUME NEW i \in Inverses(s)
      PROVE  (c2 * i) % Prime = m
  <2>1. i \in Nat /\ (s * i) % Prime = 1
    BY <1>1 DEF Inverses
  <2> DEFINE u == m * s
             w == s * i
  <2>2. u \in Nat /\ w \in Nat /\ u * i = w * m /\ m \in Nat
    BY <1>1, <1>3, <2>1
  <2> HIDE DEF u, w
  <2>3. ((u % Prime) * i) % Prime = (u * i) % Prime
    BY <1>1, <2>1, <2>2, ModTimes, Zenon
  <2>4. ((w % Prime) * m) % Prime = (w * m) % Prime
    BY <1>1, <2>2, ModTimes, Zenon
  <2>5. (1 * m) % Prime = m
    BY <1>1
  <2> QED
    BY <2>1, <2>2, <2>3, <2>4, <2>5 DEF u, w
<1>9. Inverses(s) # {}
  <2>1. y * x \in Nat
    BY <1>2
  <2> QED
    BY <2>1, PowersInvertible DEF Inverses, s
<1> HIDE DEF c2
<1> QED
  BY <1>7, <1>8, <1>9

-----------------------------------------------------------------------------

(* The first byte of a string that may have ended, and the bytes after it. *)
First(s) == IF s = <<>> THEN 0 ELSE s[1]
Rest(s) == IF s = <<>> THEN <<>> ELSE Tail(s)

(* Both of them are defined for every string.                              *)
LEMMA RestType ==
  ASSUME NEW s \in Seq(Byte)
  PROVE  /\ Rest(s) \in Seq(Byte)
         /\ Len(Rest(s)) = IF Len(s) = 0 THEN 0 ELSE Len(s) - 1
         /\ \A i \in 1..Len(Rest(s)) : Rest(s)[i] = s[i + 1]
         /\ First(s) = IF Len(s) = 0 THEN 0 ELSE s[1]
  BY DEF First, Rest

(* The lowest digit of a value that fits is the first byte, the other      *)
(* digits are those of the bytes after it.                                 *)
LEMMA LowestDigit ==
  ASSUME NEW s \in Seq(Byte), NEW x \in Nat,
         FromBytes(Rest(s)) < x, ByteValues * x <= Prime
  PROVE  /\ FromBytes(s) < ByteValues * x
         /\ FromBytes(s) % ByteValues = First(s)
         /\ FromBytes(s) \div ByteValues = FromBytes(Rest(s))
<1>1. ByteValues \in Nat \ {0} /\ Prime \in Nat \ {0}
  BY ByteFacts
<1>2. CASE s = <<>>
  <2>1. FromBytes(s) = 0 /\ FromBytes(Rest(s)) = 0 /\ First(s) = 0
    BY <1>2, FromBytesEmpty DEF First, Rest
  <2>2. 0 < ByteValues * x
    BY <1>1, <2>1
  <2> QED
    BY <1>1, <2>1, <2>2
<1>3. CASE s # <<>>
  <2> DEFINE v == FromBytes(Rest(s))
             b == s[1]
  <2>1. b \in Byte /\ Rest(s) \in Seq(Byte) /\ First(s) = b
    BY <1>3 DEF First, Rest
  <2>2. s = <<b>> \o Rest(s)
    BY <1>3 DEF Rest
  <2>3. FromBytes(s) = (b + (ByteValues * v)) % Prime
    BY <2>1, <2>2, FromBytesCons
  <2>4. b \in Nat /\ b < ByteValues
    BY <2>1, ByteFacts
  <2>5. v \in Nat
    BY <1>1, <2>1, FromBytesType
  <2> HIDE DEF v, b
  <2>6. v < x
    BY DEF v
  <2>7. ByteValues * (v + 1) <= ByteValues * x
    BY <1>1, <2>5, <2>6
  <2>8. ByteValues * (v + 1) = (ByteValues * v) + ByteValues
    BY <1>1, <2>5
  <2>9. /\ b + (ByteValues * v) < ByteValues * x
        /\ b + (ByteValues * v) \in Nat
        /\ ByteValues * x \in Nat
    BY <1>1, <2>4, <2>5, <2>7, <2>8
  <2>10. FromBytes(s) = b + (ByteValues * v)
    BY <1>1, <2>3, <2>9
  <2>11. (b + (ByteValues * v)) = (ByteValues * v) + b
    BY <1>1, <2>4, <2>5
  <2>12. /\ (b + (ByteValues * v)) \div ByteValues = v
         /\ (b + (ByteValues * v)) % ByteValues = b
    BY <1>1, <2>4, <2>5, <2>9, <2>11, DivModUnique
  <2> QED
    BY <2>1, <2>9, <2>10, <2>12 DEF v
<1> QED
  BY <1>2, <1>3

(* r holds what is left of s without its first j bytes.                    *)
Without(r, s, j) ==
  /\ r \in Seq(Byte)
  /\ Len(r) = IF Len(s) <= j THEN 0 ELSE Len(s) - j
  /\ \A i \in 1..Len(r) : r[i] = s[i + j]

(* Taking the rest once more drops one byte more.                          *)
LEMMA RestWithout ==
  ASSUME NEW s \in Seq(Byte), NEW j \in Nat, NEW r, Without(r, s, j)
  PROVE  /\ Without(Rest(r), s, j + 1)
         /\ First(r) = IF j + 1 <= Len(s) THEN s[j + 1] ELSE 0
<1>1. r \in Seq(Byte) /\ Len(r) \in Nat /\ Len(s) \in Nat
  BY DEF Without
<1>2. CASE Len(s) <= j
  <2>1. Len(r) = 0
    BY <1>2 DEF Without
  <2>2. Len(Rest(r)) = 0 /\ Rest(r) \in Seq(Byte) /\ First(r) = 0
    BY <1>1, <2>1, RestType
  <2> QED
    BY <1>1, <1>2, <2>2 DEF Without
<1>3. CASE j < Len(s)
  <2>1. Len(r) = Len(s) - j /\ Len(r) # 0
    BY <1>1, <1>3 DEF Without
  <2>2. /\ Len(Rest(r)) = Len(r) - 1
        /\ Rest(r) \in Seq(Byte)
        /\ First(r) = r[1]
        /\ \A i \in 1..Len(Rest(r)) : Rest(r)[i] = r[i + 1]
    BY <1>1, <2>1, RestType
  <2>3. \A i \in 1..Len(r) : r[i] = s[i + j]
    BY DEF Without
  <2>4. First(r) = s[j + 1]
    <3>1. 1 \in 1..Len(r) /\ 1 + j = j + 1
      BY <1>1, <2>1
    <3> QED
      BY <2>2, <2>3, <3>1
  <2>5. ASSUME NEW i \in 1..Len(Rest(r))
        PROVE  Rest(r)[i] = s[i + (j + 1)]
    <3>1. i + 1 \in 1..Len(r) /\ (i + 1) + j = i + (j + 1)
      BY <1>1, <2>2
    <3> QED
      BY <2>2, <2>3, <3>1
  <2>6. Len(Rest(r)) = IF Len(s) <= j + 1 THEN 0 ELSE Len(s) - (j + 1)
    BY <1>1, <1>3, <2>1, <2>2
  <2> QED
    BY <1>1, <1>3, <2>2, <2>4, <2>5, <2>6 DEF Without
<1> QED
  BY <1>1, <1>2, <1>3

(* Up to four bytes, and NULs for those that are missing, are the four     *)
(* bytes of the u32 they make.                                             *)
LEMMA FourBytes ==
  ASSUME NEW s \in Seq(Byte), Len(s) <= 4
  PROVE  /\ FromBytes(s) \in 0..Prime - 1
         /\ \A i \in 1..4 :
              U32Bytes(FromBytes(s))[i] = IF i <= Len(s) THEN s[i] ELSE 0
<1> DEFINE r1 == Rest(s)
           r2 == Rest(r1)
           r3 == Rest(r2)
           r4 == Rest(r3)
           p2 == ByteValues * ByteValues
           p3 == ByteValues * p2
           p4 == ByteValues * p3
<1>1. /\ r1 \in Seq(Byte) /\ r2 \in Seq(Byte)
      /\ r3 \in Seq(Byte) /\ r4 \in Seq(Byte)
  BY RestType
<1>2. Len(s) \in Nat
  OBVIOUS
<1>3. Without(s, s, 0)
  BY DEF Without
<1>4. Without(r1, s, 1) /\ First(s) = IF 1 <= Len(s) THEN s[1] ELSE 0
  BY <1>3, RestWithout
<1> HIDE DEF r1
<1>5. Without(r2, s, 2) /\ First(r1) = IF 2 <= Len(s) THEN s[2] ELSE 0
  BY <1>4, RestWithout
<1> HIDE DEF r2
<1>6. Without(r3, s, 3) /\ First(r2) = IF 3 <= Len(s) THEN s[3] ELSE 0
  BY <1>5, RestWithout
<1> HIDE DEF r3
<1>7. Without(r4, s, 4) /\ First(r3) = IF 4 <= Len(s) THEN s[4] ELSE 0
  BY <1>6, RestWithout
<1> HIDE DEF r4
<1>8. r4 = <<>>
  <2>1. Len(r4) = 0
    BY <1>2, <1>7 DEF Without
  <2> QED
    BY <1>1, <2>1
<1>9. FromBytes(r4) = 0
  BY <1>8, FromBytesEmpty
<1>10. ByteValues \in Nat \ {0} /\ Prime \in Nat \ {0} /\ p4 <= Prime
  <2>1. p4 = ByteValues * ByteValues * ByteValues * ByteValues
    BY ByteFacts
  <2> QED
    BY <2>1, ElGamalAssumption
<1>11. /\ p2 \in Nat /\ ByteValues <= p2
       /\ p3 \in Nat /\ p2 <= p3
       /\ p4 \in Nat /\ p3 <= p4
  <2>1. p2 \in Nat /\ ByteValues <= p2
    BY <1>10
  <2> HIDE DEF p2
  <2>2. p3 \in Nat /\ p2 <= p3
    BY <1>10, <2>1
  <2> HIDE DEF p3
  <2>3. p4 \in Nat /\ p3 <= p4
    BY <1>10, <2>2
  <2> QED
    BY <2>1, <2>2, <2>3
<1>12. /\ FromBytes(r3) < ByteValues
       /\ FromBytes(r3) % ByteValues = First(r3)
       /\ FromBytes(r3) \div ByteValues = FromBytes(r4)
  <2>1. ByteValues * 1 <= Prime /\ ByteValues * 1 = ByteValues
    BY <1>10, <1>11
  <2> HIDE DEF p2, p3, p4
  <2> QED
    BY <1>1, <1>9, <2>1, LowestDigit DEF r4
<1>13. /\ FromBytes(r2) < p2
       /\ FromBytes(r2) % ByteValues = First(r2)
       /\ FromBytes(r2) \div ByteValues = FromBytes(r3)
  <2>1. p2 <= Prime
    BY <1>10, <1>11
  <2> QED
    BY <1>1, <1>10, <1>12, <2>1, LowestDigit DEF r3
<1> HIDE DEF p2
<1>14. /\ FromBytes(r1) < p3
       /\ FromBytes(r1) % ByteValues = First(r1)
       /\ FromBytes(r1) \div ByteValues = FromBytes(r2)
  <2>1. p3 <= Prime
    BY <1>10, <1>11
  <2> QED
    BY <1>1, <1>11, <1>13, <2>1, LowestDigit DEF r2
<1> HIDE DEF p3
<1>15. /\ FromBytes(s) % ByteValues = First(s)
       /\ FromBytes(s) \div ByteValues = FromBytes(r1)
  BY <1>1, <1>10, <1>11, <1>14, LowestDigit DEF r1
<1>16. U32Bytes(FromBytes(s)) = <<First(s), First(r1), First(r2), First(r3)>>
  BY <1>12, <1>13, <1>14, <1>15 DEF U32Bytes
<1>17. FromBytes(s) \in 0..Prime - 1
  BY FromBytesType
<1> QED
  BY <1>4, <1>5, <1>6, <1>7, <1>16, <1>17

(* Each chunk is a message PublicKey::encrypt accepts, and its four bytes  *)
(* are those of the string, padded with NULs after its end.                *)
LEMMA ChunkBytes ==
  ASSUME NEW s \in Seq(Byte)
  PROVE  /\ Chunks(s) \in Seq(0..Prime - 1)
         /\ Len(Chunks(s)) \in Nat
         /\ DOMAIN Chunks(s) = 1..Len(Chunks(s))
         /\ 4 * Len(Chunks(s)) >= Len(s)
         /\ \A k \in 1..Len(Chunks(s)) : \A i \in 1..4 :
              U32Bytes(Chunks(s)[k])[i] =
                IF 4 * (k - 1) + i <= Len(s) THEN s[4 * (k - 1) + i] ELSE 0
<1> DEFINE m == (Len(s) + 3) \div 4
           last(k) == IF 4 * k < Len(s) THEN 4 * k ELSE Len(s)
           chunk(k) == SubSeq(s, 4 * k - 3, last(k))
<1>1. m \in Nat /\ 4 * m >= Len(s) /\ 4 * m <= Len(s) + 3 /\ Len(s) \in Nat
  OBVIOUS
<1>2. ASSUME NEW k \in 1..m
      PROVE  /\ chunk(k) \in Seq(Byte)
             /\ Len(chunk(k)) = last(k) - (4 * k - 4)
             /\ Len(chunk(k)) <= 4
             /\ \A i \in 1..Len(chunk(k)) : chunk(k)[i] = s[4 * (k - 1) + i]
  <2>1. /\ 4 * k - 3 \in 1..Len(s) /\ last(k) \in 1..Len(s)
        /\ 4 * k - 3 <= last(k) /\ last(k) <= 4 * k
    BY <1>1
  <2>2. \A i \in Nat : (4 * k - 3) + i - 1 = 4 * (k - 1) + i
    BY <1>1
  <2> HIDE DEF last
  <2> QED
    BY <1>1, <2>1, <2>2
<1>3. Chunks(s) = [k \in 1..m |-> FromBytes(chunk(k))]
  BY DEF Chunks
<1>4. \A k \in 1..m : FromBytes(chunk(k)) \in 0..Prime - 1
  <2> HIDE DEF chunk
  <2> QED
    BY <1>2, FromBytesType
<1> HIDE DEF chunk
<1>5. Chunks(s) \in Seq(0..Prime - 1) /\ Len(Chunks(s)) = m
  <2> HIDE DEF m
  <2> QED
    BY <1>1, <1>3, <1>4
<1>6. ASSUME NEW k \in 1..m, NEW i \in 1..4
      PROVE  U32Bytes(Chunks(s)[k])[i] =
               IF 4 * (k - 1) + i <= Len(s) THEN s[4 * (k - 1) + i] ELSE 0
  <2>1. U32Bytes(Chunks(s)[k])[i] =
          IF i <= Len(chunk(k)) THEN chunk(k)[i] ELSE 0
    BY <1>2, <1>3, FourBytes
  <2>2. i <= Len(chunk(k)) <=> 4 * (k - 1) + i <= Len(s)
    BY <1>1, <1>2
  <2>3. i <= Len(chunk(k)) => chunk(k)[i] = s[4 * (k - 1) + i]
    BY <1>1, <1>2
  <2> QED
    BY <2>1, <2>2, <2>3
<1> QED
  <2> HIDE DEF m
  <2> QED
    BY <1>1, <1>3, <1>5, <1>6

-----------------------------------------------------------------------------

(* The ciphertext of the k-th chunk.                                       *)
ChunkCiphertext(s, key, randoms, k) ==
  EncryptNumber(key, Chunks(s)[k], randoms[k])

(* written[k] is what encrypt has written after k ciphertexts.             *)
IsLayout(written, s, key, randoms) ==
  /\ written \in [0..Len(Chunks(s)) -> Seq(Byte)]
  /\ written[0] = U32Bytes(Len(Chunks(s)))
  /\ \A k \in 1..Len(Chunks(s)) :
       written[k] = written[k - 1] \o
                    CiphertextBytes(ChunkCiphertext(s, key, randoms, k))
  /\ Encrypt(s, key, randoms) = written[Len(Chunks(s))]

(* What encrypt may be called with.                                        *)
Encryptable(s, key, randoms) ==
  /\ s \in Seq(Byte)
  /\ key.private_key \in Nat
  /\ key = PrivateKeyFrom(key.private_key)
  /\ \A k \in 1..Len(Chunks(s)) : randoms[k] \in Nat

(* Both numbers of a ciphertext are below Prime, and so written in full.   *)
LEMMA CiphertextType ==
  ASSUME NEW s, NEW key, NEW randoms, Encryptable(s, key, randoms),
         NEW k \in 1..Len(Chunks(s))
  PROVE  LET c == ChunkCiphertext(s, key, randoms, k)
         IN  /\ c = [c1 |-> c.c1, c2 |-> c.c2]
             /\ c.c1 \in 0..Prime - 1
             /\ c.c2 \in 0..Prime - 1
<1> DEFINE y == randoms[k] % (Prime - 1)
           m == Chunks(s)[k]
           h == key.public_exponent
<1>1. Prime \in Nat \ {0} /\ Prime - 1 \in Nat \ {0} /\ Generator \in Nat
  BY ElGamalAssumption
<1>2. m \in Nat
  <2>1. m \in 0..Prime - 1
    <3>1. Chunks(s) \in Seq(0..Prime - 1)
      BY ChunkBytes DEF Encryptable
    <3> DEFINE S == 0..Prime - 1
               c == Chunks(s)
    <3>2. c \in Seq(S) /\ k \in 1..Len(c)
      BY <3>1
    <3> HIDE DEF S, c
    <3>3. c[k] \in S
      BY <3>2
    <3> QED
      BY <3>3 DEF S, c
  <2> HIDE DEF m
  <2> QED
    BY <1>1, <2>1
<1>3. y \in Nat
  <2>1. randoms[k] \in Nat
    BY DEF Encryptable
  <2> QED
    BY <1>1, <2>1
<1>4. h \in Nat
  <2>1. h = ModPow(Generator, key.private_key % Prime)
    BY DEF Encryptable, PrivateKeyFrom
  <2>2. key.private_key % Prime \in Nat
    BY <1>1 DEF Encryptable
  <2> QED
    BY <1>1, <2>1, <2>2, ModPowStep
<1> HIDE DEF y, m, h
<1>5. ModPow(Generator, y) \in 0..Prime - 1
  BY <1>1, <1>3, ModPowStep
<1>6. (m * ModPow(h, y)) % Prime \in 0..Prime - 1
  <2>1. ModPow(h, y) \in Nat
    <3>1. ModPow(h, y) \in 0..Prime - 1
      BY <1>3, <1>4, ModPowStep
    <3> QED
      BY <1>1, <3>1
  <2>2. m * ModPow(h, y) \in Nat
    BY <1>2, <2>1
  <2> QED
    BY <1>1, <2>2
<1>7. ChunkCiphertext(s, key, randoms, k)
        = [c1 |-> ModPow(Generator, y), c2 |-> (m * ModPow(h, y)) % Prime]
  BY DEF ChunkCiphertext, EncryptNumber, y, m, h
<1> QED
  BY <1>5, <1>6, <1>7

(* A ciphertext is written in bytes.                                       *)
LEMMA CiphertextBytesType ==
  ASSUME NEW c1 \in 0..Prime - 1, NEW c2 \in 0..Prime - 1
  PROVE  CiphertextBytes([c1 |-> c1, c2 |-> c2]) \in Seq(Byte)
<1>1. c1 \in Nat /\ c2 \in Nat
  BY ByteFacts
<1>2. ToBytes(c1) \in Seq(Byte) /\ ToBytes(c2) \in Seq(Byte)
  BY <1>1, ToBytesStep
<1>3. Len(ToBytes(c1)) \in Nat /\ Len(ToBytes(c2)) \in Nat
  BY <1>2
<1>4. /\ U32Bytes(Len(ToBytes(c1))) \in Seq(Byte)
      /\ U32Bytes(Len(ToBytes(c2))) \in Seq(Byte)
  BY <1>3, U32BytesType
<1> QED
  BY <1>2, <1>4 DEF CiphertextBytes

(* encrypt writes the count, then one ciphertext after the other.          *)
LEMMA LayoutExists ==
  ASSUME NEW s, NEW key, NEW randoms, Encryptable(s, key, randoms)
  PROVE  \E written : IsLayout(written, s, key, randoms)
<1> DEFINE S == Seq(Byte)
           m == Len(Chunks(s))
           entry(k) == CiphertextBytes(ChunkCiphertext(s, key, randoms, k))
           v == U32Bytes(m)
           G == [k \in 1..m |-> [x \in S |-> x \o entry(k)]]
           P(f) == f = [k \in 0..m |-> IF k = 0 THEN v ELSE f[k - 1] \o entry(k)]
           written == CHOOSE f : P(f)
<1>1. m \in Nat /\ v \in S
  <2>1. m \in Nat
    BY ChunkBytes DEF Encryptable
  <2> HIDE DEF m
  <2> QED
    BY <2>1, U32BytesType
<1>2. \A k \in 1..m : entry(k) \in S
  BY CiphertextType, CiphertextBytesType
<1> HIDE DEF entry, v
<1>3. G \in [1..m -> [S -> S]]
  <2>1. \A k \in 1..m : \A x \in S : x \o entry(k) \in S
    BY <1>2
  <2> HIDE DEF S, m
  <2> QED
    BY <2>1
<1>4. Iterated(S, m, v, G)
  <2> HIDE DEF S, m, G
  <2> QED
    BY <1>1, <1>3 DEF Iterated
<1>5. PICK g \in [0..m -> S] : Iterates(g, S, m, v, G)
  <2> HIDE DEF S, m, G
  <2> QED
    BY <1>4, Iteration
<1>6. ASSUME NEW k \in 0..m
      PROVE  g[k] = IF k = 0 THEN v ELSE g[k - 1] \o entry(k)
  <2> HIDE DEF m, S
  <2>1. CASE k = 0
    BY <1>5, <2>1 DEF Iterates
  <2>2. CASE k # 0
    <3>1. k \in 1..m /\ k - 1 \in 0..m
      BY <1>1, <2>2
    <3>2. g[k - 1] \in S
      BY <3>1
    <3>3. G[k][g[k - 1]] = g[k - 1] \o entry(k)
      BY <3>1, <3>2
    <3> HIDE DEF G
    <3> QED
      BY <1>5, <2>2, <3>1, <3>2, <3>3 DEF Iterates
  <2> QED
    BY <2>1, <2>2
<1>7. P(g)
  <2> HIDE DEF S, m
  <2> QED
    BY <1>5, <1>6
<1>8. P(written)
  <2> HIDE DEF P
  <2> QED
    BY <1>7
<1>9. Encrypt(s, key, randoms) = written[m]
  BY DEF Encrypt, ChunkCiphertext, entry, v
<1>10. /\ written[0] = v
       /\ \A k \in 1..m : written[k] = written[k - 1] \o entry(k)
  <2>1. written = [k \in 0..m |->
                     IF k = 0 THEN v ELSE written[k - 1] \o entry(k)]
    BY <1>8
  <2>2. 0 \in 0..m /\ \A k \in 1..m : k \in 0..m /\ k # 0
    BY <1>1
  <2> HIDE DEF written, m
  <2> QED
    BY <2>1, <2>2
<1>11. Iterates(written, S, m, v, G)
  <2> SUFFICES ASSUME NEW k \in 1..m, written[k - 1] \in S
               PROVE  written[k] = G[k][written[k - 1]]
    BY <1>10 DEF Iterates
  <2> HIDE DEF written, S, m
  <2> QED
    BY <1>10
<1>12. \A k \in 0..m : written[k] \in S
  <2> HIDE DEF S, m, G, written
  <2> QED
    BY <1>4, <1>11, IterationType
<1>13. written \in [0..m -> S]
  <2>1. written = [k \in 0..m |->
                     IF k = 0 THEN v ELSE written[k - 1] \o entry(k)]
    BY <1>8
  <2> HIDE DEF written, m, S
  <2> QED
    BY <1>12, <2>1
<1>14. IsLayout(written, s, key, randoms)
  <2> HIDE DEF written
  <2> QED
    BY <1>9, <1>10, <1>13 DEF IsLayout, entry, v
<1> QED
  BY <1>14

(* What has been written is never changed by what follows.                 *)
LEMMA LayoutPrefix ==
  ASSUME NEW s, NEW key, NEW randoms, Encryptable(s, key, randoms),
         NEW written, IsLayout(written, s, key, randoms),
         NEW j \in 0..Len(Chunks(s))
  PROVE  /\ Len(written[j]) <= Len(Encrypt(s, key, randoms))
         /\ \A i \in 1..Len(written[j]) :
              Encrypt(s, key, randoms)[i] = written[j][i]
<1> DEFINE m == Len(Chunks(s))
           Agrees(k) == /\ Len(written[j]) <= Len(written[k])
                        /\ \A i \in 1..Len(written[j]) :
                             written[k][i] = written[j][i]
           E == {k \in Nat : j + k <= m => Agrees(j + k)}
<1>1. m \in Nat /\ j \in Nat
  BY ChunkBytes DEF Encryptable
<1>2. \A k \in 0..m : written[k] \in Seq(Byte)
  BY DEF IsLayout
<1>3. 0 \in E
  <2>1. j + 0 = j
    BY <1>1
  <2>2. Len(written[j]) \in Nat
    BY <1>2
  <2> QED
    BY <2>1, <2>2
<1>4. ASSUME NEW k \in E
      PROVE  k + 1 \in E
  <2> SUFFICES ASSUME j + (k + 1) <= m
               PROVE  Agrees(j + (k + 1))
    OBVIOUS
  <2> DEFINE n == j + (k + 1)
             entry == CiphertextBytes(ChunkCiphertext(s, key, randoms, n))
  <2>1. /\ n \in 1..m /\ n - 1 = j + k /\ j + k \in 0..m /\ k \in Nat
        /\ n \in 0..m
    BY <1>1
  <2>2. Agrees(j + k)
    BY <2>1
  <2>3. written[n] = written[j + k] \o entry
    BY <2>1 DEF IsLayout
  <2>4. entry \in Seq(Byte)
    <3> HIDE DEF n
    <3> QED
      BY <2>1, CiphertextType, CiphertextBytesType
  <2> DEFINE a == written[j + k]
  <2>5. a \in Seq(Byte)
    BY <1>2, <2>1
  <2>6. written[j] \in Seq(Byte)
    BY <1>2
  <2>7. /\ Len(a \o entry) = Len(a) + Len(entry)
        /\ Len(a) \in Nat /\ Len(entry) \in Nat
        /\ \A i \in 1..Len(a) : (a \o entry)[i] = a[i]
    <3> HIDE DEF a, entry
    <3> QED
      BY <2>4, <2>5
  <2>8. Len(written[j]) \in Nat
    BY <2>6
  <2>9. /\ Len(written[j]) <= Len(a)
        /\ \A i \in 1..Len(written[j]) : a[i] = written[j][i]
    BY <2>2
  <2>10. /\ Len(written[j]) <= Len(written[n])
         /\ \A i \in 1..Len(written[j]) : written[n][i] = written[j][i]
    <3> HIDE DEF n, entry, a
    <3>1. written[n] = a \o entry
      BY <2>3 DEF a
    <3> QED
      BY <2>7, <2>8, <2>9, <3>1
  <2> QED
    BY <2>10
<1>5. E = Nat
  <2> HIDE DEF E
  <2>1. E \in SUBSET Nat
    BY DEF E
  <2> QED
    BY <1>3, <1>4, <2>1, Induction
<1>6. Agrees(m)
  <2>1. m - j \in Nat /\ j + (m - j) = m
    BY <1>1
  <2>2. m - j \in E
    BY <1>5, <2>1
  <2> HIDE DEF Agrees, m
  <2> QED
    BY <2>1, <2>2
<1> QED
  BY <1>6 DEF IsLayout

(* s is a followed by b.                                                   *)
TwoParts(s, a, b, S) ==
  /\ s \in Seq(S)
  /\ Len(s) = Len(a) + Len(b)
  /\ \A i \in 1..Len(a) : s[i] = a[i]
  /\ \A i \in 1..Len(b) : s[Len(a) + i] = b[i]

(* A concatenation holds its two parts.                                    *)
LEMMA ConcatParts ==
  ASSUME NEW S, NEW a \in Seq(S), NEW b \in Seq(S)
  PROVE  TwoParts(a \o b, a, b, S)
  BY DEF TwoParts

(* s is a, b, c and d behind e.                                            *)
FourParts(s, e, a, b, c, d) ==
  /\ Len(s) = Len(e) + Len(a) + Len(b) + Len(c) + Len(d)
  /\ \A i \in 1..Len(a) : s[Len(e) + i] = a[i]
  /\ \A i \in 1..Len(b) : s[Len(e) + Len(a) + i] = b[i]
  /\ \A i \in 1..Len(c) : s[Len(e) + Len(a) + Len(b) + i] = c[i]
  /\ \A i \in 1..Len(d) :
       s[Len(e) + Len(a) + Len(b) + Len(c) + i] = d[i]

(* A ciphertext is written behind what is there in four parts.             *)
LEMMA ConcatFourParts ==
  ASSUME NEW S, NEW a \in Seq(S), NEW b \in Seq(S), NEW c \in Seq(S),
         NEW d \in Seq(S), NEW e \in Seq(S),
         NEW all, all = e \o (a \o b \o c \o d)
  PROVE  FourParts(all, e, a, b, c, d)
<1> DEFINE ab == a \o b
           abc == ab \o c
           abcd == abc \o d
<1>1. /\ Len(a) \in Nat /\ Len(b) \in Nat /\ Len(c) \in Nat
      /\ Len(d) \in Nat /\ Len(e) \in Nat
  OBVIOUS
<1>2. /\ ab \in Seq(S) /\ Len(ab) = Len(a) + Len(b)
      /\ \A i \in 1..Len(a) : ab[i] = a[i]
      /\ \A i \in 1..Len(b) : ab[Len(a) + i] = b[i]
  BY ConcatParts DEF TwoParts
<1>3. all = e \o abcd
  OBVIOUS
<1>4. /\ abc \in Seq(S) /\ Len(abc) = Len(ab) + Len(c)
      /\ \A i \in 1..Len(ab) : abc[i] = ab[i]
      /\ \A i \in 1..Len(c) : abc[Len(ab) + i] = c[i]
  <2> HIDE DEF ab
  <2>1. TwoParts(abc, ab, c, S)
    BY <1>2, ConcatParts
  <2> HIDE DEF abc
  <2> QED
    BY <2>1 DEF TwoParts
<1>5. /\ abcd \in Seq(S) /\ Len(abcd) = Len(abc) + Len(d)
      /\ \A i \in 1..Len(abc) : abcd[i] = abc[i]
      /\ \A i \in 1..Len(d) : abcd[Len(abc) + i] = d[i]
  <2> HIDE DEF abc
  <2>1. TwoParts(abcd, abc, d, S)
    BY <1>4, ConcatParts
  <2> HIDE DEF abcd
  <2> QED
    BY <2>1 DEF TwoParts
<1>6. /\ Len(all) = Len(e) + Len(abcd)
      /\ \A i \in 1..Len(abcd) : all[Len(e) + i] = abcd[i]
  <2> HIDE DEF abcd
  <2> QED
    <3>1. TwoParts(all, e, abcd, S)
      BY <1>5, <1>3, ConcatParts
    <3> QED
      BY <3>1 DEF TwoParts
<1> HIDE DEF ab, abc, abcd
<1>7. Len(all) = Len(e) + Len(a) + Len(b) + Len(c) + Len(d)
  BY <1>1, <1>2, <1>4, <1>5, <1>6
<1>8. ASSUME NEW i \in 1..Len(a)
      PROVE  all[Len(e) + i] = a[i]
  <2>1. i \in 1..Len(ab) /\ i \in 1..Len(abc) /\ i \in 1..Len(abcd)
    BY <1>1, <1>2, <1>4, <1>5
  <2> QED
    BY <1>2, <1>4, <1>5, <1>6, <2>1
<1>9. ASSUME NEW i \in 1..Len(b)
      PROVE  all[Len(e) + Len(a) + i] = b[i]
  <2> DEFINE j == Len(a) + i
  <2>1. /\ j \in 1..Len(ab) /\ j \in 1..Len(abc) /\ j \in 1..Len(abcd)
        /\ Len(e) + Len(a) + i = Len(e) + j
    BY <1>1, <1>2, <1>4, <1>5
  <2>2. ab[j] = b[i]
    BY <1>2
  <2> HIDE DEF j
  <2> QED
    BY <1>4, <1>5, <1>6, <2>1, <2>2
<1>10. ASSUME NEW i \in 1..Len(c)
      PROVE  all[Len(e) + Len(a) + Len(b) + i] = c[i]
  <2> DEFINE j == Len(ab) + i
  <2>1. /\ j \in 1..Len(abc) /\ j \in 1..Len(abcd)
        /\ Len(e) + Len(a) + Len(b) + i = Len(e) + j
    BY <1>1, <1>2, <1>4, <1>5
  <2>2. abc[j] = c[i]
    BY <1>4
  <2> HIDE DEF j
  <2> QED
    BY <1>5, <1>6, <2>1, <2>2
<1>11. ASSUME NEW i \in 1..Len(d)
       PROVE  all[Len(e) + Len(a) + Len(b) + Len(c) + i] = d[i]
  <2> DEFINE j == Len(abc) + i
  <2>1. /\ j \in 1..Len(abcd)
        /\ Len(e) + Len(a) + Len(b) + Len(c) + i = Len(e) + j
    BY <1>1, <1>2, <1>4, <1>5
  <2>2. abcd[j] = d[i]
    BY <1>5
  <2> HIDE DEF j
  <2> QED
    BY <1>6, <2>1, <2>2
<1> QED
  BY <1>7, <1>8, <1>9, <1>10, <1>11 DEF FourParts

(* d holds the lengths and the numbers of the ciphertext c from o to end.  *)
HoldsCiphertext(d, o, c, end) ==
  LET l1 == Len(ToBytes(c.c1))
      l2 == Len(ToBytes(c.c2))
  IN  /\ o \in Nat /\ l1 \in Nat /\ l2 \in Nat
      /\ end = o + 8 + l1 + l2
      /\ end <= Len(d)
      /\ \A i \in 1..4 : d[o + i] = U32Bytes(l1)[i]
      /\ \A i \in 1..l1 : d[o + 4 + i] = ToBytes(c.c1)[i]
      /\ \A i \in 1..4 : d[o + 4 + l1 + i] = U32Bytes(l2)[i]
      /\ \A i \in 1..l2 : d[o + 8 + l1 + i] = ToBytes(c.c2)[i]

(* Where encrypt has written a ciphertext.                                 *)
LEMMA EntryLayout ==
  ASSUME NEW s, NEW key, NEW randoms, Encryptable(s, key, randoms),
         NEW written, IsLayout(written, s, key, randoms),
         NEW k \in 1..Len(Chunks(s))
  PROVE  HoldsCiphertext(Encrypt(s, key, randoms), Len(written[k - 1]),
                         ChunkCiphertext(s, key, randoms, k), Len(written[k]))
<1> DEFINE c == ChunkCiphertext(s, key, randoms, k)
           d == Encrypt(s, key, randoms)
           e == written[k - 1]
           t1 == ToBytes(c.c1)
           t2 == ToBytes(c.c2)
           u1 == U32Bytes(Len(t1))
           u2 == U32Bytes(Len(t2))
           all == e \o (u1 \o t1 \o u2 \o t2)
<1>1. Len(Chunks(s)) \in Nat
  BY ChunkBytes DEF Encryptable
<1>2. k - 1 \in 0..Len(Chunks(s)) /\ k \in 0..Len(Chunks(s))
  BY <1>1
<1>3. e \in Seq(Byte)
  BY <1>2 DEF IsLayout
<1>4. t1 \in Seq(Byte) /\ t2 \in Seq(Byte)
  <2>1. c.c1 \in 0..Prime - 1 /\ c.c2 \in 0..Prime - 1
    BY CiphertextType
  <2> HIDE DEF c
  <2>2. c.c1 \in Nat /\ c.c2 \in Nat
    BY <2>1, ByteFacts
  <2> QED
    BY <2>2, ToBytesStep
<1>5. written[k] = all
  BY DEF IsLayout, CiphertextBytes
<1> HIDE DEF c, e, t1, t2
<1>6. Len(e) \in Nat /\ Len(t1) \in Nat /\ Len(t2) \in Nat
  BY <1>3, <1>4
<1>7. /\ u1 \in Seq(Byte) /\ Len(u1) = 4
      /\ u2 \in Seq(Byte) /\ Len(u2) = 4
  BY <1>6, U32BytesType
<1> HIDE DEF u1, u2
<1>8. /\ Len(all) = Len(e) + 4 + Len(t1) + 4 + Len(t2)
      /\ \A i \in 1..4 : all[Len(e) + i] = u1[i]
      /\ \A i \in 1..Len(t1) : all[Len(e) + 4 + i] = t1[i]
      /\ \A i \in 1..4 : all[Len(e) + 4 + Len(t1) + i] = u2[i]
      /\ \A i \in 1..Len(t2) : all[Len(e) + 4 + Len(t1) + 4 + i] = t2[i]
  <2>1. /\ Len(all) = Len(e) + Len(u1) + Len(t1) + Len(u2) + Len(t2)
        /\ \A i \in 1..Len(u1) : all[Len(e) + i] = u1[i]
        /\ \A i \in 1..Len(t1) : all[Len(e) + Len(u1) + i] = t1[i]
        /\ \A i \in 1..Len(u2) : all[Len(e) + Len(u1) + Len(t1) + i] = u2[i]
        /\ \A i \in 1..Len(t2) :
             all[Len(e) + Len(u1) + Len(t1) + Len(u2) + i] = t2[i]
    <3>1. all = e \o (u1 \o t1 \o u2 \o t2)
      OBVIOUS
    <3> HIDE DEF all
    <3> QED
      <4>1. FourParts(all, e, u1, t1, u2, t2)
        <5> DEFINE S == Seq(Byte)
        <5>1. e \in S /\ u1 \in S /\ t1 \in S /\ u2 \in S /\ t2 \in S
          BY <1>3, <1>4, <1>7
        <5> QED
          BY <3>1, <5>1, ConcatFourParts
      <4> QED
        BY <4>1 DEF FourParts
  <2> HIDE DEF all
  <2> QED
    BY <1>6, <1>7, <2>1
<1>9. /\ Len(all) <= Len(d)
      /\ \A i \in 1..Len(all) : d[i] = all[i]
  BY <1>2, <1>5, LayoutPrefix
<1> HIDE DEF all, d
<1>10. /\ Len(all) = Len(e) + 8 + Len(t1) + Len(t2)
       /\ \A i \in 1..4 : d[Len(e) + i] = u1[i]
       /\ \A i \in 1..Len(t1) : d[Len(e) + 4 + i] = t1[i]
       /\ \A i \in 1..4 : d[Len(e) + 4 + Len(t1) + i] = u2[i]
       /\ \A i \in 1..Len(t2) : d[Len(e) + 8 + Len(t1) + i] = t2[i]
  <2>1. Len(all) = Len(e) + 8 + Len(t1) + Len(t2)
    BY <1>6, <1>8
  <2>2. ASSUME NEW i \in 1..4
        PROVE  /\ d[Len(e) + i] = u1[i]
               /\ d[Len(e) + 4 + Len(t1) + i] = u2[i]
    <3>1. Len(e) + i \in 1..Len(all) /\ Len(e) + 4 + Len(t1) + i \in 1..Len(all)
      BY <1>6, <2>1
    <3> QED
      BY <1>8, <1>9, <3>1
  <2>3. ASSUME NEW i \in 1..Len(t1)
        PROVE  d[Len(e) + 4 + i] = t1[i]
    <3>1. Len(e) + 4 + i \in 1..Len(all)
      BY <1>6, <2>1
    <3> QED
      BY <1>8, <1>9, <3>1
  <2>4. ASSUME NEW i \in 1..Len(t2)
        PROVE  d[Len(e) + 8 + Len(t1) + i] = t2[i]
    <3>1. /\ Len(e) + 8 + Len(t1) + i \in 1..Len(all)
          /\ Len(e) + 4 + Len(t1) + 4 + i = Len(e) + 8 + Len(t1) + i
      BY <1>6, <2>1
    <3> QED
      BY <1>8, <1>9, <3>1
  <2> QED
    BY <2>1, <2>2, <2>3, <2>4
<1> QED
  BY <1>5, <1>6, <1>9, <1>10 DEF HoldsCiphertext, u1, u2, t1, t2, c, d, e
=============================================================================
