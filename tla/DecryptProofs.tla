---------------------------- MODULE DecryptProofs ----------------------------
(***************************************************************************)
(* What decrypt does with its data, for every number of values of a byte,  *)
(* every Prime and every input DecryptAssumption allows: it stays inside   *)
(* them, it refuses them when their end is missing, and it makes the       *)
(* message of what encrypt wrote.                                          *)
(***************************************************************************)
EXTENDS Decrypt, ElGamalProofs

(* A u32 read from inside the data is a natural number.                    *)
LEMMA U32Natural ==
  ASSUME NEW d \in Seq(Byte), NEW i \in Nat, i + 4 <= Len(d)
  PROVE  U32(d, i) \in Nat
<1>1. /\ d[i + 1] \in Nat
      /\ d[i + 2] \in Nat
      /\ d[i + 3] \in Nat
      /\ d[i + 4] \in Nat
  <2>1. /\ i + 1 \in 1..Len(d)
        /\ i + 2 \in 1..Len(d)
        /\ i + 3 \in 1..Len(d)
        /\ i + 4 \in 1..Len(d)
    OBVIOUS
  <2>2. \A k \in 1..Len(d) : d[k] \in Byte
    OBVIOUS
  <2> QED
    BY <2>1, <2>2, ByteFacts
<1>2. ASSUME NEW a \in Nat, NEW b \in Nat
      PROVE  a + ByteValues * b \in Nat
  BY ByteFacts
<1>3. d[i + 3] + ByteValues * d[i + 4] \in Nat
  BY <1>1, <1>2
<1>4. d[i + 2] + ByteValues * (d[i + 3] + ByteValues * d[i + 4]) \in Nat
  BY <1>1, <1>2, <1>3
<1> QED
  BY <1>1, <1>2, <1>4 DEF U32

(* So is a number read from inside the data.                               *)
LEMMA SliceNatural ==
  ASSUME NEW d \in Seq(Byte), NEW i \in Nat, NEW n \in Nat, i + n <= Len(d)
  PROVE  FromBytes(SubSeq(d, i + 1, i + n)) \in Nat
<1>1. SubSeq(d, i + 1, i + n) \in Seq(Byte)
  OBVIOUS
<1>2. FromBytes(SubSeq(d, i + 1, i + n)) \in 0..Prime - 1
  BY <1>1, FromBytesType
<1> QED
  BY <1>2, ByteFacts

(* A number decrypted is a natural number, whatever the ciphertext.        *)
LEMMA DecryptedNatural ==
  ASSUME NEW key, key.private_key \in Nat,
         NEW c \in [c1 : Nat, c2 : Nat], NEW m \in DecryptNumber(key, c)
  PROVE  m \in Nat
<1>1. PICK i \in 0..Prime - 1 : m = (c.c2 * i) % Prime
  BY DEF DecryptNumber, Inverses
<1>2. c.c2 * i \in Nat
  BY <1>1, ByteFacts
<1> QED
  BY <1>1, <1>2, ByteFacts

(* StripNuls cuts behind the last byte that is not NUL.                    *)
LEMMA StripNulsCut ==
  ASSUME NEW s \in Seq(Byte)
  PROVE  \E n \in 0..Len(s) :
           /\ \A i \in n + 1..Len(s) : s[i] = 0
           /\ n > 0 => s[n] # 0
           /\ StripNuls(s) = SubSeq(s, 1, n)
<1> DEFINE A == {n \in Nat : n <= Len(s) /\ \A i \in n + 1..Len(s) : s[i] = 0}
           Q(n) == /\ \A i \in n + 1..Len(s) : s[i] = 0
                   /\ n > 0 => s[n] # 0
           cut == CHOOSE n \in 0..Len(s) : Q(n)
<1>1. Len(s) \in A
  OBVIOUS
<1>2. PICK n \in A : \A k \in A : n <= k
  <2>1. A # {} /\ A \in SUBSET Nat
    BY <1>1
  <2> HIDE DEF A
  <2> QED
    BY <2>1, Least
<1>3. n > 0 => s[n] # 0
  <2> SUFFICES ASSUME n > 0, s[n] = 0
               PROVE  FALSE
    OBVIOUS
  <2>1. n - 1 \in Nat /\ n - 1 <= Len(s) /\ (n - 1) + 1 = n
    OBVIOUS
  <2>2. \A i \in n..Len(s) : i = n \/ i \in n + 1..Len(s)
    OBVIOUS
  <2>3. n - 1 \in A
    BY <2>1, <2>2
  <2>4. n <= n - 1
    <3> HIDE DEF A
    <3> QED
      BY <1>2, <2>3
  <2> QED
    BY <2>1, <2>4
<1>4. n \in 0..Len(s) /\ Q(n)
  BY <1>3
<1>5. cut \in 0..Len(s) /\ Q(cut)
  <2> HIDE DEF Q
  <2> QED
    BY <1>4
<1>6. StripNuls(s) = SubSeq(s, 1, cut)
  BY DEF StripNuls
<1> HIDE DEF cut
<1> QED
  BY <1>5, <1>6

(* It cuts nothing off a string whose last byte is not NUL.                *)
LEMMA StripNulsWhole ==
  ASSUME NEW s \in Seq(Byte), s # <<>> => s[Len(s)] # 0
  PROVE  StripNuls(s) = s
<1>1. PICK n \in 0..Len(s) :
        /\ \A i \in n + 1..Len(s) : s[i] = 0
        /\ StripNuls(s) = SubSeq(s, 1, n)
  BY StripNulsCut
<1>2. n = Len(s)
  <2>1. CASE s = <<>>
    BY <2>1
  <2>2. CASE s # <<>> /\ n < Len(s)
    <3>1. Len(s) \in n + 1..Len(s)
      BY <2>2
    <3> QED
      BY <1>1, <2>2, <3>1
  <2> QED
    BY <2>1, <2>2
<1> QED
  BY <1>1, <1>2

(* What is left of a string is a string.                                   *)
LEMMA StripNulsType ==
  ASSUME NEW s \in Seq(Byte)
  PROVE  StripNuls(s) \in Seq(Byte)
<1>1. PICK n \in 0..Len(s) : StripNuls(s) = SubSeq(s, 1, n)
  BY StripNulsCut
<1>2. SubSeq(s, 1, n) \in Seq(Byte)
  OBVIOUS
<1> QED
  BY <1>1, <1>2

-----------------------------------------------------------------------------

(* TypeOK and ReadsInside, with what it takes to carry them over a read:   *)
(* inside a ciphertext one is still to be read, and the input stays one of *)
(* Inputs.                                                                 *)
TypeInv ==
  /\ input \in Inputs
  /\ TypeOK
  /\ ReadsInside
  /\ at \in {"c1", "c2_len", "c2"} => left # 0

(* It holds before anything is read.                                       *)
LEMMA InitTypeInv == Init => TypeInv
<1> SUFFICES ASSUME Init
             PROVE  TypeInv
  OBVIOUS
<1>1. data \in Seq(Byte) /\ input \in Inputs
  BY DecryptAssumption DEF Init, data
<1>2. Len(data) \in Nat
  BY <1>1
<1>3. <<>> \in Seq([c1 : Nat, c2 : Nat]) /\ <<>> \in Seq(Byte)
  OBVIOUS
<1> QED
  BY <1>1, <1>2, <1>3 DEF Init, TypeInv, TypeOK, ReadsInside

(* One step: the actions that read are the ones that move offset.          *)
LEMMA NextTypeInv == TypeInv /\ [Next]_vars => TypeInv'
<1> SUFFICES ASSUME TypeInv, [Next]_vars
             PROVE  TypeInv'
  OBVIOUS
<1> USE DEF TypeInv, TypeOK, ReadsInside
<1>0. /\ Len(data) \in Nat
      /\ offset \in Nat
      /\ input.private_key.private_key \in Nat
  BY DecryptAssumption
<1> DEFINE Cipher == [c1 : Nat, c2 : Nat]
<1>1. CASE ReadCount
  <2>1. data' = data
    BY <1>1 DEF ReadCount, data
  <2>2. left' \in Nat
    BY <1>0, <1>1, U32Natural DEF ReadCount
  <2> HIDE DEF Cipher
  <2> QED
    BY <1>0, <1>1, <2>1, <2>2 DEF ReadCount
<1>2. CASE TooShort
  <2>1. data' = data
    BY <1>2 DEF TooShort, data
  <2> QED
    BY <1>0, <1>2, <2>1 DEF TooShort, Return
<1>3. CASE ReadC1Len
  <2>1. data' = data
    BY <1>3 DEF ReadC1Len, data
  <2>2. offset + 8 <= Len(data)
    BY <1>0, <1>3 DEF ReadC1Len, Short
  <2>3. length' \in Nat
    BY <1>0, <1>3, <2>2, U32Natural DEF ReadC1Len
  <2> QED
    BY <1>0, <1>3, <2>1, <2>2, <2>3 DEF ReadC1Len
<1>4. CASE ReadC1
  <2>1. data' = data
    BY <1>4 DEF ReadC1, data
  <2>2. offset + length + 4 <= Len(data)
    BY <1>0, <1>4 DEF ReadC1, Short
  <2>3. c1' \in Nat
    <3>1. c1' = FromBytes(SubSeq(data, offset + 1, offset + length))
      BY <1>4 DEF ReadC1
    <3>2. offset + length <= Len(data)
      BY <1>0, <2>2
    <3> QED
      BY <1>0, <3>1, <3>2, SliceNatural
  <2> QED
    BY <1>0, <1>4, <2>1, <2>2, <2>3 DEF ReadC1
<1>5. CASE ReadC2Len
  <2>1. data' = data
    BY <1>5 DEF ReadC2Len, data
  <2>2. length' \in Nat
    BY <1>0, <1>5, U32Natural DEF ReadC2Len
  <2> QED
    BY <1>0, <1>5, <2>1, <2>2 DEF ReadC2Len
<1>6. CASE ReadC2
  <2>1. data' = data
    BY <1>6 DEF ReadC2, data
  <2>2. offset + length <= Len(data)
    BY <1>0, <1>6 DEF ReadC2, Short
  <2> DEFINE c2 == FromBytes(SubSeq(data, offset + 1, offset + length))
  <2>3. c2 \in Nat
    BY <1>0, <2>2, SliceNatural
  <2> HIDE DEF c2
  <2>4. Append(ciphertexts, [c1 |-> c1, c2 |-> c2]) \in Seq(Cipher)
    BY <2>3
  <2>5. /\ ciphertexts' = Append(ciphertexts, [c1 |-> c1, c2 |-> c2])
        /\ offset' = offset + length
        /\ left' = left - 1
        /\ at' = "entry"
        /\ UNCHANGED <<input, length, c1, bytes, outcome>>
        /\ left # 0
    BY <1>6 DEF ReadC2, c2
  <2> HIDE DEF Cipher
  <2>6. ciphertexts' \in Seq(Cipher)
    BY <2>4, <2>5
  <2> QED
    BY <1>0, <2>1, <2>2, <2>5, <2>6 DEF Cipher
<1>7. CASE EndReading
  <2>1. data' = data
    BY <1>7 DEF EndReading, data
  <2> QED
    BY <1>0, <1>7, <2>1 DEF EndReading
<1>8. CASE DecryptChunk
  <2>1. data' = data
    BY <1>8 DEF DecryptChunk, data
  <2>2. Head(ciphertexts) \in Cipher /\ Tail(ciphertexts) \in Seq(Cipher)
    <3>1. ciphertexts # <<>> /\ ciphertexts \in Seq(Cipher)
      BY <1>8 DEF DecryptChunk
    <3> HIDE DEF Cipher
    <3> QED
      BY <3>1
  <2>3. PICK m \in DecryptNumber(input.private_key, Head(ciphertexts)) :
          IF m = 0
          THEN /\ Return("panic")
               /\ UNCHANGED <<ciphertexts, bytes>>
          ELSE /\ bytes' = bytes \o U32Bytes(m)
               /\ ciphertexts' = Tail(ciphertexts)
               /\ UNCHANGED <<at, outcome>>
    BY <1>8 DEF DecryptChunk
  <2>4. m \in Nat
    BY <1>0, <2>2, DecryptedNatural
  <2>5. bytes \o U32Bytes(m) \in Seq(Byte)
    <3>1. U32Bytes(m) \in Seq(Byte)
      BY <2>4, U32BytesType
    <3> QED
      BY <3>1
  <2>6. UNCHANGED <<input, offset, left, length, c1>> /\ at = "decrypt"
    BY <1>8 DEF DecryptChunk
  <2> HIDE DEF Cipher
  <2>7. ciphertexts' \in Seq(Cipher) /\ bytes' \in Seq(Byte)
    <3>1. ciphertexts \in Seq(Cipher)
      BY DEF Cipher
    <3> QED
      BY <2>2, <2>3, <2>5, <3>1
  <2>8. /\ at' \in {"decrypt", "done"}
        /\ outcome' \in {"none", "ok", "invalid", "undecodable", "panic"}
    BY <2>3, <2>6 DEF Return
  <2> QED
    BY <1>0, <2>1, <2>6, <2>7, <2>8 DEF Cipher
<1>9. CASE NotInvertible
  <2>1. data' = data
    BY <1>9 DEF NotInvertible, data
  <2> QED
    BY <1>0, <1>9, <2>1 DEF NotInvertible, Return
<1>10. CASE Decode
  <2>1. data' = data
    BY <1>10 DEF Decode, data
  <2>2. bytes' \in Seq(Byte)
    BY <1>10, StripNulsType DEF Decode
  <2> QED
    BY <1>0, <1>10, <2>1, <2>2 DEF Decode, Return
<1>11. CASE UNCHANGED vars
  <2>1. data' = data
    BY <1>11 DEF vars, data
  <2> QED
    BY <1>0, <1>11, <2>1 DEF vars
<1> QED
  BY <1>1, <1>2, <1>3, <1>4, <1>5, <1>6, <1>7, <1>8, <1>9, <1>10, <1>11 DEF Next

(* Every variable of decrypt keeps its type, whatever it is given.         *)
THEOREM DecryptTypeOK == Spec => []TypeOK
<1>1. TypeInv => TypeOK
  BY DEF TypeInv
<1> QED
  BY <1>1, InitTypeInv, NextTypeInv, PTL DEF Spec

(* decrypt never reads outside its data (elgamal.rs:102-145): the slices   *)
(* and the indices of the reader cannot panic, whatever it is given.       *)
THEOREM ReadsStayInside == Spec => []ReadsInside
<1>1. TypeInv => ReadsInside
  BY DEF TypeInv
<1> QED
  BY <1>1, InitTypeInv, NextTypeInv, PTL DEF Spec

-----------------------------------------------------------------------------

(* An input that is what encrypt wrote, or what is left of it, as opposed  *)
(* to one that was changed in the middle.                                  *)
Intact(i) == i.damage \in {"none", "followed", "cut"}

(* The chunks of the message, their ciphertexts, and what was written of   *)
(* the first k of them.                                                    *)
Total(i) == Len(Chunks(i.message))
Encryption(i, k) == ChunkCiphertext(i.message, i.private_key, i.randoms, k)
Layout(i) ==
  CHOOSE written : IsLayout(written, i.message, i.private_key, i.randoms)
End(i, k) == Len(Layout(i)[k])
Length1(i, k) == Len(ToBytes(Encryption(i, k).c1))
Length2(i, k) == Len(ToBytes(Encryption(i, k).c2))

(* s starts with the bytes of the first n chunks, and NULs where the       *)
(* message has ended.                                                      *)
Padded(s, i, n) ==
  /\ Len(s) = 4 * n
  /\ \A p \in 1..4 * n :
       s[p] = IF p <= Len(i.message) THEN i.message[p] ELSE 0

(* What an intact input has in common with what encrypt wrote.             *)
LEMMA IntactFacts ==
  ASSUME NEW i \in Inputs, Intact(i)
  PROVE  /\ Encryptable(i.message, i.private_key, i.randoms)
         /\ IsLayout(Layout(i), i.message, i.private_key, i.randoms)
         /\ Total(i) \in Nat
         /\ Written(i) = Layout(i)[Total(i)]
         /\ Written(i) \in Seq(Byte)
         /\ i.data \in Seq(Byte)
         /\ \A p \in 1..Len(i.data) :
              p <= Len(Written(i)) => i.data[p] = Written(i)[p]
         /\ i.damage = "none" => Len(i.data) = Len(Written(i))
         /\ i.damage = "cut" => Len(i.data) < Len(Written(i))
         /\ i.damage # "cut" => Len(i.data) >= Len(Written(i))
<1>1. Encryptable(i.message, i.private_key, i.randoms)
  <2>1. DOMAIN Chunks(i.message) = 1..Len(Chunks(i.message))
    BY DecryptAssumption, ChunkBytes
  <2> QED
    BY <2>1, DecryptAssumption DEF Encryptable
<1>2. IsLayout(Layout(i), i.message, i.private_key, i.randoms)
  BY <1>1, LayoutExists DEF Layout
<1>3. Total(i) \in Nat
  BY <1>1, ChunkBytes DEF Encryptable, Total
<1>4. Written(i) = Layout(i)[Total(i)]
  BY <1>2 DEF IsLayout, Written, Total
<1>5. Written(i) \in Seq(Byte)
  <2>1. Total(i) \in 0..Total(i)
    BY <1>3
  <2> QED
    BY <1>2, <1>4, <2>1 DEF IsLayout, Total
<1> DEFINE w == Written(i)
           d == i.data
<1>6. d \in Seq(Byte)
  BY DecryptAssumption
<1>7. /\ i.damage = "none" => d = w
      /\ i.damage = "followed" => Len(d) >= Len(w) /\ SubSeq(d, 1, Len(w)) = w
      /\ i.damage = "cut" => Len(d) < Len(w) /\ d = SubSeq(w, 1, Len(d))
      /\ i.damage \in {"none", "followed", "cut"}
  BY DecryptAssumption DEF Intact
<1> HIDE DEF w, d
<1>8. w \in Seq(Byte)
  BY <1>5 DEF w
<1>9. Len(d) \in Nat /\ Len(w) \in Nat
  BY <1>6, <1>8
<1>10. \A p \in 1..Len(d) : p <= Len(w) => d[p] = w[p]
  <2> SUFFICES ASSUME NEW p \in 1..Len(d), p <= Len(w)
               PROVE  d[p] = w[p]
    OBVIOUS
  <2>1. CASE i.damage = "none"
    BY <1>7, <2>1
  <2>2. CASE i.damage = "followed"
    <3>1. SubSeq(d, 1, Len(w))[p] = d[p]
      BY <1>6, <1>7, <1>9, <2>2
    <3> QED
      BY <1>7, <2>2, <3>1
  <2>3. CASE i.damage = "cut"
    <3>1. SubSeq(w, 1, Len(d))[p] = w[p]
      BY <1>7, <1>8, <1>9, <2>3
    <3> QED
      BY <1>7, <2>3, <3>1
  <2> QED
    BY <1>7, <2>1, <2>2, <2>3
<1>11. /\ i.damage = "none" => Len(d) = Len(w)
       /\ i.damage = "cut" => Len(d) < Len(w)
       /\ i.damage # "cut" => Len(d) >= Len(w)
  BY <1>7, <1>9
<1> QED
  BY <1>1, <1>2, <1>3, <1>4, <1>5, <1>6, <1>10, <1>11 DEF w, d

(* The count is that of the chunks, and the first ciphertext follows it.   *)
LEMMA CountFacts ==
  ASSUME NEW i \in Inputs, Intact(i)
  PROVE  /\ End(i, 0) = 4
         /\ End(i, Total(i)) = Len(Written(i))
         /\ Len(Written(i)) >= 4
         /\ Len(i.data) >= 4 => U32(i.data, 0) = Total(i)
<1> DEFINE u == U32Bytes(Total(i))
           w == Written(i)
<1>1. /\ Total(i) \in Nat
      /\ Total(i) < ByteValues * ByteValues * ByteValues * ByteValues
  BY IntactFacts, DecryptAssumption DEF Total
<1>2. u \in Seq(Byte) /\ Len(u) = 4
  BY <1>1, U32BytesType
<1>3. Layout(i)[0] = u
  BY IntactFacts DEF IsLayout, Total
<1>4. Len(u) <= Len(w) /\ \A j \in 1..Len(u) : w[j] = u[j]
  <2>1. 0 \in 0..Len(Chunks(i.message))
    BY <1>1 DEF Total
  <2> QED
    BY <1>3, <2>1, IntactFacts, LayoutPrefix DEF Written
<1>5. Len(w) \in Nat /\ i.data \in Seq(Byte)
  BY IntactFacts
<1>6. ASSUME Len(i.data) >= 4
      PROVE  U32(i.data, 0) = Total(i)
  <2>1. \A p \in 1..Len(i.data) : p <= Len(w) => i.data[p] = w[p]
    BY IntactFacts
  <2> HIDE DEF u, w
  <2>2. \A j \in 1..4 : i.data[0 + j] = u[j]
    BY <1>2, <1>4, <1>5, <1>6, <2>1
  <2> QED
    BY <1>1, <2>2, U32RoundTrip DEF u
<1>7. End(i, 0) = 4
  BY <1>2, <1>3 DEF End
<1>8. End(i, Total(i)) = Len(w)
  BY IntactFacts DEF End
<1> QED
  BY <1>2, <1>4, <1>6, <1>7, <1>8

(* A slice of d that holds the bytes of t is t.                            *)
LEMMA SliceEqual ==
  ASSUME NEW d \in Seq(Byte), NEW t \in Seq(Byte), NEW o \in Nat,
         o + Len(t) <= Len(d),
         \A j \in 1..Len(t) : d[o + j] = t[j]
  PROVE  SubSeq(d, o + 1, o + Len(t)) = t
<1> DEFINE u == SubSeq(d, o + 1, o + Len(t))
<1>1. Len(t) \in Nat
  OBVIOUS
<1>2. u \in Seq(Byte) /\ Len(u) = Len(t)
  BY <1>1
<1>3. \A j \in 1..Len(t) : u[j] = t[j]
  BY <1>1
<1> HIDE DEF u
<1>4. u = t
  BY <1>2, <1>3
<1> QED
  BY <1>4 DEF u

(* What decrypt reads of the k-th ciphertext, as long as data has it.      *)
LEMMA EntryFacts ==
  ASSUME NEW i \in Inputs, Intact(i), NEW k \in 1..Total(i)
  PROVE  LET o == End(i, k - 1)
             l1 == Length1(i, k)
             l2 == Length2(i, k)
             d == i.data
         IN  /\ o \in Nat /\ l1 \in Nat /\ l2 \in Nat
             /\ End(i, k) = o + 8 + l1 + l2
             /\ End(i, k) <= Len(Written(i))
             /\ o + 4 <= Len(d) => U32(d, o) = l1
             /\ o + 4 + l1 <= Len(d) =>
                  FromBytes(SubSeq(d, (o + 4) + 1, (o + 4) + l1))
                    = Encryption(i, k).c1
             /\ o + 8 + l1 <= Len(d) => U32(d, o + 4 + l1) = l2
             /\ o + 8 + l1 + l2 <= Len(d) =>
                  FromBytes(SubSeq(d, (o + 8 + l1) + 1, (o + 8 + l1) + l2))
                    = Encryption(i, k).c2
<1> DEFINE c == Encryption(i, k)
           o == End(i, k - 1)
           t1 == ToBytes(c.c1)
           t2 == ToBytes(c.c2)
           l1 == Len(t1)
           l2 == Len(t2)
           w == Written(i)
           d == i.data
           limit == ByteValues * ByteValues * ByteValues * ByteValues
<1>1. /\ o \in Nat /\ l1 \in Nat /\ l2 \in Nat
      /\ End(i, k) = o + 8 + l1 + l2
      /\ End(i, k) <= Len(w)
      /\ \A j \in 1..4 : w[o + j] = U32Bytes(l1)[j]
      /\ \A j \in 1..l1 : w[o + 4 + j] = t1[j]
      /\ \A j \in 1..4 : w[o + 4 + l1 + j] = U32Bytes(l2)[j]
      /\ \A j \in 1..l2 : w[o + 8 + l1 + j] = t2[j]
  <2>1. /\ Encryptable(i.message, i.private_key, i.randoms)
        /\ IsLayout(Layout(i), i.message, i.private_key, i.randoms)
        /\ k \in 1..Len(Chunks(i.message))
    BY IntactFacts DEF Total
  <2>2. HoldsCiphertext(w, o, c, End(i, k))
    BY <2>1, EntryLayout DEF Encryption, Written, End
  <2> HIDE DEF w, o, c
  <2> QED
    BY <2>2 DEF HoldsCiphertext
<1>2. c.c1 \in 0..Prime - 1 /\ c.c2 \in 0..Prime - 1
  BY IntactFacts, CiphertextType DEF Total, Encryption
<1>3. l1 < limit /\ l2 < limit
  BY <1>2, LengthAssumption
<1>4. FromBytes(t1) = c.c1 /\ FromBytes(t2) = c.c2
  <2> HIDE DEF c
  <2> QED
    BY <1>2, BytesRoundTrip
<1>5. t1 \in Seq(Byte) /\ t2 \in Seq(Byte)
  <2> HIDE DEF c
  <2>1. c.c1 \in Nat /\ c.c2 \in Nat
    BY <1>2, ByteFacts
  <2> QED
    BY <2>1, ToBytesStep
<1>6. /\ d \in Seq(Byte) /\ Len(d) \in Nat
      /\ \A p \in 1..Len(d) : p <= Len(w) => d[p] = w[p]
  BY IntactFacts
<1>7. Len(w) \in Nat
  BY IntactFacts
<1> HIDE DEF c, o, t1, t2, w, d, limit
<1>8. Length1(i, k) = l1 /\ Length2(i, k) = l2
  BY DEF Length1, Length2, t1, t2, c
<1> HIDE DEF l1, l2
<1>9. o \in Nat /\ l1 \in Nat /\ l2 \in Nat
  BY <1>1
<1>10. o + 8 + l1 + l2 <= Len(w)
  BY <1>1
<1>11. ASSUME o + 4 <= Len(d)
       PROVE  U32(d, o) = l1
  <2>1. \A j \in 1..4 : o + j \in 1..Len(d) /\ o + j <= Len(w)
    BY <1>6, <1>7, <1>9, <1>10, <1>11
  <2>2. \A j \in 1..4 : d[o + j] = U32Bytes(l1)[j]
    BY <1>1, <1>6, <2>1
  <2> QED
    BY <1>1, <1>3, <2>2, U32RoundTrip DEF limit
<1>12. ASSUME o + 4 + l1 <= Len(d)
       PROVE  FromBytes(SubSeq(d, (o + 4) + 1, (o + 4) + l1)) = c.c1
  <2> DEFINE a == o + 4
  <2>1. \A j \in 1..l1 : a + j \in 1..Len(d) /\ a + j <= Len(w)
    BY <1>6, <1>7, <1>9, <1>10, <1>12
  <2>2. \A j \in 1..l1 : d[a + j] = t1[j]
    BY <1>1, <1>6, <2>1
  <2>3. a \in Nat /\ a + l1 <= Len(d)
    BY <1>9, <1>12
  <2> HIDE DEF a
  <2>4. SubSeq(d, a + 1, a + l1) = t1
    BY <1>5, <1>6, <2>2, <2>3, SliceEqual DEF l1
  <2> QED
    BY <1>4, <2>4 DEF a
<1>13. ASSUME o + 8 + l1 <= Len(d)
       PROVE  U32(d, o + 4 + l1) = l2
  <2> DEFINE a == o + 4 + l1
  <2>1. \A j \in 1..4 : a + j \in 1..Len(d) /\ a + j <= Len(w)
    BY <1>6, <1>7, <1>9, <1>10, <1>13
  <2>2. \A j \in 1..4 : d[a + j] = U32Bytes(l2)[j]
    BY <1>1, <1>6, <2>1
  <2>3. a \in Nat
    BY <1>9
  <2> HIDE DEF a
  <2>4. U32(d, a) = l2
    BY <1>1, <1>3, <2>2, <2>3, U32RoundTrip DEF limit
  <2> QED
    BY <2>4 DEF a
<1>14. ASSUME o + 8 + l1 + l2 <= Len(d)
       PROVE  FromBytes(SubSeq(d, (o + 8 + l1) + 1, (o + 8 + l1) + l2)) = c.c2
  <2> DEFINE a == o + 8 + l1
  <2>1. \A j \in 1..l2 : a + j \in 1..Len(d) /\ a + j <= Len(w)
    BY <1>6, <1>7, <1>9, <1>10, <1>14
  <2>2. \A j \in 1..l2 : d[a + j] = t2[j]
    BY <1>1, <1>6, <2>1
  <2>3. a \in Nat /\ a + l2 <= Len(d)
    BY <1>9, <1>14
  <2> HIDE DEF a
  <2>4. SubSeq(d, a + 1, a + l2) = t2
    BY <1>5, <1>6, <2>2, <2>3, SliceEqual DEF l2
  <2> QED
    BY <1>4, <2>4 DEF a
<1> QED
  BY <1>1, <1>8, <1>11, <1>12, <1>13, <1>14 DEF o, d, w, c

(* A ciphertext of an intact input decrypts to the chunk it was made from. *)
LEMMA EntryDecrypts ==
  ASSUME NEW i \in Inputs, Intact(i), NEW k \in 1..Total(i)
  PROVE  DecryptNumber(i.private_key, Encryption(i, k)) =
           {Chunks(i.message)[k]}
<1> DEFINE m == Chunks(i.message)[k]
           r == i.randoms[k]
           n == i.private_key.private_key
<1>1. Encryptable(i.message, i.private_key, i.randoms)
  BY IntactFacts
<1>2. m \in 0..Prime - 1
  <2> DEFINE S == 0..Prime - 1
             c == Chunks(i.message)
  <2>1. c \in Seq(S) /\ k \in 1..Len(c)
    BY <1>1, ChunkBytes DEF Encryptable, Total
  <2> HIDE DEF S, c
  <2>2. c[k] \in S
    BY <2>1
  <2> QED
    BY <2>2 DEF S, c
<1>3. r \in Nat /\ n \in Nat /\ i.private_key = PrivateKeyFrom(n)
  BY <1>1 DEF Encryptable, Total
<1>4. Encryption(i, k) = EncryptNumber(i.private_key, m, r)
  BY DEF Encryption, ChunkCiphertext
<1> HIDE DEF m, r, n
<1>5. DecryptNumber(PrivateKeyFrom(n), EncryptNumber(PrivateKeyFrom(n), m, r))
        = {m}
  BY <1>2, <1>3, DecryptsToMessage
<1> QED
  BY <1>3, <1>4, <1>5 DEF m

-----------------------------------------------------------------------------

(* While decrypt reads: k is the ciphertext it is at, the ones before it   *)
(* have been read as they were written, and offset is where k says.        *)
ReadingInv ==
  LET k == Total(input) - left + 1
  IN  /\ left \in 0..Total(input)
      /\ bytes = <<>>
      /\ outcome = "none"
      /\ Len(ciphertexts) = k - 1
      /\ \A j \in 1..k - 1 : ciphertexts[j] = Encryption(input, j)
      /\ at = "entry" => offset = End(input, k - 1)
      /\ at = "c1" =>
           /\ offset = End(input, k - 1) + 4
           /\ length = Length1(input, k)
      /\ at = "c2_len" =>
           /\ offset = End(input, k - 1) + 4 + Length1(input, k)
           /\ c1 = Encryption(input, k).c1
      /\ at = "c2" =>
           /\ offset = End(input, k - 1) + 8 + Length1(input, k)
           /\ length = Length2(input, k)
           /\ c1 = Encryption(input, k).c1

(* While it decrypts: everything has been read, the first n chunks are     *)
(* decrypted, none of them zero, and the ciphertexts of the others left.   *)
DecryptingInv ==
  LET n == Total(input) - Len(ciphertexts)
  IN  /\ input.damage # "cut"
      /\ offset = Len(Written(input))
      /\ outcome = "none"
      /\ n \in Nat
      /\ \A j \in 1..Len(ciphertexts) :
           ciphertexts[j] = Encryption(input, n + j)
      /\ \A j \in 1..n : Chunks(input.message)[j] # 0
      /\ Padded(bytes, input, n)

(* What it returns: the message without its trailing NULs, or, once it has *)
(* a chunk of nothing but NULs, a panic.                                   *)
ResultInv ==
  (at = "done" /\ input.damage \in {"none", "followed"}) =>
    IF \E k \in DOMAIN Chunks(input.message) : Chunks(input.message)[k] = 0
    THEN outcome = "panic"
    ELSE outcome = "ok" /\ bytes = StripNuls(input.message)

(* What is known of an intact input at every point of decrypt.             *)
MessageInv ==
  Intact(input) =>
    /\ at = "count" => bytes = <<>> /\ ciphertexts = <<>> /\ outcome = "none"
    /\ at \in {"entry", "c1", "c2_len", "c2"} => ReadingInv
    /\ at = "decrypt" => DecryptingInv
    /\ at = "done" => TruncationRefused /\ ResultInv

(* Where decrypt is among the ciphertexts of an intact input.              *)
LEMMA ReadingFacts ==
  ASSUME TypeInv, Intact(input), ReadingInv
  PROVE  /\ Total(input) \in Nat
         /\ Total(input) - left + 1 \in Nat
         /\ left # 0 => Total(input) - left + 1 \in 1..Total(input)
         /\ data \in Seq(Byte) /\ Len(data) \in Nat
         /\ input.data = data
         /\ input \in Inputs
<1>1. input \in Inputs /\ data \in Seq(Byte) /\ input.data = data
  BY DEF TypeInv, TypeOK, data
<1>2. Total(input) \in Nat /\ left \in 0..Total(input)
  BY <1>1, IntactFacts DEF ReadingInv
<1>3. Len(data) \in Nat
  BY <1>1
<1> QED
  BY <1>1, <1>2, <1>3

(* Before the count is read nothing is known but that nothing is there.    *)
LEMMA InitMessageInv == Init => MessageInv
  BY DEF Init, MessageInv

(* The count of an intact input is the count of the chunks.                *)
LEMMA ReadCountStep ==
  ASSUME TypeInv, MessageInv, Intact(input), ReadCount
  PROVE  ReadingInv' /\ at' = "entry"
<1>1. input' = input /\ at' = "entry" /\ offset' = 4
  BY DEF ReadCount
<1>2. /\ bytes' = <<>> /\ ciphertexts' = <<>> /\ outcome' = "none"
  BY DEF ReadCount, MessageInv
<1>3. input \in Inputs
  BY DEF TypeInv
<1>4. left' = Total(input) /\ Total(input) \in Nat
  BY <1>3, CountFacts, IntactFacts DEF ReadCount, data
<1>5. End(input, 0) = 4
  BY <1>3, CountFacts
<1>6. (Total(input) - left + 1)' = 1
  BY <1>1, <1>4
<1>7. (Len(ciphertexts) = 0)'
  BY <1>2
<1>8. (Total(input) - left + 1)' - 1 = 0
  BY <1>6
<1>9. left' \in 0..Total(input')
  BY <1>1, <1>4
<1> QED
  BY <1>1, <1>2, <1>5, <1>6, <1>7, <1>8, <1>9 DEF ReadingInv

(* Nothing is missing of an intact input that was not cut.                 *)
LEMMA TooShortStep ==
  ASSUME TypeInv, MessageInv, Intact(input), TooShort
  PROVE  input.damage = "cut"
<1> SUFFICES ASSUME input.damage # "cut"
             PROVE  FALSE
  OBVIOUS
<1>1. input \in Inputs /\ input.data = data
  BY DEF TypeInv, data
<1>2. Len(data) >= Len(Written(input)) /\ Len(data) \in Nat
  BY <1>1, IntactFacts
<1>3. Len(Written(input)) >= 4 /\ Len(Written(input)) \in Nat
  BY <1>1, CountFacts, IntactFacts
<1>4. at # "count"
  BY <1>2, <1>3 DEF TooShort, Short
<1>5. ReadingInv /\ left # 0
  BY <1>4 DEF TooShort, Short, MessageInv, TypeInv
<1> DEFINE k == Total(input) - left + 1
           o == End(input, k - 1)
           l1 == Length1(input, k)
           l2 == Length2(input, k)
<1>6. k \in 1..Total(input)
  BY <1>5, ReadingFacts
<1>7. /\ o \in Nat /\ l1 \in Nat /\ l2 \in Nat
      /\ o + 8 + l1 + l2 <= Len(Written(input))
  <2> HIDE DEF k
  <2> QED
    BY <1>1, <1>6, EntryFacts
<1>8. /\ at = "entry" => offset = o
      /\ at = "c1" => offset = o + 4 /\ length = l1
      /\ at = "c2" => offset = o + 8 + l1 /\ length = l2
  BY <1>5 DEF ReadingInv
<1> HIDE DEF o, l1, l2
<1>9. CASE at = "entry"
  BY <1>2, <1>3, <1>7, <1>8, <1>9 DEF TooShort, Short
<1>10. CASE at = "c1"
  BY <1>2, <1>3, <1>7, <1>8, <1>10 DEF TooShort, Short
<1>11. CASE at = "c2"
  BY <1>2, <1>3, <1>7, <1>8, <1>11 DEF TooShort, Short
<1> QED
  BY <1>4, <1>9, <1>10, <1>11 DEF TooShort, Short

(* The length of the first number.                                         *)
LEMMA ReadC1LenStep ==
  ASSUME TypeInv, Intact(input), ReadingInv, ReadC1Len
  PROVE  ReadingInv' /\ at' = "c1"
<1> DEFINE k == Total(input) - left + 1
           o == End(input, k - 1)
           l1 == Length1(input, k)
<1>1. /\ at = "entry" /\ left # 0
      /\ length' = U32(data, offset) /\ offset' = offset + 4 /\ at' = "c1"
      /\ UNCHANGED <<input, left, c1, ciphertexts, bytes, outcome>>
  BY DEF ReadC1Len
<1>2. offset + 8 <= Len(data)
  <2>1. /\ ~(offset + 8 > Len(data))
        /\ offset \in Nat
    BY DEF ReadC1Len, Short, TypeInv, TypeOK
  <2> QED
    BY <2>1, ReadingFacts
<1>3. offset = o
  BY <1>1 DEF ReadingInv
<1>4. k \in 1..Total(input) /\ input \in Inputs
  BY <1>1, ReadingFacts
<1>5. o \in Nat /\ (o + 4 <= Len(data) => U32(data, o) = l1)
  <2> HIDE DEF k
  <2> QED
    BY <1>4, EntryFacts DEF data
<1>6. length' = l1 /\ offset' = o + 4
  <2> HIDE DEF o, l1
  <2>1. Len(data) \in Nat
    BY ReadingFacts
  <2> QED
    BY <1>1, <1>2, <1>3, <1>5, <2>1
<1> QED
  BY <1>1, <1>6 DEF ReadingInv

(* The first number.                                                       *)
LEMMA ReadC1Step ==
  ASSUME TypeInv, Intact(input), ReadingInv, ReadC1
  PROVE  ReadingInv' /\ at' = "c2_len"
<1> DEFINE k == Total(input) - left + 1
           o == End(input, k - 1)
           l1 == Length1(input, k)
           c == Encryption(input, k)
<1>1. /\ at = "c1" /\ left # 0
      /\ c1' = FromBytes(SubSeq(data, offset + 1, offset + length))
      /\ offset' = offset + length /\ at' = "c2_len"
      /\ UNCHANGED <<input, left, length, ciphertexts, bytes, outcome>>
  BY DEF ReadC1, TypeInv
<1>2. ~(offset + length + 4 > Len(data))
  BY DEF ReadC1, Short
<1>3. offset = o + 4 /\ length = l1
  BY <1>1 DEF ReadingInv
<1>4. k \in 1..Total(input) /\ input \in Inputs /\ Len(data) \in Nat
  BY <1>1, ReadingFacts
<1>5. /\ o \in Nat /\ l1 \in Nat
      /\ o + 4 + l1 <= Len(data) =>
           FromBytes(SubSeq(data, (o + 4) + 1, (o + 4) + l1)) = c.c1
  <2> HIDE DEF k
  <2> QED
    BY <1>4, EntryFacts DEF data
<1>6. o + 4 + l1 <= Len(data)
  <2> HIDE DEF o, l1
  <2> QED
    BY <1>2, <1>3, <1>4, <1>5
<1>7. c1' = c.c1 /\ offset' = o + 4 + l1
  BY <1>1, <1>3, <1>5, <1>6
<1> QED
  BY <1>1, <1>7 DEF ReadingInv

(* The length of the second number.                                        *)
LEMMA ReadC2LenStep ==
  ASSUME TypeInv, Intact(input), ReadingInv, ReadC2Len
  PROVE  ReadingInv' /\ at' = "c2"
<1> DEFINE k == Total(input) - left + 1
           o == End(input, k - 1)
           l1 == Length1(input, k)
           l2 == Length2(input, k)
<1>1. /\ at = "c2_len" /\ left # 0
      /\ length' = U32(data, offset) /\ offset' = offset + 4 /\ at' = "c2"
      /\ UNCHANGED <<input, left, c1, ciphertexts, bytes, outcome>>
  BY DEF ReadC2Len, TypeInv
<1>2. offset + 4 <= Len(data)
  BY <1>1 DEF TypeInv, ReadsInside
<1>3. offset = o + 4 + l1 /\ c1 = Encryption(input, k).c1
  BY <1>1 DEF ReadingInv
<1>4. k \in 1..Total(input) /\ input \in Inputs /\ Len(data) \in Nat
  BY <1>1, ReadingFacts
<1>5. /\ o \in Nat /\ l1 \in Nat
      /\ o + 8 + l1 <= Len(data) => U32(data, o + 4 + l1) = l2
  <2> HIDE DEF k
  <2> QED
    BY <1>4, EntryFacts DEF data
<1>6. length' = l2 /\ offset' = o + 8 + l1
  <2> HIDE DEF o, l1, l2
  <2>1. o + 8 + l1 <= Len(data) /\ (o + 4 + l1) + 4 = o + 8 + l1
    BY <1>2, <1>3, <1>4, <1>5
  <2> QED
    BY <1>1, <1>3, <1>5, <2>1
<1> QED
  BY <1>1, <1>3, <1>6 DEF ReadingInv

(* The second number, and the ciphertext is complete.                      *)
LEMMA ReadC2Step ==
  ASSUME TypeInv, Intact(input), ReadingInv, ReadC2
  PROVE  ReadingInv' /\ at' = "entry"
<1> DEFINE k == Total(input) - left + 1
           o == End(input, k - 1)
           l1 == Length1(input, k)
           l2 == Length2(input, k)
           c == Encryption(input, k)
           c2 == FromBytes(SubSeq(data, offset + 1, offset + length))
<1>1. /\ at = "c2" /\ left # 0
      /\ ciphertexts' = Append(ciphertexts, [c1 |-> c1, c2 |-> c2])
      /\ offset' = offset + length /\ left' = left - 1 /\ at' = "entry"
      /\ UNCHANGED <<input, length, c1, bytes, outcome>>
  BY DEF ReadC2, TypeInv
<1>2. ~(offset + length > Len(data))
  BY <1>1 DEF ReadC2, Short
<1>3. offset = o + 8 + l1 /\ length = l2 /\ c1 = c.c1
  BY <1>1 DEF ReadingInv
<1>4. k \in 1..Total(input) /\ input \in Inputs /\ Len(data) \in Nat
  BY <1>1, ReadingFacts
<1>5. /\ o \in Nat /\ l1 \in Nat /\ l2 \in Nat
      /\ End(input, k) = o + 8 + l1 + l2
      /\ o + 8 + l1 + l2 <= Len(data) =>
           FromBytes(SubSeq(data, (o + 8 + l1) + 1, (o + 8 + l1) + l2)) = c.c2
  <2> HIDE DEF k
  <2> QED
    BY <1>4, EntryFacts DEF data
<1>6. o + 8 + l1 + l2 <= Len(data)
  <2> HIDE DEF o, l1, l2
  <2> QED
    BY <1>2, <1>3, <1>4, <1>5
<1>7. c2 = c.c2 /\ offset' = End(input, k)
  BY <1>1, <1>3, <1>5, <1>6
<1>8. [c1 |-> c1, c2 |-> c2] = c
  <2>1. c = [c1 |-> c.c1, c2 |-> c.c2]
    <3> HIDE DEF k
    <3> QED
      BY <1>4, IntactFacts, CiphertextType DEF Encryption, Total
  <2> HIDE DEF c, c2
  <2> QED
    BY <1>3, <1>7, <2>1
<1>9. /\ left \in 0..Total(input) /\ Total(input) \in Nat
      /\ left' \in 0..Total(input)
      /\ Total(input) - left' + 1 = k + 1
      /\ (k + 1) - 1 = k
  <2>1. left \in 0..Total(input) /\ Total(input) \in Nat
    BY ReadingFacts DEF ReadingInv
  <2> QED
    BY <1>1, <2>1
<1>10. /\ Len(ciphertexts) = k - 1
       /\ \A j \in 1..k - 1 : ciphertexts[j] = Encryption(input, j)
       /\ bytes = <<>> /\ outcome = "none"
  BY DEF ReadingInv
<1>11. /\ Len(ciphertexts') = k
       /\ \A j \in 1..k : ciphertexts'[j] = Encryption(input, j)
  <2>1. ciphertexts \in Seq([c1 : Nat, c2 : Nat])
    BY DEF TypeInv, TypeOK
  <2>2. ciphertexts' = Append(ciphertexts, c)
    BY <1>1, <1>8
  <2>3. k \in Nat /\ k - 1 \in Nat
    BY <1>4, <1>9
  <2> HIDE DEF k, c
  <2>4. Len(ciphertexts') = k
    BY <1>10, <2>1, <2>2, <2>3
  <2>5. \A j \in 1..k - 1 : ciphertexts'[j] = ciphertexts[j]
    BY <1>10, <2>1, <2>2, <2>3
  <2>6. ciphertexts'[k] = c
    BY <1>10, <2>1, <2>2, <2>3
  <2>7. \A j \in 1..k : j = k \/ j \in 1..k - 1
    BY <2>3
  <2> QED
    BY <1>10, <2>4, <2>5, <2>6, <2>7 DEF c
<1> HIDE DEF k, c, c2
<1> QED
  BY <1>1, <1>7, <1>9, <1>10, <1>11 DEF ReadingInv

(* Decrypting starts when all of what encrypt wrote has been read.         *)
LEMMA EndReadingStep ==
  ASSUME TypeInv, Intact(input), ReadingInv, EndReading
  PROVE  DecryptingInv' /\ at' = "decrypt"
<1> DEFINE m == Total(input)
<1>1. /\ at = "entry" /\ left = 0 /\ at' = "decrypt"
      /\ UNCHANGED <<input, offset, left, length, c1, ciphertexts, bytes, outcome>>
  BY DEF EndReading
<1>2. /\ m \in Nat /\ input \in Inputs
      /\ data \in Seq(Byte) /\ Len(data) \in Nat /\ input.data = data
  BY ReadingFacts
<1>3. m - left + 1 = m + 1 /\ (m + 1) - 1 = m
  BY <1>1, <1>2
<1>4. /\ bytes = <<>> /\ outcome = "none"
      /\ Len(ciphertexts) = m
      /\ \A j \in 1..m : ciphertexts[j] = Encryption(input, j)
      /\ offset = End(input, m)
  BY <1>1, <1>3 DEF ReadingInv
<1>5. offset = Len(Written(input))
  BY <1>2, <1>4, CountFacts
<1>6. input.damage # "cut"
  <2>1. offset <= Len(data)
    BY DEF TypeInv, ReadsInside
  <2>2. Written(input) \in Seq(Byte)
    BY <1>2, IntactFacts
  <2>3. Len(Written(input)) \in Nat
    BY <2>2
  <2> QED
    BY <1>2, <1>5, <2>1, <2>3, IntactFacts
<1>7. m - Len(ciphertexts) = 0
  BY <1>2, <1>4
<1>8. \A j \in 1..m : ciphertexts[j] = Encryption(input, 0 + j)
  <2>1. \A j \in 1..m : 0 + j = j
    BY <1>2
  <2> QED
    BY <1>4, <2>1
<1>9. Padded(<<>>, input, 0)
  BY DEF Padded
<1> HIDE DEF m
<1>10. /\ input.damage # "cut"
       /\ offset = Len(Written(input))
       /\ outcome = "none"
       /\ \A j \in 1..Len(ciphertexts) :
            ciphertexts[j] = Encryption(input, 0 + j)
       /\ Padded(bytes, input, 0)
  BY <1>4, <1>5, <1>6, <1>8, <1>9
<1>11. DecryptingInv
  BY <1>7, <1>10 DEF DecryptingInv, m
<1> QED
  BY <1>1, <1>11 DEF DecryptingInv

(* What DecryptingInv says of the next ciphertext.                         *)
LEMMA DecryptingFacts ==
  ASSUME TypeInv, Intact(input), DecryptingInv, ciphertexts # <<>>
  PROVE  LET k == Total(input) - Len(ciphertexts) + 1
         IN  /\ k \in 1..Total(input)
             /\ k \in DOMAIN Chunks(input.message)
             /\ DecryptNumber(input.private_key, Head(ciphertexts))
                   = {Chunks(input.message)[k]}
<1> DEFINE n == Total(input) - Len(ciphertexts)
           k == n + 1
<1>1. input \in Inputs
  BY DEF TypeInv
<1>2. Total(input) \in Nat
  BY <1>1, IntactFacts
<1>3. Len(ciphertexts) \in Nat \ {0} /\ Head(ciphertexts) = ciphertexts[1]
  <2>1. ciphertexts \in Seq([c1 : Nat, c2 : Nat])
    BY DEF TypeInv, TypeOK
  <2> QED
    BY <2>1
<1>4. n \in Nat
  BY DEF DecryptingInv
<1>5. k \in 1..Total(input)
  BY <1>2, <1>3, <1>4
<1>6. Head(ciphertexts) = Encryption(input, k)
  BY <1>3 DEF DecryptingInv
<1>7. k \in DOMAIN Chunks(input.message)
  <2>1. DOMAIN Chunks(input.message) = 1..Total(input)
    BY <1>1, DecryptAssumption, ChunkBytes DEF Total
  <2> QED
    BY <1>5, <2>1
<1> HIDE DEF k
<1>8. DecryptNumber(input.private_key, Encryption(input, k))
        = {Chunks(input.message)[k]}
  BY <1>1, <1>5, EntryDecrypts
<1> QED
  BY <1>5, <1>6, <1>7, <1>8 DEF k

(* A chunk is decrypted to its four bytes, or decrypt panics on it.        *)
LEMMA DecryptChunkStep ==
  ASSUME TypeInv, Intact(input), at = "decrypt", DecryptingInv, DecryptChunk
  PROVE  \/ DecryptingInv' /\ at' = "decrypt"
         \/ TruncationRefused' /\ ResultInv' /\ at' = "done"
<1> DEFINE n == Total(input) - Len(ciphertexts)
           k == n + 1
           m == Chunks(input.message)[k]
<1>1. input \in Inputs /\ input.message \in Seq(Byte)
  BY DecryptAssumption DEF TypeInv
<1>2. Total(input) \in Nat
  BY <1>1, IntactFacts
<1>3. /\ k \in 1..Total(input)
      /\ k \in DOMAIN Chunks(input.message)
      /\ DecryptNumber(input.private_key, Head(ciphertexts)) = {m}
  BY DecryptingFacts DEF DecryptChunk
<1>4. UNCHANGED <<input, offset, left, length, c1>>
  BY DEF DecryptChunk
<1>5. CASE m = 0
  <2>1. at' = "done" /\ outcome' = "panic"
    BY <1>3, <1>5 DEF DecryptChunk, Return
  <2>2. \E j \in DOMAIN Chunks(input.message) : Chunks(input.message)[j] = 0
    BY <1>3, <1>5
  <2>3. TruncationRefused'
    BY <1>4 DEF DecryptingInv, TruncationRefused
  <2>4. ResultInv'
    BY <1>4, <2>1, <2>2 DEF ResultInv
  <2> QED
    BY <2>1, <2>3, <2>4
<1>6. CASE m # 0
  <2>1. /\ bytes' = bytes \o U32Bytes(m)
        /\ ciphertexts' = Tail(ciphertexts)
        /\ at' = "decrypt" /\ outcome' = "none"
    BY <1>3, <1>6 DEF DecryptChunk, DecryptingInv
  <2>2. /\ ciphertexts \in Seq([c1 : Nat, c2 : Nat]) /\ ciphertexts # <<>>
        /\ bytes \in Seq(Byte)
    BY DEF DecryptChunk, TypeInv, TypeOK
  <2>3. /\ Len(ciphertexts) \in Nat
        /\ Len(ciphertexts') = Len(ciphertexts) - 1
        /\ \A j \in 1..Len(ciphertexts) - 1 :
             ciphertexts'[j] = ciphertexts[j + 1]
    BY <2>1, <2>2
  <2>4. n \in Nat
    BY DEF DecryptingInv
  <2>5. Total(input) - Len(ciphertexts') = k
    BY <1>2, <2>3, <2>4
  <2>6. \A j \in 1..Len(ciphertexts') : ciphertexts'[j] = Encryption(input, k + j)
    <3> SUFFICES ASSUME NEW j \in 1..Len(ciphertexts')
                 PROVE  ciphertexts'[j] = Encryption(input, k + j)
      OBVIOUS
    <3>1. j + 1 \in 1..Len(ciphertexts) /\ n + (j + 1) = k + j
      BY <2>3, <2>4
    <3>2. ciphertexts[j + 1] = Encryption(input, n + (j + 1))
      BY <3>1 DEF DecryptingInv
    <3> QED
      BY <2>3, <3>1, <3>2
  <2>7. \A j \in 1..k : Chunks(input.message)[j] # 0
    <3>1. \A j \in 1..k : j \in 1..n \/ j = k
      BY <2>4
    <3> QED
      BY <1>6, <3>1 DEF DecryptingInv
  <2>8. Padded(bytes', input, k)
    <3> DEFINE u == U32Bytes(m)
               s == input.message
    <3>1. u \in Seq(Byte) /\ Len(u) = 4
      <4>1. Chunks(s) \in Seq(0..Prime - 1) /\ k \in 1..Len(Chunks(s))
        BY <1>1, <1>3, ChunkBytes DEF Total
      <4>2. m \in 0..Prime - 1
        <5> DEFINE S == 0..Prime - 1
                   c == Chunks(s)
        <5>1. c \in Seq(S) /\ k \in 1..Len(c)
          BY <4>1
        <5>2. m = c[k]
          OBVIOUS
        <5> HIDE DEF S, c, k, m
        <5>3. c[k] \in S
          BY <5>1
        <5> QED
          BY <5>2, <5>3 DEF S
      <4>3. m \in Nat
        <5> HIDE DEF m
        <5> QED
          BY <4>2, ByteFacts
      <4> HIDE DEF m
      <4> QED
        BY <4>3, U32BytesType
    <3>2. ASSUME NEW q \in 1..4
          PROVE  u[q] = IF 4 * n + q <= Len(s) THEN s[4 * n + q] ELSE 0
      <4>1. k - 1 = n
        BY <2>4
      <4>2. k \in 1..Len(Chunks(s))
        BY <1>3 DEF Total
      <4> HIDE DEF k
      <4>3. u[q] = IF 4 * (k - 1) + q <= Len(s) THEN s[4 * (k - 1) + q] ELSE 0
        BY <1>1, <4>2, ChunkBytes
      <4> QED
        BY <4>1, <4>3
    <3>3. /\ Len(bytes) = 4 * n
          /\ \A p \in 1..4 * n : bytes[p] = IF p <= Len(s) THEN s[p] ELSE 0
      BY DEF DecryptingInv, Padded
    <3> HIDE DEF u, s, n
    <3>4. /\ Len(bytes') = 4 * n + 4
          /\ \A p \in 1..4 * n : bytes'[p] = bytes[p]
          /\ \A q \in 1..4 : bytes'[4 * n + q] = u[q]
      <4>1. bytes' = bytes \o u
        BY <2>1 DEF u
      <4>2. TwoParts(bytes \o u, bytes, u, Byte)
        BY <2>2, <3>1, ConcatParts
      <4> QED
        BY <3>1, <3>3, <4>1, <4>2 DEF TwoParts
    <3>5. ASSUME NEW p \in 1..4 * k
          PROVE  bytes'[p] = IF p <= Len(s) THEN s[p] ELSE 0
      <4>1. CASE p <= 4 * n
        <5>1. p \in 1..4 * n
          BY <2>4, <4>1
        <5> QED
          BY <3>3, <3>4, <5>1
      <4>2. CASE p > 4 * n
        <5>1. p - 4 * n \in 1..4 /\ 4 * n + (p - 4 * n) = p
          BY <2>4, <4>2
        <5> QED
          BY <3>2, <3>4, <5>1
      <4> QED
        BY <2>4, <4>1, <4>2
    <3>6. 4 * n + 4 = 4 * k
      BY <2>4
    <3> QED
      BY <3>4, <3>5, <3>6 DEF Padded, s
  <2>9. k \in Nat
    BY <2>4
  <2>10. input.damage # "cut" /\ offset = Len(Written(input))
    BY DEF DecryptingInv
  <2> HIDE DEF k, n
  <2>11. Total(input') - Len(ciphertexts') = k
    BY <1>4, <2>5
  <2>12. Padded(bytes', input', k)
    BY <1>4, <2>8
  <2>13. \A j \in 1..Len(ciphertexts') :
           ciphertexts'[j] = Encryption(input', k + j)
    BY <1>4, <2>6
  <2>14. \A j \in 1..k : Chunks(input'.message)[j] # 0
    BY <1>4, <2>7
  <2>15. input'.damage # "cut" /\ offset' = Len(Written(input'))
    BY <1>4, <2>10
  <2>16. DecryptingInv'
    BY <2>1, <2>9, <2>11, <2>12, <2>13, <2>14, <2>15 DEF DecryptingInv
  <2> QED
    BY <2>1, <2>16
<1> QED
  BY <1>5, <1>6

(* Every ciphertext of an intact input has an inverse: decrypt never calls *)
(* one of them invalid.                                                    *)
LEMMA AlwaysInvertible ==
  ASSUME TypeInv, Intact(input), DecryptingInv, NotInvertible
  PROVE  FALSE
<1>1. /\ ciphertexts # <<>>
      /\ DecryptNumber(input.private_key, Head(ciphertexts)) = {}
  BY DEF NotInvertible
<1>2. PICK m : DecryptNumber(input.private_key, Head(ciphertexts)) = {m}
  BY <1>1, DecryptingFacts
<1> QED
  BY <1>1, <1>2

-----------------------------------------------------------------------------

(* There is one place to cut.                                              *)
LEMMA StripNulsAt ==
  ASSUME NEW s \in Seq(Byte), NEW n \in 0..Len(s),
         \A p \in n + 1..Len(s) : s[p] = 0,
         n > 0 => s[n] # 0
  PROVE  StripNuls(s) = SubSeq(s, 1, n)
<1>1. PICK m \in 0..Len(s) :
        /\ \A p \in m + 1..Len(s) : s[p] = 0
        /\ m > 0 => s[m] # 0
        /\ StripNuls(s) = SubSeq(s, 1, m)
  BY StripNulsCut
<1>2. ~(m < n)
  <2> SUFFICES ASSUME m < n
               PROVE  FALSE
    OBVIOUS
  <2>1. n \in m + 1..Len(s) /\ n > 0
    OBVIOUS
  <2> QED
    BY <1>1, <2>1
<1>3. ~(n < m)
  <2> SUFFICES ASSUME n < m
               PROVE  FALSE
    OBVIOUS
  <2>1. m \in n + 1..Len(s) /\ m > 0
    OBVIOUS
  <2> QED
    BY <1>1, <2>1
<1>4. m = n
  BY <1>2, <1>3
<1> QED
  BY <1>1, <1>4

(* All chunks decrypted, the padding is gone with the trailing NULs of the *)
(* message.                                                                *)
LEMMA StripNulsPadded ==
  ASSUME NEW i \in Inputs, NEW s \in Seq(Byte), Padded(s, i, Total(i))
  PROVE  StripNuls(s) = StripNuls(i.message)
<1> DEFINE t == i.message
<1>1. t \in Seq(Byte)
  BY DecryptAssumption
<1>2. Total(i) \in Nat /\ Len(t) <= 4 * Total(i) /\ Len(t) \in Nat
  BY <1>1, ChunkBytes DEF Total
<1>3. /\ Len(s) = 4 * Total(i)
      /\ \A p \in 1..Len(s) : s[p] = IF p <= Len(t) THEN t[p] ELSE 0
  BY DEF Padded
<1> HIDE DEF t
<1>4. PICK n \in 0..Len(t) :
        /\ \A p \in n + 1..Len(t) : t[p] = 0
        /\ n > 0 => t[n] # 0
        /\ StripNuls(t) = SubSeq(t, 1, n)
  BY <1>1, StripNulsCut
<1>5. n \in 0..Len(s)
  BY <1>2, <1>3
<1>6. ASSUME NEW p \in n + 1..Len(s)
      PROVE  s[p] = 0
  <2>1. p \in 1..Len(s) /\ (p <= Len(t) => p \in n + 1..Len(t))
    BY <1>2, <1>5
  <2> QED
    BY <1>3, <1>4, <2>1
<1>7. n > 0 => s[n] # 0
  <2>1. n > 0 => n \in 1..Len(s) /\ n <= Len(t)
    BY <1>2, <1>5
  <2> QED
    BY <1>3, <1>4, <2>1
<1>8. StripNuls(s) = SubSeq(s, 1, n)
  BY <1>5, <1>6, <1>7, StripNulsAt
<1>9. SubSeq(s, 1, n) = SubSeq(t, 1, n)
  <2> DEFINE u == SubSeq(s, 1, n)
             v == SubSeq(t, 1, n)
  <2>1. u \in Seq(Byte) /\ Len(u) = n /\ v \in Seq(Byte) /\ Len(v) = n
    BY <1>1, <1>2, <1>5
  <2>2. \A p \in 1..n : p \in 1..Len(s) /\ p <= Len(t)
    BY <1>2, <1>5
  <2>3. \A p \in 1..n : u[p] = s[p] /\ v[p] = t[p]
    BY <1>1, <1>2, <1>5
  <2>4. \A p \in 1..n : u[p] = v[p]
    BY <1>3, <2>2, <2>3
  <2> HIDE DEF u, v
  <2>5. u = v
    BY <2>1, <2>4
  <2> QED
    BY <2>5 DEF u, v
<1> QED
  BY <1>4, <1>8, <1>9 DEF t

(* A string that loses its trailing NULs loses no part of a character.     *)
LEMMA StripNulsUtf8 ==
  ASSUME NEW s \in Seq(Byte), IsUtf8(s)
  PROVE  IsUtf8(StripNuls(s))
<1>1. PICK n \in 0..Len(s) :
        /\ \A p \in n + 1..Len(s) : s[p] = 0
        /\ StripNuls(s) = SubSeq(s, 1, n)
  BY StripNulsCut
<1> DEFINE u == SubSeq(s, 1, n)
<1>2. u \in Seq(Byte) /\ Len(u) = n /\ \A p \in 1..n : u[p] = s[p]
  OBVIOUS
<1>3. n \in Nat /\ Len(s) \in Nat /\ n <= Len(s)
  OBVIOUS
<1>4. StripNuls(s) = u
  BY <1>1
<1> HIDE DEF u
<1>5. u # <<>> => u[1] # 3
  <2>1. u # <<>> => 1 \in 1..n /\ s # <<>>
    BY <1>2, <1>3
  <2> QED
    BY <1>2, <2>1 DEF IsUtf8
<1>6. ASSUME NEW p \in 1..n
      PROVE  u[p] = 2 <=> p < n /\ u[p + 1] = 3
  <2>1. p \in 1..Len(s)
    BY <1>3
  <2>2. s[p] = 2 <=> p < Len(s) /\ s[p + 1] = 3
    BY <2>1 DEF IsUtf8
  <2>3. u[p] = s[p]
    BY <1>2
  <2>4. CASE p < n
    <3>1. p + 1 \in 1..n /\ p < Len(s)
      BY <1>3, <2>4
    <3>2. u[p + 1] = s[p + 1]
      BY <1>2, <3>1
    <3> QED
      BY <2>2, <2>3, <2>4, <3>1, <3>2
  <2>5. CASE p = n
    <3>1. p < Len(s) => p + 1 \in n + 1..Len(s)
      BY <1>3, <2>5
    <3>2. ~(p < Len(s) /\ s[p + 1] = 3)
      BY <1>1, <3>1
    <3> QED
      BY <2>2, <2>3, <2>5, <3>2
  <2> QED
    BY <1>3, <2>4, <2>5
<1> QED
  BY <1>2, <1>4, <1>5, <1>6 DEF IsUtf8

(* The string that decrypt returns is the message.                         *)
LEMMA DecodeStep ==
  ASSUME TypeInv, Intact(input), DecryptingInv, Decode
  PROVE  TruncationRefused' /\ ResultInv' /\ at' = "done"
<1> DEFINE n == Total(input) - Len(ciphertexts)
<1>1. /\ ciphertexts = <<>> /\ input' = input
      /\ bytes' = StripNuls(bytes)
      /\ at' = "done"
      /\ outcome' = IF IsUtf8(bytes') THEN "ok" ELSE "undecodable"
  BY DEF Decode, Return
<1>2. input \in Inputs /\ bytes \in Seq(Byte) /\ input.message \in Seq(Byte)
  BY DecryptAssumption DEF TypeInv, TypeOK
<1>3. n = Total(input)
  BY <1>1, <1>2, IntactFacts
<1>4. /\ Padded(bytes, input, n)
      /\ \A j \in 1..n : Chunks(input.message)[j] # 0
      /\ input.damage # "cut"
  BY DEF DecryptingInv
<1>5. bytes' = StripNuls(input.message)
  BY <1>1, <1>2, <1>3, <1>4, StripNulsPadded
<1>6. outcome' = "ok"
  <2>1. IsUtf8(input.message)
    BY <1>2, DecryptAssumption
  <2> QED
    BY <1>1, <1>2, <1>5, <2>1, StripNulsUtf8
<1>7. ~ \E j \in DOMAIN Chunks(input.message) : Chunks(input.message)[j] = 0
  <2>1. DOMAIN Chunks(input.message) = 1..Total(input)
    BY <1>2, ChunkBytes DEF Total
  <2> QED
    BY <1>3, <1>4, <2>1
<1>8. TruncationRefused'
  BY <1>1, <1>4 DEF TruncationRefused
<1>9. ResultInv'
  BY <1>1, <1>5, <1>6, <1>7 DEF ResultInv
<1> QED
  BY <1>1, <1>8, <1>9

(* One step: every action takes an intact input to where it belongs.       *)
LEMMA NextMessageInv == TypeInv /\ MessageInv /\ [Next]_vars => MessageInv'
<1> SUFFICES ASSUME TypeInv, MessageInv, [Next]_vars, Intact(input')
             PROVE  /\ (at = "count" =>
                         bytes = <<>> /\ ciphertexts = <<>> /\ outcome = "none")'
                    /\ at' \in {"entry", "c1", "c2_len", "c2"} => ReadingInv'
                    /\ at' = "decrypt" => DecryptingInv'
                    /\ at' = "done" => TruncationRefused' /\ ResultInv'
  BY DEF MessageInv
<1>0. input' = input
  BY DEF Next, ReadCount, TooShort, ReadC1Len, ReadC1, ReadC2Len, ReadC2,
         EndReading, DecryptChunk, NotInvertible, Decode, vars
<1>1. Intact(input)
  BY <1>0
<1>2. CASE ReadCount
  BY <1>1, <1>2, ReadCountStep
<1>3. CASE TooShort
  <2>1. input.damage = "cut"
    BY <1>1, <1>3, TooShortStep
  <2>2. at' = "done" /\ outcome' = "invalid"
    BY <1>3 DEF TooShort, Return
  <2> QED
    BY <1>0, <2>1, <2>2 DEF TruncationRefused, ResultInv
<1>4. CASE ReadC1Len
  <2>1. ReadingInv
    BY <1>1, <1>4 DEF MessageInv, ReadC1Len
  <2> QED
    BY <1>1, <1>4, <2>1, ReadC1LenStep
<1>5. CASE ReadC1
  <2>1. ReadingInv
    BY <1>1, <1>5 DEF MessageInv, ReadC1
  <2> QED
    BY <1>1, <1>5, <2>1, ReadC1Step
<1>6. CASE ReadC2Len
  <2>1. ReadingInv
    BY <1>1, <1>6 DEF MessageInv, ReadC2Len
  <2> QED
    BY <1>1, <1>6, <2>1, ReadC2LenStep
<1>7. CASE ReadC2
  <2>1. ReadingInv
    BY <1>1, <1>7 DEF MessageInv, ReadC2
  <2> QED
    BY <1>1, <1>7, <2>1, ReadC2Step
<1>8. CASE EndReading
  <2>1. ReadingInv
    BY <1>1, <1>8 DEF MessageInv, EndReading
  <2> QED
    BY <1>1, <1>8, <2>1, EndReadingStep
<1>9. CASE DecryptChunk
  <2>1. DecryptingInv /\ at = "decrypt"
    BY <1>1, <1>9 DEF MessageInv, DecryptChunk
  <2> QED
    BY <1>1, <1>9, <2>1, DecryptChunkStep
<1>10. CASE NotInvertible
  <2>1. DecryptingInv
    BY <1>1, <1>10 DEF MessageInv, NotInvertible
  <2> QED
    BY <1>1, <1>10, <2>1, AlwaysInvertible
<1>11. CASE Decode
  <2>1. DecryptingInv
    BY <1>1, <1>11 DEF MessageInv, Decode
  <2> QED
    BY <1>1, <1>11, <2>1, DecodeStep
<1>12. CASE UNCHANGED vars
  <2>1. UNCHANGED <<input, at, offset, left, length, c1, ciphertexts, bytes,
                    outcome>>
    BY <1>12 DEF vars
  <2>2. /\ at = "count" => bytes = <<>> /\ ciphertexts = <<>> /\ outcome = "none"
        /\ at \in {"entry", "c1", "c2_len", "c2"} => ReadingInv
        /\ at = "decrypt" => DecryptingInv
        /\ at = "done" => TruncationRefused /\ ResultInv
    BY <1>1 DEF MessageInv
  <2>3. ReadingInv => ReadingInv'
    BY <2>1 DEF ReadingInv
  <2>4. DecryptingInv => DecryptingInv'
    BY <2>1 DEF DecryptingInv
  <2>5. /\ TruncationRefused => TruncationRefused'
        /\ ResultInv => ResultInv'
    BY <2>1 DEF TruncationRefused, ResultInv
  <2> QED
    BY <2>1, <2>2, <2>3, <2>4, <2>5
<1> QED
  BY <1>2, <1>3, <1>4, <1>5, <1>6, <1>7, <1>8, <1>9, <1>10, <1>11, <1>12
     DEF Next

(* Both invariants hold throughout.                                        *)
LEMMA SpecMessageInv == Spec => [](TypeInv /\ MessageInv)
<1>1. Init => TypeInv /\ MessageInv
  BY InitTypeInv, InitMessageInv
<1>2. TypeInv /\ MessageInv /\ [Next]_vars => (TypeInv /\ MessageInv)'
  BY NextTypeInv, NextMessageInv
<1> QED
  BY <1>1, <1>2, PTL DEF Spec

(* What encrypt wrote decrypts under the key it was encrypted with to the  *)
(* message, for every key, every choice of random numbers and every        *)
(* message that has no chunk of NULs and does not end in a NUL             *)
(* (elgamal.rs:147-168).                                                   *)
THEOREM DecryptRecoversMessage == Spec => []RecoversMessage
<1>1. TypeInv /\ MessageInv => RecoversMessage
  <2> SUFFICES ASSUME TypeInv, MessageInv, at = "done",
                      input.damage \in {"none", "followed"},
                      Representable(input.message)
               PROVE  outcome = "ok" /\ bytes = input.message
    BY DEF RecoversMessage
  <2>1. input.message \in Seq(Byte)
    BY DecryptAssumption DEF TypeInv
  <2>2. outcome = "ok" /\ bytes = StripNuls(input.message)
    BY DEF MessageInv, Intact, ResultInv, Representable
  <2>3. StripNuls(input.message) = input.message
    BY <2>1, StripNulsWhole DEF Representable
  <2> QED
    BY <2>2, <2>3
<1> QED
  BY <1>1, SpecMessageInv, PTL

(* Data whose end is missing is refused, wherever it was cut               *)
(* (elgamal.rs:102-133).                                                   *)
THEOREM DecryptRefusesTruncation == Spec => []TruncationRefused
<1>1. TypeInv /\ MessageInv => TruncationRefused
  BY DEF MessageInv, TruncationRefused, Intact
<1> QED
  BY <1>1, SpecMessageInv, PTL

(* The reader reads exactly what the writer wrote, to the last byte        *)
(* (elgamal.rs:50-69 and 102-145).                                         *)
THEOREM DecryptReadsAll == Spec => []ReadsAll
<1>1. TypeInv /\ MessageInv => ReadsAll
  <2> SUFFICES ASSUME TypeInv, MessageInv, at = "decrypt", input.damage = "none"
               PROVE  offset = Len(data)
    BY DEF ReadsAll
  <2>1. Intact(input) /\ input \in Inputs
    BY DEF Intact, TypeInv
  <2>2. offset = Len(Written(input))
    BY <2>1 DEF MessageInv, DecryptingInv
  <2>3. Len(input.data) = Len(Written(input))
    BY <2>1, IntactFacts
  <2> QED
    BY <2>2, <2>3 DEF data
<1> QED
  BY <1>1, SpecMessageInv, PTL
=============================================================================
