------------------------------- MODULE ElGamal -------------------------------
(***************************************************************************)
(* The pure part of the crypto crate: numbers and bytes, keys, the         *)
(* encryption of one number (keypair.rs) and the encryption of a string    *)
(* into length-prefixed ciphertexts (elgamal.rs).  A byte is a number      *)
(* below ByteValues and a u32 is always four bytes, so with a small        *)
(* ByteValues every width and every layout of the code is still there.     *)
(***************************************************************************)
EXTENDS Naturals, Sequences

CONSTANTS
  ByteValues,  \* how many values a byte has (256)
  Prime,       \* the prime of keypair.rs
  Generator    \* its generator (2)

ASSUME ElGamalAssumption ==
  /\ ByteValues \in Nat \ {0, 1}
  /\ Prime \in Nat \ {0, 1}
  /\ Generator \in 1..Prime - 1
  (* Every chunk is a message: encrypt unwraps the error of a larger one.  *)
  /\ ByteValues * ByteValues * ByteValues * ByteValues <= Prime
  (* What Prime being a prime is good for here: the powers of Generator     *)
  (* have inverses.                                                        *)
  /\ \E i \in 1..Prime - 1 : (Generator * i) % Prime = 1

Byte == 0..ByteValues - 1

(* BigUint::from_bytes_le, as a residue: a chunk is below Prime, and the    *)
(* two numbers of a ciphertext are only ever used modulo Prime.            *)
FromBytes(s) ==
  LET value[k \in 0..Len(s)] ==  \* of the last k bytes
        IF k = 0 THEN 0
        ELSE (s[Len(s) + 1 - k] + ByteValues * value[k - 1]) % Prime
  IN  value[Len(s)]

(* BigUint::to_bytes_le: no leading zero, except the one byte of 0.        *)
ToBytes(n) ==
  LET digits[k \in Nat] ==
        IF k < ByteValues THEN <<k>>
        ELSE <<k % ByteValues>> \o digits[k \div ByteValues]
  IN  digits[n]

(* Every length fits a u32: the numbers of a ciphertext are below Prime.   *)
ASSUME LengthAssumption ==
  \A n \in 0..Prime - 1 :
    Len(ToBytes(n)) < ByteValues * ByteValues * ByteValues * ByteValues

(* u32::from_le_bytes of the four bytes of d after the first i.            *)
U32(d, i) ==
  d[i + 1] + ByteValues * (d[i + 2] + ByteValues * (d[i + 3] +
    ByteValues * d[i + 4]))

(* u32::to_le_bytes.                                                       *)
U32Bytes(n) ==
  LET n1 == n \div ByteValues
      n2 == n1 \div ByteValues
      n3 == n2 \div ByteValues
  IN  <<n % ByteValues, n1 % ByteValues, n2 % ByteValues, n3 % ByteValues>>

(* BigUint::modpow and BigUint::modinv; a number without an inverse has    *)
(* none to choose.                                                         *)
ModPow(base, exp) ==
  LET pow[k \in Nat] ==
        IF k = 0 THEN 1
        ELSE LET half == pow[k \div 2]
             IN  (half * half * (IF k % 2 = 1 THEN base % Prime ELSE 1)) % Prime
  IN  pow[exp]
Inverses(n) == {i \in 0..Prime - 1 : (n * i) % Prime = 1}

-----------------------------------------------------------------------------

(* PrivateKey::from, for any number: the bytes drawn by generate, or those *)
(* stored with a user.                                                     *)
PrivateKeyFrom(n) ==
  LET private_key == n % Prime
  IN  [private_key |-> private_key,
       public_exponent |-> ModPow(Generator, private_key)]

(* PublicKey::encrypt of a message below the prime, with the random number *)
(* it draws.                                                               *)
EncryptNumber(key, m, random) ==
  LET y == random % (Prime - 1)
  IN  [c1 |-> ModPow(Generator, y),
       c2 |-> (m * ModPow(key.public_exponent, y)) % Prime]

(* PrivateKey::decrypt: the message, or nothing where c1 is not invertible. *)
DecryptNumber(key, c) ==
  {(c.c2 * i) % Prime : i \in Inverses(ModPow(c.c1, key.private_key))}

-----------------------------------------------------------------------------

(* bytes.chunks(4), each as a little-endian u32.                           *)
Chunks(s) ==
  [k \in 1..(Len(s) + 3) \div 4 |->
     FromBytes(SubSeq(s, 4 * k - 3, IF 4 * k < Len(s) THEN 4 * k ELSE Len(s)))]

(* A slip of encrypt: c2 is written with the length of c1.                 *)
CiphertextBytes_OneLength(c) ==
  LET c1 == ToBytes(c.c1)
      c2 == ToBytes(c.c2)
  IN  U32Bytes(Len(c1)) \o c1 \o U32Bytes(Len(c1)) \o c2

(* The layout of one ciphertext.                                           *)
CiphertextBytes(c) ==
  LET c1 == ToBytes(c.c1)
      c2 == ToBytes(c.c2)
  IN  U32Bytes(Len(c1)) \o c1 \o U32Bytes(Len(c2)) \o c2

(* encrypt: randoms[k] is drawn for the k-th chunk.                        *)
Encrypt(s, key, randoms) ==
  LET chunks == Chunks(s)
      written[k \in 0..Len(chunks)] ==  \* result, after k ciphertexts
        IF k = 0 THEN U32Bytes(Len(chunks))
        ELSE written[k - 1] \o
             CiphertextBytes(EncryptNumber(key, chunks[k], randoms[k]))
  IN  written[Len(chunks)]
=============================================================================
