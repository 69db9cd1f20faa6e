------------------------------- MODULE Decrypt -------------------------------
(***************************************************************************)
(* decrypt of elgamal.rs, one read at a time.  It is given bytes that      *)
(* encrypt wrote, perhaps damaged since, and works its way through them    *)
(* with lengths it finds in them.  A slice or an index outside a Vec is a  *)
(* panic in Rust; so is the first digit of a number that has none.         *)
(***************************************************************************)
EXTENDS ElGamal

CONSTANT Inputs  \* what decrypt may be given, and what it was made from

(* String::from_utf8 on four byte values: 0 is NUL, 1 another character of *)
(* one byte, 2 the first and 3 the second byte of a longer one.            *)
IsUtf8(s) ==
  /\ s # <<>> => s[1] # 3
  /\ \A i \in 1..Len(s) : s[i] = 2 <=> i < Len(s) /\ s[i + 1] = 3

(* The bytes encrypt wrote, which an input is made from.                   *)
Written(i) == Encrypt(i.message, i.private_key, i.randoms)

(* message is a string of at most 16 GiB, so that the count of its chunks  *)
(* fits a u32; nothing is said of data that was changed in the middle.     *)
ASSUME DecryptAssumption ==
  \A i \in Inputs :
    /\ i.data \in Seq(Byte)
    /\ i.message \in Seq(Byte)
    /\ IsUtf8(i.message)
    /\ Len(Chunks(i.message)) < ByteValues * ByteValues * ByteValues * ByteValues
    /\ i.private_key.private_key \in Nat
    /\ i.private_key = PrivateKeyFrom(i.private_key.private_key)
    /\ \A k \in DOMAIN Chunks(i.message) : i.randoms[k] \in Nat
    /\ i.damage = "none" => i.data = Written(i)
    /\ i.damage = "followed" =>
         /\ Len(i.data) >= Len(Written(i))
         /\ SubSeq(i.data, 1, Len(Written(i))) = Written(i)
    /\ i.damage = "cut" =>
         /\ Len(i.data) < Len(Written(i))
         /\ i.data = SubSeq(Written(i), 1, Len(i.data))

VARIABLES
  input,        \* data, private_key; message, randoms, damage behind data
  at,           \* where decrypt is
  offset,       \* how much of data it has read
  left,         \* how many ciphertexts are still to be read
  length,       \* the length it has read last
  c1,           \* the first half of the ciphertext it is reading
  ciphertexts,  \* those read and not yet decrypted
  bytes,        \* the bytes decrypted so far
  outcome       \* what decrypt returns

vars == <<input, at, offset, left, length, c1, ciphertexts, bytes, outcome>>

data == input.data

TypeOK ==
  /\ data \in Seq(Byte)
  /\ at \in {"count", "entry", "c1", "c2_len", "c2", "decrypt", "done"}
  /\ offset \in 0..Len(data)
  /\ left \in Nat
  /\ length \in Nat
  /\ c1 \in Nat
  /\ ciphertexts \in Seq([c1 : Nat, c2 : Nat])
  /\ bytes \in Seq(Byte)
  /\ outcome \in {"none", "ok", "invalid", "undecodable", "panic"}

(* The loop over bytes.last() that removes padding.                        *)
StripNuls(s) ==
  SubSeq(s, 1, CHOOSE n \in 0..Len(s) :
                 /\ \A i \in n + 1..Len(s) : s[i] = 0
                 /\ n > 0 => s[n] # 0)

-----------------------------------------------------------------------------

Init ==
  /\ input \in Inputs
  /\ at = "count"
  /\ offset = 0
  /\ left = 0
  /\ length = 0
  /\ c1 = 0
  /\ ciphertexts = <<>>
  /\ bytes = <<>>
  /\ outcome = "none"

Return(result) ==
  /\ at' = "done"
  /\ outcome' = result

ReadCount ==
  /\ at = "count"
  /\ Len(data) >= 4
  /\ left' = U32(data, 0)
  /\ offset' = 4
  /\ at' = "entry"
  /\ UNCHANGED <<input, length, c1, ciphertexts, bytes, outcome>>

(* A slip of decrypt: a length is checked without the one that follows.    *)
Short_OneLength ==
  \/ at = "count" /\ Len(data) < 4
  \/ at = "entry" /\ left > 0 /\ offset + 8 > Len(data)
  \/ at = "c1" /\ offset + length > Len(data)
  \/ at = "c2" /\ offset + length > Len(data)

(* The four checks of the length of data.                                  *)
Short ==
  \/ at = "count" /\ Len(data) < 4
  \/ at = "entry" /\ left > 0 /\ offset + 8 > Len(data)
  \/ at = "c1" /\ offset + length + 4 > Len(data)
  \/ at = "c2" /\ offset + length > Len(data)

TooShort ==
  /\ Short
  /\ Return("invalid")
  /\ UNCHANGED <<input, offset, left, length, c1, ciphertexts, bytes>>

ReadC1Len ==
  /\ at = "entry"
  /\ left > 0
  /\ ~Short
  /\ length' = U32(data, offset)
  /\ offset' = offset + 4
  /\ at' = "c1"
  /\ UNCHANGED <<input, left, c1, ciphertexts, bytes, outcome>>

ReadC1 ==
  /\ at = "c1"
  /\ ~Short
  /\ c1' = FromBytes(SubSeq(data, offset + 1, offset + length))
  /\ offset' = offset + length
  /\ at' = "c2_len"
  /\ UNCHANGED <<input, left, length, ciphertexts, bytes, outcome>>

ReadC2Len ==
  /\ at = "c2_len"
  /\ length' = U32(data, offset)
  /\ offset' = offset + 4
  /\ at' = "c2"
  /\ UNCHANGED <<input, left, c1, ciphertexts, bytes, outcome>>

(* A slip of decrypt: the four bytes of a length are passed twice.         *)
ReadC2_LengthTwice ==
  /\ at = "c2"
  /\ ~Short
  /\ ciphertexts' = Append(ciphertexts,
       [c1 |-> c1, c2 |-> FromBytes(SubSeq(data, offset + 1, offset + length))])
  /\ offset' = offset + length + 4
  /\ left' = left - 1
  /\ at' = "entry"
  /\ UNCHANGED <<input, length, c1, bytes, outcome>>

ReadC2 ==
  /\ at = "c2"
  /\ ~Short
  /\ ciphertexts' = Append(ciphertexts,
       [c1 |-> c1, c2 |-> FromBytes(SubSeq(data, offset + 1, offset + length))])
  /\ offset' = offset + length
  /\ left' = left - 1
  /\ at' = "entry"
  /\ UNCHANGED <<input, length, c1, bytes, outcome>>

(* A slip of decrypt: it takes the end of data for the last ciphertext.    *)
EndReading_Early ==
  /\ at = "entry"
  /\ left = 0 \/ offset = Len(data)
  /\ at' = "decrypt"
  /\ UNCHANGED <<input, offset, left, length, c1, ciphertexts, bytes, outcome>>

(* Nothing is decrypted before everything has been read; what follows the  *)
(* last ciphertext is never looked at.                                     *)
EndReading ==
  /\ at = "entry"
  /\ left = 0
  /\ at' = "decrypt"
  /\ UNCHANGED <<input, offset, left, length, c1, ciphertexts, bytes, outcome>>

(* One chunk: the low u32 of the number, which is not there when it is 0.  *)
DecryptChunk ==
  /\ at = "decrypt"
  /\ ciphertexts # <<>>
  /\ \E m \in DecryptNumber(input.private_key, Head(ciphertexts)) :
       IF m = 0
       THEN /\ Return("panic")
            /\ UNCHANGED <<ciphertexts, bytes>>
       ELSE /\ bytes' = bytes \o U32Bytes(m)
            /\ ciphertexts' = Tail(ciphertexts)
            /\ UNCHANGED <<at, outcome>>
  /\ UNCHANGED <<input, offset, left, length, c1>>

NotInvertible ==
  /\ at = "decrypt"
  /\ ciphertexts # <<>>
  /\ DecryptNumber(input.private_key, Head(ciphertexts)) = {}
  /\ Return("invalid")
  /\ UNCHANGED <<input, offset, left, length, c1, ciphertexts, bytes>>

(* A slip of decrypt: the padding is part of the string.                   *)
Decode_Padded ==
  /\ at = "decrypt"
  /\ ciphertexts = <<>>
  /\ Return(IF IsUtf8(bytes) THEN "ok" ELSE "undecodable")
  /\ UNCHANGED <<input, offset, left, length, c1, ciphertexts, bytes>>

Decode ==
  /\ at = "decrypt"
  /\ ciphertexts = <<>>
  /\ bytes' = StripNuls(bytes)
  /\ Return(IF IsUtf8(bytes') THEN "ok" ELSE "undecodable")
  /\ UNCHANGED <<input, offset, left, length, c1, ciphertexts>>

Next ==
  \/ ReadCount
  \/ TooShort
  \/ ReadC1Len
  \/ ReadC1
  \/ ReadC2Len
  \/ ReadC2
  \/ EndReading
  \/ DecryptChunk
  \/ NotInvertible
  \/ Decode

Spec == Init /\ [][Next]_vars

-----------------------------------------------------------------------------

(* Whatever the bytes say, decrypt reads nothing outside them: it is never *)
(* past their end, and the length of c2, which it reads without a check of *)
(* its own, was made room for by the check of c1 (elgamal.rs:122).         *)
ReadsInside ==
  /\ offset <= Len(data)
  /\ at = "c2_len" => offset + 4 <= Len(data)

(* What encrypt wrote, alone or with something after it, decrypts under    *)
(* the same key, the degenerate keys 0 and Prime - 1 among them, to the    *)
(* message, and characters split between two chunks are whole again: for   *)
(* every message the format can hold, one with no chunk of nothing but     *)
(* NULs that does not end in a NUL (RoundTrip is about the others).        *)
Representable(s) ==
  /\ \A k \in DOMAIN Chunks(s) : Chunks(s)[k] # 0
  /\ s # <<>> => s[Len(s)] # 0

RecoversMessage ==
  (at = "done" /\ input.damage \in {"none", "followed"}
     /\ Representable(input.message))
    => outcome = "ok" /\ bytes = input.message

(* The reader and the writer agree on the layout to the last byte.         *)
ReadsAll ==
  (at = "decrypt" /\ input.damage = "none") => offset = Len(data)

(* Data that lost its end is refused before anything is decrypted: it      *)
(* never passes for a shorter message, and never panics.                   *)
TruncationRefused ==
  (at = "done" /\ input.damage = "cut") => outcome = "invalid"

-----------------------------------------------------------------------------
(* What the code says and does not do.                                     *)

(* decrypt(encrypt(m)) is m, for every string: elgamal.rs:83 promises "the *)
(* decrypted string", and the tests assert that it is the message.         *)
RoundTrip ==
  (at = "done" /\ input.damage = "none")
    => outcome = "ok" /\ bytes = input.message
=============================================================================
