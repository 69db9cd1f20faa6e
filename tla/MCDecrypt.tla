----------------------------- MODULE MCDecrypt ------------------------------
(* Decrypt on every string of up to MaxLength bytes (the second chunk is    *)
(* started), with bytes of four values, and on every damage of one kind.    *)
EXTENDS Decrypt, SequencesExt

CONSTANTS MaxLength, Keys, Randoms, FlipAt, MaxData

Strings == {s \in SeqOf(Byte, MaxLength) : IsUtf8(s)}

Encryptions ==
  UNION {{[message |-> s, private_key |-> PrivateKeyFrom(k), randoms |-> r,
           data |-> Encrypt(s, PrivateKeyFrom(k), r)] :
            k \in Keys, r \in [1..(Len(s) + 3) \div 4 -> Randoms]} :
         s \in Strings}

Given(e, d, damage) ==
  [message |-> e.message, private_key |-> e.private_key,
   randoms |-> e.randoms, data |-> d, damage |-> damage]

Cut(e, n) ==
  IF n < Len(e.data) THEN Given(e, SubSeq(e.data, 1, n), "cut")
                     ELSE Given(e, e.data, "none")

Flip(e, i, v) ==
  IF i <= Len(e.data) THEN Given(e, [e.data EXCEPT ![i] = v], "flipped")
                      ELSE Given(e, e.data, "none")

MCInputs ==
  {Given(e, e.data \o <<0, 1>>, "followed") : e \in Encryptions}
    \cup {Cut(e, n) : e \in Encryptions, n \in 0..MaxData}
    \cup {Flip(e, i, v) : e \in Encryptions, i \in FlipAt, v \in Byte}
=============================================================================
