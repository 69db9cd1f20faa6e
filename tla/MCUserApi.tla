------------------------------ MODULE MCUserApi ------------------------------
(* UserApi with two users on two connections.                                *)
EXTENDS UserApi, TLC

CONSTANTS c1, c2, alice, bob, b1, b2, x1, pw1, pw2

MCClients == {c1, c2}
MCNames == {alice, bob}
MCPasswords == {pw1, pw2}
MCBlobs == {b1, b2}
MCCopies == {x1}

(* Connections, users, passwords and blobs are alike.                        *)
Alike == Permutations(MCClients) \cup Permutations(MCNames)
         \cup Permutations(MCPasswords) \cup Permutations(MCBlobs)
=============================================================================
