---------------------------- MODULE MCMembership ----------------------------
(* Membership of three nodes.                                                *)
EXTENDS Membership

CONSTANTS n1, n2, n3

Trio == {n1, n2, n3}

(* n1 and n2 name each other, n2 itself too; both call n3, which has no      *)
(* configuration.                                                            *)
TrioConfig ==
  [n \in Nodes |-> CASE n = n1 -> <<n2, n3>>
                     [] n = n2 -> <<n1, n2, n3>>
                     [] n = n3 -> <<>>]

TrioFixed == {n1, n2}
=============================================================================
