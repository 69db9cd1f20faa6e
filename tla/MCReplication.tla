---------------------------- MODULE MCReplication ----------------------------
(* Replication on small networks.                                            *)
EXTENDS Replication, TLC

CONSTANTS n1, n2, n3, b1, b2

Pair == {n1, n2}
Trio == {n1, n2, n3}

(* Every node is configured with all the others.                             *)
Mesh == [n \in Nodes |-> Nodes \ {n}]

(* The first node is home to every blob.                                     *)
HomeFirst == [b \in Blobs |-> n1]

(* Nothing tells n2 and n3 apart when n1 is home.                            *)
Others == Permutations({n2, n3})
=============================================================================
