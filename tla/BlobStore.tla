------------------------------ MODULE BlobStore ------------------------------
(***************************************************************************)
(* What the network promises about a blob, with everything hidden that it  *)
(* takes to keep the promise: the two keys of a row, queues, announcements,*)
(* statuses and calls.  A node has a blob once, and once deleted it stays  *)
(* deleted there; a copy is made of the original only, and only while the  *)
(* original is live; one that was on its way by then may still arrive.     *)
(* Replication implements it.                                              *)
(***************************************************************************)

CONSTANTS
  Nodes,
  Blobs,
  Home    \* Home[b]: the node whose user adds and deletes b

VARIABLES
  blobs,  \* blobs[n][b]: the blob b as node n has it
  sent    \* the copies on their way: <<n, b>> to node n

TypeOK ==
  /\ blobs \in [Nodes -> [Blobs -> {"absent", "live", "deleted"}]]
  /\ sent \in SUBSET (Nodes \X Blobs)

Init ==
  /\ blobs = [n \in Nodes |-> [b \in Blobs |-> "absent"]]
  /\ sent = {}

Add(b) ==
  /\ blobs[Home[b]][b] = "absent"
  /\ blobs' = [blobs EXCEPT ![Home[b]][b] = "live"]
  /\ UNCHANGED sent

(* A node deletes what it has, the original or a copy.  The others go on   *)
(* having it.                                                              *)
Delete(n, b) ==
  /\ blobs[n][b] = "live"
  /\ blobs' = [blobs EXCEPT ![n][b] = "deleted"]
  /\ UNCHANGED sent

(* The home answers a fetch.                                               *)
Send(n, b) ==
  /\ n # Home[b]
  /\ blobs[Home[b]][b] = "live"
  /\ sent' = sent \cup {<<n, b>>}
  /\ UNCHANGED blobs

(* The copy arrives at a node that has not had one.                        *)
Store(n, b) ==
  /\ <<n, b>> \in sent
  /\ blobs[n][b] = "absent"
  /\ blobs' = [blobs EXCEPT ![n][b] = "live"]
  /\ sent' = sent \ {<<n, b>>}

(* It does not arrive, or is not needed any more.                          *)
Lose(copies) ==
  /\ sent' = sent \ copies
  /\ UNCHANGED blobs

Next ==
  \/ \E b \in Blobs : Add(b)
  \/ \E n \in Nodes, b \in Blobs : Delete(n, b) \/ Send(n, b) \/ Store(n, b)
  \/ \E copies \in SUBSET sent : Lose(copies)

vars == <<blobs, sent>>

Spec == Init /\ [][Next]_vars
=============================================================================
