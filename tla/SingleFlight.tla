---------------------------- MODULE SingleFlight ----------------------------
(***************************************************************************)
(* What the fetch queue of a node promises to the code that asks it for a  *)
(* blob, with the queue itself hidden: a blob is asked for, fetched once,  *)
(* and can then be asked for again.  SyncQueue implements it.              *)
(***************************************************************************)
EXTENDS Naturals, FiniteSets

CONSTANTS
  Blobs,              \* blob ids
  MaxConcurrentSyncs  \* P2PConfig.max_concurrent_syncs

VARIABLE status       \* what each blob is waiting for

TypeOK == status \in [Blobs -> {"idle", "waiting", "busy"}]

Busy == {b \in Blobs : status[b] = "busy"}

Init == status = [b \in Blobs |-> "idle"]

(* A blob is asked for.  Asking again while it waits or is fetched is a    *)
(* stutter: requests for the same blob are merged.                         *)
Request(b) ==
  /\ status[b] = "idle"
  /\ status' = [status EXCEPT ![b] = "waiting"]

(* A whole batch starts at once, and only when the last one is over.       *)
Start(S) ==
  /\ Busy = {}
  /\ Cardinality(S) <= MaxConcurrentSyncs
  /\ \A b \in S : status[b] = "waiting"
  /\ status' = [b \in Blobs |-> IF b \in S THEN "busy" ELSE status[b]]

Finish(b) ==
  /\ status[b] = "busy"
  /\ status' = [status EXCEPT ![b] = "idle"]

(* The process ends and every request is forgotten.                        *)
Forget == status' = [b \in Blobs |-> "idle"]

Next ==
  \/ \E b \in Blobs : Request(b) \/ Finish(b)
  \/ \E S \in SUBSET Blobs : Start(S)
  \/ Forget

Spec == Init /\ [][Next]_status
=============================================================================
