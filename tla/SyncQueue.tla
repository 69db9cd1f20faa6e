------------------------------ MODULE SyncQueue ------------------------------
(***************************************************************************)
(* The fetch queue of one node's SyncManager (node_api/sync.rs) and the    *)
(* loop that drains it.                                                    *)
(*                                                                         *)
(* The manager sits behind an Arc<RwLock<SyncManager>>.  Three kinds of    *)
(* callers take its write lock: the handlers that ask for a blob (the gRPC *)
(* announce handler and the GraphQL mutations, through sync_blob), the     *)
(* loop that takes a batch off the queue, and the tasks of the batch, each *)
(* of which removes its own blob from in_progress when it is over.  Every  *)
(* critical section is free of awaits, so it is one action here.  The one  *)
(* exception is the start of the loop, which keeps the READ lock while it  *)
(* connects to every peer: phase "connect" shuts the writers out.          *)
(***************************************************************************)
EXTENDS Naturals, Sequences, FiniteSets, Functions

CONSTANTS
  Blobs,              \* blob ids (Uuid)
  MaxConcurrentSyncs  \* P2PConfig.max_concurrent_syncs, an usize: 0 is allowed

ASSUME SyncQueueAssumption == MaxConcurrentSyncs \in Nat

VARIABLES
  blob_queue,   \* SyncManager.blob_queue; the hash of an entry is its blob's
  in_progress,  \* SyncManager.in_progress
  running,      \* blobs whose spawned task has not released in_progress yet
  phase         \* where start_sync_loop is

vars == <<blob_queue, in_progress, running, phase>>

Phases == {"spawned", "connect", "take", "join", "announce"}

TypeOK ==
  /\ blob_queue \in Seq(Blobs)
  /\ in_progress \subseteq Blobs
  /\ running \subseteq Blobs
  /\ phase \in Phases

-----------------------------------------------------------------------------

Init ==
  /\ blob_queue = <<>>
  /\ in_progress = {}
  /\ running = {}
  /\ phase = "spawned"

(* Two slips of queue_blob_fetch: the blob is not recorded, and the check  *)
(* asks the queue where it should ask in_progress.                         *)
QueueBlobFetch_NoRecord(b) ==
  /\ phase # "connect"
  /\ b \notin in_progress
  /\ blob_queue' = Append(blob_queue, b)
  /\ UNCHANGED <<in_progress, running, phase>>

QueueBlobFetch_ChecksQueue(b) ==
  /\ phase # "connect"
  /\ b \notin Range(blob_queue)
  /\ blob_queue' = Append(blob_queue, b)
  /\ in_progress' = in_progress \cup {b}
  /\ UNCHANGED <<running, phase>>

(* queue_blob_fetch, under the write lock its callers take.                *)
QueueBlobFetch(b) ==
  /\ phase # "connect"
  /\ b \notin in_progress
  /\ blob_queue' = Append(blob_queue, b)
  /\ in_progress' = in_progress \cup {b}
  /\ UNCHANGED <<running, phase>>

(* start_sync_loop takes the read lock to connect to the peers ...         *)
StartConnecting ==
  /\ phase = "spawned"
  /\ phase' = "connect"
  /\ UNCHANGED <<blob_queue, in_progress, running>>

(* ... and releases it when every connect has returned, good or bad.       *)
EndConnecting ==
  /\ phase = "connect"
  /\ phase' = "take"
  /\ UNCHANGED <<blob_queue, in_progress, running>>

BatchSize ==
  IF MaxConcurrentSyncs < Len(blob_queue)
  THEN MaxConcurrentSyncs ELSE Len(blob_queue)

Batch == Range(SubSeq(blob_queue, 1, BatchSize))

(* A slip of process_sync_queue: the batch is popped from the back.        *)
TakeBatch_FromBack ==
  /\ phase = "take"
  /\ LET kept == Len(blob_queue) - BatchSize
     IN  /\ running' = Range(SubSeq(blob_queue, kept + 1, Len(blob_queue)))
         /\ blob_queue' = SubSeq(blob_queue, 1, kept)
  /\ phase' = IF BatchSize = 0 THEN "announce" ELSE "join"
  /\ UNCHANGED in_progress

(* process_sync_queue pops a batch and spawns a task for each blob of it.  *)
TakeBatch ==
  /\ phase = "take"
  /\ running' = Batch
  /\ blob_queue' = SubSeq(blob_queue, BatchSize + 1, Len(blob_queue))
  /\ phase' = IF BatchSize = 0 THEN "announce" ELSE "join"
  /\ UNCHANGED in_progress

(* fetch_and_store_blob has returned, well or not, and the task removes    *)
(* its blob from in_progress.                                              *)
EndTask(b) ==
  /\ b \in running
  /\ running' = running \ {b}
  /\ in_progress' = in_progress \ {b}
  /\ UNCHANGED <<blob_queue, phase>>

(* A slip of process_sync_queue: the tasks are spawned and never joined.   *)
JoinAll_Detached ==
  /\ phase = "join"
  /\ phase' = "announce"
  /\ UNCHANGED <<blob_queue, in_progress, running>>

(* The last of the join handles has been awaited.                          *)
JoinAll ==
  /\ phase = "join"
  /\ running = {}
  /\ phase' = "announce"
  /\ UNCHANGED <<blob_queue, in_progress, running>>

(* A slip of start_sync_loop: it returns after its first round.            *)
EndAnnounce_Returns ==
  /\ phase = "announce"
  /\ phase' = "returned"
  /\ UNCHANGED <<blob_queue, in_progress, running>>

(* announce_blobs returns and the loop sleeps until the next round.        *)
EndAnnounce ==
  /\ phase = "announce"
  /\ phase' = "take"
  /\ UNCHANGED <<blob_queue, in_progress, running>>

(* The process ends - it is killed, or a task that main selects on returns *)
(* - and is started again: SyncManager::new starts from an empty queue.    *)
Restart ==
  /\ blob_queue' = <<>>
  /\ in_progress' = {}
  /\ running' = {}
  /\ phase' = "spawned"

Next ==
  \/ \E b \in Blobs : QueueBlobFetch(b) \/ EndTask(b)
  \/ StartConnecting
  \/ EndConnecting
  \/ TakeBatch
  \/ JoinAll
  \/ EndAnnounce
  \/ Restart

Spec == Init /\ [][Next]_vars

(* The runtime polls the loop and every spawned task until it completes.   *)
Fairness ==
  /\ WF_vars(StartConnecting)
  /\ WF_vars(EndConnecting)
  /\ WF_vars(TakeBatch)
  /\ WF_vars(JoinAll)
  /\ WF_vars(EndAnnounce)
  /\ \A b \in Blobs : WF_vars(EndTask(b))

FairSpec == Spec /\ Fairness

-----------------------------------------------------------------------------

(* No blob is queued twice.                                                *)
NoDuplicates ==
  \A i, j \in 1..Len(blob_queue) :
    blob_queue[i] = blob_queue[j] => i = j

(* in_progress is a cache of two other facts, kept by three callers that   *)
(* never see each other: it holds exactly the blobs queued or being        *)
(* fetched.  One blob too many is never fetched again; one too few is      *)
(* fetched twice at once.                                                  *)
InProgressExact ==
  /\ NoDuplicates
  /\ in_progress = Range(blob_queue) \cup running
  /\ Range(blob_queue) \cap running = {}

(* At most max_concurrent_syncs fetches run, although the queue is refilled*)
(* while they do: a new batch never starts on top of an old one.           *)
BoundedConcurrency ==
  /\ IsFiniteSet(running)
  /\ Cardinality(running) <= MaxConcurrentSyncs
  /\ phase # "join" => running = {}

(* A queued blob is fetched, whatever else is queued meanwhile, unless the *)
(* process restarts first.                                                 *)
QueuedIsFetched ==
  \A b \in Blobs :
    b \in Range(blob_queue) ~> (b \in running \/ phase = "spawned")

(* The abstract view of a blob.                                            *)
Flight(b) ==
  CASE b \in running                        -> "busy"
    [] b \in in_progress /\ b \notin running -> "waiting"
    [] OTHER                                 -> "idle"

SF == INSTANCE SingleFlight WITH status <- [b \in Blobs |-> Flight(b)]

(* The queue implements the promise: one fetch of a blob at a time, in     *)
(* batches of bounded size.                                                *)
ImplementsSingleFlight == SF!Spec
=============================================================================
