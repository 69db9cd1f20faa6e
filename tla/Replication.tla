----------------------------- MODULE Replication -----------------------------
(***************************************************************************)
(* How the nodes of da-node replicate a blob: the GraphQL mutations that   *)
(* put a blob on the fetch queue of its home node (user_api/mod.rs), the   *)
(* sync loop that announces it and the tasks that fetch it                 *)
(* (node_api/sync.rs), the gRPC handlers at the other end                  *)
(* (node_api/server.rs), and the two tables, blobs and sync_status, that   *)
(* all of them read and write.  A SQL statement is one action; between two *)
(* of them, and between the two ends of a call, anything may happen.       *)
(*                                                                         *)
(* The id of a blob is stored in two ways.  add_blob binds a Uuid, which   *)
(* SQLite keeps as 16 bytes; store_received_blob binds the String of the   *)
(* message, which SQLite keeps as text.  The two never compare equal, so a *)
(* node has two rows for a blob as far as its queries can tell: the one    *)
(* under the uuid key and the one under the text key.                      *)
(***************************************************************************)
EXTENDS Naturals, Sequences, FiniteSets, Functions

CONSTANTS
  Nodes,              \* nodes, named by P2PConfig.node_id
  Blobs,              \* blob ids
  Home,               \* Home[b]: the node whose user adds and deletes b
  ConfigPeers,        \* ConfigPeers[n]: P2PConfig.peers of n
  MaxConcurrentSyncs, \* P2PConfig.max_concurrent_syncs, of every node
  ShareLimit,         \* the LIMIT of get_blobs_to_share (100)
  FaultModels,        \* which kinds of faults may happen together
  MaxFaults,          \* and how many of them at most: a bound of the model
  NoNode,             \* not a node
  NoBlob              \* not a blob

ASSUME ReplicationAssumption ==
  /\ Home \in [Blobs -> Nodes]
  /\ ConfigPeers \in [Nodes -> SUBSET Nodes]
  /\ \A n \in Nodes : n \notin ConfigPeers[n]
  /\ MaxConcurrentSyncs \in Nat
  /\ ShareLimit \in Nat
  /\ FaultModels \subseteq SUBSET {"crash", "request", "reply", "db"}
  /\ MaxFaults \in Nat
  /\ NoNode \notin Nodes
  /\ NoBlob \notin Blobs

VARIABLES
  row,          \* row[n][b][k]: the row of b at n under key k, table blobs
  sync_status,  \* sync_status[n][b][p]: the row of b and peer p at n
  peers,        \* peers[n]: SyncManager.peers of n
  mutation,     \* mutation[b]: how far the mutation of b at its home is
  blob_queue,   \* SyncManager.blob_queue of each node
  in_progress,  \* SyncManager.in_progress of each node
  phase,        \* where the sync loop of each node is; "down": no process
  ann,          \* the locals of announce_blobs
  task,         \* task[n][b]: fetch_and_store_blob of b at n
  faults        \* the kinds of faults there may be, and how many are left

vars == <<row, sync_status, peers, mutation, blob_queue, in_progress, phase,
          ann, task, faults>>

queue == <<blob_queue, in_progress>>

Keys == {"uuid", "text"}
RowStates == {"absent", "live", "deleted"}
Statuses == {"none", "pending", "completed", "failed"}
Mutations == {"none", "inserted", "idle", "checked", "updated", "queued",
              "ok", "error"}
Phases == {"down", "spawned", "connect", "take", "join", "select", "announce",
           "sent", "checked", "answered"}
PCs == {"none", "start", "mark", "try", "sent", "read", "got", "stored",
        "fail", "end"}

Tasks == [pc : PCs, todo : SUBSET Nodes, to : Nodes \cup {NoNode}]
NoTask == [pc |-> "none", todo |-> {}, to |-> NoNode]

Announcements ==
  [peers : SUBSET Nodes, todo : SUBSET Blobs, blob : Blobs \cup {NoBlob},
   targets : SUBSET Nodes, to : Nodes \cup {NoNode}]
NoAnnouncement ==
  [peers |-> {}, todo |-> {}, blob |-> NoBlob, targets |-> {}, to |-> NoNode]

TypeOK ==
  /\ row \in [Nodes -> [Blobs -> [Keys -> RowStates]]]
  /\ sync_status \in [Nodes -> [Blobs -> [Nodes -> Statuses]]]
  /\ peers \in [Nodes -> SUBSET Nodes]
  /\ mutation \in [Blobs -> Mutations]
  /\ blob_queue \in [Nodes -> Seq(Blobs)]
  /\ in_progress \in [Nodes -> SUBSET Blobs]
  /\ phase \in [Nodes -> Phases]
  /\ ann \in [Nodes -> Announcements]
  /\ task \in [Nodes -> [Blobs -> Tasks]]
  /\ faults \in [may : FaultModels, left : 0..MaxFaults]

Up(n) == phase[n] # "down"

Running(n) == {b \in Blobs : task[n][b].pc # "none"}

-----------------------------------------------------------------------------

(* Every node has started, one after the other, and knows the peers it     *)
(* shook hands with in either direction.  Nothing has been added yet.      *)
Init ==
  /\ row = [n \in Nodes |-> [b \in Blobs |-> [k \in Keys |-> "absent"]]]
  /\ sync_status = [n \in Nodes |-> [b \in Blobs |-> [p \in Nodes |-> "none"]]]
  /\ peers = [n \in Nodes |->
                ConfigPeers[n] \cup {p \in Nodes : n \in ConfigPeers[p]}]
  /\ mutation = [b \in Blobs |-> "none"]
  /\ blob_queue = [n \in Nodes |-> <<>>]
  /\ in_progress = [n \in Nodes |-> {}]
  /\ phase = [n \in Nodes |-> "spawned"]
  /\ ann = [n \in Nodes |-> NoAnnouncement]
  /\ task = [n \in Nodes |-> [b \in Blobs |-> NoTask]]
  /\ faults \in [may : FaultModels, left : {MaxFaults}]

(* A slip of start_blob_sync_with_peer: a status the table does not allow. *)
StartBlobSyncWithPeer_NewStatus(n, b, p) ==
  sync_status' = [sync_status EXCEPT ![n][b][p] = "in_progress"]

(* start_blob_sync_with_peer: INSERT ... ON CONFLICT DO UPDATE.            *)
StartBlobSyncWithPeer(n, b, p) ==
  sync_status' = [sync_status EXCEPT ![n][b][p] = "pending"]

(* UPDATE sync_status: a row that is not there stays away.                 *)
SetBlobStatus(n, b, p, s) ==
  sync_status' =
    [sync_status EXCEPT ![n][b][p] = IF @ = "none" THEN "none" ELSE s]

(* A slip of queue_blob_fetch: the blob is queued again and again.         *)
QueueBlobFetch_Unchecked(n, b) ==
  /\ phase[n] # "connect"
  /\ blob_queue' = [blob_queue EXCEPT ![n] = Append(@, b)]
  /\ in_progress' = [in_progress EXCEPT ![n] = @ \cup {b}]

(* sync_blob and queue_blob_fetch, under the write lock: the loop keeps it *)
(* from them only while it connects.                                       *)
QueueBlobFetch(n, b) ==
  /\ phase[n] # "connect"
  /\ IF b \in in_progress[n]
     THEN UNCHANGED queue
     ELSE /\ blob_queue' = [blob_queue EXCEPT ![n] = Append(@, b)]
          /\ in_progress' = [in_progress EXCEPT ![n] = @ \cup {b}]

-----------------------------------------------------------------------------
(* The user's mutations, at the home of the blob.                          *)

(* add_blob: INSERT, then sync_blob.  The id is new.                       *)
AddBlob(b) ==
  /\ Up(Home[b])
  /\ mutation[b] = "none"
  /\ row' = [row EXCEPT ![Home[b]][b]["uuid"] = "live"]
  /\ mutation' = [mutation EXCEPT ![b] = "inserted"]
  /\ UNCHANGED <<sync_status, peers, queue, phase, ann, task, faults>>

(* A slip of add_blob: it does not call sync_blob.                         *)
QueueAdded_Forgotten(b) ==
  /\ mutation[b] = "inserted"
  /\ mutation' = [mutation EXCEPT ![b] = "idle"]
  /\ UNCHANGED <<row, sync_status, peers, queue, phase, ann, task, faults>>

QueueAdded(b) ==
  /\ mutation[b] = "inserted"
  /\ QueueBlobFetch(Home[b], b)
  /\ mutation' = [mutation EXCEPT ![b] = "idle"]
  /\ UNCHANGED <<row, sync_status, peers, phase, ann, task, faults>>

(* delete_blob: SELECT, the owner check and UPDATE, then sync_blob, then   *)
(* the INSERT ... SELECT into sync_status and the answer.                  *)
DeleteBlob(b) ==
  /\ Up(Home[b])
  /\ mutation[b] = "idle"
  /\ row[Home[b]][b]["uuid"] = "live"
  /\ mutation' = [mutation EXCEPT ![b] = "checked"]
  /\ UNCHANGED <<row, sync_status, peers, queue, phase, ann, task, faults>>

UpdateDeleted(b) ==
  /\ mutation[b] = "checked"
  /\ row' = [row EXCEPT ![Home[b]][b]["uuid"] = "deleted"]
  /\ mutation' = [mutation EXCEPT ![b] = "updated"]
  /\ UNCHANGED <<sync_status, peers, queue, phase, ann, task, faults>>

QueueDeleted(b) ==
  /\ mutation[b] = "updated"
  /\ QueueBlobFetch(Home[b], b)
  /\ mutation' = [mutation EXCEPT ![b] = "queued"]
  /\ UNCHANGED <<row, sync_status, peers, phase, ann, task, faults>>

(* The rows to insert are those of the peers that have completed, and each *)
(* of them is there already: the INSERT fails unless there is none.        *)
AnswerDelete(b) ==
  /\ mutation[b] = "queued"
  /\ mutation' =
       [mutation EXCEPT ![b] =
          IF \E p \in Nodes : sync_status[Home[b]][b][p] = "completed"
          THEN "error" ELSE "ok"]
  /\ UNCHANGED <<row, sync_status, peers, queue, phase, ann, task, faults>>

-----------------------------------------------------------------------------
(* The sync loop: start_sync_loop and process_sync_queue.                  *)

GoTo(n, to) == phase' = [phase EXCEPT ![n] = to]

StartConnecting(n) ==
  /\ phase[n] = "spawned"
  /\ GoTo(n, "connect")
  /\ UNCHANGED <<row, sync_status, peers, mutation, queue, ann, task, faults>>

EndConnecting(n) ==
  /\ phase[n] = "connect"
  /\ GoTo(n, "take")
  /\ UNCHANGED <<row, sync_status, peers, mutation, queue, ann, task, faults>>

BatchSize(n) ==
  IF MaxConcurrentSyncs < Len(blob_queue[n])
  THEN MaxConcurrentSyncs ELSE Len(blob_queue[n])

Batch(n) == Range(SubSeq(blob_queue[n], 1, BatchSize(n)))

TakeBatch(n) ==
  /\ phase[n] = "take"
  /\ blob_queue' = [blob_queue EXCEPT ![n] = SubSeq(@, BatchSize(n) + 1, Len(@))]
  /\ task' = [task EXCEPT ![n] =
                [b \in Blobs |-> IF b \in Batch(n)
                                 THEN [NoTask EXCEPT !.pc = "start"]
                                 ELSE NoTask]]
  /\ GoTo(n, IF BatchSize(n) = 0 THEN "select" ELSE "join")
  /\ UNCHANGED <<row, sync_status, peers, mutation, in_progress, ann, faults>>

(* A slip of process_sync_queue: the tasks are spawned and never joined.   *)
JoinAll_Detached(n) ==
  /\ phase[n] = "join"
  /\ GoTo(n, "select")
  /\ UNCHANGED <<row, sync_status, peers, mutation, queue, ann, task, faults>>

JoinAll(n) ==
  /\ phase[n] = "join"
  /\ Running(n) = {}
  /\ GoTo(n, "select")
  /\ UNCHANGED <<row, sync_status, peers, mutation, queue, ann, task, faults>>
-----------------------------------------------------------------------------
(* announce_blobs, and handle_announce at the peer.                        *)

(* The peers a blob is not completed for: EXISTS in get_blobs_to_share,    *)
(* get_pending_peers.                                                      *)
PendingPeers(n, b) ==
  {p \in Nodes : sync_status[n][b][p] \notin {"none", "completed"}}

(* Both queries join on the uuid key.                                      *)
BlobsToShare(n) ==
  {b \in Blobs : row[n][b]["uuid"] = "live" /\ PendingPeers(n, b) # {}}

(* get_blobs_to_share orders by nothing: past the limit, any subset.  When *)
(* there is nothing to share the round is over.                            *)
SelectBlobs(n) ==
  /\ phase[n] = "select"
  /\ \E S \in SUBSET BlobsToShare(n) :
       /\ Cardinality(S) <= ShareLimit
       /\ S = BlobsToShare(n) \/ Cardinality(S) = ShareLimit
       /\ ann' = [ann EXCEPT ![n] = [NoAnnouncement EXCEPT
                    !.peers = IF S = {} THEN {} ELSE peers[n], !.todo = S]]
       /\ GoTo(n, IF S = {} THEN "take" ELSE "announce")
  /\ UNCHANGED <<row, sync_status, peers, mutation, queue, task, faults>>

(* get_pending_peers for the next blob; a peer that is not in the snapshot *)
(* is skipped.                                                             *)
SelectPeers(n, b) ==
  /\ phase[n] = "announce"
  /\ ann[n].targets = {}
  /\ b \in ann[n].todo
  /\ ann' = [ann EXCEPT ![n].todo = @ \ {b}, ![n].blob = b,
                        ![n].targets = PendingPeers(n, b) \cap ann[n].peers]
  /\ UNCHANGED <<row, sync_status, peers, mutation, queue, phase, task, faults>>

(* All blobs are through, and the loop sleeps until its next round.        *)
EndAnnounce(n) ==
  /\ phase[n] = "announce"
  /\ ann[n].targets = {} /\ ann[n].todo = {}
  /\ GoTo(n, "take")
  /\ ann' = [ann EXCEPT ![n] = NoAnnouncement]
  /\ UNCHANGED <<row, sync_status, peers, mutation, queue, task, faults>>

(* announce_blob: the call to a peer that is down fails at once, and is    *)
(* only logged.                                                            *)
AnnounceBlob(n, p) ==
  /\ phase[n] = "announce"
  /\ p \in ann[n].targets
  /\ ann' = [ann EXCEPT ![n].targets = @ \ {p},
                        ![n].to = IF Up(p) THEN p ELSE NoNode]
  /\ GoTo(n, IF Up(p) THEN "sent" ELSE "announce")
  /\ UNCHANGED <<row, sync_status, peers, mutation, queue, task, faults>>

(* handle_announce asks for the String id, so it sees text keys only ...   *)
AnnounceCheck(n) ==
  /\ phase[n] = "sent"
  /\ GoTo(n, IF row[ann[n].to][ann[n].blob]["text"] = "live"
             THEN "answered" ELSE "checked")
  /\ UNCHANGED <<row, sync_status, peers, mutation, queue, ann, task, faults>>

(* ... and queues the blob once it has the write lock.                     *)
AnnounceEnqueue(n) ==
  /\ phase[n] = "checked"
  /\ QueueBlobFetch(ann[n].to, ann[n].blob)
  /\ GoTo(n, "answered")
  /\ UNCHANGED <<row, sync_status, peers, mutation, ann, task, faults>>

(* A slip of announce_blobs: an accepted announcement is taken for a copy. *)
SetPending_AcceptedIsCompleted(n) ==
  /\ phase[n] = "answered"
  /\ SetBlobStatus(n, ann[n].blob, ann[n].to, "completed")
  /\ ann' = [ann EXCEPT ![n].to = NoNode]
  /\ GoTo(n, "announce")
  /\ UNCHANGED <<row, peers, mutation, queue, task, faults>>

(* set_blob_status_as_pending, whatever the answer said.                   *)
SetPending(n) ==
  /\ phase[n] = "answered"
  /\ SetBlobStatus(n, ann[n].blob, ann[n].to, "pending")
  /\ ann' = [ann EXCEPT ![n].to = NoNode]
  /\ GoTo(n, "announce")
  /\ UNCHANGED <<row, peers, mutation, queue, task, faults>>

-----------------------------------------------------------------------------
(* fetch_and_store_blob, and handle_fetch at the peer.                     *)

SetTask(n, b, t) == task' = [task EXCEPT ![n][b] = t]
SetPC(n, b, pc)  == SetTask(n, b, [task[n][b] EXCEPT !.pc = pc])

(* The peers are cloned, and does_blob_exist asks for the Uuid.            *)
StartTask(n, b) ==
  /\ task[n][b].pc = "start"
  /\ SetTask(n, b, [NoTask EXCEPT
                      !.todo = peers[n],
                      !.pc = IF row[n][b]["uuid"] = "live" THEN "mark" ELSE "try"])
  /\ UNCHANGED <<row, sync_status, peers, mutation, queue, phase, ann, faults>>

(* The blob is here: every peer is to get it.                              *)
MarkPeer(n, b, p) ==
  /\ task[n][b].pc = "mark"
  /\ p \in task[n][b].todo
  /\ StartBlobSyncWithPeer(n, b, p)
  /\ SetTask(n, b, [task[n][b] EXCEPT !.todo = @ \ {p}])
  /\ UNCHANGED <<row, peers, mutation, queue, phase, ann, faults>>

(* It is not: the peers are tried one by one, in no order.                 *)
TryPeer(n, b, p) ==
  /\ task[n][b].pc = "try"
  /\ p \in task[n][b].todo
  /\ StartBlobSyncWithPeer(n, b, p)
  /\ SetTask(n, b, [pc |-> IF Up(p) THEN "sent" ELSE "fail",
                    todo |-> task[n][b].todo \ {p}, to |-> p])
  /\ UNCHANGED <<row, peers, mutation, queue, phase, ann, faults>>

(* fetch_blob_by_id as it would be if it found the id under either key.    *)
ServeRead_EitherKey(n, b) ==
  /\ task[n][b].pc = "sent"
  /\ SetPC(n, b, IF \E k \in Keys : row[task[n][b].to][b][k] = "live"
                 THEN "read" ELSE "fail")
  /\ UNCHANGED <<row, sync_status, peers, mutation, queue, phase, ann, faults>>

(* A slip of fetch_blob_by_id: it does not ask whether the row is deleted. *)
ServeRead_Deleted(n, b) ==
  /\ task[n][b].pc = "sent"
  /\ SetPC(n, b, IF row[task[n][b].to][b]["uuid"] # "absent"
                 THEN "read" ELSE "fail")
  /\ UNCHANGED <<row, sync_status, peers, mutation, queue, phase, ann, faults>>

(* fetch_blob_by_id asks for the Uuid: rows under a text key are not seen. *)
ServeRead(n, b) ==
  /\ task[n][b].pc = "sent"
  /\ SetPC(n, b, IF row[task[n][b].to][b]["uuid"] = "live"
                 THEN "read" ELSE "fail")
  /\ UNCHANGED <<row, sync_status, peers, mutation, queue, phase, ann, faults>>

(* A slip of mark_blob_status_as_completed: the UPDATE names no peer.      *)
ServeMark_EveryPeer(n, b) ==
  /\ task[n][b].pc = "read"
  /\ sync_status' = [sync_status EXCEPT ![task[n][b].to][b] =
                       [p \in Nodes |-> IF @[p] = "none" THEN "none"
                                        ELSE "completed"]]
  /\ SetPC(n, b, "got")
  /\ UNCHANGED <<row, peers, mutation, queue, phase, ann, faults>>

(* mark_blob_status_as_completed, before the reply leaves.                 *)
ServeMark(n, b) ==
  /\ task[n][b].pc = "read"
  /\ SetBlobStatus(task[n][b].to, b, n, "completed")
  /\ SetPC(n, b, "got")
  /\ UNCHANGED <<row, peers, mutation, queue, phase, ann, faults>>

(* A slip of store_received_blob: INSERT OR REPLACE.                       *)
StoreReceivedBlob_Replaces(n, b) ==
  /\ task[n][b].pc = "got"
  /\ row' = [row EXCEPT ![n][b]["text"] = "live"]
  /\ SetPC(n, b, "stored")
  /\ UNCHANGED <<sync_status, peers, mutation, queue, phase, ann, faults>>

(* The reply arrives and store_received_blob inserts the row; when there   *)
(* is one under the text key, even a deleted one, the task ends in error.  *)
StoreReceivedBlob(n, b) ==
  /\ task[n][b].pc = "got"
  /\ IF row[n][b]["text"] = "absent"
     THEN /\ row' = [row EXCEPT ![n][b]["text"] = "live"]
          /\ SetPC(n, b, "stored")
     ELSE /\ SetTask(n, b, [NoTask EXCEPT !.pc = "end"])
          /\ UNCHANGED row
  /\ UNCHANGED <<sync_status, peers, mutation, queue, phase, ann, faults>>

SetCompleted(n, b) ==
  /\ task[n][b].pc = "stored"
  /\ SetBlobStatus(n, b, task[n][b].to, "completed")
  /\ SetTask(n, b, [NoTask EXCEPT !.pc = "end"])
  /\ UNCHANGED <<row, peers, mutation, queue, phase, ann, faults>>

(* A slip of fetch_and_store_blob: a peer without the blob is settled too. *)
SetFailed_AsCompleted(n, b) ==
  /\ task[n][b].pc = "fail"
  /\ SetBlobStatus(n, b, task[n][b].to, "completed")
  /\ SetTask(n, b, [task[n][b] EXCEPT !.pc = "try", !.to = NoNode])
  /\ UNCHANGED <<row, peers, mutation, queue, phase, ann, faults>>

(* Ok(None) or Err(_) from fetch_blob: on to the next peer.                *)
SetFailed(n, b) ==
  /\ task[n][b].pc = "fail"
  /\ SetBlobStatus(n, b, task[n][b].to, "failed")
  /\ SetTask(n, b, [task[n][b] EXCEPT !.pc = "try", !.to = NoNode])
  /\ UNCHANGED <<row, peers, mutation, queue, phase, ann, faults>>

(* A slip of fetch_and_store_blob: out of peers, it waits for a new one.   *)
EndTask_AwaitsPeers(n, b) ==
  /\ task[n][b].pc = "end"
  /\ phase[n] # "connect"
  /\ in_progress' = [in_progress EXCEPT ![n] = @ \ {b}]
  /\ SetTask(n, b, NoTask)
  /\ UNCHANGED <<row, sync_status, peers, mutation, blob_queue, phase, ann, faults>>

(* The task releases in_progress, under the write lock, and returns.       *)
EndTask(n, b) ==
  /\ \/ task[n][b].pc = "end"
     \/ task[n][b].pc \in {"mark", "try"} /\ task[n][b].todo = {}
  /\ phase[n] # "connect"
  /\ in_progress' = [in_progress EXCEPT ![n] = @ \ {b}]
  /\ SetTask(n, b, NoTask)
  /\ UNCHANGED <<row, sync_status, peers, mutation, blob_queue, phase, ann, faults>>

-----------------------------------------------------------------------------
(* handle_delete, called by whoever speaks the protocol: the node's own    *)
(* client has delete_blob, but nothing calls it.  Text keys only.          *)
HandleDelete(n, b) ==
  /\ Up(n)
  /\ row[n][b]["text"] = "live"
  /\ row' = [row EXCEPT ![n][b]["text"] = "deleted"]
  /\ UNCHANGED <<sync_status, peers, mutation, queue, phase, ann, task, faults>>

-----------------------------------------------------------------------------
(* handle_node_info.                                                       *)

(* A slip of handle_node_info: deleted rows are counted too.               *)
BlobCount_WithDeleted(n) ==
  Cardinality({r \in Blobs \X Keys : row[n][r[1]][r[2]] # "absent"})

(* COUNT over the live rows, under whatever key.                           *)
BlobCount(n) ==
  Cardinality({r \in Blobs \X Keys : row[n][r[1]][r[2]] = "live"})

-----------------------------------------------------------------------------
(* What may go wrong.                                                      *)

Fault(kind) ==
  /\ kind \in faults.may
  /\ faults.left > 0
  /\ faults' = [faults EXCEPT !.left = @ - 1]

(* A call fails before it does anything, or after it has done all of it:   *)
(* a lost connection, or a reply the client will not decode (one of more   *)
(* than 4 MB) or verify_received_blob rejects.                             *)
AnnounceFails(n) ==
  /\ \/ phase[n] = "sent" /\ Fault("request")
     \/ phase[n] = "answered" /\ Fault("reply")
  /\ GoTo(n, "announce")
  /\ ann' = [ann EXCEPT ![n].to = NoNode]
  /\ UNCHANGED <<row, sync_status, peers, mutation, queue, task>>

FetchFails(n, b) ==
  /\ \/ task[n][b].pc = "sent" /\ Fault("request")
     \/ task[n][b].pc = "got" /\ Fault("reply")
  /\ SetPC(n, b, "fail")
  /\ UNCHANGED <<row, sync_status, peers, mutation, queue, phase, ann>>

(* A statement of the task fails at this node and the task returns the     *)
(* error, or one of the handler at the other and the call fails.           *)
TaskDbError(n, b) ==
  /\ Fault("db")
  /\ \/ /\ task[n][b].pc \in {"start", "mark", "try", "got", "stored", "fail"}
        /\ SetTask(n, b, [NoTask EXCEPT !.pc = "end"])
     \/ /\ task[n][b].pc \in {"sent", "read"}
        /\ SetPC(n, b, "fail")
  /\ UNCHANGED <<row, sync_status, peers, mutation, queue, phase, ann>>

(* A statement of delete_blob fails.                                       *)
MutationDbError(b) ==
  /\ Fault("db")
  /\ mutation[b] \in {"checked", "queued"}
  /\ mutation' = [mutation EXCEPT ![b] = IF @ = "checked" THEN "idle" ELSE "error"]
  /\ UNCHANGED <<row, sync_status, peers, queue, phase, ann, task>>

(* What the other nodes see of a call to n when n ends: it fails, unless   *)
(* the answer is on its way already and is not lost.                       *)
CallersAfter(n, lost) ==
  /\ task' = [m \in Nodes |-> [b \in Blobs |->
       CASE m = n -> NoTask
         [] m # n /\ task[m][b].to = n
              /\ \/ task[m][b].pc \in {"sent", "read"}
                 \/ task[m][b].pc = "got" /\ lost -> [task[m][b] EXCEPT !.pc = "fail"]
         [] OTHER -> task[m][b]]]
  /\ LET cut(m) == /\ ann[m].to = n
                   /\ \/ phase[m] \in {"sent", "checked"}
                      \/ phase[m] = "answered" /\ lost
     IN  /\ phase' = [m \in Nodes |-> IF m = n THEN "down"
                                      ELSE IF cut(m) THEN "announce" ELSE phase[m]]
         /\ ann' = [m \in Nodes |-> IF m = n THEN NoAnnouncement
                                    ELSE IF cut(m) THEN [ann[m] EXCEPT !.to = NoNode]
                                    ELSE ann[m]]

(* The process ends: it is killed, or one of the tasks main selects on     *)
(* returns, as the sync loop does after any error of a statement of        *)
(* announce_blobs.  The tables stay, the SyncManager does not.             *)
Crash(n) ==
  /\ Up(n)
  /\ Fault("crash")
  /\ \E lost \in BOOLEAN : CallersAfter(n, lost)
  /\ peers' = [peers EXCEPT ![n] = {}]
  /\ blob_queue' = [blob_queue EXCEPT ![n] = <<>>]
  /\ in_progress' = [in_progress EXCEPT ![n] = {}]
  /\ mutation' = [b \in Blobs |->
                    IF Home[b] = n /\ mutation[b] # "none" THEN "idle"
                    ELSE mutation[b]]
  /\ UNCHANGED <<row, sync_status>>

(* The process starts again: SyncManager::new shakes hands with the        *)
(* configured peers that answer, and each of them adds this node, under    *)
(* its write lock.                                                         *)
Boot(n) ==
  /\ phase[n] = "down"
  /\ LET met == {p \in ConfigPeers[n] : Up(p)}
     IN  /\ \A p \in met : phase[p] # "connect"
         /\ peers' = [p \in Nodes |-> IF p = n THEN met
                                      ELSE IF p \in met THEN peers[p] \cup {n}
                                      ELSE peers[p]]
  /\ GoTo(n, "spawned")
  /\ UNCHANGED <<row, sync_status, mutation, queue, ann, task, faults>>
-----------------------------------------------------------------------------

LoopStep(n) ==
  \/ StartConnecting(n) \/ EndConnecting(n) \/ TakeBatch(n) \/ JoinAll(n)
  \/ SelectBlobs(n) \/ EndAnnounce(n)
  \/ \E b \in Blobs : SelectPeers(n, b)
  \/ \E p \in Nodes : AnnounceBlob(n, p)
  \/ AnnounceCheck(n) \/ AnnounceEnqueue(n) \/ SetPending(n)

TaskStep(n, b) ==
  \/ StartTask(n, b) \/ ServeRead(n, b) \/ ServeMark(n, b)
  \/ \E p \in Nodes : MarkPeer(n, b, p) \/ TryPeer(n, b, p)
  \/ StoreReceivedBlob(n, b) \/ SetCompleted(n, b) \/ SetFailed(n, b)
  \/ EndTask(n, b)

(* A mutation under way, as opposed to the user asking for one.            *)
MutationStep(b) ==
  QueueAdded(b) \/ UpdateDeleted(b) \/ QueueDeleted(b) \/ AnswerDelete(b)

Next ==
  \/ \E n \in Nodes : LoopStep(n) \/ AnnounceFails(n) \/ Crash(n) \/ Boot(n)
  \/ \E n \in Nodes, b \in Blobs :
       TaskStep(n, b) \/ FetchFails(n, b) \/ TaskDbError(n, b) \/ HandleDelete(n, b)
  \/ \E b \in Blobs :
       AddBlob(b) \/ DeleteBlob(b) \/ MutationStep(b) \/ MutationDbError(b)

Spec == Init /\ [][Next]_vars

(* The runtime polls the loop, the spawned tasks and the handlers of a     *)
(* node until they are through.  Nobody has to add or delete a blob, call  *)
(* handle_delete, or start a node again.                                   *)
Fairness ==
  /\ \A n \in Nodes : WF_vars(LoopStep(n))
  /\ \A n \in Nodes, b \in Blobs : WF_vars(TaskStep(n, b))
  /\ \A b \in Blobs : WF_vars(MutationStep(b))

FairSpec == Spec /\ Fairness

-----------------------------------------------------------------------------
(* Safety.                                                                 *)

LoopPhase(n) ==
  IF phase[n] = "down" THEN "spawned"
  ELSE IF phase[n] \in {"spawned", "connect", "take", "join"} THEN phase[n]
  ELSE "announce"

SQ(n) == INSTANCE SyncQueue WITH
  blob_queue  <- blob_queue[n],
  in_progress <- in_progress[n],
  running     <- Running(n),
  phase       <- LoopPhase(n)

(* Seen alone, each node is a SyncQueue: whatever its peers, its users and *)
(* its crashes do, its queue moves by the steps of queue_blob_fetch and    *)
(* process_sync_queue only, so what holds of SyncQueue holds of every node.*)
QueuesImplemented ==
  /\ \A n \in Nodes : SQ(n)!Init
  /\ [][\A n \in Nodes : [SQ(n)!Next]_(SQ(n)!vars)]_vars

(* A node has a blob if it has a live row of it under either key.          *)
Held(n, b) ==
  IF \E k \in Keys : row[n][b][k] = "live" THEN "live"
  ELSE IF \E k \in Keys : row[n][b][k] = "deleted" THEN "deleted"
  ELSE "absent"

(* The fetches whose reply is written, or has left.                        *)
Served == {d \in Nodes \X Blobs : task[d[1]][d[2]].pc \in {"read", "got"}}

Store == INSTANCE BlobStore WITH
  blobs <- [n \in Nodes |-> [b \in Blobs |-> Held(n, b)]],
  sent  <- Served

(* The network is a BlobStore, whatever is lost or crashes: although ids   *)
(* have two keys, fetches go to any peer and a deletion is neither         *)
(* announced nor waited for, nothing a node has deleted comes back to it,  *)
(* and once its home has deleted a blob only copies that were on their way *)
(* then are still stored.                                                  *)
StoreImplemented == Store!Init /\ [][Store!Next]_(Store!vars)

(* Once the home of a blob has deleted it, no node gets the blob but those *)
(* whose reply is written by then: no other fetch, queued, sent or still   *)
(* to be announced, ever finds it, at the home or at another node.         *)
DeletedIsNotCopied ==
  [][\A n \in Nodes, b \in Blobs :
       row[Home[b]][b]["uuid"] = "deleted" /\ <<n, b>> \notin Served
         => /\ <<n, b>> \notin Served'
            /\ Held(n, b)' = "live" => Held(n, b) = "live"]_vars

(* A deleted row stays deleted: neither a fetch that was under way when it *)
(* was deleted, nor an announcement made since, brings it back.            *)
TombstonesStay ==
  [][\A n \in Nodes, b \in Blobs, k \in Keys :
       row[n][b][k] = "deleted" => row'[n][b][k] = "deleted"]_vars

(* delete_blob puts the deleted blob on the fetch queue of its home, which *)
(* then asks its peers for it.  It never gets it back.                     *)
NoResurrection ==
  \A b \in Blobs :
    ~ /\ row[Home[b]][b]["uuid"] = "deleted"
      /\ row[Home[b]][b]["text"] = "live"

(* The count a node gives of its blobs is of blobs, not of rows: although  *)
(* a blob can have a row under either key, the home of a blob never takes  *)
(* a copy of it, and no other node has one under the uuid key.             *)
CountIsOfBlobs ==
  \A n \in Nodes :
    BlobCount(n) =
      Cardinality({b \in Blobs : \E k \in Keys : row[n][b][k] = "live"})

(* A node that says it has completed a fetch has stored the blob, even if  *)
(* it or the database failed between the two statements.                   *)
CompletedFetchIsStored ==
  \A b \in Blobs, n \in Nodes, p \in Nodes :
    n # Home[b] /\ sync_status[n][b][p] = "completed"
      => row[n][b]["text"] # "absent"

(* Nothing worse can happen than that requests are lost.                   *)
Mild == faults.may \subseteq {"request"}

(* What the home of a blob believes of a peer is so: completed means that  *)
(* the peer has it, or has the reply in hand that brings it.  handle_fetch *)
(* marks the peer before it replies, so this needs every reply to arrive.  *)
CompletedMeansDelivered ==
  \A b \in Blobs, p \in Nodes :
    sync_status[Home[b]][b][p] = "completed"
      => row[p][b]["text"] # "absent" \/ task[p][b].pc = "got"

(* It is so as long as only requests are lost: a peer that has accepted an *)
(* announcement, or whose fetch never came, is not taken for one that has  *)
(* the blob.                                                               *)
DeliveredIfMild == Mild => CompletedMeansDelivered

-----------------------------------------------------------------------------
(* Liveness.                                                               *)

Friends(n, p) == p \in peers[n] /\ n \in peers[p]

(* No node waits for ever: each loop comes round to its queue again,       *)
(* although loops, tasks and handlers wait for each other across nodes,    *)
(* calls are lost, statements fail, and the node waited for may end.       *)
RoundsRecur == \A n \in Nodes : []<>(phase[n] \in {"take", "down"})

(* Every added blob is marked for every peer of its home, unless it is     *)
(* deleted first.  The marks are made by a fetch of the home's own queue,  *)
(* which a crash loses, so nothing worse than a lost request may happen.   *)
AddedIsMarked ==
  \A b \in Blobs, p \in Nodes :
    Mild /\ row[Home[b]][b]["uuid"] = "live" /\ p \in peers[Home[b]]
      ~> \/ sync_status[Home[b]][b][p] # "none"
         \/ row[Home[b]][b]["uuid"] = "deleted"

(* Every peer a blob is marked for gets it, unless it is deleted first: a  *)
(* lost request is made up for by a later round.                           *)
Replicates ==
  \A b \in Blobs, p \in Nodes :
    Mild /\ sync_status[Home[b]][b][p] # "none" /\ Friends(Home[b], p)
      ~> \/ row[p][b]["text"] # "absent"
         \/ row[Home[b]][b]["uuid"] = "deleted"

-----------------------------------------------------------------------------
(* What the code or its documents say, and the code does not do.           *)

(* Every peer of a live blob is settled in the end: "announce each blob to *)
(* peers that don't have it".                                              *)
PeersSettle ==
  \A b \in Blobs, p \in Nodes :
    sync_status[Home[b]][b][p] # "none" /\ Friends(Home[b], p)
      ~> \/ sync_status[Home[b]][b][p] = "completed"
         \/ row[Home[b]][b]["uuid"] = "deleted"

(* handle_fetch and the blob query find a live blob at a node.             *)
Serves(n, b) == row[n][b]["uuid"] = "live"

(* A node that has a live copy of a blob serves it.                        *)
AnyNodeServes ==
  \A n \in Nodes, b \in Blobs :
    (\E k \in Keys : row[n][b][k] = "live") => Serves(n, b)

(* A deletion that is answered with an error has not happened.             *)
DeleteAnswered ==
  \A b \in Blobs :
    mutation[b] = "error" => row[Home[b]][b]["uuid"] = "live"
=============================================================================
