----------------------- MODULE ReplicationBatchProofs -----------------------
(***************************************************************************)
(* Proofs about the batches of the nodes: each node of the network is a    *)
(* SyncQueue, so a batch is over before the loop goes on; and therefore a  *)
(* fetch that has its reply in hand is not forgotten before it has stored  *)
(* the blob, which is why the home may believe the peer has it.  And about *)
(* what all of it amounts to: the network is a BlobStore.                  *)
(***************************************************************************)
EXTENDS ReplicationProofs, FiniteSetTheorems

-----------------------------------------------------------------------------
(* What SyncQueue sees of a node.                                          *)

LEMMA SameRunning ==
  ASSUME NEW m \in Nodes,
         \A b \in Blobs : task'[m][b].pc = "none" <=> task[m][b].pc = "none"
  PROVE  Running(m)' = Running(m)
BY DEF Running

LEMMA NothingSeen ==
  ASSUME NEW m \in Nodes,
         blob_queue'[m] = blob_queue[m], in_progress'[m] = in_progress[m],
         Running(m)' = Running(m), LoopPhase(m)' = LoopPhase(m)
  PROVE  UNCHANGED SQ(m)!vars
BY DEF SQ!vars

(* One more blob on the queue, or none if it is in progress.               *)
LEMMA QueueSeen ==
  ASSUME TypeOK, NEW n \in Nodes, NEW b \in Blobs, QueueBlobFetch(n, b),
         NEW m \in Nodes, Running(m)' = Running(m), LoopPhase(m)' = LoopPhase(m)
  PROVE  [SQ(m)!Next]_(SQ(m)!vars)
<1>0. /\ blob_queue \in [Nodes -> Seq(Blobs)]
      /\ in_progress \in [Nodes -> SUBSET Blobs]
  BY DEF TypeOK
<1>1. CASE m # n \/ b \in in_progress[n]
  <2>1. blob_queue'[m] = blob_queue[m] /\ in_progress'[m] = in_progress[m]
    BY <1>0, <1>1 DEF QueueBlobFetch, queue
  <2> QED
    BY <2>1, NothingSeen
<1>2. CASE m = n /\ b \notin in_progress[n]
  <2>1. /\ blob_queue'[m] = Append(blob_queue[m], b)
        /\ in_progress'[m] = in_progress[m] \cup {b}
    BY <1>0, <1>2 DEF QueueBlobFetch
  <2>2. LoopPhase(m) # "connect"
    BY <1>2 DEF QueueBlobFetch, LoopPhase
  <2>3. SQ(m)!QueueBlobFetch(b)
    BY <1>2, <2>1, <2>2 DEF SQ!QueueBlobFetch
  <2> QED
    BY <2>3 DEF SQ!Next
<1> QED
  BY <1>1, <1>2

LEMMA MutationSeen ==
  ASSUME TypeOK, NEW m \in Nodes, NEW b \in Blobs,
         AddBlob(b) \/ DeleteBlob(b) \/ MutationStep(b) \/ MutationDbError(b)
  PROVE  [SQ(m)!Next]_(SQ(m)!vars)
<1>1. UNCHANGED <<task, phase>>
  BY DEF AddBlob, DeleteBlob, MutationStep, MutationDbError, QueueAdded, UpdateDeleted,
         QueueDeleted, AnswerDelete
<1>2. Running(m)' = Running(m) /\ LoopPhase(m)' = LoopPhase(m)
  BY <1>1 DEF Running, LoopPhase
<1>3. UNCHANGED queue \/ QueueBlobFetch(Home[b], b)
  BY DEF AddBlob, DeleteBlob, MutationStep, MutationDbError, QueueAdded, UpdateDeleted,
         QueueDeleted, AnswerDelete
<1>4. CASE UNCHANGED queue
  BY <1>2, <1>4, NothingSeen DEF queue
<1>5. CASE QueueBlobFetch(Home[b], b)
  BY <1>2, <1>5, QueueSeen, ReplicationAssumption
<1> QED
  BY <1>3, <1>4, <1>5

(* A step that leaves the queue and the tasks alone, and the loop of m.    *)
LEMMA LoopQuiet ==
  ASSUME NEW m \in Nodes, UNCHANGED <<queue, task>>, LoopPhase(m)' = LoopPhase(m)
  PROVE  [SQ(m)!Next]_(SQ(m)!vars)
<1>1. Running(m)' = Running(m)
  BY DEF Running
<1> QED
  BY <1>1, NothingSeen DEF queue

LEMMA TakeSeen ==
  ASSUME TypeOK, NEW m \in Nodes, NEW n \in Nodes, TakeBatch(n)
  PROVE  [SQ(m)!Next]_(SQ(m)!vars)
<1>0. /\ blob_queue \in [Nodes -> Seq(Blobs)]
      /\ task \in [Nodes -> [Blobs -> Tasks]]
      /\ phase \in [Nodes -> Phases]
  BY DEF TypeOK
<1>1. CASE m # n
  <2>1. /\ blob_queue'[m] = blob_queue[m] /\ in_progress'[m] = in_progress[m]
        /\ task'[m] = task[m] /\ phase'[m] = phase[m]
    BY <1>0, <1>1 DEF TakeBatch, GoTo
  <2>2. Running(m)' = Running(m) /\ LoopPhase(m)' = LoopPhase(m)
    BY <2>1 DEF Running, LoopPhase
  <2> QED
    BY <2>1, <2>2, NothingSeen
<1>2. CASE m = n
  <2>1. /\ BatchSize(m) = SQ(m)!BatchSize
        /\ Batch(m) = SQ(m)!Batch
    BY DEF BatchSize, Batch, SQ!BatchSize, SQ!Batch, Range, SQ!Range
  <2>2. Batch(m) \subseteq Blobs
    <3> DEFINE q == blob_queue[m]
               k == BatchSize(m)
    <3>1. q \in Seq(Blobs) /\ k \in 0..Len(q)
      BY <1>0, ReplicationAssumption DEF BatchSize
    <3>2. SubSeq(q, 1, k) \in Seq(Blobs)
      <4>1. \A i \in 1..k : q[i] \in Blobs
        BY <3>1
      <4> HIDE DEF q, k
      <4> QED
        BY <3>1, <4>1, SubSeqProperties
    <3>3. Batch(m) = Range(SubSeq(q, 1, k))
      BY DEF Batch
    <3> HIDE DEF q, k
    <3> QED
      BY <3>2, <3>3 DEF Range
  <2>3. /\ task'[m] = [b \in Blobs |-> IF b \in Batch(m)
                                       THEN [NoTask EXCEPT !.pc = "start"] ELSE NoTask]
        /\ phase'[m] = IF BatchSize(m) = 0 THEN "select" ELSE "join"
        /\ blob_queue'[m] = SubSeq(blob_queue[m], BatchSize(m) + 1, Len(blob_queue[m]))
        /\ in_progress'[m] = in_progress[m]
        /\ phase[m] = "take"
    BY <1>0, <1>2 DEF TakeBatch, GoTo
  <2>4. Running(m)' = Batch(m)
    BY <2>2, <2>3 DEF Running, NoTask
  <2>5. LoopPhase(m) = "take" /\ LoopPhase(m)' = IF BatchSize(m) = 0 THEN "announce" ELSE "join"
    BY <2>3 DEF LoopPhase
  <2>6. SQ(m)!TakeBatch
    BY <2>1, <2>3, <2>4, <2>5 DEF SQ!TakeBatch
  <2> QED
    BY <2>6 DEF SQ!Next
<1> QED
  BY <1>1, <1>2

(* The steps of a loop, seen from its own node and from the others.        *)
LEMMA LoopSeen ==
  ASSUME TypeOK, Addressed, NEW m \in Nodes, NEW n \in Nodes,
         LoopStep(n) \/ AnnounceFails(n) \/ Boot(n)
  PROVE  [SQ(m)!Next]_(SQ(m)!vars)
<1>0. phase \in [Nodes -> Phases] /\ task \in [Nodes -> [Blobs -> Tasks]]
  BY DEF TypeOK
<1>1. CASE TakeBatch(n)
  BY <1>1, TakeSeen
<1>2. CASE AnnounceEnqueue(n)
  <2>1. /\ phase[n] = "checked" /\ QueueBlobFetch(ann[n].to, ann[n].blob)
        /\ phase' = [phase EXCEPT ![n] = "answered"] /\ UNCHANGED task
    BY <1>2 DEF AnnounceEnqueue, GoTo
  <2>2. ann[n].to \in Nodes /\ ann[n].blob \in Blobs
    BY <2>1 DEF Addressed
  <2>3. LoopPhase(m)' = LoopPhase(m) /\ Running(m)' = Running(m)
    BY <1>0, <2>1 DEF LoopPhase, Running
  <2> QED
    BY <2>1, <2>2, <2>3, QueueSeen
<1>3. CASE ~TakeBatch(n) /\ ~AnnounceEnqueue(n)
  <2>1. /\ UNCHANGED <<queue, task>>
        /\ \E to : phase' = [phase EXCEPT ![n] = to] \/ UNCHANGED phase
    BY <1>3 DEF LoopStep, StartConnecting, EndConnecting, JoinAll, SelectBlobs, SelectPeers,
                EndAnnounce, AnnounceBlob, AnnounceCheck, SetPending, AnnounceFails, Boot, GoTo
  <2>2. CASE m # n
    <3>1. phase'[m] = phase[m]
      BY <1>0, <2>1, <2>2
    <3>2. LoopPhase(m)' = LoopPhase(m)
      BY <3>1 DEF LoopPhase
    <3> QED
      BY <2>1, <3>2, LoopQuiet
  <2>3. CASE m = n
    <3>0. /\ Running(m)' = Running(m)
          /\ blob_queue'[m] = blob_queue[m] /\ in_progress'[m] = in_progress[m]
      BY <2>1 DEF Running, queue
    <3>1. CASE StartConnecting(n)
      <4>1. LoopPhase(m) = "spawned" /\ LoopPhase(m)' = "connect"
        BY <1>0, <2>3, <3>1 DEF StartConnecting, GoTo, LoopPhase
      <4>2. SQ(m)!StartConnecting
        BY <3>0, <4>1 DEF SQ!StartConnecting
      <4> QED
        BY <4>2 DEF SQ!Next
    <3>2. CASE EndConnecting(n)
      <4>1. LoopPhase(m) = "connect" /\ LoopPhase(m)' = "take"
        BY <1>0, <2>3, <3>2 DEF EndConnecting, GoTo, LoopPhase
      <4>2. SQ(m)!EndConnecting
        BY <3>0, <4>1 DEF SQ!EndConnecting
      <4> QED
        BY <4>2 DEF SQ!Next
    <3>3. CASE JoinAll(n)
      <4>1. LoopPhase(m) = "join" /\ LoopPhase(m)' = "announce" /\ Running(m) = {}
        BY <1>0, <2>3, <3>3 DEF JoinAll, GoTo, LoopPhase
      <4>2. SQ(m)!JoinAll
        BY <3>0, <4>1 DEF SQ!JoinAll
      <4> QED
        BY <4>2 DEF SQ!Next
    <3>4. CASE SelectBlobs(n) \/ EndAnnounce(n)
      <4>1. /\ phase[n] \in {"select", "announce"}
            /\ \E to \in {"take", "announce"} : phase' = [phase EXCEPT ![n] = to]
        BY <3>4 DEF SelectBlobs, EndAnnounce, GoTo
      <4>2. LoopPhase(m) = "announce" /\ LoopPhase(m)' \in {"take", "announce"}
        BY <1>0, <2>3, <4>1 DEF LoopPhase
      <4>3. CASE LoopPhase(m)' = "announce"
        BY <2>1, <4>2, <4>3, LoopQuiet
      <4>4. CASE LoopPhase(m)' = "take"
        <5>1. SQ(m)!EndAnnounce
          BY <3>0, <4>2, <4>4 DEF SQ!EndAnnounce
        <5> QED
          BY <5>1 DEF SQ!Next
      <4> QED
        BY <4>2, <4>3, <4>4
    <3>5. CASE \/ AnnounceCheck(n) \/ SetPending(n) \/ AnnounceFails(n)
               \/ \E b \in Blobs : SelectPeers(n, b)
               \/ \E p \in Nodes : AnnounceBlob(n, p)
      <4>1. /\ phase[n] \in {"announce", "sent", "answered"}
            /\ \/ UNCHANGED phase
               \/ \E to \in {"announce", "sent", "checked", "answered"} :
                    phase' = [phase EXCEPT ![n] = to]
        BY <3>5 DEF AnnounceCheck, SetPending, AnnounceFails, SelectPeers, AnnounceBlob, GoTo
      <4>2. LoopPhase(m) = "announce" /\ LoopPhase(m)' = "announce"
        BY <1>0, <2>3, <4>1 DEF LoopPhase
      <4> QED
        BY <2>1, <4>2, LoopQuiet
    <3>6. CASE Boot(n)
      <4>1. LoopPhase(m) = "spawned" /\ LoopPhase(m)' = "spawned"
        BY <1>0, <2>3, <3>6 DEF Boot, GoTo, LoopPhase
      <4> QED
        BY <2>1, <4>1, LoopQuiet
    <3> QED
      BY <1>3, <3>1, <3>2, <3>3, <3>4, <3>5, <3>6 DEF LoopStep
  <2> QED
    BY <2>2, <2>3
<1> QED
  BY <1>1, <1>2, <1>3

(* A crash is a restart of the queue of the node, and nothing to the       *)
(* queues of the others.                                                   *)
LEMMA CrashSeen ==
  ASSUME TypeOK, NEW m \in Nodes, NEW n \in Nodes, Crash(n)
  PROVE  [SQ(m)!Next]_(SQ(m)!vars)
<1>0. /\ task \in [Nodes -> [Blobs -> Tasks]] /\ phase \in [Nodes -> Phases]
      /\ blob_queue \in [Nodes -> Seq(Blobs)] /\ in_progress \in [Nodes -> SUBSET Blobs]
  BY DEF TypeOK
<1>1. PICK lost \in BOOLEAN : CallersAfter(n, lost)
  BY DEF Crash
<1>2. CASE m = n
  <2>1. \A b \in Blobs : task'[m][b] = NoTask
    BY <1>1, <1>2 DEF CallersAfter
  <2>2. Running(m)' = {}
    BY <2>1 DEF Running, NoTask
  <2>3. phase'[m] = "down"
    BY <1>1, <1>2 DEF CallersAfter
  <2>4. LoopPhase(m)' = "spawned"
    BY <2>3 DEF LoopPhase
  <2>5. blob_queue'[m] = <<>> /\ in_progress'[m] = {}
    BY <1>0, <1>2 DEF Crash
  <2>6. SQ(m)!Restart
    BY <2>2, <2>4, <2>5 DEF SQ!Restart
  <2> QED
    BY <2>6 DEF SQ!Next
<1>3. CASE m # n
  <2>1. ASSUME NEW b \in Blobs
        PROVE  task'[m][b].pc = "none" <=> task[m][b].pc = "none"
    <3>1. \/ task'[m][b] = task[m][b]
          \/ /\ task'[m][b] = [task[m][b] EXCEPT !.pc = "fail"]
             /\ task[m][b].pc \in {"sent", "read", "got"}
      BY <1>1, <1>3 DEF CallersAfter
    <3>2. task[m][b] \in Tasks
      BY <1>0
    <3> QED
      BY <3>1, <3>2 DEF Tasks
  <2>2. Running(m)' = Running(m)
    BY <2>1, SameRunning
  <2>3. \/ phase'[m] = phase[m]
        \/ phase[m] \in {"sent", "checked", "answered"} /\ phase'[m] = "announce"
    BY <1>1, <1>3 DEF CallersAfter
  <2>4. LoopPhase(m)' = LoopPhase(m)
    BY <2>3 DEF LoopPhase
  <2>5. blob_queue'[m] = blob_queue[m] /\ in_progress'[m] = in_progress[m]
    BY <1>0, <1>3 DEF Crash
  <2> QED
    BY <2>2, <2>4, <2>5, NothingSeen
<1> QED
  BY <1>2, <1>3

(* A task that has begun and has not ended is not seen to move.            *)
LEMMA TaskSeen ==
  ASSUME TypeOK, NEW m \in Nodes, NEW n \in Nodes, NEW b \in Blobs,
         TaskStep(n, b) \/ FetchFails(n, b) \/ TaskDbError(n, b) \/ HandleDelete(n, b)
  PROVE  [SQ(m)!Next]_(SQ(m)!vars)
<1>0. /\ task \in [Nodes -> [Blobs -> Tasks]] /\ task[n][b] \in Tasks
      /\ in_progress \in [Nodes -> SUBSET Blobs]
  BY DEF TypeOK
<1>1. UNCHANGED <<phase, blob_queue>>
  BY DEF TaskStep, FetchFails, TaskDbError, HandleDelete, StartTask, MarkPeer, TryPeer,
         ServeRead, ServeMark, StoreReceivedBlob, SetCompleted, SetFailed, EndTask, queue
<1>2. LoopPhase(m)' = LoopPhase(m)
  BY <1>1 DEF LoopPhase
<1>3. CASE EndTask(n, b)
  <2>1. /\ task[n][b].pc # "none"
        /\ in_progress' = [in_progress EXCEPT ![n] = @ \ {b}]
        /\ task' = [task EXCEPT ![n][b] = NoTask]
    BY <1>3 DEF EndTask, SetTask
  <2>2. CASE m = n
    <3>1. Running(m)' = Running(m) \ {b} /\ b \in Running(m)
      BY <1>0, <2>1, <2>2 DEF Running, NoTask
    <3>2. in_progress'[m] = in_progress[m] \ {b}
      BY <1>0, <2>1, <2>2
    <3>3. SQ(m)!EndTask(b)
      BY <1>1, <1>2, <3>1, <3>2 DEF SQ!EndTask
    <3> QED
      BY <3>3 DEF SQ!Next
  <2>3. CASE m # n
    <3>1. Running(m)' = Running(m) /\ in_progress'[m] = in_progress[m]
      BY <1>0, <2>1, <2>3 DEF Running
    <3> QED
      BY <1>1, <1>2, <3>1, NothingSeen
  <2> QED
    BY <2>2, <2>3
<1>4. CASE ~EndTask(n, b)
  <2>1. in_progress' = in_progress
    BY <1>4 DEF TaskStep, FetchFails, TaskDbError, HandleDelete, StartTask, MarkPeer,
                TryPeer, ServeRead, ServeMark, StoreReceivedBlob, SetCompleted, SetFailed,
                queue
  <2>2. CASE HandleDelete(n, b)
    BY <1>1, <1>2, <2>1, <2>2, LoopQuiet DEF HandleDelete, queue
  <2>3. CASE ~HandleDelete(n, b)
    <3>1. task[n][b].pc # "none"
      BY <1>4, <2>3 DEF TaskStep, FetchFails, TaskDbError, StartTask, MarkPeer, TryPeer,
                        ServeRead, ServeMark, StoreReceivedBlob, SetCompleted, SetFailed
    <3>2. \E t : task' = [task EXCEPT ![n][b] = t] /\ t.pc # "none"
      <4>1. ASSUME NEW pc, SetPC(n, b, pc), pc # "none"
            PROVE  \E t : task' = [task EXCEPT ![n][b] = t] /\ t.pc # "none"
        <5>1. [task[n][b] EXCEPT !.pc = pc].pc # "none"
          BY <1>0, <4>1 DEF Tasks
        <5> QED
          BY <4>1, <5>1 DEF SetPC, SetTask
      <4>2. ASSUME NEW t, SetTask(n, b, t), t.pc # "none"
            PROVE  \E u : task' = [task EXCEPT ![n][b] = u] /\ u.pc # "none"
        BY <4>2 DEF SetTask
      <4>3. [NoTask EXCEPT !.pc = "end"].pc # "none"
        BY DEF NoTask
      <4>4. CASE StartTask(n, b)
        BY <4>2, <4>4 DEF StartTask, NoTask
      <4>5. CASE ServeRead(n, b) \/ ServeMark(n, b) \/ FetchFails(n, b)
        BY <4>1, <4>5 DEF ServeRead, ServeMark, FetchFails
      <4>6. CASE StoreReceivedBlob(n, b)
        BY <4>1, <4>2, <4>3, <4>6 DEF StoreReceivedBlob
      <4>7. CASE SetCompleted(n, b)
        BY <4>2, <4>3, <4>7 DEF SetCompleted
      <4>8. CASE TaskDbError(n, b)
        BY <4>1, <4>2, <4>3, <4>8 DEF TaskDbError
      <4>9. CASE SetFailed(n, b)
        <5>1. [task[n][b] EXCEPT !.pc = "try", !.to = NoNode].pc # "none"
          BY <1>0 DEF Tasks
        <5> QED
          BY <4>2, <4>9, <5>1 DEF SetFailed
      <4>10. ASSUME NEW p \in Nodes, TryPeer(n, b, p)
             PROVE  \E t : task' = [task EXCEPT ![n][b] = t] /\ t.pc # "none"
        BY <4>2, <4>10 DEF TryPeer
      <4>11. ASSUME NEW p \in Nodes, MarkPeer(n, b, p)
             PROVE  \E t : task' = [task EXCEPT ![n][b] = t] /\ t.pc # "none"
        <5>1. [task[n][b] EXCEPT !.todo = @ \ {p}].pc # "none"
          BY <1>0, <3>1 DEF Tasks
        <5> QED
          BY <4>2, <4>11, <5>1 DEF MarkPeer
      <4> QED
        BY <1>4, <2>3, <4>4, <4>5, <4>6, <4>7, <4>8, <4>9, <4>10, <4>11 DEF TaskStep
    <3>3. \A c \in Blobs : task'[m][c].pc = "none" <=> task[m][c].pc = "none"
      BY <1>0, <3>1, <3>2
    <3> QED
      BY <1>1, <1>2, <2>1, <3>3, SameRunning, NothingSeen
  <2> QED
    BY <2>2, <2>3
<1> QED
  BY <1>3, <1>4

LEMMA StepSeen ==
  ASSUME TypeOK, Addressed, [Next]_vars, NEW m \in Nodes
  PROVE  [SQ(m)!Next]_(SQ(m)!vars)
<1>1. CASE UNCHANGED vars
  <2>1. UNCHANGED <<queue, task>> /\ LoopPhase(m)' = LoopPhase(m)
    BY <1>1 DEF vars, queue, LoopPhase
  <2> QED
    BY <2>1, LoopQuiet
<1> QED
  BY <1>1, MutationSeen, LoopSeen, CrashSeen, TaskSeen DEF Next

(* Each node is a SyncQueue, whatever the others do and whatever fails     *)
(* (node_api/sync.rs, queue_blob_fetch and process_sync_queue).            *)
THEOREM EachNodeIsASyncQueue == Spec => QueuesImplemented
<1>1. Init => \A n \in Nodes : SQ(n)!Init
  BY DEF Init, SQ!Init, Running, NoTask, LoopPhase
<1>2. TypeOK /\ Addressed /\ [Next]_vars
        => [\A n \in Nodes : [SQ(n)!Next]_(SQ(n)!vars)]_vars
  BY StepSeen
<1>3. Spec => [](TypeOK /\ Addressed)
  BY InitTypeOK, NextTypeOK, NextAddressed, PTL DEF Spec
<1> QED
  BY <1>1, <1>2, <1>3, PTL DEF Spec, QueuesImplemented

-----------------------------------------------------------------------------
(* What the home believes of a peer.                                       *)

(* A batch is joined before the loop goes on.                              *)
JoinedFirst == \A n \in Nodes : phase[n] # "join" => Running(n) = {}

LEMMA NextJoined ==
  ASSUME TypeOK, Addressed, JoinedFirst, [Next]_vars
  PROVE  JoinedFirst'
<1> SUFFICES ASSUME NEW m \in Nodes, phase'[m] # "join"
             PROVE  Running(m)' = {}
  BY DEF JoinedFirst
<1>1. LoopPhase(m)' # "join" /\ (LoopPhase(m) = "join" => phase[m] = "join")
  BY DEF LoopPhase
<1>2. LoopPhase(m) # "join" => Running(m) = {}
  BY DEF JoinedFirst, LoopPhase
<1>3. CASE UNCHANGED SQ(m)!vars
  BY <1>1, <1>2, <1>3 DEF SQ!vars
<1>4. CASE SQ(m)!Next
  <2>1. CASE SQ(m)!TakeBatch
    <3>1. SQ(m)!BatchSize = 0 /\ Running(m)' = SQ(m)!Batch
      BY <1>1, <2>1 DEF SQ!TakeBatch
    <3>2. SubSeq(blob_queue[m], 1, 0) = <<>>
      BY SubSeqEmpty
    <3>3. SQ(m)!Batch = {}
      BY <3>1, <3>2 DEF SQ!Batch, SQ!Range
    <3> QED
      BY <3>1, <3>3
  <2>2. CASE ~SQ(m)!TakeBatch
    BY <1>1, <1>2, <1>4, <2>2
    DEF SQ!Next, SQ!QueueBlobFetch, SQ!EndTask, SQ!StartConnecting, SQ!EndConnecting,
        SQ!JoinAll, SQ!EndAnnounce, SQ!Restart
  <2> QED
    BY <2>1, <2>2
<1> QED
  BY <1>3, <1>4, StepSeen

(* A reply in hand is stored: no fault but a lost request can happen, and  *)
(* no new batch replaces the task.                                         *)
LEMMA ReplyIsStored ==
  ASSUME IInv, JoinedFirst, Mild, [Next]_vars,
         NEW p \in Nodes, NEW b \in Blobs, task[p][b].pc = "got"
  PROVE  task'[p][b].pc = "got" \/ row'[p][b]["text"] # "absent"
<1>0. /\ task \in [Nodes -> [Blobs -> Tasks]] /\ task[p][b] \in Tasks
      /\ row \in [Nodes -> [Blobs -> [Keys -> RowStates]]] /\ "text" \in Keys
  BY DEF IInv, TypeOK, Keys
<1>1. ASSUME NEW n \in Nodes, LoopStep(n) \/ AnnounceFails(n) \/ Boot(n)
      PROVE  task'[p][b].pc = "got"
  <2>1. CASE TakeBatch(n)
    <3>1. phase[n] # "join" /\ (p # n => task'[p] = task[p])
      BY <1>0, <2>1 DEF TakeBatch
    <3>2. Running(p) # {}
      BY DEF Running
    <3> QED
      BY <3>1, <3>2 DEF JoinedFirst
  <2>2. CASE ~TakeBatch(n)
    BY <1>1, <2>2 DEF LoopStep, StartConnecting, EndConnecting, JoinAll, SelectBlobs,
      SelectPeers, EndAnnounce, AnnounceBlob, AnnounceCheck, AnnounceEnqueue, SetPending,
      AnnounceFails, Boot
  <2> QED
    BY <2>1, <2>2
<1>2. ASSUME NEW n \in Nodes, Crash(n)
      PROVE  FALSE
  BY <1>2 DEF Crash, Fault, Mild
<1>3. ASSUME NEW c \in Blobs,
             AddBlob(c) \/ DeleteBlob(c) \/ MutationStep(c) \/ MutationDbError(c)
      PROVE  UNCHANGED task
  BY <1>3 DEF AddBlob, DeleteBlob, MutationStep, MutationDbError, QueueAdded,
              UpdateDeleted, QueueDeleted, AnswerDelete
<1>4. ASSUME NEW n \in Nodes, NEW c \in Blobs, HandleDelete(n, c)
      PROVE  UNCHANGED task
  BY <1>4 DEF HandleDelete
<1>5. ASSUME NEW n \in Nodes, NEW c \in Blobs,
             TaskStep(n, c) \/ FetchFails(n, c) \/ TaskDbError(n, c)
      PROVE  task'[p][b].pc = "got" \/ row'[p][b]["text"] # "absent"
  <2>1. CASE <<p, b>> # <<n, c>>
    <3>1. PICK t : task' = [task EXCEPT ![n][c] = t]
      BY <1>5 DEF TaskStep, FetchFails, TaskDbError, StartTask, MarkPeer, TryPeer,
        ServeRead, ServeMark, StoreReceivedBlob, SetCompleted, SetFailed, EndTask, SetTask,
        SetPC
    <3> QED
      BY <1>0, <2>1, <3>1
  <2>2. CASE p = n /\ b = c
    <3>1. StoreReceivedBlob(n, c)
      BY <1>5, <2>2 DEF TaskStep, FetchFails, TaskDbError, Fault, Mild, StartTask, MarkPeer,
        TryPeer, ServeRead, ServeMark, SetCompleted, SetFailed, EndTask
    <3>2. CASE row[p][b]["text"] = "absent"
      <4>1. row' = [row EXCEPT ![p][b]["text"] = "live"]
        BY <2>2, <3>1, <3>2 DEF StoreReceivedBlob
      <4> QED
        BY <1>0, <4>1
    <3>3. CASE row[p][b]["text"] # "absent"
      BY <3>3, RowsStay
    <3> QED
      BY <3>2, <3>3
  <2> QED
    BY <2>1, <2>2
<1>6. CASE UNCHANGED vars
  BY <1>6 DEF vars
<1> QED
  BY <1>1, <1>2, <1>3, <1>4, <1>5, <1>6 DEF Next

(* The home of a blob marks a peer completed only in handle_fetch, and the *)
(* task of that peer then has the reply.                                   *)
LEMMA HomeMarks ==
  ASSUME IInv, [Next]_vars, NEW c \in Blobs, NEW p \in Nodes,
         sync_status'[Home[c]][c][p] = "completed"
  PROVE  \/ sync_status[Home[c]][c][p] = "completed"
         \/ task'[p][c].pc = "got"
<1> DEFINE m == Home[c]
           Done == sync_status[m][c][p] = "completed"
<1>0. /\ sync_status \in [Nodes -> [Blobs -> [Nodes -> Statuses]]]
      /\ m \in Nodes
  BY ReplicationAssumption DEF IInv, TypeOK
<1>1. ASSUME NEW n, NEW b, NEW q, NEW s, SetBlobStatus(n, b, q, s)
      PROVE  Done \/ (m = n /\ c = b /\ p = q /\ s = "completed")
  BY <1>0, <1>1 DEF SetBlobStatus
<1>2. ASSUME NEW n, NEW b, NEW q, StartBlobSyncWithPeer(n, b, q)
      PROVE  Done
  BY <1>0, <1>2 DEF StartBlobSyncWithPeer
<1>3. ASSUME NEW n \in Nodes, LoopStep(n) \/ AnnounceFails(n) \/ Crash(n) \/ Boot(n)
      PROVE  Done
  <2>1. CASE SetPending(n)
    BY <1>1, <2>1 DEF SetPending
  <2>2. CASE ~SetPending(n)
    <3>1. UNCHANGED sync_status
      BY <1>3, <2>2
      DEF LoopStep, StartConnecting, EndConnecting, TakeBatch, JoinAll,
          SelectBlobs, SelectPeers, EndAnnounce, AnnounceBlob, AnnounceCheck,
          AnnounceEnqueue, AnnounceFails, Crash, Boot
    <3> QED
      BY <3>1
  <2> QED
    BY <2>1, <2>2
<1>4. ASSUME NEW b \in Blobs,
             AddBlob(b) \/ DeleteBlob(b) \/ MutationStep(b) \/ MutationDbError(b)
      PROVE  UNCHANGED sync_status
  BY <1>4 DEF AddBlob, DeleteBlob, MutationStep, MutationDbError, QueueAdded,
              UpdateDeleted, QueueDeleted, AnswerDelete
<1>5. ASSUME NEW n \in Nodes, NEW b \in Blobs,
             \/ TaskStep(n, b) \/ FetchFails(n, b) \/ TaskDbError(n, b)
             \/ HandleDelete(n, b)
      PROVE  Done \/ task'[p][c].pc = "got"
  <2>1. CASE ServeMark(n, b)
    <3>1. task'[n][b].pc = "got"
      BY <2>1, TaskPoint DEF ServeMark, IInv
    <3>2. SetBlobStatus(task[n][b].to, b, n, "completed")
      BY <2>1 DEF ServeMark
    <3> QED
      BY <1>1, <3>1, <3>2
  <2>2. CASE SetCompleted(n, b)
    <3>1. task[n][b].pc = "stored" /\ SetBlobStatus(n, b, task[n][b].to, "completed")
      BY <2>2 DEF SetCompleted
    <3>2. n # Home[b]
      BY <3>1 DEF IInv, ServedByHome, NotItself
    <3> QED
      BY <1>1, <3>1, <3>2
  <2>3. CASE SetFailed(n, b)
    BY <1>1, <2>3 DEF SetFailed
  <2>4. CASE \E q \in Nodes : MarkPeer(n, b, q) \/ TryPeer(n, b, q)
    BY <1>2, <2>4 DEF MarkPeer, TryPeer
  <2>5. CASE \/ StartTask(n, b) \/ ServeRead(n, b) \/ StoreReceivedBlob(n, b)
             \/ EndTask(n, b) \/ FetchFails(n, b) \/ TaskDbError(n, b)
             \/ HandleDelete(n, b)
    <3>1. UNCHANGED sync_status
      BY <2>5 DEF StartTask, ServeRead, StoreReceivedBlob, EndTask, FetchFails,
                  TaskDbError, HandleDelete
    <3> QED
      BY <3>1
  <2> QED
    BY <1>5, <2>1, <2>2, <2>3, <2>4, <2>5 DEF TaskStep
<1>6. CASE UNCHANGED vars
  BY <1>6 DEF vars
<1> QED
  BY <1>3, <1>4, <1>5, <1>6 DEF Next

(* The kinds of faults that may happen never change.                       *)
LEMMA MildStays == TypeOK /\ [Next]_vars => Mild' = Mild
<1> SUFFICES ASSUME TypeOK, [Next]_vars
             PROVE  faults'.may = faults.may
  BY DEF Mild
<1>1. faults \in [may : FaultModels, left : 0..MaxFaults]
  BY DEF TypeOK
<1>2. ASSUME NEW kind, Fault(kind)
      PROVE  faults'.may = faults.may
  BY <1>1, <1>2 DEF Fault
<1>3. ASSUME NEW n \in Nodes, LoopStep(n) \/ AnnounceFails(n) \/ Crash(n) \/ Boot(n)
      PROVE  faults'.may = faults.may
  BY <1>2, <1>3 DEF LoopStep, AnnounceFails, Crash, Boot, StartConnecting, EndConnecting,
    TakeBatch, JoinAll, SelectBlobs, SelectPeers, EndAnnounce, AnnounceBlob, AnnounceCheck,
    AnnounceEnqueue, SetPending
<1>4. ASSUME NEW n \in Nodes, NEW b \in Blobs,
             \/ TaskStep(n, b) \/ FetchFails(n, b) \/ TaskDbError(n, b)
             \/ HandleDelete(n, b)
      PROVE  faults'.may = faults.may
  BY <1>2, <1>4 DEF TaskStep, FetchFails, TaskDbError, HandleDelete, StartTask, MarkPeer,
    TryPeer, ServeRead, ServeMark, StoreReceivedBlob, SetCompleted, SetFailed, EndTask
<1>5. ASSUME NEW b \in Blobs,
             AddBlob(b) \/ DeleteBlob(b) \/ MutationStep(b) \/ MutationDbError(b)
      PROVE  faults'.may = faults.may
  BY <1>2, <1>5 DEF AddBlob, DeleteBlob, MutationStep, MutationDbError, QueueAdded,
    UpdateDeleted, QueueDeleted, AnswerDelete
<1>6. CASE UNCHANGED vars
  BY <1>6 DEF vars
<1> QED
  BY <1>3, <1>4, <1>5, <1>6 DEF Next

(* Where nothing worse can happen than that requests are lost, a peer that *)
(* the home of a blob has marked completed (server.rs:112) has the blob,   *)
(* or is about to store it.                                                *)
THEOREM CompletedIsDelivered == Spec => []DeliveredIfMild
<1> DEFINE Inv == IInv /\ JoinedFirst /\ DeliveredIfMild
<1>1. Init => Inv
  <2>1. Init => JoinedFirst
    BY DEF Init, JoinedFirst, Running, NoTask
  <2>2. Init => CompletedMeansDelivered
    BY ReplicationAssumption DEF Init, CompletedMeansDelivered
  <2> QED
    BY <2>1, <2>2, InitIInv DEF DeliveredIfMild
<1>2. Inv /\ [Next]_vars => Inv'
  <2> SUFFICES ASSUME Inv, [Next]_vars
               PROVE  Inv'
    OBVIOUS
  <2>1. IInv' /\ JoinedFirst'
    BY NextIInv, NextJoined DEF IInv
  <2>2. ASSUME Mild' PROVE CompletedMeansDelivered'
    <3>1. Mild /\ CompletedMeansDelivered
      BY <2>2, MildStays DEF IInv, DeliveredIfMild
    <3> SUFFICES ASSUME NEW b \in Blobs, NEW p \in Nodes,
                        sync_status'[Home[b]][b][p] = "completed"
                 PROVE  row'[p][b]["text"] # "absent" \/ task'[p][b].pc = "got"
      BY DEF CompletedMeansDelivered
    <3>2. CASE task'[p][b].pc = "got"
      BY <3>2
    <3>3. CASE sync_status[Home[b]][b][p] = "completed"
      <4>1. row[p][b]["text"] # "absent" \/ task[p][b].pc = "got"
        BY <3>1, <3>3 DEF CompletedMeansDelivered
      <4> QED
        BY <3>1, <4>1, RowsStay, ReplyIsStored
    <3> QED
      BY <3>2, <3>3, HomeMarks
  <2> QED
    BY <2>1, <2>2 DEF DeliveredIfMild
<1>3. Inv => DeliveredIfMild
  OBVIOUS
<1> HIDE DEF Inv
<1> QED
  BY <1>1, <1>2, <1>3, PTL DEF Spec

-----------------------------------------------------------------------------
(* What a node says of itself.                                             *)

(* The count of the live rows (server.rs:216) is the number of live blobs, *)
(* for any finite set of blobs.                                            *)
THEOREM RowsCountBlobs ==
  ASSUME IsFiniteSet(Blobs)
  PROVE  Spec => []CountIsOfBlobs
<1>1. IInv => CountIsOfBlobs
  <2> SUFFICES ASSUME IInv, NEW n \in Nodes
               PROVE  BlobCount(n) =
                        Cardinality({b \in Blobs : \E k \in Keys : row[n][b][k] = "live"})
    BY DEF CountIsOfBlobs
  <2> DEFINE B == {b \in Blobs : \E k \in Keys : row[n][b][k] = "live"}
             R == {r \in Blobs \X Keys : row[n][r[1]][r[2]] = "live"}
             key(b) == IF row[n][b]["uuid"] = "live" THEN "uuid" ELSE "text"
             f == [b \in B |-> <<b, key(b)>>]
  <2>1. ASSUME NEW b \in Blobs, NEW k \in Keys, row[n][b][k] = "live"
        PROVE  k = key(b)
    <3>1. ~(row[n][b]["uuid"] = "live" /\ row[n][b]["text"] = "live")
      BY DEF IInv, UuidAtHome, HomeHasNoText
    <3> QED
      BY <2>1, <3>1 DEF Keys
  <2>2. ASSUME NEW b \in B
        PROVE  <<b, key(b)>> \in R
    <3>1. PICK k \in Keys : row[n][b][k] = "live"
      OBVIOUS
    <3>2. k = key(b)
      BY <2>1, <3>1
    <3> HIDE DEF key
    <3> QED
      BY <3>1, <3>2
  <2>3. f \in [B -> R]
    BY <2>2
  <2>4. \A x, y \in B : f[x] = f[y] => x = y
    OBVIOUS
  <2>5. ASSUME NEW r \in R
        PROVE  \E b \in B : f[b] = r
    <3>1. PICK b \in Blobs, k \in Keys : r = <<b, k>> /\ row[n][b][k] = "live"
      OBVIOUS
    <3>2. b \in B /\ k = key(b)
      BY <2>1, <3>1
    <3> QED
      BY <3>1, <3>2
  <2> HIDE DEF f
  <2>6. f \in Bijection(B, R)
    BY <2>3, <2>4, <2>5, Fun_IsBij
  <2>7. IsFiniteSet(B)
    BY FS_Subset
  <2>8. Cardinality(R) = Cardinality(B)
    BY <2>6, <2>7, FS_Bijection DEF ExistsBijection
  <2> QED
    BY <2>8 DEF BlobCount
<1> QED
  BY <1>1, InvariantIInv, PTL

-----------------------------------------------------------------------------
(* The network is a BlobStore.                                             *)

(* The key the row of a blob has at a node, if it has one.                 *)
OwnKey(n, b) == IF n = Home[b] THEN "uuid" ELSE "text"

SetRow(n, b, k, x) == row' = [row EXCEPT ![n][b][k] = x]

Holdings == [n \in Nodes |-> [b \in Blobs |-> Held(n, b)]]

HeldByRow ==
  \A n \in Nodes, b \in Blobs : Held(n, b) = row[n][b][OwnKey(n, b)]

LEMMA HeldIsRow == IInv => HeldByRow
<1> SUFFICES ASSUME IInv, NEW n \in Nodes, NEW b \in Blobs
             PROVE  Held(n, b) = row[n][b][OwnKey(n, b)]
  BY DEF HeldByRow
<1>1. row[n][b]["uuid"] \in RowStates /\ row[n][b]["text"] \in RowStates
  BY DEF IInv, TypeOK, Keys
<1>2. CASE n = Home[b]
  <2>1. row[n][b]["text"] = "absent"
    BY <1>2 DEF IInv, HomeHasNoText
  <2> QED
    BY <1>1, <1>2, <2>1 DEF Held, OwnKey, Keys, RowStates
<1>3. CASE n # Home[b]
  <2>1. row[n][b]["uuid"] = "absent"
    BY <1>3 DEF IInv, UuidAtHome
  <2> QED
    BY <1>1, <1>3, <2>1 DEF Held, OwnKey, Keys, RowStates
<1> QED
  BY <1>2, <1>3

LEMMA HeldIsRowAfter == IInv' => HeldByRow'
  BY HeldIsRow, PTL

(* A statement that sets the row of a blob sets what the node has.         *)
LEMMA HeldSet ==
  ASSUME IInv, IInv', NEW n \in Nodes, NEW b \in Blobs, NEW k \in Keys, NEW x,
         k = OwnKey(n, b), SetRow(n, b, k, x)
  PROVE  Holdings' = [Holdings EXCEPT ![n][b] = x]
<1>1. row \in [Nodes -> [Blobs -> [Keys -> RowStates]]]
  BY DEF IInv, TypeOK
<1>2. ASSUME NEW m \in Nodes, NEW c \in Blobs
      PROVE  Held(m, c)' = IF m = n /\ c = b THEN x ELSE Held(m, c)
  <2>1. Held(m, c)' = row'[m][c][OwnKey(m, c)]
    BY HeldIsRowAfter DEF HeldByRow, OwnKey
  <2>2. Held(m, c) = row[m][c][OwnKey(m, c)]
    BY HeldIsRow DEF HeldByRow
  <2>3. OwnKey(m, c) \in Keys
    BY DEF OwnKey, Keys
  <2>4. CASE m = n /\ c = b
    BY <1>1, <2>1, <2>4 DEF SetRow
  <2>5. CASE ~(m = n /\ c = b)
    <3>1. row'[m][c] = row[m][c]
      BY <1>1, <2>5 DEF SetRow
    <3> QED
      BY <2>1, <2>2, <2>5, <3>1
  <2> QED
    BY <2>4, <2>5
<1> QED
  BY <1>2 DEF Holdings

LEMMA HeldSame ==
  ASSUME UNCHANGED row
  PROVE  UNCHANGED Holdings
BY DEF Holdings, Held

(* A reply is written in handle_fetch only.                                *)
LEMMA OnlyServeReadSends ==
  ASSUME IInv, [Next]_vars, \A n \in Nodes, b \in Blobs : ~ServeRead(n, b)
  PROVE  Served' \subseteq Served
<1> SUFFICES ASSUME NEW m \in Nodes, NEW c \in Blobs,
                    task'[m][c].pc \in {"read", "got"}
             PROVE  task[m][c].pc \in {"read", "got"}
  BY DEF Served
<1>0. task \in [Nodes -> [Blobs -> Tasks]] /\ task[m][c] \in Tasks
  BY DEF IInv, TypeOK
<1>1. ASSUME NEW n \in Nodes, LoopStep(n) \/ AnnounceFails(n) \/ Boot(n)
      PROVE  task[m][c].pc \in {"read", "got"}
  <2>1. CASE TakeBatch(n)
    <3>1. \/ task'[m][c] = task[m][c]
          \/ task'[m][c] = NoTask
          \/ task'[m][c] = [NoTask EXCEPT !.pc = "start"]
      BY <1>0, <2>1 DEF TakeBatch
    <3> QED
      BY <3>1 DEF NoTask
  <2>2. CASE ~TakeBatch(n)
    BY <1>1, <2>2 DEF LoopStep, StartConnecting, EndConnecting, JoinAll, SelectBlobs,
      SelectPeers, EndAnnounce, AnnounceBlob, AnnounceCheck, AnnounceEnqueue, SetPending,
      AnnounceFails, Boot
  <2> QED
    BY <2>1, <2>2
<1>2. ASSUME NEW n \in Nodes, Crash(n)
      PROVE  task[m][c].pc \in {"read", "got"}
  <2>1. PICK lost \in BOOLEAN : CallersAfter(n, lost)
    BY <1>2 DEF Crash
  <2>2. \/ task'[m][c] = NoTask
        \/ task'[m][c] = [task[m][c] EXCEPT !.pc = "fail"]
        \/ task'[m][c] = task[m][c]
    BY <2>1 DEF CallersAfter
  <2> QED
    BY <1>0, <2>2 DEF Tasks, NoTask
<1>3. ASSUME NEW b \in Blobs,
             AddBlob(b) \/ DeleteBlob(b) \/ MutationStep(b) \/ MutationDbError(b)
      PROVE  UNCHANGED task
  BY <1>3 DEF AddBlob, DeleteBlob, MutationStep, MutationDbError, QueueAdded,
              UpdateDeleted, QueueDeleted, AnswerDelete
<1>4. ASSUME NEW n \in Nodes, NEW b \in Blobs, HandleDelete(n, b)
      PROVE  UNCHANGED task
  BY <1>4 DEF HandleDelete
<1>5. ASSUME NEW n \in Nodes, NEW b \in Blobs,
             TaskStep(n, b) \/ FetchFails(n, b) \/ TaskDbError(n, b)
      PROVE  task[m][c].pc \in {"read", "got"}
  <2>1. CASE <<m, c>> # <<n, b>>
    <3>1. PICK t : task' = [task EXCEPT ![n][b] = t]
      BY <1>5 DEF TaskStep, FetchFails, TaskDbError, StartTask, MarkPeer, TryPeer,
        ServeRead, ServeMark, StoreReceivedBlob, SetCompleted, SetFailed, EndTask, SetTask,
        SetPC
    <3>2. task'[m][c] = task[m][c]
      BY <1>0, <2>1, <3>1
    <3> QED
      BY <3>2
  <2>2. CASE m = n /\ c = b
    <3> USE <1>0, <2>2
    <3>1. CASE ServeMark(n, b)
      BY <3>1 DEF ServeMark
    <3>2. CASE StartTask(n, b)
      BY <3>2 DEF StartTask, NoTask, SetTask
    <3>3. ASSUME NEW p \in Nodes, MarkPeer(n, b, p)
          PROVE  FALSE
      BY <3>3 DEF MarkPeer, SetTask, Tasks
    <3>4. ASSUME NEW p \in Nodes, TryPeer(n, b, p)
          PROVE  FALSE
      BY <3>4 DEF TryPeer, SetTask
    <3>5. CASE StoreReceivedBlob(n, b)
      BY <3>5 DEF StoreReceivedBlob
    <3>6. CASE SetCompleted(n, b) \/ EndTask(n, b)
      BY <3>6 DEF SetCompleted, EndTask, SetTask, NoTask
    <3>7. CASE SetFailed(n, b)
      BY <3>7 DEF SetFailed, SetTask, Tasks
    <3>8. CASE FetchFails(n, b)
      <4>1. SetPC(n, b, "fail")
        BY <3>8 DEF FetchFails
      <4> QED
        BY <4>1, TaskPoint DEF IInv
    <3>9. CASE TaskDbError(n, b)
      <4>1. SetTask(n, b, [NoTask EXCEPT !.pc = "end"]) \/ SetPC(n, b, "fail")
        BY Zenon, <3>9 DEF TaskDbError
      <4>2. task'[n][b] = [NoTask EXCEPT !.pc = "end"] \/ task'[n][b].pc = "fail"
        BY <4>1, TaskPoint DEF IInv
      <4> QED
        BY <4>2 DEF NoTask
    <3> QED
      BY <1>5, <3>1, <3>2, <3>3, <3>4, <3>5, <3>6, <3>7, <3>8, <3>9 DEF TaskStep
  <2> QED
    BY <2>1, <2>2
<1>6. CASE UNCHANGED vars
  BY <1>6 DEF vars
<1> QED
  BY <1>1, <1>2, <1>3, <1>4, <1>5, <1>6 DEF Next

(* A blob whose mutation has begun has a row at its home: delete_blob has  *)
(* something to delete.                                                    *)
Inserted ==
  \A b \in Blobs : mutation[b] # "none" => row[Home[b]][b]["uuid"] # "absent"

LEMMA NextInserted ==
  ASSUME IInv, Inserted, [Next]_vars
  PROVE  Inserted'
<1> SUFFICES ASSUME NEW c \in Blobs, mutation'[c] # "none"
             PROVE  row'[Home[c]][c]["uuid"] # "absent"
  BY DEF Inserted
<1>0. /\ mutation \in [Blobs -> Mutations] /\ Home[c] \in Nodes
      /\ row \in [Nodes -> [Blobs -> [Keys -> RowStates]]] /\ "uuid" \in Keys
  BY ReplicationAssumption DEF IInv, TypeOK, Keys
<1>1. CASE mutation[c] # "none"
  <2>1. row[Home[c]][c]["uuid"] # "absent"
    BY <1>1 DEF Inserted
  <2>2. \/ row'[Home[c]][c]["uuid"] = row[Home[c]][c]["uuid"]
        \/ row'[Home[c]][c]["uuid"] \in {"live", "deleted"}
    BY <1>0, RowAfter
  <2> QED
    BY <2>1, <2>2
<1>2. CASE mutation[c] = "none"
  <2>1. ASSUME NEW n \in Nodes, LoopStep(n) \/ AnnounceFails(n) \/ Boot(n)
        PROVE  UNCHANGED mutation
    BY <2>1 DEF LoopStep, StartConnecting, EndConnecting, TakeBatch, JoinAll,
                SelectBlobs, SelectPeers, EndAnnounce, AnnounceBlob, AnnounceCheck,
                AnnounceEnqueue, SetPending, AnnounceFails, Boot
  <2>2. ASSUME NEW n \in Nodes, Crash(n)
        PROVE  mutation'[c] = "none"
    BY <1>2, <2>2 DEF Crash
  <2>3. ASSUME NEW b \in Blobs, DeleteBlob(b) \/ MutationStep(b) \/ MutationDbError(b)
        PROVE  mutation'[c] = "none"
    <3>1. mutation[b] # "none" /\ \E s : mutation' = [mutation EXCEPT ![b] = s]
      BY <2>3 DEF DeleteBlob, MutationStep, MutationDbError, QueueAdded, UpdateDeleted,
                  QueueDeleted, AnswerDelete
    <3> QED
      BY <1>0, <1>2, <3>1
  <2>4. ASSUME NEW b \in Blobs, AddBlob(b)
        PROVE  row'[Home[c]][c]["uuid"] = "live"
    <3>1. b = c
      BY <1>0, <1>2, <2>4 DEF AddBlob
    <3> QED
      BY <1>0, <2>4, <3>1 DEF AddBlob
  <2>5. ASSUME NEW n \in Nodes, NEW b \in Blobs,
               \/ TaskStep(n, b) \/ FetchFails(n, b) \/ TaskDbError(n, b)
               \/ HandleDelete(n, b)
        PROVE  UNCHANGED mutation
    BY <2>5 DEF TaskStep, FetchFails, TaskDbError, HandleDelete, StartTask, MarkPeer,
                TryPeer, ServeRead, ServeMark, StoreReceivedBlob, SetCompleted,
                SetFailed, EndTask
  <2>6. ASSUME UNCHANGED vars
        PROVE  UNCHANGED mutation
    BY <2>6 DEF vars
  <2>7. \E b \in Blobs : AddBlob(b)
    BY <1>2, <2>1, <2>2, <2>3, <2>5, <2>6 DEF Next
  <2> QED
    BY <2>4, <2>7
<1> QED
  BY <1>1, <1>2

(* Whatever takes replies away and leaves the rows alone loses them.       *)
LEMMA RepliesLost ==
  ASSUME UNCHANGED row, Served' \subseteq Served
  PROVE  Store!Next
<1> DEFINE copies == Served \ Served'
<1>1. copies \in SUBSET Served /\ Served' = Served \ copies
  OBVIOUS
<1>2. Store!Lose(copies)
  BY <1>1, HeldSame DEF Holdings, Store!Lose
<1> HIDE DEF copies
<1> QED
  BY <1>1, <1>2 DEF Store!Next

LEMMA AddIsAdd ==
  ASSUME IInv, IInv', NEW b \in Blobs, AddBlob(b)
  PROVE  Store!Next
<1>0. Home[b] \in Nodes
  BY ReplicationAssumption
<1>1. Held(Home[b], b) = "absent"
  BY <1>0, HeldIsRow DEF HeldByRow, OwnKey, AddBlob, IInv, AddedOnce
<1>2. Served' = Served
  BY DEF AddBlob, Served
<1>3. "uuid" \in Keys /\ OwnKey(Home[b], b) = "uuid"
  BY DEF Keys, OwnKey
<1>4. Holdings' = [Holdings EXCEPT ![Home[b]][b] = "live"]
  <2>1. SetRow(Home[b], b, "uuid", "live")
    BY DEF AddBlob, SetRow
  <2> QED
    BY <1>0, <1>3, <2>1, HeldSet
<1>5. Store!Add(b)
  BY <1>0, <1>1, <1>2, <1>4 DEF Holdings, Store!Add
<1> QED
  BY <1>5 DEF Store!Next

(* delete_blob at the home, once or again; handle_delete at a peer.        *)
LEMMA DeleteIsDelete ==
  ASSUME IInv, IInv', NEW n \in Nodes, NEW b \in Blobs, NEW k \in Keys,
         k = OwnKey(n, b), row[n][b][k] = "live", UNCHANGED task,
         SetRow(n, b, k, "deleted")
  PROVE  Store!Next
<1>1. Held(n, b) = "live"
  BY HeldIsRow DEF HeldByRow
<1>2. Served' = Served
  BY DEF Served
<1>3. Holdings' = [Holdings EXCEPT ![n][b] = "deleted"]
  BY HeldSet
<1>4. Store!Delete(n, b)
  BY <1>1, <1>2, <1>3 DEF Holdings, Store!Delete
<1> QED
  BY <1>4 DEF Store!Next

LEMMA UpdateIsDelete ==
  ASSUME IInv, IInv', Inserted, NEW b \in Blobs, UpdateDeleted(b)
  PROVE  Store!Next
<1>0. /\ Home[b] \in Nodes /\ "uuid" \in Keys /\ OwnKey(Home[b], b) = "uuid"
      /\ row \in [Nodes -> [Blobs -> [Keys -> RowStates]]]
  BY ReplicationAssumption DEF IInv, TypeOK, Keys, OwnKey
<1>1. SetRow(Home[b], b, "uuid", "deleted") /\ UNCHANGED task
  BY DEF UpdateDeleted, SetRow
<1>2. row[Home[b]][b]["uuid"] \in {"live", "deleted"}
  BY <1>0 DEF UpdateDeleted, Inserted, RowStates
<1>3. CASE row[Home[b]][b]["uuid"] = "live"
  BY <1>0, <1>1, <1>3, DeleteIsDelete
<1>4. CASE row[Home[b]][b]["uuid"] = "deleted"
  <2>1. row' = row
    BY <1>0, <1>1, <1>4 DEF SetRow
  <2> QED
    BY <1>1, <2>1, RepliesLost DEF Served
<1> QED
  BY <1>2, <1>3, <1>4

LEMMA HandleDeleteIsDelete ==
  ASSUME IInv, IInv', NEW n \in Nodes, NEW b \in Blobs, HandleDelete(n, b)
  PROVE  Store!Next
<1>1. n # Home[b]
  BY DEF HandleDelete, IInv, HomeHasNoText
<1>2. "text" \in Keys /\ OwnKey(n, b) = "text"
  BY <1>1 DEF Keys, OwnKey
<1> QED
  BY <1>2, DeleteIsDelete DEF HandleDelete, SetRow

(* A reply that is stored came from the home, so it is not at the home; it *)
(* is lost on a node that has a row already.                               *)
LEMMA StoreIsStore ==
  ASSUME IInv, IInv', NEW n \in Nodes, NEW b \in Blobs, StoreReceivedBlob(n, b)
  PROVE  Store!Next
<1>0. task \in [Nodes -> [Blobs -> Tasks]]
  BY DEF IInv, TypeOK
<1>1. task[n][b].pc = "got" /\ n # Home[b]
  BY DEF StoreReceivedBlob, IInv, ServedByHome, NotItself
<1>2. SetPC(n, b, "stored") \/ SetTask(n, b, [NoTask EXCEPT !.pc = "end"])
  BY DEF StoreReceivedBlob
<1>3. Served' = Served \ {<<n, b>>} /\ <<n, b>> \in Served
  <2>1. task'[n][b].pc \notin {"read", "got"}
    BY <1>2, TaskPoint DEF IInv, NoTask
  <2>2. ASSUME NEW m \in Nodes, NEW c \in Blobs, <<m, c>> # <<n, b>>
        PROVE  task'[m][c] = task[m][c]
    BY <1>0, <1>2, <2>2 DEF SetPC, SetTask
  <2> QED
    BY <1>1, <2>1, <2>2 DEF Served
<1>4. CASE row[n][b]["text"] = "absent"
  <2>1. "text" \in Keys /\ OwnKey(n, b) = "text"
    BY <1>1 DEF Keys, OwnKey
  <2>2. Held(n, b) = "absent"
    BY <1>4, <2>1, HeldIsRow DEF HeldByRow
  <2>3. SetRow(n, b, "text", "live")
    BY <1>4 DEF StoreReceivedBlob, SetRow
  <2>4. Holdings' = [Holdings EXCEPT ![n][b] = "live"]
    BY <2>1, <2>3, HeldSet
  <2>5. Store!Store(n, b)
    BY <1>3, <2>2, <2>4 DEF Holdings, Store!Store
  <2> QED
    BY <2>5 DEF Store!Next
<1>5. CASE row[n][b]["text"] # "absent"
  <2>1. UNCHANGED row
    BY <1>5 DEF StoreReceivedBlob
  <2> QED
    BY <1>3, <2>1, RepliesLost
<1> QED
  BY <1>4, <1>5

(* Only the home finds the id it is asked for, and it asks no one.         *)
LEMMA ServeIsSend ==
  ASSUME IInv, NEW n \in Nodes, NEW b \in Blobs, ServeRead(n, b)
  PROVE  Store!Next
<1> DEFINE found == row[task[n][b].to][b]["uuid"] = "live"
<1>0. task \in [Nodes -> [Blobs -> Tasks]]
  BY DEF IInv, TypeOK
<1>1. /\ task'[n][b].pc = IF found THEN "read" ELSE "fail"
      /\ task[n][b].pc = "sent" /\ UNCHANGED row
  BY TaskPoint DEF ServeRead, IInv
<1>2. ASSUME NEW m \in Nodes, NEW c \in Blobs, <<m, c>> # <<n, b>>
      PROVE  task'[m][c] = task[m][c]
  BY <1>0, <1>2 DEF ServeRead, SetPC, SetTask
<1>3. CASE found
  <2>1. Home[b] \in Nodes /\ task[n][b].to = Home[b] /\ n # Home[b]
    BY <1>1, <1>3, ReplicationAssumption DEF IInv, UuidAtHome, CallHasAPeer, NotItself
  <2>2. Held(Home[b], b) = "live"
    BY <1>3, <2>1, HeldIsRow DEF HeldByRow, OwnKey
  <2>3. Served' = Served \cup {<<n, b>>}
    BY <1>1, <1>2, <1>3 DEF Served
  <2>4. Store!Send(n, b)
    BY <1>1, <2>1, <2>2, <2>3, HeldSame DEF Holdings, Store!Send
  <2> QED
    BY <2>4 DEF Store!Next
<1>4. CASE ~found
  <2>1. Served' \subseteq Served
    BY <1>1, <1>2, <1>4 DEF Served
  <2> QED
    BY <1>1, <2>1, RepliesLost
<1> QED
  BY <1>3, <1>4

LEMMA StepIsStoreStep ==
  ASSUME IInv, IInv', Inserted, [Next]_vars
  PROVE  Store!Next
<1>1. CASE \E n \in Nodes, b \in Blobs : ServeRead(n, b)
  BY <1>1, ServeIsSend
<1>2. CASE UNCHANGED row /\ \A n \in Nodes, b \in Blobs : ~ServeRead(n, b)
  BY <1>2, OnlyServeReadSends, RepliesLost
<1> QED
  BY <1>1, <1>2, RowMoves, AddIsAdd, UpdateIsDelete, HandleDeleteIsDelete, StoreIsStore

(* The network implements BlobStore: what a node has deleted does not come *)
(* back to it (sync.rs:350, store_received_blob), and a copy is made of    *)
(* the original only, while it is live (server.rs:281, fetch_blob_by_id);  *)
(* for any number of nodes, blobs and faults, whoever is asked for a blob. *)
THEOREM NetworkIsABlobStore == Spec => StoreImplemented
<1>1. Init => Store!Init
  BY ReplicationAssumption DEF Init, Store!Init, Held, Served, Keys, NoTask
<1>2. Init => Inserted
  BY DEF Init, Inserted
<1>3. IInv /\ Inserted /\ [Next]_vars => Inserted'
  BY NextInserted
<1>4. IInv /\ IInv' /\ Inserted /\ [Next]_vars => [Store!Next]_(Store!vars)
  BY StepIsStoreStep
<1> QED
  BY <1>1, <1>2, <1>3, <1>4, InvariantIInv, PTL DEF Spec, StoreImplemented

SetHolding(m, c, x) == Holdings' = [Holdings EXCEPT ![m][c] = x]

(* Seen from one node and blob, what a step of BlobStore sets.             *)
LEMMA HoldingsSet ==
  ASSUME NEW m \in Nodes, NEW c \in Blobs, NEW x, SetHolding(m, c, x),
         NEW n \in Nodes, NEW b \in Blobs
  PROVE  Held(n, b)' = IF n = m /\ b = c THEN x ELSE Held(n, b)
<1>0. /\ Holdings = [p \in Nodes |-> Holdings[p]]
      /\ \A p \in Nodes : Holdings[p] = [d \in Blobs |-> Holdings[p][d]]
  BY DEF Holdings
<1>1. Holdings'[n][b] = IF n = m /\ b = c THEN x ELSE Holdings[n][b]
  BY <1>0 DEF SetHolding
<1>2. Holdings'[n][b] = Held(n, b)' /\ Holdings[n][b] = Held(n, b)
  BY DEF Holdings
<1> QED
  BY <1>1, <1>2

LEMMA HoldingsKept ==
  ASSUME Holdings' = Holdings, NEW n \in Nodes, NEW b \in Blobs
  PROVE  Held(n, b)' = Held(n, b)
<1>1. Holdings'[n][b] = Held(n, b)' /\ Holdings[n][b] = Held(n, b)
  BY DEF Holdings
<1> QED
  BY <1>1

NotCopied(n, b) ==
  /\ <<n, b>> \notin Served'
  /\ Held(n, b)' = "live" => Held(n, b) = "live"

(* What BlobStore says of a blob its home has deleted.                     *)
LEMMA NoNewCopy ==
  ASSUME IInv, Store!Next, NEW n \in Nodes, NEW b \in Blobs,
         row[Home[b]][b]["uuid"] = "deleted", <<n, b>> \notin Served
  PROVE  NotCopied(n, b)
<1>1. Home[b] \in Nodes /\ Held(Home[b], b) = "deleted"
  BY ReplicationAssumption, HeldIsRow DEF HeldByRow, OwnKey
<1>2. ASSUME NEW c \in Blobs, Store!Add(c)
      PROVE  NotCopied(n, b)
  <2>1. /\ Held(Home[c], c) = "absent" /\ Home[c] \in Nodes
        /\ SetHolding(Home[c], c, "live") /\ Served' = Served
    BY <1>2, ReplicationAssumption DEF Store!Add, Holdings, SetHolding
  <2>2. c # b
    BY <1>1, <2>1
  <2>3. Held(n, b)' = Held(n, b)
    BY <2>1, <2>2, HoldingsSet
  <2> QED
    BY <2>1, <2>3 DEF NotCopied
<1>3. ASSUME NEW m \in Nodes, NEW c \in Blobs, Store!Delete(m, c)
      PROVE  NotCopied(n, b)
  <2>1. SetHolding(m, c, "deleted") /\ Served' = Served
    BY <1>3 DEF Store!Delete, Holdings, SetHolding
  <2>2. Held(n, b)' \in {"deleted", Held(n, b)}
    BY <2>1, HoldingsSet
  <2> QED
    BY <2>1, <2>2 DEF NotCopied
<1>4. ASSUME NEW m \in Nodes, NEW c \in Blobs, Store!Send(m, c)
      PROVE  NotCopied(n, b)
  <2>1. /\ Held(Home[c], c) = "live" /\ Served' = Served \cup {<<m, c>>}
        /\ Holdings' = Holdings
    BY <1>4, ReplicationAssumption DEF Store!Send, Holdings
  <2>2. c # b
    BY <1>1, <2>1
  <2>3. Held(n, b)' = Held(n, b)
    BY <2>1, HoldingsKept
  <2> QED
    BY <2>1, <2>2, <2>3 DEF NotCopied
<1>5. ASSUME NEW m \in Nodes, NEW c \in Blobs, Store!Store(m, c)
      PROVE  NotCopied(n, b)
  <2>1. /\ <<m, c>> \in Served /\ Served' = Served \ {<<m, c>>}
        /\ SetHolding(m, c, "live")
    BY <1>5 DEF Store!Store, Holdings, SetHolding
  <2>2. m # n \/ c # b
    BY <2>1
  <2>3. Held(n, b)' = Held(n, b)
    BY <2>1, <2>2, HoldingsSet
  <2>4. <<n, b>> \notin Served'
    BY <2>1
  <2> QED
    BY <2>3, <2>4 DEF NotCopied
<1>6. ASSUME NEW copies \in SUBSET Served, Store!Lose(copies)
      PROVE  NotCopied(n, b)
  <2>1. Served' = Served \ copies /\ Holdings' = Holdings
    BY <1>6 DEF Store!Lose, Holdings
  <2>2. Held(n, b)' = Held(n, b)
    BY <2>1, HoldingsKept
  <2> QED
    BY <2>1, <2>2 DEF NotCopied
<1> QED
  BY <1>2, <1>3, <1>4, <1>5, <1>6 DEF Store!Next

(* After delete_blob has updated the row at the home (user_api/mod.rs:192) *)
(* only replies that are written by then are still stored, wherever the    *)
(* fetches, queues and announcements of any number of nodes are.           *)
THEOREM DeletionEndsCopying == Spec => DeletedIsNotCopied
<1> DEFINE NoNew ==
             \A n \in Nodes, b \in Blobs :
               row[Home[b]][b]["uuid"] = "deleted" /\ <<n, b>> \notin Served
                 => NotCopied(n, b)
<1>1. Init => Inserted
  BY DEF Init, Inserted
<1>2. IInv /\ Inserted /\ [Next]_vars => Inserted'
  BY NextInserted
<1>3. IInv /\ IInv' /\ Inserted /\ [Next]_vars => [NoNew]_vars
  BY StepIsStoreStep, NoNewCopy
<1> QED
  BY <1>1, <1>2, <1>3, InvariantIInv, PTL DEF Spec, DeletedIsNotCopied, NotCopied
=============================================================================
