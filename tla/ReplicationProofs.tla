-------------------------- MODULE ReplicationProofs --------------------------
(***************************************************************************)
(* Proofs about the tables of the nodes, for every network, every set of   *)
(* blobs, every batch size and share limit, and any number of faults.      *)
(***************************************************************************)
EXTENDS Replication, SequenceTheorems, FunctionTheorems, TLAPS

-----------------------------------------------------------------------------
(* The updates the actions are made of keep the types of what they update. *)

LEMMA TaskSet ==
  ASSUME TypeOK, NEW n \in Nodes, NEW b \in Blobs, NEW t \in Tasks,
         SetTask(n, b, t)
  PROVE  task' \in [Nodes -> [Blobs -> Tasks]]
  BY DEF TypeOK, SetTask

LEMMA TaskRecords ==
  ASSUME TypeOK, NEW n \in Nodes, NEW b \in Blobs, NEW pc \in PCs
  PROVE  /\ task[n][b] \in Tasks
         /\ NoTask \in Tasks
         /\ [task[n][b] EXCEPT !.pc = pc] \in Tasks
         /\ [task[n][b] EXCEPT !.pc = pc, !.to = NoNode] \in Tasks
         /\ [NoTask EXCEPT !.pc = pc] \in Tasks
<1>1. task[n][b] \in Tasks
  BY DEF TypeOK
<1>2. NoTask \in Tasks
  BY DEF Tasks, NoTask, PCs
<1> QED
  BY <1>1, <1>2 DEF Tasks

LEMMA TaskMoved ==
  ASSUME TypeOK, NEW n \in Nodes, NEW b \in Blobs, NEW pc \in PCs,
         SetPC(n, b, pc)
  PROVE  task' \in [Nodes -> [Blobs -> Tasks]]
  BY TaskSet, TaskRecords DEF SetPC

(* An update outside the domain of a function changes nothing.             *)
LEMMA ExceptTyped ==
  ASSUME NEW S, NEW T, NEW f \in [S -> T], NEW x, NEW v, x \in S => v \in T
  PROVE  [f EXCEPT ![x] = v] \in [S -> T]
  OBVIOUS

(* The row may be one of no node: then nothing changes.                    *)
LEMMA StatusSet ==
  ASSUME TypeOK, NEW n, NEW b, NEW p, NEW s \in Statuses,
         SetBlobStatus(n, b, p, s)
  PROVE  sync_status' \in [Nodes -> [Blobs -> [Nodes -> Statuses]]]
<1> DEFINE v == IF sync_status[n][b][p] = "none" THEN "none" ELSE s
           g == [sync_status[n][b] EXCEPT ![p] = v]
           f == [sync_status[n] EXCEPT ![b] = g]
<1>1. v \in Statuses
  BY DEF Statuses
<1>2. sync_status \in [Nodes -> [Blobs -> [Nodes -> Statuses]]]
  BY DEF TypeOK
<1>3. sync_status' = [sync_status EXCEPT ![n] = f]
  BY DEF SetBlobStatus
<1> HIDE DEF v
<1>4. n \in Nodes /\ b \in Blobs => g \in [Nodes -> Statuses]
  BY <1>1, <1>2, ExceptTyped
<1> HIDE DEF g
<1>5. n \in Nodes => f \in [Blobs -> [Nodes -> Statuses]]
  BY <1>2, <1>4, ExceptTyped
<1> HIDE DEF f
<1> QED
  BY <1>2, <1>3, <1>5, ExceptTyped

LEMMA StatusStarted ==
  ASSUME TypeOK, NEW n \in Nodes, NEW b \in Blobs, NEW p \in Nodes,
         StartBlobSyncWithPeer(n, b, p)
  PROVE  sync_status' \in [Nodes -> [Blobs -> [Nodes -> Statuses]]]
<1>1. "pending" \in Statuses
  BY DEF Statuses
<1> QED
  BY <1>1 DEF TypeOK, StartBlobSyncWithPeer

LEMMA RowSet ==
  ASSUME TypeOK, NEW n \in Nodes, NEW b \in Blobs, NEW k \in Keys,
         NEW s \in RowStates, row' = [row EXCEPT ![n][b][k] = s]
  PROVE  row' \in [Nodes -> [Blobs -> [Keys -> RowStates]]]
  BY DEF TypeOK

LEMMA MutationSet ==
  ASSUME TypeOK, NEW b \in Blobs, NEW m \in Mutations,
         mutation' = [mutation EXCEPT ![b] = m]
  PROVE  mutation' \in [Blobs -> Mutations]
  BY DEF TypeOK

LEMMA PhaseSet ==
  ASSUME TypeOK, NEW n \in Nodes, NEW to \in Phases, GoTo(n, to)
  PROVE  phase' \in [Nodes -> Phases]
  BY DEF TypeOK, GoTo

LEMMA AnnouncementSet ==
  ASSUME TypeOK, NEW n \in Nodes, NEW a \in Announcements,
         ann' = [ann EXCEPT ![n] = a]
  PROVE  ann' \in [Nodes -> Announcements]
  BY DEF TypeOK

(* The call of an announcement is over.                                    *)
LEMMA AnnouncementEnds ==
  ASSUME TypeOK, NEW n \in Nodes, ann' = [ann EXCEPT ![n].to = NoNode]
  PROVE  ann' \in [Nodes -> Announcements]
<1>1. ann[n] \in Announcements
  BY DEF TypeOK
<1>2. [ann[n] EXCEPT !.to = NoNode] \in Announcements
  BY <1>1 DEF Announcements
<1>3. ann' = [ann EXCEPT ![n] = [ann[n] EXCEPT !.to = NoNode]]
  OBVIOUS
<1> QED
  BY <1>2, <1>3, AnnouncementSet

LEMMA QueueTyped ==
  ASSUME TypeOK, NEW n, NEW b \in Blobs, QueueBlobFetch(n, b)
  PROVE  /\ blob_queue' \in [Nodes -> Seq(Blobs)]
         /\ in_progress' \in [Nodes -> SUBSET Blobs]
<1>1. /\ blob_queue \in [Nodes -> Seq(Blobs)]
      /\ in_progress \in [Nodes -> SUBSET Blobs]
  BY DEF TypeOK
<1>2. CASE b \in in_progress[n]
  BY <1>1, <1>2 DEF QueueBlobFetch, queue
<1>3. CASE b \notin in_progress[n]
  <2>1. /\ blob_queue' = [blob_queue EXCEPT ![n] = Append(blob_queue[n], b)]
        /\ in_progress' = [in_progress EXCEPT ![n] = in_progress[n] \cup {b}]
    BY <1>3 DEF QueueBlobFetch
  <2>2. n \in Nodes => Append(blob_queue[n], b) \in Seq(Blobs)
    BY <1>1
  <2>3. n \in Nodes => in_progress[n] \cup {b} \in SUBSET Blobs
    BY <1>1
  <2> QED
    BY <1>1, <2>1, <2>2, <2>3, ExceptTyped
<1> QED
  BY <1>2, <1>3

(* What the callers of a node look like after a crash of it.               *)
LEMMA CallersTyped ==
  ASSUME TypeOK, NEW n \in Nodes, NEW lost \in BOOLEAN, CallersAfter(n, lost)
  PROVE  /\ task' \in [Nodes -> [Blobs -> Tasks]]
         /\ phase' \in [Nodes -> Phases]
         /\ ann' \in [Nodes -> Announcements]
<1>1. task' \in [Nodes -> [Blobs -> Tasks]]
  <2>1. ASSUME NEW m \in Nodes, NEW b \in Blobs
        PROVE  /\ task[m][b] \in Tasks
               /\ NoTask \in Tasks
               /\ [task[m][b] EXCEPT !.pc = "fail"] \in Tasks
    BY TaskRecords DEF PCs
  <2> DEFINE after(m, b) ==
        CASE m = n -> NoTask
          [] m # n /\ task[m][b].to = n
               /\ \/ task[m][b].pc \in {"sent", "read"}
                  \/ task[m][b].pc = "got" /\ lost -> [task[m][b] EXCEPT !.pc = "fail"]
          [] OTHER -> task[m][b]
  <2>2. ASSUME NEW m \in Nodes, NEW b \in Blobs
        PROVE  after(m, b) \in Tasks
    BY <2>1
  <2>3. task' = [m \in Nodes |-> [b \in Blobs |-> after(m, b)]]
    BY DEF CallersAfter
  <2> HIDE DEF after
  <2> QED
    BY <2>2, <2>3
<1>2. phase' \in [Nodes -> Phases]
  BY DEF TypeOK, CallersAfter, Phases
<1>3. ann' \in [Nodes -> Announcements]
  <2>1. ASSUME NEW m \in Nodes
        PROVE  /\ ann[m] \in Announcements
               /\ NoAnnouncement \in Announcements
               /\ [ann[m] EXCEPT !.to = NoNode] \in Announcements
    <3>1. ann[m] \in Announcements
      BY DEF TypeOK
    <3>2. [ann[m] EXCEPT !.to = NoNode] \in Announcements
      BY <3>1 DEF Announcements
    <3> QED
      BY <3>1, <3>2 DEF Announcements, NoAnnouncement
  <2> QED
    BY <2>1 DEF CallersAfter
<1> QED
  BY <1>1, <1>2, <1>3

-----------------------------------------------------------------------------
(* Type correctness.  TypeOK is not inductive: an accepted announcement    *)
(* puts ann.blob on a queue, and only the order of the steps of            *)
(* announce_blobs says that it is a blob by then.                          *)

Addressed ==
  \A n \in Nodes :
    /\ ann[n].targets # {} => ann[n].blob \in Blobs
    /\ phase[n] \in {"sent", "checked", "answered"}
         => ann[n].to \in Nodes /\ ann[n].blob \in Blobs

(* A fault leaves one fewer of the same kinds.                             *)
LEMMA FaultTyped ==
  ASSUME TypeOK, NEW kind, Fault(kind)
  PROVE  faults' \in [may : FaultModels, left : 0..MaxFaults]
<1>1. /\ faults \in [may : FaultModels, left : 0..MaxFaults]
      /\ faults.left > 0
      /\ faults' = [faults EXCEPT !.left = @ - 1]
  BY DEF TypeOK, Fault
<1>2. faults.left - 1 \in 0..MaxFaults
  BY <1>1, ReplicationAssumption
<1> QED
  BY <1>1, <1>2

LEMMA InitTypeOK == Init => TypeOK /\ Addressed
  BY ReplicationAssumption
  DEF Init, TypeOK, Addressed, Keys, RowStates, Statuses, Mutations, Phases,
      Tasks, NoTask, PCs, Announcements, NoAnnouncement

LEMMA MutationTyped ==
  ASSUME TypeOK, NEW b \in Blobs,
         AddBlob(b) \/ DeleteBlob(b) \/ MutationStep(b) \/ MutationDbError(b)
  PROVE  TypeOK'
<1>0. /\ Home[b] \in Nodes
      /\ "uuid" \in Keys
      /\ "live" \in RowStates
      /\ "deleted" \in RowStates
  BY ReplicationAssumption DEF Keys, RowStates
<1>1. CASE AddBlob(b)
  BY <1>0, <1>1, RowSet, MutationSet DEF TypeOK, AddBlob, queue, Mutations
<1>2. CASE DeleteBlob(b)
  BY <1>2, MutationSet DEF TypeOK, DeleteBlob, queue, Mutations
<1>3. CASE QueueAdded(b)
  BY <1>3, MutationSet, QueueTyped DEF TypeOK, QueueAdded, Mutations
<1>4. CASE UpdateDeleted(b)
  BY <1>0, <1>4, RowSet, MutationSet DEF TypeOK, UpdateDeleted, queue, Mutations
<1>5. CASE QueueDeleted(b)
  BY <1>5, MutationSet, QueueTyped DEF TypeOK, QueueDeleted, Mutations
<1>6. CASE AnswerDelete(b)
  BY <1>6, MutationSet DEF TypeOK, AnswerDelete, queue, Mutations
<1>7. CASE MutationDbError(b)
  <2>1. faults' \in [may : FaultModels, left : 0..MaxFaults]
    BY <1>7, FaultTyped DEF MutationDbError
  <2>2. mutation' \in [Blobs -> Mutations]
    BY <1>7 DEF TypeOK, MutationDbError, Mutations
  <2> QED
    BY <1>7, <2>1, <2>2 DEF TypeOK, MutationDbError, queue
<1> QED
  BY <1>1, <1>2, <1>3, <1>4, <1>5, <1>6, <1>7 DEF MutationStep

LEMMA LoopTyped ==
  ASSUME TypeOK, Addressed, NEW n \in Nodes,
         LoopStep(n) \/ AnnounceFails(n) \/ Crash(n) \/ Boot(n)
  PROVE  TypeOK'
<1>1. CASE StartConnecting(n)
  BY <1>1, PhaseSet DEF TypeOK, StartConnecting, queue, Phases
<1>2. CASE EndConnecting(n)
  BY <1>2, PhaseSet DEF TypeOK, EndConnecting, queue, Phases
<1>3. CASE TakeBatch(n)
  <2>1. blob_queue' \in [Nodes -> Seq(Blobs)]
    <3>1. blob_queue[n] \in Seq(Blobs)
      BY DEF TypeOK
    <3>2. BatchSize(n) \in Nat
      BY <3>1, ReplicationAssumption DEF BatchSize
    <3>3. SubSeq(blob_queue[n], BatchSize(n) + 1, Len(blob_queue[n])) \in Seq(Blobs)
      BY <3>1, <3>2
    <3> QED
      BY <1>3, <3>3, ExceptTyped DEF TakeBatch, TypeOK
  <2>2. task' \in [Nodes -> [Blobs -> Tasks]]
    <3>1. [NoTask EXCEPT !.pc = "start"] \in Tasks /\ NoTask \in Tasks
      BY DEF Tasks, NoTask, PCs
    <3>2. [b \in Blobs |-> IF b \in Batch(n) THEN [NoTask EXCEPT !.pc = "start"]
                                             ELSE NoTask] \in [Blobs -> Tasks]
      BY <3>1
    <3> QED
      BY <1>3, <3>2, ExceptTyped DEF TakeBatch, TypeOK
  <2>3. phase' \in [Nodes -> Phases]
    BY <1>3, PhaseSet DEF TakeBatch, Phases
  <2> QED
    BY <1>3, <2>1, <2>2, <2>3 DEF TypeOK, TakeBatch
<1>4. CASE JoinAll(n)
  BY <1>4, PhaseSet DEF TypeOK, JoinAll, queue, Phases
<1>5. CASE SelectBlobs(n)
  <2>1. PICK S \in SUBSET BlobsToShare(n) :
          /\ ann' = [ann EXCEPT ![n] = [NoAnnouncement EXCEPT
                       !.peers = IF S = {} THEN {} ELSE peers[n], !.todo = S]]
          /\ GoTo(n, IF S = {} THEN "take" ELSE "announce")
    BY <1>5 DEF SelectBlobs
  <2>2. [NoAnnouncement EXCEPT !.peers = IF S = {} THEN {} ELSE peers[n],
                               !.todo = S] \in Announcements
    BY DEF TypeOK, BlobsToShare, Announcements, NoAnnouncement
  <2>3. ann' \in [Nodes -> Announcements]
    BY <2>1, <2>2, AnnouncementSet
  <2>4. phase' \in [Nodes -> Phases]
    BY <2>1, PhaseSet DEF Phases
  <2> QED
    BY <1>5, <2>3, <2>4 DEF TypeOK, SelectBlobs, queue
<1>6. ASSUME NEW b \in Blobs, SelectPeers(n, b)
      PROVE  TypeOK'
  <2>1. ann[n] \in Announcements
    BY DEF TypeOK
  <2>2. [ann[n] EXCEPT !.todo = @ \ {b}, !.blob = b,
                       !.targets = PendingPeers(n, b) \cap ann[n].peers]
          \in Announcements
    BY <2>1 DEF PendingPeers, Announcements
  <2>3. ann' = [ann EXCEPT ![n] = [ann[n] EXCEPT !.todo = @ \ {b}, !.blob = b,
                              !.targets = PendingPeers(n, b) \cap ann[n].peers]]
    BY <1>6, <2>1 DEF SelectPeers, TypeOK
  <2>4. ann' \in [Nodes -> Announcements]
    BY <2>2, <2>3, AnnouncementSet
  <2> QED
    BY <1>6, <2>4 DEF TypeOK, SelectPeers, queue
<1>7. CASE EndAnnounce(n)
  <2>1. NoAnnouncement \in Announcements
    BY DEF Announcements, NoAnnouncement
  <2> QED
    BY <1>7, <2>1, PhaseSet, AnnouncementSet DEF TypeOK, EndAnnounce, queue, Phases
<1>8. ASSUME NEW p \in Nodes, AnnounceBlob(n, p)
      PROVE  TypeOK'
  <2> DEFINE to == IF Up(p) THEN p ELSE NoNode
  <2>1. ann[n] \in Announcements
    BY DEF TypeOK
  <2>2. [ann[n] EXCEPT !.targets = @ \ {p}, !.to = to] \in Announcements
    BY <2>1 DEF Announcements
  <2>3. ann' = [ann EXCEPT ![n] = [ann[n] EXCEPT !.targets = @ \ {p}, !.to = to]]
    BY <1>8, <2>1 DEF AnnounceBlob, TypeOK
  <2>4. ann' \in [Nodes -> Announcements]
    BY <2>2, <2>3, AnnouncementSet
  <2>5. phase' \in [Nodes -> Phases]
    BY <1>8, PhaseSet DEF AnnounceBlob, Phases
  <2> QED
    BY <1>8, <2>4, <2>5 DEF TypeOK, AnnounceBlob, queue
<1>9. CASE AnnounceCheck(n)
  BY <1>9, PhaseSet DEF TypeOK, AnnounceCheck, queue, Phases
<1>10. CASE AnnounceEnqueue(n)
  <2>1. ann[n].blob \in Blobs
    BY <1>10 DEF AnnounceEnqueue, Addressed
  <2> QED
    BY <1>10, <2>1, QueueTyped, PhaseSet DEF TypeOK, AnnounceEnqueue, Phases
<1>11. CASE SetPending(n)
  BY <1>11, StatusSet, AnnouncementEnds, PhaseSet
  DEF TypeOK, SetPending, queue, Phases, Statuses
<1>12. CASE AnnounceFails(n)
  <2>1. faults' \in [may : FaultModels, left : 0..MaxFaults]
    BY <1>12, FaultTyped DEF AnnounceFails
  <2> QED
    BY <1>12, <2>1, AnnouncementEnds, PhaseSet
    DEF TypeOK, AnnounceFails, queue, Phases
<1>13. CASE Crash(n)
  <2>1. /\ task' \in [Nodes -> [Blobs -> Tasks]]
        /\ phase' \in [Nodes -> Phases]
        /\ ann' \in [Nodes -> Announcements]
    BY <1>13, CallersTyped DEF Crash
  <2>2. faults' \in [may : FaultModels, left : 0..MaxFaults]
    BY <1>13, FaultTyped DEF Crash
  <2>3. mutation' \in [Blobs -> Mutations]
    BY <1>13 DEF Crash, TypeOK, Mutations
  <2>4. /\ peers' \in [Nodes -> SUBSET Nodes]
        /\ in_progress' \in [Nodes -> SUBSET Blobs]
    BY <1>13 DEF Crash, TypeOK
  <2>5. blob_queue' \in [Nodes -> Seq(Blobs)]
    <3>1. << >> \in Seq(Blobs)
      OBVIOUS
    <3> QED
      BY <1>13, <3>1, ExceptTyped DEF Crash, TypeOK
  <2> QED
    BY <1>13, <2>1, <2>2, <2>3, <2>4, <2>5 DEF TypeOK, Crash
<1>14. CASE Boot(n)
  <2>1. peers' \in [Nodes -> SUBSET Nodes]
    BY <1>14, ReplicationAssumption DEF Boot, TypeOK
  <2> QED
    BY <1>14, <2>1, PhaseSet DEF TypeOK, Boot, queue, Phases
<1> QED
  BY <1>1, <1>2, <1>3, <1>4, <1>5, <1>6, <1>7, <1>8, <1>9, <1>10, <1>11, <1>12,
     <1>13, <1>14 DEF LoopStep

LEMMA TaskTyped ==
  ASSUME TypeOK, NEW n \in Nodes, NEW b \in Blobs,
         \/ TaskStep(n, b) \/ FetchFails(n, b) \/ TaskDbError(n, b)
         \/ HandleDelete(n, b)
  PROVE  TypeOK'
<1>0. /\ task[n][b] \in Tasks
      /\ [NoTask EXCEPT !.pc = "end"] \in Tasks
      /\ NoTask \in Tasks
      /\ "text" \in Keys
      /\ "live" \in RowStates
      /\ "deleted" \in RowStates
  BY TaskRecords DEF PCs, Keys, RowStates
<1>1. CASE StartTask(n, b)
  <2> DEFINE t == [NoTask EXCEPT
                     !.todo = peers[n],
                     !.pc = IF row[n][b]["uuid"] = "live" THEN "mark" ELSE "try"]
  <2>1. t \in Tasks
    BY DEF TypeOK, Tasks, NoTask, PCs
  <2>2. SetTask(n, b, t)
    BY <1>1 DEF StartTask
  <2> HIDE DEF t
  <2> QED
    BY <1>1, <2>1, <2>2, TaskSet DEF TypeOK, StartTask, queue
<1>2. ASSUME NEW p \in Nodes, MarkPeer(n, b, p)
      PROVE  TypeOK'
  <2> DEFINE t == [task[n][b] EXCEPT !.todo = @ \ {p}]
  <2>1. t \in Tasks
    BY <1>0 DEF Tasks
  <2>2. SetTask(n, b, t)
    BY <1>2 DEF MarkPeer
  <2> HIDE DEF t
  <2> QED
    BY <1>2, <2>1, <2>2, TaskSet, StatusStarted DEF TypeOK, MarkPeer, queue
<1>3. ASSUME NEW p \in Nodes, TryPeer(n, b, p)
      PROVE  TypeOK'
  <2> DEFINE t == [pc |-> IF Up(p) THEN "sent" ELSE "fail",
                   todo |-> task[n][b].todo \ {p}, to |-> p]
  <2>1. t \in Tasks
    BY <1>0 DEF Tasks, PCs
  <2>2. SetTask(n, b, t)
    BY <1>3 DEF TryPeer
  <2> HIDE DEF t
  <2> QED
    BY <1>3, <2>1, <2>2, TaskSet, StatusStarted DEF TypeOK, TryPeer, queue
<1>4. CASE ServeRead(n, b)
  BY <1>4, TaskMoved DEF TypeOK, ServeRead, queue, PCs
<1>5. CASE ServeMark(n, b)
  BY <1>5, TaskMoved, StatusSet DEF TypeOK, ServeMark, queue, PCs, Statuses
<1>6. CASE StoreReceivedBlob(n, b)
  <2>1. row' \in [Nodes -> [Blobs -> [Keys -> RowStates]]]
    <3>1. CASE row[n][b]["text"] = "absent"
      BY <1>0, <1>6, <3>1, RowSet DEF StoreReceivedBlob
    <3>2. CASE row[n][b]["text"] # "absent"
      BY <1>6, <3>2 DEF StoreReceivedBlob, TypeOK
    <3> QED
      BY <3>1, <3>2
  <2>2. task' \in [Nodes -> [Blobs -> Tasks]]
    BY <1>0, <1>6, TaskMoved, TaskSet DEF StoreReceivedBlob, PCs
  <2> QED
    BY <1>6, <2>1, <2>2 DEF TypeOK, StoreReceivedBlob, queue
<1>7. CASE SetCompleted(n, b)
  BY <1>0, <1>7, TaskSet, StatusSet DEF TypeOK, SetCompleted, queue, Statuses
<1>8. CASE SetFailed(n, b)
  <2>1. [task[n][b] EXCEPT !.pc = "try", !.to = NoNode] \in Tasks
    BY TaskRecords DEF PCs
  <2> QED
    BY <1>8, <2>1, TaskSet, StatusSet DEF TypeOK, SetFailed, queue, Statuses
<1>9. CASE EndTask(n, b)
  <2>1. in_progress' \in [Nodes -> SUBSET Blobs]
    BY <1>9 DEF EndTask, TypeOK
  <2> QED
    BY <1>0, <1>9, <2>1, TaskSet DEF TypeOK, EndTask
<1>10. CASE FetchFails(n, b)
  <2>1. faults' \in [may : FaultModels, left : 0..MaxFaults]
    BY <1>10, FaultTyped DEF FetchFails
  <2> QED
    BY <1>10, <2>1, TaskMoved DEF TypeOK, FetchFails, queue, PCs
<1>11. CASE TaskDbError(n, b)
  <2>1. faults' \in [may : FaultModels, left : 0..MaxFaults]
    BY <1>11, FaultTyped DEF TaskDbError
  <2>2. task' \in [Nodes -> [Blobs -> Tasks]]
    BY <1>0, <1>11, TaskMoved, TaskSet DEF TaskDbError, PCs
  <2> QED
    BY <1>11, <2>1, <2>2 DEF TypeOK, TaskDbError, queue
<1>12. CASE HandleDelete(n, b)
  BY <1>0, <1>12, RowSet DEF TypeOK, HandleDelete, queue
<1> QED
  BY <1>1, <1>2, <1>3, <1>4, <1>5, <1>6, <1>7, <1>8, <1>9, <1>10, <1>11, <1>12
  DEF TaskStep

LEMMA NextTypeOK == TypeOK /\ Addressed /\ [Next]_vars => TypeOK'
<1>1. ASSUME TypeOK, UNCHANGED vars
      PROVE  TypeOK'
  BY <1>1 DEF TypeOK, vars
<1> QED
  BY <1>1, MutationTyped, LoopTyped, TaskTyped DEF Next

LEMMA NextAddressed == TypeOK /\ Addressed /\ [Next]_vars => Addressed'
<1> SUFFICES ASSUME TypeOK, Addressed, [Next]_vars, NEW m \in Nodes
             PROVE  /\ ann'[m].targets # {} => ann'[m].blob \in Blobs
                    /\ phase'[m] \in {"sent", "checked", "answered"}
                         => ann'[m].to \in Nodes /\ ann'[m].blob \in Blobs
  BY DEF Addressed
<1> DEFINE AddressedNow ==
             /\ ann'[m].targets # {} => ann'[m].blob \in Blobs
             /\ phase'[m] \in {"sent", "checked", "answered"}
                  => ann'[m].to \in Nodes /\ ann'[m].blob \in Blobs
<1>0. /\ ann[m] \in Announcements
      /\ ann[m].targets # {} => ann[m].blob \in Blobs
      /\ phase[m] \in {"sent", "checked", "answered"}
           => ann[m].to \in Nodes /\ ann[m].blob \in Blobs
  BY DEF TypeOK, Addressed
<1>1. CASE UNCHANGED <<phase, ann>>
  BY <1>0, <1>1
<1>2. ASSUME NEW n \in Nodes, LoopStep(n) \/ AnnounceFails(n) \/ Boot(n)
      PROVE  AddressedNow
  <2>1. CASE m # n
    <3>1. ann'[m] = ann[m] /\ phase'[m] = phase[m]
      BY <1>2, <2>1
      DEF TypeOK, LoopStep, StartConnecting, EndConnecting, TakeBatch, JoinAll,
          SelectBlobs, SelectPeers, EndAnnounce, AnnounceBlob, AnnounceCheck,
          AnnounceEnqueue, SetPending, AnnounceFails, Boot, GoTo
    <3> QED
      BY <1>0, <3>1
  <2>2. CASE m = n
    <3> USE <1>0, <2>2 DEF TypeOK, GoTo
    <3>1. CASE StartConnecting(n) \/ EndConnecting(n) \/ JoinAll(n) \/ Boot(n)
      BY <3>1 DEF StartConnecting, EndConnecting, JoinAll, Boot
    <3>2. CASE TakeBatch(n)
      BY <3>2 DEF TakeBatch
    <3>3. CASE SelectBlobs(n)
      BY <3>3 DEF SelectBlobs, NoAnnouncement
    <3>4. CASE EndAnnounce(n)
      BY <3>4 DEF EndAnnounce, NoAnnouncement
    <3>5. ASSUME NEW b \in Blobs, SelectPeers(n, b)
          PROVE  AddressedNow
      BY <3>5 DEF SelectPeers, Announcements
    <3>6. ASSUME NEW p \in Nodes, AnnounceBlob(n, p)
          PROVE  AddressedNow
      BY <3>6 DEF AnnounceBlob, Announcements
    <3>7. CASE AnnounceCheck(n)
      BY <3>7 DEF AnnounceCheck
    <3>8. CASE AnnounceEnqueue(n)
      BY <3>8 DEF AnnounceEnqueue
    <3>9. CASE SetPending(n) \/ AnnounceFails(n)
      <4>1. ann'[n] = [ann[n] EXCEPT !.to = NoNode] /\ phase'[n] = "announce"
        BY <3>9 DEF SetPending, AnnounceFails
      <4>2. ann'[n].targets = ann[n].targets /\ ann'[n].blob = ann[n].blob
        BY <4>1 DEF Announcements
      <4> QED
        BY <4>1, <4>2
    <3> QED
      BY <1>2, <3>1, <3>2, <3>3, <3>4, <3>5, <3>6, <3>7, <3>8, <3>9 DEF LoopStep
  <2> QED
    BY <2>1, <2>2
<1>3. ASSUME NEW n \in Nodes, Crash(n)
      PROVE  AddressedNow
  <2>1. PICK lost \in BOOLEAN : CallersAfter(n, lost)
    BY <1>3 DEF Crash
  <2> QED
    BY <1>0, <2>1 DEF CallersAfter, NoAnnouncement, Announcements
<1>4. ASSUME NEW b \in Blobs,
             AddBlob(b) \/ DeleteBlob(b) \/ MutationStep(b) \/ MutationDbError(b)
      PROVE  UNCHANGED <<phase, ann>>
  BY <1>4 DEF AddBlob, DeleteBlob, MutationStep, MutationDbError, QueueAdded,
              UpdateDeleted, QueueDeleted, AnswerDelete
<1>5. ASSUME NEW n \in Nodes, NEW b \in Blobs,
             \/ TaskStep(n, b) \/ FetchFails(n, b) \/ TaskDbError(n, b)
             \/ HandleDelete(n, b)
      PROVE  UNCHANGED <<phase, ann>>
  BY <1>5 DEF TaskStep, FetchFails, TaskDbError, HandleDelete, StartTask, MarkPeer,
              TryPeer, ServeRead, ServeMark, StoreReceivedBlob, SetCompleted,
              SetFailed, EndTask
<1>6. CASE UNCHANGED vars
  BY <1>1, <1>6 DEF vars
<1> QED
  BY <1>1, <1>2, <1>3, <1>4, <1>5, <1>6 DEF Next

(* Every reachable state of the network is well formed.                    *)
THEOREM TypeCorrect == Spec => []TypeOK
<1>1. Spec => [](TypeOK /\ Addressed)
  BY InitTypeOK, NextTypeOK, NextAddressed, PTL DEF Spec
<1> QED
  BY <1>1, PTL

-----------------------------------------------------------------------------
(* What is in the tables.  The properties of the rows are not inductive:   *)
(* why the home of a blob never stores a fetched copy of it takes the      *)
(* whole path of a fetch.  Only the home has a row under the uuid key      *)
(* (UuidAtHome), that is the only kind of row handle_fetch serves, so a    *)
(* task that has got a reply has it from the home (ServedByHome); and no   *)
(* node is its own peer (NotItself), so that task is not the home's.       *)

UuidAtHome ==
  \A n \in Nodes, b \in Blobs : n # Home[b] => row[n][b]["uuid"] = "absent"

HomeHasNoText == \A b \in Blobs : row[Home[b]][b]["text"] = "absent"

AddedOnce ==
  \A b \in Blobs : mutation[b] = "none" => row[Home[b]][b]["uuid"] = "absent"

NotItself ==
  \A n \in Nodes :
    /\ n \notin peers[n]
    /\ \A b \in Blobs : n \notin task[n][b].todo /\ n # task[n][b].to

CallHasAPeer ==
  \A n \in Nodes, b \in Blobs : task[n][b].pc = "sent" => task[n][b].to \in Nodes

ServedByHome ==
  \A n \in Nodes, b \in Blobs :
    task[n][b].pc \in {"read", "got", "stored"} => task[n][b].to = Home[b]

StoredHasRow ==
  \A n \in Nodes, b \in Blobs :
    task[n][b].pc = "stored" => row[n][b]["text"] # "absent"

IInv ==
  /\ TypeOK
  /\ Addressed
  /\ UuidAtHome
  /\ HomeHasNoText
  /\ AddedOnce
  /\ NotItself
  /\ CallHasAPeer
  /\ ServedByHome
  /\ StoredHasRow
  /\ CompletedFetchIsStored

LEMMA InitIInv == Init => IInv
<1> SUFFICES ASSUME Init
             PROVE  IInv
  OBVIOUS
<1>1. TypeOK /\ Addressed
  BY InitTypeOK
<1>2. UuidAtHome /\ HomeHasNoText /\ AddedOnce /\ CompletedFetchIsStored
  BY ReplicationAssumption
  DEF Init, Keys, UuidAtHome, HomeHasNoText, AddedOnce, CompletedFetchIsStored
<1>3. NotItself
  BY ReplicationAssumption DEF Init, NoTask, NotItself
<1>4. CallHasAPeer /\ ServedByHome /\ StoredHasRow
  BY DEF Init, NoTask, CallHasAPeer, ServedByHome, StoredHasRow
<1> QED
  BY <1>1, <1>2, <1>3, <1>4 DEF IInv

(* The four statements that change a row.                                  *)
LEMMA RowMoves ==
  ASSUME [Next]_vars
  PROVE  \/ UNCHANGED row
         \/ \E b \in Blobs : AddBlob(b) \/ UpdateDeleted(b)
         \/ \E n \in Nodes, b \in Blobs : StoreReceivedBlob(n, b) \/ HandleDelete(n, b)
<1>1. ASSUME NEW n \in Nodes, LoopStep(n) \/ AnnounceFails(n) \/ Crash(n) \/ Boot(n)
      PROVE  UNCHANGED row
  BY <1>1 DEF LoopStep, StartConnecting, EndConnecting, TakeBatch, JoinAll,
              SelectBlobs, SelectPeers, EndAnnounce, AnnounceBlob, AnnounceCheck,
              AnnounceEnqueue, SetPending, AnnounceFails, Crash, Boot
<1>2. ASSUME NEW b \in Blobs, DeleteBlob(b) \/ MutationStep(b) \/ MutationDbError(b)
      PROVE  UNCHANGED row \/ UpdateDeleted(b)
  BY <1>2 DEF DeleteBlob, MutationStep, MutationDbError, QueueAdded, QueueDeleted,
              AnswerDelete
<1>3. ASSUME NEW n \in Nodes, NEW b \in Blobs,
             TaskStep(n, b) \/ FetchFails(n, b) \/ TaskDbError(n, b)
      PROVE  UNCHANGED row \/ StoreReceivedBlob(n, b)
  BY <1>3 DEF TaskStep, FetchFails, TaskDbError, StartTask, MarkPeer, TryPeer,
              ServeRead, ServeMark, SetCompleted, SetFailed, EndTask
<1>4. CASE UNCHANGED vars
  BY <1>4 DEF vars
<1> QED
  BY <1>1, <1>2, <1>3, <1>4 DEF Next

(* What each of them does to each row.                                     *)
LEMMA RowAfter ==
  ASSUME IInv, [Next]_vars, NEW m \in Nodes, NEW c \in Blobs
  PROVE  /\ row'[m][c]["uuid"] # row[m][c]["uuid"] =>
              /\ m = Home[c]
              /\ mutation'[c] # "none"
              /\ row'[m][c]["uuid"] \in {"live", "deleted"}
              /\ row'[m][c]["uuid"] = "live" => mutation[c] = "none"
         /\ row'[m][c]["text"] # row[m][c]["text"] =>
              \/ task[m][c].pc = "got" /\ row[m][c]["text"] = "absent"
              \/ row[m][c]["text"] = "live" /\ row'[m][c]["text"] = "deleted"
<1>0. /\ row \in [Nodes -> [Blobs -> [Keys -> RowStates]]]
      /\ mutation \in [Blobs -> Mutations]
      /\ "uuid" \in Keys /\ "text" \in Keys /\ "uuid" # "text"
  BY DEF IInv, TypeOK, Keys
<1>1. CASE UNCHANGED row
  BY <1>1
<1>2. ASSUME NEW b \in Blobs, AddBlob(b) \/ UpdateDeleted(b)
      PROVE  /\ row'[m][c]["text"] = row[m][c]["text"]
             /\ row'[m][c]["uuid"] # row[m][c]["uuid"] => m = Home[b] /\ c = b
             /\ mutation'[b] # "none"
             /\ \/ row'[m][c]["uuid"] = row[m][c]["uuid"]
                \/ row'[m][c]["uuid"] = "live" /\ mutation[b] = "none"
                \/ row'[m][c]["uuid"] = "deleted"
  <2>1. Home[b] \in Nodes
    BY ReplicationAssumption
  <2>2. CASE AddBlob(b)
    BY <1>0, <2>1, <2>2 DEF AddBlob
  <2>3. CASE UpdateDeleted(b)
    BY <1>0, <2>1, <2>3 DEF UpdateDeleted
  <2> QED
    BY <1>2, <2>2, <2>3
<1>3. ASSUME NEW n \in Nodes, NEW b \in Blobs, StoreReceivedBlob(n, b)
      PROVE  /\ row'[m][c]["uuid"] = row[m][c]["uuid"]
             /\ row'[m][c]["text"] # row[m][c]["text"] =>
                  task[m][c].pc = "got" /\ row[m][c]["text"] = "absent"
  <2>1. task[n][b].pc = "got"
    BY <1>3 DEF StoreReceivedBlob
  <2>2. CASE row[n][b]["text"] = "absent"
    <3>1. row' = [row EXCEPT ![n][b]["text"] = "live"]
      BY <1>3, <2>2 DEF StoreReceivedBlob
    <3> QED
      BY <1>0, <2>1, <2>2, <3>1
  <2>3. CASE row[n][b]["text"] # "absent"
    BY <1>3, <2>3 DEF StoreReceivedBlob
  <2> QED
    BY <2>2, <2>3
<1>4. ASSUME NEW n \in Nodes, NEW b \in Blobs, HandleDelete(n, b)
      PROVE  /\ row'[m][c]["uuid"] = row[m][c]["uuid"]
             /\ row'[m][c]["text"] # row[m][c]["text"] =>
                  row[m][c]["text"] = "live" /\ row'[m][c]["text"] = "deleted"
  BY <1>0, <1>4 DEF HandleDelete
<1> QED
  BY <1>1, <1>2, <1>3, <1>4, RowMoves

(* No statement takes a row away.                                          *)
LEMMA RowsStay ==
  ASSUME IInv, [Next]_vars, NEW m \in Nodes, NEW c \in Blobs,
         row[m][c]["text"] # "absent"
  PROVE  row'[m][c]["text"] # "absent"
  BY RowAfter

LEMMA NextRows ==
  ASSUME IInv, [Next]_vars
  PROVE  UuidAtHome' /\ HomeHasNoText'
<1>1. UuidAtHome'
  BY RowAfter DEF IInv, UuidAtHome
<1>2. HomeHasNoText'
  <2>1. ASSUME NEW b \in Blobs
        PROVE  row'[Home[b]][b]["text"] = "absent"
    <3>1. Home[b] \in Nodes /\ row[Home[b]][b]["text"] = "absent"
      BY ReplicationAssumption DEF IInv, HomeHasNoText
    <3>2. task[Home[b]][b].pc # "got"
      BY <3>1 DEF IInv, ServedByHome, NotItself
    <3> QED
      BY <3>1, <3>2, RowAfter
  <2> QED
    BY <2>1 DEF HomeHasNoText
<1> QED
  BY <1>1, <1>2

(* A mutation never returns to its first state, not even in a crash.       *)
LEMMA MutationMoves ==
  ASSUME IInv, [Next]_vars, NEW c \in Blobs, mutation'[c] = "none"
  PROVE  mutation[c] = "none"
<1> USE DEF IInv, TypeOK
<1>1. ASSUME NEW n \in Nodes, LoopStep(n) \/ AnnounceFails(n) \/ Boot(n)
      PROVE  UNCHANGED mutation
  BY <1>1 DEF LoopStep, StartConnecting, EndConnecting, TakeBatch, JoinAll,
              SelectBlobs, SelectPeers, EndAnnounce, AnnounceBlob, AnnounceCheck,
              AnnounceEnqueue, SetPending, AnnounceFails, Boot
<1>2. ASSUME NEW n \in Nodes, Crash(n)
      PROVE  mutation[c] = "none"
  BY <1>2 DEF Crash
<1>3. ASSUME NEW b \in Blobs,
             AddBlob(b) \/ DeleteBlob(b) \/ MutationStep(b) \/ MutationDbError(b)
      PROVE  mutation[c] = "none"
  BY <1>3 DEF AddBlob, DeleteBlob, MutationStep, MutationDbError, QueueAdded,
              UpdateDeleted, QueueDeleted, AnswerDelete
<1>4. ASSUME NEW n \in Nodes, NEW b \in Blobs,
             \/ TaskStep(n, b) \/ FetchFails(n, b) \/ TaskDbError(n, b)
             \/ HandleDelete(n, b)
      PROVE  UNCHANGED mutation
  BY <1>4 DEF TaskStep, FetchFails, TaskDbError, HandleDelete, StartTask, MarkPeer,
              TryPeer, ServeRead, ServeMark, StoreReceivedBlob, SetCompleted,
              SetFailed, EndTask
<1>5. CASE UNCHANGED vars
  BY <1>5 DEF vars
<1> QED
  BY <1>1, <1>2, <1>3, <1>4, <1>5 DEF Next

LEMMA NextAddedOnce ==
  ASSUME IInv, [Next]_vars
  PROVE  AddedOnce'
<1> SUFFICES ASSUME NEW b \in Blobs, mutation'[b] = "none"
             PROVE  row'[Home[b]][b]["uuid"] = "absent"
  BY DEF AddedOnce
<1>1. mutation[b] = "none"
  BY MutationMoves
<1>2. Home[b] \in Nodes
  BY ReplicationAssumption
<1> QED
  BY <1>1, <1>2, RowAfter DEF IInv, AddedOnce

(* Where a task is after it has moved.                                     *)
LEMMA TaskPoint ==
  ASSUME TypeOK, NEW n \in Nodes, NEW b \in Blobs
  PROVE  /\ \A t : SetTask(n, b, t) => task'[n][b] = t
         /\ \A pc : SetPC(n, b, pc) =>
              /\ task'[n][b].pc = pc
              /\ task'[n][b].todo = task[n][b].todo
              /\ task'[n][b].to = task[n][b].to
<1>1. task \in [Nodes -> [Blobs -> Tasks]] /\ task[n][b] \in Tasks
  BY DEF TypeOK
<1>2. ASSUME NEW t, SetTask(n, b, t)
      PROVE  task'[n][b] = t
  BY <1>1, <1>2 DEF SetTask
<1>3. ASSUME NEW pc
      PROVE  /\ [task[n][b] EXCEPT !.pc = pc].pc = pc
             /\ [task[n][b] EXCEPT !.pc = pc].todo = task[n][b].todo
             /\ [task[n][b] EXCEPT !.pc = pc].to = task[n][b].to
  BY <1>1 DEF Tasks
<1>4. ASSUME NEW pc, SetPC(n, b, pc)
      PROVE  task'[n][b] = [task[n][b] EXCEPT !.pc = pc]
  BY <1>2, <1>4 DEF SetPC
<1> QED
  BY <1>2, <1>3, <1>4

(* How the task of a blob may change: where it takes its peers from, when  *)
(* it is served, and what it has done before it has stored the blob.       *)
TaskMoves(m, c) ==
  /\ task'[m][c].todo \subseteq task[m][c].todo \cup peers[m]
  /\ task'[m][c].to \in {NoNode, task[m][c].to} \cup task[m][c].todo
  /\ task'[m][c].pc = "sent" =>
       \/ task'[m][c].to \in Nodes
       \/ task[m][c].pc = "sent" /\ task'[m][c].to = task[m][c].to
  /\ task'[m][c].pc = "read" =>
       /\ task'[m][c].to = task[m][c].to
       /\ \/ task[m][c].pc = "read"
          \/ task[m][c].pc = "sent" /\ row[task[m][c].to][c]["uuid"] = "live"
  /\ task'[m][c].pc \in {"got", "stored"} =>
       /\ task'[m][c].to = task[m][c].to
       /\ task[m][c].pc \in {"read", "got", "stored"}
  /\ task'[m][c].pc = "stored" =>
       \/ task[m][c].pc = "stored"
       \/ row'[m][c]["text"] = "live"

LEMMA TaskAfter ==
  ASSUME IInv, [Next]_vars, NEW m \in Nodes, NEW c \in Blobs
  PROVE  \/ task'[m][c] = NoTask
         \/ task'[m][c] = [NoTask EXCEPT !.pc = "start"]
         \/ task'[m][c] = [NoTask EXCEPT !.pc = "end"]
         \/ TaskMoves(m, c)
<1> USE DEF TaskMoves
<1> DEFINE After ==
             \/ task'[m][c] = NoTask
             \/ task'[m][c] = [NoTask EXCEPT !.pc = "start"]
             \/ task'[m][c] = [NoTask EXCEPT !.pc = "end"]
             \/ TaskMoves(m, c)
<1>0. /\ task \in [Nodes -> [Blobs -> Tasks]]
      /\ task[m][c] \in Tasks
      /\ row \in [Nodes -> [Blobs -> [Keys -> RowStates]]]
      /\ "text" \in Keys
  BY DEF IInv, TypeOK, Keys
<1>1. ASSUME task'[m][c] = task[m][c]
      PROVE  TaskMoves(m, c)
  BY <1>1
<1>2. ASSUME NEW n \in Nodes, LoopStep(n) \/ AnnounceFails(n) \/ Boot(n)
      PROVE  After
  <2>1. CASE TakeBatch(n)
    BY <1>0, <1>1, <2>1 DEF TakeBatch
  <2>2. CASE ~TakeBatch(n)
    <3>1. UNCHANGED task
      BY <1>2, <2>2
      DEF LoopStep, StartConnecting, EndConnecting, JoinAll, SelectBlobs,
          SelectPeers, EndAnnounce, AnnounceBlob, AnnounceCheck, AnnounceEnqueue,
          SetPending, AnnounceFails, Boot
    <3> QED
      BY <1>1, <3>1
  <2> QED
    BY <2>1, <2>2
<1>3. ASSUME NEW n \in Nodes, Crash(n)
      PROVE  After
  <2>1. PICK lost \in BOOLEAN : CallersAfter(n, lost)
    BY <1>3 DEF Crash
  <2>2. \/ task'[m][c] = NoTask
        \/ task'[m][c] = [task[m][c] EXCEPT !.pc = "fail"]
        \/ task'[m][c] = task[m][c]
    BY <2>1 DEF CallersAfter
  <2>3. CASE task'[m][c] = [task[m][c] EXCEPT !.pc = "fail"]
    BY <1>0, <2>3 DEF Tasks
  <2> QED
    BY <1>1, <2>2, <2>3
<1>4. ASSUME NEW b \in Blobs,
             AddBlob(b) \/ DeleteBlob(b) \/ MutationStep(b) \/ MutationDbError(b)
      PROVE  UNCHANGED task
  BY <1>4 DEF AddBlob, DeleteBlob, MutationStep, MutationDbError, QueueAdded,
              UpdateDeleted, QueueDeleted, AnswerDelete
<1>5. ASSUME NEW n \in Nodes, NEW b \in Blobs,
             \/ TaskStep(n, b) \/ FetchFails(n, b) \/ TaskDbError(n, b)
             \/ HandleDelete(n, b)
      PROVE  After
  <2>1. CASE HandleDelete(n, b)
    BY <1>1, <2>1 DEF HandleDelete
  <2>2. CASE <<m, c>> # <<n, b>>
    <3>1. CASE HandleDelete(n, b)
      BY <1>1, <3>1 DEF HandleDelete
    <3>2. CASE ~HandleDelete(n, b)
      <4>1. PICK t : task' = [task EXCEPT ![n][b] = t]
        BY <1>5, <3>2
        DEF TaskStep, FetchFails, TaskDbError, StartTask, MarkPeer, TryPeer,
            ServeRead, ServeMark, StoreReceivedBlob, SetCompleted, SetFailed,
            EndTask, SetTask, SetPC
      <4>2. task'[m][c] = task[m][c]
        BY <1>0, <2>2, <4>1
      <4> QED
        BY <1>1, <4>2
    <3> QED
      BY <3>1, <3>2
  <2>3. CASE m = n /\ c = b
    <3> USE <1>0, <2>3
    <3>1. CASE StartTask(n, b)
      BY <3>1 DEF StartTask, NoTask, SetTask, SetPC, Tasks
    <3>2. ASSUME NEW p \in Nodes, MarkPeer(n, b, p)
          PROVE  TaskMoves(m, c)
      BY <3>2 DEF MarkPeer, SetTask, SetPC, Tasks
    <3>3. ASSUME NEW p \in Nodes, TryPeer(n, b, p)
          PROVE  TaskMoves(m, c)
      BY <3>3 DEF TryPeer, SetTask, SetPC, Tasks
    <3>4. CASE ServeRead(n, b)
      BY <3>4 DEF ServeRead, SetTask, SetPC, Tasks
    <3>5. CASE ServeMark(n, b)
      BY <3>5 DEF ServeMark, SetTask, SetPC, Tasks
    <3>6. CASE StoreReceivedBlob(n, b)
      <4>1. CASE row[n][b]["text"] = "absent"
        <5>1. row'[n][b]["text"] = "live" /\ task[n][b].pc = "got"
          BY <3>6, <4>1 DEF StoreReceivedBlob
        <5>2. SetPC(n, b, "stored")
          BY <3>6, <4>1 DEF StoreReceivedBlob
        <5>3. /\ task'[n][b].pc = "stored"
              /\ task'[n][b].todo = task[n][b].todo
              /\ task'[n][b].to = task[n][b].to
          BY <5>2, TaskPoint DEF IInv
        <5> QED
          BY <5>1, <5>3
      <4>2. CASE row[n][b]["text"] # "absent"
        <5>1. SetTask(n, b, [NoTask EXCEPT !.pc = "end"])
          BY <3>6, <4>2 DEF StoreReceivedBlob
        <5> QED
          BY <5>1, TaskPoint DEF IInv
      <4> QED
        BY <4>1, <4>2
    <3>7. CASE SetCompleted(n, b) \/ EndTask(n, b)
      BY <3>7 DEF SetCompleted, EndTask, SetTask, SetPC, Tasks
    <3>8. CASE SetFailed(n, b)
      BY <3>8 DEF SetFailed, SetTask, SetPC, Tasks
    <3>9. CASE FetchFails(n, b)
      BY <3>9 DEF FetchFails, SetTask, SetPC, Tasks
    <3>10. CASE TaskDbError(n, b)
      <4>1. SetTask(n, b, [NoTask EXCEPT !.pc = "end"]) \/ SetPC(n, b, "fail")
        BY Zenon, <3>10 DEF TaskDbError
      <4>2. \/ task'[n][b] = [NoTask EXCEPT !.pc = "end"]
            \/ /\ task'[n][b].pc = "fail"
               /\ task'[n][b].todo = task[n][b].todo
               /\ task'[n][b].to = task[n][b].to
        BY <4>1, TaskPoint DEF IInv
      <4> QED
        BY <4>2
    <3> QED
      BY <1>5, <2>1, <3>1, <3>2, <3>3, <3>4, <3>5, <3>6, <3>7, <3>8, <3>9, <3>10
      DEF TaskStep
  <2> QED
    BY <2>2, <2>3
<1>6. CASE UNCHANGED vars
  BY <1>1, <1>6 DEF vars
<1> QED
  BY <1>1, <1>2, <1>3, <1>4, <1>5, <1>6 DEF Next

(* Peers are forgotten in a crash and met when a node starts.              *)
LEMMA NextPeers ==
  ASSUME IInv, [Next]_vars, NEW m \in Nodes
  PROVE  m \notin peers'[m]
<1>0. /\ peers \in [Nodes -> SUBSET Nodes]
      /\ m \notin peers[m]
      /\ m \notin ConfigPeers[m]
  BY ReplicationAssumption DEF IInv, TypeOK, NotItself
<1>1. ASSUME NEW n \in Nodes, LoopStep(n) \/ AnnounceFails(n)
      PROVE  UNCHANGED peers
  BY <1>1 DEF LoopStep, StartConnecting, EndConnecting, TakeBatch, JoinAll,
              SelectBlobs, SelectPeers, EndAnnounce, AnnounceBlob, AnnounceCheck,
              AnnounceEnqueue, SetPending, AnnounceFails
<1>2. ASSUME NEW n \in Nodes, Crash(n)
      PROVE  m \notin peers'[m]
  BY <1>0, <1>2 DEF Crash
<1>3. ASSUME NEW n \in Nodes, Boot(n)
      PROVE  m \notin peers'[m]
  BY <1>0, <1>3 DEF Boot
<1>4. ASSUME NEW b \in Blobs,
             AddBlob(b) \/ DeleteBlob(b) \/ MutationStep(b) \/ MutationDbError(b)
      PROVE  UNCHANGED peers
  BY <1>4 DEF AddBlob, DeleteBlob, MutationStep, MutationDbError, QueueAdded,
              UpdateDeleted, QueueDeleted, AnswerDelete
<1>5. ASSUME NEW n \in Nodes, NEW b \in Blobs,
             \/ TaskStep(n, b) \/ FetchFails(n, b) \/ TaskDbError(n, b)
             \/ HandleDelete(n, b)
      PROVE  UNCHANGED peers
  BY <1>5 DEF TaskStep, FetchFails, TaskDbError, HandleDelete, StartTask, MarkPeer,
              TryPeer, ServeRead, ServeMark, StoreReceivedBlob, SetCompleted,
              SetFailed, EndTask
<1>6. CASE UNCHANGED vars
  BY <1>0, <1>6 DEF vars
<1> QED
  BY <1>0, <1>1, <1>2, <1>3, <1>4, <1>5, <1>6 DEF Next

LEMMA NextTasks ==
  ASSUME IInv, [Next]_vars
  PROVE  NotItself' /\ CallHasAPeer' /\ ServedByHome' /\ StoredHasRow'
<1> DEFINE Rest(m, c) ==
             /\ m \notin task'[m][c].todo
             /\ m # task'[m][c].to
             /\ task'[m][c].pc = "sent" => task'[m][c].to \in Nodes
             /\ task'[m][c].pc \in {"read", "got", "stored"}
                  => task'[m][c].to = Home[c]
             /\ task'[m][c].pc = "stored" => row'[m][c]["text"] # "absent"
<1> SUFFICES ASSUME NEW m \in Nodes, NEW c \in Blobs
             PROVE  Rest(m, c)
  <2> SUFFICES ASSUME \A m \in Nodes, c \in Blobs : Rest(m, c)
               PROVE  NotItself' /\ CallHasAPeer' /\ ServedByHome' /\ StoredHasRow'
    OBVIOUS
  <2>1. \A m \in Nodes : m \notin peers'[m]
    BY NextPeers
  <2> QED
    BY <2>1 DEF NotItself, CallHasAPeer, ServedByHome, StoredHasRow
<1>0. /\ m \notin peers[m] /\ m \notin task[m][c].todo /\ m # task[m][c].to
      /\ task[m][c].pc = "sent" => task[m][c].to \in Nodes
      /\ task[m][c].pc \in {"read", "got", "stored"} => task[m][c].to = Home[c]
      /\ task[m][c].pc = "stored" => row[m][c]["text"] # "absent"
      /\ m # NoNode
      /\ task[m][c].to \in Nodes \cup {NoNode}
  BY ReplicationAssumption
  DEF IInv, TypeOK, Tasks, NotItself, CallHasAPeer, ServedByHome, StoredHasRow
<1>1. CASE \/ task'[m][c] = NoTask
           \/ task'[m][c] = [NoTask EXCEPT !.pc = "start"]
           \/ task'[m][c] = [NoTask EXCEPT !.pc = "end"]
  BY <1>0, <1>1, NextPeers DEF NoTask
<1>2. CASE TaskMoves(m, c)
  <2> USE DEF TaskMoves
  <2>1. m \notin task'[m][c].todo /\ m # task'[m][c].to
    BY <1>0, <1>2
  <2>2. CASE task'[m][c].pc = "read"
    BY <1>0, <1>2, <2>1, <2>2 DEF IInv, UuidAtHome
  <2>3. CASE task'[m][c].pc \in {"got", "stored"}
    <3>1. task'[m][c].to = Home[c]
      BY <1>0, <1>2, <2>3
    <3>2. CASE task'[m][c].pc = "stored" /\ task[m][c].pc = "stored"
      BY <1>0, <3>2, <2>1, <3>1, RowsStay
    <3>3. CASE task'[m][c].pc = "stored" /\ row'[m][c]["text"] = "live"
      BY <3>3, <2>1, <3>1
    <3>4. CASE task'[m][c].pc = "got"
      BY <3>4, <2>1, <3>1
    <3> QED
      BY <1>2, <2>3, <3>2, <3>3, <3>4
  <2>4. CASE task'[m][c].pc \notin {"read", "got", "stored"}
    BY <1>0, <1>2, <2>1, <2>4
  <2> QED
    BY <2>2, <2>3, <2>4
<1> QED
  BY <1>1, <1>2, TaskAfter

(* Only the end of a fetch, and a node that serves one, set completed.     *)
LEMMA StatusAfter ==
  ASSUME IInv, [Next]_vars, NEW m \in Nodes, NEW c \in Blobs, NEW p \in Nodes,
         sync_status'[m][c][p] = "completed"
  PROVE  \/ sync_status[m][c][p] = "completed"
         \/ task[m][c].pc = "stored"
         \/ m = Home[c]
<1>0. sync_status \in [Nodes -> [Blobs -> [Nodes -> Statuses]]]
  BY DEF IInv, TypeOK
<1>1. ASSUME NEW n, NEW b, NEW q, NEW s, SetBlobStatus(n, b, q, s)
      PROVE  \/ sync_status[m][c][p] = "completed"
             \/ m = n /\ c = b /\ s = "completed"
  BY <1>0, <1>1 DEF SetBlobStatus
<1>2. ASSUME NEW n, NEW b, NEW q, StartBlobSyncWithPeer(n, b, q)
      PROVE  sync_status[m][c][p] = "completed"
  BY <1>0, <1>2 DEF StartBlobSyncWithPeer
<1>3. ASSUME NEW n \in Nodes, LoopStep(n) \/ AnnounceFails(n) \/ Crash(n) \/ Boot(n)
      PROVE  sync_status[m][c][p] = "completed"
  <2>1. CASE SetPending(n)
    BY <1>1, <2>1 DEF SetPending
  <2>2. CASE ~SetPending(n)
    <3>1. UNCHANGED sync_status
      BY <1>3, <2>2
      DEF LoopStep, StartConnecting, EndConnecting, TakeBatch, JoinAll,
          SelectBlobs, SelectPeers, EndAnnounce, AnnounceBlob, AnnounceCheck,
          AnnounceEnqueue, AnnounceFails, Crash, Boot
    <3> QED
      BY <3>1
  <2> QED
    BY <2>1, <2>2
<1>4. ASSUME NEW b \in Blobs,
             AddBlob(b) \/ DeleteBlob(b) \/ MutationStep(b) \/ MutationDbError(b)
      PROVE  UNCHANGED sync_status
  BY <1>4 DEF AddBlob, DeleteBlob, MutationStep, MutationDbError, QueueAdded,
              UpdateDeleted, QueueDeleted, AnswerDelete
<1>5. ASSUME NEW n \in Nodes, NEW b \in Blobs,
             \/ TaskStep(n, b) \/ FetchFails(n, b) \/ TaskDbError(n, b)
             \/ HandleDelete(n, b)
      PROVE  \/ sync_status[m][c][p] = "completed"
             \/ task[m][c].pc = "stored"
             \/ m = Home[c]
  <2>1. CASE ServeMark(n, b)
    <3>1. task[n][b].to = Home[b]
      BY <2>1 DEF ServeMark, IInv, ServedByHome
    <3>2. SetBlobStatus(Home[b], b, n, "completed")
      BY <2>1, <3>1 DEF ServeMark
    <3> QED
      BY <1>1, <3>2
  <2>2. CASE SetCompleted(n, b)
    <3>1. task[n][b].pc = "stored" /\ SetBlobStatus(n, b, task[n][b].to, "completed")
      BY <2>2 DEF SetCompleted
    <3> QED
      BY <1>1, <3>1
  <2>3. CASE SetFailed(n, b)
    BY <1>1, <2>3 DEF SetFailed
  <2>4. CASE \E q \in Nodes : MarkPeer(n, b, q) \/ TryPeer(n, b, q)
    BY <1>2, <2>4 DEF MarkPeer, TryPeer
  <2>5. CASE \/ StartTask(n, b) \/ ServeRead(n, b) \/ StoreReceivedBlob(n, b)
             \/ EndTask(n, b) \/ FetchFails(n, b) \/ TaskDbError(n, b)
             \/ HandleDelete(n, b)
    <3>1. UNCHANGED sync_status
      BY <2>5 DEF StartTask, ServeRead, StoreReceivedBlob, EndTask, FetchFails,
                  TaskDbError, HandleDelete
    <3> QED
      BY <3>1
  <2> QED
    BY <1>5, <2>1, <2>2, <2>3, <2>4, <2>5 DEF TaskStep
<1>6. CASE UNCHANGED vars
  BY <1>6 DEF vars
<1> QED
  BY <1>3, <1>4, <1>5, <1>6 DEF Next

LEMMA NextCompleted ==
  ASSUME IInv, [Next]_vars
  PROVE  CompletedFetchIsStored'
<1> SUFFICES ASSUME NEW b \in Blobs, NEW n \in Nodes, NEW p \in Nodes,
                    n # Home[b], sync_status'[n][b][p] = "completed"
             PROVE  row'[n][b]["text"] # "absent"
  BY DEF CompletedFetchIsStored
<1>1. row[n][b]["text"] # "absent"
  BY StatusAfter DEF IInv, CompletedFetchIsStored, StoredHasRow
<1> QED
  BY <1>1, RowsStay

LEMMA NextIInv == IInv /\ [Next]_vars => IInv'
  BY NextTypeOK, NextAddressed, NextRows, NextAddedOnce, NextTasks, NextCompleted
  DEF IInv

LEMMA InvariantIInv == Spec => []IInv
  BY InitIInv, NextIInv, PTL DEF Spec

-----------------------------------------------------------------------------

(* A deleted blob does not come back to its home (delete_blob queues it    *)
(* there once more, user_api/mod.rs:200), whatever its peers still have.   *)
THEOREM DeletedStaysAway == Spec => []NoResurrection
<1>1. IInv => NoResurrection
  BY DEF IInv, HomeHasNoText, NoResurrection
<1> QED
  BY <1>1, InvariantIInv, PTL

(* A fetch that is recorded as completed has a row (sync.rs:228 to 231),   *)
(* across crashes, lost calls and errors between the two statements.       *)
THEOREM CompletedIsStored == Spec => []CompletedFetchIsStored
<1>1. IInv => CompletedFetchIsStored
  BY DEF IInv
<1> QED
  BY <1>1, InvariantIInv, PTL

(* No step of any node, user or fault revives a deleted row.               *)
THEOREM TombstonesAreKept == Spec => TombstonesStay
<1> DEFINE Kept == \A n \in Nodes, b \in Blobs, k \in Keys :
                     row[n][b][k] = "deleted" => row'[n][b][k] = "deleted"
<1>1. IInv /\ [Next]_vars => [Kept]_vars
  <2> SUFFICES ASSUME IInv, [Next]_vars, NEW n \in Nodes, NEW b \in Blobs,
                      NEW k \in Keys, row[n][b][k] = "deleted"
               PROVE  row'[n][b][k] = "deleted"
    OBVIOUS
  <2>1. CASE k = "text"
    BY <2>1, RowAfter
  <2>2. CASE k = "uuid"
    <3>1. mutation[b] # "none" \/ n # Home[b]
      BY <2>2 DEF IInv, AddedOnce
    <3> QED
      BY <2>2, <3>1, RowAfter
  <2> QED
    BY <2>1, <2>2 DEF Keys
<1> QED
  BY <1>1, InvariantIInv, PTL DEF Spec, TombstonesStay
=============================================================================
