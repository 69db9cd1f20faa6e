--------------------------- MODULE SyncQueueProofs ---------------------------
(***************************************************************************)
(* Proofs about the fetch queue, for every set of blob ids and every value *)
(* of max_concurrent_syncs.                                                *)
(*                                                                         *)
(* The inductive invariant is IInv.  InProgressExact is not inductive by   *)
(* itself: TakeBatch overwrites the running tasks with the new batch, and  *)
(* only the last conjunct of BoundedConcurrency (no task outlives the join *)
(* that waits for it) says that nothing is lost by that.                   *)
(***************************************************************************)
EXTENDS SyncQueue, SequenceTheorems, FiniteSetTheorems, FunctionTheorems, TLAPS

-----------------------------------------------------------------------------
(* The queue, cut in two by a batch.                                       *)

(* A value is in the range of a sequence when it is one of its entries.    *)
LEMMA InRange ==
  ASSUME NEW S, NEW q \in Seq(S), NEW x
  PROVE  x \in Range(q) <=> \E i \in 1..Len(q) : q[i] = x
  BY DEF Range

(* push_back adds one entry at the end and leaves the others alone.        *)
LEMMA PushBack ==
  ASSUME NEW S, NEW q \in Seq(S), NEW x \in S
  PROVE  /\ Append(q, x) \in Seq(S)
         /\ Len(Append(q, x)) = Len(q) + 1
         /\ \A i \in 1..Len(q) : Append(q, x)[i] = q[i]
         /\ Append(q, x)[Len(q) + 1] = x
         /\ Range(Append(q, x)) = Range(q) \cup {x}
<1>1. /\ Append(q, x) \in Seq(S)
      /\ Len(Append(q, x)) = Len(q) + 1
      /\ \A i \in 1..Len(q) : Append(q, x)[i] = q[i]
      /\ Append(q, x)[Len(q) + 1] = x
      /\ Len(q) \in Nat
  OBVIOUS
<1>2. ASSUME NEW y
      PROVE  y \in Range(Append(q, x)) <=> y \in Range(q) \cup {x}
  <2>1. y \in Range(Append(q, x)) <=>
          \E i \in 1..(Len(q) + 1) : Append(q, x)[i] = y
    <3> DEFINE p == Append(q, x)
    <3>1. /\ p \in Seq(S)
          /\ Len(p) = Len(q) + 1
      BY <1>1
    <3> HIDE DEF p
    <3>2. y \in Range(p) <=> \E i \in 1..Len(p) : p[i] = y
      BY <3>1, InRange
    <3> QED
      BY <3>1, <3>2 DEF p
  <2>2. y \in Range(q) <=> \E i \in 1..Len(q) : q[i] = y
    BY InRange
  <2>3. 1..(Len(q) + 1) = 1..Len(q) \cup {Len(q) + 1}
    BY <1>1
  <2> QED
    BY <1>1, <2>1, <2>2, <2>3
<1> QED
  BY <1>1, <1>2

(* Popping k entries from the front cuts a sequence in two: every entry is *)
(* in one of the parts, and where the entries differ, in only one.         *)
LEMMA PopFront ==
  ASSUME NEW S, NEW q \in Seq(S), NEW k \in 0..Len(q)
  PROVE  LET front == SubSeq(q, 1, k)
             back  == SubSeq(q, k + 1, Len(q))
             distinct(s) == \A i, j \in 1..Len(s) : s[i] = s[j] => i = j
         IN  /\ front \in Seq(S)
             /\ back \in Seq(S)
             /\ Len(front) = k
             /\ Range(q) = Range(front) \cup Range(back)
             /\ distinct(q) => /\ Range(front) \cap Range(back) = {}
                               /\ distinct(back)
<1> DEFINE front == SubSeq(q, 1, k)
           back  == SubSeq(q, k + 1, Len(q))
<1>1. /\ Len(q) \in Nat
      /\ k \in Nat
      /\ k <= Len(q)
      /\ \A i \in 1..Len(q) : q[i] \in S
  OBVIOUS
<1>2. /\ front \in Seq(S)
      /\ Len(front) = k
      /\ \A i \in 1..k : front[i] = q[i]
  <2>1. \A i \in 1..k : q[i] \in S
    BY <1>1
  <2> QED
    BY <1>1, <2>1, SubSeqProperties
<1>3. /\ back \in Seq(S)
      /\ Len(back) = Len(q) - k
      /\ \A i \in 1..(Len(q) - k) : back[i] = q[k + i]
  <2>1. \A i \in (k + 1)..Len(q) : q[i] \in S
    BY <1>1
  <2> QED
    BY <1>1, <2>1, SubSeqProperties
<1> HIDE DEF front, back
<1>4. ASSUME NEW x
      PROVE  /\ x \in Range(q) <=> \E i \in 1..Len(q) : q[i] = x
             /\ x \in Range(front) <=> \E i \in 1..k : q[i] = x
             /\ x \in Range(back) <=> \E i \in 1..(Len(q) - k) : q[k + i] = x
  <2>1. x \in Range(q) <=> \E i \in 1..Len(q) : q[i] = x
    BY InRange
  <2>2. x \in Range(front) <=> \E i \in 1..Len(front) : front[i] = x
    BY <1>2, InRange
  <2>3. x \in Range(back) <=> \E i \in 1..Len(back) : back[i] = x
    BY <1>3, InRange
  <2> QED
    BY <1>2, <1>3, <2>1, <2>2, <2>3
<1>5. Range(q) = Range(front) \cup Range(back)
  <2>1. ASSUME NEW i \in 1..Len(q), i > k
        PROVE  /\ i - k \in 1..(Len(q) - k)
               /\ q[k + (i - k)] = q[i]
    BY <1>1, <2>1
  <2>2. ASSUME NEW i \in 1..(Len(q) - k)
        PROVE  k + i \in 1..Len(q)
    BY <1>1
  <2>3. ASSUME NEW x \in Range(q)
        PROVE  x \in Range(front) \cup Range(back)
    <3>1. PICK i \in 1..Len(q) : q[i] = x
      BY <1>4
    <3>2. CASE i <= k
      <4>1. i \in 1..k
        BY <1>1, <3>2
      <4> QED
        BY <1>4, <3>1, <4>1
    <3>3. CASE i > k
      BY <1>4, <2>1, <3>1, <3>3
    <3> QED
      BY <1>1, <3>2, <3>3
  <2>4. 1..k \subseteq 1..Len(q)
    BY <1>1
  <2> QED
    BY <1>4, <2>2, <2>3, <2>4
<1>6. ASSUME \A i, j \in 1..Len(q) : q[i] = q[j] => i = j
      PROVE  /\ Range(front) \cap Range(back) = {}
             /\ \A i, j \in 1..Len(back) : back[i] = back[j] => i = j
  <2>1. \A i \in 1..(Len(q) - k) : k + i \in 1..Len(q)
    BY <1>1
  <2>2. \A i, j \in 1..(Len(q) - k) : k + i = k + j => i = j
    BY <1>1
  <2>3. \A i \in 1..k, j \in 1..(Len(q) - k) : i \in 1..Len(q) /\ i # k + j
    BY <1>1
  <2>4. Range(front) \cap Range(back) = {}
    BY <1>4, <1>6, <2>1, <2>3
  <2>5. \A i, j \in 1..Len(back) : back[i] = back[j] => i = j
    BY <1>3, <1>6, <2>1, <2>2
  <2> QED
    BY <2>4, <2>5
<1> QED
  BY <1>2, <1>3, <1>5, <1>6 DEF front, back

(* A batch is finite and no larger than max_concurrent_syncs.              *)
LEMMA BatchBound ==
  ASSUME blob_queue \in Seq(Blobs)
  PROVE  /\ BatchSize \in 0..Len(blob_queue)
         /\ BatchSize <= MaxConcurrentSyncs
         /\ IsFiniteSet(Batch)
         /\ Cardinality(Batch) <= MaxConcurrentSyncs
<1>1. /\ BatchSize \in 0..Len(blob_queue)
      /\ BatchSize \in Nat
      /\ BatchSize <= MaxConcurrentSyncs
      /\ MaxConcurrentSyncs \in Nat
  BY SyncQueueAssumption DEF BatchSize
<1> DEFINE front == SubSeq(blob_queue, 1, BatchSize)
<1>2. /\ front \in Seq(Blobs)
      /\ Len(front) = BatchSize
  BY <1>1, PopFront
<1>3. Batch = Range(front)
  BY DEF Batch
<1>4. front \in Surjection(1..BatchSize, Batch)
  <2>1. front \in [1..BatchSize -> Blobs]
    BY <1>2, LenProperties
  <2> QED
    BY <2>1, <1>3, Fun_RangeProperties
<1>5. ExistsSurjection(1..BatchSize, Batch)
  BY <1>4 DEF ExistsSurjection
<1>6. IsFiniteSet(Batch)
  BY <1>1, <1>5, FS_NatSurjection
<1>7. /\ Cardinality(Batch) <= BatchSize
      /\ Cardinality(Batch) \in Nat
  BY <1>1, <1>5, <1>6, FS_SurjCardinalityBound, FS_CardinalityType
<1> QED
  BY <1>1, <1>6, <1>7

-----------------------------------------------------------------------------
(* The inductive invariant.                                                *)

IInv == TypeOK /\ InProgressExact /\ BoundedConcurrency

LEMMA InitIInv == Init => IInv
<1> SUFFICES ASSUME Init PROVE IInv
  OBVIOUS
<1>1. Range(blob_queue) = {}
  BY DEF Init, Range
<1>2. IsFiniteSet(running) /\ Cardinality(running) = 0
  BY FS_EmptySet DEF Init
<1>3. TypeOK
  BY DEF Init, TypeOK, Phases
<1>4. InProgressExact
  BY <1>1 DEF Init, InProgressExact, NoDuplicates
<1>5. BoundedConcurrency
  BY <1>2, SyncQueueAssumption DEF Init, BoundedConcurrency
<1> QED
  BY <1>3, <1>4, <1>5 DEF IInv

(* Asking for a blob: it is new to in_progress, so by exactness new to the *)
(* queue and to the running tasks too.                                     *)
LEMMA QueueBlobFetchIInv ==
  ASSUME IInv, NEW b \in Blobs, QueueBlobFetch(b)
  PROVE  IInv'
<1> USE DEF IInv
<1>1. /\ blob_queue' \in Seq(Blobs)
      /\ Len(blob_queue') = Len(blob_queue) + 1
      /\ Len(blob_queue) \in Nat
      /\ \A i \in 1..Len(blob_queue) : blob_queue'[i] = blob_queue[i]
      /\ blob_queue'[Len(blob_queue) + 1] = b
      /\ Range(blob_queue') = Range(blob_queue) \cup {b}
  BY PushBack DEF QueueBlobFetch, TypeOK
<1>2. b \notin Range(blob_queue) /\ b \notin running
  BY DEF QueueBlobFetch, InProgressExact
<1>3. \A i \in 1..Len(blob_queue) : blob_queue[i] # b
  BY <1>2, InRange DEF TypeOK
<1>4. TypeOK'
  BY <1>1 DEF QueueBlobFetch, TypeOK
<1>5. NoDuplicates'
  <2> SUFFICES ASSUME NEW i \in 1..(Len(blob_queue) + 1),
                      NEW j \in 1..(Len(blob_queue) + 1),
                      blob_queue'[i] = blob_queue'[j]
               PROVE  i = j
    BY <1>1 DEF NoDuplicates
  <2>1. CASE i \in 1..Len(blob_queue) /\ j \in 1..Len(blob_queue)
    BY <1>1, <2>1 DEF InProgressExact, NoDuplicates
  <2>2. CASE i = Len(blob_queue) + 1 \/ j = Len(blob_queue) + 1
    BY <1>1, <1>3, <2>2
  <2> QED
    BY <1>1, <2>1, <2>2
<1>6. InProgressExact'
  BY <1>1, <1>2, <1>5 DEF QueueBlobFetch, InProgressExact
<1>7. BoundedConcurrency'
  BY DEF QueueBlobFetch, BoundedConcurrency
<1> QED
  BY <1>4, <1>6, <1>7

(* Taking a batch: nothing is running, so in_progress is the queue alone,  *)
(* and PopFront says what the batch and the rest of the queue share.       *)
LEMMA TakeBatchIInv ==
  ASSUME IInv, TakeBatch
  PROVE  IInv'
<1> USE DEF IInv
<1>1. running = {}
  BY DEF TakeBatch, BoundedConcurrency
<1>2. /\ BatchSize \in 0..Len(blob_queue)
      /\ IsFiniteSet(Batch)
      /\ Cardinality(Batch) <= MaxConcurrentSyncs
  BY BatchBound DEF TypeOK
<1>3. /\ blob_queue' \in Seq(Blobs)
      /\ Range(blob_queue) = Batch \cup Range(blob_queue')
      /\ Batch \cap Range(blob_queue') = {}
      /\ NoDuplicates'
  BY <1>2, PopFront DEF TakeBatch, TypeOK, Batch, InProgressExact, NoDuplicates
<1>4. /\ Range(blob_queue) \subseteq Blobs
  BY RangeOfSeq DEF TypeOK
<1>5. TypeOK'
  BY <1>3, <1>4 DEF TakeBatch, TypeOK, Phases
<1>6. InProgressExact'
  BY <1>1, <1>3 DEF TakeBatch, InProgressExact
<1>7. BoundedConcurrency'
  <2>1. CASE BatchSize = 0
    <3>1. Batch = {}
      BY <2>1, SubSeqEmpty DEF Batch, Range
    <3> QED
      BY <1>2, <3>1 DEF TakeBatch, BoundedConcurrency
  <2>2. CASE BatchSize # 0
    BY <1>2, <2>2 DEF TakeBatch, BoundedConcurrency
  <2> QED
    BY <2>1, <2>2
<1> QED
  BY <1>5, <1>6, <1>7

(* A task ends: its blob was in the running part only.                     *)
LEMMA EndTaskIInv ==
  ASSUME IInv, NEW b \in Blobs, EndTask(b)
  PROVE  IInv'
<1> USE DEF IInv
<1>1. TypeOK'
  BY DEF EndTask, TypeOK
<1>2. InProgressExact'
  BY DEF EndTask, InProgressExact, NoDuplicates
<1>3. BoundedConcurrency'
  <2>1. IsFiniteSet(running)
    BY DEF BoundedConcurrency
  <2>2. Cardinality(running) \in Nat
    BY <2>1, FS_CardinalityType
  <2>3. /\ IsFiniteSet(running \ {b})
        /\ Cardinality(running \ {b}) = Cardinality(running) - 1
    BY <2>1, FS_RemoveElement DEF EndTask
  <2> QED
    BY <2>2, <2>3, SyncQueueAssumption DEF EndTask, BoundedConcurrency
<1> QED
  BY <1>1, <1>2, <1>3

(* The steps of the loop that move neither a blob nor a task.              *)
LEMMA LoopIInv ==
  ASSUME IInv, StartConnecting \/ EndConnecting \/ JoinAll \/ EndAnnounce
  PROVE  IInv'
<1> USE DEF IInv
<1>1. TypeOK'
  BY DEF StartConnecting, EndConnecting, JoinAll, EndAnnounce, TypeOK, Phases
<1>2. InProgressExact'
  BY DEF StartConnecting, EndConnecting, JoinAll, EndAnnounce,
         InProgressExact, NoDuplicates
<1>3. BoundedConcurrency'
  BY DEF StartConnecting, EndConnecting, JoinAll, EndAnnounce,
         BoundedConcurrency
<1> QED
  BY <1>1, <1>2, <1>3

LEMMA NextIInv == IInv /\ [Next]_vars => IInv'
<1> SUFFICES ASSUME IInv, [Next]_vars PROVE IInv'
  OBVIOUS
<1>1. ASSUME NEW b \in Blobs, QueueBlobFetch(b) PROVE IInv'
  BY <1>1, QueueBlobFetchIInv
<1>2. ASSUME NEW b \in Blobs, EndTask(b) PROVE IInv'
  BY <1>2, EndTaskIInv
<1>3. CASE StartConnecting \/ EndConnecting \/ JoinAll \/ EndAnnounce
  BY <1>3, LoopIInv
<1>4. CASE TakeBatch
  BY <1>4, TakeBatchIInv
<1>5. CASE Restart
  <2>1. Init'
    BY <1>5 DEF Restart, Init
  <2> QED
    BY <2>1, InitIInv, PTL
<1>6. CASE UNCHANGED vars
  BY <1>6 DEF vars, IInv, TypeOK, InProgressExact, NoDuplicates,
              BoundedConcurrency
<1> QED
  BY <1>1, <1>2, <1>3, <1>4, <1>5, <1>6 DEF Next

LEMMA InvariantIInv == Spec => []IInv
  BY InitIInv, NextIInv, PTL DEF Spec

-----------------------------------------------------------------------------
(* What follows for every behaviour of the queue.                          *)

(* The queue holds blob ids, and the loop is always in one of its phases.  *)
THEOREM TypeCorrect == Spec => []TypeOK
<1>1. IInv => TypeOK
  BY DEF IInv
<1> QED
  BY <1>1, InvariantIInv, PTL

(* in_progress never forgets a blob that is queued or being fetched, and   *)
(* never keeps one that is not: no blob is fetched twice at once, and none *)
(* becomes impossible to ask for.                                          *)
THEOREM InProgressIsExact == Spec => []InProgressExact
<1>1. IInv => InProgressExact
  BY DEF IInv
<1> QED
  BY <1>1, InvariantIInv, PTL

(* No more than max_concurrent_syncs fetches run at once, for every value  *)
(* of it, 0 included.                                                      *)
THEOREM ConcurrencyBounded == Spec => []BoundedConcurrency
<1>1. IInv => BoundedConcurrency
  BY DEF IInv
<1> QED
  BY <1>1, InvariantIInv, PTL

-----------------------------------------------------------------------------
(* The queue implements SingleFlight: each step of the queue is a step of  *)
(* the abstract view of the blobs, or leaves that view as it was.          *)

LEMMA InitRefines == Init => SF!Init
  BY DEF Init, SF!Init, Flight

(* Asking for a blob that is not in progress is the abstract Request.      *)
LEMMA QueueBlobFetchRefines ==
  ASSUME IInv, NEW b \in Blobs, QueueBlobFetch(b)
  PROVE  SF!Request(b)
<1>1. b \notin running /\ b \notin in_progress
  BY DEF IInv, InProgressExact, QueueBlobFetch
<1>2. Flight(b) = "idle"
  BY <1>1 DEF Flight
<1>3. Flight(b)' = "waiting"
  BY <1>1 DEF Flight, QueueBlobFetch
<1>4. \A c \in Blobs \ {b} : Flight(c)' = Flight(c)
  BY DEF Flight, QueueBlobFetch
<1> QED
  BY <1>2, <1>3, <1>4 DEF SF!Request

(* Taking a batch is the abstract Start of that batch.                     *)
LEMMA TakeBatchRefines ==
  ASSUME IInv, TakeBatch
  PROVE  /\ Batch \in SUBSET Blobs
         /\ SF!Start(Batch)
<1>1. /\ BatchSize \in 0..Len(blob_queue)
      /\ Cardinality(Batch) <= MaxConcurrentSyncs
  BY BatchBound DEF IInv, TypeOK
<1>2. running = {}
  BY DEF IInv, TakeBatch, BoundedConcurrency
<1>3. Batch \subseteq Range(blob_queue)
  BY <1>1, PopFront DEF Batch, IInv, TypeOK
<1>4. Batch \subseteq in_progress /\ Batch \subseteq Blobs
  BY <1>3 DEF IInv, TypeOK, InProgressExact
<1>5. \A b \in Blobs : Flight(b) # "busy"
  BY <1>2 DEF Flight
<1>6. \A b \in Batch : Flight(b) = "waiting"
  BY <1>2, <1>4 DEF Flight
<1>7. \A b \in Blobs :
        Flight(b)' = IF b \in Batch THEN "busy" ELSE Flight(b)
  BY <1>2 DEF Flight, TakeBatch
<1>8. SF!Busy = {}
  BY <1>5 DEF SF!Busy
<1>9. \A b \in Batch : [c \in Blobs |-> Flight(c)][b] = "waiting"
  BY <1>4, <1>6
<1>10. [b \in Blobs |-> Flight(b)]' =
         [b \in Blobs |-> IF b \in Batch THEN "busy"
                          ELSE [c \in Blobs |-> Flight(c)][b]]
  BY <1>7
<1>11. SF!Cardinality(Batch) = Cardinality(Batch)
  BY DEF SF!Cardinality, Cardinality
<1> QED
  BY <1>1, <1>4, <1>8, <1>9, <1>10, <1>11 DEF SF!Start

(* The end of a task is the abstract Finish.                               *)
LEMMA EndTaskRefines ==
  ASSUME IInv, NEW b \in Blobs, EndTask(b)
  PROVE  SF!Finish(b)
<1>1. Flight(b) = "busy" /\ Flight(b)' = "idle"
  BY DEF Flight, EndTask
<1>2. \A c \in Blobs \ {b} : Flight(c)' = Flight(c)
  BY DEF Flight, EndTask
<1> QED
  BY <1>1, <1>2 DEF SF!Finish

LEMMA NextRefines ==
  IInv /\ [Next]_vars => [SF!Next]_([b \in Blobs |-> Flight(b)])
<1> SUFFICES ASSUME IInv, [Next]_vars
             PROVE  [SF!Next]_([b \in Blobs |-> Flight(b)])
  OBVIOUS
<1>1. ASSUME NEW b \in Blobs, QueueBlobFetch(b) PROVE SF!Next
  BY <1>1, QueueBlobFetchRefines DEF SF!Next
<1>2. ASSUME NEW b \in Blobs, EndTask(b) PROVE SF!Next
  BY <1>2, EndTaskRefines DEF SF!Next
<1>3. CASE TakeBatch
  BY <1>3, TakeBatchRefines DEF SF!Next
<1>4. CASE Restart
  BY <1>4 DEF Restart, Flight, SF!Next, SF!Forget
<1>5. CASE \/ StartConnecting \/ EndConnecting \/ JoinAll \/ EndAnnounce
           \/ UNCHANGED vars
  BY <1>5 DEF StartConnecting, EndConnecting, JoinAll, EndAnnounce, vars, Flight
<1> QED
  BY <1>1, <1>2, <1>3, <1>4, <1>5 DEF Next

(* The fetch queue implements the single flight of a blob: asked for once  *)
(* however often, fetched in batches of bounded size that never overlap.   *)
THEOREM QueueImplementsSingleFlight == Spec => ImplementsSingleFlight
<1>1. Init => SF!Init
  BY InitRefines
<1>2. IInv /\ [Next]_vars => [SF!Next]_([b \in Blobs |-> Flight(b)])
  BY NextRefines
<1> QED
  BY <1>1, <1>2, InvariantIInv, PTL DEF Spec, ImplementsSingleFlight, SF!Spec
=============================================================================
