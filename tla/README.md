# A verification development for da-concept

This directory holds TLA+ specifications of the node and the cipher of this
repository, the TLC configurations that check them on small instances, and
proofs, checked by TLAPS, of what holds for every instance.  The names
`sync.rs`, `server.rs` and `client.rs` stand for files of `da-node/src/node_api/`,
`user_api/` and `startup.rs` for those under `da-node/src/`, `elgamal.rs` and
`keypair.rs` for those of `crypto/src/`.

To check a model: `tlc -config MCReplicationFaults.cfg MCReplication`.  To check
a proof: `tlapm ReplicationProofs.tla`.  `PROJECT.json` lists runs, theorems,
hazards, and for every definition the lines it models.

## 1. The system

A *node* (`da-node`) keeps blobs of data for its users in an SQLite database and
copies them to its peers.  Users add, delete and query blobs over GraphQL.  Nodes
speak gRPC with one service method that carries six kinds of request.  The
`crypto` crate is an ElGamal cipher with its own byte format.  A node keeps a
private key for each of its users, encrypts what `add_blob` stores with it, and
decrypts what a query returns.

| Component | State | Operations | Where it is modelled |
|---|---|---|---|
| Fetch queue and sync loop (`sync.rs` 74-169) | `blob_queue`, `in_progress`, the spawned tasks | `queue_blob_fetch`, `start_sync_loop`, `process_sync_queue`, the end of a task | `SyncQueue`, abstractly `SingleFlight` |
| Replication (`sync.rs` 171-520, `server.rs`, `client.rs`) | tables `blobs` and `sync_status` of every node, the calls under way | `fetch_and_store_blob`, `announce_blobs`, `handle_announce`, `handle_fetch`, `handle_delete` | `Replication`, abstractly `BlobStore` |
| Blob mutations (`user_api/mod.rs` 138-222) | the same tables | `add_blob`, `delete_blob` | `Replication` |
| Membership (`sync.rs` 35-71, `server.rs` 241-259, `startup.rs`, `main.rs`) | `peers` in memory, whether the server listens | handshakes at a start, `handle_handshake`, the end of a process | `Membership`; one step (`Boot`) in `Replication` |
| Verification of content (`sync.rs` 310-341) | none | `verify_received_blob` | `UserApi` |
| ElGamal and the ciphertext format (`elgamal.rs`, `keypair.rs`) | none; the reader keeps an offset | key, `encrypt`, `decrypt` | `ElGamal`, `Decrypt` |
| Users, tokens, queries (`user_api/`, `startup.rs`) | table `users`, tokens, the requests under way | `register`, `login`, `add_blob`, `delete_blob`, `me`, `user`, `blob`, `blobs` | `UserApi` |
| Status and info requests (`server.rs` 170-240) | none | read-only | the count of `handle_node_info` in `Replication` |
| Configuration, logging, errors | none | read once | not modelled |

### How they interact

* `add_blob` inserts a row and calls `sync_blob`, which puts the id on the node's
  own fetch queue, under the write lock of the `SyncManager`.
* The sync loop takes at most `max_concurrent_syncs` ids off the queue, spawns a
  task for each, joins them all, then announces, then sleeps.
* A task that finds its blob at home writes a *pending* row of `sync_status` for
  every peer.  One that does not tries the peers in turn: it writes *pending* for
  the peer, calls `handle_fetch` there, stores what it gets and writes *completed*.
* `announce_blobs` reads which blobs have a peer that is not completed and calls
  `handle_announce` there, which puts the id on *that* node's queue.
* `handle_fetch` reads the blob and marks the caller completed before it answers.
* `delete_blob` checks the owner, marks the row deleted, puts the id on the queue,
  and inserts into `sync_status`.
* A node that starts calls `handle_handshake` of each configured peer, which adds
  the caller under its write lock and answers with its own id; the server of the
  caller listens only afterwards, and its loop then holds the read lock while it
  connects.
* Copies that the sync loop stores are in the table the queries of users read.

### What is hard here

* **Interleaving.**  Loop, tasks, gRPC handlers and GraphQL resolvers of one node
  share two tables without transactions and one `RwLock`; the loops of two nodes
  call each other's handlers.  The reply to an announcement races with the fetch
  the announcement caused.
* **Failure.**  A call can fail before it did anything or after it did everything;
  any statement can fail; the process ends when any of the tasks `main` selects on
  returns, and queue and peers are lost while the tables stay.
* **Starts.**  A node may call peers that are not up yet, that are connecting to it,
  or that end before they answer.  It may be configured with its own address, and
  one without a configured id has another id after each start.
* **Statements.**  A mutation or query is several statements, and other users, the
  sync loop and the handlers of peers go on between them.
* **Two keys.**  `add_blob` binds the id as a `Uuid`, which `sqlx` stores in SQLite
  as sixteen bytes; `store_received_blob` binds the `String` of the message,
  stored as text.  SQLite never finds the one equal to the other.  `handle_fetch`
  and `does_blob_exist` ask for the `Uuid`, `handle_announce` and `handle_delete`
  for the `String`.  So a node can have two rows for a blob, and which of them a
  statement sees depends on the statement.  This follows from the bindings in the
  code and from the library's encoding of `Uuid` for SQLite, which is not part of
  this repository.
* **Progress.**  A lost call is made up for only by a later round, which depends on
  the status row that keeps the blob announced.
* **Bytes.**  `decrypt` reads lengths from the data it is reading, strips zeros,
  and treats a chunk whose value is zero specially.

### What makes it correct

* Queue: `in_progress` is exactly what is queued or being fetched; at most
  `max_concurrent_syncs` tasks run; a queued blob gets its turn.
* Replication: a deleted row stays deleted and a deleted blob does not come back to
  its home; *completed* is never claimed for a node without the blob; loops never
  wait for each other for ever; an added blob reaches the peers of its home.
* Membership: a node is never its own peer, an id leads to the node with that id and
  to no other, nobody is known twice, who was there all the while is met, and every
  start ends.
* Users: a token is worth its password, only its owner deletes a blob, a list is
  complete and in clear for its owner, and what is stored is what was asked for.
* Cipher: nothing is read outside the data, a cut is never mistaken for a message,
  and what was encrypted comes back (not every string does: finding 6).

## 2. The modules

| Module | Lines up with | Role |
|---|---|---|
| `SingleFlight` | what callers of `queue_blob_fetch` rely on | abstract: a blob is idle, waiting or busy; a request for one that is not idle merges with the first; a batch starts only when nothing is busy |
| `SyncQueue` | `sync.rs` 74-169 | the queue, `in_progress`, the loop and its tasks on one node; refines `SingleFlight` |
| `SyncQueueProofs` | | proofs about `SyncQueue` |
| `BlobStore` | what the network promises about a blob | abstract: a node has a blob once and deletes it for good; copies are made of live originals only, and one on its way may be lost or still arrive |
| `Replication` | `sync.rs`, `server.rs`, `client.rs`, `user_api/mod.rs` | all nodes together, one action per SQL statement or call; refines `BlobStore`, and at each node `SyncQueue` |
| `ReplicationProofs` | | proofs about `Replication`: types, deletions, completed fetches |
| `ReplicationBatchProofs` | | proofs about `Replication`: each node refines `SyncQueue`, what follows from batches being joined, and the network refines `BlobStore` |
| `Membership` | `sync.rs` 35-93, `server.rs` 241-259, `client.rs` 33-85, `startup.rs`, `main.rs` | who knows whom: handshakes call by call, servers, restarts |
| `MembershipProofs` | | proofs about `Membership` |
| `UserApi` | `user_api/`, `startup.rs` 163-194, `sync.rs` 205-231 and 310-377 | one node as its users see it, one statement at a time, beside copies from peers |
| `UserApiProofs` | | proofs about `UserApi` |
| `ElGamal` | `keypair.rs`, `elgamal.rs` 21-72 | pure: keys, numbers, chunks, the byte format as written |
| `Decrypt` | `elgamal.rs` 84-181 | the reader of that format, one read at a time |
| `NaturalFacts` | | arithmetic the proofs below need: induction, recursive functions, remainders |
| `ElGamalProofs` | | proofs about `ElGamal`: its recursive functions, decryption, the layout of a ciphertext |
| `DecryptProofs` | | proofs about `Decrypt` |
| `MC...` | | instances for TLC |

`SyncQueue` and `Replication` both contain the queue, in the same words.  They are
tied together by `QueuesImplemented`: every step of the network is, seen at each
node alone, a step of `SyncQueue` or none.  `StoreImplemented` looks at the same
network from outside: a node *has* a blob if it has a live row under either key, a copy
is *on its way* from `fetch_blob_by_id` finding the row until the caller has the reply
and stores it, and everything else (queues, statuses, announcements, the two keys) is
hidden.  `BlobStore` says nothing about when a copy is made: that is liveness.

Definitions named `X_Something` beside a definition `X` are *slips*: `X` with a
plausible programming error.  No specification uses them.  They show that the
property they are paired with in `PROJECT.json` is sensitive to the code it is
about, for with the slip in place of `X` the property fails.

### SyncQueue

`phase` is where `start_sync_loop` is: about to connect, connecting (the only place
it holds the read lock across awaits, so that handlers wait), about to take a
batch, joining, announcing.  `running` is the set of spawned tasks.
`QueueBlobFetch` is the handler side, `TakeBatch`, `JoinAll`, `EndAnnounce` the loop,
`EndTask` the end of a spawned task, `Restart` the end of the process and the next
start.  What a task does is `Replication`'s matter.

### Replication

| Variable | In the code |
|---|---|
| `row[n][b][k]` | the row of `b` in table `blobs` at `n`, by the key kind `k`: absent, live, deleted (`deleted_at` is set) |
| `sync_status[n][b][p]` | table `sync_status` at `n`; "none" is no row |
| `peers[n]` | `SyncManager.peers` |
| `blob_queue[n]`, `in_progress[n]` | the fields of `SyncManager` |
| `phase[n]`, `ann[n]` | the program counter and the locals of the loop and of `announce_blobs`; "sent", "checked" and "answered" are the stages of a call to `handle_announce` |
| `task[n][b]` | the counter and locals of `fetch_and_store_blob`; "sent", "read" and "got" are the stages of a call to `handle_fetch` |
| `mutation[b]` | how far the user's mutation of `b` is |
| `faults` | which kinds of faults this run may have, and how many are left (a bound of the model) |

A behaviour has the faults of one of `FaultModels`, so that one instance covers networks
in which anything fails and networks in which, say, only requests are lost (`Mild`).
The kinds are `crash` (any node, at any point; calls to it fail, and
a reply that had left arrives or does not), `request` (a call fails before it
reached the handler), `reply` (it fails after the handler was through), `db` (a
statement fails and the code takes its error path).

Merged steps, and why the merging hides nothing the properties tell apart:

* In `fetch_and_store_blob` the copy of `peers` and `does_blob_exist` are one step.
  `peers` of a running node only grows, and the row under the uuid key of a node
  other than the home never changes.
* The upsert of *pending* and the sending of the call are one step: only the task
  itself writes that status row, unless the peer fetches the same blob from it.
* `handle_delete` checks and updates in one step: nothing else takes a row from
  live to deleted under the text key.
* When the *caller* of a handler crashes the handler is dropped with it; a handler
  that would run on is not modelled.
* A blob has one mutation at a time, and `add_blob` is called once per id, as ids
  are fresh random numbers.
* The rows a user who is not the owner sees, the token he shows, and the content of
  a copy are `UserApi`'s.
* A reply that `verify_received_blob` rejects ends in the same statement as a call
  that fails, so it is one of the cases of `FetchFails`.

`HandleDelete` may happen at any time: no code of the repository calls the client's
`delete_blob`, but the server offers it.

`BlobCount` is what `handle_node_info` would answer in a state; the storage it reports
is the same query with a sum in place of the count.

### Membership

| Variable | In the code |
|---|---|
| `phase[n]` | "down"; "new", "sent", "answered": the stages of one turn of the loop of `SyncManager::new`; "spawned", "connect", "loop": where `start_sync_loop` is after `main` has spawned it |
| `next[n]`, `reply[n]` | the turn of that loop, and the id in the answer that has left the callee |
| `peers[n][i]` | `SyncManager.peers`: from ids to addresses |
| `serving` | the nodes whose gRPC server is listening |
| `starts[n]` | which of its ids a node without a configured one has now |
| `steady[n]` | history: the configured peers of `n` that have listened ever since `n` started and to which it has lost no call |

Nodes are named by the address they listen on.  An address is configured at most once
per node, and every node is reachable at the address it calls itself by: the server
adds the caller under the address the caller states.  A node whose configuration has
no `node_id` has none of `P2PConfig`'s other fields either, so it has no peers.
`PeerClient::handshake` connects and calls in one step.  A call that is not lost is
answered.  `MaxStarts` bounds how many ids a node without one may draw; nodes with an
id start as often as they like.

### UserApi

| Variable | In the code |
|---|---|
| `users[n]` | the row of `n` in table `users`, as its password |
| `token[c]` | whose token the connection `c` sends; `given[c]`, a history variable, the password it was given for |
| `blobs[b]` | the row of a blob added here: owner, whose key sealed the text, whether the text decrypts, `public_key`, `deleted_at` |
| `copies[b]` | the row of a blob fetched from a peer: whether the content is what its owner added, whether the hash the peer states is the one asked for, `deleted_at` |
| `req[c]` | the request under way: operation, counter, the user of its `Context`, argument, answer |
| `asked` | history: blobs whose deletion their owner has asked for |

Every statement is a step; `register`, `login` and `blob` have one.  Merged or left out:

* A request has one top-level field, and a connection one request at a time; two
  connections may send the same token.
* The token does not expire at a time but at any time (`DropToken`).  Hashing of
  passwords and signing of tokens are what they promise: a wrong password or
  token is refused.  Emails are left out.
* A text decrypts with the key that sealed it, unless it has a chunk of zeros: what
  `Decrypt` shows of `decrypt`.  `Form` keeps the three things a field can tell: the
  text, what a wrong key makes of it, or the bytes in base64.
* Blobs added here and copies are different blobs, because a copy of a blob does not
  come back to its home (`NoResurrection`).  The fetch queue and `sync_status` are
  `Replication`'s; a deletion may be answered either way (`DeleteAnswer`).
* Hashes do not collide.
* "The text" a list gives in clear is what `decrypt` makes of the row: of a text that ends
  in NULs, the text without them (finding 6).
* A peer answers with the id it was asked for.  `store_received_blob` binds the id in the
  answer and compares it with nothing; peers that run this code find the blob by the id
  of the request.

### ElGamal and Decrypt

Numbers are integers modulo `Prime`, a byte has `ByteValues` values, and a chunk is
four bytes as in the code.  A small prime and small bytes keep the relations that
matter: any chunk is smaller than the prime, a number needs between one and
several bytes, and a byte of a length is big enough for the lengths that occur.
The bytes 0 and 1 are ASCII and the two others are the halves of a character, so
that a character can be split between two chunks and a flipped byte can end in
invalid UTF-8.

`Decrypt` has one action for every read of `decrypt`, so that "the offset is inside
the data" is a property of states.  An input states the message, the key, and the
random numbers `encrypt` drew for its chunks; its data is what `encrypt` writes of
them, intact, followed by other bytes, cut, or changed.  Random bytes, base64 and
hexadecimal keys are left out.  `FromBytes` is taken modulo `Prime` at once: its
value is only used in products modulo `Prime`.

## 3. The runs

| Run | Instance | What it asks |
|---|---|---|
| `sync_queue` | 4 blobs, batches of 2 | exactness of `in_progress`, the bound on tasks, that a queued blob is fetched, and the refinement of `SingleFlight` |
| `replication_faults` | 2 nodes, 1 blob, up to 3 faults, of any kind or lost requests only; fairness | what still holds of tables, counts and queues when anything may fail; the refinement of `BlobStore`; that rounds recur; and, of behaviours in which only requests are lost, that *completed* is so, an added blob is marked and a marked peer gets it |
| `replication_trio` | 3 nodes, 1 blob, no faults, the two replicas symmetric | a fetch that tries another replica before the home, two peers kept apart, no copy made after a deletion |
| `membership` | 3 nodes, of which two name each other, one of them itself too, and both the third, which has no configuration; fairness | who knows whom, and that every start ends |
| `user_api` | 2 connections, users, passwords and blobs, all alike, and a copy | tokens, deletions and lists while requests, peers and restarts interleave |
| `decrypt` | strings of up to 5 bytes over 4 values, an ordinary key and the two degenerate ones | the reader stays inside, refuses what was cut, and recovers every message without a chunk of NULs and a NUL at its end |
| `reply_lost` | 2 nodes, one lost reply | finding 1 |
| `peers_settle` | 2 nodes, no faults, fairness | finding 2 |
| `any_node_serves` | 2 nodes, no faults | finding 3 |
| `delete_answered` | 2 nodes, no faults | finding 4 |
| `integrity` | as `user_api` | finding 5 |
| `round_trip` | strings of up to 2 bytes, one key | finding 6 |

A network in which two nodes are each home to a blob, with batches of one, is larger
than is comfortable for TLC (2.4 million states for the safety properties alone).  What
it was checked for, `QueuesImplemented` and `CompletedMeansDelivered`, is proved in
`ReplicationBatchProofs` for any number of homes and blobs, and checked on the
smaller instances above.

### Why the bounds are enough

* *Four blobs, batches of two*: the smallest queue that can be longer than a batch
  while a batch runs, with one blob more that is not queued.
* *Two nodes* have everything that goes on between a home and one peer.  *Three*
  are needed for a fetch that asks another replica first, and for a status that
  could be written for the wrong peer.  There is nothing in the code that depends on
  a fourth: no quorum, no forwarding.  `ReplicationProofs` covers any number for the
  properties proved there.
* *One fault* breaks the properties that faults break; three let a node crash, come
  back and fail again with a lost call in between.  Faults are the only thing the
  model counts; queue lengths are bounded because a blob is queued once, and rounds
  are unbounded.
* *Three nodes* with that configuration have a pair that starts together, a node
  configured with itself, a callee with a fresh id at every start, and a node that
  knows two others.  Handshakes are between two nodes; locks are waited for by a
  caller at a callee, so a third is enough for a chain of waiting nodes.
  *Two ids* are an old and a new one.
* *Two of each* are what races need: two registrations of one name, two requests of
  one user, a stranger and an owner.  A copy can be stored, read and deleted.
* *Five bytes*: one full chunk and the beginning of a second.  `MaxData` is
  longer than any ciphertext of such a string, so that every cut is tried.
* `Decrypt` ends when `decrypt` returns, so its configuration turns deadlock
  checking off; all others check for deadlock.

### Fairness

Every action of the loop, of a task and of a mutation under way is weakly fair, for
each node and blob as a whole: the runtime polls whatever can go on.  A user who
adds or deletes, `handle_delete`, crashes and starts are not fair.  Two things are
assumed that the code alone does not give:

* every call returns or fails.  The code sets no deadline (`client.rs:77`), so a
  peer that accepts a connection and never answers would stop the caller's loop,
  and none of the liveness properties would hold;
* the write lock is granted.  It is only ever held back while a loop connects,
  which happens once per start, so weak fairness is enough.

In `Membership` the handshake loop of a node, its server and its sync loop are weakly
fair; starts, crashes and losses are not.  The handler of a call is part of the
caller's step, since it is polled by the callee's runtime once the callee's lock is
free, which weak fairness of connecting grants.

In `Replication` the loops keep turning whatever fails: `RoundsRecur` is checked with every kind of
fault.  `AddedIsMarked` and `Replicates` are claimed for behaviours in which only requests
are lost (`Mild`), up to three of them.  A node that crashes for good stays down, and no
property promises anything for it.

## 4. What does not hold

1. **A lost reply loses the copy** (`CompletedMeansDelivered`, `server.rs:130`).
   The peer is marked completed before the reply is sent.  When the reply is lost,
   or is larger than what a client decodes by default, the home never announces the
   blob to that peer again.  When nothing worse happens than that
   requests are lost it holds (`replication_trio`, `DeliveredIfMild` in
   `replication_faults`, and `CompletedIsDelivered` for any network).
2. **A settled peer becomes pending again** (`PeersSettle`, `sync.rs:286`).  The
   announcer writes *pending* after its call returned.  If the peer has fetched the
   blob by then, *completed* is overwritten, and the blob is announced to it for
   ever.  The peer does have its copy: `Replicates` holds.
3. **A replica does not serve** (`AnyNodeServes`, `sync.rs:365`): the two keys.
4. **A deletion that took effect is answered with an error** (`DeleteAnswered`,
   `user_api/mod.rs:208`), when a peer has completed the blob: the last statement
   inserts rows that exist.

5. **What does not match is stored** (`StoredIsIntact`, `sync.rs:322`).
   `verify_received_blob` rejects only when the computed hash *and* the hash the peer
   states differ from the expected one.  A copy whose content is damaged at the peer or
   on the way, with the `hash` beside it intact, becomes a live row, in a table that has
   that column "for integrity verification".

6. **Not every string comes back** (`RoundTrip`, `elgamal.rs:152` and `164`).  The
   documentation of `decrypt` promises the decrypted string, or an error, and the tests
   compare it with the message; they draw messages without NULs.  There are two cases.
   A chunk of nothing but NULs, four of them in a row at a multiple of four or a shorter
   chunk at the end, is the number zero; `encrypt` takes it, and `decrypt` panics,
   as `to_u32_digits` of zero is empty.  The shortest such string is a single NUL, which
   is what TLC finds.  And a string that ends in a NUL after another character in the
   same chunk comes back without it, because all NULs at the end are taken for padding.
   `RecoversMessage` says that these are the only cases.

Finding 3 has a side that is not a flaw: because no replica is ever served, a
deleted blob cannot come back to its home through a peer (`NoResurrection`).  The
slip `ServeRead_EitherKey`, which is what mending finding 3 alone would look like,
breaks it.  The proof below makes the same point: it rests on `UuidAtHome`.

## 5. What is proved

The assumptions are those of the modules: `SyncQueueAssumption` (the batch size is
a natural number, zero included), `ReplicationAssumption` (homes and configured
peers are nodes, no node is configured as its own peer, limits are naturals),
`MembershipAssumption` (configurations are sequences of nodes without repetition,
empty for a node without an id), `UserApiAssumption` (the three "no such" values are
not names, passwords or blobs), and for the cipher:

* `ElGamalAssumption`: four bytes make a number below the prime, as `encrypt` itself
  requires, and the generator has an inverse modulo the prime.  That is all the proofs
  need of the prime being one; with the numbers of `keypair.rs` both hold.
* `LengthAssumption`: the number of bytes of a number below the prime fits a `u32`.
* `DecryptAssumption`: a message is a string whose chunks can be counted in a `u32`
  (at most 16 GiB; `encrypt` cuts a larger count off, `elgamal.rs:51`), the private
  key is what `PrivateKey::from` makes of some number, and the data of an input that
  is called intact, followed or cut stands in that relation to what `encrypt` wrote.
  Nothing is assumed of the data of other inputs but that they are bytes.

TLC evaluates each of them.  The theorems hold for any sets of nodes and blobs, any
limits and any number and kind of faults, any prime, key, message and random numbers,
except where a theorem names an assumption of its own.

| Theorem | States |
|---|---|
| `SyncQueueProofs!TypeCorrect` | `TypeOK` |
| `SyncQueueProofs!InProgressIsExact` | `InProgressExact` |
| `SyncQueueProofs!ConcurrencyBounded` | `BoundedConcurrency` |
| `SyncQueueProofs!QueueImplementsSingleFlight` | the refinement, step by step |
| `ReplicationProofs!TypeCorrect` | `TypeOK` |
| `ReplicationProofs!DeletedStaysAway` | `NoResurrection` |
| `ReplicationProofs!CompletedIsStored` | `CompletedFetchIsStored` |
| `ReplicationProofs!TombstonesAreKept` | `TombstonesStay`, an action property |
| `ReplicationBatchProofs!EachNodeIsASyncQueue` | `QueuesImplemented`: the refinement of `SyncQueue` by each node |
| `ReplicationBatchProofs!CompletedIsDelivered` | `DeliveredIfMild`: `CompletedMeansDelivered` where only requests are lost |
| `ReplicationBatchProofs!RowsCountBlobs` | `CountIsOfBlobs`, if there are finitely many blobs |
| `MembershipProofs!TypeCorrect` | `TypeOK` |
| `MembershipProofs!NoNodeMeetsItself` | `NotItself` |
| `MembershipProofs!IdsNameNodes` | `NamesItsNode` |
| `MembershipProofs!OneIdEach` | `OneIdPerNode` |
| `MembershipProofs!WhoIsThereIsMet` | `MeetsWhoIsThere` |
| `UserApiProofs!TypeCorrect` | `TypeOK` |
| `UserApiProofs!TokensMatchPasswords` | `TokenMatchesPassword` |
| `UserApiProofs!OwnersDelete` | `OnlyOwnerDeletes` |
| `UserApiProofs!OwnersRead` | `ReadsBack` |
| `UserApiProofs!ListsAreWhole` | `ListTellsAll` |
| `ReplicationBatchProofs!NetworkIsABlobStore` | `StoreImplemented`: the refinement of `BlobStore` by the network |
| `ReplicationBatchProofs!DeletionEndsCopying` | `DeletedIsNotCopied`, an action property |
| `ElGamalProofs!DecryptsToMessage` | `DecryptNumber` of `EncryptNumber` is the message and nothing else |
| `DecryptProofs!DecryptTypeOK` | `TypeOK` |
| `DecryptProofs!ReadsStayInside` | `ReadsInside`, for any bytes |
| `DecryptProofs!DecryptRecoversMessage` | `RecoversMessage` |
| `DecryptProofs!DecryptReadsAll` | `ReadsAll` |
| `DecryptProofs!DecryptRefusesTruncation` | `TruncationRefused` |

**SyncQueue.**  `IInv` is `TypeOK`, `InProgressExact` and `BoundedConcurrency`
together.  Exactness alone is not inductive: taking a batch replaces `running`, and
that loses no task only because no task runs when the loop is about to take one,
which `BoundedConcurrency` says.  The lemmas on sequences (a batch and the rest
partition a queue without duplicates) carry the arithmetic.  The refinement maps a
blob to busy, waiting or idle, and each action to a request, a start, a finish, a
`Forget` or a stutter.

**Replication, types.**  `TypeOK` is not inductive: a call to a node that is not a
node would index the tables outside their domain.  `Addressed` adds that the
announcer has a blob and a peer whenever it is calling.

**Replication, safety.**  Why does a deleted blob not come back to its home, and why
does *completed* imply a row?  The argument runs along the whole path of a fetch:

* only the home has a row under the uuid key (`UuidAtHome`), for only a mutation
  writes one;
* a call in progress is to a node (`CallHasAPeer`), and it is only served if the row
  is there, so a task that has a reply has it from the home (`ServedByHome`);
* no node is its own peer, nor tries itself (`NotItself`), so the task that has a
  reply is not at the home, and the home stores no copy (`HomeHasNoText`);
* a task that has stored has a row (`StoredHasRow`), rows are never removed, and
  *completed* at a node other than the home is only written by such a task: a
  server marks its caller completed, but the only server is the home;
* a blob is added once (`AddedOnce`), so `add_blob` revives no deleted row.

`IInv` is the conjunction.  `RowAfter`, `TaskAfter` and `StatusAfter` say once what a
step may do to a row, a task and a status; the conjuncts then follow from those.
TLC finds `IInv` true on the instances of `replication_faults` and
`replication_trio`.

**Replication, batches.**  The refinement maps the fields of a node and its tasks to
`SyncQueue`, action by action: what a node does with tables and calls is a stutter, an
announcement or a deletion a `QueueBlobFetch`, a crash a `Restart`.  From it follows
`JoinedFirst`: outside the phase "join" no task of a node runs.  With `TaskAfter` that
says a fetch which has its reply in hand is not forgotten; it stores the row
(`ReplyIsStored`), because without lost replies, crashes and database errors there is
no other way out.  `HomeMarks` says that the home writes *completed* only when it
answers such a fetch.  Together they give `CompletedMeansDelivered`, and what may go
wrong never changes (`MildStays`); with lost replies the same argument fails at `ReplyIsStored`, which is finding 1.  `RowsCountBlobs` uses
`UuidAtHome` and `HomeHasNoText`: rows map to blobs one to one.

**Membership.**  A node that calls does not listen, so it cannot be its own callee
(`Calls`); that gives `NotItself`.  `NamesItsNode` is inductive beside `Calls`, which
says that the id in an answer is the callee's.  `MeetsWhoIsThere` needs `SteadyMet`: a
steady peer is still ahead in the configuration, or both know each other, or the answer
on its way carries the present id.  `OneIdPerNode` needs `KnownSince`: a node without an
id is known only to nodes that have called it since *they* started, for it calls nobody;
a caller enters it once, as it is configured once.

**UserApi.**  A token names a user only with the password of the row, and `register` never
changes a row that is there.  `OnlyOwnerDeletes` needs `DeletionAsked`: a request past
its check was asked by the owner, although token, table and user may have changed since;
a blob keeps its owner (`RowAfter`), so the check is still good at the update.
`ReadsBack` needs `SealedForOwner` and `SeenIsThere`, `ListTellsAll` the latter: what a
request has seen is there for good, live or deleted.

**Replication, as a store.**  `UuidAtHome` and `HomeHasNoText` leave a node one key
under which it can have a row of a blob (`OwnKey`), so what a node has is what that
row says (`HeldIsRow`), and each of the four statements that change a row changes what
one node has of one blob (`HeldSet`).  `add_blob` is an `Add` by `AddedOnce`; the
update of `delete_blob` is a `Delete` by `Inserted` (a mutation that has begun has a
row to delete) or changes nothing when the blob was deleted before; a stored reply is
a `Store`, because `ServedByHome` and `NotItself` say that it is not at the home, or
loses the reply when a row is there already.  `fetch_blob_by_id` finding a row is a
`Send`, because whoever finds one is the home; no other step writes a reply
(`OnlyServeReadSends`), so whatever else happens to one, a crash, a failed statement,
a lost connection, only loses it (`RepliesLost`).  `DeletedIsNotCopied` is then read
off the actions of `BlobStore`: after a deletion at the home none of them sends.

**ElGamal.**  What `to_bytes_le`, `from_bytes_le`, `modpow` and `encrypt` compute is
written as recursive functions.  The induction theorems of the proof system's library
take a predicate as a parameter, which its solvers cannot instantiate, so
`NaturalFacts` derives what is needed from sets instead: `Induction` says that a set of
naturals with 0 and closed under successor is everything, `Recursion` that a function
that computes each value from smaller ones is what its definition says (the library
states that for successors only, and here the exponent is halved and the number
divided).  From those: bytes read back are the number that was written
(`BytesRoundTrip`, `U32RoundTrip`); the squaring of `modpow` obeys the laws of powers
(`ModPowSum`, `ModPowProduct`); all powers of the generator have exactly one inverse
(`PowersInvertible`), also for the keys 0 and `Prime - 1`.  `DecryptsToMessage`
follows.  `LayoutExists` and `EntryLayout` say where in the bytes of a ciphertext every
length and number stands, whatever their sizes.

**Decrypt.**  `TypeInv` is `TypeOK`, `ReadsInside`, and that there is a ciphertext left to
read while one is being read; it holds of any bytes.  `MessageInv` is about an
intact input.  While `decrypt` reads (`ReadingInv`), it is at the ciphertext `k` that its
counter says, the ciphertexts before are those written, and its offset is the end of the
first `k - 1` entries of the layout, plus the parts of entry `k` it has read: every
length it finds is the one that was written, so it can only run short where the data
was cut, and has read all of it otherwise.  While it decrypts (`DecryptingInv`), what
it has is the beginning of the message, padded with NULs (`Padded`), and what it has left
are the other ciphertexts; a chunk of zero is where it panics.  `StripNulsPadded` says
that stripping the padding strips exactly the NULs the message ends with, so what comes
out (`ResultInv`) is a panic or the message without those, and `RecoversMessage` follows
for messages that have neither (`StripNulsWhole`).  Of UTF-8
the proofs use only that a string without its trailing NULs is a string
(`StripNulsUtf8`), for the stand-in `IsUtf8` of the model.

### Model-checked only

Liveness: `QueuedIsFetched`, `RoundsRecur`, `AddedIsMarked`, `Replicates` and
`StartsComplete`.  The proof system has no rules for fairness and `ENABLED` here.
Every invariant and every action property of a passing run is proved.

## 6. What is not modelled

* *`handle_sync_status`*: it binds the id as a `String`, while every row of
  `sync_status` is written under a `Uuid`, so it finds none; it changes nothing, and
  no code of the repository acts on its answer.
* *A node that joins late.*  Only the peers known when the task of an added blob runs are
  marked.  A node that becomes a peer afterwards gets no older blob; this can be read
  off `MarkPeer` and `Boot`, and nothing in the documents says otherwise.
* *A crash before an added blob's task has run* loses its queue entry, and nothing rebuilds
  the queue: `AddedIsMarked` is only claimed, and only true, without crashes.
* *Who is met too late, or lost*: peers that do not listen when a node starts, to which a
  call is lost, or that were known before a restart.  The model has all three, and
  `MeetsWhoIsThere` leaves them out (`steady`), as the code does nothing for them.
* *Sizes of allocations*: `decrypt` allocates for the count in the data before it looks
  for the first ciphertext (`elgamal.rs:100`).
* *Calls that are never answered*: see Fairness.
* *More than 100 blobs to share*: which ones come first is the database's choice
  (`SelectBlobs`); `Replicates` is checked with as many as there are.
* *Configuration, logging, errors, the build*: no state.
* *The Rust runtime, SQLite, tonic, the base64 and number libraries*: external.
  A statement is atomic, a call returns or fails, numbers are exact.
* *Probabilities*: that a random key or number is not a degenerate one.

## 7. Order of work

1. `SyncQueue` with `SingleFlight`, `Replication`, `ElGamal` and `Decrypt`, and the first
   proofs about them.
2. `Membership` and `UserApi`, each with its run and its proofs; verification of received
   content, which became part of `UserApi`, where the copy is stored and read; the count
   of `handle_node_info`; the refinement of `SyncQueue` by each node and what follows.
3. The recursive functions of `ElGamal`, so that what they compute can be proved; the
   round trip, the truncation and the types of `Decrypt`; `BlobStore`, its refinement, and
   what it says of deletions.
4. Open: a composition of `Membership` and `Replication` with separate handshakes, to
   state what a late joiner gets if the code is to give it the older blobs.
