----------------------------- MODULE Membership -----------------------------
(***************************************************************************)
(* How the nodes come to know each other.  main starts a node in this      *)
(* order (main.rs, startup.rs): SyncManager::new shakes hands with the     *)
(* configured peers, one after the other; only then the gRPC server        *)
(* listens and the sync loop is spawned.  handle_handshake, at the other   *)
(* end, adds the caller.  Peers live in memory and are lost with the       *)
(* process.                                                                *)
(***************************************************************************)
EXTENDS Naturals, Sequences, Functions

CONSTANTS
  Nodes,     \* nodes, named by the address they listen on and are called at
  Config,    \* Config[n]: P2PConfig.peers of n, in order; n may be among them
  FixedId,   \* the nodes whose configuration has a node_id
  MaxStarts, \* how many ids a node without one may draw: a bound of the model
  NoNode     \* not a node

(* A node without a node_id has no p2p_config at all (its fields have no   *)
(* defaults of their own), hence no peers either.                          *)
ASSUME MembershipAssumption ==
  /\ Config \in [Nodes -> Seq(Nodes)]
  /\ \A n \in Nodes : IsInjective(Config[n])
  /\ \A n \in Nodes \ FixedId : Config[n] = <<>>
  /\ MaxStarts \in Nat
  /\ NoNode \notin Nodes

VARIABLES
  phase,    \* how far the process of each node is
  next,     \* next[n]: index of the peer n calls, or is about to call
  reply,    \* reply[n]: the id in the answer to the call of n
  peers,    \* peers[n][i]: the address n has for the peer with id i
  serving,  \* the nodes whose gRPC server listens
  starts,   \* starts[n]: how many ids n has drawn
  steady    \* history: steady[n]: configured peers of n that have served
            \* since it started, and whose calls from n have not been lost

vars == <<phase, next, reply, peers, serving, starts, steady>>

Phases == {"down", "new", "sent", "answered", "spawned", "connect", "loop"}

Ids == Nodes \X (0..MaxStarts)

(* node_id, of the configuration or drawn by P2PConfig::default.           *)
Id(n) == <<n, starts[n]>>

NoId == <<NoNode, 0>>

TypeOK ==
  /\ phase \in [Nodes -> Phases]
  /\ next \in [Nodes -> Nat]
  /\ \A n \in Nodes : next[n] \in 1..(Len(Config[n]) + 1)
  /\ reply \in [Nodes -> Ids \cup {NoId}]
  /\ peers \in [Nodes -> [Ids -> Nodes \cup {NoNode}]]
  /\ serving \in SUBSET Nodes
  /\ starts \in [Nodes -> 0..MaxStarts]
  /\ steady \in [Nodes -> SUBSET Nodes]

Unknown == [i \in Ids |-> NoNode]

Init ==
  /\ phase = [n \in Nodes |-> "down"]
  /\ next = [n \in Nodes |-> 1]
  /\ reply = [n \in Nodes |-> NoId]
  /\ peers = [n \in Nodes |-> Unknown]
  /\ serving = {}
  /\ starts = [n \in Nodes |-> 0]
  /\ steady = [n \in Nodes |-> {}]

GoTo(n, to) == phase' = [phase EXCEPT ![n] = to]

-----------------------------------------------------------------------------
(* SyncManager::new.                                                       *)

(* A slip of main: the server listens before the handshakes are through.   *)
Start_ServesFirst(n) ==
  /\ phase[n] = "down"
  /\ n \notin FixedId => starts[n] < MaxStarts
  /\ GoTo(n, "new")
  /\ starts' = [starts EXCEPT ![n] = IF n \in FixedId THEN @ ELSE @ + 1]
  /\ steady' = [steady EXCEPT ![n] = Range(Config[n]) \cap serving]
  /\ serving' = serving \cup {n}
  /\ UNCHANGED <<next, reply, peers>>

Start(n) ==
  /\ phase[n] = "down"
  /\ n \notin FixedId => starts[n] < MaxStarts
  /\ GoTo(n, "new")
  /\ starts' = [starts EXCEPT ![n] = IF n \in FixedId THEN @ ELSE @ + 1]
  /\ steady' = [steady EXCEPT ![n] = Range(Config[n]) \cap serving]
  /\ UNCHANGED <<next, reply, peers, serving>>

Callee(n) == Config[n][next[n]]

(* A slip of SyncManager::new: "?" where the code says "continue".         *)
SendHandshake_GivesUp(n) ==
  /\ phase[n] = "new"
  /\ next[n] <= Len(Config[n])
  /\ IF Callee(n) \in serving
     THEN GoTo(n, "sent") /\ UNCHANGED next
     ELSE next' = [next EXCEPT ![n] = Len(Config[n]) + 1] /\ UNCHANGED phase
  /\ UNCHANGED <<reply, peers, serving, starts, steady>>

(* PeerClient::handshake connects first: nobody listens, on to the next.   *)
SendHandshake(n) ==
  /\ phase[n] = "new"
  /\ next[n] <= Len(Config[n])
  /\ IF Callee(n) \in serving
     THEN GoTo(n, "sent") /\ UNCHANGED next
     ELSE next' = [next EXCEPT ![n] = @ + 1] /\ UNCHANGED phase
  /\ UNCHANGED <<reply, peers, serving, starts, steady>>

(* A slip of handle_handshake: the caller is added under the id of the     *)
(* node it has called.                                                     *)
HandleHandshake_OwnId(n) ==
  /\ phase[n] = "sent"
  /\ phase[Callee(n)] # "connect"
  /\ peers' = [peers EXCEPT ![Callee(n)][Id(Callee(n))] = n]
  /\ reply' = [reply EXCEPT ![n] = Id(Callee(n))]
  /\ GoTo(n, "answered")
  /\ UNCHANGED <<next, serving, starts, steady>>

(* handle_handshake of the callee of n: add_peer under the write lock, and *)
(* the answer carries its own id.                                          *)
HandleHandshake(n) ==
  /\ phase[n] = "sent"
  /\ phase[Callee(n)] # "connect"
  /\ peers' = [peers EXCEPT ![Callee(n)][Id(n)] = n]
  /\ reply' = [reply EXCEPT ![n] = Id(Callee(n))]
  /\ GoTo(n, "answered")
  /\ UNCHANGED <<next, serving, starts, steady>>

(* A slip of SyncManager::new: the loop advances twice.                    *)
ReceiveReply_Skips(n) ==
  /\ phase[n] = "answered"
  /\ peers' = [peers EXCEPT ![n][reply[n]] = Callee(n)]
  /\ next' = [next EXCEPT ![n] = @ + 2]
  /\ reply' = [reply EXCEPT ![n] = NoId]
  /\ GoTo(n, "new")
  /\ UNCHANGED <<serving, starts, steady>>

ReceiveReply(n) ==
  /\ phase[n] = "answered"
  /\ peers' = [peers EXCEPT ![n][reply[n]] = Callee(n)]
  /\ next' = [next EXCEPT ![n] = @ + 1]
  /\ reply' = [reply EXCEPT ![n] = NoId]
  /\ GoTo(n, "new")
  /\ UNCHANGED <<serving, starts, steady>>

(* The call fails before the handler runs, or the answer is lost: the      *)
(* callee is skipped, and may have added the caller.                       *)
LoseCall(n) ==
  /\ phase[n] \in {"sent", "answered"}
  /\ next' = [next EXCEPT ![n] = @ + 1]
  /\ reply' = [reply EXCEPT ![n] = NoId]
  /\ steady' = [steady EXCEPT ![n] = @ \ {Callee(n)}]
  /\ GoTo(n, "new")
  /\ UNCHANGED <<peers, serving, starts>>

(* All peers are through: main spawns the API, the server and the loop.    *)
EndNew(n) ==
  /\ phase[n] = "new"
  /\ next[n] > Len(Config[n])
  /\ GoTo(n, "spawned")
  /\ UNCHANGED <<next, reply, peers, serving, starts, steady>>

-----------------------------------------------------------------------------
(* The tasks main has spawned.                                             *)

(* run_until_stopped of P2P.                                               *)
Serve(n) ==
  /\ phase[n] \in {"spawned", "connect", "loop"}
  /\ n \notin serving
  /\ serving' = serving \cup {n}
  /\ UNCHANGED <<phase, next, reply, peers, starts, steady>>

(* The loop tries to connect to every peer once, and holds the read lock   *)
(* meanwhile.                                                              *)
StartConnecting(n) ==
  /\ phase[n] = "spawned"
  /\ GoTo(n, "connect")
  /\ UNCHANGED <<next, reply, peers, serving, starts, steady>>

(* A slip of start_sync_loop: it tries again until every peer listens.     *)
EndConnecting_Retries(n) ==
  /\ phase[n] = "connect"
  /\ \A i \in Ids : peers[n][i] # NoNode => peers[n][i] \in serving
  /\ GoTo(n, "loop")
  /\ UNCHANGED <<next, reply, peers, serving, starts, steady>>

EndConnecting(n) ==
  /\ phase[n] = "connect"
  /\ GoTo(n, "loop")
  /\ UNCHANGED <<next, reply, peers, serving, starts, steady>>

-----------------------------------------------------------------------------

(* A slip: the peers outlive the process.                                  *)
Forget_Nothing(n) == UNCHANGED peers

(* The next SyncManager starts with an empty map.                          *)
Forget(n) == peers' = [peers EXCEPT ![n] = Unknown]

(* The process ends, at any point.  Who waits for its answer gets an       *)
(* error; an answer that has left arrives, or is lost (LoseCall).          *)
Crash(n) ==
  LET cut(m) == m # n /\ phase[m] = "sent" /\ Callee(m) = n
  IN  /\ phase[n] # "down"
      /\ phase' = [m \in Nodes |-> IF m = n THEN "down"
                                   ELSE IF cut(m) THEN "new" ELSE phase[m]]
      /\ next' = [m \in Nodes |-> IF m = n THEN 1
                                  ELSE IF cut(m) THEN next[m] + 1 ELSE next[m]]
      /\ reply' = [reply EXCEPT ![n] = NoId]
      /\ Forget(n)
      /\ serving' = serving \ {n}
      /\ steady' = [m \in Nodes |-> IF m = n THEN {} ELSE steady[m] \ {n}]
      /\ UNCHANGED starts

-----------------------------------------------------------------------------

NewStep(n) ==
  \/ SendHandshake(n) \/ HandleHandshake(n) \/ ReceiveReply(n) \/ EndNew(n)

LoopStep(n) == StartConnecting(n) \/ EndConnecting(n)

Next ==
  \E n \in Nodes :
    \/ Start(n) \/ NewStep(n) \/ Serve(n) \/ LoopStep(n)
    \/ LoseCall(n) \/ Crash(n)

Spec == Init /\ [][Next]_vars

(* The runtime polls what main awaits and what it has spawned; a call that *)
(* is not lost is answered.  Nobody has to start a node.                   *)
Fairness ==
  \A n \in Nodes :
    WF_vars(NewStep(n)) /\ WF_vars(Serve(n)) /\ WF_vars(LoopStep(n))

FairSpec == Spec /\ Fairness

-----------------------------------------------------------------------------

(* No node is its own peer, although its own address may be configured     *)
(* and every address that calls is added: while a node calls, its server   *)
(* does not listen yet.  Replication assumes as much.                      *)
NotItself == \A n \in Nodes, i \in Ids : peers[n][i] # n

(* The address a node has for an id is the one of the node with that id,   *)
(* however calls, ends and starts of both interleave.  sync_status names   *)
(* peers by id, and calls go to the address.                               *)
NamesItsNode ==
  \A n \in Nodes, i \in Ids : peers[n][i] \in {i[1], NoNode}

(* A node knows another under one id, although a node without a node_id    *)
(* draws another at every start: no blob is announced twice to one peer.   *)
OneIdPerNode ==
  \A n \in Nodes, i, j \in Ids :
    i[1] = j[1] /\ peers[n][i] # NoNode /\ peers[n][j] # NoNode => i = j

Knows(n, p) == peers[n][Id(p)] = p

Started(n) == phase[n] \in {"spawned", "connect", "loop"}

(* A node that has started, and each of its configured peers that has      *)
(* listened all the while, know each other, under their present ids; what  *)
(* the other peers do does not matter.                                     *)
MeetsWhoIsThere ==
  \A n \in Nodes : Started(n) =>
    \A p \in steady[n] : Knows(n, p) /\ Knows(p, n)

(* Every start comes to an end, although it waits for the write locks of   *)
(* nodes that may be starting, connecting to this very node, or ending.    *)
StartsComplete ==
  \A n \in Nodes :
    phase[n] = "new" ~> (phase[n] = "down" \/ (Started(n) /\ n \in serving))
=============================================================================
