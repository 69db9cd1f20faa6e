-------------------------- MODULE MembershipProofs --------------------------
(* Proofs about Membership, for any nodes, configurations and bounds.        *)
EXTENDS Membership, TLAPS

(* A node that calls is not listening and the node it calls is another one,  *)
(* which listens until the call is handled; the answer names the callee.     *)
Calls ==
  \A n \in Nodes :
    /\ phase[n] = "down" => next[n] = 1 /\ steady[n] = {}
    /\ n \in serving => Started(n)
    /\ Started(n) => next[n] > Len(Config[n])
    /\ phase[n] \in {"sent", "answered"} =>
         next[n] <= Len(Config[n]) /\ Callee(n) # n
    /\ phase[n] = "sent" => Callee(n) \in serving
    /\ phase[n] = "answered" => reply[n] \in Ids /\ reply[n][1] = Callee(n)

(* The configured peers a node has yet to call.                              *)
Ahead(n) == {Config[n][k] : k \in next[n]..Len(Config[n])}

(* A steady peer serves; it is still to be called, or it is known and knows. *)
SteadyMet ==
  \A n \in Nodes : \A p \in steady[n] :
    /\ p \in serving /\ p # n
    /\ p \in Ahead(n) \/ (Knows(n, p) /\ Knows(p, n))
    /\ phase[n] = "answered" /\ p = Callee(n)
         => reply[n] = Id(p) /\ Knows(p, n)

(* A node with an id of its own has one id; another is known to those that   *)
(* have called it since they started, and to no one else.                    *)
KnownSince ==
  /\ \A n \in FixedId \cap Nodes : starts[n] = 0
  /\ \A n \in Nodes : phase[n] = "answered" /\ reply[n][1] \in FixedId => reply[n][2] = 0
  /\ \A m \in Nodes, i \in Ids : peers[m][i] # NoNode =>
       IF i[1] \in FixedId THEN i[2] = 0
       ELSE \E k \in 1..Len(Config[m]) : k < next[m] /\ Config[m][k] = i[1]

IInv == /\ TypeOK /\ Calls /\ NamesItsNode /\ NotItself /\ SteadyMet
        /\ KnownSince /\ OneIdPerNode

-----------------------------------------------------------------------------

LEMMA CalleeTyped ==
  ASSUME TypeOK, NEW n \in Nodes, next[n] <= Len(Config[n])
  PROVE  Callee(n) \in Nodes
BY MembershipAssumption DEF TypeOK, Callee

LEMMA IdTyped ==
  ASSUME TypeOK, NEW n \in Nodes
  PROVE  Id(n) \in Ids /\ Id(n)[1] = n
BY DEF TypeOK, Id, Ids

LEMMA LenTyped == \A n \in Nodes : Len(Config[n]) \in Nat
BY MembershipAssumption

LEMMA PhaseTyped ==
  ASSUME TypeOK, NEW n \in Nodes, NEW to \in Phases, GoTo(n, to)
  PROVE  phase' \in [Nodes -> Phases]
BY DEF TypeOK, GoTo

LEMMA NextTyped ==
  ASSUME TypeOK, NEW n \in Nodes, next[n] <= Len(Config[n]),
         next' = [next EXCEPT ![n] = @ + 1]
  PROVE  /\ next' \in [Nodes -> Nat]
         /\ \A m \in Nodes : next'[m] \in 1..(Len(Config[m]) + 1)
BY LenTyped DEF TypeOK

LEMMA PeersTyped ==
  ASSUME TypeOK, NEW n \in Nodes, NEW i \in Ids, NEW p \in Nodes,
         peers' = [peers EXCEPT ![n][i] = p]
  PROVE  peers' \in [Nodes -> [Ids -> Nodes \cup {NoNode}]]
BY DEF TypeOK

(* What the end of n does to the process of m.                               *)
LEMMA AtCrash ==
  ASSUME NEW n \in Nodes, Crash(n), NEW m \in Nodes
  PROVE  /\ m = n => phase'[m] = "down" /\ next'[m] = 1 /\ steady'[m] = {}
         /\ m # n => \/ phase'[m] = phase[m] /\ next'[m] = next[m]
                        /\ ~(phase[m] = "sent" /\ Callee(m) = n)
                     \/ /\ phase[m] = "sent" /\ Callee(m) = n
                        /\ phase'[m] = "new" /\ next'[m] = next[m] + 1
         /\ m # n => steady'[m] = steady[m] \ {n}
<1>1. /\ phase' = [k \in Nodes |-> IF k = n THEN "down"
           ELSE IF k # n /\ phase[k] = "sent" /\ Callee(k) = n THEN "new" ELSE phase[k]]
      /\ next' = [k \in Nodes |-> IF k = n THEN 1
           ELSE IF k # n /\ phase[k] = "sent" /\ Callee(k) = n THEN next[k] + 1 ELSE next[k]]
      /\ steady' = [k \in Nodes |-> IF k = n THEN {} ELSE steady[k] \ {n}]
  BY DEF Crash
<1>2. /\ phase'[m] = IF m = n THEN "down"
           ELSE IF m # n /\ phase[m] = "sent" /\ Callee(m) = n THEN "new" ELSE phase[m]
      /\ next'[m] = IF m = n THEN 1
           ELSE IF m # n /\ phase[m] = "sent" /\ Callee(m) = n THEN next[m] + 1 ELSE next[m]
      /\ steady'[m] = IF m = n THEN {} ELSE steady[m] \ {n}
  BY <1>1
<1> QED
  BY <1>2

LEMMA TypesKept ==
  ASSUME TypeOK, Calls, [Next]_vars
  PROVE  TypeOK'
<1> USE MembershipAssumption DEF TypeOK
<1>1. CASE UNCHANGED vars
  BY <1>1 DEF vars
<1>2. ASSUME NEW n \in Nodes, Start(n)
      PROVE  TypeOK'
  BY <1>2 DEF Start, GoTo, Phases
<1>3. ASSUME NEW n \in Nodes, SendHandshake(n)
      PROVE  TypeOK'
  <2>1. CASE Callee(n) \in serving
    BY <1>3, <2>1, PhaseTyped DEF SendHandshake, Phases
  <2>2. CASE Callee(n) \notin serving
    BY <1>3, <2>2, NextTyped DEF SendHandshake
  <2> QED
    BY <2>1, <2>2
<1>4. ASSUME NEW n \in Nodes, HandleHandshake(n)
      PROVE  TypeOK'
  BY <1>4, CalleeTyped, IdTyped DEF HandleHandshake, GoTo, Phases, Calls
<1>5. ASSUME NEW n \in Nodes, ReceiveReply(n)
      PROVE  TypeOK'
  <2>1. phase[n] \in {"sent", "answered"} /\ next[n] <= Len(Config[n])
    BY <1>5 DEF ReceiveReply, Calls
  <2>2. reply[n] \in Ids /\ Callee(n) \in Nodes
    BY <1>5, <2>1, CalleeTyped DEF ReceiveReply, Calls
  <2>3. phase' \in [Nodes -> Phases]
    BY <1>5, PhaseTyped DEF ReceiveReply, Phases
  <2>4. peers' \in [Nodes -> [Ids -> Nodes \cup {NoNode}]]
    BY <1>5, <2>2, PeersTyped DEF ReceiveReply
  <2> QED
    BY <1>5, <2>1, <2>3, <2>4, NextTyped DEF ReceiveReply
<1>6. ASSUME NEW n \in Nodes, LoseCall(n)
      PROVE  TypeOK'
  <2>1. next[n] <= Len(Config[n])
    BY <1>6 DEF LoseCall, Calls
  <2>2. phase' \in [Nodes -> Phases]
    BY <1>6, PhaseTyped DEF LoseCall, Phases
  <2> QED
    BY <1>6, <2>1, <2>2, NextTyped DEF LoseCall
<1>7. ASSUME NEW n \in Nodes, EndNew(n)
      PROVE  TypeOK'
  BY <1>7 DEF EndNew, GoTo, Phases
<1>8. ASSUME NEW n \in Nodes, Serve(n)
      PROVE  TypeOK'
  BY <1>8 DEF Serve
<1>9. ASSUME NEW n \in Nodes, LoopStep(n)
      PROVE  TypeOK'
  BY <1>9 DEF LoopStep, StartConnecting, EndConnecting, GoTo, Phases
<1>10. ASSUME NEW n \in Nodes, Crash(n)
       PROVE  TypeOK'
  <2>1. /\ phase' \in [Nodes -> Phases]
        /\ reply' \in [Nodes -> Ids \cup {NoId}]
        /\ serving' \in SUBSET Nodes
        /\ starts' \in [Nodes -> 0..MaxStarts]
    BY <1>10 DEF Crash, Phases
  <2>2. peers' \in [Nodes -> [Ids -> Nodes \cup {NoNode}]]
    BY <1>10 DEF Crash, Forget, Unknown
  <2>3. steady' \in [Nodes -> SUBSET Nodes]
    BY <1>10 DEF Crash
  <2>4. ASSUME NEW m \in Nodes
        PROVE  next'[m] \in 1..(Len(Config[m]) + 1)
    <3>1. next[m] \in 1..(Len(Config[m]) + 1) /\ Len(Config[m]) \in Nat
      BY LenTyped
    <3>2. phase[m] = "sent" => next[m] <= Len(Config[m])
      BY DEF Calls
    <3>3. next'[m] = 1 \/ next'[m] = next[m]
             \/ (phase[m] = "sent" /\ next'[m] = next[m] + 1)
      BY <1>10, AtCrash
    <3> QED
      BY ONLY <3>1, <3>2, <3>3
  <2>5. next' \in [Nodes -> Nat]
    <3> DEFINE after(m) == IF m = n THEN 1
           ELSE IF m # n /\ phase[m] = "sent" /\ Callee(m) = n THEN next[m] + 1 ELSE next[m]
    <3>1. next' = [m \in Nodes |-> after(m)]
      BY <1>10 DEF Crash
    <3>2. \A m \in Nodes : next'[m] \in Nat
      BY <2>4, LenTyped
    <3>3. \A m \in Nodes : after(m) \in Nat
      BY <3>1, <3>2
    <3> HIDE DEF after
    <3> QED
      BY <3>1, <3>3
  <2> QED
    BY <2>1, <2>2, <2>3, <2>4, <2>5
<1> QED
  BY <1>1, <1>2, <1>3, <1>4, <1>5, <1>6, <1>7, <1>8, <1>9, <1>10 DEF Next, NewStep

LEMMA CallsKept ==
  ASSUME TypeOK, Calls, [Next]_vars
  PROVE  Calls'
<1> USE MembershipAssumption DEF TypeOK, Calls, Started, Callee
<1>1. CASE UNCHANGED vars
  BY <1>1 DEF vars
<1>2. ASSUME NEW n \in Nodes, Start(n)
      PROVE  Calls'
  BY <1>2 DEF Start, GoTo
<1>3. ASSUME NEW n \in Nodes, SendHandshake(n)
      PROVE  Calls'
  <2>1. CASE Callee(n) \in serving
    <3>1. phase[n] = "new" /\ next[n] <= Len(Config[n]) /\ n \notin serving
      BY <1>3 DEF SendHandshake
    <3>2. /\ phase' = [phase EXCEPT ![n] = "sent"]
          /\ UNCHANGED <<next, reply, serving, steady>>
      BY <1>3, <2>1 DEF SendHandshake, GoTo
    <3> QED
      BY <2>1, <3>1, <3>2
  <2>2. CASE Callee(n) \notin serving
    <3>1. phase[n] = "new" /\ next' = [next EXCEPT ![n] = @ + 1]
      BY <1>3, <2>2 DEF SendHandshake
    <3>2. UNCHANGED <<phase, reply, serving, steady>>
      BY <1>3, <2>2 DEF SendHandshake
    <3> QED
      BY <3>1, <3>2
  <2> QED
    BY <2>1, <2>2
<1>4. ASSUME NEW n \in Nodes, HandleHandshake(n)
      PROVE  Calls'
  <2>1. /\ phase[n] = "sent" /\ next[n] <= Len(Config[n])
        /\ n \notin serving /\ Callee(n) # n
    BY <1>4 DEF HandleHandshake
  <2>2. Id(Callee(n)) \in Ids /\ Id(Callee(n))[1] = Callee(n)
    BY <2>1, CalleeTyped, IdTyped
  <2>3. /\ phase' = [phase EXCEPT ![n] = "answered"]
        /\ reply' = [reply EXCEPT ![n] = Id(Callee(n))]
        /\ UNCHANGED <<next, serving, steady>>
    BY <1>4 DEF HandleHandshake, GoTo
  <2> QED
    BY <2>1, <2>2, <2>3
<1>5. ASSUME NEW n \in Nodes, ReceiveReply(n)
      PROVE  Calls'
  BY <1>5 DEF ReceiveReply, GoTo
<1>6. ASSUME NEW n \in Nodes, LoseCall(n)
      PROVE  Calls'
  BY <1>6 DEF LoseCall, GoTo
<1>7. ASSUME NEW n \in Nodes, EndNew(n)
      PROVE  Calls'
  BY <1>7 DEF EndNew, GoTo
<1>8. ASSUME NEW n \in Nodes, Serve(n)
      PROVE  Calls'
  BY <1>8 DEF Serve
<1>9. ASSUME NEW n \in Nodes, LoopStep(n)
      PROVE  Calls'
  <2>1. UNCHANGED <<next, reply, serving, steady>>
    BY <1>9 DEF LoopStep, StartConnecting, EndConnecting
  <2>2. \A m \in Nodes : phase'[m] = phase[m] \/
          {phase[m], phase'[m]} \subseteq {"spawned", "connect", "loop"}
    BY <1>9 DEF LoopStep, StartConnecting, EndConnecting, GoTo
  <2> QED
    BY <2>1, <2>2
<1>10. ASSUME NEW n \in Nodes, Crash(n)
       PROVE  Calls'
  BY <1>10 DEF Crash
<1> QED
  BY <1>1, <1>2, <1>3, <1>4, <1>5, <1>6, <1>7, <1>8, <1>9, <1>10 DEF Next, NewStep

-----------------------------------------------------------------------------

(* A step leaves an entry alone, forgets it, or writes the address of the    *)
(* node whose id it has, at another node.                                    *)
LEMMA EntryAfter ==
  ASSUME TypeOK, Calls, [Next]_vars, NEW m \in Nodes, NEW i \in Ids
  PROVE  \/ peers'[m][i] \in {peers[m][i], NoNode}
         \/ peers'[m][i] = i[1] /\ i[1] # m
<1>1. CASE UNCHANGED peers
  BY <1>1
<1>2. ASSUME NEW n \in Nodes, HandleHandshake(n)
      PROVE  peers'[m][i] = peers[m][i] \/ (peers'[m][i] = i[1] /\ i[1] # m)
  <2>1. /\ phase[n] = "sent"
        /\ peers' = [peers EXCEPT ![Callee(n)][Id(n)] = n]
    BY <1>2 DEF HandleHandshake
  <2>2. Callee(n) # n /\ Callee(n) \in Nodes
    BY <2>1, CalleeTyped DEF Calls
  <2>3. Id(n) \in Ids /\ Id(n)[1] = n
    BY IdTyped
  <2> QED
    BY <2>1, <2>2, <2>3 DEF TypeOK
<1>3. ASSUME NEW n \in Nodes, ReceiveReply(n)
      PROVE  peers'[m][i] = peers[m][i] \/ (peers'[m][i] = i[1] /\ i[1] # m)
  <2>1. /\ phase[n] = "answered"
        /\ peers' = [peers EXCEPT ![n][reply[n]] = Callee(n)]
    BY <1>3 DEF ReceiveReply
  <2>2. Callee(n) # n /\ reply[n] \in Ids /\ reply[n][1] = Callee(n)
    BY <2>1 DEF Calls
  <2> QED
    BY <2>1, <2>2 DEF TypeOK
<1>4. ASSUME NEW n \in Nodes, Crash(n)
      PROVE  peers'[m][i] \in {peers[m][i], NoNode}
  <2>1. peers' = [peers EXCEPT ![n] = Unknown]
    BY <1>4 DEF Crash, Forget
  <2> QED
    BY <2>1 DEF TypeOK, Unknown
<1>5. \/ UNCHANGED peers
      \/ \E n \in Nodes : HandleHandshake(n) \/ ReceiveReply(n) \/ Crash(n)
  BY DEF Next, NewStep, LoopStep, Start, SendHandshake, EndNew, Serve,
         StartConnecting, EndConnecting, LoseCall, vars
<1> QED
  BY <1>1, <1>2, <1>3, <1>4, <1>5

LEMMA NamesKept ==
  ASSUME TypeOK, Calls, [Next]_vars, NamesItsNode, NotItself
  PROVE  NamesItsNode' /\ NotItself'
<1>1. ASSUME NEW m \in Nodes, NEW i \in Ids
      PROVE  peers'[m][i] \in {i[1], NoNode} /\ peers'[m][i] # m
  <2>1. peers[m][i] \in {i[1], NoNode} /\ peers[m][i] # m
    BY DEF NamesItsNode, NotItself
  <2>2. NoNode # m
    BY MembershipAssumption
  <2> QED
    BY <2>1, <2>2, EntryAfter
<1> QED
  BY <1>1 DEF NamesItsNode, NotItself

-----------------------------------------------------------------------------

LEMMA SteadyAfter ==
  ASSUME TypeOK, [Next]_vars, NEW n \in Nodes, NEW p \in steady'[n]
  PROVE  p \in steady[n] \/ (Start(n) /\ p \in Range(Config[n]) \cap serving)
<1>1. ASSUME NEW m \in Nodes, Start(m)
      PROVE  p \in steady[n] \/ (Start(n) /\ p \in Range(Config[n]) \cap serving)
  <2>1. steady' = [steady EXCEPT ![m] = Range(Config[m]) \cap serving]
    BY <1>1 DEF Start
  <2> QED
    BY <1>1, <2>1 DEF TypeOK
<1>2. ASSUME NEW m \in Nodes, LoseCall(m)
      PROVE  p \in steady[n]
  BY <1>2 DEF LoseCall, TypeOK
<1>3. ASSUME NEW m \in Nodes, Crash(m)
      PROVE  p \in steady[n]
  BY <1>3, AtCrash
<1>4. \/ UNCHANGED steady
      \/ \E m \in Nodes : Start(m) \/ LoseCall(m) \/ Crash(m)
  BY DEF Next, NewStep, LoopStep, HandleHandshake, ReceiveReply, SendHandshake,
         EndNew, Serve, StartConnecting, EndConnecting, vars
<1> QED
  BY <1>1, <1>2, <1>3, <1>4

(* A steady peer goes on serving, under the same id.                         *)
LEMMA SteadyServes ==
  ASSUME TypeOK, Calls, [Next]_vars, NEW n \in Nodes, NEW p \in Nodes,
         p \in serving, p \in steady'[n]
  PROVE  p \in serving' /\ Id(p)' = Id(p)
<1>1. phase[p] # "down"
  BY DEF Calls, Started
<1>2. ASSUME NEW m \in Nodes, Start(m)
      PROVE  p \in serving' /\ Id(p)' = Id(p)
  BY <1>1, <1>2 DEF Start, Id, TypeOK
<1>3. ASSUME NEW m \in Nodes, Crash(m)
      PROVE  p \in serving' /\ Id(p)' = Id(p)
  <2>1. p # m
    BY <1>3, AtCrash
  <2> QED
    BY <1>3, <2>1 DEF Crash, Id
<1>4. \/ starts' = starts /\ serving \subseteq serving'
      \/ \E m \in Nodes : Start(m) \/ Crash(m)
  BY DEF Next, NewStep, LoopStep, HandleHandshake, ReceiveReply, SendHandshake,
         EndNew, Serve, StartConnecting, EndConnecting, LoseCall, vars
<1> QED
  BY <1>2, <1>3, <1>4 DEF Id

(* Who knows a node goes on knowing it until one of the two ends.            *)
LEMMA KnowsKept ==
  ASSUME TypeOK, Calls, [Next]_vars, NEW m \in Nodes, NEW p \in Nodes,
         Knows(m, p), phase'[m] # "down", Id(p)' = Id(p)
  PROVE  Knows(m, p)'
<1>1. Id(p) \in Ids /\ Id(p)[1] = p /\ peers[m][Id(p)] = p
  BY IdTyped DEF Knows
<1>2. peers'[m][Id(p)] = p \/ peers'[m][Id(p)] = NoNode
  BY <1>1, EntryAfter
<1>3. SUFFICES peers'[m][Id(p)] # NoNode
  BY <1>2 DEF Knows
<1>4. ASSUME NEW n \in Nodes, HandleHandshake(n)
      PROVE  peers'[m][Id(p)] # NoNode
  BY <1>1, <1>4, MembershipAssumption, CalleeTyped DEF HandleHandshake, TypeOK, Calls
<1>5. ASSUME NEW n \in Nodes, ReceiveReply(n)
      PROVE  peers'[m][Id(p)] # NoNode
  BY <1>1, <1>5, MembershipAssumption, CalleeTyped DEF ReceiveReply, TypeOK, Calls
<1>6. ASSUME NEW n \in Nodes, Crash(n)
      PROVE  peers'[m][Id(p)] # NoNode
  <2>1. m # n
    BY <1>6, AtCrash
  <2> QED
    BY <1>1, <1>6, <2>1, MembershipAssumption DEF Crash, Forget, TypeOK
<1>7. \/ UNCHANGED peers
      \/ \E n \in Nodes : HandleHandshake(n) \/ ReceiveReply(n) \/ Crash(n)
  BY DEF Next, NewStep, LoopStep, Start, SendHandshake, EndNew, Serve,
         StartConnecting, EndConnecting, LoseCall, vars
<1> QED
  BY <1>1, <1>4, <1>5, <1>6, <1>7, MembershipAssumption

(* A peer ahead stays ahead until it is called, and a steady one is called.  *)
LEMMA AheadKept ==
  ASSUME TypeOK, Calls, [Next]_vars, NEW n \in Nodes, NEW p \in Nodes,
         p \in Ahead(n), p \in serving, p \in steady'[n]
  PROVE  p \in Ahead(n)' \/ (ReceiveReply(n) /\ p = Callee(n))
<1>1. PICK k \in next[n]..Len(Config[n]) : Config[n][k] = p
  BY DEF Ahead
<1>2. next[n] \in Nat /\ Len(Config[n]) \in Nat
  BY LenTyped DEF TypeOK
<1>3. CASE next'[n] = next[n]
  BY <1>1, <1>3 DEF Ahead
<1>4. CASE next'[n] = next[n] + 1 /\ p # Callee(n)
  <2>1. k # next[n]
    BY <1>1, <1>4 DEF Callee
  <2>2. k \in (next[n] + 1)..Len(Config[n])
    BY <1>1, <1>2, <2>1
  <2> QED
    BY <1>1, <1>4, <2>2 DEF Ahead
<1>5. ASSUME NEW m \in Nodes, SendHandshake(m)
      PROVE  next'[n] = next[n] \/ (next'[n] = next[n] + 1 /\ p # Callee(n))
  BY <1>5 DEF SendHandshake, TypeOK
<1>6. ASSUME NEW m \in Nodes, ReceiveReply(m)
      PROVE  next'[n] = next[n] \/ (m = n /\ next'[n] = next[n] + 1)
  BY <1>6 DEF ReceiveReply, TypeOK
<1>7. ASSUME NEW m \in Nodes, LoseCall(m)
      PROVE  next'[n] = next[n] \/ (next'[n] = next[n] + 1 /\ p # Callee(n))
  BY <1>7 DEF LoseCall, TypeOK
<1>8. ASSUME NEW m \in Nodes, Crash(m)
      PROVE  next'[n] = next[n] \/ (next'[n] = next[n] + 1 /\ p # Callee(n))
  <2>1. n # m /\ p # m
    BY <1>8, AtCrash
  <2> QED
    BY <1>8, <2>1, AtCrash
<1>9. \/ UNCHANGED next
      \/ \E m \in Nodes : \/ SendHandshake(m) \/ ReceiveReply(m)
                           \/ LoseCall(m) \/ Crash(m)
  BY DEF Next, NewStep, LoopStep, Start, HandleHandshake, EndNew, Serve,
         StartConnecting, EndConnecting, vars
<1> QED
  BY <1>3, <1>4, <1>5, <1>6, <1>7, <1>8, <1>9

(* The answer in hand is one that was there before, or comes with this step. *)
LEMMA AnswerAfter ==
  ASSUME TypeOK, Calls, [Next]_vars, NEW n \in Nodes, phase'[n] = "answered"
  PROVE  \/ HandleHandshake(n)
         \/ /\ phase[n] = "answered"
            /\ next'[n] = next[n] /\ reply'[n] = reply[n]
<1>1. ASSUME NEW m \in Nodes, Start(m)
      PROVE  phase[n] = "answered" /\ next'[n] = next[n] /\ reply'[n] = reply[n]
  BY <1>1 DEF Start, GoTo, TypeOK
<1>2. ASSUME NEW m \in Nodes, SendHandshake(m)
      PROVE  phase[n] = "answered" /\ next'[n] = next[n] /\ reply'[n] = reply[n]
  BY <1>2 DEF SendHandshake, GoTo, TypeOK
<1>3. ASSUME NEW m \in Nodes, HandleHandshake(m)
      PROVE  \/ m = n
             \/ phase[n] = "answered" /\ next'[n] = next[n] /\ reply'[n] = reply[n]
  BY <1>3 DEF HandleHandshake, GoTo, TypeOK
<1>4. ASSUME NEW m \in Nodes, ReceiveReply(m)
      PROVE  phase[n] = "answered" /\ next'[n] = next[n] /\ reply'[n] = reply[n]
  BY <1>4 DEF ReceiveReply, GoTo, TypeOK
<1>5. ASSUME NEW m \in Nodes, LoseCall(m)
      PROVE  phase[n] = "answered" /\ next'[n] = next[n] /\ reply'[n] = reply[n]
  BY <1>5 DEF LoseCall, GoTo, TypeOK
<1>6. ASSUME NEW m \in Nodes, EndNew(m) \/ LoopStep(m)
      PROVE  phase[n] = "answered" /\ next'[n] = next[n] /\ reply'[n] = reply[n]
  BY <1>6 DEF EndNew, LoopStep, StartConnecting, EndConnecting, GoTo, TypeOK
<1>7. ASSUME NEW m \in Nodes, Crash(m)
      PROVE  phase[n] = "answered" /\ next'[n] = next[n] /\ reply'[n] = reply[n]
  <2>1. m # n /\ phase[n] = "answered" /\ next'[n] = next[n]
    BY <1>7, AtCrash
  <2> QED
    BY <1>7, <2>1 DEF Crash, TypeOK
<1>8. ASSUME NEW m \in Nodes, Serve(m)
      PROVE  phase[n] = "answered" /\ next'[n] = next[n] /\ reply'[n] = reply[n]
  BY <1>8 DEF Serve
<1>9. CASE UNCHANGED vars
  BY <1>9 DEF vars
<1> QED
  BY <1>1, <1>2, <1>3, <1>4, <1>5, <1>6, <1>7, <1>8, <1>9 DEF Next, NewStep

LEMMA SteadyKept ==
  ASSUME TypeOK, Calls, TypeOK', Calls', NamesItsNode, SteadyMet, [Next]_vars
  PROVE  SteadyMet'
<1> SUFFICES ASSUME NEW n \in Nodes, NEW p \in steady'[n]
             PROVE  /\ p \in serving' /\ p # n
                    /\ p \in Ahead(n)' \/ (Knows(n, p)' /\ Knows(p, n)')
                    /\ phase'[n] = "answered" /\ p = Callee(n)'
                         => reply'[n] = Id(p)' /\ Knows(p, n)'
  BY DEF SteadyMet
<1>1. p \in Nodes
  BY DEF TypeOK
<1>2. CASE p \notin steady[n]
  <2>1. Start(n) /\ p \in Range(Config[n]) /\ p \in serving
    BY <1>2, SteadyAfter
  <2>2. phase[n] = "down" /\ next'[n] = 1 /\ phase'[n] = "new" /\ n \notin serving
    BY <2>1 DEF Start, GoTo, Calls, Started, TypeOK
  <2>3. PICK k \in DOMAIN Config[n] : Config[n][k] = p
    BY <2>1 DEF Range
  <2>4. k \in 1..Len(Config[n])
    BY MembershipAssumption
  <2>5. p \in Ahead(n)'
    BY <2>2, <2>3, <2>4 DEF Ahead
  <2> QED
    BY <1>1, <2>1, <2>2, <2>5, SteadyServes
<1>3. CASE p \in steady[n]
  <2>1. /\ p \in serving /\ p # n
        /\ p \in Ahead(n) \/ (Knows(n, p) /\ Knows(p, n))
        /\ phase[n] = "answered" /\ p = Callee(n)
             => reply[n] = Id(p) /\ Knows(p, n)
    BY <1>3 DEF SteadyMet
  <2>2. p \in serving' /\ Id(p)' = Id(p)
    BY <1>1, <2>1, SteadyServes
  <2>3. phase'[p] # "down" /\ phase'[n] # "down"
    BY <1>1, <2>2 DEF Calls, Started
  <2>4. Id(n)' = Id(n)
    <3>1. phase[n] # "down"
      BY <1>3 DEF Calls
    <3> QED
      BY <3>1 DEF Next, NewStep, LoopStep, Start, HandleHandshake, ReceiveReply,
         SendHandshake, EndNew, Serve, StartConnecting, EndConnecting, LoseCall,
         Crash, vars, Id, TypeOK
  <2>5. Knows(n, p) => Knows(n, p)'
    BY <1>1, <2>2, <2>3, KnowsKept
  <2>6. Knows(p, n) => Knows(p, n)'
    BY <1>1, <2>3, <2>4, KnowsKept
  <2>7. ASSUME ReceiveReply(n), p = Callee(n)
        PROVE  Knows(n, p)' /\ Knows(p, n)'
    <3>1. /\ reply[n] = Id(p) /\ Knows(p, n)
          /\ peers' = [peers EXCEPT ![n][reply[n]] = p]
      BY <2>1, <2>7 DEF ReceiveReply
    <3>2. peers'[n][Id(p)] = p
      BY <1>1, <3>1, IdTyped DEF TypeOK
    <3> QED
      BY <2>2, <2>6, <3>1, <3>2 DEF Knows
  <2>8. p \in Ahead(n)' \/ (Knows(n, p)' /\ Knows(p, n)')
    BY <1>1, <2>1, <2>5, <2>6, <2>7, AheadKept
  <2>9. ASSUME phase'[n] = "answered", p = Callee(n)'
        PROVE  reply'[n] = Id(p)' /\ Knows(p, n)'
    <3>1. CASE HandleHandshake(n)
      <4>1. /\ next' = next
            /\ peers' = [peers EXCEPT ![Callee(n)][Id(n)] = n]
            /\ reply' = [reply EXCEPT ![n] = Id(Callee(n))]
        BY <3>1 DEF HandleHandshake
      <4>2. p = Callee(n)
        BY <2>9, <4>1 DEF Callee
      <4>3. peers'[p][Id(n)] = n
        BY <1>1, <4>1, <4>2, IdTyped DEF TypeOK
      <4> QED
        BY <2>2, <2>4, <4>1, <4>2, <4>3 DEF TypeOK, Knows
    <3>2. CASE phase[n] = "answered" /\ next'[n] = next[n] /\ reply'[n] = reply[n]
      BY <2>1, <2>2, <2>6, <2>9, <3>2 DEF Callee
    <3> QED
      BY <2>9, <3>1, <3>2, AnswerAfter
  <2> QED
    BY <2>1, <2>2, <2>8, <2>9
<1> QED
  BY <1>2, <1>3

-----------------------------------------------------------------------------

(* What is new among the entries of m comes with a handshake that m answers  *)
(* or gets answered.                                                         *)
LEMMA NewEntry ==
  ASSUME TypeOK, Calls, [Next]_vars, NEW m \in Nodes, NEW i \in Ids,
         peers'[m][i] # NoNode
  PROVE  \/ peers[m][i] # NoNode /\ (next'[m] = next[m] \/ next'[m] = next[m] + 1)
         \/ \E n \in Nodes : HandleHandshake(n) /\ i = Id(n)
         \/ ReceiveReply(m) /\ i = reply[m]
<1>1. ASSUME NEW n \in Nodes, Start(n)
      PROVE  peers[m][i] # NoNode /\ next'[m] = next[m]
  BY <1>1 DEF Start
<1>2. ASSUME NEW n \in Nodes, SendHandshake(n)
      PROVE  peers[m][i] # NoNode /\ (next'[m] = next[m] \/ next'[m] = next[m] + 1)
  BY <1>2 DEF SendHandshake, TypeOK
<1>3. ASSUME NEW n \in Nodes, HandleHandshake(n)
      PROVE  i = Id(n) \/ (peers[m][i] # NoNode /\ next'[m] = next[m])
  BY <1>3 DEF HandleHandshake, TypeOK
<1>4. ASSUME NEW n \in Nodes, ReceiveReply(n)
      PROVE  \/ peers[m][i] # NoNode /\ (next'[m] = next[m] \/ next'[m] = next[m] + 1)
             \/ n = m /\ i = reply[m]
  BY <1>4 DEF ReceiveReply, TypeOK
<1>5. ASSUME NEW n \in Nodes, LoseCall(n)
      PROVE  peers[m][i] # NoNode /\ (next'[m] = next[m] \/ next'[m] = next[m] + 1)
  BY <1>5 DEF LoseCall, TypeOK
<1>6. ASSUME NEW n \in Nodes, Crash(n)
      PROVE  peers[m][i] # NoNode /\ (next'[m] = next[m] \/ next'[m] = next[m] + 1)
  <2>1. peers' = [peers EXCEPT ![n] = Unknown]
    BY <1>6 DEF Crash, Forget
  <2>2. m # n /\ peers[m][i] # NoNode
    BY <2>1 DEF TypeOK, Unknown
  <2> QED
    BY <1>6, <2>2, AtCrash
<1>7. ASSUME NEW n \in Nodes, EndNew(n) \/ Serve(n) \/ LoopStep(n)
      PROVE  peers[m][i] # NoNode /\ next'[m] = next[m]
  BY <1>7 DEF EndNew, Serve, LoopStep, StartConnecting, EndConnecting
<1>8. CASE UNCHANGED vars
  BY <1>8 DEF vars
<1> QED
  BY <1>1, <1>2, <1>3, <1>4, <1>5, <1>6, <1>7, <1>8 DEF Next, NewStep

(* Only a node with an id of its own calls.                                  *)
LEMMA CallersFixed ==
  ASSUME TypeOK, Calls, KnownSince, NEW n \in Nodes, phase[n] \in {"sent", "answered"}
  PROVE  n \in FixedId /\ Id(n)[2] = 0
<1>1. 1 <= next[n] /\ next[n] <= Len(Config[n])
  BY DEF Calls, TypeOK
<1>2. Config[n] # <<>>
  BY <1>1, LenTyped DEF TypeOK
<1> QED
  BY <1>2, MembershipAssumption DEF KnownSince, Id

LEMMA KnownSinceKept ==
  ASSUME TypeOK, Calls, TypeOK', KnownSince, [Next]_vars
  PROVE  KnownSince'
<1>1. ASSUME NEW n \in FixedId \cap Nodes
      PROVE  starts'[n] = 0
  BY <1>1 DEF KnownSince, TypeOK, Next, NewStep, LoopStep, Start, HandleHandshake,
     ReceiveReply, SendHandshake, EndNew, Serve, StartConnecting, EndConnecting,
     LoseCall, Crash, vars
<1>2. ASSUME NEW n \in Nodes, phase'[n] = "answered", reply'[n][1] \in FixedId
      PROVE  reply'[n][2] = 0
  <2>1. CASE HandleHandshake(n)
    <3>1. reply'[n] = Id(Callee(n)) /\ Callee(n) \in Nodes
      BY <2>1, CalleeTyped DEF HandleHandshake, TypeOK, Calls
    <3> QED
      BY <1>2, <3>1 DEF KnownSince, Id
  <2>2. CASE phase[n] = "answered" /\ reply'[n] = reply[n]
    BY <1>2, <2>2 DEF KnownSince
  <2> QED
    BY <1>2, <2>1, <2>2, AnswerAfter
<1>3. ASSUME NEW m \in Nodes, NEW i \in Ids, peers'[m][i] # NoNode
      PROVE  IF i[1] \in FixedId THEN i[2] = 0
             ELSE \E k \in 1..Len(Config[m]) : k < next'[m] /\ Config[m][k] = i[1]
  <2>1. ASSUME NEW n \in Nodes, HandleHandshake(n), i = Id(n)
        PROVE  i[1] \in FixedId /\ i[2] = 0
    BY <2>1, CallersFixed, IdTyped DEF HandleHandshake
  <2>2. ASSUME ReceiveReply(m), i = reply[m], i[1] \notin FixedId
        PROVE  \E k \in 1..Len(Config[m]) : k < next'[m] /\ Config[m][k] = i[1]
    <3>1. /\ next'[m] = next[m] + 1 /\ i[1] = Config[m][next[m]]
          /\ next[m] \in Nat /\ 1 <= next[m] /\ next[m] <= Len(Config[m])
      BY <2>2 DEF ReceiveReply, TypeOK, Calls, Callee
    <3>2. next[m] \in 1..Len(Config[m]) /\ next[m] < next'[m]
      BY <3>1, LenTyped
    <3> QED
      BY <3>1, <3>2
  <2>3. ASSUME ReceiveReply(m), i = reply[m], i[1] \in FixedId
        PROVE  i[2] = 0
    BY <2>3 DEF ReceiveReply, KnownSince
  <2>4. CASE peers[m][i] # NoNode /\ (next'[m] = next[m] \/ next'[m] = next[m] + 1)
    <3>1. CASE i[1] \in FixedId
      BY <2>4, <3>1 DEF KnownSince
    <3>2. CASE i[1] \notin FixedId
      <4>1. PICK k \in 1..Len(Config[m]) : k < next[m] /\ Config[m][k] = i[1]
        BY <2>4, <3>2 DEF KnownSince
      <4>2. k < next'[m]
        BY <2>4, <4>1, LenTyped DEF TypeOK
      <4> QED
        BY <3>2, <4>1, <4>2
    <3> QED
      BY <3>1, <3>2
  <2> QED
    BY <1>3, <2>1, <2>2, <2>3, <2>4, NewEntry
<1> QED
  BY <1>1, <1>2, <1>3 DEF KnownSince

LEMMA OneIdKept ==
  ASSUME TypeOK, Calls, TypeOK', KnownSince, KnownSince', OneIdPerNode, [Next]_vars
  PROVE  OneIdPerNode'
<1> SUFFICES ASSUME NEW m \in Nodes, NEW i \in Ids, NEW j \in Ids, i[1] = j[1],
                    peers'[m][i] # NoNode, peers'[m][j] # NoNode
             PROVE  i = j
  BY DEF OneIdPerNode
<1>1. CASE i[1] \in FixedId
  <2>1. i[2] = 0 /\ j[2] = 0
    BY <1>1 DEF KnownSince
  <2> QED
    BY <2>1 DEF Ids
<1>2. CASE i[1] \notin FixedId
  <2>1. ASSUME NEW h \in Ids, h[1] = i[1], peers'[m][h] # NoNode
        PROVE  peers[m][h] # NoNode \/ (ReceiveReply(m) /\ h = reply[m])
    <3>1. ASSUME NEW n \in Nodes, HandleHandshake(n)
          PROVE  h # Id(n)
      BY <1>2, <2>1, <3>1, CallersFixed, IdTyped DEF HandleHandshake
    <3> QED
      BY <2>1, <3>1, NewEntry
  <2>2. ASSUME ReceiveReply(m), NEW h \in Ids, h[1] = i[1], reply[m][1] = i[1]
        PROVE  peers[m][h] = NoNode
    <3> SUFFICES ASSUME peers[m][h] # NoNode PROVE FALSE
      OBVIOUS
    <3>1. PICK k \in 1..Len(Config[m]) : k < next[m] /\ Config[m][k] = i[1]
      BY <1>2, <2>2 DEF KnownSince
    <3>2. Config[m][next[m]] = i[1] /\ next[m] \in Nat /\ next[m] <= Len(Config[m])
      BY <2>2 DEF ReceiveReply, Calls, Callee, TypeOK
    <3>3. next[m] \in 1..Len(Config[m])
      BY <3>1, <3>2, LenTyped
    <3>4. IsInjective(Config[m]) /\ DOMAIN Config[m] = 1..Len(Config[m])
      BY MembershipAssumption
    <3>5. k = next[m]
      BY <3>1, <3>2, <3>3, <3>4 DEF IsInjective
    <3> QED
      BY <3>1, <3>2, <3>5
  <2> QED
    BY <2>1, <2>2 DEF OneIdPerNode
<1> QED
  BY <1>1, <1>2

-----------------------------------------------------------------------------

LEMMA InitIInv == ASSUME Init PROVE IInv
<1> USE MembershipAssumption DEF Init
<1>1. TypeOK
  BY LenTyped DEF TypeOK, Phases, Unknown, Ids, NoId
<1>2. Calls
  BY DEF Calls, Started
<1>3. NamesItsNode /\ NotItself /\ SteadyMet
  BY DEF NamesItsNode, NotItself, SteadyMet, Unknown
<1>4. KnownSince /\ OneIdPerNode
  BY DEF KnownSince, OneIdPerNode, Unknown
<1> QED
  BY <1>1, <1>2, <1>3, <1>4 DEF IInv

LEMMA NextIInv == ASSUME IInv, [Next]_vars PROVE IInv'
<1>1. TypeOK' /\ Calls'
  BY TypesKept, CallsKept DEF IInv
<1>2. NamesItsNode' /\ NotItself' /\ SteadyMet'
  BY <1>1, NamesKept, SteadyKept DEF IInv
<1>3. KnownSince'
  BY <1>1, KnownSinceKept DEF IInv
<1>4. OneIdPerNode'
  BY <1>1, <1>3, OneIdKept DEF IInv
<1> QED
  BY <1>1, <1>2, <1>3, <1>4 DEF IInv

LEMMA Inductive == Spec => []IInv
BY InitIInv, NextIInv, PTL DEF Spec

(* Every variable keeps its type.                                            *)
THEOREM TypeCorrect == Spec => []TypeOK
BY Inductive, PTL DEF IInv

(* No node becomes its own peer, whatever is configured.                     *)
THEOREM NoNodeMeetsItself == Spec => []NotItself
BY Inductive, PTL DEF IInv

(* An id is always called at the address of the node it belongs to.          *)
THEOREM IdsNameNodes == Spec => []NamesItsNode
BY Inductive, PTL DEF IInv

(* After a start, a node and the configured peers that were there all along  *)
(* know each other.                                                          *)
THEOREM WhoIsThereIsMet == Spec => []MeetsWhoIsThere
<1>1. ASSUME IInv PROVE MeetsWhoIsThere
  <2> SUFFICES ASSUME NEW n \in Nodes, Started(n), NEW p \in steady[n]
               PROVE  Knows(n, p) /\ Knows(p, n)
    BY DEF MeetsWhoIsThere
  <2>1. Ahead(n) = {}
    BY <1>1, LenTyped DEF IInv, Calls, TypeOK, Ahead
  <2> QED
    BY <1>1, <2>1 DEF IInv, SteadyMet
<1> QED
  BY <1>1, Inductive, PTL

(* No node has another under two ids.                                        *)
THEOREM OneIdEach == Spec => []OneIdPerNode
BY Inductive, PTL DEF IInv
=============================================================================
