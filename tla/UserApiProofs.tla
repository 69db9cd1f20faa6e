--------------------------- MODULE UserApiProofs ---------------------------
(* Proofs about UserApi, for any clients, users, passwords and blobs.        *)
EXTENDS UserApi, TLAPS

(* A row is sealed with the key of its owner, which is the one it names.     *)
SealedForOwner ==
  \A b \in Blobs : blobs[b] # NoRow =>
    blobs[b].sealed = blobs[b].owner /\ blobs[b].public_key = blobs[b].owner

(* A token was given for a password.                                         *)
GivenForPassword ==
  \A c \in Clients : token[c] # NoName => given[c] \in Passwords

(* A request for one blob names a blob that is there.                        *)
NamesBlob ==
  \A c \in Clients : req[c].op \in {"delete_blob", "blob"} =>
    req[c].blob \in Blobs /\ blobs[req[c].blob] # NoRow

(* Past the check, and before it if it will pass, the owner of the blob has  *)
(* asked for the deletion.                                                   *)
DeletionAsked ==
  \A c \in Clients : req[c].op = "delete_blob" /\ req[c].pc \in {"begun", "checked"} =>
    /\ req[c].user = blobs[req[c].blob].owner => req[c].blob \in asked
    /\ req[c].pc = "checked" => req[c].user = blobs[req[c].blob].owner

(* What a request has seen is there.                                         *)
SeenIsThere ==
  \A c \in Clients : \A b \in req[c].seen : blobs[b] # NoRow

IInv == /\ TypeOK /\ TokenMatchesPassword /\ GivenForPassword
        /\ OnlyOwnerDeletes /\ ReadsBack /\ ListTellsAll
        /\ SealedForOwner /\ NamesBlob /\ DeletionAsked /\ SeenIsThere

-----------------------------------------------------------------------------
(* Types.                                                                    *)

LEMMA NoRowIsNone == NoRow \notin Row
<1> SUFFICES ASSUME NoRow \in Row PROVE FALSE
  OBVIOUS
<1>1. NoRow.owner \in Names
  BY DEF Row
<1> QED
  BY <1>1, UserApiAssumption DEF NoRow

LEMMA IdleTyped == Idle \in Requests
BY DEF Idle, Requests, Ops, PCs

LEMMA PCTyped ==
  ASSUME TypeOK, NEW c \in Clients, NEW pc \in PCs
  PROVE  /\ [req[c] EXCEPT !.pc = pc] \in Requests
         /\ [req[c] EXCEPT !.pc = pc].op = req[c].op
         /\ [req[c] EXCEPT !.pc = pc].pc = pc
         /\ [req[c] EXCEPT !.pc = pc].user = req[c].user
         /\ [req[c] EXCEPT !.pc = pc].whose = req[c].whose
         /\ [req[c] EXCEPT !.pc = pc].blob = req[c].blob
         /\ [req[c] EXCEPT !.pc = pc].seen = req[c].seen
         /\ [req[c] EXCEPT !.pc = pc].answer = req[c].answer
<1>1. req[c] \in Requests
  BY DEF TypeOK
<1> QED
  BY <1>1 DEF Requests

LEMMA AnswerTyped ==
  ASSUME TypeOK, NEW c \in Clients, NEW a \in SUBSET (Blobs \X Forms)
  PROVE  [req[c] EXCEPT !.pc = "answered", !.answer = a] \in Requests
<1>1. req[c] \in Requests
  BY DEF TypeOK
<1> QED
  BY <1>1 DEF Requests, PCs

(* The blobs and the requests with which Ask begins.                         *)
Asked(r) ==
  \/ r = [Idle EXCEPT !.op = "add_blob"]
  \/ \E b \in Blobs : /\ blobs[b] # NoRow
                      /\ \/ r = [Idle EXCEPT !.op = "delete_blob", !.blob = b]
                         \/ r = [Idle EXCEPT !.op = "blob", !.blob = b]
  \/ \E n \in Names : r = [Idle EXCEPT !.op = "user_blobs", !.whose = n, !.seen = Seen]
  \/ r = [Idle EXCEPT !.op = "blobs", !.seen = Seen]

LEMMA AskBegins ==
  ASSUME NEW c \in Clients, Ask(c)
  PROVE  \E r : Asked(r) /\ Begin(c, r)
BY DEF Ask, Asked

LEMMA AskedTyped ==
  ASSUME TypeOK, NEW r, Asked(r)
  PROVE  /\ r \in Requests
         /\ r.op \in {"delete_blob", "blob"} => r.blob \in Blobs /\ blobs[r.blob] # NoRow
         /\ r.seen \subseteq Seen
  BY DEF Asked, Idle, Requests, Ops, PCs, Seen

LEMMA TypesKept == ASSUME TypeOK, NamesBlob, [Next]_vars PROVE TypeOK'
<1>1. CASE UNCHANGED vars
  BY <1>1 DEF vars, TypeOK
<1>2. ASSUME NEW c \in Clients, NEW n \in Names, NEW p \in Passwords,
             Register(c, n, p) \/ Login(c, n, p)
      PROVE  TypeOK'
  BY <1>2 DEF Register, Login, IssueToken, TypeOK
<1>3. ASSUME NEW c \in Clients, DropToken(c)
      PROVE  TypeOK'
  BY <1>3 DEF DropToken, TypeOK
<1>4. ASSUME NEW c \in Clients, Ask(c)
      PROVE  TypeOK'
  <2>1. PICK r : Asked(r) /\ Begin(c, r)
    BY <1>4, AskBegins
  <2>2. r \in Requests /\ (r.op = "delete_blob" => r.blob \in Blobs)
    BY <2>1, AskedTyped
  <2>3. token[c] \in Names \cup {NoName}
    BY DEF TypeOK
  <2>4. [r EXCEPT !.pc = "begun", !.user = token[c]] \in Requests
    BY <2>2, <2>3 DEF Requests, PCs
  <2>5. req' \in [Clients -> Requests]
    BY <2>1, <2>4 DEF Begin, SetReq, TypeOK
  <2>6. asked' \in SUBSET Blobs
    BY <2>1, <2>2 DEF Begin, TypeOK
  <2> QED
    BY <2>1, <2>5, <2>6 DEF Begin, TypeOK
<1>5. ASSUME NEW c \in Clients, End(c)
      PROVE  TypeOK'
  BY <1>5, IdleTyped DEF End, SetReq, TypeOK
<1>6. ASSUME NEW c \in Clients, AddBlob(c)
      PROVE  TypeOK'
  <2>1. blobs' \in [Blobs -> Row \cup {NoRow}]
    <3>1. CASE req[c].user = NoName
      BY <1>6, <3>1 DEF AddBlob, TypeOK
    <3>2. CASE req[c].user # NoName
      <4>1. req[c].user \in Names
        BY <3>2 DEF TypeOK, Requests
      <4>2. PICK b \in Blobs, decrypts \in BOOLEAN :
              blobs' = [blobs EXCEPT ![b] =
                [owner |-> req[c].user, sealed |-> req[c].user, decrypts |-> decrypts,
                 public_key |-> req[c].user, deleted |-> FALSE]]
        BY <1>6, <3>2 DEF AddBlob
      <4>3. [owner |-> req[c].user, sealed |-> req[c].user, decrypts |-> decrypts,
             public_key |-> req[c].user, deleted |-> FALSE] \in Row
        BY <4>1 DEF Row
      <4> QED
        BY <4>2, <4>3 DEF TypeOK
    <3> QED
      BY <3>1, <3>2
  <2>2. \E pc \in PCs : req' = [req EXCEPT ![c] = [req[c] EXCEPT !.pc = pc]]
    BY <1>6 DEF AddBlob, Fail, SetPC, SetReq, PCs
  <2>3. req' \in [Clients -> Requests]
    BY <2>2, PCTyped DEF TypeOK
  <2> QED
    BY <1>6, <2>1, <2>3 DEF AddBlob, TypeOK
<1>7. ASSUME NEW c \in Clients, DeleteUpdate(c)
      PROVE  TypeOK'
  <2>1. blobs' \in [Blobs -> Row \cup {NoRow}]
    <3>1. req[c].blob \in Blobs /\ blobs[req[c].blob] \in Row
      BY <1>7 DEF DeleteUpdate, At, NamesBlob, TypeOK
    <3>2. [blobs[req[c].blob] EXCEPT !.deleted = TRUE] \in Row
      BY <3>1 DEF Row
    <3> QED
      BY <1>7, <3>2 DEF DeleteUpdate, TypeOK
  <2>2. req' = [req EXCEPT ![c] = [req[c] EXCEPT !.pc = "queue"]] /\ "queue" \in PCs
    BY <1>7 DEF DeleteUpdate, SetPC, SetReq, PCs
  <2>3. req' \in [Clients -> Requests]
    BY <2>2, PCTyped DEF TypeOK
  <2> QED
    BY <1>7, <2>1, <2>3 DEF DeleteUpdate, TypeOK
<1>8. ASSUME NEW c \in Clients,
             AddQueue(c) \/ DeleteCheck(c) \/ DeleteAnswer(c) \/ LoadUser(c)
      PROVE  TypeOK'
  <2>1. \E pc \in PCs : req' = [req EXCEPT ![c] = [req[c] EXCEPT !.pc = pc]]
    BY <1>8 DEF AddQueue, DeleteCheck, DeleteAnswer, LoadUser, Fail, SetPC, SetReq, PCs
  <2>2. req' \in [Clients -> Requests]
    BY <2>1, PCTyped DEF TypeOK
  <2> QED
    BY <1>8, <2>2 DEF AddQueue, DeleteCheck, DeleteAnswer, LoadUser, TypeOK
<1>9. ASSUME NEW c \in Clients, UserBlobs(c) \/ LoadBlob(c) \/ AllBlobs(c)
      PROVE  TypeOK'
  <2>1. \/ Fail(c)
        \/ \E a \in SUBSET (Blobs \X Forms) : Answer(c, a)
    <3>1. CASE UserBlobs(c)
      <4> DEFINE owned == {b \in Blobs : Live(b) /\ blobs[b].owner = req[c].whose}
                 a == {<<b, Form(b, req[c].user)>> : b \in owned}
      <4>1. a \in SUBSET (Blobs \X Forms)
        BY DEF Form, Forms
      <4>2. Fail(c) \/ Answer(c, a)
        BY <3>1 DEF UserBlobs
      <4> QED
        BY <4>1, <4>2
    <3>2. CASE LoadBlob(c)
      <4>1. CASE Live(req[c].blob)
        <5>1. req[c].blob \in Blobs
          BY <3>2 DEF LoadBlob, At, NamesBlob
        <5> QED
          BY <3>2, <4>1, <5>1 DEF LoadBlob, Forms
      <4>2. CASE ~Live(req[c].blob)
        BY <3>2, <4>2 DEF LoadBlob
      <4> QED
        BY <4>1, <4>2
    <3>3. CASE AllBlobs(c)
      BY <3>3 DEF AllBlobs, Forms
    <3> QED
      BY <1>9, <3>1, <3>2, <3>3
  <2>2. CASE Fail(c)
    <3>1. req' = [req EXCEPT ![c] = [req[c] EXCEPT !.pc = "failed"]] /\ "failed" \in PCs
      BY <2>2 DEF Fail, SetPC, SetReq, PCs
    <3>2. req' \in [Clients -> Requests]
      BY <3>1, PCTyped DEF TypeOK
    <3> QED
      BY <1>9, <3>2 DEF UserBlobs, LoadBlob, AllBlobs, TypeOK
  <2>3. ASSUME NEW a \in SUBSET (Blobs \X Forms), Answer(c, a)
        PROVE  TypeOK'
    <3>1. req' \in [Clients -> Requests]
      BY <2>3, AnswerTyped DEF Answer, SetReq, TypeOK
    <3> QED
      BY <1>9, <3>1 DEF UserBlobs, LoadBlob, AllBlobs, TypeOK
  <2> QED
    BY <2>1, <2>2, <2>3
<1>10. ASSUME NEW b \in Copies, StoreReceivedBlob(b)
       PROVE  TypeOK'
  BY <1>10 DEF StoreReceivedBlob, TypeOK, Copy
<1>11. CASE HandleDelete
  BY <1>11 DEF HandleDelete, TypeOK, Copy, LiveCopy
<1>12. CASE Restart
  BY <1>12, IdleTyped DEF Restart, TypeOK
<1> QED
  BY <1>1, <1>2, <1>3, <1>4, <1>5, <1>6, <1>7, <1>8, <1>9, <1>10, <1>11, <1>12
     DEF Next, RequestStep

-----------------------------------------------------------------------------
(* What a step does to the rows of the blobs, and to a request.              *)

(* A row stays, with its owner, and is not undeleted.                        *)
RowStays(b) ==
  /\ blobs'[b] # NoRow
  /\ blobs'[b].owner = blobs[b].owner
  /\ blobs'[b].sealed = blobs[b].sealed
  /\ blobs'[b].public_key = blobs[b].public_key
  /\ blobs'[b].decrypts = blobs[b].decrypts
  /\ blobs[b].deleted => blobs'[b].deleted

(* A new row is sealed for its owner.                                        *)
RowIsNew(b) ==
  /\ blobs'[b] # NoRow
  /\ ~blobs'[b].deleted
  /\ blobs'[b].sealed = blobs'[b].owner
  /\ blobs'[b].public_key = blobs'[b].owner

LEMMA RowAfter ==
  ASSUME TypeOK, NamesBlob, [Next]_vars, NEW b \in Blobs
  PROVE  /\ blobs[b] # NoRow => RowStays(b)
         /\ blobs[b] = NoRow => blobs'[b] = NoRow \/ RowIsNew(b)
         /\ Live(b) /\ blobs'[b].deleted =>
              \E c \in Clients : DeleteUpdate(c) /\ req[c].blob = b
<1>1. \/ UNCHANGED blobs
      \/ \E c \in Clients : AddBlob(c) \/ DeleteUpdate(c)
  BY DEF Next, vars, RequestStep, Register, Login, DropToken, Ask, Begin, AddQueue,
         DeleteCheck, DeleteAnswer, LoadUser, UserBlobs, LoadBlob, AllBlobs, End,
         StoreReceivedBlob, HandleDelete, Restart
<1>2. CASE UNCHANGED blobs
  BY <1>2 DEF RowStays, Live
<1>3. ASSUME NEW c \in Clients, AddBlob(c), blobs' # blobs
      PROVE  /\ blobs[b] # NoRow => RowStays(b)
             /\ blobs[b] = NoRow => blobs'[b] = NoRow \/ RowIsNew(b)
             /\ ~(Live(b) /\ blobs'[b].deleted)
  <2> DEFINE u == req[c].user
             row(d) == [owner |-> u, sealed |-> u, decrypts |-> d, public_key |-> u,
                        deleted |-> FALSE]
  <2>1. u # NoName
    BY <1>3 DEF AddBlob
  <2>2. PICK x \in Blobs, d \in BOOLEAN :
          blobs[x] = NoRow /\ blobs' = [blobs EXCEPT ![x] = row(d)]
    BY <1>3, <2>1 DEF AddBlob
  <2>3. blobs'[b] = IF b = x THEN row(d) ELSE blobs[b]
    BY <2>2 DEF TypeOK
  <2>4. row(d) # NoRow
    <3>1. row(d).owner # NoRow.owner
      BY <2>1 DEF NoRow
    <3> QED
      BY <3>1
  <2>5. CASE b = x
    BY <2>2, <2>3, <2>4, <2>5 DEF RowIsNew, Live
  <2>6. CASE b # x
    BY <2>2, <2>3, <2>6 DEF RowStays, Live
  <2> QED
    BY <2>5, <2>6
<1>4. ASSUME NEW c \in Clients, DeleteUpdate(c)
      PROVE  /\ blobs[b] # NoRow => RowStays(b)
             /\ blobs[b] = NoRow => blobs'[b] = NoRow
             /\ Live(b) /\ blobs'[b].deleted => req[c].blob = b
  <2> DEFINE x == req[c].blob
  <2>1. x \in Blobs /\ blobs[x] # NoRow
    BY <1>4 DEF DeleteUpdate, At, NamesBlob
  <2>2. blobs'[b] = IF b = x THEN [blobs[x] EXCEPT !.deleted = TRUE] ELSE blobs[b]
    BY <1>4 DEF DeleteUpdate, TypeOK
  <2>3. CASE b = x
    <3>1. blobs[x] \in Row
      BY <2>1 DEF TypeOK
    <3>2. [blobs[x] EXCEPT !.deleted = TRUE] \in Row
      BY <3>1 DEF Row
    <3>3. blobs'[b] # NoRow
      BY <2>2, <2>3, <3>2, NoRowIsNone
    <3> QED
      BY <2>1, <2>2, <2>3, <3>1, <3>3 DEF RowStays, Row
  <2>4. CASE b # x
    BY <2>2, <2>4 DEF RowStays, Live
  <2> QED
    BY <2>3, <2>4
<1> QED
  BY <1>1, <1>2, <1>3, <1>4

LEMMA RequestAfter ==
  ASSUME TypeOK, [Next]_vars, NEW k \in Clients
  PROVE  \/ req'[k] = req[k]
         \/ req'[k] = Idle
         \/ \E r : Asked(r) /\ Begin(k, r)
         \/ DeleteCheck(k)
         \/ /\ At(k, "user_blobs", "loaded")
            /\ UserBlobs(k)
         \/ \E pc \in PCs \ {"begun", "checked"} :
              /\ req[k].op \in {"user_blobs", "blobs"} => pc # "answered"
              /\ req'[k] = [req[k] EXCEPT !.pc = pc]
         \/ /\ req[k].op # "user_blobs"
            /\ req[k].op = "blobs" => AllBlobs(k)
            /\ \E a : req'[k] = [req[k] EXCEPT !.pc = "answered", !.answer = a]
<1> DEFINE Goal == \/ req'[k] = req[k]
                   \/ req'[k] = Idle
                   \/ \E r : Asked(r) /\ Begin(k, r)
                   \/ DeleteCheck(k)
                   \/ /\ At(k, "user_blobs", "loaded")
                      /\ UserBlobs(k)
                   \/ \E pc \in PCs \ {"begun", "checked"} :
                        /\ req[k].op \in {"user_blobs", "blobs"} => pc # "answered"
                        /\ req'[k] = [req[k] EXCEPT !.pc = pc]
                   \/ /\ req[k].op # "user_blobs"
                      /\ req[k].op = "blobs" => AllBlobs(k)
                      /\ \E a : req'[k] = [req[k] EXCEPT !.pc = "answered", !.answer = a]
<1>1. \/ UNCHANGED req
      \/ \E c \in Clients : Ask(c) \/ RequestStep(c) \/ End(c)
      \/ Restart
  BY DEF Next, vars, Register, Login, DropToken, StoreReceivedBlob, HandleDelete
<1>2. CASE UNCHANGED req
  BY <1>2
<1>3. CASE Restart
  BY <1>3 DEF Restart
<1>4. ASSUME NEW c \in Clients, Ask(c) \/ RequestStep(c) \/ End(c)
      PROVE  Goal
  <2>1. CASE c # k
    <3>1. \E x : req' = [req EXCEPT ![c] = x]
      BY <1>4 DEF Ask, Begin, RequestStep, End, AddBlob, AddQueue, DeleteCheck, DeleteUpdate,
                  DeleteAnswer, LoadUser, UserBlobs, LoadBlob, AllBlobs, Answer, Fail, SetPC,
                  SetReq
    <3> QED
      BY <2>1, <3>1 DEF TypeOK
  <2>2. CASE c = k
    <3>1. CASE Ask(c)
      BY <2>2, <3>1, AskBegins
    <3>2. CASE End(c)
      BY <2>2, <3>2 DEF End, SetReq, TypeOK
    <3>3. CASE AddBlob(c)
      <4>1. \E pc \in {"failed", "queue"} : req' = [req EXCEPT ![c] = [req[c] EXCEPT !.pc = pc]]
        BY <3>3 DEF AddBlob, Fail, SetPC, SetReq
      <4> QED
        BY <2>2, <4>1 DEF TypeOK, PCs
    <3>4. CASE AddQueue(c) \/ DeleteAnswer(c) \/ DeleteUpdate(c)
      <4>1. \E pc \in {"answered", "queue", "failed"} :
               req' = [req EXCEPT ![c] = [req[c] EXCEPT !.pc = pc]]
        BY <3>4 DEF AddQueue, DeleteAnswer, DeleteUpdate, SetPC, SetReq
      <4>2. req[c].op \notin {"user_blobs", "blobs"}
        BY <3>4 DEF AddQueue, DeleteAnswer, DeleteUpdate, At
      <4> QED
        BY <2>2, <4>1, <4>2 DEF TypeOK, PCs
    <3>5. CASE DeleteCheck(c)
      BY <2>2, <3>5
    <3>6. CASE LoadUser(c)
      <4>1. \E pc \in {"loaded", "failed"} :
               req' = [req EXCEPT ![c] = [req[c] EXCEPT !.pc = pc]]
        BY <3>6 DEF LoadUser, Fail, SetPC, SetReq
      <4> QED
        BY <2>2, <4>1 DEF TypeOK, PCs
    <3>7. CASE UserBlobs(c)
      BY <2>2, <3>7 DEF UserBlobs
    <3>8. CASE LoadBlob(c) \/ AllBlobs(c)
      <4>1. Fail(c) \/ \E a : Answer(c, a)
        BY <3>8 DEF LoadBlob, AllBlobs
      <4>2. req[c].op # "user_blobs" /\ (req[c].op = "blobs" => AllBlobs(c))
        BY <3>8 DEF LoadBlob, AllBlobs, At
      <4>3. CASE Fail(c)
        BY <2>2, <4>3 DEF Fail, SetPC, SetReq, TypeOK, PCs
      <4>4. CASE \E a : Answer(c, a)
        BY <2>2, <4>2, <4>4 DEF Answer, SetReq, TypeOK
      <4> QED
        BY <4>1, <4>3, <4>4
    <3> QED
      BY <1>4, <3>1, <3>2, <3>3, <3>4, <3>5, <3>6, <3>7, <3>8 DEF RequestStep
  <2> QED
    BY <2>1, <2>2
<1> QED
  BY <1>1, <1>2, <1>3, <1>4

-----------------------------------------------------------------------------
(* Accounts.                                                                 *)

LEMMA TokensKept ==
  ASSUME TypeOK, TokenMatchesPassword, GivenForPassword, [Next]_vars
  PROVE  TokenMatchesPassword' /\ GivenForPassword'
<1>1. \/ UNCHANGED <<users, token, given>>
      \/ \E c \in Clients :
           \/ \E n \in Names, p \in Passwords : Register(c, n, p) \/ Login(c, n, p)
           \/ DropToken(c)
  BY DEF Next, vars, RequestStep, Ask, Begin, AddBlob, AddQueue, DeleteCheck, DeleteUpdate,
         DeleteAnswer, LoadUser, UserBlobs, LoadBlob, AllBlobs, End, StoreReceivedBlob,
         HandleDelete, Restart
<1>2. CASE UNCHANGED <<users, token, given>>
  BY <1>2 DEF TokenMatchesPassword, GivenForPassword
<1>3. ASSUME NEW c \in Clients, DropToken(c)
      PROVE  TokenMatchesPassword' /\ GivenForPassword'
  BY <1>3 DEF DropToken, TokenMatchesPassword, GivenForPassword, TypeOK
<1>4. ASSUME NEW c \in Clients, NEW n \in Names, NEW p \in Passwords, Login(c, n, p)
      PROVE  TokenMatchesPassword' /\ GivenForPassword'
  BY <1>4 DEF Login, IssueToken, TokenMatchesPassword, GivenForPassword, TypeOK
<1>5. ASSUME NEW c \in Clients, NEW n \in Names, NEW p \in Passwords, Register(c, n, p)
      PROVE  TokenMatchesPassword' /\ GivenForPassword'
  <2> SUFFICES ASSUME NEW k \in Clients, token'[k] # NoName
               PROVE  users'[token'[k]] = given'[k] /\ given'[k] \in Passwords
    BY DEF TokenMatchesPassword, GivenForPassword
  <2>1. CASE k = c
    BY <1>5, <2>1 DEF Register, IssueToken, TypeOK
  <2>2. CASE k # c
    <3>1. token'[k] = token[k] /\ given'[k] = given[k]
      BY <1>5, <2>2 DEF Register, IssueToken, TypeOK
    <3>2. users[token[k]] = given[k] /\ token[k] \in Names /\ given[k] \in Passwords
      BY <3>1 DEF TokenMatchesPassword, GivenForPassword, TypeOK
    <3>3. token[k] # n
      BY <1>5, <3>2, UserApiAssumption DEF Register
    <3> QED
      BY <1>5, <3>1, <3>2, <3>3 DEF Register, TypeOK
  <2> QED
    BY <2>1, <2>2
<1> QED
  BY <1>1, <1>2, <1>3, <1>4, <1>5

-----------------------------------------------------------------------------
(* Blobs.                                                                    *)

LEMMA SealedKept ==
  ASSUME TypeOK, NamesBlob, SealedForOwner, [Next]_vars
  PROVE  SealedForOwner'
BY RowAfter DEF SealedForOwner, RowStays, RowIsNew

LEMMA AskedStay == ASSUME [Next]_vars PROVE asked \subseteq asked'
BY DEF Next, vars, RequestStep, Register, Login, DropToken, Ask, Begin, AddBlob, AddQueue,
       DeleteCheck, DeleteUpdate, DeleteAnswer, LoadUser, UserBlobs, LoadBlob, AllBlobs, End,
       StoreReceivedBlob, HandleDelete, Restart

LEMMA NamesKept ==
  ASSUME TypeOK, NamesBlob, SeenIsThere, [Next]_vars
  PROVE  NamesBlob' /\ SeenIsThere'
<1> SUFFICES ASSUME NEW k \in Clients
             PROVE  /\ req'[k].op \in {"delete_blob", "blob"} =>
                         req'[k].blob \in Blobs /\ blobs'[req'[k].blob] # NoRow
                    /\ \A b \in req'[k].seen : blobs'[b] # NoRow
  BY DEF NamesBlob, SeenIsThere
<1>0. \A b \in Blobs : blobs[b] # NoRow => blobs'[b] # NoRow
  BY RowAfter DEF RowStays
<1>1. req[k] \in Requests /\ req[k].seen \subseteq Blobs
  BY DEF TypeOK, Requests
<1>2. CASE /\ req'[k].op = req[k].op
           /\ req'[k].blob = req[k].blob
           /\ req'[k].seen = req[k].seen
  BY <1>0, <1>1, <1>2 DEF NamesBlob, SeenIsThere
<1>3. CASE req'[k] = Idle
  BY <1>3 DEF Idle
<1>4. ASSUME NEW r, Asked(r), Begin(k, r)
      PROVE  /\ req'[k].op \in {"delete_blob", "blob"} =>
                  req'[k].blob \in Blobs /\ blobs'[req'[k].blob] # NoRow
             /\ \A b \in req'[k].seen : blobs'[b] # NoRow
  <2>1. /\ r \in Requests
        /\ r.op \in {"delete_blob", "blob"} => r.blob \in Blobs /\ blobs[r.blob] # NoRow
        /\ r.seen \subseteq Seen
    BY <1>4, AskedTyped
  <2>2. req'[k] = [r EXCEPT !.pc = "begun", !.user = token[k]]
    BY <1>4 DEF Begin, SetReq, TypeOK
  <2>3. req'[k].op = r.op /\ req'[k].blob = r.blob /\ req'[k].seen = r.seen
    BY <2>1, <2>2 DEF Requests
  <2>4. \A b \in r.seen : b \in Blobs /\ blobs[b] # NoRow
    BY <2>1 DEF Seen, Live
  <2> QED
    BY <1>0, <2>1, <2>3, <2>4
<1>5. CASE DeleteCheck(k)
  <2>1. \/ req'[k] = [req[k] EXCEPT !.pc = "failed"]
        \/ req'[k] = [req[k] EXCEPT !.pc = "checked"]
    BY <1>5 DEF DeleteCheck, Fail, SetPC, SetReq, TypeOK
  <2> QED
    BY <1>1, <1>2, <2>1 DEF Requests
<1>6. CASE UserBlobs(k)
  <2>1. \/ req'[k] = [req[k] EXCEPT !.pc = "failed"]
        \/ \E a : req'[k] = [req[k] EXCEPT !.pc = "answered", !.answer = a]
    BY <1>6 DEF UserBlobs, Answer, Fail, SetPC, SetReq, TypeOK
  <2> QED
    BY <1>1, <1>2, <2>1 DEF Requests
<1>7. CASE \/ \E pc \in PCs : req'[k] = [req[k] EXCEPT !.pc = pc]
           \/ \E a : req'[k] = [req[k] EXCEPT !.pc = "answered", !.answer = a]
  BY <1>1, <1>2, <1>7 DEF Requests
<1> QED
  BY <1>2, <1>3, <1>4, <1>5, <1>6, <1>7, RequestAfter

LEMMA DeletionKept ==
  ASSUME TypeOK, NamesBlob, DeletionAsked, [Next]_vars
  PROVE  DeletionAsked'
<1> DEFINE Good(k) ==
      req'[k].op = "delete_blob" /\ req'[k].pc \in {"begun", "checked"} =>
        /\ req'[k].user = blobs'[req'[k].blob].owner => req'[k].blob \in asked'
        /\ req'[k].pc = "checked" => req'[k].user = blobs'[req'[k].blob].owner
<1> SUFFICES ASSUME NEW k \in Clients PROVE Good(k)
  BY DEF DeletionAsked
<1>0. /\ asked \subseteq asked'
      /\ \A b \in Blobs : blobs[b] # NoRow => blobs'[b].owner = blobs[b].owner
  BY AskedStay, RowAfter DEF RowStays
<1>1. req[k] \in Requests
  BY DEF TypeOK
<1>2. CASE req'[k] = req[k]
  BY <1>0, <1>2 DEF NamesBlob, DeletionAsked
<1>3. CASE req'[k] = Idle
  BY <1>3 DEF Idle
<1>4. ASSUME NEW r, Asked(r), Begin(k, r)
      PROVE  Good(k)
  <2>1. /\ r \in Requests
        /\ r.op = "delete_blob" => r.blob \in Blobs /\ blobs[r.blob] # NoRow
    BY <1>4, AskedTyped
  <2>2. req'[k] = [r EXCEPT !.pc = "begun", !.user = token[k]]
    BY <1>4 DEF Begin, SetReq, TypeOK
  <2>3. /\ req'[k].op = r.op /\ req'[k].blob = r.blob
        /\ req'[k].pc = "begun" /\ req'[k].user = token[k]
    BY <2>1, <2>2 DEF Requests
  <2>4. r.op = "delete_blob" /\ blobs[r.blob].owner = token[k] => r.blob \in asked'
    BY <1>4 DEF Begin
  <2> QED
    BY <1>0, <2>1, <2>3, <2>4
<1>5. CASE DeleteCheck(k)
  <2>1. \/ req'[k] = [req[k] EXCEPT !.pc = "failed"]
        \/ /\ req'[k] = [req[k] EXCEPT !.pc = "checked"]
           /\ blobs[req[k].blob].owner = req[k].user
    BY <1>5 DEF DeleteCheck, Fail, SetPC, SetReq, TypeOK
  <2>2. req[k].op = "delete_blob" /\ req[k].pc = "begun"
    BY <1>5 DEF DeleteCheck, At
  <2>3. req[k].blob \in Blobs /\ blobs[req[k].blob] # NoRow
    BY <2>2 DEF NamesBlob
  <2>4. req[k].user = blobs[req[k].blob].owner => req[k].blob \in asked
    BY <2>2 DEF DeletionAsked
  <2>5. CASE req'[k] = [req[k] EXCEPT !.pc = "failed"]
    BY <1>1, <2>5 DEF Requests
  <2>6. CASE /\ req'[k] = [req[k] EXCEPT !.pc = "checked"]
             /\ blobs[req[k].blob].owner = req[k].user
    <3>1. req'[k].blob = req[k].blob /\ req'[k].user = req[k].user
      BY <1>1, <2>6 DEF Requests
    <3> QED
      BY <1>0, <2>3, <2>4, <2>6, <3>1
  <2> QED
    BY <2>1, <2>5, <2>6
<1>6. CASE At(k, "user_blobs", "loaded") /\ UserBlobs(k)
  <2>1. \/ req'[k] = [req[k] EXCEPT !.pc = "failed"]
        \/ \E a : req'[k] = [req[k] EXCEPT !.pc = "answered", !.answer = a]
    BY <1>6 DEF UserBlobs, Answer, Fail, SetPC, SetReq, TypeOK
  <2> QED
    BY <1>1, <2>1 DEF Requests
<1>7. CASE \/ \E pc \in PCs \ {"begun", "checked"} : req'[k] = [req[k] EXCEPT !.pc = pc]
           \/ \E a : req'[k] = [req[k] EXCEPT !.pc = "answered", !.answer = a]
  BY <1>1, <1>7 DEF Requests
<1> QED
  BY <1>2, <1>3, <1>4, <1>5, <1>6, <1>7, RequestAfter

LEMMA DeletesKept ==
  ASSUME TypeOK, NamesBlob, DeletionAsked, OnlyOwnerDeletes, [Next]_vars
  PROVE  OnlyOwnerDeletes'
<1> SUFFICES ASSUME NEW b \in Blobs, blobs'[b] # NoRow, blobs'[b].deleted
             PROVE  b \in asked'
  BY DEF OnlyOwnerDeletes, Live
<1>1. CASE blobs[b] = NoRow
  BY <1>1, RowAfter DEF RowIsNew
<1>2. CASE blobs[b] # NoRow /\ ~Live(b)
  BY <1>2, AskedStay DEF OnlyOwnerDeletes
<1>3. CASE Live(b)
  <2>1. PICK c \in Clients : DeleteUpdate(c) /\ req[c].blob = b
    BY <1>3, RowAfter
  <2>2. b \in asked
    BY <2>1 DEF DeleteUpdate, At, DeletionAsked
  <2> QED
    BY <2>2, AskedStay
<1> QED
  BY <1>1, <1>2, <1>3

(* The list that UserBlobs answers with.                                     *)
LEMMA ListAnswered ==
  ASSUME TypeOK, SealedForOwner, NEW k \in Clients, UserBlobs(k),
         req'[k].pc = "answered", req[k].whose = req[k].user
  PROVE  /\ req'[k].answer = {b \in Blobs : Live(b) /\ blobs[b].owner = req[k].user} \X {"text"}
         /\ req'[k].user = req[k].user
         /\ UNCHANGED blobs
<1> DEFINE u == req[k].user
           owned == {b \in Blobs : Live(b) /\ blobs[b].owner = req[k].whose}
           a == {<<b, Form(b, u)>> : b \in owned}
<1>1. req[k] \in Requests
  BY DEF TypeOK
<1>2. \/ req'[k] = [req[k] EXCEPT !.pc = "failed"]
      \/ req'[k] = [req[k] EXCEPT !.pc = "answered", !.answer = a]
  BY DEF UserBlobs, Answer, Fail, SetPC, SetReq, TypeOK
<1>3. req'[k] = [req[k] EXCEPT !.pc = "answered", !.answer = a]
  BY <1>1, <1>2 DEF Requests
<1>4. req'[k].answer = a /\ req'[k].user = req[k].user
  BY <1>1, <1>3 DEF Requests
<1>5. \A b \in owned : Form(b, u) = "text"
  BY DEF Form, SealedForOwner, Live
<1>6. a = owned \X {"text"}
  BY <1>5
<1> QED
  BY <1>4, <1>6 DEF UserBlobs

LEMMA ReadsKept ==
  ASSUME TypeOK, NamesBlob, SealedForOwner, SeenIsThere, ReadsBack, [Next]_vars
  PROVE  ReadsBack'
<1> DEFINE own(u) == {b \in Blobs : blobs[b] # NoRow /\ blobs[b].owner = u}
           own1(u) == {b \in Blobs : blobs'[b] # NoRow /\ blobs'[b].owner = u}
<1> SUFFICES ASSUME NEW k \in Clients, req'[k].op = "user_blobs", req'[k].pc = "answered",
                    req'[k].whose = req'[k].user
             PROVE  /\ req'[k].answer \subseteq own1(req'[k].user) \X {"text"}
                    /\ \A b \in own1(req'[k].user) \cap req'[k].seen :
                         ~blobs'[b].deleted => <<b, "text">> \in req'[k].answer
  BY DEF ReadsBack, At, Live
<1>1. req[k] \in Requests
  BY DEF TypeOK
<1>2. CASE req'[k] = req[k]
  <2> DEFINE u == req[k].user
  <2>1. /\ req[k].answer \subseteq own(u) \X {"text"}
        /\ \A b \in own(u) \cap req[k].seen : Live(b) => <<b, "text">> \in req[k].answer
    BY <1>2 DEF ReadsBack, At
  <2>2. own(u) \subseteq own1(u)
    BY RowAfter DEF RowStays
  <2>3. ASSUME NEW b \in own1(u) \cap req[k].seen, ~blobs'[b].deleted
        PROVE  b \in own(u) /\ Live(b)
    <3>1. blobs[b] # NoRow
      BY DEF SeenIsThere
    <3>2. RowStays(b)
      BY <3>1, RowAfter
    <3> QED
      BY <2>3, <3>1, <3>2 DEF RowStays, Live
  <2> QED
    BY <1>2, <2>1, <2>2, <2>3
<1>3. CASE req'[k] = Idle
  BY <1>3 DEF Idle
<1>4. ASSUME NEW r, Asked(r), Begin(k, r)
      PROVE  FALSE
  <2>1. r \in Requests
    BY <1>4, AskedTyped
  <2>2. req'[k] = [r EXCEPT !.pc = "begun", !.user = token[k]]
    BY <1>4 DEF Begin, SetReq, TypeOK
  <2> QED
    BY <2>1, <2>2 DEF Requests
<1>5. CASE DeleteCheck(k)
  <2>1. \/ req'[k] = [req[k] EXCEPT !.pc = "failed"]
        \/ req'[k] = [req[k] EXCEPT !.pc = "checked"]
    BY <1>5 DEF DeleteCheck, Fail, SetPC, SetReq, TypeOK
  <2> QED
    BY <1>1, <2>1 DEF Requests
<1>6. CASE At(k, "user_blobs", "loaded") /\ UserBlobs(k)
  <2>1. req'[k].whose = req[k].whose /\ req'[k].user = req[k].user
    <3>1. \/ req'[k] = [req[k] EXCEPT !.pc = "failed"]
          \/ \E a : req'[k] = [req[k] EXCEPT !.pc = "answered", !.answer = a]
      BY <1>6 DEF UserBlobs, Answer, Fail, SetPC, SetReq, TypeOK
    <3> QED
      BY <1>1, <3>1 DEF Requests
  <2>2. /\ req'[k].answer = {b \in Blobs : Live(b) /\ blobs[b].owner = req[k].user} \X {"text"}
        /\ UNCHANGED blobs
    BY <1>6, <2>1, ListAnswered
  <2> QED
    BY <2>1, <2>2 DEF Live
<1>7. CASE \/ \E pc \in PCs \ {"begun", "checked"} :
                /\ req[k].op \in {"user_blobs", "blobs"} => pc # "answered"
                /\ req'[k] = [req[k] EXCEPT !.pc = pc]
           \/ /\ req[k].op # "user_blobs"
              /\ req[k].op = "blobs" => AllBlobs(k)
              /\ \E a : req'[k] = [req[k] EXCEPT !.pc = "answered", !.answer = a]
  BY <1>1, <1>7 DEF Requests
<1> QED
  BY <1>2, <1>3, <1>4, <1>5, <1>6, <1>7, RequestAfter

(* A list of all blobs is made of one statement, and nothing is revived.    *)
LEMMA ListsKept ==
  ASSUME TypeOK, NamesBlob, SeenIsThere, ListTellsAll, [Next]_vars
  PROVE  ListTellsAll'
<1> SUFFICES ASSUME NEW k \in Clients, req'[k].op = "blobs", req'[k].pc = "answered",
                    NEW b \in req'[k].seen, Live(b)'
             PROVE  <<b, "base64">> \in req'[k].answer
  BY DEF ListTellsAll, At
<1>1. req[k] \in Requests
  BY DEF TypeOK
<1>2. CASE req'[k] = req[k]
  <2>1. b \in req[k].seen /\ b \in Blobs
    BY <1>1, <1>2 DEF Requests
  <2>2. blobs[b] # NoRow
    BY <2>1 DEF SeenIsThere
  <2>3. RowStays(b)
    BY <2>1, <2>2, RowAfter
  <2>4. Live(b)
    BY <2>2, <2>3 DEF RowStays, Live
  <2> QED
    BY <1>2, <2>1, <2>4 DEF ListTellsAll, At
<1>3. CASE req'[k] = Idle
  BY <1>3 DEF Idle
<1>4. ASSUME NEW r, Asked(r), Begin(k, r)
      PROVE  FALSE
  <2>1. r \in Requests
    BY <1>4, AskedTyped
  <2>2. req'[k] = [r EXCEPT !.pc = "begun", !.user = token[k]]
    BY <1>4 DEF Begin, SetReq, TypeOK
  <2> QED
    BY <2>1, <2>2 DEF Requests
<1>5. CASE DeleteCheck(k) \/ UserBlobs(k)
  <2>1. /\ req[k].op # "blobs"
        /\ \/ \E pc : req'[k] = [req[k] EXCEPT !.pc = pc]
           \/ \E a : req'[k] = [req[k] EXCEPT !.pc = "answered", !.answer = a]
    BY <1>5 DEF DeleteCheck, UserBlobs, At, Answer, Fail, SetPC, SetReq, TypeOK
  <2> QED
    BY <1>1, <2>1 DEF Requests
<1>6. CASE AllBlobs(k)
  <2> DEFINE a == {x \in Blobs : Live(x)} \X {"base64"}
  <2>1. \/ req'[k] = [req[k] EXCEPT !.pc = "failed"]
        \/ req'[k] = [req[k] EXCEPT !.pc = "answered", !.answer = a]
    BY <1>6 DEF AllBlobs, Answer, Fail, SetPC, SetReq, TypeOK
  <2>2. req'[k].answer = a /\ b \in Blobs
    BY <1>1, <2>1 DEF Requests
  <2>3. UNCHANGED blobs
    BY <1>6 DEF AllBlobs
  <2> QED
    BY <2>2, <2>3 DEF Live
<1>7. CASE \/ \E pc \in PCs \ {"begun", "checked"} :
                /\ req[k].op \in {"user_blobs", "blobs"} => pc # "answered"
                /\ req'[k] = [req[k] EXCEPT !.pc = pc]
           \/ /\ req[k].op # "user_blobs" /\ req[k].op # "blobs"
              /\ \E a : req'[k] = [req[k] EXCEPT !.pc = "answered", !.answer = a]
  BY <1>1, <1>7 DEF Requests
<1> QED
  BY <1>2, <1>3, <1>4, <1>5, <1>6, <1>7, RequestAfter

-----------------------------------------------------------------------------
(* The invariant, and what follows from it.                                  *)

LEMMA Start == Init => IInv
<1> SUFFICES ASSUME Init PROVE IInv
  OBVIOUS
<1>1. \A c \in Clients : req[c] = Idle /\ token[c] = NoName
  BY DEF Init
<1>2. \A b \in Blobs : blobs[b] = NoRow
  BY DEF Init
<1>3. TypeOK
  BY IdleTyped DEF Init, TypeOK
<1>4. TokenMatchesPassword /\ GivenForPassword /\ OnlyOwnerDeletes /\ SealedForOwner
  BY <1>1, <1>2 DEF TokenMatchesPassword, GivenForPassword, OnlyOwnerDeletes, SealedForOwner
<1>5. NamesBlob /\ DeletionAsked /\ SeenIsThere /\ ReadsBack /\ ListTellsAll
  BY <1>1 DEF NamesBlob, DeletionAsked, SeenIsThere, ReadsBack, ListTellsAll, At, Idle
<1> QED
  BY <1>3, <1>4, <1>5 DEF IInv

LEMMA Step == IInv /\ [Next]_vars => IInv'
BY TypesKept, TokensKept, SealedKept, NamesKept, DeletionKept, DeletesKept, ReadsKept, ListsKept
DEF IInv

(* The invariant holds.                                                      *)
THEOREM Inductive == Spec => []IInv
BY Start, Step, PTL DEF Spec

(* Every variable keeps its type.                                            *)
THEOREM TypeCorrect == Spec => []TypeOK
<1>1. IInv => TypeOK
  BY DEF IInv
<1> QED
  BY <1>1, Inductive, PTL

(* No registration or login, on however many connections, gives the token of *)
(* a user to someone without the password his account was made with          *)
(* (user_api/mod.rs, register and login).                                    *)
THEOREM TokensMatchPasswords == Spec => []TokenMatchesPassword
<1>1. IInv => TokenMatchesPassword
  BY DEF IInv
<1> QED
  BY <1>1, Inductive, PTL

(* A blob added here is deleted only after its owner asked for it: delete_blob*)
(* checks and updates in two statements, and handle_delete finds no such row.*)
THEOREM OwnersDelete == Spec => []OnlyOwnerDeletes
<1>1. IInv => OnlyOwnerDeletes
  BY DEF IInv
<1> QED
  BY <1>1, Inductive, PTL

(* The list of his own blobs tells a user each of them in clear, and nothing *)
(* else (user_api/types.rs, blobs of a user).                                *)
THEOREM OwnersRead == Spec => []ReadsBack
<1>1. IInv => ReadsBack
  BY DEF IInv
<1> QED
  BY <1>1, Inductive, PTL

(* The list of all blobs, when it is answered, has every one that was there  *)
(* when it was asked for and still is (user_api/mod.rs, query blobs).        *)
THEOREM ListsAreWhole == Spec => []ListTellsAll
<1>1. IInv => ListTellsAll
  BY DEF IInv
<1> QED
  BY <1>1, Inductive, PTL
=============================================================================
