------------------------------- MODULE UserApi -------------------------------
(***************************************************************************)
(* What the users of one node see (user_api/, startup.rs): accounts and    *)
(* tokens, the mutations and queries of a user who may have several        *)
(* requests under way, one SQL statement at a time, while copies of other  *)
(* nodes' blobs are verified and stored in the same table (sync.rs) and    *)
(* deleted there by peers (server.rs).                                     *)
(*                                                                         *)
(* As in Replication, a blob added here has a row under a uuid key, a copy *)
(* one under a text key, and a query that asks for a Uuid sees the former. *)
(* A copy of a blob added here never comes back (Replication!NoResurrection*)
(* ), so the two kinds of rows are kept apart.  The fetch queue and        *)
(* sync_status are Replication's.                                          *)
(***************************************************************************)
EXTENDS Naturals, FiniteSets

CONSTANTS
  Clients,    \* connections, each with one request at a time and one token
  Names,      \* usernames; a user's id and private key are named after it
  Passwords,
  Blobs,      \* ids of the blobs added at this node
  Copies,     \* ids of blobs added elsewhere
  NoName,     \* not a username
  NoPassword, \* not a password
  NoBlob      \* not a blob

ASSUME UserApiAssumption ==
  /\ NoName \notin Names
  /\ NoPassword \notin Passwords
  /\ NoBlob \notin Blobs

VARIABLES
  users,   \* users[n]: the password of the row of n, table users
  token,   \* token[c]: the user whose token c presents
  blobs,   \* blobs[b]: the row of b under its uuid key
  copies,  \* copies[b]: the row of b under its text key
  req,     \* req[c]: the request of c
  given,   \* history: given[c]: the password that got c its token
  asked    \* history: the blobs whose owner has asked to delete them

vars == <<users, token, blobs, copies, req, given, asked>>

(* The text is sealed with a key, and decrypts with it unless it has a     *)
(* chunk of nothing but NULs (Decrypt!DecryptChunk); NULs at its end are   *)
(* lost on the way, and what is left is taken for the text.                *)
Row == [owner : Names, sealed : Names, decrypts : BOOLEAN, public_key : Names,
        deleted : BOOLEAN]
NoRow == [owner |-> NoName]

(* The hash of a copy is the expected one, or not.                         *)
Copy == [content : {"intact", "damaged"}, hash : {"expected", "other"},
         deleted : BOOLEAN]
NoCopy == [content |-> "none"]

Ops == {"none", "add_blob", "delete_blob", "user_blobs", "blob", "blobs"}
PCs == {"idle", "begun", "checked", "updated", "queue", "loaded", "answered", "failed"}
Forms == {"text", "garbage", "base64"}

(* A request with the user_api Context it runs in.                         *)
Requests ==
  [op : Ops, pc : PCs, user : Names \cup {NoName}, whose : Names \cup {NoName},
   blob : Blobs \cup {NoBlob}, seen : SUBSET Blobs, answer : SUBSET (Blobs \X Forms)]
Idle ==
  [op |-> "none", pc |-> "idle", user |-> NoName, whose |-> NoName,
   blob |-> NoBlob, seen |-> {}, answer |-> {}]

TypeOK ==
  /\ users \in [Names -> Passwords \cup {NoPassword}]
  /\ token \in [Clients -> Names \cup {NoName}]
  /\ blobs \in [Blobs -> Row \cup {NoRow}]
  /\ copies \in [Copies -> Copy \cup {NoCopy}]
  /\ req \in [Clients -> Requests]
  /\ given \in [Clients -> Passwords \cup {NoPassword}]
  /\ asked \in SUBSET Blobs

Live(b) == blobs[b] # NoRow /\ ~blobs[b].deleted
LiveCopy(b) == copies[b] # NoCopy /\ ~copies[b].deleted

Init ==
  /\ users = [n \in Names |-> NoPassword]
  /\ token = [c \in Clients |-> NoName]
  /\ blobs = [b \in Blobs |-> NoRow]
  /\ copies = [b \in Copies |-> NoCopy]
  /\ req = [c \in Clients |-> Idle]
  /\ given = [c \in Clients |-> NoPassword]
  /\ asked = {}

-----------------------------------------------------------------------------
(* Accounts.  Each mutation has one statement.                             *)

(* The token of n, for the next seven days.                                *)
IssueToken(c, n, p) ==
  /\ token' = [token EXCEPT ![c] = n]
  /\ given' = [given EXCEPT ![c] = p]

(* A slip of register: INSERT OR REPLACE.                                  *)
Register_Replaces(c, n, p) ==
  /\ req[c].pc = "idle"
  /\ users' = [users EXCEPT ![n] = p]
  /\ IssueToken(c, n, p)
  /\ UNCHANGED <<blobs, copies, req, asked>>

(* The INSERT fails when the name is taken, and so does the mutation.      *)
Register(c, n, p) ==
  /\ req[c].pc = "idle"
  /\ users[n] = NoPassword
  /\ users' = [users EXCEPT ![n] = p]
  /\ IssueToken(c, n, p)
  /\ UNCHANGED <<blobs, copies, req, asked>>

(* "User not found" or "Invalid password" leave everything as it is.       *)
Login(c, n, p) ==
  /\ req[c].pc = "idle"
  /\ users[n] = p
  /\ IssueToken(c, n, p)
  /\ UNCHANGED <<users, blobs, copies, req, asked>>

(* The token expires, or the user stops sending it.                        *)
DropToken(c) ==
  /\ req[c].pc = "idle"
  /\ token' = [token EXCEPT ![c] = NoName]
  /\ given' = [given EXCEPT ![c] = NoPassword]
  /\ UNCHANGED <<users, blobs, copies, req, asked>>

-----------------------------------------------------------------------------
(* Requests.                                                               *)

SetReq(c, r) == req' = [req EXCEPT ![c] = r]
SetPC(c, pc) == SetReq(c, [req[c] EXCEPT !.pc = pc])
Fail(c)      == SetPC(c, "failed")

(* graphql_handler looks up the user of the token, for the whole request.  *)
Begin(c, r) ==
  /\ req[c].pc = "idle"
  /\ SetReq(c, [r EXCEPT !.pc = "begun", !.user = token[c]])
  /\ asked' = IF r.op = "delete_blob" /\ blobs[r.blob].owner = token[c]
              THEN asked \cup {r.blob} ELSE asked
  /\ UNCHANGED <<users, token, blobs, copies, given>>

(* The blobs that are there when a list is asked for.                      *)
Seen == {b \in Blobs : Live(b)}

(* A user names only blobs he has seen the id of.                          *)
Ask(c) ==
  \/ Begin(c, [Idle EXCEPT !.op = "add_blob"])
  \/ \E b \in Blobs : /\ blobs[b] # NoRow
                     /\ \/ Begin(c, [Idle EXCEPT !.op = "delete_blob", !.blob = b])
                        \/ Begin(c, [Idle EXCEPT !.op = "blob", !.blob = b])
  \/ \E n \in Names : Begin(c, [Idle EXCEPT !.op = "user_blobs", !.whose = n,
                                            !.seen = Seen])
  \/ Begin(c, [Idle EXCEPT !.op = "blobs", !.seen = Seen])

(* The answer is sent.                                                     *)
End(c) ==
  /\ req[c].pc \in {"answered", "failed"}
  /\ SetReq(c, Idle)
  /\ UNCHANGED <<users, token, blobs, copies, given, asked>>

At(c, op, pc) == req[c].op = op /\ req[c].pc = pc

-----------------------------------------------------------------------------
(* Mutations.                                                              *)

(* add_blob: encrypt with the key of the current user, and INSERT under a  *)
(* new id.                                                                 *)
AddBlob(c) ==
  LET u == req[c].user
  IN  /\ At(c, "add_blob", "begun")
      /\ IF u = NoName
         THEN Fail(c) /\ UNCHANGED blobs
         ELSE \E b \in Blobs, decrypts \in BOOLEAN :
                /\ blobs[b] = NoRow
                /\ blobs' = [blobs EXCEPT ![b] =
                     [owner |-> u, sealed |-> u, decrypts |-> decrypts,
                      public_key |-> u, deleted |-> FALSE]]
                /\ SetPC(c, "queue")
      /\ UNCHANGED <<users, token, copies, given, asked>>

(* sync_blob, then the answer.                                             *)
AddQueue(c) ==
  /\ At(c, "add_blob", "queue")
  /\ SetPC(c, "answered")
  /\ UNCHANGED <<users, token, blobs, copies, given, asked>>

(* delete_blob: SELECT, and the two ways to refuse.                        *)
DeleteCheck(c) ==
  LET b == req[c].blob
  IN  /\ At(c, "delete_blob", "begun")
      /\ IF req[c].user # NoName /\ Live(b) /\ blobs[b].owner = req[c].user
         THEN SetPC(c, "checked") ELSE Fail(c)
      /\ UNCHANGED <<users, token, blobs, copies, given, asked>>

DeleteUpdate(c) ==
  /\ At(c, "delete_blob", "checked")
  /\ blobs' = [blobs EXCEPT ![req[c].blob].deleted = TRUE]
  /\ SetPC(c, "queue")
  /\ UNCHANGED <<users, token, copies, given, asked>>

(* sync_blob, then the INSERT, which may fail (Replication!AnswerDelete).  *)
DeleteAnswer(c) ==
  /\ At(c, "delete_blob", "queue")
  /\ \E pc \in {"answered", "failed"} : SetPC(c, pc)
  /\ UNCHANGED <<users, token, blobs, copies, given, asked>>

-----------------------------------------------------------------------------
(* Queries.                                                                *)

Answer(c, a) == SetReq(c, [req[c] EXCEPT !.pc = "answered", !.answer = a])

(* user, through the data loader; me is the current user, without a query. *)
LoadUser(c) ==
  /\ At(c, "user_blobs", "begun")
  /\ IF users[req[c].whose] # NoPassword \/ req[c].whose = req[c].user
     THEN SetPC(c, "loaded") ELSE Fail(c)
  /\ UNCHANGED <<users, token, blobs, copies, given, asked>>

(* A slip of the field blobs of a user: BlobSchema::new, as elsewhere.     *)
Form_Encoded(b, u) == "base64"

(* What the field content of a blob tells user u.                          *)
Form(b, u) ==
  IF blobs[b].public_key # u THEN "base64"
  ELSE IF blobs[b].sealed = u THEN "text" ELSE "garbage"

Opens(b, u) == Form(b, u) # "base64" => blobs[b].decrypts

(* The field blobs of a user: the live rows he owns, for whoever asks, or  *)
(* none if one of them does not decrypt.                                   *)
UserBlobs(c) ==
  LET u     == req[c].user
      owned == {b \in Blobs : Live(b) /\ blobs[b].owner = req[c].whose}
  IN  /\ At(c, "user_blobs", "loaded")
      /\ IF u # NoName /\ \A b \in owned : Opens(b, u)
         THEN Answer(c, {<<b, Form(b, u)>> : b \in owned})
         ELSE Fail(c)
      /\ UNCHANGED <<users, token, blobs, copies, given, asked>>

(* blob, through the data loader.                                          *)
LoadBlob(c) ==
  /\ At(c, "blob", "begun")
  /\ IF Live(req[c].blob) THEN Answer(c, {<<req[c].blob, "base64">>}) ELSE Fail(c)
  /\ UNCHANGED <<users, token, blobs, copies, given, asked>>

(* A slip of the query blobs: rows that cannot be decoded end the list.    *)
AllBlobs_Partial(c) ==
  /\ At(c, "blobs", "begun")
  /\ \E S \in SUBSET {b \in Blobs : Live(b)} :
       /\ S # {b \in Blobs : Live(b)} => \E b \in Copies : LiveCopy(b)
       /\ Answer(c, S \X {"base64"})
  /\ UNCHANGED <<users, token, blobs, copies, given, asked>>

(* blobs: every live row.  A text key is no Uuid, and one that cannot be   *)
(* decoded fails the whole query.                                          *)
AllBlobs(c) ==
  /\ At(c, "blobs", "begun")
  /\ IF \E b \in Copies : LiveCopy(b)
     THEN Fail(c)
     ELSE Answer(c, {b \in Blobs : Live(b)} \X {"base64"})
  /\ UNCHANGED <<users, token, blobs, copies, given, asked>>

-----------------------------------------------------------------------------
(* Peers.                                                                  *)

HashOf(content) == IF content = "intact" THEN "expected" ELSE "other"

(* verify_received_blob: the computed hash or the one the peer states.     *)
Verified(content, hash) == HashOf(content) = "expected" \/ hash = "expected"

(* A slip of store_received_blob: the hash of the message is not kept.     *)
StoreReceivedBlob_NoHash(b) ==
  /\ copies[b] = NoCopy
  /\ copies' = [copies EXCEPT ![b] = [content |-> "intact", hash |-> "none",
                                      deleted |-> FALSE]]
  /\ UNCHANGED <<users, token, blobs, req, given, asked>>

(* fetch_and_store_blob gets a copy from a peer, whose row or whose reply  *)
(* may be damaged, and store_received_blob inserts it.                     *)
StoreReceivedBlob(b) ==
  /\ copies[b] = NoCopy
  /\ \E content \in {"intact", "damaged"}, hash \in {"expected", "other"} :
       /\ Verified(content, hash)
       /\ copies' = [copies EXCEPT ![b] = [content |-> content, hash |-> hash,
                                           deleted |-> FALSE]]
  /\ UNCHANGED <<users, token, blobs, req, given, asked>>

(* A slip of handle_delete: the id is bound as a Uuid.                     *)
HandleDelete_UuidKey ==
  /\ \E b \in Blobs : Live(b) /\ blobs' = [blobs EXCEPT ![b].deleted = TRUE]
  /\ UNCHANGED <<users, token, copies, req, given, asked>>

(* handle_delete finds rows under text keys only.                          *)
HandleDelete ==
  /\ \E b \in Copies : LiveCopy(b) /\ copies' = [copies EXCEPT ![b].deleted = TRUE]
  /\ UNCHANGED <<users, token, blobs, req, given, asked>>

(* The process ends and is started again: requests end where they are,     *)
(* tables and tokens stay.                                                 *)
Restart ==
  /\ req' = [c \in Clients |-> Idle]
  /\ UNCHANGED <<users, token, blobs, copies, given, asked>>

-----------------------------------------------------------------------------

RequestStep(c) ==
  \/ AddBlob(c) \/ AddQueue(c)
  \/ DeleteCheck(c) \/ DeleteUpdate(c) \/ DeleteAnswer(c)
  \/ LoadUser(c) \/ UserBlobs(c) \/ LoadBlob(c) \/ AllBlobs(c)

Next ==
  \/ \E c \in Clients :
       \/ \E n \in Names, p \in Passwords : Register(c, n, p) \/ Login(c, n, p)
       \/ DropToken(c) \/ Ask(c) \/ RequestStep(c) \/ End(c)
  \/ \E b \in Copies : StoreReceivedBlob(b)
  \/ HandleDelete \/ Restart

Spec == Init /\ [][Next]_vars

-----------------------------------------------------------------------------

(* Whoever presents the token of a user has given the password the account *)
(* was registered with, however registrations of one name and logins       *)
(* interleave; an account is never taken over.                             *)
TokenMatchesPassword ==
  \A c \in Clients : token[c] # NoName => users[token[c]] = given[c]

(* A blob added here is deleted only after its owner has asked for it, who *)
(* may by then have lost his token; no other user and no peer deletes it.  *)
OnlyOwnerDeletes ==
  \A b \in Blobs :
    blobs[b] # NoRow /\ ~Live(b) => b \in asked

(* A user who lists his blobs reads every one that was there when he asked *)
(* and still is, in clear, whoever added, deleted or copied what meanwhile;*)
(* and nothing he has not added.                                           *)
ReadsBack ==
  \A c \in Clients :
    At(c, "user_blobs", "answered") /\ req[c].whose = req[c].user =>
      LET own == {b \in Blobs : blobs[b] # NoRow /\ blobs[b].owner = req[c].user}
      IN  /\ req[c].answer \subseteq own \X {"text"}
          /\ \A b \in own \cap req[c].seen : Live(b) => <<b, "text">> \in req[c].answer

(* The list of all blobs is never short of one that was there when it was  *)
(* asked for and still is: the row of a copy, which it cannot decode,      *)
(* makes it fail rather than shorter.                                      *)
ListTellsAll ==
  \A c \in Clients :
    At(c, "blobs", "answered") =>
      \A b \in req[c].seen : Live(b) => <<b, "base64">> \in req[c].answer

-----------------------------------------------------------------------------
(* What the code or its documents say, and the code does not do.           *)

(* Only content whose hash is the one asked for is stored: the column hash *)
(* is "for integrity verification", and on a "hash mismatch" the next peer *)
(* is tried.                                                               *)
StoredIsIntact == \A b \in Copies : LiveCopy(b) => copies[b].content = "intact"
=============================================================================
