----------------------------- MODULE OrandNode -----------------------------
(***************************************************************************)
(* The node around the issuance of epochs: start-up, authentication, the   *)
(* methods of the RPC and the command line, over the tables they share.    *)
(* A task gives up control at its awaits, so one action runs from one      *)
(* await to the next, and begins with the answer of the database.          *)
(***************************************************************************)
EXTENDS Integers, FiniteSets

CONSTANTS
  Nodes, Requests,
  Users, Orand,       \* usernames that check_name admits, ORAND_KEYRING_NAME
  Receivers, Public,  \* (address, network) pairs, those with ZERO_ADDRESS
  NoOne,              \* no user, no secret, no key
  EnvKeys,            \* what SECRET_KEY may be set to, NoOne when it is not
  PageLimit,          \* the limit of number of records
  MaxEpoch,           \* i64::MAX
  MaxNonce,           \* bound on the epochs of a receiver
  Calls               \* the calls that clients make

\* Who draws a secret and a key: a node that starts, a request for a user, the
\* command line for a user.
Makers == Nodes \cup Requests \cup Users
Secrets == Makers \cup {NoOne}
Keys == Makers \cup EnvKeys \cup {NoOne}

Methods == {"getEpoch", "newEpoch", "getPublicKey", "getUser", "addUser",
            "getReceiver", "addReceiver"}

\* JSONRPCMethod with its arguments, decoded, and the user a token names.
Call == [method : Methods, name : Users, rcv : Receivers, epoch : Int, user : Users]

ASSUME NodeAssumption ==
  /\ Orand \in Users
  /\ Public \subseteq Receivers
  /\ NoOne \notin Users \cup Makers
  /\ NoOne \in EnvKeys
  /\ EnvKeys \cap Makers = {}
  /\ Nodes \cap Requests = {} /\ Users \cap (Nodes \cup Requests) = {}
  /\ PageLimit \in Nat \ {0}
  /\ MaxEpoch \in Nat /\ MaxNonce \in 0 .. MaxEpoch
  /\ Calls \subseteq Call /\ Calls # {} /\ Nodes # {}

VARIABLES
  keyring,      \* table: secret and key of a user
  receiver,     \* table: the user who owns a receiver
  nonce,        \* table: the number of epochs of a receiver
  status,       \* of a node: "down", "generate" or "up"
  keypair,      \* the key in the memory of a node
  pc,           \* the await at which the task of a request is suspended
  call, signed, \* the call and the secret its token is signed with
  node,         \* the node that serves it
  answer,
  since         \* history: nonce when the request arrived

tables == <<keyring, receiver, nonce>>
nodeVars == <<status, keypair>>
requestVars == <<pc, call, signed, node, answer, since>>
vars == <<tables, nodeVars, requestVars>>

Awaits == {"user", "name", "insertUser", "receiver", "insertReceiver", "list", "page", "epoch"}

NoRow == [secret |-> NoOne, key |-> NoOne]

Silent == [status |-> "none", secret |-> NoOne, key |-> NoOne, receivers |-> {}, epochs |-> {}]

CliRow(username) == [secret |-> username, key |-> username]

\* KeyringTable::find_by_name finds a record.
Known(username) == keyring[username] # NoRow

\* The database is as earlier nodes and the command line have left it: some
\* users, some receivers of theirs, epochs of these, no epoch without orand's key.
Init ==
  /\ keyring \in {[u \in Users |-> IF u \in S THEN CliRow(u) ELSE NoRow] : S \in SUBSET Users}
  /\ receiver \in [Receivers -> Users \cup {NoOne}]
  /\ \A r \in Receivers : receiver[r] # NoOne => Known(receiver[r])
  /\ nonce \in [Receivers -> 0 .. MaxNonce]
  /\ \A r \in Receivers : nonce[r] > 0 => receiver[r] # NoOne /\ Known(Orand)
  /\ status = [n \in Nodes |-> "down"]
  /\ keypair = [n \in Nodes |-> NoOne]
  /\ pc = [q \in Requests |-> "idle"]
  /\ call = [q \in Requests |-> CHOOSE c \in Calls : TRUE]
  /\ signed = [q \in Requests |-> NoOne]
  /\ node = [q \in Requests |-> CHOOSE n \in Nodes : TRUE]
  /\ answer = [q \in Requests |-> Silent]
  /\ since = [q \in Requests |-> 0]

-----------------------------------------------------------------------------
(***************************************************************************)
(* The tables.                                                             *)
(***************************************************************************)
\* ReceiverTable::find_one finds a record.
Registered(r) == receiver[r] # NoOne

\* ReceiverTable::find_by_username.
ReceiversOf(username) == {r \in Receivers : receiver[r] = username}

\* Mutant of ReceiverRefused: the table has no unique index.
NoReceiverIndex(r) == FALSE

\* index_username, and the unique key of public_key and secret_key.
UserRefused(username, key) == Known(username) \/ \E u \in Users : keyring[u].key = key

\* unique_address_and_network.
ReceiverRefused(r) == Registered(r)

\* Mutant of ClosureEpoch: the page above the epoch.
EpochsAbove(r, epoch) == {e \in 0 .. nonce[r] - 1 : e >= epoch /\ e < epoch + PageLimit}

\* The first PageLimit of the epochs in descending order.
Page(epochs) == {e \in epochs : Cardinality({d \in epochs : d > e}) < PageLimit}

RecentEpoch(r) == Page(0 .. nonce[r] - 1)

ClosureEpoch(r, epoch) == Page({e \in 0 .. nonce[r] - 1 : e <= epoch})

-----------------------------------------------------------------------------
(***************************************************************************)
(* Start-up of node n.                                                     *)
(***************************************************************************)
\* Mutant of Start: the key of the environment comes before the stored one.
StartFromEnv(n) ==
  /\ status[n] = "down"
  /\ \E k \in EnvKeys :
       IF Known(Orand)
         THEN /\ status' = [status EXCEPT ![n] = "up"]
              /\ keypair' = [keypair EXCEPT ![n] = IF k = NoOne THEN keyring[Orand].key ELSE k]
         ELSE /\ status' = [status EXCEPT ![n] = "generate"]
              /\ keypair' = [keypair EXCEPT ![n] = IF k = NoOne THEN n ELSE k]
  /\ UNCHANGED <<tables, requestVars>>

\* The key is read, or one is taken from SECRET_KEY or made.
Start(n) ==
  /\ status[n] = "down"
  /\ IF Known(Orand)
       THEN /\ status' = [status EXCEPT ![n] = "up"]
            /\ keypair' = [keypair EXCEPT ![n] = keyring[Orand].key]
       ELSE /\ status' = [status EXCEPT ![n] = "generate"]
            /\ \E k \in EnvKeys :
                 keypair' = [keypair EXCEPT ![n] = IF k = NoOne THEN n ELSE k]
  /\ UNCHANGED <<tables, requestVars>>

\* The node panics when another was first.
InsertKey(n) ==
  /\ status[n] = "generate"
  /\ IF UserRefused(Orand, keypair[n])
       THEN /\ status' = [status EXCEPT ![n] = "down"]
            /\ keypair' = [keypair EXCEPT ![n] = NoOne]
            /\ UNCHANGED keyring
       ELSE /\ status' = [status EXCEPT ![n] = "up"]
            /\ keyring' = [keyring EXCEPT ![Orand] = [secret |-> n, key |-> keypair[n]]]
            /\ UNCHANGED keypair
  /\ UNCHANGED <<receiver, nonce, requestVars>>

\* A node dies with the tasks of its requests.
Crash(n) ==
  /\ status[n] # "down"
  /\ status' = [status EXCEPT ![n] = "down"]
  /\ keypair' = [keypair EXCEPT ![n] = NoOne]
  /\ pc' = [q \in Requests |-> IF node[q] = n /\ pc[q] \in Awaits THEN "done" ELSE pc[q]]
  /\ UNCHANGED <<tables, call, signed, node, answer, since>>

-----------------------------------------------------------------------------
(***************************************************************************)
(* The handler of request q.                                               *)
(***************************************************************************)
Goto(q, await) == pc' = [pc EXCEPT ![q] = await]

\* QuickResponse.
Respond(q, response) ==
  /\ Goto(q, "done")
  /\ answer' = [answer EXCEPT ![q] = response]

Ok == [Silent EXCEPT !.status = "ok"]
Err == [Silent EXCEPT !.status = "error"]

\* A panic ends the task, and the connection is closed without an answer.  So
\* does a client that is gone, also after the database has executed a statement.
Panic(q) == Goto(q, "done") /\ UNCHANGED answer

\* The body is read and decoded, and the token is taken apart: it names a user
\* and is signed with the secret of whoever made it.
Arrive(q) ==
  /\ pc[q] = "idle"
  /\ \E n \in Nodes, c \in Calls, u \in Users :
       /\ status[n] = "up"
       /\ node' = [node EXCEPT ![q] = n]
       /\ call' = [call EXCEPT ![q] = c]
       /\ signed' = [signed EXCEPT ![q] = keyring[u].secret]
       /\ since' = [since EXCEPT ![q] = nonce[c.rcv]]
  /\ Goto(q, "user")
  /\ UNCHANGED <<tables, nodeVars, answer>>

Refuse(q) ==
  /\ pc[q] = "idle"
  /\ \E n \in Nodes : status[n] = "up" /\ node' = [node EXCEPT ![q] = n]
  /\ UNCHANGED <<tables, nodeVars, call, signed, since>>

\* from_json_string: the body is no JSON or the method is unsupported; or a
\* parameter is missing or malformed, and one of the decoders panics.
BadRequest(q) == Refuse(q) /\ (Respond(q, Err) \/ Panic(q))

\* decode_payload: a token that has not three parts, does not decode, names no
\* username, or is not valid at this time.
BadToken(q) == Refuse(q) /\ Respond(q, Err)

\* JWT::verify.
Verified(q) == signed[q] = keyring[call[q].user].secret

\* Where the method goes on, once the user is known to have signed.
Dispatch(c) ==
  CASE c.method = "getEpoch" -> "receiver"
    [] c.method = "newEpoch" -> "epoch"
    [] c.method = "getReceiver" -> "list"
    [] OTHER -> "name"

\* The methods that only orand may call.
Denied(c) ==
  /\ c.user # Orand
  /\ \/ c.method \in {"addUser", "addReceiver", "getUser"}
     \/ c.method = "newEpoch" /\ c.rcv \in Public

\* Mutant of Authenticate: the token is not verified.
AuthenticateAny(q) ==
  /\ pc[q] = "user"
  /\ IF Known(call[q].user) /\ ~ Denied(call[q])
       THEN Goto(q, Dispatch(call[q])) /\ UNCHANGED answer
       ELSE Respond(q, Err)
  /\ UNCHANGED <<tables, nodeVars, call, signed, node, since>>

\* The user of the token is looked up and its signature verified.
Authenticate(q) ==
  /\ pc[q] = "user"
  /\ IF /\ Known(call[q].user)
        /\ Verified(q)
        /\ ~ Denied(call[q])
       THEN Goto(q, Dispatch(call[q])) /\ UNCHANGED answer
       ELSE Respond(q, Err)
  /\ UNCHANGED <<tables, nodeVars, call, signed, node, since>>

\* The user that the method is about is looked up.
FindName(q) ==
  /\ pc[q] = "name"
  /\ LET c == call[q]
         row == keyring[c.name]
     IN \/ /\ c.method = "getPublicKey"
           /\ Respond(q, [Ok EXCEPT !.key = row.key])
        \/ /\ c.method = "getUser"
           /\ Respond(q, IF Known(c.name) THEN [Ok EXCEPT !.secret = row.secret] ELSE Err)
        \/ /\ c.method = "addUser"
           /\ IF Known(c.name) THEN Respond(q, Err) ELSE Goto(q, "insertUser") /\ UNCHANGED answer
        \/ /\ c.method = "addReceiver"
           /\ IF Known(c.name) THEN Goto(q, "receiver") /\ UNCHANGED answer ELSE Respond(q, Err)
  /\ UNCHANGED <<tables, nodeVars, call, signed, node, since>>

\* Mutant of InsertUser: the row replaces one that was inserted since the check.
InsertUserAnyway(q) ==
  /\ pc[q] = "insertUser"
  /\ keyring' = [keyring EXCEPT ![call[q].name] = [secret |-> q, key |-> q]]
  /\ Respond(q, [Ok EXCEPT !.secret = q]) \/ Panic(q)
  /\ UNCHANGED <<receiver, nonce, nodeVars, call, signed, node, since>>

\* Secret and key are random.
InsertUser(q) ==
  /\ pc[q] = "insertUser"
  /\ IF UserRefused(call[q].name, q)
       THEN Panic(q) /\ UNCHANGED keyring
       ELSE /\ keyring' = [keyring EXCEPT ![call[q].name] = [secret |-> q, key |-> q]]
            /\ Respond(q, [Ok EXCEPT !.secret = q]) \/ Panic(q)
  /\ UNCHANGED <<receiver, nonce, nodeVars, call, signed, node, since>>

\* find_one: what there is is answered, an epoch is looked up in a second query.
FindReceiver(q) ==
  /\ pc[q] = "receiver"
  /\ LET c == call[q]
     IN \/ /\ c.method = "addReceiver"
           /\ IF Registered(c.rcv)
                THEN Respond(q, [Ok EXCEPT !.receivers = {c.rcv}])
                ELSE Goto(q, "insertReceiver") /\ UNCHANGED answer
        \/ /\ c.method = "getEpoch"
           /\ IF Registered(c.rcv)
                THEN Goto(q, "page") /\ UNCHANGED answer
                ELSE Respond(q, Ok)
  /\ UNCHANGED <<tables, nodeVars, call, signed, node, since>>

InsertReceiver(q) ==
  /\ pc[q] = "insertReceiver"
  /\ IF ReceiverRefused(call[q].rcv)
       THEN Respond(q, Err) /\ UNCHANGED receiver
       ELSE /\ receiver' = [receiver EXCEPT ![call[q].rcv] = call[q].name]
            /\ Respond(q, [Ok EXCEPT !.receivers = {call[q].rcv}]) \/ Panic(q)
  /\ UNCHANGED <<keyring, nonce, nodeVars, call, signed, node, since>>

ListReceivers(q) ==
  /\ pc[q] = "list"
  /\ Respond(q, [Ok EXCEPT !.receivers = ReceiversOf(call[q].name)])
  /\ UNCHANGED <<tables, nodeVars, call, signed, node, since>>

\* orand_get_epoch.
GetEpoch(q) ==
  /\ pc[q] = "page"
  /\ LET c == call[q]
     IN Respond(q, [Ok EXCEPT !.epochs = IF c.epoch = MaxEpoch THEN RecentEpoch(c.rcv)
                                         ELSE ClosureEpoch(c.rcv, c.epoch)])
  /\ UNCHANGED <<tables, nodeVars, call, signed, node, since>>

\* orand_new_epoch: what EpochChain promises of safe_insert.
NewEpoch(q) ==
  /\ pc[q] = "epoch"
  /\ LET r == call[q].rcv
     IN IF receiver[r] = call[q].user /\ nonce[r] < MaxNonce
          THEN /\ nonce' = [nonce EXCEPT ![r] = @ + 1]
               /\ Respond(q, [Ok EXCEPT !.epochs = {nonce[r]}]) \/ Panic(q)
          ELSE Respond(q, Err) /\ UNCHANGED nonce
  /\ UNCHANGED <<keyring, receiver, nodeVars, call, signed, node, since>>

\* A query fails or the client is gone: nothing is answered, or an error where
\* the code turns it into one.
DbError(q) ==
  /\ pc[q] \in Awaits
  /\ \/ Panic(q)
     \/ pc[q] \in {"insertReceiver", "page", "epoch"} /\ Respond(q, Err)
  /\ UNCHANGED <<tables, nodeVars, call, signed, node, since>>

Handle(q) ==
  \/ Authenticate(q) \/ FindName(q) \/ InsertUser(q) \/ FindReceiver(q)
  \/ InsertReceiver(q) \/ ListReceivers(q) \/ GetEpoch(q) \/ NewEpoch(q)

-----------------------------------------------------------------------------
\* cli user: an error when the index refuses the row.  cli receiver has no
\* keyring_id in its record and never gets to the table.
CliUser(username) ==
  /\ ~ UserRefused(username, username)
  /\ keyring' = [keyring EXCEPT ![username] = CliRow(username)]
  /\ UNCHANGED <<receiver, nonce, nodeVars, requestVars>>

Next ==
  \/ \E n \in Nodes : Start(n) \/ InsertKey(n) \/ Crash(n)
  \/ \E q \in Requests : Arrive(q) \/ BadRequest(q) \/ BadToken(q) \/ Handle(q) \/ DbError(q)
  \/ \E u \in Users : CliUser(u)

Spec == Init /\ [][Next]_vars

-----------------------------------------------------------------------------

Answered(q, method) == answer[q].status = "ok" /\ call[q].method = method

\* All nodes that serve prove with the one key that is stored for orand, and
\* that key is what orand_getPublicKey has ever answered: nodes that start at
\* the same time on an empty database, with or without SECRET_KEY, and a
\* command line that adds orand before them (main, 404-438).
KeysAgree ==
  /\ \A n \in Nodes : status[n] = "up" => keypair[n] = keyring[Orand].key /\ Known(Orand)
  /\ \A q \in Requests :
       Answered(q, "getPublicKey") /\ answer[q].key # NoOne =>
         answer[q].key = keyring[call[q].name].key

\* A secret that admin_addUser or admin_getUser has handed out is the one that
\* authenticates its user, also when two requests, or a request and the command
\* line, add the same user: of check and insert, only the insert excludes
\* (AdminAddUser, 233-275).
SecretsWork ==
  \A q \in Requests :
    Answered(q, "addUser") \/ Answered(q, "getUser") =>
      Known(call[q].name) /\ answer[q].secret = keyring[call[q].name].secret

\* A receiver stays with its owner, a user, and is there once it was answered,
\* when two requests register it for different users (AdminAddReceiver, 276-332).
ReceiversStay ==
  [][/\ \A r \in Receivers : receiver[r] # NoOne =>
          receiver'[r] = receiver[r] /\ Known(receiver[r])
     /\ \A q \in Requests : Answered(q, "addReceiver") => receiver[call[q].rcv] # NoOne]_vars

\* The epochs 0 to hi that are at most the one asked for, cut to a page.
PageAt(hi, epoch) ==
  LET top == IF epoch < hi THEN epoch ELSE hi
  IN {e \in 0 .. top : e > top - PageLimit}

\* A page is an unbroken run of epochs that ends with the epoch asked for, or
\* with one that was the latest while the request was served: who asks for the
\* epoch below a page next misses none, while epochs are issued
\* (find_recent_epoch, find_closure_epoch, between find_one and the page).
PagesAreUnbroken ==
  \A q \in Requests :
    Answered(q, "getEpoch") =>
      \E hi \in since[q] - 1 .. nonce[call[q].rcv] - 1 :
        answer[q].epochs = PageAt(hi, call[q].epoch)

\* A request is served, and its token is signed with the secret of username.
ServedBy(username) ==
  \E q \in Requests :
    pc[q] \in Awaits /\ pc'[q] = "done" /\ Known(username) /\ signed[q] = keyring[username].secret

\* A request adds receivers, users and epochs of public receivers only with a
\* token that orand signed, and epochs of a receiver only with its owner's
\* (orand, 143-223; AdminAddUser, AdminAddReceiver).
Authorized ==
  [][/\ receiver' # receiver => ServedBy(Orand)
     /\ \A u \in Users : keyring'[u].key \in Requests /\ keyring'[u] # keyring[u] =>
          ServedBy(Orand)
     /\ \A r \in Receivers : nonce'[r] # nonce[r] =>
          ServedBy(receiver[r]) /\ (r \in Public => ServedBy(Orand))]_vars
=============================================================================
