-------------------------- MODULE OrandNodeProofs --------------------------
(***************************************************************************)
(* Theorems about OrandNode for every set of nodes, requests, users and    *)
(* receivers, every page limit and every set of calls.                     *)
(***************************************************************************)
EXTENDS OrandNode, FiniteSetTheorems, TLAPS

Row == [secret : Secrets, key : Keys]
Answers == [status : {"none", "ok", "error"}, secret : Secrets, key : Keys,
            receivers : SUBSET Receivers, epochs : SUBSET Int]

TypeInv ==
  /\ keyring \in [Users -> Row]
  /\ receiver \in [Receivers -> Users \cup {NoOne}]
  /\ nonce \in [Receivers -> 0 .. MaxNonce]
  /\ status \in [Nodes -> {"down", "generate", "up"}]
  /\ keypair \in [Nodes -> Keys]
  /\ pc \in [Requests -> Awaits \cup {"idle", "done"}]
  /\ call \in [Requests -> Call]
  /\ signed \in [Requests -> Secrets]
  /\ answer \in [Requests -> Answers]
  /\ since \in [Requests -> Nat]

\* A row has a secret and a key.
FullRows ==
  \A u \in Users : Known(u) => keyring[u].secret # NoOne /\ keyring[u].key # NoOne

\* The foreign key of receiver, and that only registered receivers have epochs.
Owned ==
  \A r \in Receivers : /\ Registered(r) => Known(receiver[r])
                       /\ ~ Registered(r) => nonce[r] = 0

\* A node that found no key is about to insert one that no request has drawn.
Generated ==
  \A n \in Nodes : status[n] = "generate" => keypair[n] \in Nodes \cup (EnvKeys \ {NoOne})

Serving ==
  \A n \in Nodes : status[n] = "up" => keypair[n] = keyring[Orand].key /\ Known(Orand)

\* Beyond the first await, the token of a request is known to be good and its
\* method to be allowed; and this stays so at every later await.
Authentic(q) ==
  Known(call[q].user) /\ Verified(q) /\ ~ Denied(call[q])
Authenticated == \A q \in Requests : pc[q] \in Awaits \ {"user"} => Authentic(q)

\* The awaits that belong to one method.
DispatchedTo(q) ==
  /\ pc[q] = "insertUser" => call[q].method = "addUser"
  /\ pc[q] = "insertReceiver" => call[q].method = "addReceiver"
  /\ pc[q] = "list" => call[q].method = "getReceiver"
  /\ pc[q] = "page" => call[q].method = "getEpoch"
  /\ pc[q] = "epoch" => call[q].method = "newEpoch"
  /\ pc[q] \in {"receiver", "insertReceiver"} /\ call[q].method = "addReceiver" =>
       Known(call[q].name)
Dispatched == \A q \in Requests : DispatchedTo(q)

\* A request has no answer before it is done, and nonces only grow while it runs.
PendingAt(q) ==
  /\ pc[q] # "done" => answer[q] = Silent
  /\ since[q] <= nonce[call[q].rcv]
Pending == \A q \in Requests : PendingAt(q)

\* What getPublicKey has answered, the second part of KeysAgree.
KeysAnswered ==
  \A q \in Requests :
    Answered(q, "getPublicKey") /\ answer[q].key # NoOne =>
      answer[q].key = keyring[call[q].name].key

\* What addReceiver has answered for, the second part of ReceiversStay.
ReceiversAnswered ==
  \A q \in Requests : Answered(q, "addReceiver") => Registered(call[q].rcv)

TableInv == FullRows /\ Owned /\ Generated /\ Serving
RequestInv == Authenticated /\ Dispatched /\ Pending
AnswerInv == KeysAnswered /\ SecretsWork /\ ReceiversAnswered /\ PagesAreUnbroken
IInv == TypeInv /\ TableInv /\ RequestInv /\ AnswerInv
-----------------------------------------------------------------------------
LEMMA InitInv == Init => IInv
<1> SUFFICES ASSUME Init PROVE IInv
  OBVIOUS
<1> USE NodeAssumption DEF Init
<1>1. PICK S \in SUBSET Users : keyring = [u \in Users |-> IF u \in S THEN CliRow(u) ELSE NoRow]
  OBVIOUS
<1>2. (CHOOSE c \in Calls : TRUE) \in Call
  OBVIOUS
<1>3. Silent \in Answers
  BY DEF Silent, Answers, Secrets, Keys
<1>4. TypeInv
  BY <1>1, <1>2, <1>3 DEF TypeInv, Row, CliRow, NoRow, Secrets, Keys, Makers, Awaits
<1>5. TableInv
  <2>1. FullRows
    BY <1>1 DEF FullRows, Known, CliRow, NoRow
  <2>2. Owned
    BY DEF Owned, Registered
  <2> QED
    BY <2>1, <2>2 DEF TableInv, Generated, Serving
<1>6. RequestInv
  BY <1>4 DEF RequestInv, Authenticated, Dispatched, DispatchedTo, Pending, PendingAt, Awaits,
     TypeInv, Call
<1>7. \A q \in Requests : answer[q].status = "none"
  BY DEF Silent
<1>8. AnswerInv
  BY <1>7 DEF AnswerInv, KeysAnswered, SecretsWork, ReceiversAnswered, PagesAreUnbroken, Answered
<1> QED
  BY <1>4, <1>5, <1>6, <1>8 DEF IInv

-----------------------------------------------------------------------------
(***************************************************************************)
(* What any step does.                                                     *)
(***************************************************************************)

\* Rows are never changed or removed, and only registered receivers get epochs.
TablesGrow ==
  /\ \A u \in Users : Known(u) => keyring'[u] = keyring[u]
  /\ \A r \in Receivers : Registered(r) => receiver'[r] = receiver[r]
  /\ \A r \in Receivers : /\ nonce[r] <= nonce'[r]
                          /\ nonce'[r] # nonce[r] => Registered(r)

LEMMA TablesStep == TypeInv /\ [Next]_vars => TablesGrow
<1> SUFFICES ASSUME TypeInv, [Next]_vars PROVE TablesGrow
  OBVIOUS
<1> USE NodeAssumption DEF TypeInv, TablesGrow, Registered
<1>1. CASE UNCHANGED tables
  BY <1>1 DEF tables
<1>2. ASSUME NEW n \in Nodes, InsertKey(n) PROVE TablesGrow
  BY <1>2 DEF InsertKey, UserRefused
<1>3. ASSUME NEW u \in Users, CliUser(u) PROVE TablesGrow
  BY <1>3 DEF CliUser, UserRefused
<1>4. ASSUME NEW q \in Requests, InsertUser(q) PROVE TablesGrow
  BY <1>4 DEF InsertUser, UserRefused
<1>5. ASSUME NEW q \in Requests, InsertReceiver(q) PROVE TablesGrow
  BY <1>5 DEF InsertReceiver, ReceiverRefused
<1>6. ASSUME NEW q \in Requests, NewEpoch(q) PROVE TablesGrow
  <2>1. keyring' = keyring /\ receiver' = receiver
    BY <1>6 DEF NewEpoch
  <2>2. CASE nonce' = nonce
    BY <2>1, <2>2
  <2>3. CASE nonce' # nonce
    <3>1. /\ receiver[call[q].rcv] = call[q].user
          /\ nonce' = [nonce EXCEPT ![call[q].rcv] = @ + 1]
      BY <1>6, <2>3 DEF NewEpoch
    <3>2. call[q].user \in Users /\ call[q].rcv \in Receivers
      BY DEF Call
    <3>3. receiver[call[q].rcv] # NoOne
      BY <3>1, <3>2
    <3>4. \A r \in Receivers : nonce[r] \in Nat /\ nonce'[r] = IF r = call[q].rcv THEN nonce[r] + 1 ELSE nonce[r]
      BY <3>1
    <3> QED BY <2>1, <3>3, <3>4
  <2> QED BY <2>2, <2>3
<1> QED
  BY <1>1, <1>2, <1>3, <1>4, <1>5, <1>6
  DEF Next, vars, Start, Crash, Arrive, BadRequest, BadToken, Refuse, Handle, Authenticate,
      FindName, FindReceiver, ListReceivers, GetEpoch, DbError

\* A request that does not take the step stays where it is, or dies with its node.
Still(q) ==
  /\ pc'[q] = pc[q] \/ (pc[q] \in Awaits /\ pc'[q] = "done")
  /\ call'[q] = call[q] /\ signed'[q] = signed[q]
  /\ answer'[q] = answer[q] /\ since'[q] = since[q]

Moves(q) == Arrive(q) \/ BadRequest(q) \/ BadToken(q) \/ Handle(q) \/ DbError(q)

LEMMA RequestStep ==
  ASSUME TypeInv, [Next]_vars, NEW q \in Requests
  PROVE  Still(q) \/ Moves(q)
<1> USE DEF TypeInv, Still
<1>1. CASE UNCHANGED requestVars
  BY <1>1 DEF requestVars
<1>2. ASSUME NEW n \in Nodes, Crash(n) PROVE Still(q)
  BY <1>2 DEF Crash
<1>3. ASSUME NEW p \in Requests, Moves(p), p # q PROVE Still(q)
  <2> USE <1>3 DEF Goto, Respond, Panic
  <2>1. CASE Arrive(p) \/ BadRequest(p) \/ BadToken(p) \/ DbError(p)
    BY <2>1 DEF Arrive, BadRequest, BadToken, Refuse, DbError
  <2>2. CASE Authenticate(p) \/ FindName(p) \/ InsertUser(p) \/ FindReceiver(p)
    BY <2>2 DEF Authenticate, FindName, InsertUser, FindReceiver
  <2>3. CASE InsertReceiver(p) \/ ListReceivers(p) \/ GetEpoch(p) \/ NewEpoch(p)
    BY <2>3 DEF InsertReceiver, ListReceivers, GetEpoch, NewEpoch
  <2> QED
    BY <2>1, <2>2, <2>3 DEF Moves, Handle
<1> QED
  BY <1>1, <1>2, <1>3 DEF Next, Moves, vars, Start, InsertKey, CliUser
-----------------------------------------------------------------------------
(***************************************************************************)
(* Types.                                                                  *)
(***************************************************************************)
LEMMA Responses ==
  /\ Silent \in Answers /\ Ok \in Answers /\ Err \in Answers
  /\ \A k \in Keys : [Ok EXCEPT !.key = k] \in Answers
  /\ \A s \in Secrets : [Ok EXCEPT !.secret = s] \in Answers
  /\ \A R \in SUBSET Receivers : [Ok EXCEPT !.receivers = R] \in Answers
  /\ \A E \in SUBSET Int : [Ok EXCEPT !.epochs = E] \in Answers
BY DEF Silent, Ok, Err, Answers, Secrets, Keys

PcType == pc' \in [Requests -> Awaits \cup {"idle", "done"}]
AnswerType == answer' \in [Requests -> Answers]

LEMMA RespondType ==
  ASSUME TypeInv, NEW q \in Requests, NEW response \in Answers, Respond(q, response)
  PROVE  PcType /\ AnswerType
BY DEF TypeInv, Respond, Goto, PcType, AnswerType

LEMMA GotoType ==
  ASSUME TypeInv, NEW q \in Requests, NEW await \in Awaits \cup {"done"}, Goto(q, await),
         UNCHANGED answer
  PROVE  PcType /\ AnswerType
BY DEF TypeInv, Goto, PcType, AnswerType

LEMMA TypeStep == TypeInv /\ [Next]_vars => TypeInv'
<1> SUFFICES ASSUME TypeInv, [Next]_vars PROVE TypeInv'
  OBVIOUS
<1> USE NodeAssumption, Responses DEF TypeInv, Goto, Respond, Panic, Awaits
<1> HIDE DEF Ok, Err, Silent, Answers
<1>1. CASE UNCHANGED vars
  BY <1>1 DEF vars, tables, nodeVars, requestVars
<1>2. ASSUME NEW n \in Nodes, Start(n) PROVE TypeInv'
  BY <1>2 DEF Start, tables, requestVars, Row, Keys, Makers
<1>3. ASSUME NEW n \in Nodes, InsertKey(n) PROVE TypeInv'
  BY <1>3 DEF InsertKey, requestVars, Row, Secrets, Keys, Makers
<1>4. ASSUME NEW n \in Nodes, Crash(n) PROVE TypeInv'
  BY <1>4 DEF Crash, tables, Keys
<1>5. ASSUME NEW q \in Requests, Arrive(q) PROVE TypeInv'
  BY <1>5 DEF Arrive, tables, nodeVars, Row, Call
<1>6. ASSUME NEW q \in Requests, BadRequest(q) \/ BadToken(q) PROVE TypeInv'
  BY <1>6 DEF BadRequest, BadToken, Refuse, tables, nodeVars
<1>7. ASSUME NEW q \in Requests, Authenticate(q) PROVE TypeInv'
  BY <1>7 DEF Authenticate, Dispatch, tables, nodeVars
<1>8. ASSUME NEW q \in Requests, FindName(q) PROVE TypeInv'
  <2>1. keyring[call[q].name].secret \in Secrets /\ keyring[call[q].name].key \in Keys
    BY DEF Row, Call
  <2> QED
    BY <1>8, <2>1 DEF FindName, tables, nodeVars
<1>9. ASSUME NEW q \in Requests, InsertUser(q) PROVE TypeInv'
  <2>1. q \in Secrets /\ q \in Keys
    BY DEF Secrets, Keys, Makers
  <2> QED
    BY <1>9, <2>1 DEF InsertUser, nodeVars, Row
<1>10. ASSUME NEW q \in Requests, FindReceiver(q) PROVE TypeInv'
  <2>1. {call[q].rcv} \in SUBSET Receivers
    BY DEF Call
  <2>2. [Ok EXCEPT !.receivers = {call[q].rcv}] \in Answers
    BY <2>1
  <2>3. \/ Respond(q, [Ok EXCEPT !.receivers = {call[q].rcv}]) \/ Respond(q, Ok)
        \/ Goto(q, "insertReceiver") /\ UNCHANGED answer
        \/ Goto(q, "page") /\ UNCHANGED answer
    <3> HIDE DEF Goto, Respond
    <3> QED
      BY <1>10 DEF FindReceiver
  <2>4. PcType /\ AnswerType
    <3> HIDE DEF Goto, Respond, TypeInv
    <3> QED
      BY <2>2, <2>3, RespondType, GotoType
  <2> QED
    BY <1>10, <2>4 DEF FindReceiver, tables, nodeVars, PcType, AnswerType
<1>11. ASSUME NEW q \in Requests, InsertReceiver(q) PROVE TypeInv'
  <2>1. {call[q].rcv} \in SUBSET Receivers /\ call[q].name \in Users
    BY DEF Call
  <2>2. [Ok EXCEPT !.receivers = {call[q].rcv}] \in Answers
    BY <2>1
  <2>3. PcType /\ AnswerType
    <3> HIDE DEF Goto, Respond, Panic, TypeInv
    <3>1. \/ Respond(q, [Ok EXCEPT !.receivers = {call[q].rcv}])
          \/ Respond(q, Err) \/ Panic(q)
      BY <1>11 DEF InsertReceiver
    <3> QED
      BY <2>2, <3>1, RespondType, GotoType DEF Panic
  <2>4. receiver' \in [Receivers -> Users \cup {NoOne}]
    BY <1>11, <2>1 DEF InsertReceiver
  <2> QED
    BY <1>11, <2>3, <2>4 DEF InsertReceiver, nodeVars, PcType, AnswerType
<1>12. ASSUME NEW q \in Requests, ListReceivers(q) PROVE TypeInv'
  BY <1>12 DEF ListReceivers, ReceiversOf, tables, nodeVars
<1>13. ASSUME NEW q \in Requests, GetEpoch(q) PROVE TypeInv'
  <2>1. /\ RecentEpoch(call[q].rcv) \in SUBSET Int
        /\ ClosureEpoch(call[q].rcv, call[q].epoch) \in SUBSET Int
    BY DEF RecentEpoch, ClosureEpoch, Page
  <2> QED
    BY <1>13, <2>1 DEF GetEpoch, tables, nodeVars
<1>14. ASSUME NEW q \in Requests, NewEpoch(q) PROVE TypeInv'
  <2>1. {nonce[call[q].rcv]} \in SUBSET Int
    BY DEF Call
  <2>2. [Ok EXCEPT !.epochs = {nonce[call[q].rcv]}] \in Answers
    BY <2>1
  <2>3. PcType /\ AnswerType
    <3> HIDE DEF Goto, Respond, Panic, TypeInv
    <3>1. \/ Respond(q, [Ok EXCEPT !.epochs = {nonce[call[q].rcv]}])
          \/ Respond(q, Err) \/ Panic(q)
      BY <1>14 DEF NewEpoch
    <3> QED
      BY <2>2, <3>1, RespondType, GotoType DEF Panic
  <2>4. nonce' \in [Receivers -> 0 .. MaxNonce]
    BY <1>14 DEF NewEpoch
  <2> QED
    BY <1>14, <2>3, <2>4 DEF NewEpoch, nodeVars, PcType, AnswerType
<1>15. ASSUME NEW q \in Requests, DbError(q) PROVE TypeInv'
  BY <1>15 DEF DbError, tables, nodeVars
<1>16. ASSUME NEW u \in Users, CliUser(u) PROVE TypeInv'
  BY <1>16 DEF CliUser, CliRow, nodeVars, requestVars, Row, Secrets, Keys, Makers
<1> QED
  BY <1>1, <1>2, <1>3, <1>4, <1>5, <1>6, <1>7, <1>8, <1>9, <1>10, <1>11, <1>12, <1>13,
     <1>14, <1>15, <1>16 DEF Next, Handle

-----------------------------------------------------------------------------
(***************************************************************************)
(* The tables and the nodes.                                               *)
(***************************************************************************)

\* Rows come from a node that found no key, a request for a user, or the command line.
LEMMA FullRowsStep == TypeInv /\ Generated /\ FullRows /\ [Next]_vars => FullRows'
<1> SUFFICES ASSUME TypeInv, Generated, FullRows, [Next]_vars PROVE FullRows'
  OBVIOUS
<1> USE NodeAssumption DEF TypeInv, FullRows, Known
<1>1. CASE UNCHANGED keyring
  BY <1>1
<1>2. ASSUME NEW n \in Nodes, InsertKey(n) PROVE FullRows'
  BY <1>2 DEF InsertKey, Generated, Makers
<1>3. ASSUME NEW q \in Requests, InsertUser(q) PROVE FullRows'
  BY <1>3 DEF InsertUser, Makers
<1>4. ASSUME NEW u \in Users, CliUser(u) PROVE FullRows'
  BY <1>4 DEF CliUser, CliRow
<1> QED
  BY <1>1, <1>2, <1>3, <1>4
  DEF Next, vars, tables, Start, Crash, Arrive, BadRequest, BadToken, Refuse, Handle,
      Authenticate, FindName, FindReceiver, InsertReceiver, ListReceivers, GetEpoch, NewEpoch,
      DbError

\* A user whose row is there stays known.
LEMMA KnownStays ==
  ASSUME TypeInv, [Next]_vars, NEW u \in Users, Known(u)
  PROVE  Known(u)' /\ keyring'[u] = keyring[u]
BY TablesStep DEF TablesGrow, Known

LEMMA OwnedStep ==
  TypeInv /\ Dispatched /\ Owned /\ [Next]_vars => Owned'
<1> SUFFICES ASSUME TypeInv, Dispatched, Owned, [Next]_vars, NEW r \in Receivers
             PROVE  /\ Registered(r)' => Known(receiver[r])'
                    /\ ~ Registered(r)' => nonce'[r] = 0
  BY DEF Owned
<1> USE DEF Registered, Owned, TypeInv
<1>1. TablesGrow
  BY TablesStep
<1>2. CASE receiver'[r] = receiver[r]
  BY <1>1, <1>2, KnownStays DEF TablesGrow
<1>3. CASE receiver'[r] # receiver[r]
  <2>1. PICK q \in Requests : InsertReceiver(q)
    BY <1>3
    DEF Next, vars, tables, Start, InsertKey, CliUser, Crash, Arrive, BadRequest, BadToken,
        Refuse, Handle, Authenticate, FindName, InsertUser, FindReceiver, ListReceivers,
        GetEpoch, NewEpoch, DbError
  <2>2. call[q].method = "addReceiver" /\ Known(call[q].name)
    BY <2>1 DEF InsertReceiver, Dispatched, DispatchedTo
  <2>3. receiver'[r] = call[q].name
    BY <1>3, <2>1 DEF InsertReceiver
  <2>4. receiver'[r] # NoOne
    BY <2>3, NodeAssumption DEF Call
  <2> QED
    BY <2>2, <2>3, <2>4, KnownStays DEF Call
<1> QED
  BY <1>2, <1>3

\* A node changes its status or key only in its own steps.
LEMMA NodesStep ==
  TypeInv /\ Generated /\ Serving /\ [Next]_vars => Generated' /\ Serving'
<1> SUFFICES ASSUME TypeInv, Generated, Serving, [Next]_vars PROVE Generated' /\ Serving'
  OBVIOUS
<1> USE NodeAssumption DEF TypeInv, Generated, Serving
<1>1. Known(Orand) => Known(Orand)' /\ keyring'[Orand] = keyring[Orand]
  BY KnownStays
<1>2. CASE UNCHANGED nodeVars
  BY <1>1, <1>2 DEF nodeVars
<1>3. ASSUME NEW n \in Nodes, Start(n) PROVE Generated' /\ Serving'
  BY <1>1, <1>3 DEF Start, tables
<1>4. ASSUME NEW n \in Nodes, Crash(n) PROVE Generated' /\ Serving'
  BY <1>1, <1>4 DEF Crash
<1>5. ASSUME NEW n \in Nodes, InsertKey(n) PROVE Generated' /\ Serving'
  <2>1. CASE UserRefused(Orand, keypair[n])
    BY <1>1, <1>5, <2>1 DEF InsertKey
  <2>2. CASE ~ UserRefused(Orand, keypair[n])
    <3>1. ~ Known(Orand)
      BY <2>2 DEF UserRefused
    <3>2. keyring'[Orand] = [secret |-> n, key |-> keypair[n]]
      BY <1>5, <2>2 DEF InsertKey
    <3>3. Known(Orand)'
      BY <3>2 DEF Known, NoRow, Makers
    <3> QED
      BY <1>5, <2>2, <3>1, <3>2, <3>3 DEF InsertKey
  <2> QED
    BY <2>1, <2>2
<1> QED
  BY <1>2, <1>3, <1>4, <1>5
  DEF Next, vars, CliUser, Arrive, BadRequest, BadToken, Refuse, Handle, Authenticate, FindName,
      InsertUser, FindReceiver, InsertReceiver, ListReceivers, GetEpoch, NewEpoch, DbError

LEMMA TableInvStep ==
  TypeInv /\ TableInv /\ Dispatched /\ [Next]_vars => TableInv'
BY FullRowsStep, OwnedStep, NodesStep DEF TableInv

-----------------------------------------------------------------------------
(***************************************************************************)
(* Requests.                                                               *)
(***************************************************************************)
RequestAt(q) ==
  /\ pc[q] \in Awaits \ {"user"} => Authentic(q)
  /\ DispatchedTo(q)
  /\ PendingAt(q)

\* What a step leaves to a request with the same call and token.
LEMMA Kept ==
  ASSUME TypeInv, [Next]_vars, NEW q \in Requests, UNCHANGED <<call[q], signed[q], since[q]>>
  PROVE  /\ Authentic(q) => Authentic(q)'
         /\ Known(call[q].name) => Known(call[q].name)'
         /\ since[q] <= nonce[call[q].rcv] => since'[q] <= nonce'[call[q].rcv]
<1>1. /\ call[q] \in Call /\ call[q].user \in Users /\ call[q].name \in Users
      /\ call[q].rcv \in Receivers
  BY DEF TypeInv, Call
<1>2. Authentic(q) => Authentic(q)'
  BY <1>1, KnownStays DEF Authentic, Verified
<1>3. Known(call[q].name) => Known(call[q].name)'
  BY <1>1, KnownStays
<1>4. nonce[call[q].rcv] <= nonce'[call[q].rcv]
  BY <1>1, TablesStep DEF TablesGrow
<1>5. /\ nonce[call[q].rcv] \in Int /\ nonce'[call[q].rcv] \in Int
      /\ since[q] \in Int
  BY <1>1, TypeStep DEF TypeInv
<1> QED
  BY <1>2, <1>3, <1>4, <1>5

\* A request that arrives has neither an answer nor rights.
LEMMA ArriveRequest ==
  ASSUME TypeInv, NEW q \in Requests, PendingAt(q), Arrive(q)
  PROVE  RequestAt(q)'
<1>1. pc'[q] = "user" /\ answer'[q] = Silent
  BY DEF Arrive, Goto, TypeInv, PendingAt
<1>2. since'[q] = nonce'[call'[q].rcv] /\ since'[q] \in Int
  BY NodeAssumption DEF Arrive, TypeInv, Call, tables
<1> QED
  BY <1>1, <1>2 DEF RequestAt, DispatchedTo, PendingAt

\* A request goes to its next await, or is done.
Advances(q, awaits) ==
  /\ UNCHANGED <<call[q], signed[q], since[q]>>
  /\ \/ pc'[q] = "done"
     \/ pc'[q] \in awaits /\ answer'[q] = answer[q]

LEMMA HandleAdvances ==
  ASSUME TypeInv, NEW q \in Requests, Handle(q) \/ DbError(q)
  PROVE  \/ Advances(q, {})
         \/ Authenticate(q) /\ Advances(q, {Dispatch(call[q])})
         \/ FindName(q) /\ Advances(q, {"insertUser", "receiver"})
         \/ FindReceiver(q) /\ Advances(q, {"insertReceiver", "page"})
<1> USE DEF TypeInv, Goto, Respond, Panic, Advances
<1>1. ASSUME Authenticate(q) PROVE Advances(q, {Dispatch(call[q])})
  BY <1>1 DEF Authenticate
<1>2. ASSUME FindName(q) PROVE Advances(q, {"insertUser", "receiver"})
  BY <1>2 DEF FindName
<1>3. ASSUME FindReceiver(q) PROVE Advances(q, {"insertReceiver", "page"})
  BY <1>3 DEF FindReceiver
<1>4. ASSUME InsertUser(q) \/ InsertReceiver(q) \/ NewEpoch(q) PROVE Advances(q, {})
  BY <1>4 DEF InsertUser, InsertReceiver, NewEpoch
<1>5. ASSUME ListReceivers(q) \/ GetEpoch(q) \/ DbError(q) PROVE Advances(q, {})
  BY <1>5 DEF ListReceivers, GetEpoch, DbError
<1> HIDE DEF TypeInv, Goto, Respond, Panic, Advances
<1> QED
  BY <1>1, <1>2, <1>3, <1>4, <1>5 DEF Handle

LEMMA RequestInvStep == TypeInv /\ RequestInv /\ [Next]_vars => RequestInv'
<1> SUFFICES ASSUME TypeInv, RequestInv, [Next]_vars, NEW q \in Requests
             PROVE  RequestAt(q)'
  BY DEF RequestInv, Authenticated, Dispatched, Pending, RequestAt
<1>1. RequestAt(q)
  BY DEF RequestInv, Authenticated, Dispatched, Pending, RequestAt
<1>2. call[q].method \in Methods
  BY DEF TypeInv, Call
<1>3. CASE Still(q)
  BY <1>1, <1>3, Kept DEF Still, RequestAt, DispatchedTo, PendingAt, Awaits
<1>4. CASE Arrive(q)
  BY <1>1, <1>4, ArriveRequest DEF RequestAt
<1>5. CASE BadRequest(q) \/ BadToken(q)
  <2>1. UNCHANGED <<call[q], signed[q], since[q]>> /\ pc'[q] = "done"
    BY <1>5 DEF BadRequest, BadToken, Refuse, Respond, Panic, Goto, TypeInv
  <2> QED
    BY <1>1, <2>1, Kept DEF RequestAt, DispatchedTo, PendingAt, Awaits
<1>6. CASE Advances(q, {})
  BY <1>1, <1>6, Kept DEF RequestAt, DispatchedTo, PendingAt, Awaits, Advances
<1>7. CASE Authenticate(q) /\ Advances(q, {Dispatch(call[q])})
  <2>1. CASE pc'[q] = "done"
    BY <1>1, <1>7, <2>1, Kept DEF RequestAt, DispatchedTo, PendingAt, Awaits, Advances
  <2>2. CASE pc'[q] # "done"
    <3>1. pc[q] = "user" /\ pc'[q] = Dispatch(call[q]) /\ answer'[q] = answer[q]
      BY <1>7, <2>2 DEF Authenticate, Advances
    <3>2. Authentic(q)
      BY <1>7, <2>2 DEF Authenticate, Authentic, Respond, Goto, TypeInv
    <3>3. Authentic(q)' /\ PendingAt(q)'
      BY <1>1, <1>7, <3>1, <3>2, Kept DEF RequestAt, PendingAt, Advances
    <3>4. DispatchedTo(q)'
      BY <1>2, <1>7, <3>1 DEF DispatchedTo, Dispatch, Advances, Methods
    <3> QED
      BY <3>3, <3>4 DEF RequestAt
  <2> QED
    BY <2>1, <2>2
<1>8. CASE FindName(q) /\ Advances(q, {"insertUser", "receiver"})
  <2>1. CASE pc'[q] = "done"
    BY <1>1, <1>8, <2>1, Kept DEF RequestAt, DispatchedTo, PendingAt, Awaits, Advances
  <2>2. CASE pc'[q] # "done"
    <3>1. /\ pc[q] = "name" /\ pc'[q] \in {"insertUser", "receiver"} /\ answer'[q] = answer[q]
          /\ pc'[q] = "insertUser" => call[q].method = "addUser"
          /\ pc'[q] = "receiver" => Known(call[q].name)
      BY <1>8, <2>2 DEF FindName, Advances, Respond, Goto, TypeInv
    <3>2. Authentic(q)' /\ PendingAt(q)' /\ DispatchedTo(q)'
      BY <1>1, <1>8, <3>1, Kept DEF RequestAt, DispatchedTo, PendingAt, Advances, Awaits
    <3> QED
      BY <3>2 DEF RequestAt
  <2> QED
    BY <2>1, <2>2
<1>9. CASE FindReceiver(q) /\ Advances(q, {"insertReceiver", "page"})
  <2>1. CASE pc'[q] = "done"
    BY <1>1, <1>9, <2>1, Kept DEF RequestAt, DispatchedTo, PendingAt, Awaits, Advances
  <2>2. CASE pc'[q] # "done"
    <3>1. /\ pc[q] = "receiver" /\ pc'[q] \in {"insertReceiver", "page"}
          /\ answer'[q] = answer[q]
          /\ pc'[q] = "insertReceiver" => call[q].method = "addReceiver"
          /\ pc'[q] = "page" => call[q].method = "getEpoch"
      BY <1>9, <2>2 DEF FindReceiver, Advances, Respond, Goto, TypeInv
    <3>2. Authentic(q)' /\ PendingAt(q)' /\ DispatchedTo(q)'
      BY <1>1, <1>9, <3>1, Kept DEF RequestAt, DispatchedTo, PendingAt, Advances, Awaits
    <3> QED
      BY <3>2 DEF RequestAt
  <2> QED
    BY <2>1, <2>2
<1> QED
  BY <1>3, <1>4, <1>5, <1>6, <1>7, <1>8, <1>9, RequestStep, HandleAdvances DEF Moves

-----------------------------------------------------------------------------
(***************************************************************************)
(* Answers.                                                                *)
(***************************************************************************)

\* The first PageLimit epochs of 0 .. top in descending order.
LEMMA PageOfInterval ==
  ASSUME NEW top \in Int
  PROVE  Page(0 .. top) = {e \in 0 .. top : e > top - PageLimit}
<1>1. ASSUME NEW e \in 0 .. top
      PROVE  Cardinality({d \in 0 .. top : d > e}) = top - e
  <2>1. {d \in 0 .. top : d > e} = (e + 1) .. top
    OBVIOUS
  <2>2. Cardinality((e + 1) .. top) = IF e + 1 > top THEN 0 ELSE top - (e + 1) + 1
    BY FS_Interval
  <2>3. (IF e + 1 > top THEN 0 ELSE top - (e + 1) + 1) = top - e
    OBVIOUS
  <2> QED
    BY <2>1, <2>2, <2>3, Zenon
<1>2. PageLimit \in Int
  BY NodeAssumption
<1>3. \A e \in 0 .. top : top - e < PageLimit <=> e > top - PageLimit
  BY <1>2
<1> QED
  BY <1>1, <1>3 DEF Page

\* The two queries of orand_getEpoch select the page that PageAt describes.
LEMMA PageQueried ==
  ASSUME TypeInv, NEW r \in Receivers
  PROVE  /\ RecentEpoch(r) = PageAt(nonce[r] - 1, MaxEpoch)
         /\ \A epoch \in Int : ClosureEpoch(r, epoch) = PageAt(nonce[r] - 1, epoch)
<1> DEFINE hi == nonce[r] - 1
<1>1. hi \in Int /\ MaxEpoch \in Int /\ hi <= MaxEpoch
  BY NodeAssumption DEF TypeInv
<1>2. RecentEpoch(r) = Page(0 .. hi)
  BY DEF RecentEpoch
<1>3. ASSUME NEW epoch \in Int
      PROVE  ClosureEpoch(r, epoch) = Page(0 .. IF epoch < hi THEN epoch ELSE hi)
  <2>1. {e \in 0 .. hi : e <= epoch} = 0 .. IF epoch < hi THEN epoch ELSE hi
    BY <1>1
  <2> QED
    BY <2>1 DEF ClosureEpoch
<1> HIDE DEF hi
<1>4. ASSUME NEW epoch \in Int
      PROVE  Page(0 .. IF epoch < hi THEN epoch ELSE hi) = PageAt(hi, epoch)
  <2> DEFINE top == IF epoch < hi THEN epoch ELSE hi
  <2>1. top \in Int
    BY <1>1
  <2>2. Page(0 .. top) = {e \in 0 .. top : e > top - PageLimit}
    BY <2>1, PageOfInterval
  <2> QED
    BY <2>2 DEF PageAt
<1>5. Page(0 .. hi) = PageAt(hi, MaxEpoch)
  <2>1. (IF MaxEpoch < hi THEN MaxEpoch ELSE hi) = hi
    BY <1>1
  <2> QED
    BY <1>1, <1>4, <2>1
<1>6. \A epoch \in Int : ClosureEpoch(r, epoch) = PageAt(hi, epoch)
  BY <1>3, <1>4
<1> QED
  BY <1>2, <1>5, <1>6 DEF hi

PageRight(q) ==
  \E hi \in since[q] - 1 .. nonce[call[q].rcv] - 1 :
    answer[q].epochs = PageAt(hi, call[q].epoch)

AnswerAt(q) ==
  /\ Answered(q, "getPublicKey") /\ answer[q].key # NoOne =>
       answer[q].key = keyring[call[q].name].key
  /\ Answered(q, "addUser") \/ Answered(q, "getUser") =>
       Known(call[q].name) /\ answer[q].secret = keyring[call[q].name].secret
  /\ Answered(q, "addReceiver") => Registered(call[q].rcv)
  /\ Answered(q, "getEpoch") => PageRight(q)

\* An answer that was right stays so, as the tables only grow.
LEMMA AnswerStays ==
  ASSUME TypeInv, [Next]_vars, NEW q \in Requests, AnswerAt(q),
         UNCHANGED <<call[q], answer[q], since[q]>>
  PROVE  AnswerAt(q)'
<1>1. /\ call[q] \in Call /\ call[q].name \in Users /\ call[q].rcv \in Receivers
  BY DEF TypeInv, Call
<1>2. Known(call[q].name) => Known(call[q].name)' /\ keyring'[call[q].name] = keyring[call[q].name]
  BY <1>1, KnownStays
<1>3. ~ Known(call[q].name) => keyring[call[q].name].key = NoOne
  BY DEF Known, NoRow
<1>4. Registered(call[q].rcv) => Registered(call[q].rcv)'
  BY <1>1, TablesStep DEF TablesGrow, Registered
<1>5. PageRight(q) => PageRight(q)'
  <2>1. nonce[call[q].rcv] <= nonce'[call[q].rcv]
    BY <1>1, TablesStep DEF TablesGrow
  <2>2. nonce[call[q].rcv] \in Int /\ nonce'[call[q].rcv] \in Int /\ since[q] \in Int
    BY <1>1, TypeStep DEF TypeInv
  <2>3. since[q] - 1 .. nonce[call[q].rcv] - 1 \subseteq since[q] - 1 .. nonce'[call[q].rcv] - 1
    BY <2>1, <2>2
  <2> QED
    BY <2>3 DEF PageRight, PageAt
<1>6. \A m : Answered(q, m)' <=> Answered(q, m)
  BY DEF Answered
<1> QED
  BY <1>2, <1>3, <1>4, <1>5, <1>6 DEF AnswerAt

LEMMA Unanswered ==
  ASSUME NEW q \in Requests, answer'[q].status # "ok"
  PROVE  AnswerAt(q)'
BY DEF AnswerAt, Answered

\* What a step of the handler answers, if anything.
LEMMA RespondAnswers ==
  ASSUME TypeInv, NEW q \in Requests, NEW response, Respond(q, response)
  PROVE  answer'[q] = response
BY DEF TypeInv, Respond

LEMMA Statuses ==
  /\ Err.status = "error" /\ Ok.status = "ok" /\ Ok.epochs = {} /\ Ok.key = NoOne
  /\ \A k : [Ok EXCEPT !.key = k].status = "ok" /\ [Ok EXCEPT !.key = k].key = k
  /\ \A s : [Ok EXCEPT !.secret = s].status = "ok" /\ [Ok EXCEPT !.secret = s].secret = s
  /\ \A E : [Ok EXCEPT !.epochs = E].status = "ok" /\ [Ok EXCEPT !.epochs = E].epochs = E
BY DEF Ok, Err, Silent

Same(q) == UNCHANGED <<call[q], since[q]>>

LEMMA FindNameAnswers ==
  ASSUME TypeInv, NEW q \in Requests, FindName(q)
  PROVE  /\ Same(q) /\ UNCHANGED tables
         /\ \/ answer'[q] = answer[q]
            \/ answer'[q].status # "ok"
            \/ /\ call[q].method = "getPublicKey"
               /\ answer'[q].key = keyring[call[q].name].key
            \/ /\ call[q].method = "getUser" /\ Known(call[q].name)
               /\ answer'[q].secret = keyring[call[q].name].secret
<1>1. Same(q) /\ UNCHANGED tables
  BY DEF FindName, Same, tables
<1>2. \/ UNCHANGED answer
      \/ Respond(q, Err)
      \/ /\ call[q].method = "getPublicKey"
         /\ Respond(q, [Ok EXCEPT !.key = keyring[call[q].name].key])
      \/ /\ call[q].method = "getUser" /\ Known(call[q].name)
         /\ Respond(q, [Ok EXCEPT !.secret = keyring[call[q].name].secret])
  BY DEF FindName
<1>3. ASSUME Respond(q, Err) PROVE answer'[q].status # "ok"
  BY <1>3, Statuses, RespondAnswers
<1>4. ASSUME Respond(q, [Ok EXCEPT !.key = keyring[call[q].name].key])
      PROVE  answer'[q].key = keyring[call[q].name].key
  BY <1>4, Statuses, RespondAnswers
<1>5. ASSUME Respond(q, [Ok EXCEPT !.secret = keyring[call[q].name].secret])
      PROVE  answer'[q].secret = keyring[call[q].name].secret
  BY <1>5, Statuses, RespondAnswers
<1> QED
  BY <1>1, <1>2, <1>3, <1>4, <1>5

LEMMA FindReceiverAnswers ==
  ASSUME TypeInv, NEW q \in Requests, FindReceiver(q)
  PROVE  /\ Same(q) /\ UNCHANGED tables
         /\ \/ answer'[q] = answer[q]
            \/ call[q].method = "addReceiver" /\ Registered(call[q].rcv)
            \/ /\ call[q].method = "getEpoch" /\ ~ Registered(call[q].rcv)
               /\ answer'[q].epochs = {}
<1> USE Statuses, RespondAnswers
<1>1. Same(q) /\ UNCHANGED tables
  BY DEF FindReceiver, Same, tables
<1> QED
  BY <1>1 DEF FindReceiver

LEMMA FindReceiverStep ==
  ASSUME TypeInv, Owned, NEW q \in Requests, RequestAt(q), AnswerAt(q), [Next]_vars,
         FindReceiver(q)
  PROVE  AnswerAt(q)'
<1>1. Same(q) /\ UNCHANGED tables
  BY FindReceiverAnswers
<1>2. CASE answer'[q] = answer[q]
  BY <1>1, <1>2, AnswerStays DEF Same
<1>3. CASE call[q].method = "addReceiver" /\ Registered(call[q].rcv)
  <2>1. call'[q].method = "addReceiver" /\ Registered(call[q].rcv)'
    BY <1>1, <1>3 DEF Same, tables, Registered
  <2> QED
    BY <2>1 DEF AnswerAt, Answered
<1>4. CASE /\ call[q].method = "getEpoch" /\ ~ Registered(call[q].rcv)
           /\ answer'[q].epochs = {}
  <2>1. nonce[call[q].rcv] = 0 /\ since[q] = 0
    BY <1>4 DEF Owned, RequestAt, PendingAt, TypeInv, Call
  <2>2. PageAt(-1, call[q].epoch) = {}
    <3>1. call[q].epoch \in Int
      BY DEF TypeInv, Call
    <3> QED
      BY <3>1 DEF PageAt
  <2>3. PageRight(q)'
    <3>1. /\ since'[q] = 0 /\ nonce'[call'[q].rcv] = 0
          /\ call'[q].epoch = call[q].epoch
      BY <1>1, <2>1 DEF Same, tables
    <3>2. -1 \in since'[q] - 1 .. nonce'[call'[q].rcv] - 1
      BY <3>1
    <3>3. answer'[q].epochs = PageAt(-1, call'[q].epoch)
      BY <1>4, <2>2, <3>1
    <3> QED
      BY <3>2, <3>3 DEF PageRight, PageAt
  <2> QED
    BY <1>1, <1>4, <2>3 DEF Same, AnswerAt, Answered
<1> QED
  BY <1>2, <1>3, <1>4, FindReceiverAnswers

LEMMA FindNameStep ==
  ASSUME TypeInv, NEW q \in Requests, AnswerAt(q), [Next]_vars, FindName(q)
  PROVE  AnswerAt(q)'
<1>1. Same(q) /\ UNCHANGED tables
  BY FindNameAnswers
<1>2. CASE answer'[q] = answer[q]
  BY <1>1, <1>2, AnswerStays DEF Same
<1>3. CASE answer'[q].status # "ok"
  BY <1>3, Unanswered
<1>4. CASE /\ call[q].method = "getPublicKey"
           /\ answer'[q].key = keyring[call[q].name].key
  BY <1>1, <1>4 DEF Same, tables, AnswerAt, Answered
<1>5. CASE /\ call[q].method = "getUser" /\ Known(call[q].name)
           /\ answer'[q].secret = keyring[call[q].name].secret
  BY <1>1, <1>5 DEF Same, tables, AnswerAt, Answered, Known
<1> QED
  BY <1>2, <1>3, <1>4, <1>5, FindNameAnswers

LEMMA InsertUserStep ==
  ASSUME TypeInv, NEW q \in Requests, RequestAt(q), AnswerAt(q), [Next]_vars, InsertUser(q)
  PROVE  AnswerAt(q)'
<1>1. Same(q) /\ call[q].method = "addUser"
  BY DEF InsertUser, RequestAt, DispatchedTo, Same
<1>2. CASE answer'[q] = answer[q]
  BY <1>1, <1>2, AnswerStays DEF Same
<1>3. CASE answer'[q] # answer[q]
  <2>1. /\ keyring' = [keyring EXCEPT ![call[q].name] = [secret |-> q, key |-> q]]
        /\ Respond(q, [Ok EXCEPT !.secret = q])
    BY <1>3 DEF InsertUser, Panic
  <2>2. answer'[q].secret = q
    BY <2>1, Statuses, RespondAnswers
  <2>3. keyring'[call[q].name] = [secret |-> q, key |-> q]
    BY <2>1 DEF TypeInv, Call
  <2>4. Known(call[q].name)'
    <3>1. q # NoOne
      BY NodeAssumption DEF Makers
    <3> QED
      BY <1>1, <2>3, <3>1 DEF Same, Known, NoRow
  <2> QED
    BY <1>1, <2>2, <2>3, <2>4 DEF Same, AnswerAt, Answered
<1> QED
  BY <1>2, <1>3

LEMMA InsertReceiverStep ==
  ASSUME TypeInv, NEW q \in Requests, RequestAt(q), AnswerAt(q), [Next]_vars, InsertReceiver(q)
  PROVE  AnswerAt(q)'
<1>1. Same(q) /\ call[q].method = "addReceiver"
  BY DEF InsertReceiver, RequestAt, DispatchedTo, Same
<1>2. CASE answer'[q] = answer[q]
  BY <1>1, <1>2, AnswerStays DEF Same
<1>3. CASE Respond(q, Err)
  <2>1. answer'[q].status # "ok"
    BY <1>3, Statuses, RespondAnswers
  <2> QED
    BY <2>1, Unanswered
<1>4. CASE receiver' = [receiver EXCEPT ![call[q].rcv] = call[q].name]
  <2>1. receiver'[call[q].rcv] = call[q].name /\ call[q].name # NoOne
    BY <1>4, NodeAssumption DEF TypeInv, Call
  <2> QED
    BY <1>1, <2>1 DEF Same, AnswerAt, Answered, Registered
<1> QED
  BY <1>2, <1>3, <1>4 DEF InsertReceiver

LEMMA GetEpochStep ==
  ASSUME TypeInv, NEW q \in Requests, RequestAt(q), AnswerAt(q), [Next]_vars, GetEpoch(q)
  PROVE  AnswerAt(q)'
<1>1. Same(q) /\ UNCHANGED tables /\ call[q].method = "getEpoch"
  BY DEF GetEpoch, RequestAt, DispatchedTo, Same, tables
<1>2. call[q].rcv \in Receivers /\ call[q].epoch \in Int
  BY DEF TypeInv, Call
<1> DEFINE epochs == IF call[q].epoch = MaxEpoch THEN RecentEpoch(call[q].rcv)
                     ELSE ClosureEpoch(call[q].rcv, call[q].epoch)
<1>3. answer'[q].epochs = epochs
  <2> HIDE DEF epochs
  <2>1. Respond(q, [Ok EXCEPT !.epochs = epochs])
    BY DEF GetEpoch, epochs
  <2> QED
    BY <2>1, Statuses, RespondAnswers
<1>4. epochs = PageAt(nonce[call[q].rcv] - 1, call[q].epoch)
  BY <1>2, PageQueried
<1>5. nonce[call[q].rcv] - 1 \in since[q] - 1 .. nonce[call[q].rcv] - 1
  BY <1>2 DEF RequestAt, PendingAt, TypeInv
<1>6. PageRight(q)'
  <2>1. nonce[call[q].rcv] - 1 \in since'[q] - 1 .. nonce'[call'[q].rcv] - 1
    BY <1>1, <1>5 DEF Same, tables
  <2>2. answer'[q].epochs = PageAt(nonce[call[q].rcv] - 1, call'[q].epoch)
    BY <1>1, <1>3, <1>4 DEF Same
  <2> QED
    BY <2>1, <2>2 DEF PageRight, PageAt
<1> QED
  BY <1>1, <1>6 DEF Same, AnswerAt, Answered

\* The other steps of a handler answer with an error or for another method.
LEMMA OtherStep ==
  ASSUME TypeInv, NEW q \in Requests, RequestAt(q), AnswerAt(q), [Next]_vars,
         Authenticate(q) \/ ListReceivers(q) \/ NewEpoch(q) \/ DbError(q)
  PROVE  AnswerAt(q)'
<1>1. Same(q)
  BY DEF Authenticate, ListReceivers, NewEpoch, DbError, Same
<1>2. CASE answer'[q] = answer[q]
  BY <1>1, <1>2, AnswerStays DEF Same
<1>3. CASE Respond(q, Err)
  <2>1. answer'[q].status # "ok"
    BY <1>3, Statuses, RespondAnswers
  <2> QED
    BY <2>1, Unanswered
<1>4. CASE ListReceivers(q) \/ NewEpoch(q)
  <2>1. call'[q].method \in {"getReceiver", "newEpoch"}
    BY <1>1, <1>4 DEF ListReceivers, NewEpoch, RequestAt, DispatchedTo, Same
  <2> QED
    BY <2>1 DEF AnswerAt, Answered
<1> QED
  BY <1>2, <1>3, <1>4 DEF Authenticate, DbError, Panic

LEMMA AnswerInvStep ==
  TypeInv /\ Owned /\ RequestInv /\ AnswerInv /\ [Next]_vars => AnswerInv'
<1> USE DEF RequestInv, Authenticated, Dispatched, Pending, RequestAt, AnswerInv, KeysAnswered,
            SecretsWork, ReceiversAnswered, PagesAreUnbroken, AnswerAt, PageRight
<1> SUFFICES ASSUME TypeInv, Owned, RequestInv, AnswerInv, [Next]_vars, NEW q \in Requests
             PROVE  AnswerAt(q)'
  OBVIOUS
<1>1. RequestAt(q) /\ AnswerAt(q)
  OBVIOUS
<1> HIDE DEF RequestInv, Authenticated, Dispatched, Pending, RequestAt, AnswerInv, KeysAnswered,
             SecretsWork, ReceiversAnswered, PagesAreUnbroken, AnswerAt, PageRight
<1>2. CASE Still(q)
  BY <1>1, <1>2, AnswerStays DEF Still
<1>3. CASE Arrive(q)
  <2>1. answer'[q] = Silent
    BY <1>1, <1>3 DEF Arrive, RequestAt, PendingAt
  <2> QED
    BY <2>1, Unanswered DEF Silent
<1>4. CASE BadRequest(q) \/ BadToken(q)
  <2>1. answer[q] = Silent
    BY <1>1, <1>4 DEF BadRequest, BadToken, Refuse, RequestAt, PendingAt
  <2>2. answer'[q] = answer[q] \/ answer'[q] = Err
    BY <1>4, RespondAnswers DEF BadRequest, BadToken, Panic
  <2> QED
    BY <2>1, <2>2, Unanswered, Statuses DEF Silent
<1>5. CASE Handle(q) \/ DbError(q)
  BY <1>1, <1>5, FindNameStep, FindReceiverStep, InsertUserStep, InsertReceiverStep,
     GetEpochStep, OtherStep DEF Handle
<1> QED
  BY <1>2, <1>3, <1>4, <1>5, RequestStep DEF Moves

LEMMA IInvStep == IInv /\ [Next]_vars => IInv'
BY TypeStep, TableInvStep, RequestInvStep, AnswerInvStep DEF IInv, TableInv, RequestInv

\* IInv holds in every state that nodes, requests and the command line reach.
THEOREM Invariant == Spec => []IInv
<1>1. Init => IInv
  BY InitInv
<1>2. IInv /\ [Next]_vars => IInv'
  BY IInvStep
<1> QED
  BY <1>1, <1>2, PTL DEF Spec

-----------------------------------------------------------------------------
(***************************************************************************)
(* The properties.                                                         *)
(***************************************************************************)

\* All nodes that serve use the key stored for orand, which is what getPublicKey
\* has answered, however many nodes start at once on an empty database, with or
\* without SECRET_KEY (KeysAgree).
THEOREM KeysAlwaysAgree == Spec => []KeysAgree
<1>1. IInv => KeysAgree
  BY DEF IInv, TableInv, AnswerInv, Serving, KeysAnswered, KeysAgree
<1> QED
  BY <1>1, Invariant, PTL

\* A secret that addUser or getUser has handed out authenticates its user
\* forever, also when several requests add the same user (SecretsWork).
THEOREM SecretsAlwaysWork == Spec => []SecretsWork
<1>1. IInv => SecretsWork
  BY DEF IInv, AnswerInv
<1> QED
  BY <1>1, Invariant, PTL

\* Every page that getEpoch answers is an unbroken run of epochs, for any limit
\* and while other requests issue epochs (PagesAreUnbroken).
THEOREM PagesAlwaysUnbroken == Spec => []PagesAreUnbroken
<1>1. IInv => PagesAreUnbroken
  BY DEF IInv, AnswerInv
<1> QED
  BY <1>1, Invariant, PTL

\* A receiver stays with its owner, and is there once addReceiver has answered,
\* also when several requests register it (ReceiversStay).
THEOREM ReceiversAlwaysStay == Spec => ReceiversStay
<1>1. ASSUME IInv, [Next]_vars
      PROVE  /\ \A r \in Receivers : receiver[r] # NoOne =>
                  receiver'[r] = receiver[r] /\ Known(receiver[r])
             /\ \A q \in Requests : Answered(q, "addReceiver") => receiver[call[q].rcv] # NoOne
  <2>1. TypeInv /\ Owned /\ ReceiversAnswered
    BY <1>1 DEF IInv, TableInv, AnswerInv
  <2>2. TablesGrow
    BY <1>1, <2>1, TablesStep
  <2> QED
    BY <2>1, <2>2 DEF TablesGrow, Owned, ReceiversAnswered, Registered
<1> QED
  BY <1>1, Invariant, PTL DEF Spec, ReceiversStay

\* A request that is served at one of the later awaits has a token of its user.
LEMMA ServedByUser ==
  ASSUME IInv, NEW q \in Requests, pc[q] \in Awaits \ {"user"}, pc'[q] = "done"
  PROVE  /\ call[q].user \in Users /\ ServedBy(call[q].user) /\ ~ Denied(call[q])
<1>1. Authentic(q) /\ call[q].user \in Users
  BY DEF IInv, RequestInv, Authenticated, TypeInv, Call
<1> QED
  BY <1>1 DEF Authentic, Verified, ServedBy

LEMMA Done ==
  ASSUME IInv, NEW q \in Requests, InsertUser(q) \/ InsertReceiver(q) \/ NewEpoch(q)
  PROVE  pc[q] \in Awaits \ {"user"} /\ pc'[q] = "done"
BY DEF IInv, TypeInv, InsertUser, InsertReceiver, NewEpoch, Awaits, Respond, Panic, Goto

LEMMA ReceiversAuthorized ==
  ASSUME IInv, [Next]_vars, receiver' # receiver
  PROVE  ServedBy(Orand)
<1>1. PICK q \in Requests : InsertReceiver(q)
  BY DEF Next, vars, tables, Start, InsertKey, CliUser, Crash, Arrive, BadRequest, BadToken,
         Refuse, Handle, Authenticate, FindName, InsertUser, FindReceiver, ListReceivers,
         GetEpoch, NewEpoch, DbError
<1>2. call[q].method = "addReceiver"
  BY <1>1 DEF InsertReceiver, IInv, RequestInv, Dispatched, DispatchedTo
<1>3. ServedBy(call[q].user) /\ ~ Denied(call[q])
  BY <1>1, Done, ServedByUser
<1> QED
  BY <1>2, <1>3 DEF Denied

LEMMA UsersAuthorized ==
  ASSUME IInv, [Next]_vars, NEW u \in Users, keyring'[u].key \in Requests,
         keyring'[u] # keyring[u]
  PROVE  ServedBy(Orand)
<1>1. TypeInv /\ Generated
  BY DEF IInv, TableInv
<1>2. ASSUME NEW n \in Nodes, InsertKey(n) PROVE FALSE
  <2>1. keyring'[u].key = keypair[n] /\ status[n] = "generate"
    BY <1>1, <1>2 DEF InsertKey, TypeInv
  <2> QED
    BY <1>1, <2>1, NodeAssumption DEF Generated, Makers
<1>3. ASSUME NEW v \in Users, CliUser(v) PROVE FALSE
  <2>1. keyring'[u].key = v
    BY <1>1, <1>3 DEF CliUser, CliRow, TypeInv
  <2> QED
    BY <2>1, NodeAssumption
<1>4. PICK q \in Requests : InsertUser(q)
  BY <1>2, <1>3
  DEF Next, vars, tables, Start, Crash, Arrive, BadRequest, BadToken, Refuse, Handle,
      Authenticate, FindName, InsertReceiver, FindReceiver, ListReceivers, GetEpoch,
      NewEpoch, DbError
<1>5. call[q].method = "addUser"
  BY <1>4 DEF InsertUser, IInv, RequestInv, Dispatched, DispatchedTo
<1>6. ServedBy(call[q].user) /\ ~ Denied(call[q])
  BY <1>4, Done, ServedByUser
<1> QED
  BY <1>5, <1>6 DEF Denied

LEMMA EpochsAuthorized ==
  ASSUME IInv, [Next]_vars, NEW r \in Receivers, nonce'[r] # nonce[r]
  PROVE  ServedBy(receiver[r]) /\ (r \in Public => ServedBy(Orand))
<1>1. PICK q \in Requests : NewEpoch(q)
  BY DEF Next, vars, tables, Start, InsertKey, CliUser, Crash, Arrive, BadRequest, BadToken,
         Refuse, Handle, Authenticate, FindName, InsertUser, InsertReceiver, FindReceiver,
         ListReceivers, GetEpoch, DbError
<1>2. r = call[q].rcv /\ receiver[r] = call[q].user
  BY <1>1 DEF NewEpoch, IInv, TypeInv
<1>3. call[q].method = "newEpoch"
  BY <1>1 DEF NewEpoch, IInv, RequestInv, Dispatched, DispatchedTo
<1>4. ServedBy(call[q].user) /\ ~ Denied(call[q])
  BY <1>1, Done, ServedByUser
<1> QED
  BY <1>2, <1>3, <1>4 DEF Denied

\* Requests add receivers, users and epochs of public receivers only with a
\* token that orand signed, and epochs of a receiver only with its owner's,
\* whatever happens between the awaits of a request (Authorized).
THEOREM AlwaysAuthorized == Spec => Authorized
<1>1. ASSUME IInv, [Next]_vars
      PROVE  /\ receiver' # receiver => ServedBy(Orand)
             /\ \A u \in Users : keyring'[u].key \in Requests /\ keyring'[u] # keyring[u] =>
                  ServedBy(Orand)
             /\ \A r \in Receivers : nonce'[r] # nonce[r] =>
                  ServedBy(receiver[r]) /\ (r \in Public => ServedBy(Orand))
  BY <1>1, ReceiversAuthorized, UsersAuthorized, EpochsAuthorized
<1> QED
  BY <1>1, Invariant, PTL DEF Spec, Authorized
=============================================================================
