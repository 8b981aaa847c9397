--------------------------- MODULE EpochIssuance ---------------------------
(***************************************************************************)
(* orand_newPublicEpoch and orand_newPrivateEpoch: how the tasks of one or *)
(* several Orand nodes issue epochs over one Postgres database.            *)
(*                                                                         *)
(* A request is a tokio task suspended at one of the awaits of             *)
(* RandomnessTable::safe_insert; every action below is what the task or    *)
(* the database does between two awaits.  The mutex NodeContext.sync lives *)
(* in the memory of one node, the transaction in the database: a task that *)
(* returns, fails or is dropped releases the mutex at once, while its      *)
(* transaction ends when the database gets to it.  Transactions run at     *)
(* READ COMMITTED, Postgres's default: each SELECT sees what is committed  *)
(* when it executes, and an UPDATE waits for the lock of its row.          *)
(***************************************************************************)
EXTENDS Vrf, Sequences

CONSTANTS
  Nodes,       \* node processes on the database; restarts reuse the name
  Receivers,   \* the (address, network) pairs that may be registered
  Public,      \* those whose address is ZERO_ADDRESS
  Users,       \* usernames in the keyring table
  Orand,       \* ORAND_KEYRING_NAME
  Nobody,      \* no holder of a mutex, no owner of a receiver
  LateCommit   \* may a COMMIT take effect after its task is gone?

ASSUME IssuanceAssumption ==
  /\ Public \subseteq Receivers
  /\ Orand \in Users
  /\ Nobody \notin Requests \cup Users
  /\ LateCommit \in BOOLEAN

VARIABLES
  \* the database
  owner,       \* receiver.keyring_id, Nobody while there is no such row
  nonce,       \* receiver.nonce
  randomness,  \* the committed rows of each receiver, in the order of id
  txn,         \* the transaction a request has opened
  \* the nodes
  sync,        \* the holder of each node's NodeContext.sync
  \* the tasks
  args,        \* the node a request is sent to, its user and receiver
  pc,          \* the await at which the task of a request is suspended
  seen,        \* receiver_record.nonce
  alpha,       \* alpha
  result       \* what safe_insert is about to return or has returned

tables == <<owner, nonce, randomness>>
locals == <<seen, alpha, result>>
vars == <<owner, nonce, randomness, txn, sync, args, pc, seen, alpha, result>>

(***************************************************************************)
(* The awaits of a task.  "idle": the client has not sent the request;     *)
(* "done": the answer was sent; "gone": the task was dropped, because its  *)
(* client hung up or its node died, and no answer will ever be sent.       *)
(***************************************************************************)
InTxn   == {"lookup", "latest", "save", "insert", "commit"}
Holding == {"begin"} \cup InTxn
Awaits  == {"lock"} \cup Holding
Ended   == {"done", "gone"}

(***************************************************************************)
(* "open" has written nothing, "dirty" holds the lock of the receiver row  *)
(* it updated, "committing" has both writes and its COMMIT on the wire,    *)
(* "aborted" was aborted by a failed statement and holds no lock.          *)
(***************************************************************************)
TxnStates == {"none", "open", "dirty", "committing", "aborted"}
Locking   == {"dirty", "committing"}

Results == {"none", "ok", "denied", "not_found", "conflict", "db_error"}

Rcv(q) == args[q].rcv
NewRow(q) == [epoch |-> seen[q], alpha |-> alpha[q]]

Init ==
  /\ owner = [r \in Receivers |-> Nobody]
  /\ nonce = [r \in Receivers |-> 0]
  /\ randomness = [r \in Receivers |-> <<>>]
  /\ txn = [q \in Requests |-> "none"]
  /\ sync = [n \in Nodes |-> Nobody]
  /\ args \in [Requests -> [node : Nodes, user : Users, rcv : Receivers]]
  /\ pc = [q \in Requests |-> "idle"]
  /\ seen = [q \in Requests |-> 0]
  /\ alpha = [q \in Requests |-> Randomize(q)]
  /\ result = [q \in Requests |-> "none"]

Goto(q, await) == pc' = [pc EXCEPT ![q] = await]

\* The guard _lock of a returning or dropped task is dropped with it.
Unlock(q) ==
  sync' = [n \in Nodes |-> IF sync[n] = q THEN Nobody ELSE sync[n]]

\* Mutant of ReturnErr: the guard is kept when an error is returned.
ReturnErrLocked(q, error) ==
  /\ Goto(q, "done")
  /\ UNCHANGED sync
  /\ result' = [result EXCEPT ![q] = error]

\* safe_insert returns Err: the guard is dropped and the answer is sent.
ReturnErr(q, error) ==
  /\ Goto(q, "done")
  /\ Unlock(q)
  /\ result' = [result EXCEPT ![q] = error]

-----------------------------------------------------------------------------
(***************************************************************************)
(* The task of request q.                                                  *)
(***************************************************************************)

\* The row that admin_addReceiver inserts for r and the user u.
Register(r, u) ==
  /\ owner[r] = Nobody
  /\ owner' = [owner EXCEPT ![r] = u]
  /\ nonce' = [nonce EXCEPT ![r] = 0]
  /\ UNCHANGED <<randomness, txn, sync, args, pc, locals>>

\* The authenticated request is dispatched: only orand may issue for the
\* zero address.
Arrive(q) ==
  /\ pc[q] = "idle"
  /\ IF Rcv(q) \in Public /\ args[q].user # Orand
       THEN Goto(q, "done") /\ result' = [result EXCEPT ![q] = "denied"]
       ELSE Goto(q, "lock") /\ UNCHANGED result
  /\ UNCHANGED <<tables, txn, sync, args, seen, alpha>>

\* Mutant of Lock: the mutex belongs to the request, not to the node.
LockShared(q) ==
  /\ pc[q] = "lock"
  /\ sync' = [sync EXCEPT ![args[q].node] = q]
  /\ Goto(q, "begin")
  /\ UNCHANGED <<tables, txn, args, locals>>

Lock(q) ==
  /\ pc[q] = "lock"
  /\ sync[args[q].node] = Nobody
  /\ sync' = [sync EXCEPT ![args[q].node] = q]
  /\ Goto(q, "begin")
  /\ UNCHANGED <<tables, txn, args, locals>>

Begin(q) ==
  /\ pc[q] = "begin"
  /\ txn' = [txn EXCEPT ![q] = "open"]
  /\ Goto(q, "lookup")
  /\ UNCHANGED <<tables, sync, args, locals>>

\* The receiver row with this address, network and keyring is read.
Lookup(q) ==
  /\ pc[q] = "lookup"
  /\ IF owner[Rcv(q)] = args[q].user
       THEN /\ seen' = [seen EXCEPT ![q] = nonce[Rcv(q)]]
            /\ Goto(q, "latest")
            /\ UNCHANGED <<sync, result>>
       ELSE ReturnErr(q, "not_found") /\ UNCHANGED seen
  /\ UNCHANGED <<tables, txn, args, alpha>>

\* Mutant of LatestRows: the epochs in ascending order.
OldestRows(r) ==
  {i \in DOMAIN randomness[r] :
     \A j \in DOMAIN randomness[r] :
        randomness[r][j].epoch >= randomness[r][i].epoch}

\* ORDER BY epoch DESC LIMIT 1: a row with the greatest epoch.
LatestRows(r) ==
  {i \in DOMAIN randomness[r] :
     \A j \in DOMAIN randomness[r] :
        randomness[r][j].epoch <= randomness[r][i].epoch}

\* Mutant of AlphaOf: every epoch starts from a random scalar.
AlphaFresh(q, r) == {Randomize(q)}

\* What a task may take as alpha from what it reads of the rows of r.
AlphaOf(q, r) ==
  IF randomness[r] = <<>> THEN {Randomize(q)}
                          ELSE {Y(randomness[r][i]) : i \in LatestRows(r)}

\* The latest epoch is read; its output is proved, verified and signed
\* without a further await.
Latest(q) ==
  /\ pc[q] = "latest"
  /\ \E a \in AlphaOf(q, Rcv(q)) : alpha' = [alpha EXCEPT ![q] = a]
  /\ Goto(q, "save")
  /\ UNCHANGED <<tables, txn, sync, args, seen, result>>

\* UPDATE receiver SET nonce: it waits while another transaction holds the
\* row, and then writes seen + 1 whatever the row holds by now.
RowLocked(q) ==
  \E p \in Requests \ {q} : txn[p] \in Locking /\ Rcv(p) = Rcv(q)

Save(q) ==
  /\ pc[q] = "save"
  /\ ~ RowLocked(q)
  /\ txn' = [txn EXCEPT ![q] = "dirty"]
  /\ Goto(q, "insert")
  /\ UNCHANGED <<tables, sync, args, locals>>

\* Mutant of AlphaTaken: the table has no unique index.
NoIndex(a) == FALSE

\* index_alpha: no committed row of any receiver has this alpha.  index_y
\* refuses the same rows, the output being an injective function of alpha.
AlphaTaken(a) ==
  \E r \in Receivers : \E i \in DOMAIN randomness[r] : randomness[r][i].alpha = a

\* Mutant of Insert: the outcome of the INSERT is forgotten.
InsertIgnored(q) ==
  /\ pc[q] = "insert"
  /\ txn' = [txn EXCEPT ![q] = IF AlphaTaken(alpha[q]) THEN "aborted" ELSE "committing"]
  /\ result' = [result EXCEPT ![q] = "ok"]
  /\ Goto(q, "commit")
  /\ UNCHANGED <<tables, sync, args, seen, alpha>>

\* INSERT INTO randomness.  Its outcome is kept and the transaction is
\* committed in either case; a failed statement has aborted it.
Insert(q) ==
  /\ pc[q] = "insert"
  /\ IF AlphaTaken(alpha[q])
       THEN /\ txn' = [txn EXCEPT ![q] = "aborted"]
            /\ result' = [result EXCEPT ![q] = "conflict"]
       ELSE /\ txn' = [txn EXCEPT ![q] = "committing"]
            /\ result' = [result EXCEPT ![q] = "ok"]
  /\ Goto(q, "commit")
  /\ UNCHANGED <<tables, sync, args, seen, alpha>>

InsertError(q) ==
  /\ pc[q] = "insert"
  /\ txn' = [txn EXCEPT ![q] = "aborted"]
  /\ result' = [result EXCEPT ![q] = "db_error"]
  /\ Goto(q, "commit")
  /\ UNCHANGED <<tables, sync, args, seen, alpha>>

\* The database has acknowledged the COMMIT; the kept outcome is returned.
Return(q) ==
  /\ pc[q] = "commit"
  /\ txn[q] = "none"
  /\ Goto(q, "done")
  /\ Unlock(q)
  /\ UNCHANGED <<tables, txn, args, locals>>

-----------------------------------------------------------------------------
(***************************************************************************)
(* The database.                                                           *)
(***************************************************************************)

\* Mutant of NextNonce: the nonce counts down.
NonceDown(n) == n - 1

\* ActiveValue::Set(receiver_nonce + 1)
NextNonce(n) == n + 1

\* COMMIT of a transaction in which every statement succeeded.
ServerCommit(q) ==
  /\ txn[q] = "committing"
  /\ nonce' = [nonce EXCEPT ![Rcv(q)] = NextNonce(seen[q])]
  /\ randomness' = [randomness EXCEPT ![Rcv(q)] = Append(@, NewRow(q))]
  /\ txn' = [txn EXCEPT ![q] = "none"]
  /\ UNCHANGED <<owner, sync, args, pc, locals>>

\* Mutant of ServerRollback: a dropped transaction is left open.
RollbackReturned(q) ==
  /\ pc[q] = "commit" /\ txn[q] = "aborted"
  /\ txn' = [txn EXCEPT ![q] = "none"]
  /\ UNCHANGED <<tables, sync, args, pc, locals>>

\* The ROLLBACK queued when the transaction of an ended task is dropped, and
\* the COMMIT of an aborted transaction, which Postgres turns into one.
ServerRollback(q) ==
  /\ \/ pc[q] \in Ended /\ txn[q] \in {"open", "dirty", "aborted"}
     \/ pc[q] = "commit" /\ txn[q] = "aborted"
  /\ txn' = [txn EXCEPT ![q] = "none"]
  /\ UNCHANGED <<tables, sync, args, pc, locals>>

-----------------------------------------------------------------------------
(***************************************************************************)
(* Failures.  A COMMIT whose task is gone may still be on its way to the   *)
(* database only if LateCommit.                                            *)
(***************************************************************************)

\* begin, a SELECT or the UPDATE fails, or the proof or its verification in
\* the virtual machine does: safe_insert returns the error.
DbError(q) ==
  /\ pc[q] \in {"begin", "lookup", "latest", "save"}
  /\ ReturnErr(q, "db_error")
  /\ UNCHANGED <<tables, txn, args, seen, alpha>>

\* The answer to the COMMIT is lost with the connection, before or after the
\* database has executed it.
CommitError(q) ==
  /\ pc[q] = "commit"
  /\ ReturnErr(q, "db_error")
  /\ \/ txn[q] = "committing" /\ LateCommit /\ UNCHANGED txn
     \/ txn[q] = "committing" /\ txn' = [txn EXCEPT ![q] = "aborted"]
     \/ txn[q] # "committing" /\ UNCHANGED txn
  /\ UNCHANGED <<tables, args, seen, alpha>>

\* The client disconnects and hyper drops the task at its await.
Hangup(q) ==
  /\ pc[q] \in Awaits
  /\ txn[q] = "committing" => LateCommit
  /\ Goto(q, "gone")
  /\ Unlock(q)
  /\ UNCHANGED <<tables, txn, args, locals>>

\* The process dies with all its tasks and is started again on the same
\* database, where it finds the key of orand.
Crash(n) ==
  /\ \A q \in Requests : args[q].node = n /\ pc[q] = "commit"
                           => txn[q] # "committing" \/ LateCommit
  /\ \E q \in Requests : args[q].node = n /\ pc[q] \in Awaits
  /\ pc' = [q \in Requests |->
              IF args[q].node = n /\ pc[q] \in Awaits THEN "gone" ELSE pc[q]]
  /\ sync' = [sync EXCEPT ![n] = Nobody]
  /\ UNCHANGED <<tables, txn, args, locals>>

-----------------------------------------------------------------------------
Step(q) == \/ Lock(q) \/ Begin(q) \/ Lookup(q) \/ Latest(q)
           \/ Save(q) \/ Insert(q) \/ Return(q)

Server(q) == ServerCommit(q) \/ ServerRollback(q)

Failure(q) == DbError(q) \/ InsertError(q) \/ CommitError(q) \/ Hangup(q)

Next ==
  \/ \E r \in Receivers, u \in Users : Register(r, u)
  \/ \E q \in Requests : Arrive(q) \/ Step(q) \/ Server(q) \/ Failure(q)
  \/ \E n \in Nodes : Crash(n)

Spec == Init /\ [][Next]_vars

\* tokio polls a woken task, and the database answers a statement.
Fairness == \A q \in Requests : WF_vars(Step(q)) /\ WF_vars(Server(q))

FairSpec == Spec /\ Fairness
-----------------------------------------------------------------------------
(***************************************************************************)
(* Properties.                                                             *)
(***************************************************************************)

\* Every variable keeps its type; in particular no nonce or epoch ever
\* becomes negative and no task waits anywhere but at an await.
TypeOK ==
  /\ owner \in [Receivers -> Users \cup {Nobody}]
  /\ nonce \in [Receivers -> Nat]
  /\ randomness \in [Receivers -> Seq(Row)]
  /\ txn \in [Requests -> TxnStates]
  /\ sync \in [Nodes -> Requests \cup {Nobody}]
  /\ args \in [Requests -> [node : Nodes, user : Users, rcv : Receivers]]
  /\ pc \in [Requests -> {"idle"} \cup Awaits \cup Ended]
  /\ seen \in [Requests -> Nat]
  /\ alpha \in [Requests -> Scalar]
  /\ result \in [Requests -> Results]

\* The VRF is computed on the previous randomness of the receiver: a row
\* takes as alpha the output of the row inserted before it.
PreviousRandomness ==
  \A r \in Receivers : \A i \in DOMAIN randomness[r] :
    i > 1 => randomness[r][i].alpha = Y(randomness[r][i - 1])

\* The rows of a receiver are the epochs 0 .. nonce - 1, each once, in the
\* order they were inserted, and they form one chain.
ChainedEpochs ==
  /\ \A r \in Receivers :
       /\ nonce[r] = Len(randomness[r])
       /\ \A i \in DOMAIN randomness[r] : randomness[r][i].epoch = i - 1
  /\ PreviousRandomness

\* The unique indexes never refuse an epoch: with the mutex held they are a
\* second line of defence that no request runs into.
NoConflict == \A q \in Requests : result[q] # "conflict"

\* The requests whose client was sent an epoch.
Delivered == {q \in Requests : pc[q] = "done" /\ result[q] = "ok"}

\* An epoch sent to a client is a committed row of the receiver it asked
\* for, its user owns that receiver, and no other client was sent that row.
DeliveredIsDurable ==
  \A q \in Delivered :
    /\ \E i \in DOMAIN randomness[Rcv(q)] : randomness[Rcv(q)][i] = NewRow(q)
    /\ owner[Rcv(q)] = args[q].user
    /\ \A p \in Delivered \ {q} : Rcv(p) = Rcv(q) => NewRow(p) # NewRow(q)

\* Whatever interleaves, the output of an epoch is the input of at most one
\* other, and an input is a fresh random scalar or the output of an earlier
\* row of the same receiver.
NoFork ==
  \A r \in Receivers : \A i \in DOMAIN randomness[r] :
    LET a == randomness[r][i].alpha IN
    /\ a[2] = 0 \/ \E j \in 1 .. i - 1 : a = Y(randomness[r][j])
    /\ \A s \in Receivers : \A j \in DOMAIN randomness[s] :
         randomness[s][j].alpha = a => <<s, j>> = <<r, i>>

\* A request that entered the queue for the mutex is answered, unless its
\* client or its node goes away: the mutex is never left locked.
QueuedIsAnswered == \A q \in Requests : pc[q] = "lock" ~> pc[q] \in Ended

\* A transaction does not stay open, also when its task is gone: the row
\* lock other nodes wait for is released.
TransactionsEnd == \A q \in Requests : txn[q] = "open" ~> txn[q] = "none"

\* The node keeps the promise of EpochChain.
Chain == INSTANCE EpochChain WITH
  chain <- randomness,
  delivered <- {<<Rcv(q), seen[q] + 1>> : q \in Delivered}
ImplementsChain == Chain!Spec
=============================================================================
