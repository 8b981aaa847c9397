------------------------ MODULE EpochIssuanceProofs ------------------------
(***************************************************************************)
(* Theorems about EpochIssuance for every set of requests, receivers and   *)
(* users: those of any number of nodes and COMMITs that may outlive their  *)
(* task, and then those of the chain of epochs, which needs a single node. *)
(***************************************************************************)
EXTENDS EpochIssuance, TLAPS

(***************************************************************************)
(* Type correctness.                                                       *)
(***************************************************************************)

\* The symbolic VRF stays within the scalars.
LEMMA ScalarClosed ==
  /\ \A q \in Requests : Randomize(q) \in Scalar
  /\ \A a \in Scalar : ProveContract(a) \in Scalar
BY DEF Randomize, ProveContract, Scalar

\* What a SELECT of the latest epoch may give a task is a scalar.
LEMMA AlphaIsScalar ==
  ASSUME TypeOK, NEW q \in Requests, NEW r \in Receivers
  PROVE  AlphaOf(q, r) \subseteq Scalar
<1>1. CASE randomness[r] = <<>>
  BY <1>1, ScalarClosed DEF AlphaOf
<1>2. CASE randomness[r] # <<>>
  <2>1. randomness[r] \in Seq(Row)
    BY DEF TypeOK
  <2>2. \A i \in DOMAIN randomness[r] : randomness[r][i] \in Row
    BY <2>1
  <2>3. \A i \in LatestRows(r) : Y(randomness[r][i]) \in Scalar
    BY <2>2, ScalarClosed DEF LatestRows, Y, Row
  <2>4. QED
    BY <1>2, <2>3 DEF AlphaOf
<1>3. QED
  BY <1>1, <1>2

\* No handler, failure or database step takes a variable out of its type.
LEMMA TypeStep == IssuanceAssumption /\ TypeOK /\ [Next]_vars => TypeOK'
<1> SUFFICES ASSUME IssuanceAssumption, TypeOK, [Next]_vars PROVE TypeOK'
  OBVIOUS
<1> USE DEF TypeOK, tables, locals, Results, TxnStates, Awaits, Holding, InTxn, Ended
<1>1. ASSUME NEW r \in Receivers, NEW u \in Users, Register(r, u) PROVE TypeOK'
  BY <1>1 DEF Register
<1>2. ASSUME NEW q \in Requests, Arrive(q) PROVE TypeOK'
  BY <1>2 DEF Arrive, Goto
<1>3. ASSUME NEW q \in Requests, Lock(q) PROVE TypeOK'
  BY <1>3 DEF Lock, Goto
<1>4. ASSUME NEW q \in Requests, Begin(q) PROVE TypeOK'
  BY <1>4 DEF Begin, Goto
<1>5. ASSUME NEW q \in Requests, Lookup(q) PROVE TypeOK'
  <2>1. nonce[Rcv(q)] \in Nat
    BY DEF Rcv
  <2>2. CASE owner[Rcv(q)] = args[q].user
    BY <1>5, <2>1, <2>2 DEF Lookup, Goto
  <2>3. CASE owner[Rcv(q)] # args[q].user
    <3>1. ReturnErr(q, "not_found") /\ UNCHANGED <<tables, txn, args, seen, alpha>>
      BY <1>5, <2>3 DEF Lookup
    <3>2. QED
      BY <3>1 DEF ReturnErr, Goto, Unlock
  <2>4. QED
    BY <2>2, <2>3
<1>6. ASSUME NEW q \in Requests, Latest(q) PROVE TypeOK'
  <2>1. PICK a \in AlphaOf(q, Rcv(q)) : alpha' = [alpha EXCEPT ![q] = a]
    BY <1>6 DEF Latest
  <2>2. Rcv(q) \in Receivers
    BY DEF Rcv
  <2>3. a \in Scalar
    BY <2>1, <2>2, AlphaIsScalar
  <2>4. QED
    BY <1>6, <2>1, <2>3 DEF Latest, Goto
<1>7. ASSUME NEW q \in Requests, Save(q) PROVE TypeOK'
  BY <1>7 DEF Save, Goto
<1>8. ASSUME NEW q \in Requests, Insert(q) PROVE TypeOK'
  BY <1>8 DEF Insert, Goto
<1>9. ASSUME NEW q \in Requests, Return(q) PROVE TypeOK'
  BY <1>9 DEF Return, Goto, Unlock
<1>10. ASSUME NEW q \in Requests, ServerCommit(q) PROVE TypeOK'
  <2>1. NewRow(q) \in Row /\ NextNonce(seen[q]) \in Nat /\ Rcv(q) \in Receivers
    BY DEF NewRow, Row, NextNonce, Rcv
  <2>2. Append(randomness[Rcv(q)], NewRow(q)) \in Seq(Row)
    BY <2>1
  <2>3. QED
    BY <1>10, <2>1, <2>2 DEF ServerCommit
<1>11. ASSUME NEW q \in Requests, ServerRollback(q) PROVE TypeOK'
  BY <1>11 DEF ServerRollback
<1>12. ASSUME NEW q \in Requests, DbError(q) PROVE TypeOK'
  BY <1>12 DEF DbError, ReturnErr, Goto, Unlock
<1>13. ASSUME NEW q \in Requests, InsertError(q) PROVE TypeOK'
  BY <1>13 DEF InsertError, Goto
<1>14. ASSUME NEW q \in Requests, CommitError(q) PROVE TypeOK'
  BY <1>14 DEF CommitError, ReturnErr, Goto, Unlock
<1>15. ASSUME NEW q \in Requests, Hangup(q) PROVE TypeOK'
  BY <1>15 DEF Hangup, Goto, Unlock
<1>16. ASSUME NEW n \in Nodes, Crash(n) PROVE TypeOK'
  BY <1>16 DEF Crash
<1>17. CASE UNCHANGED vars
  BY <1>17 DEF vars
<1>18. QED
  BY <1>1, <1>2, <1>3, <1>4, <1>5, <1>6, <1>7, <1>8, <1>9, <1>10, <1>11,
     <1>12, <1>13, <1>14, <1>15, <1>16, <1>17 DEF Next, Step, Server, Failure

\* Every reachable state is well typed, whatever fails and however many
\* nodes share the database.
THEOREM TypeCorrect == Spec => []TypeOK
<1>1. Init => TypeOK
  BY IssuanceAssumption, ScalarClosed
  DEF Init, TypeOK, IssuanceAssumption, Results, TxnStates, Awaits, Holding, InTxn, Ended
<1>2. QED
  BY <1>1, TypeStep, IssuanceAssumption, PTL DEF Spec

-----------------------------------------------------------------------------
(***************************************************************************)
(* Facts that hold for any number of nodes and with late COMMITs.          *)
(***************************************************************************)

\* The await of a task tells what its transaction has done so far.
TxnInv ==
  \A q \in Requests :
    /\ pc[q] \in {"idle", "lock", "begin"} => txn[q] = "none"
    /\ pc[q] \in {"lookup", "latest", "save"} => txn[q] = "open"
    /\ pc[q] = "insert" => txn[q] = "dirty"

\* A task inside safe_insert holds the mutex of its node.
MutexInv == \A q \in Requests : pc[q] \in Holding => sync[args[q].node] = q

\* A row lock has one holder.
RowLockInv ==
  \A p, q \in Requests :
    p # q /\ txn[p] \in Locking /\ txn[q] \in Locking => Rcv(p) # Rcv(q)

\* Transactions follow their task, and Postgres's row locks exclude.
LEMMA LockStep ==
  TypeOK /\ TxnInv /\ RowLockInv /\ [Next]_vars => TxnInv' /\ RowLockInv'
<1> SUFFICES ASSUME TypeOK, TxnInv, RowLockInv, [Next]_vars
             PROVE  TxnInv' /\ RowLockInv'
  OBVIOUS
<1> USE DEF TypeOK, TxnInv, RowLockInv, Rcv, tables, locals, TxnStates, Locking,
            Awaits, Holding, InTxn, Ended
<1>1. ASSUME NEW r \in Receivers, NEW u \in Users, Register(r, u) PROVE TxnInv' /\ RowLockInv'
  BY <1>1 DEF Register
<1>2. ASSUME NEW q \in Requests, Arrive(q) PROVE TxnInv' /\ RowLockInv'
  BY <1>2 DEF Arrive, Goto
<1>3. ASSUME NEW q \in Requests, Lock(q) PROVE TxnInv' /\ RowLockInv'
  BY <1>3 DEF Lock, Goto
<1>4. ASSUME NEW q \in Requests, Begin(q) PROVE TxnInv' /\ RowLockInv'
  BY <1>4 DEF Begin, Goto
<1>5. ASSUME NEW q \in Requests, Lookup(q) PROVE TxnInv' /\ RowLockInv'
  BY <1>5 DEF Lookup, Goto, ReturnErr, Unlock
<1>6. ASSUME NEW q \in Requests, Latest(q) PROVE TxnInv' /\ RowLockInv'
  BY <1>6 DEF Latest, Goto
<1>7. ASSUME NEW q \in Requests, Save(q) PROVE TxnInv' /\ RowLockInv'
  BY <1>7 DEF Save, Goto, RowLocked
<1>8. ASSUME NEW q \in Requests, Insert(q) PROVE TxnInv' /\ RowLockInv'
  <2>1. /\ args' = args
        /\ \A p \in Requests : p # q => pc'[p] = pc[p] /\ txn'[p] = txn[p]
    BY <1>8 DEF Insert, Goto
  <2>2. /\ txn[q] = "dirty" /\ txn'[q] \in {"aborted", "committing"}
        /\ pc'[q] = "commit"
    BY <1>8 DEF Insert, Goto
  <2>3. TxnInv'
    BY <2>1, <2>2
  <2>4. RowLockInv'
    <3>1. \A p \in Requests : txn'[p] \in Locking => txn[p] \in Locking
      BY <2>1, <2>2
    <3> QED BY <2>1, <3>1, Zenon
  <2> QED BY <2>3, <2>4
<1>9. ASSUME NEW q \in Requests, Return(q) PROVE TxnInv' /\ RowLockInv'
  BY <1>9 DEF Return, Goto, Unlock
<1>10. ASSUME NEW q \in Requests, ServerCommit(q) PROVE TxnInv' /\ RowLockInv'
  BY <1>10 DEF ServerCommit
<1>11. ASSUME NEW q \in Requests, ServerRollback(q) PROVE TxnInv' /\ RowLockInv'
  BY <1>11 DEF ServerRollback
<1>12. ASSUME NEW q \in Requests, DbError(q) PROVE TxnInv' /\ RowLockInv'
  BY <1>12 DEF DbError, ReturnErr, Goto, Unlock
<1>13. ASSUME NEW q \in Requests, InsertError(q) PROVE TxnInv' /\ RowLockInv'
  BY <1>13 DEF InsertError, Goto
<1>14. ASSUME NEW q \in Requests, CommitError(q) PROVE TxnInv' /\ RowLockInv'
  <2>1. /\ args' = args
        /\ \A p \in Requests : p # q => pc'[p] = pc[p] /\ txn'[p] = txn[p]
    BY <1>14 DEF CommitError, ReturnErr, Goto
  <2>2. /\ txn'[q] = txn[q] \/ txn'[q] = "aborted"
        /\ pc'[q] \in Ended
    BY <1>14 DEF CommitError, ReturnErr, Goto
  <2>3. TxnInv'
    BY <2>1, <2>2
  <2>4. RowLockInv'
    <3>1. \A p \in Requests : txn'[p] \in Locking => txn[p] \in Locking
      BY <2>1, <2>2
    <3> QED BY <2>1, <3>1, Zenon
  <2> QED BY <2>3, <2>4
<1>15. ASSUME NEW q \in Requests, Hangup(q) PROVE TxnInv' /\ RowLockInv'
  BY <1>15 DEF Hangup, Goto, Unlock
<1>16. ASSUME NEW n \in Nodes, Crash(n) PROVE TxnInv' /\ RowLockInv'
  BY <1>16 DEF Crash
<1>17. CASE UNCHANGED vars
  BY <1>17 DEF vars
<1>18. QED
  BY <1>1, <1>2, <1>3, <1>4, <1>5, <1>6, <1>7, <1>8, <1>9,
     <1>10, <1>11, <1>12, <1>13, <1>14, <1>15, <1>16, <1>17 DEF Next, Step, Server, Failure

\* The guard of the mutex is taken before and released after the
\* transaction, on every path.
LEMMA MutexStep ==
  IssuanceAssumption /\ TypeOK /\ MutexInv /\ [Next]_vars => MutexInv'
<1> SUFFICES ASSUME IssuanceAssumption, TypeOK, MutexInv, [Next]_vars
             PROVE  MutexInv'
  OBVIOUS
<1> USE DEF IssuanceAssumption, TypeOK, MutexInv, Rcv, tables, locals, Awaits,
            Holding, InTxn, Ended
<1>1. ASSUME NEW r \in Receivers, NEW u \in Users, Register(r, u) PROVE MutexInv'
  BY <1>1 DEF Register
<1>2. ASSUME NEW q \in Requests, Arrive(q) PROVE MutexInv'
  BY <1>2 DEF Arrive, Goto
<1>3. ASSUME NEW q \in Requests, Lock(q) PROVE MutexInv'
  BY <1>3 DEF Lock, Goto
<1>4. ASSUME NEW q \in Requests, Begin(q) PROVE MutexInv'
  BY <1>4 DEF Begin, Goto
<1>5. ASSUME NEW q \in Requests, Lookup(q) PROVE MutexInv'
  BY <1>5 DEF Lookup, Goto, ReturnErr, Unlock
<1>6. ASSUME NEW q \in Requests, Latest(q) PROVE MutexInv'
  BY <1>6 DEF Latest, Goto
<1>7. ASSUME NEW q \in Requests, Save(q) PROVE MutexInv'
  BY <1>7 DEF Save, Goto, RowLocked
<1>8. ASSUME NEW q \in Requests, Insert(q) PROVE MutexInv'
  BY <1>8 DEF Insert, Goto
<1>9. ASSUME NEW q \in Requests, Return(q) PROVE MutexInv'
  BY <1>9 DEF Return, Goto, Unlock
<1>10. ASSUME NEW q \in Requests, ServerCommit(q) PROVE MutexInv'
  BY <1>10 DEF ServerCommit
<1>11. ASSUME NEW q \in Requests, ServerRollback(q) PROVE MutexInv'
  BY <1>11 DEF ServerRollback
<1>12. ASSUME NEW q \in Requests, DbError(q) PROVE MutexInv'
  BY <1>12 DEF DbError, ReturnErr, Goto, Unlock
<1>13. ASSUME NEW q \in Requests, InsertError(q) PROVE MutexInv'
  BY <1>13 DEF InsertError, Goto
<1>14. ASSUME NEW q \in Requests, CommitError(q) PROVE MutexInv'
  BY <1>14 DEF CommitError, ReturnErr, Goto, Unlock
<1>15. ASSUME NEW q \in Requests, Hangup(q) PROVE MutexInv'
  BY <1>15 DEF Hangup, Goto, Unlock
<1>16. ASSUME NEW n \in Nodes, Crash(n) PROVE MutexInv'
  BY <1>16 DEF Crash
<1>17. CASE UNCHANGED vars
  BY <1>17 DEF vars
<1>18. QED
  BY <1>1, <1>2, <1>3, <1>4, <1>5, <1>6, <1>7, <1>8, <1>9,
     <1>10, <1>11, <1>12, <1>13, <1>14, <1>15, <1>16, <1>17 DEF Next, Step, Server, Failure

(***************************************************************************)
(* No fork: what the unique index on alpha and the row lock guarantee, for *)
(* any number of nodes and with late COMMITs.                              *)
(***************************************************************************)

\* The task has chosen its input and the row may still be committed.
Pending(q) == pc[q] \in {"save", "insert"} \/ txn[q] = "committing"

\* A pending input is the scalar drawn in its request, or the output of a
\* committed row of its receiver.
PendingInv ==
  \A q \in Requests : Pending(q) =>
    \/ alpha[q] = Randomize(q)
    \/ \E i \in DOMAIN randomness[Rcv(q)] :
         alpha[q] = Y(randomness[Rcv(q)][i])

\* The index accepted the input of every row that waits for its COMMIT.
FreshInv == \A q \in Requests : txn[q] = "committing" => ~ AlphaTaken(alpha[q])

\* The inputs of a receiver stem from scalars drawn in requests for it.
StemInv ==
  \A r \in Receivers : \A i \in DOMAIN randomness[r] :
    \E p \in Requests, k \in Nat :
      Rcv(p) = r /\ randomness[r][i].alpha = <<p, k>>

\* A pending input stems from a scalar drawn for the receiver of its request.
LEMMA PendingStem ==
  ASSUME TypeOK, PendingInv, StemInv, NEW q \in Requests, Pending(q)
  PROVE  \E p \in Requests, k \in Nat : Rcv(p) = Rcv(q) /\ alpha[q] = <<p, k>>
<1>1. CASE alpha[q] = Randomize(q)
  BY <1>1 DEF Randomize
<1>2. CASE \E i \in DOMAIN randomness[Rcv(q)] : alpha[q] = Y(randomness[Rcv(q)][i])
  <2>1. PICK i \in DOMAIN randomness[Rcv(q)] : alpha[q] = Y(randomness[Rcv(q)][i])
    BY <1>2
  <2>2. Rcv(q) \in Receivers
    BY DEF TypeOK, Rcv
  <2>3. PICK p \in Requests, k \in Nat :
          Rcv(p) = Rcv(q) /\ randomness[Rcv(q)][i].alpha = <<p, k>>
    BY <2>2 DEF StemInv
  <2>4. alpha[q] = <<p, k + 1>>
    BY <2>1, <2>3 DEF Y, ProveContract
  <2>5. QED
    BY <2>3, <2>4
<1>3. QED
  BY <1>1, <1>2 DEF PendingInv

\* Rows are only ever appended, one at a time, by a COMMIT.
LEMMA OnlyCommitAppends ==
  ASSUME [Next]_vars
  PROVE  \/ UNCHANGED <<randomness, args>>
         \/ \E q \in Requests : ServerCommit(q)
<1> USE DEF tables
<1>1. ASSUME NEW r \in Receivers, NEW u \in Users, Register(r, u) PROVE UNCHANGED <<randomness, args>> \/ \E p \in Requests : ServerCommit(p)
  BY <1>1 DEF Register
<1>2. ASSUME NEW q \in Requests, Arrive(q) PROVE UNCHANGED <<randomness, args>> \/ \E p \in Requests : ServerCommit(p)
  BY <1>2 DEF Arrive, Goto
<1>3. ASSUME NEW q \in Requests, Lock(q) PROVE UNCHANGED <<randomness, args>> \/ \E p \in Requests : ServerCommit(p)
  BY <1>3 DEF Lock, Goto
<1>4. ASSUME NEW q \in Requests, Begin(q) PROVE UNCHANGED <<randomness, args>> \/ \E p \in Requests : ServerCommit(p)
  BY <1>4 DEF Begin, Goto
<1>5. ASSUME NEW q \in Requests, Lookup(q) PROVE UNCHANGED <<randomness, args>> \/ \E p \in Requests : ServerCommit(p)
  BY <1>5 DEF Lookup, Goto, ReturnErr, Unlock
<1>6. ASSUME NEW q \in Requests, Latest(q) PROVE UNCHANGED <<randomness, args>> \/ \E p \in Requests : ServerCommit(p)
  BY <1>6 DEF Latest, Goto
<1>7. ASSUME NEW q \in Requests, Save(q) PROVE UNCHANGED <<randomness, args>> \/ \E p \in Requests : ServerCommit(p)
  BY <1>7 DEF Save, Goto, RowLocked
<1>8. ASSUME NEW q \in Requests, Insert(q) PROVE UNCHANGED <<randomness, args>> \/ \E p \in Requests : ServerCommit(p)
  BY <1>8 DEF Insert, Goto
<1>9. ASSUME NEW q \in Requests, Return(q) PROVE UNCHANGED <<randomness, args>> \/ \E p \in Requests : ServerCommit(p)
  BY <1>9 DEF Return, Goto, Unlock
<1>10. ASSUME NEW q \in Requests, ServerCommit(q) PROVE UNCHANGED <<randomness, args>> \/ \E p \in Requests : ServerCommit(p)
  BY <1>10
<1>11. ASSUME NEW q \in Requests, ServerRollback(q) PROVE UNCHANGED <<randomness, args>> \/ \E p \in Requests : ServerCommit(p)
  BY <1>11 DEF ServerRollback
<1>12. ASSUME NEW q \in Requests, DbError(q) PROVE UNCHANGED <<randomness, args>> \/ \E p \in Requests : ServerCommit(p)
  BY <1>12 DEF DbError, ReturnErr, Goto, Unlock
<1>13. ASSUME NEW q \in Requests, InsertError(q) PROVE UNCHANGED <<randomness, args>> \/ \E p \in Requests : ServerCommit(p)
  BY <1>13 DEF InsertError, Goto
<1>14. ASSUME NEW q \in Requests, CommitError(q) PROVE UNCHANGED <<randomness, args>> \/ \E p \in Requests : ServerCommit(p)
  BY <1>14 DEF CommitError, ReturnErr, Goto, Unlock
<1>15. ASSUME NEW q \in Requests, Hangup(q) PROVE UNCHANGED <<randomness, args>> \/ \E p \in Requests : ServerCommit(p)
  BY <1>15 DEF Hangup, Goto, Unlock
<1>16. ASSUME NEW n \in Nodes, Crash(n) PROVE UNCHANGED <<randomness, args>> \/ \E p \in Requests : ServerCommit(p)
  BY <1>16 DEF Crash
<1>17. CASE UNCHANGED vars
  BY <1>17 DEF vars
<1>18. QED
  BY <1>1, <1>2, <1>3, <1>4, <1>5, <1>6, <1>7, <1>8, <1>9,
     <1>10, <1>11, <1>12, <1>13, <1>14, <1>15, <1>16, <1>17 DEF Next, Step, Server, Failure

\* What a committed row adds to the rows of its receiver.
LEMMA Appended ==
  ASSUME TypeOK, NEW q \in Requests, ServerCommit(q)
  PROVE  /\ Rcv(q) \in Receivers
         /\ randomness[Rcv(q)] \in Seq(Row)
         /\ randomness'[Rcv(q)] = Append(randomness[Rcv(q)], NewRow(q))
         /\ \A r \in Receivers \ {Rcv(q)} : randomness'[r] = randomness[r]
         /\ DOMAIN randomness'[Rcv(q)] = 1 .. Len(randomness[Rcv(q)]) + 1
         /\ DOMAIN randomness[Rcv(q)] = 1 .. Len(randomness[Rcv(q)])
         /\ Len(randomness[Rcv(q)]) \in Nat
         /\ \A i \in DOMAIN randomness[Rcv(q)] :
              randomness'[Rcv(q)][i] = randomness[Rcv(q)][i]
         /\ randomness'[Rcv(q)][Len(randomness[Rcv(q)]) + 1] = NewRow(q)
         /\ NewRow(q).alpha = alpha[q] /\ NewRow(q).epoch = seen[q]
         /\ args' = args /\ alpha' = alpha /\ seen' = seen
<1>1. Rcv(q) \in Receivers /\ randomness[Rcv(q)] \in Seq(Row) /\ NewRow(q) \in Row
  BY DEF TypeOK, Rcv, NewRow, Row
<1>2. randomness' = [randomness EXCEPT ![Rcv(q)] = Append(@, NewRow(q))]
  BY DEF ServerCommit
<1>3. DOMAIN randomness = Receivers
  BY DEF TypeOK
<1>4. QED
  BY <1>1, <1>2, <1>3 DEF ServerCommit, NewRow, locals

\* Where the input of a task may come from.
Source(q, a) == \/ a = Randomize(q)
                \/ \E i \in DOMAIN randomness[Rcv(q)] : a = Y(randomness[Rcv(q)][i])

\* The SELECT of the latest epoch gives a task such an input.
LEMMA PendingLatest ==
  ASSUME TypeOK, PendingInv, NEW q \in Requests, Latest(q)
  PROVE  PendingInv'
<1>1. PICK a \in AlphaOf(q, Rcv(q)) : alpha' = [alpha EXCEPT ![q] = a]
  BY DEF Latest
<1>2. Source(q, a)
  BY <1>1 DEF AlphaOf, LatestRows, Source
<1>3. alpha'[q] = a
  BY <1>1 DEF TypeOK
<1>4. \A p \in Requests \ {q} : alpha'[p] = alpha[p] /\ (Pending(p)' => Pending(p))
  BY <1>1 DEF TypeOK, Latest, Goto, Pending
<1>5. randomness' = randomness /\ args' = args
  BY DEF Latest, tables
<1>6. \A p \in Requests : Pending(p)' => Source(p, alpha'[p])
  BY <1>2, <1>3, <1>4 DEF PendingInv, Source
<1>7. QED
  BY <1>5, <1>6 DEF PendingInv, Source, Rcv

\* A COMMIT leaves every committed row where it is.
LEMMA PendingCommit ==
  ASSUME TypeOK, TxnInv, PendingInv, NEW q \in Requests, ServerCommit(q)
  PROVE  PendingInv'
<1>1. \A p \in Requests : Pending(p)' => Pending(p)
  BY DEF TypeOK, ServerCommit, locals, Pending
<1>2. ASSUME NEW p \in Requests,
             NEW i \in DOMAIN randomness[Rcv(p)], alpha[p] = Y(randomness[Rcv(p)][i])
      PROVE  \E j \in DOMAIN randomness'[Rcv(p)] : alpha[p] = Y(randomness'[Rcv(p)][j])
  <2>1. Rcv(p) \in Receivers
    BY DEF TypeOK, Rcv
  <2>2. CASE Rcv(p) = Rcv(q)
    <3>1. i \in DOMAIN randomness'[Rcv(p)] /\ randomness'[Rcv(p)][i] = randomness[Rcv(p)][i]
      BY <2>2, Appended
    <3>2. QED
      BY <1>2, <3>1
  <2>3. CASE Rcv(p) # Rcv(q)
    BY <1>2, <2>1, <2>3, Appended
  <2>4. QED
    BY <2>2, <2>3
<1>3. alpha' = alpha /\ args' = args
  BY Appended
<1>4. QED
  BY <1>1, <1>2, <1>3 DEF PendingInv, Rcv

\* No request becomes pending without an input.
LEMMA PendingKept ==
  ASSUME PendingInv, UNCHANGED <<randomness, alpha, args>>,
         \A q \in Requests : Pending(q)' => Pending(q)
  PROVE  PendingInv'
BY DEF PendingInv, Rcv

\* A task keeps its input from the SELECT to the end of its transaction.
LEMMA PendingStep ==
  TypeOK /\ TxnInv /\ PendingInv /\ [Next]_vars => PendingInv'
<1> SUFFICES ASSUME TypeOK, TxnInv, PendingInv, [Next]_vars
             PROVE  PendingInv'
  OBVIOUS
<1>0. CASE \E q \in Requests : Latest(q) \/ ServerCommit(q)
  BY <1>0, PendingLatest, PendingCommit
<1> USE DEF TypeOK, TxnInv, PendingInv, Pending, Rcv, tables, locals, TxnStates,
            Awaits, Holding, InTxn, Ended
<1>1. ASSUME NEW r \in Receivers, NEW u \in Users, Register(r, u) PROVE PendingInv'
  BY <1>1 DEF Register
<1>2. ASSUME NEW q \in Requests, Arrive(q) PROVE PendingInv'
  <2>1. UNCHANGED <<randomness, alpha, args, txn>>
    BY <1>2 DEF Arrive
  <2>2. \A p \in Requests : pc'[p] = pc[p] \/ pc'[p] \in {"done", "lock"}
    BY <1>2 DEF Arrive, Goto
  <2> QED BY <2>1, <2>2, PendingKept
<1>3. ASSUME NEW q \in Requests, Lock(q) PROVE PendingInv'
  BY <1>3 DEF Lock, Goto
<1>4. ASSUME NEW q \in Requests, Begin(q) PROVE PendingInv'
  BY <1>4 DEF Begin, Goto
<1>5. ASSUME NEW q \in Requests, Lookup(q) PROVE PendingInv'
  <2>1. UNCHANGED <<randomness, alpha, args, txn>>
    BY <1>5 DEF Lookup
  <2>2. \A p \in Requests : pc'[p] = pc[p] \/ pc'[p] \in {"done", "latest"}
    BY <1>5 DEF Lookup, Goto, ReturnErr
  <2> QED BY <2>1, <2>2, PendingKept
<1>6. ASSUME NEW q \in Requests, Latest(q) PROVE PendingInv'
  BY <1>0, <1>6
<1>7. ASSUME NEW q \in Requests, Save(q) PROVE PendingInv'
  BY <1>7 DEF Save, Goto, RowLocked
<1>8. ASSUME NEW q \in Requests, Insert(q) PROVE PendingInv'
  BY <1>8 DEF Insert, Goto
<1>9. ASSUME NEW q \in Requests, Return(q) PROVE PendingInv'
  BY <1>9 DEF Return, Goto, Unlock
<1>10. ASSUME NEW q \in Requests, ServerCommit(q) PROVE PendingInv'
  BY <1>0, <1>10
<1>11. ASSUME NEW q \in Requests, ServerRollback(q) PROVE PendingInv'
  BY <1>11 DEF ServerRollback
<1>12. ASSUME NEW q \in Requests, DbError(q) PROVE PendingInv'
  BY <1>12 DEF DbError, ReturnErr, Goto, Unlock
<1>13. ASSUME NEW q \in Requests, InsertError(q) PROVE PendingInv'
  BY <1>13 DEF InsertError, Goto
<1>14. ASSUME NEW q \in Requests, CommitError(q) PROVE PendingInv'
  BY <1>14 DEF CommitError, ReturnErr, Goto, Unlock
<1>15. ASSUME NEW q \in Requests, Hangup(q) PROVE PendingInv'
  BY <1>15 DEF Hangup, Goto, Unlock
<1>16. ASSUME NEW n \in Nodes, Crash(n) PROVE PendingInv'
  BY <1>16 DEF Crash
<1>17. CASE UNCHANGED vars
  BY <1>17 DEF vars
<1>18. QED
  BY <1>1, <1>2, <1>3, <1>4, <1>5, <1>6, <1>7, <1>8, <1>9,
     <1>10, <1>11, <1>12, <1>13, <1>14, <1>15, <1>16, <1>17 DEF Next, Step, Server, Failure

\* A committed input has the stem of its task's receiver.
LEMMA StemStep ==
  TypeOK /\ PendingInv /\ StemInv /\ [Next]_vars => StemInv'
<1> SUFFICES ASSUME TypeOK, PendingInv, StemInv, [Next]_vars PROVE StemInv'
  OBVIOUS
<1>1. CASE UNCHANGED <<randomness, args>>
  BY <1>1 DEF StemInv, Rcv
<1>2. ASSUME NEW q \in Requests, ServerCommit(q) PROVE StemInv'
  <2>1. PICK p \in Requests, k \in Nat : Rcv(p) = Rcv(q) /\ alpha[q] = <<p, k>>
    BY <1>2, PendingStem DEF ServerCommit, Pending
  <2>2. \A x \in Requests : Rcv(x)' = Rcv(x)
    BY <1>2, Appended DEF Rcv
  <2>3. ASSUME NEW r \in Receivers, NEW i \in DOMAIN randomness'[r]
        PROVE  \E x \in Requests, y \in Nat :
                 Rcv(x) = r /\ randomness'[r][i].alpha = <<x, y>>
    <3>1. CASE r = Rcv(q) /\ i = Len(randomness[r]) + 1
      BY <1>2, <2>1, <3>1, Appended
    <3>2. CASE r = Rcv(q) /\ i # Len(randomness[r]) + 1
      <4>1. i \in DOMAIN randomness[r] /\ randomness'[r][i] = randomness[r][i]
        BY <1>2, <3>2, Appended
      <4>2. QED
        BY <4>1 DEF StemInv
    <3>3. CASE r # Rcv(q)
      BY <1>2, <3>3, Appended DEF StemInv
    <3>4. QED
      BY <3>1, <3>2, <3>3
  <2>4. QED
    BY <2>2, <2>3 DEF StemInv
<1>3. QED
  BY <1>1, <1>2, OnlyCommitAppends

\* The indexes keep refusing what they would have refused at the INSERT: two
\* tasks of one receiver are never both past the row lock, and two receivers
\* never share an input.
LEMMA FreshCommit ==
  ASSUME TypeOK, RowLockInv, PendingInv, StemInv, FreshInv,
         NEW q \in Requests, ServerCommit(q)
  PROVE  FreshInv'
<1>1. ASSUME NEW p \in Requests, txn'[p] = "committing"
      PROVE  /\ txn[p] = "committing" /\ p # q /\ alpha[p] # alpha[q]
  <2>1. txn[p] = "committing" /\ p # q /\ txn[q] = "committing"
    BY <1>1 DEF TypeOK, ServerCommit
  <2>2. Rcv(p) # Rcv(q)
    BY <2>1 DEF RowLockInv, Locking
  <2>3. QED
    BY <2>1, <2>2, PendingStem DEF Pending
<1>2. ASSUME NEW a, ~ AlphaTaken(a), a # alpha[q] PROVE ~ AlphaTaken(a)'
  <2>1. ASSUME NEW r \in Receivers, NEW i \in DOMAIN randomness'[r]
        PROVE  randomness'[r][i].alpha # a
    <3>1. CASE r = Rcv(q) /\ i = Len(randomness[r]) + 1
      BY <1>2, <3>1, Appended
    <3>2. CASE r = Rcv(q) /\ i # Len(randomness[r]) + 1
      <4>1. i \in DOMAIN randomness[r] /\ randomness'[r][i] = randomness[r][i]
        BY <3>2, Appended
      <4>2. QED
        BY <1>2, <4>1 DEF AlphaTaken
    <3>3. CASE r # Rcv(q)
      BY <1>2, <3>3, Appended DEF AlphaTaken
    <3>4. QED
      BY <3>1, <3>2, <3>3
  <2>2. QED
    BY <2>1 DEF AlphaTaken
<1>3. alpha' = alpha
  BY Appended
<1>4. ASSUME NEW p \in Requests, txn'[p] = "committing" PROVE ~ AlphaTaken(alpha[p])'
  <2>1. ~ AlphaTaken(alpha[p]) /\ alpha[p] # alpha[q]
    BY <1>1, <1>4 DEF FreshInv
  <2>2. QED
    BY <1>2, <1>3, <2>1 DEF AlphaTaken
<1>5. QED
  BY <1>4 DEF FreshInv

LEMMA FreshInsert ==
  ASSUME TypeOK, FreshInv, NEW q \in Requests, Insert(q)
  PROVE  FreshInv'
<1>1. randomness' = randomness /\ alpha' = alpha
  BY DEF Insert, tables
<1>2. \A p \in Requests : txn'[p] = "committing" =>
        txn[p] = "committing" \/ (p = q /\ ~ AlphaTaken(alpha[q]))
  <2>1. CASE AlphaTaken(alpha[q])
    <3>1. txn' = [txn EXCEPT ![q] = "aborted"]
      BY <2>1 DEF Insert
    <3>2. \A p \in Requests : txn'[p] = "committing" => txn[p] = "committing"
      BY <3>1 DEF TypeOK
    <3>3. QED
      BY <3>2
  <2>2. CASE ~ AlphaTaken(alpha[q])
    <3>1. txn' = [txn EXCEPT ![q] = "committing"]
      BY <2>2 DEF Insert
    <3>2. QED
      BY <2>2, <3>1 DEF TypeOK
  <2>3. QED
    BY <2>1, <2>2
<1>3. ASSUME NEW p \in Requests, txn'[p] = "committing" PROVE ~ AlphaTaken(alpha[p])
  BY <1>2, <1>3 DEF FreshInv
<1>4. ASSUME NEW p \in Requests, txn'[p] = "committing" PROVE ~ AlphaTaken(alpha[p])'
  BY <1>1, <1>3, <1>4 DEF AlphaTaken
<1>5. QED
  BY <1>4 DEF FreshInv

LEMMA FreshStep ==
  TypeOK /\ TxnInv /\ RowLockInv /\ PendingInv /\ StemInv /\ FreshInv /\ [Next]_vars
    => FreshInv'
<1> SUFFICES ASSUME TypeOK, TxnInv, RowLockInv, PendingInv, StemInv, FreshInv, [Next]_vars
             PROVE  FreshInv'
  OBVIOUS
<1>0. CASE \E q \in Requests : Insert(q) \/ ServerCommit(q)
  BY <1>0, FreshInsert, FreshCommit
<1> USE DEF TypeOK, TxnInv, FreshInv, AlphaTaken, tables, locals, TxnStates,
            Awaits, Holding, InTxn, Ended
<1>1. ASSUME NEW r \in Receivers, NEW u \in Users, Register(r, u) PROVE FreshInv'
  BY <1>1 DEF Register
<1>2. ASSUME NEW q \in Requests, Arrive(q) PROVE FreshInv'
  BY <1>2 DEF Arrive, Goto
<1>3. ASSUME NEW q \in Requests, Lock(q) PROVE FreshInv'
  BY <1>3 DEF Lock, Goto
<1>4. ASSUME NEW q \in Requests, Begin(q) PROVE FreshInv'
  BY <1>4 DEF Begin, Goto
<1>5. ASSUME NEW q \in Requests, Lookup(q) PROVE FreshInv'
  BY <1>5 DEF Lookup, Goto, ReturnErr, Unlock
<1>6. ASSUME NEW q \in Requests, Latest(q) PROVE FreshInv'
  BY <1>6 DEF Latest, Goto
<1>7. ASSUME NEW q \in Requests, Save(q) PROVE FreshInv'
  BY <1>7 DEF Save, Goto, RowLocked
<1>8. ASSUME NEW q \in Requests, Insert(q) PROVE FreshInv'
  BY <1>0, <1>8
<1>9. ASSUME NEW q \in Requests, Return(q) PROVE FreshInv'
  BY <1>9 DEF Return, Goto, Unlock
<1>10. ASSUME NEW q \in Requests, ServerCommit(q) PROVE FreshInv'
  BY <1>0, <1>10
<1>11. ASSUME NEW q \in Requests, ServerRollback(q) PROVE FreshInv'
  BY <1>11 DEF ServerRollback
<1>12. ASSUME NEW q \in Requests, DbError(q) PROVE FreshInv'
  BY <1>12 DEF DbError, ReturnErr, Goto, Unlock
<1>13. ASSUME NEW q \in Requests, InsertError(q) PROVE FreshInv'
  BY <1>13 DEF InsertError, Goto
<1>14. ASSUME NEW q \in Requests, CommitError(q) PROVE FreshInv'
  BY <1>14 DEF CommitError, ReturnErr, Goto, Unlock
<1>15. ASSUME NEW q \in Requests, Hangup(q) PROVE FreshInv'
  BY <1>15 DEF Hangup, Goto, Unlock
<1>16. ASSUME NEW n \in Nodes, Crash(n) PROVE FreshInv'
  BY <1>16 DEF Crash
<1>17. CASE UNCHANGED vars
  BY <1>17 DEF vars
<1>18. QED
  BY <1>1, <1>2, <1>3, <1>4, <1>5, <1>6, <1>7, <1>8, <1>9,
     <1>10, <1>11, <1>12, <1>13, <1>14, <1>15, <1>16, <1>17 DEF Next, Step, Server, Failure

\* The two halves of NoFork.
OriginInv ==
  \A r \in Receivers : \A i \in DOMAIN randomness[r] :
    \/ randomness[r][i].alpha[2] = 0
    \/ \E j \in 1 .. i - 1 : randomness[r][i].alpha = Y(randomness[r][j])
UniqueInv ==
  \A r, s \in Receivers : \A i \in DOMAIN randomness[r], j \in DOMAIN randomness[s] :
    randomness[r][i].alpha = randomness[s][j].alpha => r = s /\ i = j

LEMMA NoForkHalves == OriginInv /\ UniqueInv <=> NoFork
BY DEF OriginInv, UniqueInv, NoFork

\* After a COMMIT, a row is an old one or the new last row of its receiver.
LEMMA OldOrNew ==
  ASSUME TypeOK, NEW q \in Requests, ServerCommit(q),
         NEW r \in Receivers, NEW i \in DOMAIN randomness'[r]
  PROVE  \/ i \in DOMAIN randomness[r] /\ randomness'[r][i] = randomness[r][i]
         \/ r = Rcv(q) /\ i = Len(randomness[r]) + 1 /\ randomness'[r][i].alpha = alpha[q]
<1>1. CASE r = Rcv(q) /\ i = Len(randomness[r]) + 1
  BY <1>1, Appended
<1>2. CASE r = Rcv(q) /\ i # Len(randomness[r]) + 1
  BY <1>2, Appended
<1>3. CASE r # Rcv(q)
  BY <1>3, Appended
<1>4. QED
  BY <1>1, <1>2, <1>3

LEMMA OriginStep ==
  TypeOK /\ PendingInv /\ OriginInv /\ [Next]_vars => OriginInv'
<1> SUFFICES ASSUME TypeOK, PendingInv, OriginInv, [Next]_vars PROVE OriginInv'
  OBVIOUS
<1>1. CASE UNCHANGED <<randomness, args>>
  BY <1>1 DEF OriginInv, Y
<1>2. ASSUME NEW q \in Requests, ServerCommit(q) PROVE OriginInv'
  <2> SUFFICES ASSUME NEW r \in Receivers, NEW i \in DOMAIN randomness'[r]
               PROVE  \/ randomness'[r][i].alpha[2] = 0
                      \/ \E j \in 1 .. i - 1 :
                           randomness'[r][i].alpha = Y(randomness'[r][j])
    BY DEF OriginInv, Y
  <2>1. randomness[r] \in Seq(Row)
    BY DEF TypeOK
  <2>2. CASE i \in DOMAIN randomness[r] /\ randomness'[r][i] = randomness[r][i]
    <3>1. \A j \in 1 .. i - 1 : randomness'[r][j] = randomness[r][j]
      BY <1>2, <2>1, <2>2, Appended
    <3>2. QED
      BY <2>2, <3>1 DEF OriginInv
  <2>3. CASE r = Rcv(q) /\ i = Len(randomness[r]) + 1 /\ randomness'[r][i].alpha = alpha[q]
    <3>1. CASE alpha[q] = Randomize(q)
      BY <2>3, <3>1 DEF Randomize
    <3>2. CASE \E j \in DOMAIN randomness[r] : alpha[q] = Y(randomness[r][j])
      <4>1. PICK j \in DOMAIN randomness[r] : alpha[q] = Y(randomness[r][j])
        BY <3>2
      <4>2. j \in 1 .. i - 1 /\ randomness'[r][j] = randomness[r][j]
        BY <1>2, <2>3, <4>1, Appended
      <4>3. QED
        BY <2>3, <4>1, <4>2
    <3>3. QED
      BY <1>2, <2>3, <3>1, <3>2 DEF PendingInv, Pending, ServerCommit
  <2>4. QED
    BY <1>2, <2>2, <2>3, OldOrNew
<1>3. QED
  BY <1>1, <1>2, OnlyCommitAppends

LEMMA UniqueStep ==
  TypeOK /\ FreshInv /\ UniqueInv /\ [Next]_vars => UniqueInv'
<1> SUFFICES ASSUME TypeOK, FreshInv, UniqueInv, [Next]_vars PROVE UniqueInv'
  OBVIOUS
<1>1. CASE UNCHANGED <<randomness, args>>
  BY <1>1 DEF UniqueInv
<1>2. ASSUME NEW q \in Requests, ServerCommit(q) PROVE UniqueInv'
  <2> SUFFICES ASSUME NEW r \in Receivers, NEW s \in Receivers,
                      NEW i \in DOMAIN randomness'[r], NEW j \in DOMAIN randomness'[s],
                      randomness'[r][i].alpha = randomness'[s][j].alpha
               PROVE  r = s /\ i = j
    BY DEF UniqueInv
  <2>1. \A t \in Receivers : \A k \in DOMAIN randomness[t] :
          randomness[t][k].alpha # alpha[q]
    BY <1>2 DEF FreshInv, AlphaTaken, ServerCommit
  <2>2. QED
    BY <1>2, <2>1, OldOrNew DEF UniqueInv
<1>3. QED
  BY <1>1, <1>2, OnlyCommitAppends

\* Whatever the number of nodes sharing the database, and whichever of them
\* fail, an output is used at most once and an input is a fresh scalar or the
\* output of an earlier row of the same receiver.
THEOREM NeverForks == Spec => []NoFork
<1> DEFINE FInv == /\ TypeOK /\ TxnInv /\ RowLockInv /\ PendingInv /\ StemInv
                   /\ FreshInv /\ OriginInv /\ UniqueInv
<1>1. Init => FInv
  <2> SUFFICES ASSUME Init PROVE FInv
    OBVIOUS
  <2>1. TypeOK
    BY IssuanceAssumption, ScalarClosed
    DEF Init, TypeOK, IssuanceAssumption, Results, TxnStates, Awaits, Holding, InTxn, Ended
  <2>2. TxnInv /\ RowLockInv /\ PendingInv /\ FreshInv
    BY DEF Init, TxnInv, RowLockInv, Locking, PendingInv, Pending, FreshInv
  <2>3. StemInv /\ OriginInv /\ UniqueInv
    BY DEF Init, StemInv, OriginInv, UniqueInv
  <2>4. QED
    BY <2>1, <2>2, <2>3
<1>2. FInv /\ [Next]_vars => FInv'
  BY TypeStep, IssuanceAssumption, LockStep, PendingStep, StemStep, FreshStep,
     OriginStep, UniqueStep
<1>3. FInv => NoFork
  BY NoForkHalves
<1>4. QED
  BY <1>1, <1>2, <1>3, PTL DEF Spec

-----------------------------------------------------------------------------
(***************************************************************************)
(* Durability: what was sent to a client is in the database.               *)
(***************************************************************************)

\* A successful outcome is kept only by a task that waits for its COMMIT or
\* has seen it acknowledged.
OutcomeInv ==
  \A q \in Requests :
    pc[q] \in {"commit", "done"} /\ result[q] = "ok" =>
      /\ txn[q] \in {"committing", "none"}
      /\ pc[q] = "done" => txn[q] = "none"

\* The user of a task past its first SELECT owns the receiver.
OwnerInv ==
  \A q \in Requests :
    \/ pc[q] \in {"latest", "save", "insert", "commit"}
    \/ pc[q] = "done" /\ result[q] = "ok"
    => owner[Rcv(q)] = args[q].user

LEMMA OutcomeStep ==
  TypeOK /\ TxnInv /\ OutcomeInv /\ [Next]_vars => OutcomeInv'
<1> SUFFICES ASSUME TypeOK, TxnInv, OutcomeInv, [Next]_vars PROVE OutcomeInv'
  OBVIOUS
<1> USE DEF TypeOK, TxnInv, OutcomeInv, tables, locals, Awaits, Holding, InTxn, Ended
<1>1. ASSUME NEW r \in Receivers, NEW u \in Users, Register(r, u) PROVE OutcomeInv'
  BY <1>1 DEF Register
<1>2. ASSUME NEW q \in Requests, Arrive(q) PROVE OutcomeInv'
  BY <1>2 DEF Arrive, Goto
<1>3. ASSUME NEW q \in Requests, Lock(q) PROVE OutcomeInv'
  BY <1>3 DEF Lock, Goto
<1>4. ASSUME NEW q \in Requests, Begin(q) PROVE OutcomeInv'
  BY <1>4 DEF Begin, Goto
<1>5. ASSUME NEW q \in Requests, Lookup(q) PROVE OutcomeInv'
  BY <1>5 DEF Lookup, Goto, ReturnErr, Unlock
<1>6. ASSUME NEW q \in Requests, Latest(q) PROVE OutcomeInv'
  BY <1>6 DEF Latest, Goto
<1>7. ASSUME NEW q \in Requests, Save(q) PROVE OutcomeInv'
  BY <1>7 DEF Save, Goto, RowLocked
<1>8. ASSUME NEW q \in Requests, Insert(q) PROVE OutcomeInv'
  BY <1>8 DEF Insert, Goto
<1>9. ASSUME NEW q \in Requests, Return(q) PROVE OutcomeInv'
  BY <1>9 DEF Return, Goto, Unlock
<1>10. ASSUME NEW q \in Requests, ServerCommit(q) PROVE OutcomeInv'
  BY <1>10 DEF ServerCommit
<1>11. ASSUME NEW q \in Requests, ServerRollback(q) PROVE OutcomeInv'
  BY <1>11 DEF ServerRollback
<1>12. ASSUME NEW q \in Requests, DbError(q) PROVE OutcomeInv'
  BY <1>12 DEF DbError, ReturnErr, Goto, Unlock
<1>13. ASSUME NEW q \in Requests, InsertError(q) PROVE OutcomeInv'
  BY <1>13 DEF InsertError, Goto
<1>14. ASSUME NEW q \in Requests, CommitError(q) PROVE OutcomeInv'
  BY <1>14 DEF CommitError, ReturnErr, Goto, Unlock
<1>15. ASSUME NEW q \in Requests, Hangup(q) PROVE OutcomeInv'
  BY <1>15 DEF Hangup, Goto, Unlock
<1>16. ASSUME NEW n \in Nodes, Crash(n) PROVE OutcomeInv'
  BY <1>16 DEF Crash
<1>17. CASE UNCHANGED vars
  BY <1>17 DEF vars
<1>18. QED
  BY <1>1, <1>2, <1>3, <1>4, <1>5, <1>6, <1>7, <1>8, <1>9,
     <1>10, <1>11, <1>12, <1>13, <1>14, <1>15, <1>16, <1>17 DEF Next, Step, Server, Failure

\* A receiver never changes hands.
LEMMA OwnerStep ==
  IssuanceAssumption /\ TypeOK /\ OwnerInv /\ [Next]_vars => OwnerInv'
<1> SUFFICES ASSUME IssuanceAssumption, TypeOK, OwnerInv, [Next]_vars PROVE OwnerInv'
  OBVIOUS
<1> USE DEF TypeOK, IssuanceAssumption, OwnerInv, Rcv, tables, locals, Awaits, Holding,
            InTxn, Ended
<1>1. ASSUME NEW r \in Receivers, NEW u \in Users, Register(r, u) PROVE OwnerInv'
  BY <1>1 DEF Register
<1>2. ASSUME NEW q \in Requests, Arrive(q) PROVE OwnerInv'
  BY <1>2 DEF Arrive, Goto
<1>3. ASSUME NEW q \in Requests, Lock(q) PROVE OwnerInv'
  BY <1>3 DEF Lock, Goto
<1>4. ASSUME NEW q \in Requests, Begin(q) PROVE OwnerInv'
  BY <1>4 DEF Begin, Goto
<1>5. ASSUME NEW q \in Requests, Lookup(q) PROVE OwnerInv'
  BY <1>5 DEF Lookup, Goto, ReturnErr, Unlock
<1>6. ASSUME NEW q \in Requests, Latest(q) PROVE OwnerInv'
  BY <1>6 DEF Latest, Goto
<1>7. ASSUME NEW q \in Requests, Save(q) PROVE OwnerInv'
  BY <1>7 DEF Save, Goto, RowLocked
<1>8. ASSUME NEW q \in Requests, Insert(q) PROVE OwnerInv'
  BY <1>8 DEF Insert, Goto
<1>9. ASSUME NEW q \in Requests, Return(q) PROVE OwnerInv'
  BY <1>9 DEF Return, Goto, Unlock
<1>10. ASSUME NEW q \in Requests, ServerCommit(q) PROVE OwnerInv'
  BY <1>10 DEF ServerCommit
<1>11. ASSUME NEW q \in Requests, ServerRollback(q) PROVE OwnerInv'
  BY <1>11 DEF ServerRollback
<1>12. ASSUME NEW q \in Requests, DbError(q) PROVE OwnerInv'
  BY <1>12 DEF DbError, ReturnErr, Goto, Unlock
<1>13. ASSUME NEW q \in Requests, InsertError(q) PROVE OwnerInv'
  BY <1>13 DEF InsertError, Goto
<1>14. ASSUME NEW q \in Requests, CommitError(q) PROVE OwnerInv'
  BY <1>14 DEF CommitError, ReturnErr, Goto, Unlock
<1>15. ASSUME NEW q \in Requests, Hangup(q) PROVE OwnerInv'
  BY <1>15 DEF Hangup, Goto, Unlock
<1>16. ASSUME NEW n \in Nodes, Crash(n) PROVE OwnerInv'
  BY <1>16 DEF Crash
<1>17. CASE UNCHANGED vars
  BY <1>17 DEF vars
<1>18. QED
  BY <1>1, <1>2, <1>3, <1>4, <1>5, <1>6, <1>7, <1>8, <1>9,
     <1>10, <1>11, <1>12, <1>13, <1>14, <1>15, <1>16, <1>17 DEF Next, Step, Server, Failure

\* The row of the request is in the table.
Committed(q) == pc[q] \in {"commit", "done"} /\ result[q] = "ok" /\ txn[q] = "none"

RecordedInv ==
  \A q \in Requests : Committed(q) =>
    \E i \in DOMAIN randomness[Rcv(q)] : randomness[Rcv(q)][i] = NewRow(q)

\* No two requests are answered with one row.
DistinctInv ==
  \A p, q \in Requests : Committed(p) /\ Committed(q) /\ p # q => alpha[p] # alpha[q]

\* A step that records no row.
RecordsNone ==
  /\ UNCHANGED <<randomness, args>>
  /\ \A p \in Requests :
       Committed(p)' => Committed(p) /\ alpha'[p] = alpha[p] /\ seen'[p] = seen[p]

\* Only a COMMIT records a row.
LEMMA OnlyCommitRecords ==
  TypeOK /\ TxnInv /\ OutcomeInv /\ [Next]_vars
    => RecordsNone \/ \E q \in Requests : ServerCommit(q)
<1> SUFFICES ASSUME TypeOK, TxnInv, OutcomeInv, [Next]_vars
             PROVE  RecordsNone \/ \E p \in Requests : ServerCommit(p)
  OBVIOUS
<1> USE DEF TypeOK, TxnInv, OutcomeInv, RecordsNone, Committed, tables, locals, Awaits,
            Holding, InTxn, Ended
<1>1. ASSUME NEW r \in Receivers, NEW u \in Users, Register(r, u) PROVE RecordsNone \/ \E p \in Requests : ServerCommit(p)
  BY <1>1 DEF Register
<1>2. ASSUME NEW q \in Requests, Arrive(q) PROVE RecordsNone \/ \E p \in Requests : ServerCommit(p)
  BY <1>2 DEF Arrive, Goto
<1>3. ASSUME NEW q \in Requests, Lock(q) PROVE RecordsNone \/ \E p \in Requests : ServerCommit(p)
  BY <1>3 DEF Lock, Goto
<1>4. ASSUME NEW q \in Requests, Begin(q) PROVE RecordsNone \/ \E p \in Requests : ServerCommit(p)
  BY <1>4 DEF Begin, Goto
<1>5. ASSUME NEW q \in Requests, Lookup(q) PROVE RecordsNone \/ \E p \in Requests : ServerCommit(p)
  BY <1>5 DEF Lookup, Goto, ReturnErr, Unlock
<1>6. ASSUME NEW q \in Requests, Latest(q) PROVE RecordsNone \/ \E p \in Requests : ServerCommit(p)
  BY <1>6 DEF Latest, Goto
<1>7. ASSUME NEW q \in Requests, Save(q) PROVE RecordsNone \/ \E p \in Requests : ServerCommit(p)
  BY <1>7 DEF Save, Goto, RowLocked
<1>8. ASSUME NEW q \in Requests, Insert(q) PROVE RecordsNone \/ \E p \in Requests : ServerCommit(p)
  BY <1>8 DEF Insert, Goto
<1>9. ASSUME NEW q \in Requests, Return(q) PROVE RecordsNone \/ \E p \in Requests : ServerCommit(p)
  BY <1>9 DEF Return, Goto, Unlock
<1>10. ASSUME NEW q \in Requests, ServerCommit(q) PROVE RecordsNone \/ \E p \in Requests : ServerCommit(p)
  BY <1>10
<1>11. ASSUME NEW q \in Requests, ServerRollback(q) PROVE RecordsNone \/ \E p \in Requests : ServerCommit(p)
  BY <1>11 DEF ServerRollback
<1>12. ASSUME NEW q \in Requests, DbError(q) PROVE RecordsNone \/ \E p \in Requests : ServerCommit(p)
  BY <1>12 DEF DbError, ReturnErr, Goto, Unlock
<1>13. ASSUME NEW q \in Requests, InsertError(q) PROVE RecordsNone \/ \E p \in Requests : ServerCommit(p)
  BY <1>13 DEF InsertError, Goto
<1>14. ASSUME NEW q \in Requests, CommitError(q) PROVE RecordsNone \/ \E p \in Requests : ServerCommit(p)
  BY <1>14 DEF CommitError, ReturnErr, Goto, Unlock
<1>15. ASSUME NEW q \in Requests, Hangup(q) PROVE RecordsNone \/ \E p \in Requests : ServerCommit(p)
  BY <1>15 DEF Hangup, Goto, Unlock
<1>16. ASSUME NEW n \in Nodes, Crash(n) PROVE RecordsNone \/ \E p \in Requests : ServerCommit(p)
  BY <1>16 DEF Crash
<1>17. CASE UNCHANGED vars
  BY <1>17 DEF vars
<1> HIDE DEF RecordsNone
<1>18. QED
  BY <1>1, <1>2, <1>3, <1>4, <1>5, <1>6, <1>7, <1>8, <1>9,
     <1>10, <1>11, <1>12, <1>13, <1>14, <1>15, <1>16, <1>17 DEF Next, Step, Server, Failure

LEMMA RecordedCommit ==
  ASSUME TypeOK, FreshInv, RecordedInv, DistinctInv, NEW q \in Requests, ServerCommit(q)
  PROVE  RecordedInv' /\ DistinctInv'
<1>1. UNCHANGED <<args, pc, seen, alpha, result>>
  BY DEF ServerCommit, locals
<1>2. ASSUME NEW p \in Requests, Committed(p)' PROVE Committed(p) \/ p = q
  BY <1>2 DEF ServerCommit, Committed, TypeOK, locals
<1>3. /\ Rcv(q) \in Receivers
      /\ randomness[Rcv(q)] \in Seq(Row)
      /\ randomness'[Rcv(q)] = Append(randomness[Rcv(q)], NewRow(q))
      /\ \A r \in Receivers \ {Rcv(q)} : randomness'[r] = randomness[r]
  BY Appended
<1>4. ASSUME NEW r \in Receivers, NEW i \in DOMAIN randomness[r]
      PROVE  i \in DOMAIN randomness'[r] /\ randomness'[r][i] = randomness[r][i]
  BY <1>3
<1>5. \A p \in Requests : Rcv(p)' = Rcv(p) /\ NewRow(p)' = NewRow(p) /\ Rcv(p) \in Receivers
  BY <1>1 DEF Rcv, NewRow, TypeOK
<1>6. ASSUME NEW p \in Requests, Committed(p)'
      PROVE  \E i \in DOMAIN randomness'[Rcv(p)] : randomness'[Rcv(p)][i] = NewRow(p)
  <2>1. CASE Committed(p)
    <3>1. PICK i \in DOMAIN randomness[Rcv(p)] : randomness[Rcv(p)][i] = NewRow(p)
      BY <2>1 DEF RecordedInv
    <3>2. QED
      BY <1>4, <1>5, <3>1
  <2>2. CASE p = q
    <3>1. /\ Len(randomness[Rcv(q)]) + 1 \in DOMAIN randomness'[Rcv(q)]
          /\ randomness'[Rcv(q)][Len(randomness[Rcv(q)]) + 1] = NewRow(q)
      BY <1>3
    <3>2. QED
      BY <2>2, <3>1
  <2>3. QED
    BY <1>2, <1>6, <2>1, <2>2
<1>7. ASSUME NEW p \in Requests \ {q}, Committed(p) PROVE alpha[p] # alpha[q]
  <2>1. PICK i \in DOMAIN randomness[Rcv(p)] : randomness[Rcv(p)][i] = NewRow(p)
    BY <1>7 DEF RecordedInv
  <2>2. randomness[Rcv(p)][i].alpha = alpha[p]
    BY <2>1 DEF NewRow
  <2>3. ~ AlphaTaken(alpha[q])
    BY DEF FreshInv, ServerCommit
  <2>4. QED
    BY <1>5, <2>2, <2>3 DEF AlphaTaken
<1>8. DistinctInv'
  BY <1>1, <1>2, <1>7 DEF DistinctInv
<1>9. RecordedInv'
  BY <1>5, <1>6 DEF RecordedInv
<1>10. QED
  BY <1>8, <1>9

LEMMA RecordedStep ==
  TypeOK /\ TxnInv /\ OutcomeInv /\ FreshInv /\ RecordedInv /\ DistinctInv /\ [Next]_vars
    => RecordedInv' /\ DistinctInv'
<1> SUFFICES ASSUME TypeOK, TxnInv, OutcomeInv, FreshInv, RecordedInv, DistinctInv,
                    [Next]_vars
             PROVE  RecordedInv' /\ DistinctInv'
  OBVIOUS
<1>1. CASE RecordsNone
  <2>1. RecordedInv'
    BY <1>1 DEF RecordsNone, RecordedInv, Rcv, NewRow
  <2>2. DistinctInv'
    BY <1>1 DEF RecordsNone, DistinctInv
  <2>3. QED
    BY <2>1, <2>2
<1>2. CASE \E q \in Requests : ServerCommit(q)
  BY <1>2, RecordedCommit
<1>3. QED
  BY <1>1, <1>2, OnlyCommitRecords

LEMMA RecordedIsDurable ==
  OutcomeInv /\ OwnerInv /\ RecordedInv /\ DistinctInv => DeliveredIsDurable
<1> SUFFICES ASSUME OutcomeInv, OwnerInv, RecordedInv, DistinctInv, NEW q \in Delivered
             PROVE  /\ \E i \in DOMAIN randomness[Rcv(q)] :
                         randomness[Rcv(q)][i] = NewRow(q)
                    /\ owner[Rcv(q)] = args[q].user
                    /\ \A p \in Delivered \ {q} : NewRow(p) # NewRow(q)
  BY DEF DeliveredIsDurable
<1>1. \A p \in Delivered : p \in Requests /\ Committed(p)
  BY DEF Delivered, Committed, OutcomeInv
<1>2. owner[Rcv(q)] = args[q].user
  BY DEF Delivered, OwnerInv
<1>3. ASSUME NEW p \in Delivered \ {q} PROVE NewRow(p) # NewRow(q)
  <2>1. alpha[p] # alpha[q]
    BY <1>1 DEF DistinctInv
  <2>2. NewRow(p).alpha = alpha[p] /\ NewRow(q).alpha = alpha[q]
    BY DEF NewRow
  <2>3. QED
    BY <2>1, <2>2
<1>4. QED
  BY <1>1, <1>2, <1>3 DEF RecordedInv

\* The inductive invariant behind DeliveredIsDurable.
DurableInv == /\ TypeOK /\ TxnInv /\ RowLockInv /\ PendingInv /\ StemInv
              /\ FreshInv /\ OutcomeInv /\ OwnerInv /\ RecordedInv /\ DistinctInv

LEMMA DurableInit == Init => DurableInv
<1> SUFFICES ASSUME Init PROVE DurableInv
  OBVIOUS
<1>1. TypeOK
  BY IssuanceAssumption, ScalarClosed
  DEF Init, TypeOK, IssuanceAssumption, Results, TxnStates, Awaits, Holding, InTxn, Ended
<1>2. TxnInv /\ RowLockInv /\ PendingInv /\ StemInv /\ FreshInv
  BY DEF Init, TxnInv, RowLockInv, Locking, PendingInv, Pending, StemInv, FreshInv
<1>3. OutcomeInv /\ OwnerInv /\ RecordedInv /\ DistinctInv
  BY DEF Init, OutcomeInv, OwnerInv, RecordedInv, DistinctInv, Committed
<1>4. QED
  BY <1>1, <1>2, <1>3 DEF DurableInv

LEMMA DurableStep == DurableInv /\ [Next]_vars => DurableInv'
BY TypeStep, IssuanceAssumption, LockStep, PendingStep, StemStep, FreshStep,
   OutcomeStep, OwnerStep, RecordedStep DEF DurableInv

\* An epoch a client has been sent is a row of the receiver it asked for,
\* which its user owns, and no other client was sent it: also when several
\* nodes share the database and nodes, clients and connections fail.
THEOREM DeliveredAreDurable == Spec => []DeliveredIsDurable
<1>1. DurableInv => DeliveredIsDurable
  BY RecordedIsDurable DEF DurableInv
<1>2. QED
  BY <1>1, DurableInit, DurableStep, PTL DEF Spec

(***************************************************************************)
(* The chain of epochs, when one node serves the database and no COMMIT    *)
(* outlives its task.                                                      *)
(***************************************************************************)
SingleWriter == /\ LateCommit = FALSE
                /\ \A m, n \in Nodes : m = n

(***************************************************************************)
(* The inductive invariant behind ChainedEpochs and NoConflict.            *)
(***************************************************************************)

\* A COMMIT on the wire has a task waiting for it.
CommitInv == \A q \in Requests : txn[q] = "committing" => pc[q] = "commit"

\* What a task has read is still so until its transaction has ended: the
\* owner and the nonce of its receiver and then the latest epoch.
HasNonce(q) == pc[q] \in {"latest", "save", "insert"} \/ txn[q] = "committing"
HasAlpha(q) == pc[q] \in {"save", "insert"} \/ txn[q] = "committing"
NonceRead ==
  \A q \in Requests : HasNonce(q) =>
    seen[q] = nonce[Rcv(q)] /\ owner[Rcv(q)] = args[q].user
AlphaRead ==
  \A q \in Requests : HasAlpha(q) => alpha[q] \in AlphaOf(q, Rcv(q))

\* The rows of a receiver, made explicit: they start from the scalar drawn
\* in one of the requests for that receiver.
SeedInv ==
  \A r \in Receivers : randomness[r] # <<>> =>
    \E p \in Requests :
      /\ Rcv(p) = r
      /\ \A i \in DOMAIN randomness[r] :
           randomness[r][i] = [epoch |-> i - 1, alpha |-> <<p, i - 1>>]

\* The nonce counts the rows, and a receiver has none before it is registered.
NonceInv ==
  \A r \in Receivers :
    nonce[r] = Len(randomness[r]) /\ (owner[r] = Nobody => nonce[r] = 0)

IInv == /\ TypeOK /\ TxnInv /\ RowLockInv /\ MutexInv /\ CommitInv
        /\ NonceRead /\ AlphaRead /\ SeedInv /\ NonceInv /\ NoConflict

LEMMA CommitStep ==
  SingleWriter /\ TypeOK /\ CommitInv /\ [Next]_vars => CommitInv'
<1> SUFFICES ASSUME SingleWriter, TypeOK, CommitInv, [Next]_vars PROVE CommitInv'
  OBVIOUS
<1> USE DEF SingleWriter, TypeOK, CommitInv, tables, locals, Awaits, Holding, InTxn, Ended
<1>1. ASSUME NEW r \in Receivers, NEW u \in Users, Register(r, u) PROVE CommitInv'
  BY <1>1 DEF Register
<1>2. ASSUME NEW q \in Requests, Arrive(q) PROVE CommitInv'
  BY <1>2 DEF Arrive, Goto
<1>3. ASSUME NEW q \in Requests, Lock(q) PROVE CommitInv'
  BY <1>3 DEF Lock, Goto
<1>4. ASSUME NEW q \in Requests, Begin(q) PROVE CommitInv'
  BY <1>4 DEF Begin, Goto
<1>5. ASSUME NEW q \in Requests, Lookup(q) PROVE CommitInv'
  BY <1>5 DEF Lookup, Goto, ReturnErr, Unlock
<1>6. ASSUME NEW q \in Requests, Latest(q) PROVE CommitInv'
  BY <1>6 DEF Latest, Goto
<1>7. ASSUME NEW q \in Requests, Save(q) PROVE CommitInv'
  BY <1>7 DEF Save, Goto, RowLocked
<1>8. ASSUME NEW q \in Requests, Insert(q) PROVE CommitInv'
  BY <1>8 DEF Insert, Goto
<1>9. ASSUME NEW q \in Requests, Return(q) PROVE CommitInv'
  BY <1>9 DEF Return, Goto, Unlock
<1>10. ASSUME NEW q \in Requests, ServerCommit(q) PROVE CommitInv'
  BY <1>10 DEF ServerCommit
<1>11. ASSUME NEW q \in Requests, ServerRollback(q) PROVE CommitInv'
  BY <1>11 DEF ServerRollback
<1>12. ASSUME NEW q \in Requests, DbError(q) PROVE CommitInv'
  BY <1>12 DEF DbError, ReturnErr, Goto, Unlock
<1>13. ASSUME NEW q \in Requests, InsertError(q) PROVE CommitInv'
  BY <1>13 DEF InsertError, Goto
<1>14. ASSUME NEW q \in Requests, CommitError(q) PROVE CommitInv'
  BY <1>14 DEF CommitError, ReturnErr, Goto, Unlock
<1>15. ASSUME NEW q \in Requests, Hangup(q) PROVE CommitInv'
  BY <1>15 DEF Hangup, Goto, Unlock
<1>16. ASSUME NEW n \in Nodes, Crash(n) PROVE CommitInv'
  BY <1>16 DEF Crash
<1>17. CASE UNCHANGED vars
  BY <1>17 DEF vars
<1>18. QED
  BY <1>1, <1>2, <1>3, <1>4, <1>5, <1>6, <1>7, <1>8, <1>9,
     <1>10, <1>11, <1>12, <1>13, <1>14, <1>15, <1>16, <1>17 DEF Next, Step, Server, Failure

\* While one task is between its SELECTs and its COMMIT, no other is.
LEMMA Exclusion ==
  ASSUME SingleWriter, TypeOK, MutexInv, CommitInv,
         NEW p \in Requests, NEW q \in Requests, HasNonce(p), txn[q] = "committing"
  PROVE  p = q
<1>1. pc[p] \in Holding /\ pc[q] \in Holding
  BY DEF HasNonce, CommitInv, Holding, InTxn
<1>2. args[p].node \in Nodes /\ args[q].node \in Nodes
  BY DEF TypeOK
<1>3. QED
  BY <1>1, <1>2 DEF SingleWriter, MutexInv

LEMMA NonceReadCommit ==
  ASSUME SingleWriter, TypeOK, TxnInv, MutexInv, CommitInv, NonceRead,
         NEW q \in Requests, ServerCommit(q)
  PROVE  NonceRead'
<1>1. ASSUME NEW p \in Requests PROVE ~ HasNonce(p)'
  <2>1. HasNonce(p)' => HasNonce(p) /\ txn[q] = "committing"
    BY DEF TypeOK, ServerCommit, HasNonce
  <2>2. ~ HasNonce(q)'
    BY DEF TypeOK, CommitInv, ServerCommit, HasNonce
  <2>3. QED
    BY <2>1, <2>2, Exclusion
<1>2. QED
  BY <1>1 DEF NonceRead

LEMMA NonceReadLookup ==
  ASSUME TypeOK, NonceRead, NEW q \in Requests, Lookup(q)
  PROVE  NonceRead'
<1>1. UNCHANGED <<nonce, owner, args, txn>>
  BY DEF Lookup, tables
<1>2. CASE owner[Rcv(q)] = args[q].user
  BY <1>1, <1>2 DEF TypeOK, Lookup, Goto, NonceRead, HasNonce, Rcv
<1>3. CASE owner[Rcv(q)] # args[q].user
  <2>1. pc' = [pc EXCEPT ![q] = "done"] /\ seen' = seen
    BY <1>3 DEF Lookup, ReturnErr, Goto
  <2>2. QED
    BY <1>1, <2>1 DEF TypeOK, NonceRead, HasNonce, Rcv
<1>4. QED
  BY <1>2, <1>3

LEMMA NonceReadStep ==
  SingleWriter /\ IssuanceAssumption /\ TypeOK /\ TxnInv /\ MutexInv /\ CommitInv
    /\ NonceRead /\ [Next]_vars => NonceRead'
<1> SUFFICES ASSUME SingleWriter, IssuanceAssumption, TypeOK, TxnInv, MutexInv,
                    CommitInv, NonceRead, [Next]_vars
             PROVE  NonceRead'
  OBVIOUS
<1>0. CASE \E q \in Requests : Lookup(q) \/ ServerCommit(q)
  BY <1>0, NonceReadLookup, NonceReadCommit
<1> USE DEF IssuanceAssumption, TypeOK, TxnInv, NonceRead, HasNonce, Rcv, tables, locals
<1>1. ASSUME NEW r \in Receivers, NEW u \in Users, Register(r, u) PROVE NonceRead'
  BY <1>1 DEF Register
<1>2. ASSUME NEW q \in Requests, Arrive(q) PROVE NonceRead'
  BY <1>2 DEF Arrive, Goto
<1>3. ASSUME NEW q \in Requests, Lock(q) PROVE NonceRead'
  BY <1>3 DEF Lock, Goto
<1>4. ASSUME NEW q \in Requests, Begin(q) PROVE NonceRead'
  BY <1>4 DEF Begin, Goto
<1>5. ASSUME NEW q \in Requests, Lookup(q) PROVE NonceRead'
  BY <1>0, <1>5
<1>6. ASSUME NEW q \in Requests, Latest(q) PROVE NonceRead'
  BY <1>6 DEF Latest, Goto
<1>7. ASSUME NEW q \in Requests, Save(q) PROVE NonceRead'
  BY <1>7 DEF Save, Goto, RowLocked
<1>8. ASSUME NEW q \in Requests, Insert(q) PROVE NonceRead'
  BY <1>8 DEF Insert, Goto
<1>9. ASSUME NEW q \in Requests, Return(q) PROVE NonceRead'
  BY <1>9 DEF Return, Goto, Unlock
<1>10. ASSUME NEW q \in Requests, ServerCommit(q) PROVE NonceRead'
  BY <1>0, <1>10
<1>11. ASSUME NEW q \in Requests, ServerRollback(q) PROVE NonceRead'
  BY <1>11 DEF ServerRollback
<1>12. ASSUME NEW q \in Requests, DbError(q) PROVE NonceRead'
  BY <1>12 DEF DbError, ReturnErr, Goto, Unlock
<1>13. ASSUME NEW q \in Requests, InsertError(q) PROVE NonceRead'
  BY <1>13 DEF InsertError, Goto
<1>14. ASSUME NEW q \in Requests, CommitError(q) PROVE NonceRead'
  BY <1>14 DEF CommitError, ReturnErr, Goto, Unlock
<1>15. ASSUME NEW q \in Requests, Hangup(q) PROVE NonceRead'
  BY <1>15 DEF Hangup, Goto, Unlock
<1>16. ASSUME NEW n \in Nodes, Crash(n) PROVE NonceRead'
  BY <1>16 DEF Crash
<1>17. CASE UNCHANGED vars
  BY <1>17 DEF vars
<1>18. QED
  BY <1>1, <1>2, <1>3, <1>4, <1>5, <1>6, <1>7, <1>8, <1>9,
     <1>10, <1>11, <1>12, <1>13, <1>14, <1>15, <1>16, <1>17 DEF Next, Step, Server, Failure

\* A step that changes neither the rows nor a choice made from them.
KeepsAlpha ==
  /\ UNCHANGED <<randomness, args>>
  /\ \A p \in Requests : HasAlpha(p)' => HasAlpha(p) /\ alpha'[p] = alpha[p]

LEMMA AlphaReadKept == AlphaRead /\ KeepsAlpha => AlphaRead'
<1> SUFFICES ASSUME AlphaRead, KeepsAlpha, NEW p \in Requests, HasAlpha(p)'
             PROVE  (alpha[p] \in AlphaOf(p, Rcv(p)))'
  BY DEF AlphaRead
<1>1. AlphaOf(p, Rcv(p))' = AlphaOf(p, Rcv(p))
  BY DEF KeepsAlpha, AlphaOf, LatestRows, Y, Rcv
<1>2. QED
  BY <1>1 DEF KeepsAlpha, AlphaRead

LEMMA AlphaReadLatest ==
  ASSUME TypeOK, AlphaRead, NEW q \in Requests, Latest(q)
  PROVE  AlphaRead'
<1>1. UNCHANGED <<randomness, args, txn>>
  BY DEF Latest, tables
<1>2. \A p \in Requests : AlphaOf(p, Rcv(p))' = AlphaOf(p, Rcv(p))
  BY <1>1 DEF AlphaOf, LatestRows, Y, Rcv
<1>3. alpha'[q] \in AlphaOf(q, Rcv(q))
  BY DEF TypeOK, Latest
<1>4. ASSUME NEW p \in Requests \ {q}, HasAlpha(p)'
      PROVE  HasAlpha(p) /\ alpha'[p] = alpha[p]
  BY <1>1, <1>4 DEF TypeOK, Latest, Goto, HasAlpha
<1>5. QED
  BY <1>2, <1>3, <1>4 DEF AlphaRead

LEMMA AlphaReadCommit ==
  ASSUME SingleWriter, TypeOK, TxnInv, MutexInv, CommitInv,
         NEW q \in Requests, ServerCommit(q)
  PROVE  AlphaRead'
<1>1. ASSUME NEW p \in Requests PROVE ~ HasAlpha(p)'
  <2>1. HasAlpha(p)' => HasNonce(p) /\ txn[q] = "committing"
    BY DEF TypeOK, ServerCommit, HasNonce, HasAlpha
  <2>2. ~ HasAlpha(q)'
    BY DEF TypeOK, CommitInv, ServerCommit, HasAlpha
  <2>3. QED
    BY <2>1, <2>2, Exclusion
<1>2. QED
  BY <1>1 DEF AlphaRead

LEMMA AlphaReadStep ==
  SingleWriter /\ TypeOK /\ TxnInv /\ MutexInv /\ CommitInv /\ AlphaRead /\ [Next]_vars
    => AlphaRead'
<1> SUFFICES ASSUME SingleWriter, TypeOK, TxnInv, MutexInv, CommitInv, AlphaRead,
                    [Next]_vars
             PROVE  AlphaRead'
  OBVIOUS
<1> DEFINE Goal == KeepsAlpha \/ \E p \in Requests : Latest(p) \/ ServerCommit(p)
<1>0. Goal => AlphaRead'
  BY AlphaReadKept, AlphaReadLatest, AlphaReadCommit
<1> USE DEF TypeOK, TxnInv, KeepsAlpha, HasAlpha, tables, locals
<1>1. ASSUME NEW r \in Receivers, NEW u \in Users, Register(r, u) PROVE Goal
  BY <1>1 DEF Register
<1>2. ASSUME NEW q \in Requests, Arrive(q) PROVE Goal
  BY <1>2 DEF Arrive, Goto
<1>3. ASSUME NEW q \in Requests, Lock(q) PROVE Goal
  BY <1>3 DEF Lock, Goto
<1>4. ASSUME NEW q \in Requests, Begin(q) PROVE Goal
  BY <1>4 DEF Begin, Goto
<1>5. ASSUME NEW q \in Requests, Lookup(q) PROVE Goal
  BY <1>5 DEF Lookup, Goto, ReturnErr, Unlock
<1>6. ASSUME NEW q \in Requests, Latest(q) PROVE Goal
  BY <1>6
<1>7. ASSUME NEW q \in Requests, Save(q) PROVE Goal
  BY <1>7 DEF Save, Goto, RowLocked
<1>8. ASSUME NEW q \in Requests, Insert(q) PROVE Goal
  BY <1>8 DEF Insert, Goto
<1>9. ASSUME NEW q \in Requests, Return(q) PROVE Goal
  BY <1>9 DEF Return, Goto, Unlock
<1>10. ASSUME NEW q \in Requests, ServerCommit(q) PROVE Goal
  BY <1>10
<1>11. ASSUME NEW q \in Requests, ServerRollback(q) PROVE Goal
  BY <1>11 DEF ServerRollback
<1>12. ASSUME NEW q \in Requests, DbError(q) PROVE Goal
  BY <1>12 DEF DbError, ReturnErr, Goto, Unlock
<1>13. ASSUME NEW q \in Requests, InsertError(q) PROVE Goal
  BY <1>13 DEF InsertError, Goto
<1>14. ASSUME NEW q \in Requests, CommitError(q) PROVE Goal
  BY <1>14 DEF CommitError, ReturnErr, Goto, Unlock
<1>15. ASSUME NEW q \in Requests, Hangup(q) PROVE Goal
  BY <1>15 DEF Hangup, Goto, Unlock
<1>16. ASSUME NEW n \in Nodes, Crash(n) PROVE Goal
  BY <1>16 DEF Crash
<1>17. CASE UNCHANGED vars
  BY <1>0, <1>17 DEF vars
<1>18. QED
  BY <1>0, <1>1, <1>2, <1>3, <1>4, <1>5, <1>6, <1>7, <1>8, <1>9,
     <1>10, <1>11, <1>12, <1>13, <1>14, <1>15, <1>16, <1>17 DEF Next, Step, Server, Failure

\* The columns of a row, as its position determines them.
LEMMA RowAt ==
  ASSUME TypeOK, SeedInv, NEW r \in Receivers, NEW i \in DOMAIN randomness[r]
  PROVE  /\ randomness[r][i].epoch = i - 1
         /\ \E p \in Requests : Rcv(p) = r /\ randomness[r][i].alpha = <<p, i - 1>>
<1>1. randomness[r] # <<>>
  <2>1. randomness[r] \in Seq(Row)
    BY DEF TypeOK
  <2>2. DOMAIN randomness[r] # {}
    OBVIOUS
  <2>3. QED
    BY <2>1, <2>2
<1>2. PICK p \in Requests :
        Rcv(p) = r /\ randomness[r][i] = [epoch |-> i - 1, alpha |-> <<p, i - 1>>]
  BY <1>1 DEF SeedInv
<1>3. QED
  BY <1>2

\* The greatest epoch is the one of the last row.
LEMMA LatestIsLast ==
  ASSUME TypeOK, SeedInv, NEW r \in Receivers, randomness[r] # <<>>
  PROVE  LatestRows(r) = {Len(randomness[r])}
<1>1. randomness[r] \in Seq(Row)
  BY DEF TypeOK
<1>2. Len(randomness[r]) \in Nat \ {0} /\ DOMAIN randomness[r] = 1 .. Len(randomness[r])
  BY <1>1
<1>3. \A i \in DOMAIN randomness[r] : randomness[r][i].epoch = i - 1
  BY RowAt
<1>4. LatestRows(r) = {i \in DOMAIN randomness[r] :
                         \A j \in DOMAIN randomness[r] : j - 1 <= i - 1}
  <2>1. ASSUME NEW i \in DOMAIN randomness[r], NEW j \in DOMAIN randomness[r]
        PROVE  randomness[r][j].epoch <= randomness[r][i].epoch <=> j - 1 <= i - 1
    BY <1>3
  <2>2. QED
    BY <2>1 DEF LatestRows
<1>5. \A n \in Nat \ {0} : {i \in 1 .. n : \A j \in 1 .. n : j - 1 <= i - 1} = {n}
  OBVIOUS
<1>6. QED
  BY <1>2, <1>4, <1>5

\* The input a task may choose continues the chain of its receiver.
LEMMA ChoiceContinues ==
  ASSUME TypeOK, SeedInv, NEW q \in Requests, NEW a \in AlphaOf(q, Rcv(q))
  PROVE  \E p \in Requests :
           /\ Rcv(p) = Rcv(q)
           /\ a = <<p, Len(randomness[Rcv(q)])>>
           /\ \A i \in DOMAIN randomness[Rcv(q)] :
                randomness[Rcv(q)][i] = [epoch |-> i - 1, alpha |-> <<p, i - 1>>]
<1> DEFINE rows == randomness[Rcv(q)]
<1>1. Rcv(q) \in Receivers /\ rows \in Seq(Row)
  BY DEF TypeOK, Rcv
<1>2. CASE rows = <<>>
  <2>1. a = Randomize(q) /\ Len(rows) = 0 /\ DOMAIN rows = {}
    BY <1>2 DEF AlphaOf
  <2>2. QED
    BY <2>1 DEF Randomize
<1>3. CASE rows # <<>>
  <2>1. PICK p \in Requests :
          /\ Rcv(p) = Rcv(q)
          /\ \A i \in DOMAIN rows : rows[i] = [epoch |-> i - 1, alpha |-> <<p, i - 1>>]
    BY <1>1, <1>3 DEF SeedInv
  <2>2. a = Y(rows[Len(rows)])
    BY <1>1, <1>3, LatestIsLast DEF AlphaOf
  <2>3. Len(rows) \in Nat \ {0} /\ Len(rows) \in DOMAIN rows
    BY <1>1, <1>3
  <2>4. rows[Len(rows)].alpha = <<p, Len(rows) - 1>>
    <3>1. rows[Len(rows)] = [epoch |-> Len(rows) - 1, alpha |-> <<p, Len(rows) - 1>>]
      BY <2>1, <2>3
    <3>2. QED
      BY <3>1
  <2>5. a = <<p, Len(rows)>>
    BY <2>2, <2>3, <2>4 DEF Y, ProveContract
  <2>6. QED
    BY <2>1, <2>5
<1>4. QED
  BY <1>2, <1>3

\* No row has the input that continues a chain, so the index accepts it.
LEMMA ChoiceIsFree ==
  ASSUME TypeOK, SeedInv, NEW q \in Requests, NEW a \in AlphaOf(q, Rcv(q))
  PROVE  ~ AlphaTaken(a)
<1> SUFFICES ASSUME NEW r \in Receivers, NEW i \in DOMAIN randomness[r],
                    randomness[r][i].alpha = a
             PROVE  FALSE
  BY DEF AlphaTaken
<1>1. PICK p \in Requests : Rcv(p) = Rcv(q) /\ a = <<p, Len(randomness[Rcv(q)])>>
  BY ChoiceContinues
<1>2. randomness[r] \in Seq(Row)
  BY DEF TypeOK
<1>3. PICK s \in Requests : Rcv(s) = r /\ randomness[r][i].alpha = <<s, i - 1>>
  BY RowAt
<1>4. r = Rcv(q) /\ i - 1 = Len(randomness[r])
  BY <1>1, <1>3
<1>5. QED
  BY <1>2, <1>4

LEMMA SeedStep ==
  TypeOK /\ NonceRead /\ AlphaRead /\ SeedInv /\ NonceInv /\ [Next]_vars => SeedInv'
<1> SUFFICES ASSUME TypeOK, NonceRead, AlphaRead, SeedInv, NonceInv, [Next]_vars
             PROVE  SeedInv'
  OBVIOUS
<1>1. CASE UNCHANGED <<randomness, args>>
  BY <1>1 DEF SeedInv, Rcv
<1>2. ASSUME NEW q \in Requests, ServerCommit(q) PROVE SeedInv'
  <2> DEFINE rows == randomness[Rcv(q)]
  <2>1. seen[q] = nonce[Rcv(q)] /\ alpha[q] \in AlphaOf(q, Rcv(q))
    BY <1>2 DEF ServerCommit, NonceRead, HasNonce, AlphaRead, HasAlpha
  <2>2. PICK p \in Requests :
          /\ Rcv(p) = Rcv(q)
          /\ alpha[q] = <<p, Len(rows)>>
          /\ \A i \in DOMAIN rows : rows[i] = [epoch |-> i - 1, alpha |-> <<p, i - 1>>]
    BY <2>1, ChoiceContinues
  <2>3. Rcv(q) \in Receivers /\ rows \in Seq(Row) /\ randomness'[Rcv(q)] = Append(rows, NewRow(q))
    BY <1>2, Appended
  <2>4. NewRow(q) = [epoch |-> Len(rows), alpha |-> <<p, Len(rows)>>]
    BY <2>1, <2>2, <2>3 DEF NewRow, NonceInv
  <2>5. \A i \in DOMAIN randomness'[Rcv(q)] :
          randomness'[Rcv(q)][i] = [epoch |-> i - 1, alpha |-> <<p, i - 1>>]
    <3>1. ASSUME NEW i \in DOMAIN rows
          PROVE  randomness'[Rcv(q)][i] = [epoch |-> i - 1, alpha |-> <<p, i - 1>>]
      BY <2>2, <2>3
    <3>2. randomness'[Rcv(q)][Len(rows) + 1] = [epoch |-> Len(rows), alpha |-> <<p, Len(rows)>>]
      BY <2>3, <2>4
    <3>3. DOMAIN randomness'[Rcv(q)] = DOMAIN rows \cup {Len(rows) + 1} /\ Len(rows) \in Nat
      BY <2>3
    <3>4. (Len(rows) + 1) - 1 = Len(rows)
      BY <3>3
    <3> QED BY <3>1, <3>2, <3>3, <3>4, Zenon
  <2>6. UNCHANGED args
    BY <1>2 DEF ServerCommit
  <2>7. ASSUME NEW r \in Receivers, randomness'[r] # <<>>
        PROVE  \E s \in Requests :
                 /\ Rcv(s)' = r
                 /\ \A i \in DOMAIN randomness'[r] :
                      randomness'[r][i] = [epoch |-> i - 1, alpha |-> <<s, i - 1>>]
    <3>1. CASE r = Rcv(q)
      BY <2>2, <2>5, <2>6, <3>1 DEF Rcv
    <3>2. CASE r # Rcv(q)
      <4>1. randomness'[r] = randomness[r]
        BY <1>2, <3>2, Appended
      <4>2. PICK s \in Requests :
              /\ Rcv(s) = r
              /\ \A i \in DOMAIN randomness[r] :
                   randomness[r][i] = [epoch |-> i - 1, alpha |-> <<s, i - 1>>]
        BY <2>7, <4>1 DEF SeedInv
      <4>3. QED
        BY <2>6, <4>1, <4>2 DEF Rcv
    <3>3. QED
      BY <3>1, <3>2
  <2>8. QED
    BY <2>7 DEF SeedInv
<1>3. QED
  BY <1>1, <1>2, OnlyCommitAppends

\* A COMMIT makes the nonce the number of rows again.
LEMMA NonceInvCommit ==
  ASSUME IssuanceAssumption, TypeOK, NonceRead, NonceInv,
         NEW q \in Requests, ServerCommit(q)
  PROVE  NonceInv'
<1>1. seen[q] = nonce[Rcv(q)] /\ owner[Rcv(q)] = args[q].user
  BY DEF ServerCommit, NonceRead, HasNonce
<1>2. /\ Rcv(q) \in Receivers
      /\ randomness[Rcv(q)] \in Seq(Row)
      /\ randomness'[Rcv(q)] = Append(randomness[Rcv(q)], NewRow(q))
      /\ \A r \in Receivers \ {Rcv(q)} : randomness'[r] = randomness[r]
  BY Appended
<1>3. nonce' = [nonce EXCEPT ![Rcv(q)] = seen[q] + 1] /\ UNCHANGED owner
  BY DEF ServerCommit, NextNonce
<1>4. args[q].user # Nobody
  BY DEF TypeOK, IssuanceAssumption
<1>5. ASSUME NEW r \in Receivers
      PROVE  nonce'[r] = Len(randomness'[r]) /\ (owner'[r] = Nobody => nonce'[r] = 0)
  <2>1. CASE r = Rcv(q)
    <3>1. Len(randomness'[r]) = Len(randomness[r]) + 1
      BY <1>2, <2>1
    <3>2. nonce'[r] = nonce[r] + 1
      BY <1>1, <1>3, <2>1 DEF TypeOK
    <3>3. owner'[r] # Nobody
      BY <1>1, <1>3, <1>4, <2>1
    <3>4. QED
      BY <3>1, <3>2, <3>3 DEF NonceInv
  <2>2. CASE r # Rcv(q)
    BY <1>2, <1>3, <2>2 DEF TypeOK, NonceInv
  <2>3. QED
    BY <2>1, <2>2
<1>6. QED
  BY <1>5 DEF NonceInv

LEMMA NonceInvStep ==
  IssuanceAssumption /\ TypeOK /\ NonceRead /\ NonceInv /\ [Next]_vars => NonceInv'
<1> SUFFICES ASSUME IssuanceAssumption, TypeOK, NonceRead, NonceInv, [Next]_vars
             PROVE  NonceInv'
  OBVIOUS
<1> DEFINE Same == UNCHANGED <<owner, nonce, randomness>>
<1>0. Same => NonceInv'
  BY DEF NonceInv
<1>1. ASSUME NEW r \in Receivers, NEW u \in Users, Register(r, u) PROVE NonceInv'
  BY <1>1 DEF Register, TypeOK, NonceInv, IssuanceAssumption
<1>2. ASSUME NEW q \in Requests, Arrive(q) PROVE NonceInv'
  BY <1>0, <1>2 DEF tables, Arrive, Goto
<1>3. ASSUME NEW q \in Requests, Lock(q) PROVE NonceInv'
  BY <1>0, <1>3 DEF tables, Lock, Goto
<1>4. ASSUME NEW q \in Requests, Begin(q) PROVE NonceInv'
  BY <1>0, <1>4 DEF tables, Begin, Goto
<1>5. ASSUME NEW q \in Requests, Lookup(q) PROVE NonceInv'
  BY <1>0, <1>5 DEF tables, Lookup, Goto, ReturnErr, Unlock
<1>6. ASSUME NEW q \in Requests, Latest(q) PROVE NonceInv'
  BY <1>0, <1>6 DEF tables, Latest, Goto
<1>7. ASSUME NEW q \in Requests, Save(q) PROVE NonceInv'
  BY <1>0, <1>7 DEF tables, Save, Goto, RowLocked
<1>8. ASSUME NEW q \in Requests, Insert(q) PROVE NonceInv'
  BY <1>0, <1>8 DEF tables, Insert, Goto
<1>9. ASSUME NEW q \in Requests, Return(q) PROVE NonceInv'
  BY <1>0, <1>9 DEF tables, Return, Goto, Unlock
<1>10. ASSUME NEW q \in Requests, ServerCommit(q) PROVE NonceInv'
  BY <1>10, NonceInvCommit
<1>11. ASSUME NEW q \in Requests, ServerRollback(q) PROVE NonceInv'
  BY <1>0, <1>11 DEF tables, ServerRollback
<1>12. ASSUME NEW q \in Requests, DbError(q) PROVE NonceInv'
  BY <1>0, <1>12 DEF tables, DbError, ReturnErr, Goto, Unlock
<1>13. ASSUME NEW q \in Requests, InsertError(q) PROVE NonceInv'
  BY <1>0, <1>13 DEF tables, InsertError, Goto
<1>14. ASSUME NEW q \in Requests, CommitError(q) PROVE NonceInv'
  BY <1>0, <1>14 DEF tables, CommitError, ReturnErr, Goto, Unlock
<1>15. ASSUME NEW q \in Requests, Hangup(q) PROVE NonceInv'
  BY <1>0, <1>15 DEF tables, Hangup, Goto, Unlock
<1>16. ASSUME NEW n \in Nodes, Crash(n) PROVE NonceInv'
  BY <1>0, <1>16 DEF tables, Crash
<1>17. CASE UNCHANGED vars
  BY <1>0, <1>17 DEF tables, vars
<1>18. QED
  BY <1>1, <1>2, <1>3, <1>4, <1>5, <1>6, <1>7, <1>8, <1>9,
     <1>10, <1>11, <1>12, <1>13, <1>14, <1>15, <1>16, <1>17 DEF Next, Step, Server, Failure

\* The index accepts every input, the choice still being the one that
\* continues the chain when the row is inserted.
LEMMA NoConflictInsert ==
  ASSUME TypeOK, AlphaRead, SeedInv, NoConflict, NEW q \in Requests, Insert(q)
  PROVE  NoConflict'
<1>1. ~ AlphaTaken(alpha[q])
  BY ChoiceIsFree DEF Insert, AlphaRead, HasAlpha
<1>2. result' = [result EXCEPT ![q] = "ok"]
  BY <1>1 DEF Insert
<1>3. QED
  BY <1>2 DEF TypeOK, NoConflict

LEMMA NoConflictStep ==
  TypeOK /\ AlphaRead /\ SeedInv /\ NoConflict /\ [Next]_vars => NoConflict'
<1> SUFFICES ASSUME TypeOK, AlphaRead, SeedInv, NoConflict, [Next]_vars
             PROVE  NoConflict'
  OBVIOUS
<1>0. CASE \E q \in Requests : Insert(q)
  BY <1>0, NoConflictInsert
<1> USE DEF TypeOK, NoConflict, locals
<1>1. ASSUME NEW r \in Receivers, NEW u \in Users, Register(r, u) PROVE NoConflict'
  BY <1>1 DEF Register
<1>2. ASSUME NEW q \in Requests, Arrive(q) PROVE NoConflict'
  BY <1>2 DEF Arrive, Goto
<1>3. ASSUME NEW q \in Requests, Lock(q) PROVE NoConflict'
  BY <1>3 DEF Lock, Goto
<1>4. ASSUME NEW q \in Requests, Begin(q) PROVE NoConflict'
  BY <1>4 DEF Begin, Goto
<1>5. ASSUME NEW q \in Requests, Lookup(q) PROVE NoConflict'
  BY <1>5 DEF Lookup, Goto, ReturnErr, Unlock
<1>6. ASSUME NEW q \in Requests, Latest(q) PROVE NoConflict'
  BY <1>6 DEF Latest, Goto
<1>7. ASSUME NEW q \in Requests, Save(q) PROVE NoConflict'
  BY <1>7 DEF Save, Goto, RowLocked
<1>8. ASSUME NEW q \in Requests, Insert(q) PROVE NoConflict'
  BY <1>0, <1>8
<1>9. ASSUME NEW q \in Requests, Return(q) PROVE NoConflict'
  BY <1>9 DEF Return, Goto, Unlock
<1>10. ASSUME NEW q \in Requests, ServerCommit(q) PROVE NoConflict'
  BY <1>10 DEF ServerCommit
<1>11. ASSUME NEW q \in Requests, ServerRollback(q) PROVE NoConflict'
  BY <1>11 DEF ServerRollback
<1>12. ASSUME NEW q \in Requests, DbError(q) PROVE NoConflict'
  BY <1>12 DEF DbError, ReturnErr, Goto, Unlock
<1>13. ASSUME NEW q \in Requests, InsertError(q) PROVE NoConflict'
  BY <1>13 DEF InsertError, Goto
<1>14. ASSUME NEW q \in Requests, CommitError(q) PROVE NoConflict'
  BY <1>14 DEF CommitError, ReturnErr, Goto, Unlock
<1>15. ASSUME NEW q \in Requests, Hangup(q) PROVE NoConflict'
  BY <1>15 DEF Hangup, Goto, Unlock
<1>16. ASSUME NEW n \in Nodes, Crash(n) PROVE NoConflict'
  BY <1>16 DEF Crash
<1>17. CASE UNCHANGED vars
  BY <1>17 DEF vars
<1>18. QED
  BY <1>1, <1>2, <1>3, <1>4, <1>5, <1>6, <1>7, <1>8, <1>9,
     <1>10, <1>11, <1>12, <1>13, <1>14, <1>15, <1>16, <1>17 DEF Next, Step, Server, Failure

LEMMA IInvInit == Init => IInv
<1> SUFFICES ASSUME Init PROVE IInv
  OBVIOUS
<1>1. TypeOK
  BY IssuanceAssumption, ScalarClosed
  DEF Init, TypeOK, IssuanceAssumption, Results, TxnStates, Awaits, Holding, InTxn, Ended
<1>2. TxnInv /\ RowLockInv /\ MutexInv /\ CommitInv /\ NonceRead /\ AlphaRead
  BY DEF Init, TxnInv, RowLockInv, Locking, MutexInv, Holding, InTxn, CommitInv,
         NonceRead, HasNonce, AlphaRead, HasAlpha
<1>3. SeedInv /\ NonceInv /\ NoConflict
  BY DEF Init, SeedInv, NonceInv, NoConflict
<1>4. QED
  BY <1>1, <1>2, <1>3 DEF IInv

LEMMA IInvStep == SingleWriter /\ IInv /\ [Next]_vars => IInv'
<1> SUFFICES ASSUME SingleWriter, IInv, [Next]_vars PROVE IInv'
  OBVIOUS
<1> USE DEF IInv
<1>1. TypeOK' /\ TxnInv' /\ RowLockInv' /\ MutexInv'
  BY IssuanceAssumption, TypeStep, LockStep, MutexStep
<1>2. CommitInv' /\ NonceRead' /\ AlphaRead'
  BY IssuanceAssumption, CommitStep, NonceReadStep, AlphaReadStep
<1>3. SeedInv' /\ NonceInv' /\ NoConflict'
  BY IssuanceAssumption, SeedStep, NonceInvStep, NoConflictStep
<1>4. QED
  BY <1>1, <1>2, <1>3

\* The explicit form of the rows is a chain of consecutive epochs.
LEMMA IInvChains == IInv => ChainedEpochs
<1> SUFFICES ASSUME IInv, NEW r \in Receivers
             PROVE  /\ nonce[r] = Len(randomness[r])
                    /\ \A i \in DOMAIN randomness[r] :
                         /\ randomness[r][i].epoch = i - 1
                         /\ i > 1 => randomness[r][i].alpha = Y(randomness[r][i - 1])
  BY DEF ChainedEpochs, PreviousRandomness
<1>1. nonce[r] = Len(randomness[r])
  BY DEF IInv, NonceInv
<1>2. ASSUME NEW i \in DOMAIN randomness[r]
      PROVE  /\ randomness[r][i].epoch = i - 1
             /\ i > 1 => randomness[r][i].alpha = Y(randomness[r][i - 1])
  <2>1. randomness[r][i].epoch = i - 1
    BY RowAt DEF IInv
  <2>2. ASSUME i > 1 PROVE randomness[r][i].alpha = Y(randomness[r][i - 1])
    <3>1. randomness[r] \in Seq(Row)
      BY DEF IInv, TypeOK
    <3>2. randomness[r] # <<>> /\ i \in Nat /\ i - 1 \in DOMAIN randomness[r]
      BY <2>2, <3>1
    <3>3. PICK p \in Requests :
            \A j \in DOMAIN randomness[r] :
              randomness[r][j] = [epoch |-> j - 1, alpha |-> <<p, j - 1>>]
      BY <3>2 DEF IInv, SeedInv
    <3>4. randomness[r][i].alpha = <<p, i - 1>> /\ randomness[r][i - 1].alpha = <<p, i - 2>>
      <4>1. /\ randomness[r][i] = [epoch |-> i - 1, alpha |-> <<p, i - 1>>]
            /\ randomness[r][i - 1] = [epoch |-> i - 1 - 1, alpha |-> <<p, i - 1 - 1>>]
        BY <3>2, <3>3
      <4>2. QED
        BY <3>2, <4>1
    <3>5. QED
      BY <3>2, <3>4 DEF Y, ProveContract
  <2>3. QED
    BY <2>1, <2>2
<1>3. QED
  BY <1>1, <1>2

\* With one node, and no COMMIT executed after its task is gone, the rows of a
\* receiver are always the epochs 0 .. nonce - 1 and each is computed on the
\* output of the one before it, however requests interleave and fail.
THEOREM Chained == SingleWriter => (Spec => []ChainedEpochs)
<1> SUFFICES ASSUME SingleWriter PROVE Spec => []ChainedEpochs
  OBVIOUS
<1>1. IInv /\ [Next]_vars => IInv'
  BY IInvStep
<1>2. QED
  BY <1>1, IInvInit, IInvChains, PTL DEF Spec

\* Under the same assumption no request ever runs into a unique index: the
\* mutex alone keeps the inputs of the epochs apart.
THEOREM NeverConflicts == SingleWriter => (Spec => []NoConflict)
<1> SUFFICES ASSUME SingleWriter PROVE Spec => []NoConflict
  OBVIOUS
<1>1. IInv /\ [Next]_vars => IInv'
  BY IInvStep
<1>2. IInv => NoConflict
  BY DEF IInv
<1>3. QED
  BY <1>1, <1>2, IInvInit, PTL DEF Spec

-----------------------------------------------------------------------------
(***************************************************************************)
(* The node implements EpochChain.                                         *)
(***************************************************************************)

\* A step that neither changes the rows nor answers a request with an epoch.
Stutters ==
  /\ UNCHANGED <<randomness, args>>
  /\ \A p \in Requests :
       /\ pc'[p] = "done" /\ result'[p] = "ok" <=> pc[p] = "done" /\ result[p] = "ok"
       /\ pc[p] = "done" => seen'[p] = seen[p]

Answers(q) == Return(q) /\ result[q] = "ok"

\* Every step is a COMMIT, an answer, or a stutter of the abstract chain.
LEMMA StepKinds ==
  TypeOK /\ [Next]_vars
    => Stutters \/ \E q \in Requests : ServerCommit(q) \/ Answers(q)
<1> SUFFICES ASSUME TypeOK, [Next]_vars
             PROVE  Stutters \/ \E p \in Requests : ServerCommit(p) \/ Answers(p)
  OBVIOUS
<1> USE DEF TypeOK, Stutters, Answers, tables, locals, Awaits, Holding, InTxn, Ended
<1>1. ASSUME NEW r \in Receivers, NEW u \in Users, Register(r, u) PROVE Stutters \/ \E p \in Requests : ServerCommit(p) \/ Answers(p)
  BY <1>1 DEF Register
<1>2. ASSUME NEW q \in Requests, Arrive(q) PROVE Stutters \/ \E p \in Requests : ServerCommit(p) \/ Answers(p)
  BY <1>2 DEF Arrive, Goto
<1>3. ASSUME NEW q \in Requests, Lock(q) PROVE Stutters \/ \E p \in Requests : ServerCommit(p) \/ Answers(p)
  BY <1>3 DEF Lock, Goto
<1>4. ASSUME NEW q \in Requests, Begin(q) PROVE Stutters \/ \E p \in Requests : ServerCommit(p) \/ Answers(p)
  BY <1>4 DEF Begin, Goto
<1>5. ASSUME NEW q \in Requests, Lookup(q) PROVE Stutters \/ \E p \in Requests : ServerCommit(p) \/ Answers(p)
  BY <1>5 DEF Lookup, Goto, ReturnErr, Unlock
<1>6. ASSUME NEW q \in Requests, Latest(q) PROVE Stutters \/ \E p \in Requests : ServerCommit(p) \/ Answers(p)
  BY <1>6 DEF Latest, Goto
<1>7. ASSUME NEW q \in Requests, Save(q) PROVE Stutters \/ \E p \in Requests : ServerCommit(p) \/ Answers(p)
  BY <1>7 DEF Save, Goto, RowLocked
<1>8. ASSUME NEW q \in Requests, Insert(q) PROVE Stutters \/ \E p \in Requests : ServerCommit(p) \/ Answers(p)
  BY <1>8 DEF Insert, Goto
<1>9. ASSUME NEW q \in Requests, Return(q) PROVE Stutters \/ \E p \in Requests : ServerCommit(p) \/ Answers(p)
  BY <1>9 DEF Return, Goto, Unlock
<1>10. ASSUME NEW q \in Requests, ServerCommit(q) PROVE Stutters \/ \E p \in Requests : ServerCommit(p) \/ Answers(p)
  BY <1>10
<1>11. ASSUME NEW q \in Requests, ServerRollback(q) PROVE Stutters \/ \E p \in Requests : ServerCommit(p) \/ Answers(p)
  BY <1>11 DEF ServerRollback
<1>12. ASSUME NEW q \in Requests, DbError(q) PROVE Stutters \/ \E p \in Requests : ServerCommit(p) \/ Answers(p)
  BY <1>12 DEF DbError, ReturnErr, Goto, Unlock
<1>13. ASSUME NEW q \in Requests, InsertError(q) PROVE Stutters \/ \E p \in Requests : ServerCommit(p) \/ Answers(p)
  BY <1>13 DEF InsertError, Goto
<1>14. ASSUME NEW q \in Requests, CommitError(q) PROVE Stutters \/ \E p \in Requests : ServerCommit(p) \/ Answers(p)
  BY <1>14 DEF CommitError, ReturnErr, Goto, Unlock
<1>15. ASSUME NEW q \in Requests, Hangup(q) PROVE Stutters \/ \E p \in Requests : ServerCommit(p) \/ Answers(p)
  BY <1>15 DEF Hangup, Goto, Unlock
<1>16. ASSUME NEW n \in Nodes, Crash(n) PROVE Stutters \/ \E p \in Requests : ServerCommit(p) \/ Answers(p)
  BY <1>16 DEF Crash
<1>17. CASE UNCHANGED vars
  BY <1>17 DEF vars
<1> HIDE DEF Stutters, Answers, TypeOK
<1>18. QED
  BY <1>1, <1>2, <1>3, <1>4, <1>5, <1>6, <1>7, <1>8, <1>9,
     <1>10, <1>11, <1>12, <1>13, <1>14, <1>15, <1>16, <1>17 DEF Next, Step, Server, Failure

LEMMA StutterRefines == Stutters => UNCHANGED Chain!vars
<1> SUFFICES ASSUME Stutters
             PROVE  UNCHANGED <<randomness, {<<Rcv(q), seen[q] + 1>> : q \in Delivered}>>
  BY DEF Chain!vars
<1>1. Delivered' = Delivered
  BY DEF Stutters, Delivered
<1>2. \A q \in Delivered : Rcv(q)' = Rcv(q) /\ seen'[q] = seen[q]
  BY DEF Stutters, Delivered, Rcv
<1>3. QED
  BY <1>1, <1>2 DEF Stutters

\* A COMMIT issues the next epoch of the receiver, which starts from a fresh
\* scalar if it is the first.
LEMMA CommitRefines ==
  ASSUME IInv, NEW q \in Requests, ServerCommit(q)
  PROVE  \E p \in Requests : Chain!Issue(Rcv(q), p)
<1> DEFINE r == Rcv(q)
<1>1. UNCHANGED <<args, pc, seen, result>>
  BY DEF ServerCommit, locals
<1>2. UNCHANGED {<<Rcv(p), seen[p] + 1>> : p \in Delivered}
  BY <1>1 DEF Delivered, Rcv
<1>3. r \in Receivers /\ randomness[r] \in Seq(Row)
  BY DEF IInv, TypeOK, Rcv
<1>4. seen[q] = nonce[r] /\ alpha[q] \in AlphaOf(q, r)
  BY DEF IInv, ServerCommit, NonceRead, HasNonce, AlphaRead, HasAlpha
<1>5. seen[q] = Len(randomness[r])
  BY <1>3, <1>4 DEF IInv, NonceInv
<1>6. randomness' = [randomness EXCEPT ![r] =
                       Append(@, [epoch |-> Len(@), alpha |-> alpha[q]])]
  BY <1>5 DEF ServerCommit, NewRow
<1>7. alpha[q] = IF randomness[r] = <<>> THEN Randomize(q)
                                         ELSE Y(randomness[r][Len(randomness[r])])
  BY <1>3, <1>4, LatestIsLast DEF IInv, AlphaOf
<1>8. ASSUME randomness[r] = <<>>, NEW s \in Receivers, NEW i \in DOMAIN randomness[s]
      PROVE  randomness[s][i].alpha[1] # q
  <2>1. PICK p \in Requests : Rcv(p) = s /\ randomness[s][i].alpha = <<p, i - 1>>
    BY RowAt DEF IInv
  <2>2. s # r
    BY <1>8
  <2>3. QED
    BY <2>1, <2>2
<1>9. Chain!Issue(r, q)
  BY <1>2, <1>6, <1>7, <1>8 DEF Chain!Issue, Chain!NextAlpha, Chain!Unused, Chain!Randomize,
     Chain!Y, Chain!ProveContract, Randomize, Y, ProveContract
<1>10. QED
  BY <1>9

\* An answer hands out a row that was not handed out before.
LEMMA AnswerRefines ==
  ASSUME IInv, DurableInv, NEW q \in Requests, Answers(q)
  PROVE  \E i \in DOMAIN randomness[Rcv(q)] : Chain!Deliver(Rcv(q), i)
<1> DEFINE sent == {<<Rcv(p), seen[p] + 1>> : p \in Delivered}
<1>1. /\ pc[q] = "commit" /\ txn[q] = "none" /\ result[q] = "ok"
      /\ pc' = [pc EXCEPT ![q] = "done"]
      /\ UNCHANGED <<randomness, args, seen, result>>
  BY DEF Answers, Return, Goto, tables, locals
<1>2. Delivered' = Delivered \cup {q}
  BY <1>1 DEF Delivered, IInv, TypeOK
<1>3. sent' = sent \cup {<<Rcv(q), seen[q] + 1>>}
  BY <1>1, <1>2 DEF Rcv
<1>4. ASSUME NEW p \in Requests, Committed(p)
      PROVE  /\ seen[p] + 1 \in DOMAIN randomness[Rcv(p)]
             /\ randomness[Rcv(p)][seen[p] + 1].alpha = alpha[p]
  <2>1. PICK i \in DOMAIN randomness[Rcv(p)] : randomness[Rcv(p)][i] = NewRow(p)
    BY <1>4 DEF DurableInv, RecordedInv
  <2>2. Rcv(p) \in Receivers /\ randomness[Rcv(p)] \in Seq(Row) /\ seen[p] \in Nat
    BY DEF IInv, TypeOK, Rcv
  <2>3. randomness[Rcv(p)][i].epoch = seen[p] /\ randomness[Rcv(p)][i].alpha = alpha[p]
    BY <2>1 DEF NewRow
  <2>4. i - 1 = seen[p]
    BY <2>2, <2>3, RowAt DEF IInv
  <2>5. i = seen[p] + 1
    BY <2>2, <2>4
  <2>6. QED
    BY <2>3, <2>5
<1>5. Committed(q)
  BY <1>1 DEF Committed
<1>6. ASSUME NEW p \in Delivered, Rcv(p) = Rcv(q), seen[p] + 1 = seen[q] + 1 PROVE FALSE
  <2>1. p \in Requests /\ Committed(p) /\ p # q
    BY <1>1 DEF Delivered, Committed, DurableInv, OutcomeInv
  <2>2. alpha[p] # alpha[q]
    BY <1>5, <2>1 DEF DurableInv, DistinctInv
  <2>3. QED
    BY <1>4, <1>5, <1>6, <2>1, <2>2
<1>7. <<Rcv(q), seen[q] + 1>> \notin sent
  BY <1>6
<1>8. PICK i \in DOMAIN randomness[Rcv(q)] : i = seen[q] + 1
  BY <1>4, <1>5
<1>9. Chain!Deliver(Rcv(q), i)
  BY <1>1, <1>3, <1>7, <1>8 DEF Chain!Deliver
<1>10. QED
  BY <1>9

\* With one node, and no COMMIT executed after its task is gone, the mutex, the
\* transaction and the indexes together implement the abstract chain: every
\* step of the node issues the next epoch of one receiver, hands one epoch to
\* one client, or changes nothing a client or a reader of the table could see.
THEOREM Implements == SingleWriter => (Spec => ImplementsChain)
<1> SUFFICES ASSUME SingleWriter PROVE Spec => ImplementsChain
  OBVIOUS
<1>1. Init => Chain!Init
  BY DEF Init, Chain!Init, Delivered
<1>2. IInv /\ DurableInv /\ [Next]_vars => [Chain!Next]_(Chain!vars)
  <2> SUFFICES ASSUME IInv, DurableInv, [Next]_vars PROVE [Chain!Next]_(Chain!vars)
    OBVIOUS
  <2>1. CASE Stutters
    BY <2>1, StutterRefines
  <2>2. ASSUME NEW q \in Requests, ServerCommit(q) PROVE Chain!Next
    <3>1. Rcv(q) \in Receivers
      BY DEF IInv, TypeOK, Rcv
    <3>2. QED
      BY <2>2, <3>1, CommitRefines DEF Chain!Next
  <2>3. ASSUME NEW q \in Requests, Answers(q) PROVE Chain!Next
    <3>1. Rcv(q) \in Receivers
      BY DEF IInv, TypeOK, Rcv
    <3>2. QED
      BY <2>3, <3>1, AnswerRefines DEF Chain!Next
  <2>4. QED
    BY <2>1, <2>2, <2>3, StepKinds DEF IInv
<1>3. IInv /\ [Next]_vars => IInv'
  BY IInvStep
<1>4. QED
  BY <1>1, <1>2, <1>3, IInvInit, DurableInit, DurableStep, PTL
  DEF Spec, ImplementsChain, Chain!Spec
=============================================================================
