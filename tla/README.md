# Orochimaru in TLA+

TLA+ models of the programs in this repository, the TLC runs that check them on
small instances, and TLAPS proofs of the properties that matter most. Paths such
as `randomness.rs:145` are relative to the repository; the first mention of a
file gives its directory.

## 1. Inventory

The repository holds two systems that have their own logic, and libraries they
are built on.

### Orand (`node/`, with `libecvrf/` and `docker/node/`)

A JSON-RPC node that sells verifiable randomness. A *receiver* is an (address,
network) pair owned by a user; its randomness is a chain of *epochs*, the output
`y` of each being the input `alpha` of the next.

| component | state | operations | interacts with |
|---|---|---|---|
| epoch issuance: `safe_insert`, `node/src/postgres/table/randomness.rs:138-275` | mutex `NodeContext.sync` (one per process), one database transaction per request, tables `receiver` (nonce) and `randomness` (rows) | newPublicEpoch, newPrivateEpoch | tokio tasks, Postgres, the VRF, the double check in rEVM, the signer |
| epoch queries: `randomness.rs:36-135`, `main.rs:56-79` | none; reads the tables | getPublicEpoch, getPrivateEpoch | issuance, through the tables |
| users, receivers, start-up: `node/src/main.rs:233-377, 391-469`, `table/keyring.rs`, `table/receiver.rs`, `cli.rs` | tables `keyring`, `receiver`; the key pair in memory | addUser, addReceiver, getUser, getReceiver, key creation, the command line | issuance needs a receiver row and the key |
| RPC and JWT: `rpc.rs`, `jwt.rs` | none | decode a method, check a token | everything above |
| VRF: `libecvrf/src` | the key pair | prove, prove_contract, verify | issuance |
| double check, signing: `evm.rs`, `ethereum.rs` | none | evm_verify, sign | issuance |
| schema: `docker/node/pg-init.sql`, `node/migration` | unique indexes, foreign keys | run before the node | all tables |

Hard behaviour: the mutex lives in the memory of one process while the
transaction lives in the database, so any way a task can end early (an error, a
client that disconnects, the death of the process, a lost acknowledgement)
separates the two; a second node has a mutex of its own; the transaction runs at
READ COMMITTED and writes a nonce it read earlier. What makes the component
correct: epochs numbered without gaps, one chain per receiver, no output used
twice, nothing handed out that is not committed, nothing handed out twice, and
no mutex or lock left behind.

### zkmemory (`zkmemory/`)

A machine with word-addressed memory, a stack and registers that records every
access in a trace, and several proof systems that show a trace to be a
consistent memory.

| component | state | operations | interacts with |
|---|---|---|---|
| machine: `zkmemory/src/machine.rs`, `config.rs`, `base.rs` | memory tree, trace tree, time, stack depth and pointer, section layout | read, write (aligned and across two cells), push, pop, registers, the instruction set of the tests and the example | gives its trace to a backend |
| Halo2 circuits: `zkmemory/src/constraints` | none: constraint systems over a trace | original order, sorted order, permutation, consistency | backend trait |
| Nova, SuperNova: `zkmemory/src/nova`, `supernova` | running memory and commitment, next instruction | one step per trace record | - |
| Zinc+: `zkmemory/src/zincplus` | none | Benes routing of the sorting permutation, constraints, prover | backend trait |
| commitments: `zkmemory/src/commitment`, `verkletree` | none | Merkle, Verkle, KZG | Poseidon |
| Poseidon: `poseidon/` | sponge state | absorb, squeeze, permute | commitments |

Hard behaviour: byte order and overlap of accesses that straddle two cells,
sections that must not touch, arithmetic at the ends of the address space, and
constraint systems that must accept exactly the consistent traces.

`wano/`, `zkdb/`, `zkrisc/` are empty crates.

## 2. Plan

In this order, the most important behaviour first.

| # | module | state | what it models | abstract specification | theorems |
|---|---|---|---|---|---|
| 1 | `Vrf`, `EpochIssuance` | done | issuance of epochs | `EpochChain` (done) | type, NoFork, DeliveredIsDurable for all deployments; ChainedEpochs, NoConflict and the refinement for a single writer (all done) |
| 2 | `MemoryLayout`, `MemoryMachine` | done | layouts, reads, writes, push, pop, registers, instructions | `FlatMachine` (done) | type, consistency of the trace, stack, write protection, Swap, the refinement (all done) |
| 3 | `MemoryCircuits` | done | the Halo2 circuits: permutation, sorted and original trace | the definition of the trace of a memory | type, soundness, completeness (done) |
| 4 | `OrandNode` | done | start-up, authentication, the methods of the RPC, queries while epochs are issued, the command line | - | one key, one secret per user, one owner per receiver, unbroken pages, authorization (done) |
| 5 | `FoldedMemory`, `NovaMemory`, `SupernovaMemory`, `FoldingBackends` | done | Nova and SuperNova steps | the definition of the trace of an array | type, validity of the commitments, exactness of both (done) |
| 6 | `BenesNetwork`, `ZincMemory` | done | routing of the network, the builder, the constraints, prover and verifier of Zinc+ | the definition of the trace of a memory | soundness and completeness of the constraints, routing of the network (done) |
| 7 | `PoseidonSponge`, `PoseidonCircuit` | done | the native hash and the chip, row by row | the native hash | rows that are forced, proof of the hash (done) |
| 8 | `MerkleTree`, `KzgOpening`, `KzgMemory`, `VerkleTree`, `Commitments` | done | the commitment schemes and the crates behind them | the path or record that was committed to | KZG records, Verkle paths and Merkle paths (done) |
| 9 | `Secp256k1`, `EcVrf` | done | both provers of the VRF, the verifier and the contract on a small curve | the value that a key gives to a seed | nonces that hide the key, proofs that verify, the double check (done) |

`MC*` modules hold the constants of the instances, one `.cfg` per run.

## 3. Issuance of epochs

### How the model corresponds to the code

`EpochIssuance` has one variable per piece of state.

| variable | code |
|---|---|
| `owner`, `nonce` | `receiver.keyring_id`, `receiver.nonce` (the (address, network) pair is unique: `pg-init.sql:41`) |
| `randomness` | the committed rows of `randomness`, per receiver in the order of `id`; only `epoch` and `alpha` are kept, `y` is `Y(row)` |
| `txn` | the transaction of a request, in the database |
| `sync` | `NodeContext.sync` of each node |
| `args` | node, authenticated user and receiver of a request, arbitrary from the start |
| `pc` | the await at which the task of a request is suspended |
| `seen`, `alpha`, `result` | `receiver_record.nonce`, `alpha`, `result` |

A tokio task gives up control only at an await, so one action runs from one
await to the next: `Lock` (145), `Begin` (147), `Lookup` (149-178), `Latest`
(181-257: the read of the latest row, and the proof, the double check and the
signature that follow without an await), `Save` (259-262), `Insert` (264-268:
the INSERT is executed, its outcome kept in `result`, the COMMIT sent) and
`Return` (269). `ServerCommit` and `ServerRollback` are the database's.
`randomness.keyring_id` is always the node's key, and `Scalar::from_bytes`
reduces `y` modulo the group order in the same way when it is computed and when
it is read back, so the alpha of the next epoch is exactly the stored `y`.

What the database does is modelled from how the code uses it: READ COMMITTED
(each SELECT sees what is committed when it executes), a row lock from the
UPDATE to the end of the transaction, an index that refuses a duplicate `alpha`
or `y` and thereby aborts the transaction. A COMMIT of an aborted transaction is
a rollback that is acknowledged like a COMMIT (`result` then says what to
answer).

Failures are actions of their own:

- `DbError`, `InsertError`, `CommitError`: a statement, the proof, the double
  check or the COMMIT fails. The answer to a COMMIT can be lost before or after
  the database has executed it.
- `Hangup`: the client disconnects and hyper drops the handler at its await; a
  panic in the handler ends the task in the same way. The guard is dropped, so
  the mutex is free at once; the transaction is rolled back when its connection
  is used again (`ServerRollback`).
- `Crash`: a node dies with all its tasks and is started again on the same
  database, where it finds its key (`main.rs:404-438`).
- `LateCommit`: whether a COMMIT that was already sent may take effect after its
  task is gone. It is a fact about the network and the connection pool, not
  about the code, so it is a constant: FALSE gives the interleavings in which a
  COMMIT is decided before the next request of the node is served.

`Register` is the row that `admin_addReceiver` inserts, after which the owner of
a receiver never changes: `JSONRPCMethod::AdminRemoveReceiver` has a handler
(`main.rs:366`) but no method name in `rpc.rs:69-107` leads to it.

`Vrf` is symbolic. A scalar is `<<q, k>>`: k applications of the function to the
scalar drawn at random for request q. Random draws do not collide, the function
is injective and has no cycles. Signatures contain fresh randomness, so their
unique index never refuses a row that `alpha` and `y` admit.

`EpochChain` is what a client may rely on: every receiver has one chain, a step
appends the next epoch computed on the previous output, or hands one epoch of
the chain to one client.

### Runs

| run | instance | what it shows |
|---|---|---|
| `single_node` | 1 node, 3 requests, a public and a private receiver, users orand and alice, `LateCommit` FALSE | the chain of every receiver is dense and unbroken (`ChainedEpochs`), the unique indexes are never hit (`NoConflict`), the node refines `EpochChain` (`ImplementsChain`) |
| `two_nodes` | 2 nodes, 3 requests, `LateCommit` TRUE, with fairness | the mutexes exclude nobody here; the row lock and the unique indexes still keep an output from being used twice (`NoFork`), and answers are committed rows handed out once (`DeliveredIsDurable`); a queued request is answered or gone (`QueuedIsAnswered`), an open transaction ends (`TransactionsEnd`) |
| `late_commit` | 1 node, 2 requests, `LateCommit` TRUE | expected violation: see Findings |

*Bounds.* `Requests` is the only bound: each request yields at most one epoch,
so nonces are at most 3. Three requests let two race for an epoch of a chain
that a third has started, and let a failed or dropped one interfere with both;
the theorems remove the bound for everything but liveness. Requests are
interchangeable (no action orders or names them), so they are a symmetry set in
`single_node` and `late_commit`, and not where liveness is checked.
`CHECK_DEADLOCK FALSE`: an instance stops when all its requests are served.

*Fairness.* `FairSpec` has weak fairness of `Step(q)` (the runtime polls a task
that was woken, and a statement that was sent is answered) and of `Server(q)`
(Postgres finishes what it was sent, and sqlx rolls a dropped transaction back).
Arrivals, registrations and failures are not fair. tokio's mutex is FIFO; the
model's is not, which is weaker, and weak fairness suffices because requests are
finite in number.

What `ChainedEpochs` and `NoConflict` claim does not hold with two nodes or late
COMMITs: two transactions may read the same nonce, and then two rows get the
same epoch number, the nonce falls behind the number of rows, or a request is
refused by the index. `two_nodes` therefore checks what is left, and `NoFork`
says precisely what that is.

### Findings

`late_commit` (README.md:84, "A VRF will perform with the input is previous
randomness"): a client that hangs up while the COMMIT of its epoch is on the
wire releases the mutex early. The next request reads the database before that
COMMIT is executed and does not continue from its epoch. On an empty chain it
draws a second random scalar, and the receiver has two rows with epoch 0.

### Proofs

`EpochIssuanceProofs` holds for any sets of nodes, requests, receivers and users
and for both values of `LateCommit`:

- `TypeCorrect`. Every action preserves every conjunct of `TypeOK`.
- `NeverForks` (`[]NoFork`). The invariant adds what makes it inductive: a
  transaction with writes holds the row lock of its receiver alone
  (`RowLockInv`), a pending row's alpha is not in the table, two pending rows
  have different alphas or are for the same receiver, and an alpha on request
  q's stem is used by one receiver only. `Insert` checks the index when no other
  transaction has the row, so the check still stands at the COMMIT.
- `DeliveredAreDurable` (`[]DeliveredIsDurable`). An outcome "ok" with no
  transaction left means that the row is in the table, and the rows of different
  requests differ because their alphas do (`NoFork` again).

The second half of the module assumes `SingleWriter`, one node and `LateCommit`
FALSE, and proves `Chained`, `NeverConflicts` and `Implements`. The inductive
invariant `IInv` says that the holder of the mutex is the only task with a live
transaction that can still commit, that what it has read (`seen`, `alpha`) is
still what the tables say, and that nonces count rows. Each step then maps to a
step of `EpochChain`: `ServerCommit` to `Issue`, `Return` of an epoch to
`Deliver`, everything else to a stutter.

Model-checked only: liveness, which is outside the reach of the prover. The
assumptions on the VRF are part of the model and are not proved.

## 4. The zkmemory machine

### How the model corresponds to the code

`MemoryLayout` is `Config::new`: sections, buffers between them, and the address
of a register, in the head and in the tail layout. A section is an interval as
the code keeps it, with the address behind its last cell as its inclusive end.

`MemoryMachine` has one variable per field of the `StateMachine` in the tests of
`zkmemory/src/machine.rs` that an instruction changes.

| variable | code |
|---|---|
| `memory` | the tree of cells that were written; `DummyRead` gives zero for any other |
| `execution_trace` | the tree of `TraceRecord`s |
| `time_log`, `stack_depth`, `stack_ptr` | the fields of these names |
| `answer` | the word in the `CellInteraction` that the last Read or Pop returns |
| `panicked` | an instruction has panicked |

A word is the big-endian array of its bytes. An instruction is one action: the
machine is borrowed mutably while it runs. Each instruction is the sequence of
its accesses in the order of the code (`Reads`, `Writes` and their
concatenation); `Perform` applies them, records each in the trace at a time of
its own and advances the clock. All reads of an instruction come before its
writes, so they see the memory it started with. A panic (access denied, stack
overflow or underflow, an addition that overflows in a dev build) ends the use
of the machine, so what a panicking instruction had already done is not kept.

Constants choose the build and the program. `OverflowChecks` and `Plus` are the
arithmetic of a dev build (a panic) or a release build (wrapping). `Example`
selects the Swap of `examples/256bits-machine.rs`, which is otherwise the same
machine. `Values`, `Registers` and `Operands` are the words, registers and
addresses that occur in the program; Read and Write take any address, because
`exec` checks them itself. Load and Save do not check theirs, and with an
address outside the memory section Save overwrites registers and stack
(`machine.rs:772`): this is the reason for the assumption on `Operands` in
`MemoryProtected` and for `MemoryOperands` in the run `machine`.

`FlatMachine` is what a program relies on: a byte memory that is read and
written a word at a time at any address, a bounded stack, and registers, three
separate variables. `ImplementsFlat` maps the cells of the three sections to
them; an instruction that panics is a stutter.

### Runs

| run | instance | what it shows |
|---|---|---|
| `machine` | head layout, dev build, two cells of memory, six accesses | `WritesInPlace`, `StackAccesses`, `SwapExchanges`, `ImplementsFlat` |
| `machine_tail` | tail layout, release build, Load and Save anywhere, the example's Swap, five accesses | `TypeOK`, `ReadsLastWrite` |

*Bounds.* Words have two bytes, so a word at an odd address lies across two
cells in the only way there is, and each byte is 0, 1 or 2, enough for the word
`<<1, 2>>` of the instructions to differ from its halves, from its swap and from
zero. The address space has 16 or 18 addresses: two stack cells, two registers,
buffers of one cell and two cells of memory. `MaxTime` bounds the number
of accesses: six suffice to write a word across two cells and to read, load or
save over it, and for a push, which is one access, and a Swap, which is four.
`CHECK_DEADLOCK FALSE`: a machine that has panicked or reached `MaxTime` stops.

### Divergences

Three statements of the documentation do not hold of the code. Each is seen by
changing one constant of `MachineHead.cfg`; they are the reason for the
assumptions of the theorems below.

- `HeadLayout = FALSE` violates `StackAccesses` (`zkmemory/README.md:152`, push
  and pop "always happen on the stack memory area"): `StateMachine::new` starts
  the stack pointer at zero in either layout. In the tail layout address zero is
  memory, and a push overwrites the program's data.
- `Example = TRUE` violates `SwapExchanges` (`examples/256bits-machine.rs:31`,
  `:168`): the example's Swap pushes the word it popped instead of the
  register's value, which is lost.
- `OverflowChecks = FALSE` with `Plus <- Wrapping` violates `WritesInPlace`
  (`zkmemory/README.md:117`, buffers "prevent the memory access out of bound"):
  nothing lies behind the memory section of the head layout. In a release build
  an unaligned write to the last cell wraps to the first cell of the stack; a dev
  build panics.

### Proofs

`MemoryMachineProofs` holds for any word size, layout that fits the address
space, set of bytes, registers, words and operands, for both builds and both
instruction sets. It rests on arithmetic of multiples of the word size
(`MultiplesApart`: two different cells are a word apart), from which register
and stack cells are cells of the address space (`RegisterCell`, `StackCell`),
and on the shape of an instruction (`Accesses`: reads of what memory holds, then
writes).

- `TypeCorrect`, `Consistent`. `ReadsLastWrite` is not inductive: a read returns
  what memory holds, so the invariant `IndInv` adds `MemoryIsLastWrite`, a cell
  holds the value of the latest write record for it, or zero when there is none.
  `CellAfter` says what a sequence of accesses leaves in a cell, and
  `PerformMemory`, `OldReads` and `NewReads` carry the invariant over a step.
- `StackConfined` assumes the head layout.
- `MemoryProtected` assumes overflow checks and operands in the memory section.
- `SwapIsExchange` assumes the Swap of `machine.rs`. It needs that no register
  shares a cell with the stack, in either layout (`RegistersApart`).

- `MachineIsFlat`, the refinement `ImplementsFlat`, assumes all of this together
  (`Faithful`). `FlatBytes`, `FlatRegisters` and `FlatStack` are the state of the flat
  machine. In the head layout the cells of memory, registers and stack are different
  ones (`Places`), so an instruction that sets one cell (`OneIsSet`), or the two of a word
  across cells (`WordIsSet`), changes one of the three only. `WordIsFlat` and
  `BytesStored` say that reading and writing a word at any address, in one cell or
  two, is reading and writing its bytes; each instruction is then a step of
  `FlatMachine`, or a stutter when it panics (`StepIsFlat`).

## 5. The Halo2 memory consistency circuit

### How the model corresponds to the code

`MemoryConsistencyCircuit` (`zkmemory/src/constraints/`) takes a trace and a
second trace that should be its sort by address and time, lays three regions out
and is satisfied when all gates and lookups are. `MemoryCircuits` follows
`synthesize_with_layouter`: `region` is the region being assigned, `row` the
rows done, `satisfied` whether the gates assigned so far hold.

| action | code |
|---|---|
| `LengthsDiffer`, `Permutation` | `PermutationCircuit::new` and its shuffle argument over compressed records |
| `FirstSortedRow`, `SortedRow`, `SortedRowPanics`, `SortedDone` | `sorted_memory_assign` for offset 0, for later offsets, where a difference has no inverse; the end of the region |
| `FirstOriginalRow`, `OriginalRow`, `OriginalRowPanics` | `original_memory_assign` likewise |
| `Verify` | `MockProver::verify` in `helper.rs` |

`SortedGates` and `OriginalGates` are the gates of a row, `GreaterThan` is
`GreaterThanConfig` at the limb index that the assignment computes
(`FirstDifference`). `LowLimbs` is a word as the gates of `SortedMemoryConfig`
see it: `limbs_to_expression` skips limb 0.

Abstractions. A random linear combination (`compress`, `rlc_limb_differences`)
stands for the tuple of what it combines: it is zero, or equal to another, by
accident only with negligible probability. A gate on limbs is stated on
integers: what it computes is below the order of the field, except that a
negative difference is not in the table of limbs either way. The lookups of
limbs and instructions hold for every record that `ConvertedTraceRecord::from`
makes. The bits of `first_difference_limb` are those of the index. The witness
is the one the assignment computes from the two traces: nothing ties the
compressed column to the columns of the other regions by a copy constraint, so
what a prover could do with columns of its own is outside of this model.

What a trace should be is stated apart from the gates: `Valid` (starts at time
zero, times increase, each read returns the value of the latest write to its
address), and `IsSortOf` is `sort_trace`.

### Runs

| run | instance | what it shows |
|---|---|---|
| `circuit` | every trace of up to three records with each of its reorderings, shorter ones with every trace of at most one record too; words with a top limb among them | `TypeOK`, `Sound`, `Complete` |
| `circuit_top_limb` | two records | expected violation: see Findings |

*Bounds.* Words and times have two limbs of two values, so two keys can differ
in any of four limbs, in one or in several, and in either direction. The field
has three elements, so that two words have one remainder. Three records are a
write, a second write, and a read, of one address or of two. The proofs remove
these bounds. `CHECK_DEADLOCK FALSE`: a verdict is the end of a run.

### Findings

`circuit_top_limb` (`sorted_memory_circuit.rs:75`, `:90`, the names of the two
gates): because limb 0 is skipped, a read of an address that differs from a
written one in its most significant byte only is accepted, although nothing was
written to it, and so is a read of a value that differs there. This is why
`Sound` is about words whose top limb is zero.

### Proofs

`MemoryCircuitsProofs` holds for any limb base, any lengths of words and times,
any set of words and times and any traces. The one assumption about the field is
in `CircuitAssumption`: words whose top limb is zero are told apart by their
remainders (a word of 31 bytes is below the order).

- `TypeCorrect`.
- `Soundness`. `SoundInv` says, for as long as `satisfied` is true, that the
  sorted rows done so far have strictly increasing keys, and begin every address
  with a write and repeat the value before a read; that the original rows done
  so far have increasing times; and that the shuffle exists.
  `GreaterThanIsBefore` turns the gate into the order on limbs, `KeyOrder` and
  `AddressBetween` show that the records of an address are adjacent, and
  `ShuffleCarries` and `SortedReadsAreConsistent` carry the latest write from
  the sorted trace to the original one.
- `Completeness`. `CompleteInv` says that for a trace of a memory and its sort
  every gate so far holds. Equal times do not occur, so the sort is strict
  (`SortIsStrict`) and no difference is zero; the record before a read in the
  sort has its address (`WriteIsAbove`) and its value (`ReadFollows`).

## 6. The Nova and SuperNova backends

### How the model corresponds to the code

Both backends fold step circuits over a memory and its commitment.
`FoldedMemory` holds what they share, `NovaMemory` and `SupernovaMemory` the
step circuits, and `FoldingBackends` proves one trace with one and then with the
other: they share the inputs `z0` and `trace` and nothing else, so no other order
of their steps would show more.

| variable | code |
|---|---|
| `z_out`; `z` | `z_in`/`z_out` of Nova's circuit, between two iterations as between two steps; `z` of SuperNova's |
| `step`, `iteration` | the loop over the circuits, and `num_iters_per_step` iterations in each |
| `circuit`, `pc`, `termination` | SuperNova's loop, the program counter that each circuit sets for the next, the last element of `instruction` |
| `novaHolds`, `supernovaHolds` | the constraints of all circuits so far, which folding accumulates |
| `nova`, `supernova` | the outcome: accepted, rejected by `verify`, or a panic |

| action | code |
|---|---|
| `NovaNew`, `NovaIterate`, `NovaStep`, `NovaVerify` | the circuits made from the trace in groups; one iteration of `synthesize`; the next `prove_step`; `verify` |
| `SupernovaNew` | the assertion on the termination instruction |
| `Read`, `Write` | `ReadCircuit::synthesize`, `WriteCircuit::synthesize` |
| `WrongCircuit` | `prove_step` with a circuit whose index is not the program counter |
| `SupernovaVerify` | `verify` |

`merkle_tree_commit` is not a tree: it replaces the two last elements by their
hash until one is left, and `MerkleTreeCommit` is that chain.

Abstractions. The folding library is external and taken to be sound and
complete: `verify` accepts if and only if every constraint of every step holds.
The hash is an arbitrary operator. A gate `a * b = 0` is a disjunction, exact in a
field. The witness is the one that `synthesize` computes from the trace.

What the trace of an array is, `Consistent`, is stated without the circuits: each
record is a read or a write of a cell, and a read returns what was written last
or, before any write, what was there at first (`Holds`).

### Run

| run | instance | what it shows |
|---|---|---|
| `folding` | a memory of two cells, an address beyond it, instructions 0, 1 and 2; any trace of up to three records, and reads and writes in two steps of two | `TypeOK`; commitments are valid although a write does not check them (`CommitmentsValid`); each backend accepts exactly the traces of an array (`NovaExact`, `SupernovaExact`) |

*Bounds.* Every memory over two values is a start, with every commitment of such
a memory, so the right and the wrong ones. The traces include lengths that are not
a multiple of the step (Nova panics), reads of a cell written in an earlier step,
in the same step and never, and every place for an instruction that has no
circuit. The proofs remove these bounds. `CHECK_DEADLOCK FALSE`: a verdict is the
end of a run.

There is no finding: the comment "By induction, we can prove that the commitments
are valid in all steps" is right, because the read of cell 0 that SuperNova puts
before the trace checks the first commitment.

### Proofs

`FoldingProofs` holds for any length of memory, any field with a zero, any hash,
any number of records per step and any traces (`FoldedAssumption`,
`NovaAssumption`).

- `TypeCorrect`, from `TypeInv`, which adds that Nova folds whole steps only.
- `NovaIsExact`. `NovaInv` says, of the n records done: the constraints hold if
  and only if the commitment was right and the n records are `Admitted`, and then
  every cell of the memory is what `Holds` says (`Tracks`). `HoldsUnique` makes
  that value unique, so a record that fails its gate is one that no array admits.
- `CommitmentsAreValid`, `SupernovaIsExact`. `SupernovaInv` says the same of the
  circuits done, the first of which has no record; a panic means that the next
  record is neither a read nor a write.

## 7. The node

### How the model corresponds to the code

`OrandNode` is everything of `node/src` around `safe_insert`: `main` and the
handler `orand`, the tables, `jwt.rs`, `rpc.rs` and `cli.rs`. Nodes, their
requests and the command line share the tables.

| variable | code |
|---|---|
| `keyring`, `receiver`, `nonce` | the tables: a row per username (its secret and key), the owner of an (address, network) pair, the number of its epochs |
| `status`, `keypair` | a process: not running, about to insert the key it made, serving; the key pair it serves with |
| `pc`, `call`, `signed`, `node` | the await of a task, its decoded call, the secret its token was signed with, its process |
| `answer`, `since` | what the client got; the length of the chain when it asked (history) |

As in `EpochIssuance`, an action runs from one await to the next. `Start` and
`InsertKey` are `main.rs:404-438`: the key of orand is looked up, or made from
`SECRET_KEY` or at random and inserted, and the process ends when the insert is
refused. `Arrive`, `BadRequest`, `BadToken` are the decoding of a request and of
its token; `Handle` is the step of whatever await the task is at: the look-up of
the user and the check of the signature, the second look-up of the admin
methods, their inserts, the list, the page and the new epoch. `DbError` is an
error of a statement at any await, `Crash` the death of a process with its
tasks. A refused insert in `AdminAddUser` panics instead of answering: a task that
panics ends without an answer, and so does one whose client is gone. The issuance
itself is one step here; its steps are section 3.

A secret and a key are named after who drew them: random draws do not collide.

### Run

| run | instance | what it shows |
|---|---|---|
| `node` | 2 nodes, 2 requests, users orand and alice, a public and a private receiver, with and without `SECRET_KEY`, pages of two epochs | `KeysAgree`, `SecretsWork`, `PagesAreUnbroken`, `ReceiversStay`, `Authorized` |

*Bounds.* Two nodes can start, and two requests run, between the check and the
insert of one another; three epochs (`MaxNonce`) are more than one page of two
(`PageLimit`, 20 in the code), so pages are short, full and cut. `MaxEpoch` stands
for `i64::MAX`, which selects another query. A behaviour begins
with the tables that earlier requests may have left, so it needs no others.
Requests and nodes are interchangeable, which
the run uses as symmetry. `CHECK_DEADLOCK FALSE`: nothing obliges clients to
call. Only safety is checked: what has to happen in the node happens in
`safe_insert`, whose liveness is in section 3.

### Divergences

- The repository's `README.md:125-159` shows `orand_getPublicEpoch` with epoch 15
  answered by epochs 15 to 19. The code (`randomness.rs:76`) answers with epochs
  up to 15, the latest first; `PagesAreUnbroken` states what it does.
  `orand_newEpoch` (`README.md:105`) is not a method of `rpc.rs`.
- `admin_addReceiver` for an (address, network) that another user owns answers
  with that receiver as if it had been added. `ReceiversStay` says that it stays
  where it was.
- `cli receiver` can not succeed: its record has no `keyring_id`.

### Proofs

`OrandNodeProofs` holds for any nodes, requests, users, receivers and calls, any
page limit and any number of epochs. `NodeAssumption` says that random draws are
new: what a request or a process draws is not what another draws, nor
`SECRET_KEY`; and that a chain of `MaxNonce` epochs does not go beyond `MaxEpoch`,
as no chain reaches `i64::MAX`.

All five properties follow from one invariant (`Invariant`),
`IInv == TypeInv /\ TableInv /\ RequestInv /\ AnswerInv`; none of them is inductive.

- `TableInv`: a row has a secret and a key, every receiver's owner has a row, a
  process that serves holds the key stored for orand, and one that is about to insert
  holds a key of its own or `SECRET_KEY`.
- `RequestInv`: a request at an await has the call, and has the token, that lead to
  this await. It carries what the check of the token found out to the
  statements that rely on it later, which is `AlwaysAuthorized`.
- `AnswerInv`: what was answered is still in the tables. It needs that no action
  removes a row or changes one (`TablesStep`), which also is `ReceiversAlwaysStay`.
- `KeysAlwaysAgree`: the second of two inserts of orand is refused. `PagesAlwaysUnbroken`:
  the page is an interval cut out of an interval (`NewPage`).

## 8. The Zinc+ backend

### How the model corresponds to the code

`BenesNetwork` is `zkmemory/src/zincplus/benes.rs`. `route_block` recurses on two
halves; its calls are the stack `blocks`. `Route` and `NotAPermutation` begin,
`OpenBlock`, `StartWalk`, `Walk`, `CloseBlock` are the loop over a block that colours its
wires along the cycles of mates, sets the entry and the exit switches and leaves
two blocks of half the size; `MiddleBlock` is the last layer of two wires.

`ZincMemory` is `uair.rs`, `prover.rs`, `types.rs`: `Refuse` and `Build` are the
checks of `build_uair_trace` and the padded rows, `Link` the permutation
from the sorted to the original trace, `Switch` one layer of the network,
`Built` its end, also in the error the code calls unreachable. `Prove` and `ProverFails` are the
dispatch on the size with the constraints of the UAIR (`SortedConstraints`,
`OriginalConstraints`, `SwapConstraints`, the boundary rows), `FromBytes`,
`Malformed`, `Verify` what happens to the proof. A limb has `LimbBase` values, and
`DeclaredShifts` and `UsedShifts` are the shifted columns that are declared and
those that a constraint reads.

`FreeRow`, `FreeNetwork`, `FreeSwitch`, `FreeDone` choose the rows, the selectors
and the switches without the builder: soundness is about every witness, not
about the builder's.

Zinc+ is external: its prover refuses a witness that violates a constraint, its
verifier accepts what the prover made for the same number of rows, and cells are
below `LimbBase` (its booleanity argument). Constraints are stated on integers,
which are tiny next to its prime.

### Run

| run | instance | what it shows |
|---|---|---|
| `zincplus` | networks of 4 and 8 wires, limbs of 4 values; all traces of up to three records, seven writes in all 5040 orders, one trace that is too long; any witness of four rows | `MatesAreSplit`, `SameRecords`, `ProvedIsValid`, `ValidIsProved`, `Answers` |

*Bounds.* Eight wires have five layers and two levels of recursion, walks of
every length up to eight, and all permutations that fix the padding. Short
traces have times with gaps, across two limbs, out of order, repeated, and at
the end of the domain, where the padding overflows. Instructions of free rows are
0, 1 and 2. The code has networks of 2^3 to 2^16 wires (`MinVars`, `MaxVars`).
`CHECK_DEADLOCK FALSE`: an answer is the end.

*Fairness.* `WF_vars(Next)`: the prover is one sequential program, and each step
of the model is a finite piece of it. `Answers` then says that its walks and
loops end, and not in a panic.

### Proofs

`ZincProofs` holds for limbs of any base and number, networks of any size, and any
traces whose cells have the width of their columns (`ZincAssumption`).

- `ProvedTracesAreValid`. `ZincInv` says of every witness, the builder's or a free
  one, that while it is routed each layer is the one before it with some pairs of
  wires exchanged, so the last is a permutation of the first (`RecordsAreTheSame`,
  by counting the rows that are equal to one). The rest is the constraints
  (`ConstraintsAreSound`): limbs, differences of keys and
  selectors place the rows in strict order, so that the sorted row before a read
  holds the latest write before it, and the permutation carries this to the
  original rows.
- `MatesAlwaysSplit`. `RouterInv` adds what a block of the router knows between
  steps. Between walks, colours are `Balanced`: mates have different colours, or
  neither has one. In a walk they are, except for the wire where it began
  and the wire where it is (`Walking`), and a walk can not meet a coloured wire
  elsewhere without having been there. That is why the assertions in
  `route_block` hold for every permutation. That each half gets a permutation of
  its own (`Balanced` and complete) makes the sub-blocks well-formed.
- `RouteGetsAPermutation`. `Linked` says that the rows are those of the builder, from
  a trace that passed its checks, `ToRoute` that `perm` links each original row to the
  sorted row with its time, which is the same record: times do not occur twice,
  the padding's included.
- `ProvableTracesAreProved`. Two more invariants. `RoutesInv` says what the blocks left
  and the switches set so far have in common: whatever way the switches send a wire
  through the layers that are done, each block that is left still has to bring it to
  the output that `perm` wants (`Routes`, by `MiddleRoutes` and `CloseRoutes`, one for
  each way a block ends; the colours of mates decide between the two halves). When no
  block is left, the path from `perm[j]` ends at `j` (`RoutedNetwork`). `NetInv` says
  that `net` is what these switches carry there (`Carried`), and that every layer's
  constraints hold (`LayerIsLinked`). So the last state is the original trace, and
  `Built` never answers `UnsortedTrace`. The constraints on rows are about records
  then: limbs order as numbers do (`LimbsOrder`), so neighbours of the sorted trace
  differ first in some limb (`BeforeIsLess`), and a read among them has the address and
  value of the row before it (`NeighboursAgree`), which is what `Provable` says of the
  trace in the order of times; padding rows repeat the last.
- `BuilderNeverPanics`. From the same invariants: every size that passes the checks has
  its arm, and `ShiftsAreDeclared` compares the columns that the constraints read
  with those that `build_shifts` declares, for all sizes.

Powers of two and of the base are recursive functions in the model. That
there is a function that satisfies their equation is a lemma (`PowersExist`),
proved by a least counterexample (`Least`) in place of an induction.

## 9. Commitments and Poseidon

### How the model corresponds to the code

`PoseidonSponge` runs the native hash (`poseidon/src/poseidon_hash.rs`) and the
chip (`gadgets.rs`, `circuit.rs`) over one message side by side: `native` and
`chip` are their states, `row` the row of the permutation that the chip
assigns, `gates` whether the gates so far hold. `Absorb`, `AbsorbFull`, `FinishAbsorbing`,
`AssignRow`, `PermutationDone` are the steps of the sponge; `FullGate` and
`PartialGate` are the gates, the second with two partial rounds in one row.
`PoseidonCircuit` is the test circuit with its message and its expected output.

`MerkleTree` (`zkmemory/src/commitment/merkle_tree.rs`) hashes a path in the
circuit level by level with that chip, and compares leaf and root.
`KzgOpening` is `create_kzg_proof` and `verify_kzg_proof`, `KzgMemory`
(`kzg.rs`) the commitment to a trace record at five points, `VerkleTree`
(`verkletree/src/circuit.rs` and `commitment/verkle_tree.rs`, the same
circuit twice) the path of openings. `Commitments` puts them side by side: a behaviour is one use of one
of them.

Abstractions. The field has a small prime, the round constants and the matrix
are parameters; a polynomial stands for its commitment, which binds it, and
SHPLONK is external, sound and complete. The commitments' `Label` is the hash of
a group element, an injective constructor.

### Run

| run | instance | what it shows |
|---|---|---|
| `commitments` | field of 7 elements, width 3, 4 full and 2 partial rounds, messages of 0 to 4 words; Merkle paths of up to 2 levels with indices 0, 1, 2; records over 3 field elements; Verkle trees of arity 2, paths of up to 2 levels, any one element, index or the length altered | `RowsAreForced` (each row leaves the next no freedom), `ProofTellsTheHash`, `PathIsProved`, `RecordIsBound`, `PathIsOpen`, `HonestPathIsAccepted` |

*Bounds.* In this field the fifth power is a permutation that is not linear, so a
wrong constant or a wrong matrix changes the hash. Messages are empty, part of a block, a block, one and a half
blocks, and longer than the columns. Positions of the Verkle tree include 256,
whose low byte is that of a child, and one beyond the points. `CHECK_DEADLOCK
FALSE`: a verdict is the end.

What the properties do not say, because the code does not do it:

- The label of the last commitment of a Verkle path is not compared with the
  root in the instance: the root is compared with the last element of the
  witness. `PathIsOpen` therefore reaches up to the last commitment only.
- An index of a Merkle path that is neither 0 nor 1 is refused by the circuit,
  while the `CommitmentScheme` takes it for 1.
- The commitment to the zero polynomial is the point at infinity, which the
  transcript refuses with a panic; a word not below the modulus, an empty message
  and a message longer than the width panic too. The panics are outcomes of the
  model.
- The assertion of `create_kzg_proof` compares the lengths of polynomials and
  commitments, and not that of the points.

### Proofs

`CommitmentsProofs` holds for any modulus, records, arity, positions and depth, and for
any Poseidon parameters that `PoseidonAssumption` admits: an even number of full and of
partial rounds, and two matrices that undo each other.

- `RowsForced`. That a matrix undoes its inverse (`MixUndone`) needs sums of any length:
  `TotalAdds`, `TotalScales`, `TotalsExchange` and `SameTotal` are by induction on the
  partial sums (`Climb`, the least number at which a fact fails). Then the gate of a full
  round is the round (`FullGateIsRound`), and the gate that comes to the state between two
  partial rounds from both sides is the two rounds (`PartialGateIsRounds`).
- `HashIsProved`. `SpongeInv` says of a permutation under way that there is a sequence
  of states (`PermutesBy`) at whose end the native state is and as many rounds into
  which the chip is as its rows have done (`RoundsDone`, `RowAdvances`): between
  permutations the two are equal. `WordsFill` says that the words still to be absorbed and
  those of the block make up whole blocks, so that only the empty message ends unpadded.
- `PathProved`, for the width 3 that the code has. `ClimbInv` says of a walk that its
  digest is the one of `RootOf` at the level reached, which block the sponges hash, and
  that the swap gates hold if and only if the indices so far are bits (`SwapGateIsBit`,
  which is where zero divisors would matter).
- `RecordAlwaysBound`. Five points tell two records apart
  (`FieldsBindRecord`), and `KzgInv` says of each verdict which record was
  committed to, proved and checked.
- `AcceptedPathsAreOpen`, `HonestPathsAreAccepted`. `VerkleInv` is the loop invariant
  of the circuit: its gates hold so far if and only if the witness holds in every row
  done (`RowsHold`, both directions), and the verdict compares the ends of the path
  with the instance (`InstanceChecked`). An altered witness differs from the honest one in one place,
  which is what makes exactness more than soundness.

## 10. The verifiable random function

### How the model corresponds to the code

`Secp256k1` is a curve with its group law, the reduction of words and the
projective addition (`libecvrf/src/helper.rs`); `EcVrf` is `ecvrf.rs` and
`hash.rs` on it, and the double check of `node/src/evm.rs`. `ProveContract`
and `Prove` take a seed, `NextCandidate` and `OnCurve` are the loop of
`hash_to_curve`, `Draw`, `Retry` and `RetriesExceeded` the drawing of the
nonce, `ContractProof` and `OrdinaryProof` the proof, `Verify` and
`InvalidGamma` the verifier, `EvmVerify` the contract. The contract is external:
the repository has its byte code only, and it is modelled from how `evm.rs`
calls it and from what `prove_contract` computes for it.

The algebra is real, on the curve y^2 = x^3 + 7 over 43 elements, whose group has
the prime order 31; as with secp256k1, the field is larger than the group, and a
hash (below `HashSize`) larger than both. Keccak is a parameter. `Vrf`, which
issuance uses, is the symbolic view of the same function.

### Run

| run | instance | what it shows |
|---|---|---|
| `vrf` | 5 keys, 15 seeds, 15 random words, at most 2 retries | `ProofsVerify`, `NonceHidesKey`, `DoubleCheck` |

*Bounds.* The sets hold 0, 1, the order less one, the order and words above it;
the edges, which are improbable on the real curve, are frequent on this one. The
retries of the model are fewer than the code's. `CHECK_DEADLOCK FALSE`: a verdict
is the end. Only safety is checked: that a good word is drawn at last is a matter
of probability.

Edges. The prover reduces a hash by the group order where the contract does not,
so `DoubleCheck` excepts what `AtAnEdge` lists: there an honest proof is denied and
the request gets an error. On the real curve these have a probability of about
2^-128 or less. A seed that is the negated secret key is hashed by `prove` to the
point at infinity, on which `verify` panics.

### Proofs

`EcVrfProofs` holds for every curve, key, seed, random word, hash function and
number of retries.

*Assumptions.* `CurveAssumption` (the sizes and their order), `FieldAssumption` (every
element but zero has an inverse), `GroupAssumption` (the points are closed under `Add`,
which is commutative and associative, and the order of every point is the group's),
`ContractReachesTheCurve` (the hashing of the contract comes to an end, which only
probability says of the real hash); TLC evaluates each of them on the instance. An
address determines its point (`CurveAssumption`), as if 20 bytes of a hash had no
collision. The theorems also state the hypothesis `KeccakIsAWord`, that the hash of any
sequence of numbers is a word, which is a statement about an infinite set and so can not
be evaluated.

- Multiples. `EcMult` is a recursive function; that it exists and what it
  satisfies is proved from the least number for which it would fail (`StepsExist`,
  `SumsOfPoint`). The laws of multiples follow (`SumOfMultiples`, `MultipleOfMultiple`,
  `MultipleOfSum`, `ReducedMultiple`), and that two points with the same multiple are
  equal (`MultipleIsInjective`).
- `VrfInv` is the inductive invariant: the seed is hashed to a point of the curve, or to
  the sum with the public key, and a proof is what `prove` or `prove_contract` computes from
  the nonce that was drawn, which is not zero. It was checked with TLC on the instance of
  the run.
- `NoncesHideKeys`. The response, taken modulo the order, and the challenge times the key make
  up the nonce (`ResponseIs`).
- `EveryProofVerifies`. The verifier's two sums are the multiples of the nonce
  (`ProofAnswers`), so it finds the prover's challenge; gamma is infinite only if the point
  of the seed is, that is if the seed and the key add up to the order (`GammaOfInfinity`).
- `ContractAgrees`. `AcceptedIsAtNoEdge` and `NoEdgeIsAccepted` are the two directions. The
  contract finds the prover's point of the seed because the witness of its hash has one
  origin; the address of the witness survives its reduction to a scalar exactly if it is
  small enough (`WitnessAddress`); and the denominator of the contract's sum, one or the fifth
  power of the difference, is that of `projective_ec_add`, which takes one of
  two forms (`DenominatorsAgree`).

Not proved: that the addition formulas form a group, and that hashing reaches the curve.

## 11. What is proved and what is model-checked

Proved for every value of the constants: the theorems of sections 3 to 10. They
state every invariant that a passing run checks. The proofs rest on no assumption but the
named `ASSUME`s of the modules, and those of a single writer in section 3, some
theorems of section 4, `PathProved` of section 9 and the theorems of section 10 on
the hypothesis they state.

Model-checked only:

- Liveness (sections 3 and 8): the prover can not reason about fairness.
- The group law of the curve (section 10), which is an assumption of `Secp256k1`: TLC
  evaluates it on the small curve.

## 12. Not modelled

- Data: `poseidon_constants.rs` and the two `poseidon_parameter(s).rs` are
  generated numbers, a quarter of the repository's lines. The models take the
  numbers as parameters.
- Conversions without a decision of their own: HTTP and JSON formatting, the entity
  definitions, the bytes of the operator's ECDSA signature.
- What runs before the node: the migrations. Their unique keys and foreign keys
  are part of `EpochIssuance` and `OrandNode`.
- Libraries: halo2, nova, zinc-plus, rEVM, libsecp256k1, sea-orm. What the code
  relies on is stated where it is used.
- The trait `Backend`, default methods with one implementation, whose circuits are
  section 5; `wano`, `zkdb`, `zkrisc`, which are empty; the examples, except the
  Swap of `256bits-machine.rs`; the tests, except the helpers that build or check
  what the models build or check.

`PROJECT.json` lists every component with its status.
