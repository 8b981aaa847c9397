---------------------------- MODULE FoldedMemory ----------------------------
(***************************************************************************)
(* What the step circuits of the Nova and the SuperNova backend share: the *)
(* memory and its commitment, the operators on them, and the trace that is *)
(* to be proved.                                                           *)
(***************************************************************************)
EXTENDS Integers, Sequences

CONSTANTS
  MemoryLen,       \* memory_len, memory_size
  Field,           \* field elements: the values of cells
  Addresses,       \* addresses and instructions of a trace, u64 in the code
  Operations,
  Hash(_, _),      \* the Poseidon hash of two elements
  Traces           \* the traces given as input

Cells == 0 .. MemoryLen - 1
Memory == [Cells -> Field]
TraceRecord == [address : Addresses, instruction : Operations, value : Field]

ASSUME FoldedAssumption ==
  /\ MemoryLen \in Nat \ {0}
  /\ 0 \in Field
  /\ Addresses \subseteq Nat
  /\ Operations \subseteq Nat
  /\ Traces \subseteq Seq(TraceRecord) \ {<<>>}

VARIABLES
  z0,      \* the memory before the trace, and what is claimed to be its commitment
  trace

inputs == <<z0, trace>>

-----------------------------------------------------------------------------
\* merkle_tree_commit: the two cells at the end are replaced by their hash
\* until one is left.
MerkleTreeCommit(memory) ==
  LET root[i \in Cells] ==
        IF i = MemoryLen - 1 THEN memory[i] ELSE Hash(root[i + 1], memory[i])
  IN root[0]

\* get_memory_address: zero for an address outside of the memory.
GetMemoryAddress(memory, address) ==
  IF address \in Cells THEN memory[address] ELSE 0

\* get_new_memory_cell, for all cells.
NewMemory(memory, record) ==
  [i \in Cells |-> IF i = record.address THEN record.value ELSE memory[i]]

-----------------------------------------------------------------------------
(***************************************************************************)
(* What the trace of an array is, given the memory it starts with.         *)
(***************************************************************************)
WritesCell(i, cell) == trace[i].instruction = 1 /\ trace[i].address = cell

\* v is in the cell after the first n records: it was written last, or it was
\* there from the beginning.
Holds(cell, n, v) ==
  \/ \E w \in 1 .. n : /\ WritesCell(w, cell)
                       /\ v = trace[w].value
                       /\ \A k \in w + 1 .. n : ~ WritesCell(k, cell)
  \/ /\ \A w \in 1 .. n : ~ WritesCell(w, cell)
     /\ v = z0.memory[cell]

\* Record i is an access that an array admits.
Admitted(i) ==
  /\ trace[i].instruction \in {0, 1}
  /\ trace[i].address \in Cells
  /\ trace[i].instruction = 0 => Holds(trace[i].address, i - 1, trace[i].value)

Committed == z0.commitment = MerkleTreeCommit(z0.memory)

Consistent == Committed /\ \A i \in DOMAIN trace : Admitted(i)
=============================================================================
