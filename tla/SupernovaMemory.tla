-------------------------- MODULE SupernovaMemory --------------------------
(***************************************************************************)
(* The SuperNova backend: a read or a write circuit per record, the        *)
(* program counter set by each circuit for the next.  A read of cell 0     *)
(* that is not in the trace comes first.                                   *)
(***************************************************************************)
EXTENDS FoldedMemory

VARIABLES
  termination,       \* the last element of the instructions, behind the trace
  z,                 \* memory and commitment
  pc,                \* the index of the next circuit
  circuit,           \* the number of circuits folded
  supernovaHolds,    \* do all constraints hold so far?
  supernova          \* as nova

supernovaVars == <<termination, z, pc, circuit, supernovaHolds, supernova>>

SupernovaInit ==
  /\ termination \in Operations
  /\ z = z0
  /\ pc = 0
  /\ circuit = 0
  /\ supernovaHolds = TRUE
  /\ supernova = "new"

-----------------------------------------------------------------------------
\* The list of circuits, from 0.
Instruction(i) == IF i \in DOMAIN trace THEN trace[i].instruction ELSE termination

CircuitIndex(i) == IF i = 0 \/ Instruction(i) = 0 THEN 0 ELSE 1

CircuitRecord(i) ==
  IF i = 0 THEN [address |-> 0, instruction |-> 0, value |-> z0.memory[0]] ELSE trace[i]

\* The assertion on the termination instruction.
SupernovaNew ==
  /\ supernova = "new"
  /\ supernova' = IF termination = 2 THEN "folding" ELSE "panicked"
  /\ UNCHANGED <<termination, z, pc, circuit, supernovaHolds>>

Folding(index) ==
  /\ supernova = "folding"
  /\ circuit <= Len(trace)
  /\ CircuitIndex(circuit) = index

\* Mutant of ReadConstraints: the address is not looked up.
ReadConstraintsAnyAddress(record) ==
  /\ MerkleTreeCommit(z.memory) = z.commitment
  /\ GetMemoryAddress(z.memory, record.address) = record.value

ReadConstraints(record) ==
  /\ MerkleTreeCommit(z.memory) = z.commitment
  /\ record.address \in Cells
  /\ GetMemoryAddress(z.memory, record.address) = record.value

Read ==
  /\ Folding(0)
  /\ pc = 0
  /\ supernovaHolds' = (supernovaHolds /\ ReadConstraints(CircuitRecord(circuit)))
  /\ pc' = Instruction(circuit + 1)
  /\ circuit' = circuit + 1
  /\ UNCHANGED <<termination, z, supernova>>

\* Mutant of Write: the commitment is that of the memory before the write.
WriteLateCommitment ==
  /\ Folding(1)
  /\ pc = 1
  /\ supernovaHolds' = (supernovaHolds /\ CircuitRecord(circuit).address \in Cells)
  /\ LET memory == NewMemory(z.memory, CircuitRecord(circuit))
     IN z' = [memory |-> memory, commitment |-> MerkleTreeCommit(z.memory)]
  /\ pc' = Instruction(circuit + 1)
  /\ circuit' = circuit + 1
  /\ UNCHANGED <<termination, supernova>>

\* A write does not look at the commitment and makes a new one.
Write ==
  /\ Folding(1)
  /\ pc = 1
  /\ supernovaHolds' = (supernovaHolds /\ CircuitRecord(circuit).address \in Cells)
  /\ LET memory == NewMemory(z.memory, CircuitRecord(circuit))
     IN z' = [memory |-> memory, commitment |-> MerkleTreeCommit(memory)]
  /\ pc' = Instruction(circuit + 1)
  /\ circuit' = circuit + 1
  /\ UNCHANGED <<termination, supernova>>

\* prove_step panics when the circuit is not the one the program counter says.
WrongCircuit ==
  /\ supernova = "folding"
  /\ circuit <= Len(trace)
  /\ CircuitIndex(circuit) # pc
  /\ supernova' = "panicked"
  /\ UNCHANGED <<termination, z, pc, circuit, supernovaHolds>>

SupernovaVerify ==
  /\ supernova = "folding"
  /\ circuit > Len(trace)
  /\ supernova' = IF supernovaHolds THEN "accepted" ELSE "rejected"
  /\ UNCHANGED <<termination, z, pc, circuit, supernovaHolds>>

SupernovaNext == SupernovaNew \/ Read \/ Write \/ WrongCircuit \/ SupernovaVerify
=============================================================================
