----------------------------- MODULE NovaMemory -----------------------------
(***************************************************************************)
(* The Nova backend: one step circuit is synthesized for every             *)
(* num_iters_per_step records, each iteration from the memory and the      *)
(* commitment that the one before left in z_out.  Folding accumulates      *)
(* whether all constraints hold, and verify tells.                         *)
(***************************************************************************)
EXTENDS FoldedMemory

CONSTANT NumIters    \* num_iters_per_step

ASSUME NovaAssumption == NumIters \in Nat \ {0}

VARIABLES
  z_out,             \* memory and commitment
  step, iteration,
  novaHolds,         \* do all constraints hold so far?
  nova               \* "new", "folding", "accepted", "rejected" or "panicked"

novaVars == <<z_out, step, iteration, novaHolds, nova>>

NovaInit ==
  /\ z_out = z0
  /\ step = 0
  /\ iteration = 0
  /\ novaHolds = TRUE
  /\ nova = "new"

\* The circuits of all steps are made first: each takes num_iters_per_step
\* records, and there must be as many.
NovaNew ==
  /\ nova = "new"
  /\ nova' = IF Len(trace) % NumIters = 0 THEN "folding" ELSE "panicked"
  /\ UNCHANGED <<z_out, step, iteration, novaHolds>>

Steps == Len(trace) \div NumIters

Record == trace[step * NumIters + iteration + 1]

\* Mutant of NovaConstraints: the gate of a read also holds for a wrong value.
NovaConstraintsAnyRead(record) ==
  /\ record.address \in Cells
  /\ MerkleTreeCommit(z_out.memory) = z_out.commitment
  /\ record.instruction \in {0, 1}

NovaConstraints(record) ==
  /\ record.address \in Cells
  /\ MerkleTreeCommit(z_out.memory) = z_out.commitment
  /\ record.instruction = 1 \/ GetMemoryAddress(z_out.memory, record.address) = record.value
  /\ record.instruction \in {0, 1}

NovaIterate ==
  /\ nova = "folding"
  /\ step < Steps
  /\ iteration < NumIters
  /\ novaHolds' = (novaHolds /\ NovaConstraints(Record))
  /\ LET memory == NewMemory(z_out.memory, Record)
     IN z_out' = [memory |-> memory, commitment |-> MerkleTreeCommit(memory)]
  /\ iteration' = iteration + 1
  /\ UNCHANGED <<step, nova>>

\* Mutant of NovaStep: the iterations of the next step are not started at zero.
NovaStepNoReset ==
  /\ nova = "folding"
  /\ iteration = NumIters
  /\ step' = step + 1
  /\ UNCHANGED <<z_out, iteration, novaHolds, nova>>

NovaStep ==
  /\ nova = "folding"
  /\ iteration = NumIters
  /\ step' = step + 1
  /\ iteration' = 0
  /\ UNCHANGED <<z_out, novaHolds, nova>>

NovaVerify ==
  /\ nova = "folding"
  /\ iteration = 0
  /\ step = Steps
  /\ nova' = IF novaHolds THEN "accepted" ELSE "rejected"
  /\ UNCHANGED <<z_out, step, iteration, novaHolds>>

NovaNext == NovaNew \/ NovaIterate \/ NovaStep \/ NovaVerify
=============================================================================
