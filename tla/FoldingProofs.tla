--------------------------- MODULE FoldingProofs ---------------------------
(***************************************************************************)
(* Both folding backends accept exactly the traces of an array, for any    *)
(* memory, field, hash function, grouping of records into steps and trace. *)
(***************************************************************************)
EXTENDS FoldingBackends, TLAPS

-----------------------------------------------------------------------------
(***************************************************************************)
(* Steps of num_iters_per_step records.                                    *)
(***************************************************************************)
\* Quotient and remainder of the number of records.
LEMMA DivMod ==
  ASSUME NEW w \in Nat \ {0}, NEW a \in Nat
  PROVE  /\ a = (a \div w) * w + (a % w)
         /\ a \div w \in Nat
OBVIOUS

LEMMA NextMultiple ==
  ASSUME NEW w \in Nat, NEW k \in Nat
  PROVE  (k + 1) * w = k * w + w /\ k * w \in Nat
OBVIOUS

LEMMA MultipleLeq ==
  ASSUME NEW w \in Nat, NEW k \in Nat, NEW m \in Nat, k <= m
  PROVE  k * w <= m * w
OBVIOUS

\* The records that Nova has gone through.
Done == step * NumIters + iteration

LEMMA DoneType ==
  ASSUME TypeOK
  PROVE  /\ NumIters \in Nat \ {0} /\ Len(trace) \in Nat /\ Steps \in Nat
         /\ step \in Nat /\ iteration \in Nat /\ step * NumIters \in Nat /\ Done \in Nat
<1>1. NumIters \in Nat \ {0} /\ Len(trace) \in Nat
  BY NovaAssumption DEF TypeOK
<1>2. Steps \in Nat
  BY <1>1, DivMod DEF Steps
<1>3. step \in Nat /\ iteration \in Nat
  BY <1>1, <1>2 DEF TypeOK
<1>4. step * NumIters \in Nat
  BY <1>1, <1>3, NextMultiple
<1> QED BY <1>1, <1>2, <1>3, <1>4 DEF Done

LEMMA LengthOfSteps ==
  ASSUME TypeOK, Len(trace) % NumIters = 0
  PROVE  Len(trace) = Steps * NumIters
<1>1. NumIters \in Nat \ {0} /\ Len(trace) \in Nat
  BY DoneType
<1> QED BY <1>1, DivMod DEF Steps

\* A record that is left to iterate over is a record of the trace.
LEMMA RecordInTrace ==
  ASSUME TypeOK, Len(trace) % NumIters = 0, step < Steps, iteration < NumIters
  PROVE  Done + 1 \in 1 .. Len(trace)
<1>1. /\ NumIters \in Nat \ {0} /\ Len(trace) \in Nat /\ Steps \in Nat
      /\ step \in Nat /\ iteration \in Nat /\ step * NumIters \in Nat /\ Done \in Nat
  BY DoneType
<1>2. Len(trace) = Steps * NumIters
  BY LengthOfSteps
<1>3. (step + 1) * NumIters <= Steps * NumIters
  BY <1>1, MultipleLeq
<1>4. (step + 1) * NumIters = step * NumIters + NumIters
  BY <1>1, NextMultiple
<1> QED BY <1>1, <1>2, <1>3, <1>4 DEF Done

-----------------------------------------------------------------------------
(***************************************************************************)
(* Type correctness.                                                       *)
(***************************************************************************)
LEMMA CellZero == 0 \in Cells
BY FoldedAssumption DEF Cells

LEMMA NewMemoryType ==
  ASSUME NEW memory \in Memory, NEW record, record.value \in Field
  PROVE  NewMemory(memory, record) \in Memory
BY DEF NewMemory, Memory

LEMMA CommitmentType ==
  ASSUME NEW memory \in Memory
  PROVE  [memory |-> memory, commitment |-> MerkleTreeCommit(memory)] \in States
BY DEF States, Commitments

LEMMA StateFields ==
  ASSUME NEW state \in States
  PROVE  state.memory \in Memory
BY DEF States

\* Nova folds only traces that are divided into steps without a rest.
WholeSteps ==
  /\ nova \in {"folding", "accepted", "rejected"} => Len(trace) % NumIters = 0
  /\ nova = "panicked" => Len(trace) % NumIters # 0

TypeInv == TypeOK /\ WholeSteps

LEMMA TypeInit == Init => TypeInv
<1> SUFFICES ASSUME Init PROVE TypeInv
  OBVIOUS
<1>1. /\ z0 \in States /\ z_out \in States /\ z \in States
      /\ trace \in Seq(TraceRecord) \ {<<>>}
  BY FoldedAssumption DEF Init, NovaInit, SupernovaInit, States
<1>2. /\ nova \in Verdicts /\ supernova \in Verdicts
      /\ novaHolds \in BOOLEAN /\ supernovaHolds \in BOOLEAN
  BY DEF Init, NovaInit, SupernovaInit, Verdicts
<1>3. step \in 0 .. Steps /\ iteration \in 0 .. NumIters /\ (step = Steps => iteration = 0)
  <2>1. Steps \in Nat
    BY <1>1, DivMod, NovaAssumption DEF Steps
  <2> QED BY <2>1, NovaAssumption DEF Init, NovaInit
<1>4. /\ circuit \in 0 .. Len(trace) + 1
      /\ pc \in Operations \cup {0} /\ termination \in Operations
  BY <1>1 DEF Init, SupernovaInit
<1>5. WholeSteps
  BY DEF Init, NovaInit, WholeSteps
<1> QED BY <1>1, <1>2, <1>3, <1>4, <1>5 DEF TypeInv, TypeOK

LEMMA NovaTypeStep ==
  ASSUME TypeInv, NovaTurn
  PROVE  TypeInv'
<1>0. /\ z0' = z0 /\ trace' = trace /\ z' = z /\ supernova' = supernova
      /\ supernovaHolds' = supernovaHolds /\ circuit' = circuit /\ pc' = pc
      /\ termination' = termination /\ Steps' = Steps
  BY DEF NovaTurn, inputs, supernovaVars, Steps
<1>1. /\ NumIters \in Nat \ {0} /\ Steps \in Nat /\ step \in Nat /\ iteration \in Nat
  BY DoneType DEF TypeInv
<1>2. CASE NovaNew
  BY <1>0, <1>2 DEF NovaNew, TypeInv, TypeOK, WholeSteps, Verdicts
<1>3. CASE NovaIterate
  <2>1. Record \in TraceRecord
    <3>1. Done + 1 \in 1 .. Len(trace)
      BY <1>3, RecordInTrace DEF NovaIterate, TypeInv, WholeSteps
    <3> QED BY <3>1, DoneType DEF Record, Done, TypeInv, TypeOK
  <2>2. z_out' \in States
    <3>1. NewMemory(z_out.memory, Record) \in Memory
      BY <2>1, NewMemoryType, StateFields DEF TypeInv, TypeOK, TraceRecord
    <3> QED BY <1>3, <3>1, CommitmentType DEF NovaIterate
  <2>3. /\ iteration' \in 0 .. NumIters /\ step' = step /\ step # Steps
        /\ nova' = nova /\ novaHolds' \in BOOLEAN
    BY <1>1, <1>3 DEF NovaIterate, TypeInv, TypeOK
  <2> QED BY <1>0, <2>2, <2>3 DEF TypeInv, TypeOK, WholeSteps
<1>4. CASE NovaStep
  <2>1. /\ step' \in 0 .. Steps /\ iteration' = 0 /\ z_out' = z_out /\ nova' = nova
        /\ novaHolds' = novaHolds
    BY <1>1, <1>4 DEF NovaStep, TypeInv, TypeOK
  <2> QED BY <1>0, <1>1, <2>1 DEF TypeInv, TypeOK, WholeSteps
<1>5. CASE NovaVerify
  BY <1>0, <1>5 DEF NovaVerify, TypeInv, TypeOK, WholeSteps, Verdicts
<1> QED BY <1>2, <1>3, <1>4, <1>5 DEF NovaTurn, NovaNext

LEMMA SupernovaTypeStep ==
  ASSUME TypeInv, SupernovaTurn
  PROVE  TypeInv'
<1>0. /\ z0' = z0 /\ trace' = trace /\ z_out' = z_out /\ nova' = nova
      /\ novaHolds' = novaHolds /\ step' = step /\ iteration' = iteration
      /\ Steps' = Steps
  BY DEF SupernovaTurn, inputs, novaVars, Steps
<1>1. trace \in Seq(TraceRecord) /\ Len(trace) \in Nat /\ circuit \in 0 .. Len(trace) + 1
  BY DEF TypeInv, TypeOK
<1>2. ASSUME circuit <= Len(trace)
      PROVE  /\ Instruction(circuit + 1) \in Operations \cup {0}
             /\ CircuitRecord(circuit).value \in Field
             /\ circuit + 1 \in 0 .. Len(trace) + 1
  <2>1. \A i \in DOMAIN trace : trace[i] \in TraceRecord
    BY <1>1
  <2>2. Instruction(circuit + 1) \in Operations \cup {0}
    BY <2>1 DEF Instruction, TraceRecord, TypeInv, TypeOK
  <2>3. z0.memory[0] \in Field
    BY CellZero, StateFields DEF TypeInv, TypeOK, Memory
  <2>4. circuit # 0 => circuit \in DOMAIN trace
    BY <1>1, <1>2
  <2>5. CircuitRecord(circuit).value \in Field
    BY <2>1, <2>3, <2>4 DEF CircuitRecord, TraceRecord
  <2> QED BY <1>1, <1>2, <2>2, <2>5
<1>3. CASE SupernovaNew
  BY <1>0, <1>3 DEF SupernovaNew, TypeInv, TypeOK, WholeSteps, Verdicts
<1>4. CASE Read
  <2>1. /\ termination' = termination /\ z' = z /\ supernova' = supernova
        /\ supernovaHolds' \in BOOLEAN /\ pc' \in Operations \cup {0}
        /\ circuit' \in 0 .. Len(trace) + 1
    BY <1>2, <1>4 DEF Read, Folding, TypeInv, TypeOK
  <2> QED BY <1>0, <2>1 DEF TypeInv, TypeOK, WholeSteps
<1>5. CASE Write
  <2>1. NewMemory(z.memory, CircuitRecord(circuit)) \in Memory
    BY <1>2, <1>5, NewMemoryType, StateFields DEF Write, Folding, TypeInv, TypeOK
  <2>2. /\ termination' = termination /\ supernova' = supernova
        /\ supernovaHolds' \in BOOLEAN /\ pc' \in Operations \cup {0}
        /\ circuit' \in 0 .. Len(trace) + 1 /\ z' \in States
    BY <1>2, <1>5, <2>1, CommitmentType DEF Write, Folding, TypeInv, TypeOK
  <2> QED BY <1>0, <2>2 DEF TypeInv, TypeOK, WholeSteps
<1>6. CASE WrongCircuit
  BY <1>0, <1>6 DEF WrongCircuit, TypeInv, TypeOK, WholeSteps, Verdicts
<1>7. CASE SupernovaVerify
  BY <1>0, <1>7 DEF SupernovaVerify, TypeInv, TypeOK, WholeSteps, Verdicts
<1> QED BY <1>3, <1>4, <1>5, <1>6, <1>7 DEF SupernovaTurn, SupernovaNext

LEMMA TypeStutter ==
  ASSUME TypeInv, UNCHANGED vars
  PROVE  TypeInv'
BY DEF TypeInv, TypeOK, WholeSteps, Steps, vars, inputs, novaVars, supernovaVars

LEMMA TypeInvariant == Spec => []TypeInv
<1>1. TypeInv /\ [Next]_vars => TypeInv'
  BY NovaTypeStep, SupernovaTypeStep, TypeStutter DEF Next
<1> QED BY TypeInit, <1>1, PTL DEF Spec

\* Type correctness of both backends (TypeOK): a step never goes beyond the
\* trace, and what is folded stays a memory with a commitment.
THEOREM TypeCorrect == Spec => []TypeOK
<1>1. TypeInv => TypeOK
  BY DEF TypeInv
<1> QED BY TypeInvariant, <1>1, PTL

-----------------------------------------------------------------------------
(***************************************************************************)
(* Memories that follow the trace.                                         *)
(***************************************************************************)
\* The records up to n are those of an array, with the right commitment.
Good(n) == Committed /\ \A i \in 1 .. n : Admitted(i)

\* The memory is the one after the first n records.
Tracks(memory, n) == \A cell \in Cells : Holds(cell, n, memory[cell])

LEMMA HoldsUnique ==
  ASSUME NEW cell, NEW n \in Nat, NEW u, NEW v, Holds(cell, n, u), Holds(cell, n, v)
  PROVE  u = v
<1>1. ASSUME NEW w \in 1 .. n, NEW x \in 1 .. n,
             WritesCell(w, cell), \A k \in w + 1 .. n : ~ WritesCell(k, cell),
             WritesCell(x, cell), \A k \in x + 1 .. n : ~ WritesCell(k, cell)
      PROVE  w = x
  <2>1. ~ (w < x)
    <3> SUFFICES ASSUME w < x PROVE FALSE
      OBVIOUS
    <3>1. x \in w + 1 .. n
      OBVIOUS
    <3> QED BY <1>1, <3>1
  <2>2. ~ (x < w)
    <3> SUFFICES ASSUME x < w PROVE FALSE
      OBVIOUS
    <3>1. w \in x + 1 .. n
      OBVIOUS
    <3> QED BY <1>1, <3>1
  <2> QED BY <2>1, <2>2
<1>2. CASE \E w \in 1 .. n : WritesCell(w, cell)
  <2>1. PICK w \in 1 .. n : /\ WritesCell(w, cell)
                            /\ u = trace[w].value
                            /\ \A k \in w + 1 .. n : ~ WritesCell(k, cell)
    BY <1>2 DEF Holds
  <2>2. PICK x \in 1 .. n : /\ WritesCell(x, cell)
                            /\ v = trace[x].value
                            /\ \A k \in x + 1 .. n : ~ WritesCell(k, cell)
    BY <1>2 DEF Holds
  <2>3. w = x
    BY <2>1, <2>2, <1>1
  <2> QED BY <2>1, <2>2, <2>3
<1>3. CASE \A w \in 1 .. n : ~ WritesCell(w, cell)
  BY <1>3 DEF Holds
<1> QED BY <1>2, <1>3

LEMMA HoldsWritten ==
  ASSUME NEW cell, NEW n \in Nat, WritesCell(n + 1, cell)
  PROVE  Holds(cell, n + 1, trace[n + 1].value)
<1>1. n + 1 \in 1 .. n + 1 /\ (n + 1) + 1 .. n + 1 = {}
  OBVIOUS
<1> QED BY <1>1 DEF Holds

LEMMA HoldsKept ==
  ASSUME NEW cell, NEW n \in Nat, NEW v, ~ WritesCell(n + 1, cell), Holds(cell, n, v)
  PROVE  Holds(cell, n + 1, v)
<1>1. CASE \E w \in 1 .. n : /\ WritesCell(w, cell)
                             /\ v = trace[w].value
                             /\ \A k \in w + 1 .. n : ~ WritesCell(k, cell)
  <2>1. PICK w \in 1 .. n : /\ WritesCell(w, cell)
                            /\ v = trace[w].value
                            /\ \A k \in w + 1 .. n : ~ WritesCell(k, cell)
    BY <1>1
  <2>2. w \in 1 .. n + 1 /\ \A k \in w + 1 .. n + 1 : k \in w + 1 .. n \/ k = n + 1
    OBVIOUS
  <2>3. \A k \in w + 1 .. n + 1 : ~ WritesCell(k, cell)
    BY <2>1, <2>2
  <2> QED BY <2>1, <2>2, <2>3 DEF Holds
<1>2. CASE (\A w \in 1 .. n : ~ WritesCell(w, cell)) /\ v = z0.memory[cell]
  <2>1. \A w \in 1 .. n + 1 : w \in 1 .. n \/ w = n + 1
    OBVIOUS
  <2> QED BY <1>2, <2>1 DEF Holds
<1> QED BY <1>1, <1>2 DEF Holds

LEMMA TracksInitially == Tracks(z0.memory, 0)
BY DEF Tracks, Holds

LEMMA GoodNext ==
  ASSUME NEW n \in Nat
  PROVE  Good(n + 1) <=> Good(n) /\ Admitted(n + 1)
<1>1. \A i : i \in 1 .. n + 1 <=> i \in 1 .. n \/ i = n + 1
  OBVIOUS
<1> QED BY <1>1 DEF Good

LEMMA WholeTrace ==
  ASSUME TypeOK
  PROVE  Good(Len(trace)) <=> Consistent
<1>1. DOMAIN trace = 1 .. Len(trace)
  BY DEF TypeOK
<1> QED BY <1>1 DEF Good, Consistent

\* A read of a memory that follows the trace is admitted if it returns the cell.
LEMMA ReadAdmitted ==
  ASSUME NEW memory \in Memory, NEW n \in Nat, Tracks(memory, n),
         trace[n + 1].instruction = 0, trace[n + 1].address \in Cells
  PROVE  Admitted(n + 1) <=> memory[trace[n + 1].address] = trace[n + 1].value
<1>1. Holds(trace[n + 1].address, n, memory[trace[n + 1].address])
  BY DEF Tracks
<1>2. (n + 1) - 1 = n
  OBVIOUS
<1> QED BY <1>1, <1>2, HoldsUnique DEF Admitted

LEMMA WriteAdmitted ==
  ASSUME NEW n \in Nat, trace[n + 1].instruction = 1
  PROVE  Admitted(n + 1) <=> trace[n + 1].address \in Cells
BY DEF Admitted

LEMMA ReadTracks ==
  ASSUME NEW memory \in Memory, NEW n \in Nat, Tracks(memory, n), trace[n + 1].instruction = 0
  PROVE  Tracks(memory, n + 1)
<1>1. \A cell : ~ WritesCell(n + 1, cell)
  BY DEF WritesCell
<1> QED BY <1>1, HoldsKept DEF Tracks

LEMMA WriteTracks ==
  ASSUME NEW memory \in Memory, NEW n \in Nat, Tracks(memory, n), trace[n + 1].instruction = 1
  PROVE  Tracks(NewMemory(memory, trace[n + 1]), n + 1)
<1> DEFINE new == NewMemory(memory, trace[n + 1])
<1> SUFFICES ASSUME NEW cell \in Cells PROVE Holds(cell, n + 1, new[cell])
  BY DEF Tracks
<1>1. CASE cell = trace[n + 1].address
  <2>1. new[cell] = trace[n + 1].value /\ WritesCell(n + 1, cell)
    BY <1>1 DEF NewMemory, WritesCell
  <2> QED BY <2>1, HoldsWritten
<1>2. CASE cell # trace[n + 1].address
  <2>1. new[cell] = memory[cell] /\ ~ WritesCell(n + 1, cell)
    BY <1>2 DEF NewMemory, WritesCell
  <2> QED BY <2>1, HoldsKept DEF Tracks
<1> QED BY <1>1, <1>2

\* A read that is admitted leaves the memory as it is.
LEMMA ReadKeeps ==
  ASSUME NEW memory \in Memory, NEW record, record.address \in Cells,
         memory[record.address] = record.value
  PROVE  NewMemory(memory, record) = memory
<1>1. memory = [i \in Cells |-> memory[i]]
  BY DEF Memory
<1>2. \A i \in Cells : (IF i = record.address THEN record.value ELSE memory[i]) = memory[i]
  OBVIOUS
<1>3. [i \in Cells |-> IF i = record.address THEN record.value ELSE memory[i]]
        = [i \in Cells |-> memory[i]]
  BY <1>2, Zenon
<1> QED BY <1>1, <1>3, Zenon DEF NewMemory

\* The inputs do not change, and neither does what is said of them.
LEMMA SameInputs ==
  ASSUME UNCHANGED inputs
  PROVE  /\ \A n : Good(n)' <=> Good(n)
         /\ \A memory, n : Tracks(memory, n)' <=> Tracks(memory, n)
<1>1. z0' = z0 /\ trace' = trace
  BY DEF inputs
<1>2. \A i, cell : WritesCell(i, cell)' <=> WritesCell(i, cell)
  BY <1>1 DEF WritesCell
<1>3. \A cell, n, v : Holds(cell, n, v)' <=> Holds(cell, n, v)
  BY <1>1, <1>2 DEF Holds
<1>4. \A i : Admitted(i)' <=> Admitted(i)
  BY <1>1, <1>3 DEF Admitted
<1>5. Committed' <=> Committed
  BY <1>1 DEF Committed
<1> QED BY <1>3, <1>4, <1>5 DEF Good, Tracks

-----------------------------------------------------------------------------
(***************************************************************************)
(* Nova.                                                                   *)
(***************************************************************************)
\* After n records: the constraints hold if and only if the records are those
\* of an array, and then z_out is its memory.
NovaAt(n) ==
  /\ n = 0 => z_out = z0 /\ novaHolds
  /\ n > 0 => /\ z_out.commitment = MerkleTreeCommit(z_out.memory)
              /\ novaHolds <=> Good(n)
  /\ novaHolds => Tracks(z_out.memory, n)

NovaInv ==
  /\ \E n \in Nat : n = Done /\ NovaAt(n)
  /\ nova = "accepted" => novaHolds /\ step = Steps
  /\ nova = "rejected" => ~ novaHolds /\ step = Steps

\* The constraints of an iteration admit the next record and nothing else.
LEMMA NovaAdmits ==
  ASSUME TypeOK, NEW n \in Nat, NovaAt(n), novaHolds, n + 1 \in DOMAIN trace
  PROVE  NovaConstraints(trace[n + 1]) <=> Good(n + 1)
<1> DEFINE record == trace[n + 1]  memory == z_out.memory
<1>1. memory \in Memory /\ Tracks(memory, n)
  BY StateFields DEF TypeOK, NovaAt
<1>2. Good(n) <=> MerkleTreeCommit(memory) = z_out.commitment
  <2>1. CASE n = 0
    BY <2>1 DEF NovaAt, Good, Committed
  <2>2. CASE n > 0
    BY <2>2 DEF NovaAt
  <2> QED BY <2>1, <2>2
<1>3. ASSUME record.address \in Cells, record.instruction = 0
      PROVE  Admitted(n + 1) <=> GetMemoryAddress(memory, record.address) = record.value
  BY <1>1, <1>3, ReadAdmitted DEF GetMemoryAddress
<1>4. ASSUME record.instruction = 1
      PROVE  Admitted(n + 1) <=> record.address \in Cells
  BY <1>4, WriteAdmitted
<1>5. Admitted(n + 1) <=> /\ record.address \in Cells
                          /\ \/ record.instruction = 1
                             \/ GetMemoryAddress(memory, record.address) = record.value
                          /\ record.instruction \in {0, 1}
  <2>1. Admitted(n + 1) => record.address \in Cells /\ record.instruction \in {0, 1}
    BY DEF Admitted
  <2> QED BY <1>3, <1>4, <2>1
<1> QED BY <1>2, <1>5, GoodNext DEF NovaConstraints

LEMMA NovaInit1 == Init => NovaInv
<1> SUFFICES ASSUME Init PROVE NovaInv
  OBVIOUS
<1>1. Done = 0
  BY NovaAssumption DEF Init, NovaInit, Done
<1>2. NovaAt(0)
  BY TracksInitially DEF Init, NovaInit, NovaAt
<1> QED BY <1>1, <1>2 DEF Init, NovaInit, NovaInv

LEMMA NovaInvIterate ==
  ASSUME TypeInv, NovaInv, NovaIterate, UNCHANGED inputs
  PROVE  NovaInv'
<1>1. PICK n \in Nat : n = Done /\ NovaAt(n)
  BY DEF NovaInv
<1>2. n + 1 \in DOMAIN trace /\ Record = trace[n + 1]
  <2>1. Done + 1 \in 1 .. Len(trace)
    BY RecordInTrace DEF NovaIterate, TypeInv, WholeSteps
  <2> QED BY <1>1, <2>1, DoneType DEF Record, Done, TypeInv, TypeOK
<1>3. Done' = n + 1
  BY <1>1, DoneType DEF NovaIterate, Done, TypeInv
<1>4. PICK memory : memory = NewMemory(z_out.memory, trace[n + 1])
  OBVIOUS
<1>5. /\ z_out'.memory = memory
      /\ z_out'.commitment = MerkleTreeCommit(memory)
      /\ nova' = "folding"
  BY <1>2, <1>4 DEF NovaIterate
<1>6. novaHolds' <=> novaHolds /\ NovaConstraints(trace[n + 1])
  BY <1>2 DEF NovaIterate
<1>7. novaHolds' <=> Good(n + 1)
  <2>1. CASE novaHolds
    BY <1>1, <1>2, <1>6, <2>1, NovaAdmits DEF TypeInv
  <2>2. CASE ~ novaHolds
    <3>1. ~ Good(n)
      BY <1>1, <2>2 DEF NovaAt
    <3> QED BY <1>6, <2>2, <3>1, GoodNext
  <2> QED BY <2>1, <2>2
<1>8. ASSUME Good(n + 1), novaHolds
      PROVE  Tracks(memory, n + 1)
  <2>1. z_out.memory \in Memory /\ Tracks(z_out.memory, n) /\ Admitted(n + 1)
    BY <1>1, <1>8, StateFields, GoodNext DEF NovaAt, TypeInv, TypeOK
  <2>2. CASE trace[n + 1].instruction = 1
    BY <1>4, <2>1, <2>2, WriteTracks
  <2>3. CASE trace[n + 1].instruction = 0
    <3>1. trace[n + 1].address \in Cells
      BY <2>1 DEF Admitted
    <3>2. z_out.memory[trace[n + 1].address] = trace[n + 1].value
      BY <2>1, <2>3, <3>1, ReadAdmitted
    <3>3. memory = z_out.memory
      BY <1>4, <2>1, <3>1, <3>2, ReadKeeps
    <3> QED BY <2>1, <2>3, <3>3, ReadTracks
  <2> QED BY <2>1, <2>2, <2>3 DEF Admitted
<1>9. NovaAt(n + 1)'
  <2>1. novaHolds' <=> Good(n + 1)'
    BY <1>7, SameInputs
  <2>2. novaHolds' => Tracks(memory, n + 1)'
    BY <1>6, <1>7, <1>8, SameInputs
  <2>3. novaHolds' => Tracks(z_out.memory, n + 1)'
    BY <1>5, <2>2 DEF Tracks
  <2> QED BY <1>5, <2>1, <2>3 DEF NovaAt
<1> QED BY <1>3, <1>5, <1>9 DEF NovaInv

LEMMA NovaInvStep ==
  ASSUME TypeInv, NovaInv, [Next]_vars
  PROVE  NovaInv'
<1>0. UNCHANGED inputs
  BY DEF Next, NovaTurn, SupernovaTurn, vars, inputs
<1>1. PICK n \in Nat : n = Done /\ NovaAt(n)
  BY DEF NovaInv
<1>2. ASSUME z_out' = z_out, novaHolds' = novaHolds
      PROVE  NovaAt(n)'
  <2>1. PICK memory : memory = z_out.memory
    OBVIOUS
  <2>2. novaHolds => Tracks(memory, n)'
    BY <1>0, <1>1, <2>1, SameInputs DEF NovaAt
  <2>3. novaHolds' => Tracks(z_out.memory, n)'
    BY <1>2, <2>1, <2>2 DEF Tracks
  <2>4. Good(n)' <=> Good(n)
    BY <1>0, SameInputs
  <2>5. z0' = z0
    BY <1>0 DEF inputs
  <2> QED BY <1>1, <1>2, <2>3, <2>4, <2>5 DEF NovaAt
<1>3. Steps' = Steps
  BY <1>0 DEF inputs, Steps
<1>4. CASE NovaIterate
  BY <1>0, <1>4, NovaInvIterate
<1>5. CASE NovaNew
  <2>1. Done' = Done /\ nova' \notin {"accepted", "rejected"}
    BY <1>5 DEF NovaNew, Done
  <2> QED BY <1>1, <1>2, <1>5, <2>1 DEF NovaNew, NovaInv
<1>6. CASE NovaStep
  <2>1. (step + 1) * NumIters = step * NumIters + NumIters
    BY DoneType, NextMultiple DEF TypeInv
  <2>2. Done' = Done /\ nova' = "folding"
    BY <1>6, <2>1, DoneType DEF NovaStep, Done, TypeInv
  <2> QED BY <1>1, <1>2, <1>6, <2>2 DEF NovaStep, NovaInv
<1>7. CASE NovaVerify
  <2>1. Done' = Done
    BY <1>7 DEF NovaVerify, Done
  <2> QED BY <1>1, <1>2, <1>3, <1>7, <2>1 DEF NovaVerify, NovaInv
<1>8. CASE UNCHANGED novaVars
  <2>1. Done' = Done
    BY <1>8 DEF novaVars, Done
  <2> QED BY <1>1, <1>2, <1>3, <1>8, <2>1 DEF novaVars, NovaInv
<1> QED BY <1>4, <1>5, <1>6, <1>7, <1>8 DEF Next, NovaTurn, NovaNext, SupernovaTurn, vars

\* Nova accepts the traces of an array that starts with the committed memory,
\* and no others (NovaExact): NovaMemoryConsistencyCircuit::synthesize.
THEOREM NovaIsExact == Spec => []NovaExact
<1>1. Init => NovaInv
  BY NovaInit1
<1>2. TypeInv /\ NovaInv /\ [Next]_vars => NovaInv'
  BY NovaInvStep
<1>3. TypeInv /\ NovaInv => NovaExact
  <2> SUFFICES ASSUME TypeInv, NovaInv, Len(trace) % NumIters = 0,
                      nova \in {"accepted", "rejected", "panicked"}
               PROVE  /\ nova = "accepted" => Consistent
                      /\ nova \in {"rejected", "panicked"} => ~ Consistent
    BY DEF NovaExact
  <2>1. nova # "panicked"
    BY DEF TypeInv, WholeSteps
  <2>2. PICK n \in Nat : n = Done /\ NovaAt(n)
    BY DEF NovaInv
  <2>3. Done = Len(trace)
    <3>1. step = Steps /\ iteration = 0
      BY <2>1 DEF NovaInv, TypeInv, TypeOK
    <3>2. Len(trace) = Steps * NumIters
      BY LengthOfSteps DEF TypeInv
    <3> QED BY <3>1, <3>2, DoneType DEF Done, TypeInv
  <2>4. Len(trace) > 0
    BY DEF TypeInv, TypeOK
  <2>5. novaHolds <=> Good(Len(trace))
    BY <2>2, <2>3, <2>4 DEF NovaAt
  <2>6. Good(Len(trace)) <=> Consistent
    BY WholeTrace DEF TypeInv
  <2> QED BY <2>1, <2>5, <2>6 DEF NovaInv
<1> QED BY TypeInvariant, <1>1, <1>2, <1>3, PTL DEF Spec

-----------------------------------------------------------------------------
(***************************************************************************)
(* SuperNova.  The circuit before the first record of the trace checks the *)
(* commitment; the circuits of n records make n + 1.                       *)
(***************************************************************************)
SupernovaAt(n) ==
  /\ supernovaHolds <=> Good(n)
  /\ supernovaHolds => /\ z.commitment = MerkleTreeCommit(z.memory)
                       /\ Tracks(z.memory, n)

Stops(i) == i \in DOMAIN trace /\ trace[i].instruction \notin {0, 1}

SupernovaInv ==
  /\ circuit = 0 => z = z0 /\ supernovaHolds /\ pc = 0
  /\ circuit > 0 => /\ pc = Instruction(circuit)
                    /\ \E n \in Nat : circuit = n + 1 /\ SupernovaAt(n)
  /\ supernova = "accepted" => supernovaHolds /\ circuit > Len(trace)
  /\ supernova = "rejected" => ~ supernovaHolds /\ circuit > Len(trace)
  /\ supernova = "panicked" => termination # 2 \/ Stops(circuit)

\* The first circuit, a read of cell 0 of the initial memory, checks the
\* commitment and nothing else.
LEMMA FirstReadCommits ==
  ASSUME TypeOK, circuit = 0, z = z0
  PROVE  ReadConstraints(CircuitRecord(circuit)) <=> Good(0)
<1>1. CircuitRecord(circuit) = [address |-> 0, instruction |-> 0, value |-> z0.memory[0]]
  BY DEF CircuitRecord
<1>2. GetMemoryAddress(z.memory, 0) = z0.memory[0]
  BY CellZero DEF GetMemoryAddress
<1> QED BY <1>1, <1>2, CellZero DEF ReadConstraints, Good, Committed

LEMMA SupernovaRead ==
  ASSUME TypeInv, SupernovaInv, Read, UNCHANGED inputs
  PROVE  \E n \in Nat : circuit' = n + 1 /\ SupernovaAt(n)'
<1>1. z' = z /\ circuit' = circuit + 1
      /\ (supernovaHolds' <=> supernovaHolds /\ ReadConstraints(CircuitRecord(circuit)))
  BY DEF Read
<1>2. z.memory \in Memory /\ circuit \in Nat /\ circuit <= Len(trace) /\ Len(trace) \in Nat
  BY StateFields DEF TypeInv, TypeOK, Read, Folding
<1>3. PICK memory : memory = z.memory
  OBVIOUS
<1>4. ASSUME NEW n \in Nat, circuit' = n + 1, supernovaHolds' <=> Good(n),
             supernovaHolds' => z.commitment = MerkleTreeCommit(z.memory) /\ Tracks(z.memory, n)
      PROVE  SupernovaAt(n)'
  <2>1. supernovaHolds' <=> Good(n)'
    BY <1>4, SameInputs
  <2>2. supernovaHolds' => Tracks(memory, n)'
    BY <1>3, <1>4, SameInputs
  <2>3. supernovaHolds' => Tracks(z.memory, n)'
    BY <1>1, <1>3, <2>2 DEF Tracks
  <2> QED BY <1>1, <1>4, <2>1, <2>3 DEF SupernovaAt
<1>5. CASE circuit = 0
  <2>1. z = z0 /\ supernovaHolds
    BY <1>5 DEF SupernovaInv
  <2>2. supernovaHolds' <=> Good(0)
    BY <1>1, <1>5, <2>1, FirstReadCommits DEF TypeInv
  <2>3. Good(0) => z.commitment = MerkleTreeCommit(z.memory) /\ Tracks(z.memory, 0)
    BY <2>1, TracksInitially DEF Good, Committed
  <2>4. circuit' = 0 + 1
    BY <1>1, <1>5
  <2> QED BY <1>4, <2>2, <2>3, <2>4
<1>6. CASE circuit > 0
  <2>1. PICK m \in Nat : circuit = m + 1 /\ SupernovaAt(m)
    BY <1>6 DEF SupernovaInv
  <2>2. m + 1 \in DOMAIN trace /\ CircuitRecord(circuit) = trace[m + 1]
    BY <1>2, <2>1 DEF CircuitRecord, TypeInv, TypeOK
  <2>3. trace[m + 1].instruction = 0
    BY <2>1, <2>2 DEF Read, Folding, CircuitIndex, Instruction
  <2>4. ASSUME supernovaHolds
        PROVE  ReadConstraints(trace[m + 1]) <=> Good(m + 1)
    <3>1. Good(m) /\ Tracks(z.memory, m) /\ MerkleTreeCommit(z.memory) = z.commitment
      BY <2>1, <2>4 DEF SupernovaAt
    <3>2. CASE trace[m + 1].address \in Cells
      <4>1. Admitted(m + 1) <=> z.memory[trace[m + 1].address] = trace[m + 1].value
        BY <1>2, <2>3, <3>1, <3>2, ReadAdmitted
      <4> QED BY <3>1, <3>2, <4>1, GoodNext DEF ReadConstraints, GetMemoryAddress
    <3>3. CASE trace[m + 1].address \notin Cells
      <4>1. ~ Admitted(m + 1)
        BY <3>3 DEF Admitted
      <4> QED BY <3>3, <4>1, GoodNext DEF ReadConstraints
    <3> QED BY <3>2, <3>3
  <2>5. supernovaHolds' <=> Good(m + 1)
    <3>1. CASE supernovaHolds
      BY <1>1, <2>2, <2>4, <3>1
    <3>2. CASE ~ supernovaHolds
      <4>1. ~ Good(m)
        BY <2>1, <3>2 DEF SupernovaAt
      <4> QED BY <1>1, <3>2, <4>1, GoodNext
    <3> QED BY <3>1, <3>2
  <2>6. supernovaHolds' => /\ z.commitment = MerkleTreeCommit(z.memory)
                           /\ Tracks(z.memory, m + 1)
    <3> SUFFICES ASSUME supernovaHolds
                 PROVE  /\ z.commitment = MerkleTreeCommit(z.memory)
                        /\ Tracks(z.memory, m + 1)
      BY <1>1
    <3>1. Tracks(z.memory, m) /\ z.commitment = MerkleTreeCommit(z.memory)
      BY <2>1 DEF SupernovaAt
    <3> QED BY <1>2, <2>3, <3>1, ReadTracks
  <2>7. circuit' = (m + 1) + 1 /\ m + 1 \in Nat
    BY <1>1, <2>1
  <2> QED BY <1>4, <2>5, <2>6, <2>7
<1> QED BY <1>2, <1>5, <1>6

LEMMA SupernovaWrite ==
  ASSUME TypeInv, SupernovaInv, Write, UNCHANGED inputs
  PROVE  \E n \in Nat : circuit' = n + 1 /\ SupernovaAt(n)'
<1>1. circuit > 0 /\ circuit \in Nat /\ circuit <= Len(trace) /\ Len(trace) \in Nat
  <2>1. circuit # 0
    BY DEF Write, Folding, CircuitIndex
  <2> QED BY <2>1 DEF TypeInv, TypeOK, Write, Folding
<1>2. PICK m \in Nat : circuit = m + 1 /\ SupernovaAt(m)
  BY <1>1 DEF SupernovaInv
<1>3. m + 1 \in DOMAIN trace /\ CircuitRecord(circuit) = trace[m + 1]
  BY <1>1, <1>2 DEF CircuitRecord, TypeInv, TypeOK
<1>4. trace[m + 1].instruction = 1
  BY <1>1, <1>2, <1>3 DEF Write, SupernovaInv, Instruction
<1>5. PICK memory : memory = NewMemory(z.memory, trace[m + 1])
  OBVIOUS
<1>6. /\ z'.memory = memory /\ z'.commitment = MerkleTreeCommit(memory)
      /\ circuit' = (m + 1) + 1
      /\ supernovaHolds' <=> supernovaHolds /\ trace[m + 1].address \in Cells
  BY <1>2, <1>3, <1>5 DEF Write
<1>7. supernovaHolds' <=> Good(m + 1)
  <2>1. Good(m) <=> supernovaHolds
    BY <1>2 DEF SupernovaAt
  <2>2. Admitted(m + 1) <=> trace[m + 1].address \in Cells
    BY <1>4, WriteAdmitted
  <2> QED BY <1>6, <2>1, <2>2, GoodNext
<1>8. supernovaHolds' => Tracks(memory, m + 1)
  <2> SUFFICES ASSUME supernovaHolds PROVE Tracks(memory, m + 1)
    BY <1>6
  <2>1. Tracks(z.memory, m) /\ z.memory \in Memory
    BY <1>2, StateFields DEF SupernovaAt, TypeInv, TypeOK
  <2> QED BY <1>4, <1>5, <2>1, WriteTracks
<1>9. SupernovaAt(m + 1)'
  <2>1. supernovaHolds' <=> Good(m + 1)'
    BY <1>7, SameInputs
  <2>2. supernovaHolds' => Tracks(memory, m + 1)'
    BY <1>8, SameInputs
  <2>3. supernovaHolds' => Tracks(z.memory, m + 1)'
    BY <1>6, <2>2 DEF Tracks
  <2> QED BY <1>6, <2>1, <2>3 DEF SupernovaAt
<1> QED BY <1>6, <1>9

LEMMA SupernovaInvStep ==
  ASSUME TypeInv, SupernovaInv, [Next]_vars
  PROVE  SupernovaInv'
<1>0. UNCHANGED inputs
  BY DEF Next, NovaTurn, SupernovaTurn, vars, inputs
<1>1. z0' = z0 /\ trace' = trace
  BY <1>0 DEF inputs
<1>2. circuit \in Nat /\ Len(trace) \in Nat
  BY DEF TypeInv, TypeOK
<1>3. ASSUME UNCHANGED <<termination, z, pc, circuit, supernovaHolds>>
      PROVE  /\ circuit' = 0 => z' = z0' /\ supernovaHolds' /\ pc' = 0
             /\ circuit' > 0 => /\ pc' = Instruction(circuit)'
                                /\ \E n \in Nat : circuit' = n + 1 /\ SupernovaAt(n)'
  <2>1. Instruction(circuit)' = Instruction(circuit)
    BY <1>1, <1>3 DEF Instruction
  <2>2. ASSUME circuit > 0
        PROVE  \E n \in Nat : circuit' = n + 1 /\ SupernovaAt(n)'
    <3>1. PICK n \in Nat : circuit = n + 1 /\ SupernovaAt(n)
      BY <2>2 DEF SupernovaInv
    <3>2. PICK memory : memory = z.memory
      OBVIOUS
    <3>3. supernovaHolds => Tracks(memory, n)'
      BY <1>0, <3>1, <3>2, SameInputs DEF SupernovaAt
    <3>4. supernovaHolds' => Tracks(z.memory, n)'
      BY <1>3, <3>2, <3>3 DEF Tracks
    <3>5. Good(n)' <=> Good(n)
      BY <1>0, SameInputs
    <3>6. SupernovaAt(n)'
      BY <1>3, <3>1, <3>4, <3>5 DEF SupernovaAt
    <3> QED BY <1>3, <3>1, <3>6
  <2> QED BY <1>1, <1>3, <2>1, <2>2 DEF SupernovaInv
<1>4. ASSUME pc' = Instruction(circuit + 1), circuit' = circuit + 1,
             termination' = termination, supernova' = "folding",
             \E n \in Nat : circuit' = n + 1 /\ SupernovaAt(n)'
      PROVE  SupernovaInv'
  <2>1. Instruction(circuit)' = Instruction(circuit + 1)
    BY <1>1, <1>4 DEF Instruction
  <2> QED BY <1>2, <1>4, <2>1 DEF SupernovaInv
<1>5. CASE Read
  BY <1>0, <1>4, <1>5, SupernovaRead DEF Read, Folding
<1>6. CASE Write
  BY <1>0, <1>4, <1>6, SupernovaWrite DEF Write, Folding
<1>7. CASE SupernovaNew
  BY <1>3, <1>7 DEF SupernovaNew, SupernovaInv
<1>8. CASE WrongCircuit
  <2>1. Stops(circuit)
    <3>1. circuit > 0
      BY <1>2, <1>8 DEF WrongCircuit, CircuitIndex, SupernovaInv
    <3>2. circuit \in DOMAIN trace
      BY <1>2, <1>8, <3>1 DEF WrongCircuit, TypeInv, TypeOK
    <3>3. pc = trace[circuit].instruction
      BY <3>1, <3>2 DEF SupernovaInv, Instruction
    <3> QED BY <1>8, <3>1, <3>2, <3>3 DEF WrongCircuit, CircuitIndex, Instruction, Stops
  <2>2. Stops(circuit)'
    BY <1>1, <1>8, <2>1 DEF WrongCircuit, Stops
  <2>3. supernova' = "panicked" /\ UNCHANGED <<termination, z, pc, circuit, supernovaHolds>>
    BY <1>8 DEF WrongCircuit
  <2> QED BY <1>3, <2>2, <2>3 DEF SupernovaInv
<1>9. CASE SupernovaVerify
  BY <1>1, <1>3, <1>9 DEF SupernovaVerify, SupernovaInv
<1>10. CASE UNCHANGED supernovaVars
  <2>1. /\ UNCHANGED <<termination, z, pc, circuit, supernovaHolds>> /\ supernova' = supernova
        /\ Stops(circuit)' <=> Stops(circuit)
    BY <1>1, <1>10 DEF supernovaVars, Stops
  <2> QED BY <1>1, <1>3, <2>1 DEF SupernovaInv
<1> QED BY <1>5, <1>6, <1>7, <1>8, <1>9, <1>10
        DEF Next, NovaTurn, SupernovaTurn, SupernovaNext, vars

LEMMA SupernovaInvariant == Spec => []SupernovaInv
<1>1. Init => SupernovaInv
  BY DEF Init, SupernovaInit, SupernovaInv
<1>2. TypeInv /\ SupernovaInv /\ [Next]_vars => SupernovaInv'
  BY SupernovaInvStep
<1> QED BY TypeInvariant, <1>1, <1>2, PTL DEF Spec

\* Whatever satisfies the constraints of SuperNova carries the commitment of
\* its memory from the first circuit on (CommitmentsValid), although write
\* circuits do not check it: WriteCircuit::synthesize.
THEOREM CommitmentsAreValid == Spec => []CommitmentsValid
<1>1. SupernovaInv => CommitmentsValid
  BY DEF SupernovaInv, SupernovaAt, CommitmentsValid
<1> QED BY SupernovaInvariant, <1>1, PTL

\* SuperNova accepts the traces of an array that starts with the committed
\* memory, and no others (SupernovaExact): MemoryConsistencyCircuit::new and the
\* read and write circuits.
THEOREM SupernovaIsExact == Spec => []SupernovaExact
<1>1. TypeInv /\ SupernovaInv => SupernovaExact
  <2> SUFFICES ASSUME TypeInv, SupernovaInv, termination = 2,
                      supernova \in {"accepted", "rejected", "panicked"}
               PROVE  /\ supernova = "accepted" => Consistent
                      /\ supernova \in {"rejected", "panicked"} => ~ Consistent
    BY DEF SupernovaExact
  <2>1. Good(Len(trace)) <=> Consistent
    BY WholeTrace DEF TypeInv
  <2>2. CASE supernova = "panicked"
    BY <2>2 DEF SupernovaInv, Stops, Consistent, Admitted
  <2>3. CASE supernova \in {"accepted", "rejected"}
    <3>1. circuit = Len(trace) + 1 /\ Len(trace) \in Nat
      BY <2>3 DEF SupernovaInv, TypeInv, TypeOK
    <3>2. PICK n \in Nat : circuit = n + 1 /\ SupernovaAt(n)
      BY <3>1 DEF SupernovaInv
    <3>3. n = Len(trace)
      BY <3>1, <3>2
    <3>4. supernovaHolds <=> Good(Len(trace))
      BY <3>2, <3>3 DEF SupernovaAt
    <3> QED BY <2>1, <2>3, <3>4 DEF SupernovaInv
  <2> QED BY <2>2, <2>3
<1> QED BY TypeInvariant, SupernovaInvariant, <1>1, PTL
=============================================================================
