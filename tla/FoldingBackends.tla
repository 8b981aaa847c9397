-------------------------- MODULE FoldingBackends --------------------------
(***************************************************************************)
(* One trace proved with Nova and then with SuperNova.  The backends share *)
(* the inputs and nothing else.                                            *)
(***************************************************************************)
EXTENDS NovaMemory, SupernovaMemory

vars == <<inputs, novaVars, supernovaVars>>

Commitments == {MerkleTreeCommit(m) : m \in Memory}

Init ==
  /\ z0 \in [memory : Memory, commitment : Commitments]
  /\ trace \in Traces
  /\ NovaInit
  /\ SupernovaInit

NovaTurn == NovaNext /\ UNCHANGED <<inputs, supernovaVars>>

SupernovaTurn ==
  /\ nova \in {"accepted", "rejected", "panicked"}
  /\ SupernovaNext
  /\ UNCHANGED <<inputs, novaVars>>

Next == NovaTurn \/ SupernovaTurn

Spec == Init /\ [][Next]_vars

-----------------------------------------------------------------------------
Verdicts == {"new", "folding", "accepted", "rejected", "panicked"}
States == [memory : Memory, commitment : Commitments]

\* Records and circuits are counted within the trace, and the state that is
\* folded is a memory of the same length with a commitment (the assertions on
\* z_in.len(), z_out.len()).
TypeOK ==
  /\ z0 \in States /\ z_out \in States /\ z \in States
  /\ trace \in Seq(TraceRecord) \ {<<>>}
  /\ nova \in Verdicts /\ supernova \in Verdicts
  /\ novaHolds \in BOOLEAN /\ supernovaHolds \in BOOLEAN
  /\ step \in 0 .. Steps /\ iteration \in 0 .. NumIters
  /\ step = Steps => iteration = 0
  /\ circuit \in 0 .. Len(trace) + 1
  /\ pc \in Operations \cup {0} /\ termination \in Operations

\* "By induction, we can prove that the commitments are valid in all steps":
\* SuperNova's write circuit does not check the commitment, and yet whatever
\* satisfies the constraints has the commitment of its memory, from the first
\* circuit on (ReadCircuit::synthesize, WriteCircuit::synthesize).
CommitmentsValid ==
  circuit > 0 /\ supernovaHolds => z.commitment = MerkleTreeCommit(z.memory)

\* Nova accepts a trace if it is the trace of an array that starts with the
\* given memory, and the commitment is that of this memory, and not otherwise,
\* however its records are grouped into steps.
NovaExact ==
  Len(trace) % NumIters = 0 =>
    /\ nova = "accepted" => Consistent
    /\ nova \in {"rejected", "panicked"} => ~ Consistent

\* The same of SuperNova, which runs a circuit per instruction and stops at one
\* that is neither a read nor a write.
SupernovaExact ==
  termination = 2 =>
    /\ supernova = "accepted" => Consistent
    /\ supernova \in {"rejected", "panicked"} => ~ Consistent
=============================================================================
