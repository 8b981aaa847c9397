-------------------------- MODULE PoseidonCircuit ---------------------------
(***************************************************************************)
(* PoseidonCircuit and PoseidonProver: a message and a claimed output are  *)
(* witnessed, the chip hashes the message, and the output is constrained   *)
(* to the squeezed word.                                                   *)
(***************************************************************************)
EXTENDS PoseidonSponge

CONSTANTS
  Messages, Outputs     \* what a prover is created with

ASSUME MessageAssumption ==
  /\ Messages \subseteq Seq(Field)
  /\ 0 .. Width \subseteq DOMAIN Capacity

VARIABLES
  circuit,      \* [message, output, expected] of the prover
  verified      \* what verify answered: does the proof do what was expected?

circuitVars == <<circuit, verified>>

NoCircuit == [message |-> <<>>, output |-> 0, expected |-> TRUE]

CircuitInit == circuit = NoCircuit /\ verified = "none"

Both(message) == [i \in 1 .. Len(message) |-> [chip |-> message[i], native |-> message[i]]]

\* PoseidonProver::new and synthesize up to the hash.
NewProver(message, output, expected) ==
  /\ hashing = "idle" /\ verified = "none"
  /\ Len(message) <= Width
  /\ circuit' = [message |-> message, output |-> output, expected |-> expected]
  /\ StartHash(Both(message))
  /\ verified' = "pending"

\* "load message": a message has as many columns as the state has words.
MessageTooLong(message, output, expected) ==
  /\ hashing = "idle" /\ verified = "none"
  /\ Len(message) > Width
  /\ circuit' = [message |-> message, output |-> output, expected |-> expected]
  /\ verified' = "panicked"
  /\ UNCHANGED spongeVars

Outcome(satisfied, expected) == IF satisfied = expected THEN "expected" ELSE "unexpected"

\* "constrain output", create_proof and verify of the prover.
ConstrainOutput ==
  /\ verified = "pending"
  /\ hashing = "squeeze"
  /\ verified' = Outcome(gates /\ Squeezed.chip = circuit.output, circuit.expected)
  /\ UNCHANGED <<circuit, spongeVars>>

CircuitNext ==
  \/ \E message \in Messages, output \in Outputs, expected \in BOOLEAN :
       NewProver(message, output, expected) \/ MessageTooLong(message, output, expected)
  \/ ConstrainOutput

-----------------------------------------------------------------------------
\* The proof is as expected exactly if the claimed output is the native hash of the
\* message, whatever its length and padding; the empty message has no hash
\* (PoseidonProver::verify, the test poseidon_hash).
ProofTellsTheHash ==
  /\ verified = "expected" => (circuit.expected <=> circuit.output = Squeezed.native)
  /\ verified = "unexpected" => (circuit.expected <=> circuit.output # Squeezed.native)
  /\ hashing = "panicked" => circuit.message = <<>>
=============================================================================
