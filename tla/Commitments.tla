---------------------------- MODULE Commitments -----------------------------
(***************************************************************************)
(* The commitment schemes of zkmemory and the crates they rest on, side by *)
(* side: the Poseidon circuit and the Merkle tree on the Poseidon chip,    *)
(* the KZG commitment to trace records and the Verkle tree on the KZG      *)
(* openings.  A behavior is one use of one of them.                        *)
(***************************************************************************)
EXTENDS PoseidonCircuit, MerkleTree, KzgMemory, VerkleTree

VARIABLE scheme     \* the one in use

vars == <<scheme, spongeVars, circuitVars, merkleVars, kzgVars, verkleVars>>

Init ==
  /\ scheme \in {"poseidon", "merkle", "kzg", "verkle"}
  /\ SpongeInit
  /\ CircuitInit
  /\ MerkleInit
  /\ KzgInit
  /\ VerkleInit

UsePoseidon ==
  /\ scheme = "poseidon"
  /\ CircuitNext
  /\ UNCHANGED merkleVars

UseMerkle ==
  /\ scheme = "merkle"
  /\ MerkleNext
  /\ UNCHANGED circuitVars

UseSponge ==
  /\ Hashing
  /\ UNCHANGED <<circuitVars, merkleVars>>

UseKzg ==
  /\ scheme = "kzg"
  /\ KzgNext

UseVerkle ==
  /\ scheme = "verkle"
  /\ VerkleNext

Next ==
  /\ UNCHANGED scheme
  /\ \/ (UsePoseidon \/ UseMerkle \/ UseSponge) /\ UNCHANGED <<kzgVars, verkleVars>>
     \/ UseKzg /\ UNCHANGED <<spongeVars, circuitVars, merkleVars, verkleVars>>
     \/ UseVerkle /\ UNCHANGED <<spongeVars, circuitVars, merkleVars, kzgVars>>

Spec == Init /\ [][Next]_vars

=============================================================================
