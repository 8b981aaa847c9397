----------------------------- MODULE MerkleTree -----------------------------
(***************************************************************************)
(* The Merkle tree of commitment/merkle_tree.rs: the circuit walks a path  *)
(* up to the root and hashes every level with the Poseidon chip, the       *)
(* native merkle_tree_commit_fp hashes the same path; the prover and the   *)
(* CommitmentScheme compare the two with what they are given.              *)
(***************************************************************************)
EXTENDS PoseidonSponge

CONSTANTS
  Leaves, Elements, Indices,    \* the words of a witness
  MaxLevels                     \* the longest path

\* Prime is one: a product vanishes only with a factor.
ASSUME MerkleAssumption ==
  /\ \A x, y \in Field : (x * y) % Prime = 0 => x = 0 \/ y = 0
  /\ Leaves \cup Elements \cup Indices \subseteq Field
  /\ 2 \in DOMAIN Capacity

VARIABLES
  path,         \* MerkleWitness: leaf, elements and indices
  level,        \* levels walked
  digest,       \* the running digest, of the circuit and of merkle_tree_commit_fp
  swaps,        \* do the swap gates hold on all levels?
  opened,       \* what the prover or the scheme answered
  claim         \* the public inputs, or the opening and the commitment, it was given

merkleVars == <<path, level, digest, swaps, opened, claim>>

Witnesses ==
  [leaf : Leaves,
   elements : UNION {[1 .. n -> Elements] : n \in 0 .. MaxLevels},
   indices : UNION {[1 .. n -> Indices] : n \in 0 .. MaxLevels}]

NoWitness == [leaf |-> 0, elements |-> <<>>, indices |-> <<>>]
NoClaim == [leaf |-> 0, opening |-> <<>>, root |-> 0]

MerkleInit ==
  /\ path = NoWitness
  /\ level = 0
  /\ digest = [chip |-> 0, native |-> 0]
  /\ swaps = TRUE
  /\ opened = "none"
  /\ claim = NoClaim

\* MerkleTreeProver::new: the leaf is the first running digest.
NewPath(witness) ==
  /\ hashing = "idle" /\ opened = "none"
  /\ Len(witness.indices) = Len(witness.elements)
  /\ path' = witness
  /\ digest' = [chip |-> witness.leaf, native |-> witness.leaf]
  /\ opened' = "walk"
  /\ UNCHANGED <<level, swaps, claim, spongeVars>>

\* The assertion that begins synthesize.
LengthsDiffer(witness) ==
  /\ hashing = "idle" /\ opened = "none"
  /\ Len(witness.indices) # Len(witness.elements)
  /\ path' = witness
  /\ opened' = "panicked"
  /\ UNCHANGED <<level, digest, swaps, claim, spongeVars>>

\* The inputs of a level's hash: the running digest is the left child for index 0.
Children(index, node, element) ==
  IF index = 0 THEN <<node, element>> ELSE <<element, node>>

\* The gate "boolean index bit and conditional swap".
SwapGate(bit, node, element, left, right) ==
  /\ (bit * (1 - bit)) % Prime = 0
  /\ (left - (node + bit * (element - node))) % Prime = 0
  /\ (right - (element + bit * (node - element))) % Prime = 0

\* One level of synthesize and of merkle_tree_commit_fp, up to their hashes.
Level ==
  LET index == path.indices[level + 1]
      element == path.elements[level + 1]
      inputs == Children(index, digest.chip, element)
      message == Children(index, digest.native, element)
  IN
  /\ opened = "walk"
  /\ hashing = "idle"
  /\ level < Len(path.indices)
  /\ swaps' = (swaps /\ SwapGate(index, digest.chip, element, inputs[1], inputs[2]))
  /\ StartHash([i \in 1 .. 2 |-> [chip |-> inputs[i], native |-> message[i]]])
  /\ UNCHANGED <<path, level, digest, opened, claim>>

\* Mutant of LevelDone: the circuit goes on with the digest of the level below.
LevelDoneSameDigest ==
  /\ opened = "walk"
  /\ hashing = "squeeze"
  /\ digest' = [digest EXCEPT !.native = Squeezed.native]
  /\ level' = level + 1
  /\ hashing' = "idle"
  /\ UNCHANGED <<path, swaps, opened, claim, words, mode, native, chip, row, gates>>

LevelDone ==
  /\ opened = "walk"
  /\ hashing = "squeeze"
  /\ digest' = Squeezed
  /\ level' = level + 1
  /\ hashing' = "idle"
  /\ UNCHANGED <<path, swaps, opened, claim, words, mode, native, chip, row, gates>>

Answer(yes) == IF yes THEN "accepted" ELSE "refused"

\* create_proof for the leaf and the native root, and verify with public inputs:
\* a proof is good for its own instance, and if the circuit is satisfied on it.
VerifyProof(leaf, root) ==
  /\ opened = "walk"
  /\ hashing = "idle"
  /\ level = Len(path.indices)
  /\ opened' = Answer(/\ <<leaf, root>> = <<path.leaf, digest.native>>
                      /\ digest.chip = root
                      /\ swaps /\ gates)
  /\ claim' = [leaf |-> leaf, opening |-> <<>>, root |-> root]
  /\ UNCHANGED <<path, level, digest, swaps, spongeVars>>

\* verify of the CommitmentScheme: the opening has to be the witness's own nodes.
VerifyOpening(opening, commitment) ==
  /\ opened = "walk"
  /\ hashing = "idle"
  /\ level = Len(path.indices)
  /\ opened' = IF opening = path.elements /\ commitment = digest.native
               THEN "valid" ELSE "invalid"
  /\ claim' = [NoClaim EXCEPT !.opening = opening, !.root = commitment]
  /\ UNCHANGED <<path, level, digest, swaps, spongeVars>>

MerkleNext ==
  \/ \E witness \in Witnesses : NewPath(witness) \/ LengthsDiffer(witness)
  \/ Level
  \/ LevelDone
  \/ \E leaf \in Leaves, root \in Field : VerifyProof(leaf, root)
  \/ \E n \in 0 .. MaxLevels, root \in Field :
       \E opening \in [1 .. n -> Elements] : VerifyOpening(opening, root)

-----------------------------------------------------------------------------
\* The digest of two nodes as the test poseidon_hash of the crate states it.
TwoToOne(left, right) ==
  Permute([i \in Index |-> CASE i = 0 -> left [] i = 1 -> right [] OTHER -> Capacity[2]])[0]

RootOf(witness) ==
  LET up[n \in 0 .. Len(witness.elements)] ==
        IF n = 0 THEN witness.leaf
        ELSE IF witness.indices[n] = 0
        THEN TwoToOne(up[n - 1], witness.elements[n])
        ELSE TwoToOne(witness.elements[n], up[n - 1])
  IN up[Len(witness.elements)]

\* Does a witness lead from a leaf to a root along bits?
IsBinary(witness) == \A i \in DOMAIN witness.indices : witness.indices[i] \in {0, 1}

\* The prover's proof is accepted exactly for the leaf of the path and the root that the
\* path hashes to, if the indices are bits; the CommitmentScheme accepts exactly the
\* path's own nodes and that root, and takes every other index for a 1
\* (MerkleTreeProver::verify, verify of the CommitmentScheme).
PathIsProved ==
  /\ opened \in {"accepted", "refused"} =>
       (opened = "accepted" <=>
          IsBinary(path) /\ claim.leaf = path.leaf /\ claim.root = RootOf(path))
  /\ opened \in {"valid", "invalid"} =>
       (opened = "valid" <=> claim.opening = path.elements /\ claim.root = RootOf(path))
=============================================================================
