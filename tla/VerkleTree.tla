----------------------------- MODULE VerkleTree -----------------------------
(***************************************************************************)
(* The Verkle tree circuit, which the crates zkmemory and verkletree both  *)
(* have: create_verkle_tree_proof builds a path, a witness may be changed  *)
(* as the tests change it, synthesize assigns a row for every level and    *)
(* the outcome of the KZG verification, and verify is given a leaf and a   *)
(* root.  The hash of a commitment is a label, one for each polynomial.    *)
(***************************************************************************)
EXTENDS KzgOpening

CONSTANTS
  Arity,            \* A: children of a node
  Scalars,          \* the values of leaves and of siblings
  Positions,        \* indices a witness may have, also such as are out of range
  LowByte,          \* to_bytes()[0] of a position
  MaxDepth          \* the longest path

\* OMEGA_POWER has one point more than a node has children.
Points == 0 .. Arity

ASSUME VerkleAssumption ==
  /\ Arity \in Nat \ {0}
  /\ 0 .. Arity - 1 \subseteq Positions
  /\ \A i \in Positions : LowByte[i] \in Nat /\ (i \in Points => LowByte[i] = i)

VARIABLES
  verkle,       \* what the prover does next
  nodes,        \* the polynomials of the parents, from the leaf up
  vwitness,     \* VerkleTreeCircuit: leaf, commitments, proof, path_elements, indices
  vrow,         \* rows assigned
  holds,        \* do the gates and lookups hold on them?
  instance      \* the leaf and the root that verify is given

verkleVars == <<verkle, nodes, vwitness, vrow, holds, instance>>

Scalar(n) == <<"scalar", n>>
Zero == Scalar(0)

\* group_to_scalar, and the hash in assign.
Label(commitment) == <<"label", commitment>>

NoVerkleWitness ==
  [leaf |-> Zero, commitments |-> <<>>, proof |-> NoProof, elements |-> <<>>, indices |-> <<>>]

VerkleInit ==
  /\ verkle = "none"
  /\ nodes = <<>>
  /\ vwitness = NoVerkleWitness
  /\ vrow = 0
  /\ holds = TRUE
  /\ instance = <<Zero, Zero>>

\* poly_from_evals: the path's child at its index, the others and the point beyond
\* the children have the value of a sibling.
PolyFromEvals(child, index, sibling) ==
  [p \in Points |-> IF p = index THEN child ELSE Scalar(sibling)]

\* create_verkle_tree_proof: the leaf.
PlantLeaf(leaf) ==
  /\ verkle = "none"
  /\ vwitness' = [vwitness EXCEPT !.leaf = Scalar(leaf)]
  /\ verkle' = "grow"
  /\ UNCHANGED <<nodes, vrow, holds, instance>>

LastOr(s, default) == IF s = <<>> THEN default ELSE s[Len(s)]

\* One turn of its loop: the parent of the node reached so far.
Grow(index, sibling) ==
  LET poly == PolyFromEvals(LastOr(vwitness.elements, vwitness.leaf), index, sibling) IN
  /\ verkle = "grow"
  /\ Len(nodes) < MaxDepth
  /\ nodes' = Append(nodes, poly)
  /\ vwitness' = [vwitness EXCEPT !.commitments = Append(@, poly),
                                  !.elements = Append(@, Label(poly)),
                                  !.indices = Append(@, index)]
  /\ UNCHANGED <<verkle, vrow, holds, instance>>

\* kzg.create_proof: for the path's polynomials and points, or as the tests make it,
\* for another polynomial or another point at the first level.
MakeProof(polynomials, points) ==
  /\ verkle = "grow"
  /\ IF CannotProve(points, polynomials, nodes, Zero)
     THEN verkle' = "panicked" /\ UNCHANGED vwitness
     ELSE /\ vwitness' = [vwitness EXCEPT !.proof = CreateKzgProof(points, polynomials, nodes)]
          /\ verkle' = "witness"
  /\ UNCHANGED <<nodes, vrow, holds, instance>>

\* A witness whose path element or index is not that of the path.
Alter(i, element, index) ==
  /\ verkle = "witness"
  /\ vwitness' = [vwitness EXCEPT !.elements[i] = element, !.indices[i] = index]
  /\ UNCHANGED <<verkle, nodes, vrow, holds, instance>>

Cut ==
  /\ verkle = "witness"
  /\ vwitness' = [vwitness EXCEPT !.proof = NoProof]
  /\ verkle' = "circuit"
  /\ UNCHANGED <<nodes, vrow, holds, instance>>

\* Mutant of NodeOf: the path element of the row's own level.
NodeOfAbove(i) == IF i = 1 THEN vwitness.leaf ELSE vwitness.elements[i]

\* The node of a row: the leaf, and then the path elements below the last.
NodeOf(i) == IF i = 1 THEN vwitness.leaf ELSE vwitness.elements[i - 1]

\* Mutant of PreviousIsCurrent: the selector is off in the second row.
PreviousIsCurrentLater(i) ==
  i > 2 => Label(vwitness.commitments[i - 1]) = NodeOf(i)

\* The gate "previous commit is equal to current"; its selector is on from the second row.
PreviousIsCurrent(i) ==
  i > 1 => Label(vwitness.commitments[i - 1]) = NodeOf(i)

\* The lookup "indices must be in 0..A".
InTable(index) == index \in 0 .. Arity - 1

\* synthesize: assign of one level.
AssignLevel ==
  /\ verkle \in {"witness", "circuit"}
  /\ vrow < Len(vwitness.elements)
  /\ vrow' = vrow + 1
  /\ holds' = (holds /\ PreviousIsCurrent(vrow + 1) /\ InTable(vwitness.indices[vrow + 1]))
  /\ verkle' = "circuit"
  /\ UNCHANGED <<nodes, vwitness, instance>>

PointList == [i \in DOMAIN vwitness.indices |-> LowByte[vwitness.indices[i]]]
PolyList == [i \in DOMAIN vwitness.elements |-> NodeOf(i)]

\* The slice of an empty path, an index beyond OMEGA_POWER, a proof cut short.
CannotCheck ==
  \/ vwitness.elements = <<>>
  \/ \E i \in DOMAIN PointList : PointList[i] \notin Points
  \/ CannotRead(PointList, vwitness.proof)

\* "assign check result" and the gate "verification result should be valid".
CheckOpening ==
  /\ verkle \in {"witness", "circuit"}
  /\ vrow = Len(vwitness.elements)
  /\ IF CannotCheck
     THEN verkle' = "panicked" /\ UNCHANGED holds
     ELSE /\ holds' = (holds /\ VerifyKzgProof(PointList, PolyList, vwitness.commitments,
                                               vwitness.proof))
          /\ verkle' = "synthesized"
  /\ UNCHANGED <<nodes, vwitness, vrow, instance>>

\* create_proof and verify, for the instance <<leaf, root>>.
VerifyVerkle(leaf, root) ==
  /\ verkle = "synthesized"
  /\ instance' = <<leaf, root>>
  /\ verkle' = IF holds /\ vwitness.leaf = leaf /\ LastOr(vwitness.elements, Zero) = root
               THEN "accepted" ELSE "refused"
  /\ UNCHANGED <<nodes, vwitness, vrow, holds>>

HonestPoints == [i \in DOMAIN nodes |-> vwitness.indices[i]]

VerkleNext ==
  \/ \E leaf \in Scalars : PlantLeaf(leaf)
  \/ \E index \in 0 .. Arity - 1, sibling \in Scalars : Grow(index, sibling)
  \/ MakeProof(nodes, HonestPoints)
  \/ \E i \in DOMAIN nodes, p \in Points, n \in Scalars :
       \/ MakeProof(nodes, [HonestPoints EXCEPT ![i] = p])
       \/ MakeProof([nodes EXCEPT ![i] = [@ EXCEPT ![p] = Scalar(n)]], HonestPoints)
  \/ \E i \in DOMAIN nodes, n \in Scalars : Alter(i, Scalar(n), vwitness.indices[i])
  \/ \E i \in DOMAIN nodes, index \in Positions : Alter(i, vwitness.elements[i], index)
  \/ Cut
  \/ AssignLevel
  \/ CheckOpening
  \/ \E leaf \in Scalars, root \in {Zero, Scalar(1), LastOr(vwitness.elements, Zero)} :
       VerifyVerkle(Scalar(leaf), root)

-----------------------------------------------------------------------------
\* An accepted path leads from the leaf up: the first commitment opens to the leaf at the
\* first index, and every other one at its index to the label of the commitment below;
\* the indices are those of children.
PathIsOpen ==
  verkle = "accepted" =>
    /\ \A i \in DOMAIN nodes :
         /\ vwitness.indices[i] \in 0 .. Arity - 1
         /\ nodes[i][vwitness.indices[i]] = IF i = 1 THEN instance[1] ELSE Label(nodes[i - 1])
    /\ instance[2] = vwitness.elements[Len(nodes)]

\* The path that create_verkle_tree_proof builds is accepted for its leaf and its root,
\* and refused for others (test_valid_verkle_tree, wrong_verkle_root, wrong_verkle_leaf).
HonestPathIsAccepted ==
  /\ verkle \in {"accepted", "refused"}
  /\ \A i \in DOMAIN nodes :
       /\ vwitness.elements[i] = Label(nodes[i])
       /\ vwitness.indices[i] \in 0 .. Arity - 1
       /\ nodes[i][vwitness.indices[i]] = IF i = 1 THEN vwitness.leaf ELSE Label(nodes[i - 1])
  /\ vwitness.proof = CreateKzgProof(HonestPoints, nodes, nodes)
  => (verkle = "accepted" <=> instance = <<vwitness.leaf, Label(nodes[Len(nodes)])>>)
=============================================================================
