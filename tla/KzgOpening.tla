----------------------------- MODULE KzgOpening -----------------------------
(***************************************************************************)
(* create_kzg_proof and verify_kzg_proof.  A polynomial is its values at   *)
(* the points in use (interpolation is one to one), and its commitment is  *)
(* the polynomial itself: the blinding factor is ignored by the scheme, so *)
(* that committing twice gives one point, and two polynomials have two.    *)
(***************************************************************************)
EXTENDS Integers, Sequences

\* The commitment of the zero polynomial is the point at infinity, which a
\* transcript refuses ("Unable to write point").
IsZero(polynomial, zero) == \A p \in DOMAIN polynomial : polynomial[p] = zero

\* A transcript: the commitments, the values, and what the SHPLONK argument is about.
NoProof == [commitments |-> <<>>, evals |-> <<>>, points |-> <<>>, polynomials |-> <<>>]

\* Does create_kzg_proof panic?  The assertion compares the polynomials with the
\* commitments, the loop takes a polynomial for every point.
CannotProve(points, polynomials, commitments, zero) ==
  \/ Len(polynomials) # Len(commitments)
  \/ Len(points) > Len(polynomials)
  \/ \E i \in DOMAIN commitments : IsZero(commitments[i], zero)

CreateKzgProof(points, polynomials, commitments) ==
  [commitments |-> commitments,
   evals |-> [i \in DOMAIN points |-> polynomials[i][points[i]]],
   points |-> points,
   polynomials |-> [i \in DOMAIN points |-> polynomials[i]]]

\* "Unable to read point", "Unable to read scalar": the proof ends too early.
CannotRead(points, proof) == Len(proof.commitments) < Len(points)

\* SHPLONK: the committed polynomials have the values at the points, and the
\* argument is about these polynomials and points.
Shplonk(points, evals, commitments, proof) ==
  /\ proof.points = points
  /\ \A i \in DOMAIN points :
       /\ proof.polynomials[i] = commitments[i]
       /\ commitments[i][points[i]] = evals[i]

\* Mutant of VerifyKzgProof: the commitments of the proof are taken as they are.
VerifyKzgProofUnbound(points, evals, commitments, proof) ==
  /\ \A i \in DOMAIN points : evals[i] = proof.evals[i]
  /\ Shplonk(points, evals, proof.commitments, proof)

\* verify_kzg_proof: the commitments and values are those of the proof, and hold.
VerifyKzgProof(points, evals, commitments, proof) ==
  /\ \A i \in DOMAIN points :
       commitments[i] = proof.commitments[i] /\ evals[i] = proof.evals[i]
  /\ Shplonk(points, evals, proof.commitments, proof)
=============================================================================
