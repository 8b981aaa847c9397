------------------------- MODULE CommitmentsProofs -------------------------
(***************************************************************************)
(* Theorems about Commitments for every field and Poseidon permutation,    *)
(* every trace record, every arity and every depth of a tree.              *)
(***************************************************************************)
EXTENDS Commitments, SequenceTheorems, WellFoundedInduction, TLAPS

-----------------------------------------------------------------------------
(***************************************************************************)
(* The KZG commitment to a trace record.                                   *)
(***************************************************************************)
LEMMA Opened ==
  /\ DOMAIN OpenedPoints = 1 .. 5 /\ Len(OpenedPoints) = 5
  /\ \A i \in 1 .. 5 : OpenedPoints[i] = i - 1
BY DEF OpenedPoints

\* The five values tell two records apart.
LEMMA FieldsBindRecord ==
  ASSUME NEW a \in Records, NEW b \in Records,
         \A p \in 0 .. 4 : TraceToField(a)[p] = TraceToField(b)[p]
  PROVE  a = b
<1>1. /\ TraceToField(a)[0] = a.time /\ TraceToField(a)[1] = a.depth
      /\ TraceToField(a)[2] = (IF a.instruction = "Write" THEN 1 ELSE 0)
      /\ TraceToField(a)[3] = a.address /\ TraceToField(a)[4] = a.value
  BY DEF TraceToField
<1>2. /\ TraceToField(b)[0] = b.time /\ TraceToField(b)[1] = b.depth
      /\ TraceToField(b)[2] = (IF b.instruction = "Write" THEN 1 ELSE 0)
      /\ TraceToField(b)[3] = b.address /\ TraceToField(b)[4] = b.value
  BY DEF TraceToField
<1>3. /\ TraceToField(a)[0] = TraceToField(b)[0] /\ TraceToField(a)[1] = TraceToField(b)[1]
      /\ TraceToField(a)[2] = TraceToField(b)[2] /\ TraceToField(a)[3] = TraceToField(b)[3]
      /\ TraceToField(a)[4] = TraceToField(b)[4]
  OBVIOUS
<1>4. a.time = b.time /\ a.depth = b.depth /\ a.address = b.address /\ a.value = b.value
  BY <1>1, <1>2, <1>3
<1>5. a.instruction = b.instruction
  BY <1>1, <1>2, <1>3 DEF Records
<1> QED
  BY <1>4, <1>5 DEF Records

\* An opening of record with the commitment to other.
OpeningOf(record, other) ==
  CreateKzgProof(OpenedPoints, Five(TraceToField(record)), Five(TraceToField(other)))

LEMMA OpeningParts ==
  ASSUME NEW record, NEW other
  PROVE  LET proof == OpeningOf(record, other) IN
         /\ proof.points = OpenedPoints
         /\ \A i \in 1 .. 5 : /\ proof.commitments[i] = TraceToField(other)
                              /\ proof.polynomials[i] = TraceToField(record)
                              /\ proof.evals[i] = TraceToField(record)[i - 1]
BY Opened DEF OpeningOf, CreateKzgProof, Five

\* verify_trace_record, of record, with the published commitment to mine, of an
\* opening of a record that was made with the commitment to other.
LEMMA OpeningVerified ==
  ASSUME NEW record \in Records, NEW mine \in Records, NEW other \in Records,
         NEW opening \in Records
  PROVE  VerifyKzgProof(OpenedPoints, [i \in 1 .. 8 |-> TraceToField(record)[i - 1]],
                        Five(TraceToField(mine)), OpeningOf(opening, other))
         <=> mine = other /\ opening = mine /\ record = opening
<1> DEFINE proof == OpeningOf(opening, other)
           evals == [i \in 1 .. 8 |-> TraceToField(record)[i - 1]]
           commitments == Five(TraceToField(mine))
           Verified == VerifyKzgProof(OpenedPoints, evals, commitments, proof)
<1>1. /\ proof.points = OpenedPoints
      /\ \A i \in 1 .. 5 : /\ proof.commitments[i] = TraceToField(other)
                           /\ proof.polynomials[i] = TraceToField(opening)
                           /\ proof.evals[i] = TraceToField(opening)[i - 1]
  BY OpeningParts
<1>2. \A i \in 1 .. 5 : evals[i] = TraceToField(record)[i - 1]
                        /\ commitments[i] = TraceToField(mine)
  BY DEF Five
<1> HIDE DEF proof, evals, commitments
<1>3. Verified <=>
        /\ \A i \in 1 .. 5 : /\ TraceToField(mine) = TraceToField(other)
                             /\ TraceToField(record)[i - 1] = TraceToField(opening)[i - 1]
        /\ \A i \in 1 .. 5 : /\ TraceToField(opening) = TraceToField(other)
                             /\ TraceToField(other)[i - 1] = TraceToField(opening)[i - 1]
  BY <1>1, <1>2, Opened DEF VerifyKzgProof, Shplonk
<1>4. ASSUME Verified
      PROVE  mine = other /\ opening = mine /\ record = opening
  <2>1. 1 \in 1 .. 5
    OBVIOUS
  <2>2. TraceToField(mine) = TraceToField(other) /\ TraceToField(opening) = TraceToField(other)
    BY <1>3, <1>4, <2>1
  <2>3. \A i \in 1 .. 5 : TraceToField(record)[i - 1] = TraceToField(opening)[i - 1]
    BY <1>3, <1>4
  <2>4. \A p \in 0 .. 4 : p + 1 \in 1 .. 5 /\ (p + 1) - 1 = p
    OBVIOUS
  <2>5. \A p \in 0 .. 4 : TraceToField(record)[p] = TraceToField(opening)[p]
    BY <2>3, <2>4
  <2> QED
    BY <2>2, <2>5, FieldsBindRecord
<1>5. mine = other /\ opening = mine /\ record = opening => Verified
  BY <1>3
<1> QED
  BY <1>4, <1>5 DEF proof, evals, commitments

\* What the scheme keeps between its calls: the proof is an opening of the record
\* shown, made with the published commitment or with the record's own.
KzgInv ==
  /\ kzg \in {"committed", "shown"} => committed \in Records
  /\ kzg = "shown" =>
       /\ shown \in Records
       /\ kzgProof = OpeningOf(shown, committed) \/ kzgProof = OpeningOf(shown, shown)
  /\ RecordIsBound

LEMMA ProveKept ==
  ASSUME KzgInv, NEW record \in Records,
         \/ ProveTraceRecord(record, TraceToField(committed))
         \/ Open(record)
  PROVE  KzgInv'
<1>1. CASE KzgPanic
  BY <1>1 DEF KzgPanic, KzgInv, RecordIsBound
<1>2. CASE ~ KzgPanic
  <2>1. /\ kzg = "committed" /\ kzg' = "shown" /\ committed' = committed /\ shown' = record
        /\ kzgProof' = OpeningOf(record, committed) \/ kzgProof' = OpeningOf(record, record)
    BY <1>2 DEF Open, ProveTraceRecord, OpeningOf
  <2> QED
    BY <2>1 DEF KzgInv, RecordIsBound
<1> QED
  BY <1>1, <1>2

LEMMA NothingToRead == CannotRead(OpenedPoints, NoProof)
BY Opened DEF CannotRead, NoProof

LEMMA VerifyKept ==
  ASSUME KzgInv, NEW record \in Records, NEW proof \in {kzgProof, NoProof},
         VerifyTraceRecord(record, proof)
  PROVE  KzgInv'
<1>1. CASE KzgPanic
  BY <1>1 DEF KzgPanic, KzgInv, RecordIsBound
<1>2. CASE ~ KzgPanic
  <2>1. /\ kzg = "shown" /\ checked' = record /\ UNCHANGED <<committed, shown, kzgProof>>
        /\ proof = kzgProof
    BY <1>2, NothingToRead DEF VerifyTraceRecord
  <2>2. kzg' = IF VerifyKzgProof(OpenedPoints, [i \in 1 .. 8 |-> TraceToField(record)[i - 1]],
                                 Five(TraceToField(committed)), kzgProof)
               THEN "verified" ELSE "rejected"
    BY <1>2, <2>1 DEF VerifyTraceRecord
  <2>3. PICK other \in {committed, shown} : kzgProof = OpeningOf(shown, other)
    BY <2>1 DEF KzgInv
  <2>4. committed \in Records /\ shown \in Records
    BY <2>1 DEF KzgInv
  <2>5. kzg' = IF committed = other /\ shown = committed /\ record = shown
               THEN "verified" ELSE "rejected"
    BY <2>2, <2>3, <2>4, OpeningVerified
  <2> QED
    BY <2>1, <2>3, <2>5 DEF KzgInv, RecordIsBound
<1> QED
  BY <1>1, <1>2

LEMMA KzgInvInit == KzgInit => KzgInv
BY DEF KzgInit, KzgInv, RecordIsBound

LEMMA KzgInvStep == KzgInv /\ [KzgNext]_kzgVars => KzgInv'
<1> SUFFICES ASSUME KzgInv, [KzgNext]_kzgVars PROVE KzgInv'
  OBVIOUS
<1>1. CASE UNCHANGED kzgVars
  BY <1>1 DEF kzgVars, KzgInv, RecordIsBound
<1>2. ASSUME NEW record \in Records, CommitTrace(record) PROVE KzgInv'
  BY <1>2 DEF CommitTrace, KzgPanic, KzgInv, RecordIsBound
<1> QED
  BY <1>1, <1>2, ProveKept, VerifyKept DEF KzgNext

\* The step of the scheme in use is a step of the KZG commitment or leaves it alone.
LEMMA KzgSteps == [Next]_vars => [KzgNext]_kzgVars
BY DEF Next, vars, UseKzg

\* A commitment is opened as the record that was committed to and as no other,
\* for every modulus and every trace record, whatever record and commitment the
\* prover takes and whatever record it is verified with (RecordIsBound).
THEOREM RecordAlwaysBound == Spec => []RecordIsBound
<1>1. Init => KzgInv
  BY KzgInvInit DEF Init
<1>2. KzgInv /\ [Next]_vars => KzgInv'
  BY KzgInvStep, KzgSteps
<1>3. KzgInv => RecordIsBound
  BY DEF KzgInv
<1> QED
  BY <1>1, <1>2, <1>3, PTL DEF Spec

-----------------------------------------------------------------------------
(***************************************************************************)
(* The Verkle tree.                                                        *)
(***************************************************************************)

\* A list: what a sequence is, whatever its elements are.
IsList(s) == s \in Seq({s[i] : i \in DOMAIN s})

LEMMA ListDomain ==
  ASSUME NEW s, IsList(s)
  PROVE  Len(s) \in Nat /\ DOMAIN s = 1 .. Len(s)
BY DEF IsList

LEMMA AppendList ==
  ASSUME NEW s, IsList(s), NEW x
  PROVE  /\ IsList(Append(s, x)) /\ Len(Append(s, x)) = Len(s) + 1
         /\ \A i \in 1 .. Len(s) : Append(s, x)[i] = s[i]
         /\ Append(s, x)[Len(s) + 1] = x
<1> DEFINE S == {s[i] : i \in DOMAIN s} \cup {x}
           t == Append(s, x)
<1>1. s \in Seq(S)
  <2>1. {s[i] : i \in DOMAIN s} \subseteq S
    OBVIOUS
  <2> QED
    BY <2>1, SeqDef DEF IsList
<1>2. /\ t \in Seq(S) /\ Len(t) = Len(s) + 1
      /\ \A i \in 1 .. Len(s) : t[i] = s[i]
      /\ t[Len(s) + 1] = x
  BY <1>1, AppendProperties
<1>3. t \in Seq({t[i] : i \in DOMAIN t})
  <2> HIDE DEF t, S
  <2>1. t \in [1 .. Len(t) -> {t[i] : i \in DOMAIN t}] /\ Len(t) \in Nat
    BY <1>2
  <2> QED
    BY <2>1, SeqDef
<1> QED
  BY <1>2, <1>3 DEF IsList

LEMMA UpdateList ==
  ASSUME NEW s, IsList(s), NEW k, NEW x
  PROVE  IsList([s EXCEPT ![k] = x]) /\ Len([s EXCEPT ![k] = x]) = Len(s)
<1> DEFINE t == [s EXCEPT ![k] = x]
<1>1. DOMAIN t = 1 .. Len(s) /\ Len(s) \in Nat
  BY ListDomain
<1>2. t \in [1 .. Len(s) -> {t[i] : i \in DOMAIN t}]
  BY <1>1
<1> HIDE DEF t
<1>3. t \in Seq({t[i] : i \in DOMAIN t})
  BY <1>1, <1>2, SeqDef
<1>4. Len(t) = Len(s)
  BY <1>1, <1>3
<1>5. IsList(t) /\ Len(t) = Len(s)
  BY <1>3, <1>4 DEF IsList
<1> QED
  BY <1>5 DEF t

LEMMA EmptyList == IsList(<<>>)
BY DEF IsList

VerklePcs == {"none", "grow", "witness", "circuit", "synthesized", "accepted", "refused",
              "panicked"}

\* The witness is a record with these fields.
WitnessFields ==
  vwitness = [leaf |-> vwitness.leaf, commitments |-> vwitness.commitments,
              proof |-> vwitness.proof, elements |-> vwitness.elements,
              indices |-> vwitness.indices]

\* The lists of a witness are as long as the path, its commitments those of the path.
VerkleShape ==
  /\ verkle \in VerklePcs
  /\ WitnessFields
  /\ IsList(nodes) /\ IsList(vwitness.elements) /\ IsList(vwitness.indices)
  /\ Len(vwitness.elements) = Len(nodes) /\ Len(vwitness.indices) = Len(nodes)
  /\ vwitness.commitments = nodes
  /\ \A i \in DOMAIN nodes : vwitness.indices[i] \in Positions

\* The rows so far, and the last one with the outcome of the openings.
RowHolds(i) == PreviousIsCurrent(i) /\ InTable(vwitness.indices[i])

RowsHold ==
  /\ vrow \in 0 .. Len(nodes)
  /\ verkle \in {"none", "grow", "witness"} => vrow = 0 /\ holds
  /\ verkle = "circuit" => (holds <=> \A i \in 1 .. vrow : RowHolds(i))
  /\ verkle \in {"synthesized", "accepted", "refused"} =>
       /\ nodes # <<>>
       /\ holds <=> /\ \A i \in 1 .. Len(nodes) : RowHolds(i)
                    /\ VerifyKzgProof(PointList, PolyList, vwitness.commitments, vwitness.proof)

\* The answer of verify.
InstanceChecked ==
  /\ instance = <<instance[1], instance[2]>>
  /\ verkle \in {"accepted", "refused"} =>
       (verkle = "accepted" <=>
          holds /\ instance[1] = vwitness.leaf /\ instance[2] = LastOr(vwitness.elements, Zero))

VerkleInv == VerkleShape /\ RowsHold /\ InstanceChecked

LEMMA VerkleInitInv == VerkleInit => VerkleInv
BY EmptyList DEF VerkleInit, VerkleInv, VerkleShape, RowsHold, InstanceChecked, VerklePcs,
  NoVerkleWitness, WitnessFields


\* create_verkle_tree_proof and what the tests do to a witness: no row is assigned yet.
MakeWitness ==
  \/ \E leaf \in Scalars : PlantLeaf(leaf)
  \/ \E index \in 0 .. Arity - 1, sibling \in Scalars : Grow(index, sibling)
  \/ \E polynomials, points : MakeProof(polynomials, points)
  \/ \E i \in DOMAIN nodes, index \in Positions : \E element : Alter(i, element, index)
  \/ Cut

LEMMA WitnessStep == ASSUME VerkleInv, MakeWitness PROVE VerkleInv'
<1> USE DEF VerkleInv
<1>1. ASSUME NEW leaf \in Scalars, PlantLeaf(leaf) PROVE VerkleInv'
  <2>1. WitnessFields
    BY DEF VerkleShape
  <2>2. /\ WitnessFields'
        /\ vwitness'.elements = vwitness.elements /\ vwitness'.indices = vwitness.indices
        /\ vwitness'.commitments = vwitness.commitments
    BY <1>1, <2>1 DEF PlantLeaf, WitnessFields
  <2> QED
    BY <1>1, <2>2 DEF PlantLeaf, VerkleShape, RowsHold, InstanceChecked, VerklePcs
<1>2. ASSUME NEW index \in 0 .. Arity - 1, NEW sibling \in Scalars, Grow(index, sibling)
      PROVE  VerkleInv'
  <2> DEFINE poly == PolyFromEvals(LastOr(vwitness.elements, vwitness.leaf), index, sibling)
  <2>1. /\ nodes' = Append(nodes, poly)
        /\ vwitness'.commitments = Append(vwitness.commitments, poly)
        /\ vwitness'.elements = Append(vwitness.elements, Label(poly))
        /\ vwitness'.indices = Append(vwitness.indices, index)
        /\ WitnessFields'
        /\ verkle = "grow" /\ UNCHANGED <<verkle, vrow, holds, instance>>
    <3>1. WitnessFields
      BY DEF VerkleShape
    <3> QED
      BY <1>2, <3>1 DEF Grow, WitnessFields
  <2> HIDE DEF poly
  <2>2. /\ IsList(nodes') /\ Len(nodes') = Len(nodes) + 1
        /\ IsList(vwitness'.elements) /\ Len(vwitness'.elements) = Len(nodes) + 1
        /\ IsList(vwitness'.indices) /\ Len(vwitness'.indices) = Len(nodes) + 1
    BY <2>1, AppendList DEF VerkleShape
  <2>3. \A i \in DOMAIN nodes' : vwitness'.indices[i] \in Positions
    <3>1. \A i \in 1 .. Len(nodes) : vwitness'.indices[i] = vwitness.indices[i]
      BY <2>1, AppendList DEF VerkleShape
    <3>2. vwitness'.indices[Len(nodes) + 1] \in Positions
      BY <2>1, AppendList, VerkleAssumption DEF VerkleShape
    <3>3. DOMAIN nodes = 1 .. Len(nodes) /\ DOMAIN nodes' = 1 .. Len(nodes) + 1
          /\ Len(nodes) \in Nat
      BY <2>2, ListDomain DEF VerkleShape
    <3> QED
      BY <3>1, <3>2, <3>3 DEF VerkleShape
  <2>4. VerkleShape'
    BY <2>1, <2>2, <2>3 DEF VerkleShape
  <2>5. Len(nodes') \in Nat
    BY <2>2, ListDomain
  <2> QED
    BY <2>1, <2>4, <2>5 DEF RowsHold, InstanceChecked
<1>3. ASSUME NEW polynomials, NEW points, MakeProof(polynomials, points) PROVE VerkleInv'
  <2>1. CASE verkle' = "panicked" /\ UNCHANGED vwitness
    BY <1>3, <2>1 DEF MakeProof, WitnessFields, VerkleShape, RowsHold, InstanceChecked, VerklePcs
  <2>2. CASE verkle' = "witness"
    <3>1. /\ vwitness'.elements = vwitness.elements /\ vwitness'.indices = vwitness.indices
          /\ vwitness'.commitments = vwitness.commitments /\ verkle = "grow"
          /\ WitnessFields' /\ UNCHANGED <<nodes, vrow, holds, instance>>
      <4>1. WitnessFields
        BY DEF VerkleShape
      <4> QED
        BY <1>3, <2>2, <4>1 DEF MakeProof, WitnessFields
    <3> QED
      BY <2>2, <3>1 DEF VerkleShape, RowsHold, InstanceChecked, VerklePcs
  <2> QED
    BY <1>3, <2>1, <2>2 DEF MakeProof
<1>4. ASSUME NEW i \in DOMAIN nodes, NEW element, NEW index \in Positions,
             Alter(i, element, index)
      PROVE  VerkleInv'
  <2>1. /\ vwitness'.elements = [vwitness.elements EXCEPT ![i] = element]
        /\ vwitness'.indices = [vwitness.indices EXCEPT ![i] = index]
        /\ vwitness'.commitments = vwitness.commitments
        /\ WitnessFields'
        /\ verkle = "witness" /\ UNCHANGED <<verkle, nodes, vrow, holds, instance>>
    <3>1. WitnessFields
      BY DEF VerkleShape
    <3> QED
      BY <1>4, <3>1 DEF Alter, WitnessFields
  <2>2. /\ IsList(vwitness'.elements) /\ Len(vwitness'.elements) = Len(nodes)
        /\ IsList(vwitness'.indices) /\ Len(vwitness'.indices) = Len(nodes)
    <3>1. /\ IsList(vwitness.elements) /\ Len(vwitness.elements) = Len(nodes)
          /\ IsList(vwitness.indices) /\ Len(vwitness.indices) = Len(nodes)
      BY DEF VerkleShape
    <3>2. LET t == [vwitness.elements EXCEPT ![i] = element]
          IN IsList(t) /\ Len(t) = Len(vwitness.elements)
      BY <3>1, UpdateList
    <3>3. LET t == [vwitness.indices EXCEPT ![i] = index]
          IN IsList(t) /\ Len(t) = Len(vwitness.indices)
      BY <3>1, UpdateList
    <3> QED
      BY <2>1, <3>1, <3>2, <3>3
  <2>3. \A j \in DOMAIN nodes : vwitness'.indices[j] \in Positions
    <3>1. DOMAIN vwitness.indices = DOMAIN nodes
      BY ListDomain DEF VerkleShape
    <3> QED
      BY <2>1, <3>1 DEF VerkleShape
  <2> QED
    BY <2>1, <2>2, <2>3 DEF VerkleShape, RowsHold, InstanceChecked
<1>5. ASSUME Cut PROVE VerkleInv'
  <2>1. /\ vwitness'.elements = vwitness.elements /\ vwitness'.indices = vwitness.indices
        /\ vwitness'.commitments = vwitness.commitments /\ verkle = "witness"
        /\ WitnessFields'
        /\ verkle' = "circuit" /\ UNCHANGED <<nodes, vrow, holds, instance>>
    <3>1. WitnessFields
      BY DEF VerkleShape
    <3> QED
      BY <1>5, <3>1 DEF Cut, WitnessFields
  <2>2. vrow' = 0 /\ holds'
    BY <2>1 DEF RowsHold
  <2> QED
    BY <2>1, <2>2 DEF VerkleShape, RowsHold, InstanceChecked, VerklePcs
<1> QED
  BY <1>1, <1>2, <1>3, <1>4, <1>5 DEF MakeWitness

\* synthesize and verify: the witness stays as it is.
LEMMA AssignStep == ASSUME VerkleInv, AssignLevel PROVE VerkleInv'
<1>1. /\ verkle' = "circuit" /\ vrow' = vrow + 1 /\ vrow < Len(nodes)
      /\ holds' <=> holds /\ RowHolds(vrow + 1)
      /\ UNCHANGED <<nodes, vwitness, instance>>
  BY DEF AssignLevel, VerkleInv, VerkleShape, RowHolds
<1>2. vrow \in Nat /\ Len(nodes) \in Nat
  BY ListDomain DEF VerkleInv, VerkleShape, RowsHold
<1>3. holds <=> \A i \in 1 .. vrow : RowHolds(i)
  BY <1>2 DEF AssignLevel, VerkleInv, RowsHold
<1>4. 1 .. vrow + 1 = 1 .. vrow \cup {vrow + 1}
  BY <1>2
<1>5. holds' <=> \A i \in 1 .. vrow' : RowHolds(i)
  BY <1>1, <1>3, <1>4
<1>6. \A i : RowHolds(i)' <=> RowHolds(i)
  BY <1>1 DEF RowHolds, PreviousIsCurrent, NodeOf
<1>7. vrow' \in 0 .. Len(nodes')
  BY <1>1, <1>2
<1>8. VerkleShape'
  BY <1>1 DEF VerkleInv, VerkleShape, VerklePcs, WitnessFields
<1>9. RowsHold'
  BY <1>1, <1>5, <1>6, <1>7 DEF RowsHold
<1> QED
  BY <1>1, <1>8, <1>9 DEF VerkleInv, InstanceChecked

LEMMA CheckStep == ASSUME VerkleInv, CheckOpening PROVE VerkleInv'
<1>1. /\ verkle \in {"witness", "circuit"} /\ vrow = Len(nodes)
      /\ UNCHANGED <<nodes, vwitness, vrow, instance>>
  BY DEF CheckOpening, VerkleInv, VerkleShape
<1>2. verkle' \in VerklePcs => VerkleShape'
  BY <1>1 DEF VerkleInv, VerkleShape, WitnessFields
<1>3. CASE CannotCheck
  <2>1. verkle' = "panicked" /\ holds' = holds
    BY <1>3 DEF CheckOpening
  <2> QED
    BY <1>1, <1>2, <2>1 DEF VerkleInv, RowsHold, InstanceChecked, VerklePcs
<1>4. CASE ~ CannotCheck
  <2> DEFINE V == VerifyKzgProof(PointList, PolyList, vwitness.commitments, vwitness.proof)
  <2>1. verkle' = "synthesized" /\ (holds' <=> holds /\ V)
    BY <1>4 DEF CheckOpening
  <2>2. V' <=> V
    BY <1>1 DEF VerifyKzgProof, Shplonk, PointList, PolyList, NodeOf
  <2>3. \A i : RowHolds(i)' <=> RowHolds(i)
    BY <1>1 DEF RowHolds, PreviousIsCurrent, NodeOf
  <2>4. holds <=> \A i \in 1 .. Len(nodes) : RowHolds(i)
    <3>1. CASE verkle = "circuit"
      BY <1>1, <3>1 DEF VerkleInv, RowsHold
    <3>2. CASE verkle = "witness"
      <4>1. Len(nodes) = 0 /\ holds
        BY <1>1, <3>2 DEF VerkleInv, RowsHold
      <4> QED
        BY <4>1
    <3> QED
      BY <1>1, <3>1, <3>2
  <2>5. nodes # <<>>
    <3>1. vwitness.elements # <<>> /\ IsList(vwitness.elements) /\ IsList(nodes)
          /\ Len(vwitness.elements) = Len(nodes)
      BY <1>4 DEF CannotCheck, VerkleInv, VerkleShape
    <3>2. Len(vwitness.elements) # 0
      BY <3>1, EmptySeq DEF IsList
    <3> QED
      BY <3>1, <3>2
  <2> HIDE DEF V
  <2>6. holds' <=> (\A i \in 1 .. Len(nodes') : RowHolds(i)') /\ V'
    BY <1>1, <2>1, <2>2, <2>3, <2>4
  <2>7. vrow' \in 0 .. Len(nodes')
    BY <1>1 DEF VerkleInv, RowsHold
  <2>8. RowsHold'
    BY <1>1, <2>1, <2>5, <2>6, <2>7 DEF RowsHold, V
  <2>9. VerkleShape'
    BY <1>2, <2>1 DEF VerklePcs
  <2>10. InstanceChecked'
    BY <1>1, <2>1 DEF VerkleInv, InstanceChecked
  <2> QED
    BY <2>8, <2>9, <2>10 DEF VerkleInv
<1> QED
  BY <1>3, <1>4

LEMMA VerifyStep ==
  ASSUME VerkleInv, NEW leaf, NEW root, VerifyVerkle(leaf, root)
  PROVE  VerkleInv'
<1>1. /\ verkle = "synthesized" /\ verkle' \in {"accepted", "refused"}
      /\ UNCHANGED <<nodes, vwitness, vrow, holds>>
      /\ instance' = <<leaf, root>>
      /\ verkle' = "accepted" <=>
           holds /\ vwitness.leaf = leaf /\ LastOr(vwitness.elements, Zero) = root
  BY DEF VerifyVerkle
<1>2. VerkleShape'
  BY <1>1 DEF VerkleInv, VerkleShape, WitnessFields, VerklePcs
<1>3. VerifyKzgProof(PointList, PolyList, vwitness.commitments, vwitness.proof)'
      <=> VerifyKzgProof(PointList, PolyList, vwitness.commitments, vwitness.proof)
  BY <1>1 DEF VerifyKzgProof, Shplonk, PointList, PolyList, NodeOf
<1>4. \A i : RowHolds(i)' <=> RowHolds(i)
  BY <1>1 DEF RowHolds, PreviousIsCurrent, NodeOf
<1>5. RowsHold'
  BY <1>1, <1>3, <1>4 DEF VerkleInv, RowsHold
<1>6. InstanceChecked'
  BY <1>1 DEF InstanceChecked, LastOr
<1> QED
  BY <1>2, <1>5, <1>6 DEF VerkleInv

LEMMA VerkleInvStep == VerkleInv /\ [VerkleNext]_verkleVars => VerkleInv'
<1> SUFFICES ASSUME VerkleInv, [VerkleNext]_verkleVars PROVE VerkleInv'
  OBVIOUS
<1>1. CASE UNCHANGED verkleVars
  <2>1. UNCHANGED <<verkle, nodes, vwitness, vrow, holds, instance>>
    BY <1>1 DEF verkleVars
  <2>2. VerifyKzgProof(PointList, PolyList, vwitness.commitments, vwitness.proof)'
        <=> VerifyKzgProof(PointList, PolyList, vwitness.commitments, vwitness.proof)
    BY <2>1 DEF VerifyKzgProof, Shplonk, PointList, PolyList, NodeOf
  <2>3. \A i : RowHolds(i)' <=> RowHolds(i)
    BY <2>1 DEF RowHolds, PreviousIsCurrent, NodeOf
  <2>4. RowsHold'
    BY <2>1, <2>2, <2>3 DEF VerkleInv, RowsHold
  <2>5. VerkleShape' /\ InstanceChecked'
    BY <2>1 DEF VerkleInv, VerkleShape, WitnessFields, InstanceChecked, LastOr
  <2> QED
    BY <2>4, <2>5 DEF VerkleInv
<1>2. \A i \in DOMAIN nodes : vwitness.indices[i] \in Positions
  BY DEF VerkleInv, VerkleShape
<1>3. ASSUME NEW i \in DOMAIN nodes, NEW n \in Scalars, Alter(i, Scalar(n), vwitness.indices[i])
      PROVE  MakeWitness
  BY <1>2, <1>3 DEF MakeWitness
<1>4. ASSUME NEW i \in DOMAIN nodes, NEW index \in Positions, Alter(i, vwitness.elements[i], index)
      PROVE  MakeWitness
  BY <1>4 DEF MakeWitness
<1>5. ASSUME NEW polynomials, NEW points, MakeProof(polynomials, points) PROVE MakeWitness
  BY <1>5 DEF MakeWitness
<1>6. ASSUME VerkleNext
      PROVE  MakeWitness \/ AssignLevel \/ CheckOpening \/ \E leaf, root : VerifyVerkle(leaf, root)
  <2>1. ASSUME NEW leaf \in Scalars, PlantLeaf(leaf) PROVE MakeWitness
    BY <2>1 DEF MakeWitness
  <2>2. ASSUME NEW index \in 0 .. Arity - 1, NEW sibling \in Scalars, Grow(index, sibling)
        PROVE  MakeWitness
    BY <2>2 DEF MakeWitness
  <2>3. Cut => MakeWitness
    BY DEF MakeWitness
  <2> QED
    BY <1>3, <1>4, <1>5, <1>6, <2>1, <2>2, <2>3 DEF VerkleNext
<1> QED
  BY <1>1, <1>6, WitnessStep, AssignStep, CheckStep, VerifyStep

LEMMA VerkleSteps == [Next]_vars => [VerkleNext]_verkleVars
BY DEF Next, vars, UseVerkle

LEMMA VerkleInvariant == Spec => []VerkleInv
<1>1. Init => VerkleInv
  BY VerkleInitInv DEF Init
<1>2. VerkleInv /\ [Next]_vars => VerkleInv'
  BY VerkleInvStep, VerkleSteps
<1> QED
  BY <1>1, <1>2, PTL DEF Spec

\* The point at which a child is opened is its index: the low byte loses nothing.
LEMMA PointOfChild ==
  ASSUME NEW index \in 0 .. Arity - 1
  PROVE  LowByte[index] = index
BY VerkleAssumption DEF Points

LEMMA VerkleDomains ==
  ASSUME VerkleShape
  PROVE  /\ Len(nodes) \in Nat /\ DOMAIN nodes = 1 .. Len(nodes)
         /\ DOMAIN vwitness.indices = 1 .. Len(nodes)
         /\ DOMAIN vwitness.elements = 1 .. Len(nodes)
         /\ DOMAIN PointList = 1 .. Len(nodes)
         /\ \A i \in 1 .. Len(nodes) : /\ PointList[i] = LowByte[vwitness.indices[i]]
                                       /\ PolyList[i] = NodeOf(i)
         /\ vwitness.commitments = nodes
BY ListDomain DEF VerkleShape, PointList, PolyList

LEMMA AcceptedIsOpen == VerkleInv => PathIsOpen
<1> SUFFICES ASSUME VerkleInv, verkle = "accepted"
             PROVE  /\ \A i \in DOMAIN nodes :
                         /\ vwitness.indices[i] \in 0 .. Arity - 1
                         /\ nodes[i][vwitness.indices[i]] = IF i = 1 THEN instance[1]
                                                            ELSE Label(nodes[i - 1])
                    /\ instance[2] = vwitness.elements[Len(nodes)]
  BY DEF PathIsOpen
<1>1. VerkleShape /\ nodes # <<>> /\ instance[1] = vwitness.leaf
      /\ instance[2] = LastOr(vwitness.elements, Zero)
      /\ \A i \in 1 .. Len(nodes) : RowHolds(i)
      /\ VerifyKzgProof(PointList, PolyList, vwitness.commitments, vwitness.proof)
  BY DEF VerkleInv, InstanceChecked, RowsHold
<1>2. ASSUME NEW i \in DOMAIN nodes
      PROVE  /\ vwitness.indices[i] \in 0 .. Arity - 1
             /\ nodes[i][vwitness.indices[i]] = IF i = 1 THEN instance[1] ELSE Label(nodes[i - 1])
  <2>1. i \in 1 .. Len(nodes) /\ Len(nodes) \in Nat
    BY <1>1, VerkleDomains
  <2>2. vwitness.indices[i] \in 0 .. Arity - 1 /\ PreviousIsCurrent(i)
    BY <1>1, <2>1 DEF RowHolds, InTable
  <2>3. /\ nodes[i] = vwitness.proof.commitments[i]
        /\ NodeOf(i) = vwitness.proof.evals[i]
        /\ vwitness.proof.commitments[i][PointList[i]] = PolyList[i]
    BY <1>1, <2>1, VerkleDomains DEF VerifyKzgProof, Shplonk
  <2>4. PointList[i] = vwitness.indices[i] /\ PolyList[i] = NodeOf(i)
    BY <1>1, <2>1, <2>2, VerkleDomains, PointOfChild
  <2>5. nodes[i][vwitness.indices[i]] = NodeOf(i)
    BY <2>3, <2>4
  <2>6. NodeOf(i) = IF i = 1 THEN instance[1] ELSE Label(nodes[i - 1])
    BY <1>1, <2>1, <2>2, VerkleDomains DEF NodeOf, PreviousIsCurrent
  <2> QED
    BY <2>2, <2>5, <2>6
<1>3. instance[2] = vwitness.elements[Len(nodes)]
  BY <1>1, VerkleDomains, EmptyList DEF LastOr, VerkleShape
<1> QED
  BY <1>2, <1>3

\* The openings of a path that is open at its indices, as create_proof makes them, verify.
LEMMA HonestOpenings ==
  ASSUME VerkleShape,
         \A i \in DOMAIN nodes :
           /\ vwitness.elements[i] = Label(nodes[i])
           /\ vwitness.indices[i] \in 0 .. Arity - 1
           /\ nodes[i][vwitness.indices[i]] = IF i = 1 THEN vwitness.leaf ELSE Label(nodes[i - 1]),
         vwitness.proof = CreateKzgProof(HonestPoints, nodes, nodes)
  PROVE  /\ \A i \in 1 .. Len(nodes) : RowHolds(i)
         /\ VerifyKzgProof(PointList, PolyList, vwitness.commitments, vwitness.proof)
<1> DEFINE proof == vwitness.proof
<1>1. /\ \A i \in 1 .. Len(nodes) : PointList[i] = HonestPoints[i]
      /\ DOMAIN PointList = 1 .. Len(nodes) /\ DOMAIN HonestPoints = 1 .. Len(nodes)
  BY VerkleDomains, PointOfChild DEF HonestPoints
<1>2. PointList = HonestPoints
  BY <1>1 DEF PointList, HonestPoints
<1>3. \A i \in 1 .. Len(nodes) :
        NodeOf(i) = IF i = 1 THEN vwitness.leaf ELSE Label(nodes[i - 1])
  <2> SUFFICES ASSUME NEW i \in 1 .. Len(nodes)
               PROVE  NodeOf(i) = IF i = 1 THEN vwitness.leaf ELSE Label(nodes[i - 1])
    OBVIOUS
  <2>1. Len(nodes) \in Nat /\ DOMAIN nodes = 1 .. Len(nodes)
    BY VerkleDomains
  <2>2. CASE i = 1
    BY <2>2 DEF NodeOf
  <2>3. CASE i # 1
    <3>1. i - 1 \in DOMAIN nodes
      BY <2>1, <2>3
    <3>2. vwitness.elements[i - 1] = Label(nodes[i - 1])
      BY <3>1
    <3> QED
      BY <2>3, <3>2 DEF NodeOf
  <2> QED
    BY <2>2, <2>3
<1>4. /\ proof.commitments = nodes /\ proof.points = HonestPoints
      /\ proof.evals = [i \in DOMAIN HonestPoints |-> nodes[i][HonestPoints[i]]]
      /\ proof.polynomials = [i \in DOMAIN HonestPoints |-> nodes[i]]
  BY DEF CreateKzgProof
<1>5. \A i \in 1 .. Len(nodes) : HonestPoints[i] = vwitness.indices[i]
  BY VerkleDomains DEF HonestPoints
<1>6. \A i \in 1 .. Len(nodes) :
        /\ proof.evals[i] = NodeOf(i) /\ proof.polynomials[i] = nodes[i]
        /\ nodes[i][PointList[i]] = NodeOf(i)
  <2> SUFFICES ASSUME NEW i \in 1 .. Len(nodes)
               PROVE  /\ proof.evals[i] = NodeOf(i) /\ proof.polynomials[i] = nodes[i]
                      /\ nodes[i][PointList[i]] = NodeOf(i)
    OBVIOUS
  <2>1. nodes[i][HonestPoints[i]] = NodeOf(i)
    <3>1. i \in DOMAIN nodes
      BY VerkleDomains
    <3>2. nodes[i][vwitness.indices[i]] = IF i = 1 THEN vwitness.leaf ELSE Label(nodes[i - 1])
      BY <3>1
    <3> QED
      BY <1>3, <1>5, <3>2
  <2>2. proof.evals[i] = nodes[i][HonestPoints[i]] /\ proof.polynomials[i] = nodes[i]
    <3> HIDE DEF proof
    <3> QED
      BY <1>1, <1>4
  <2> QED
    BY <1>2, <2>1, <2>2
<1>7. \A i \in 1 .. Len(nodes) : RowHolds(i)
  <2> SUFFICES ASSUME NEW i \in 1 .. Len(nodes) PROVE RowHolds(i)
    OBVIOUS
  <2>1. i \in DOMAIN nodes /\ vwitness.commitments = nodes
    BY VerkleDomains
  <2>2. InTable(vwitness.indices[i])
    BY <2>1 DEF InTable
  <2>3. PreviousIsCurrent(i)
    BY <1>3, <2>1 DEF PreviousIsCurrent
  <2> QED
    BY <2>2, <2>3 DEF RowHolds
<1>8. VerifyKzgProof(PointList, PolyList, vwitness.commitments, vwitness.proof)
  <2> HIDE DEF proof
  <2>1. /\ vwitness.commitments = nodes /\ DOMAIN PointList = 1 .. Len(nodes)
        /\ \A i \in 1 .. Len(nodes) : PolyList[i] = NodeOf(i)
    BY VerkleDomains
  <2>2. VerifyKzgProof(PointList, PolyList, nodes, proof)
    BY <1>2, <1>4, <1>6, <2>1 DEF VerifyKzgProof, Shplonk
  <2> QED
    BY <2>1, <2>2 DEF proof
<1> QED
  BY <1>7, <1>8

LEMMA HonestIsAccepted == VerkleInv => HonestPathIsAccepted
<1> SUFFICES ASSUME VerkleInv,
                    verkle \in {"accepted", "refused"},
                    \A i \in DOMAIN nodes :
                      /\ vwitness.elements[i] = Label(nodes[i])
                      /\ vwitness.indices[i] \in 0 .. Arity - 1
                      /\ nodes[i][vwitness.indices[i]] = IF i = 1 THEN vwitness.leaf
                                                         ELSE Label(nodes[i - 1]),
                    vwitness.proof = CreateKzgProof(HonestPoints, nodes, nodes)
             PROVE  verkle = "accepted" <=>
                      instance = <<vwitness.leaf, Label(nodes[Len(nodes)])>>
  BY DEF HonestPathIsAccepted
<1>1. VerkleShape /\ nodes # <<>>
  BY DEF VerkleInv, RowsHold
<1>2. holds
  BY <1>1, HonestOpenings DEF VerkleInv, RowsHold
<1>3. LastOr(vwitness.elements, Zero) = Label(nodes[Len(nodes)])
  BY <1>1, VerkleDomains, EmptyList DEF LastOr, VerkleShape
<1>4. verkle = "accepted" <=>
        instance[1] = vwitness.leaf /\ instance[2] = Label(nodes[Len(nodes)])
  BY <1>2, <1>3 DEF VerkleInv, InstanceChecked
<1> QED
  BY <1>4 DEF VerkleInv, InstanceChecked

\* An accepted proof is about a path that is open from the leaf to the root at
\* indices of children, for every arity and depth, also when the witness, the
\* points or the polynomials are not those of the tree (PathIsOpen).
THEOREM AcceptedPathsAreOpen == Spec => []PathIsOpen
BY VerkleInvariant, AcceptedIsOpen, PTL

\* The path that create_verkle_tree_proof builds is accepted exactly for its leaf
\* and its root, for every arity and depth (HonestPathIsAccepted).
THEOREM HonestPathsAreAccepted == Spec => []HonestPathIsAccepted
BY VerkleInvariant, HonestIsAccepted, PTL

-----------------------------------------------------------------------------
(***************************************************************************)
(* Recursive functions.  One is what its equation says once some function  *)
(* satisfies the equation.                                                 *)
(***************************************************************************)
\* Induction up to N, by the least number that is not in T.
LEMMA Climb ==
  ASSUME NEW N \in Nat, NEW T, 0 \in T, \A n \in 1 .. N : n - 1 \in T => n \in T
  PROVE  \A n \in 0 .. N : n \in T
<1> DEFINE U == {n \in 0 .. N : n \notin T}
<1>1. SUFFICES ASSUME U # {} PROVE FALSE
  OBVIOUS
<1>2. U \subseteq Nat
  OBVIOUS
<1>3. PICK m \in U : \A l \in U : ~ (<<l, m>> \in OpToRel(<, Nat))
  BY <1>1, <1>2, WFMin, NatLessThanWellFounded
<1>4. m \in 1 .. N /\ m - 1 \in 0 .. N
  OBVIOUS
<1>5. m - 1 \notin U
  <2>1. <<m - 1, m>> \in OpToRel(<, Nat)
    BY <1>4 DEF OpToRel
  <2> QED BY <2>1, <1>3
<1> QED BY <1>4, <1>5

Steps(N, S, step) == \A n \in 1 .. N : \A x \in S : step[n][x] \in S
Recursive(N, S, base, step, g) ==
  /\ g \in [0 .. N -> S]
  /\ g[0] = base
  /\ \A n \in 1 .. N : g[n] = step[n][g[n - 1]]

LEMMA RecursionExists ==
  ASSUME NEW N \in Nat, NEW S, NEW base \in S, NEW step, Steps(N, S, step)
  PROVE  \E g : Recursive(N, S, base, step, g)
<1> DEFINE Good(m, g) == Recursive(m, S, base, step, g)
           T == {m \in 0 .. N : \E g : Good(m, g)}
<1>1. 0 \in T
  <2> DEFINE g == [n \in 0 .. 0 |-> base]
  <2>1. g \in [0 .. 0 -> S] /\ g[0] = base
    OBVIOUS
  <2>2. \A n \in 1 .. 0 : FALSE
    OBVIOUS
  <2> HIDE DEF g
  <2>3. Good(0, g)
    BY <2>1, <2>2 DEF Recursive
  <2> QED BY <2>3
<1>2. ASSUME NEW m \in 1 .. N, m - 1 \in T PROVE m \in T
  <2>1. PICK g : Good(m - 1, g)
    BY <1>2
  <2>2. step[m][g[m - 1]] \in S
    <3>1. m - 1 \in 0 .. m - 1
      OBVIOUS
    <3> QED BY <2>1, <3>1 DEF Recursive, Steps
  <2> DEFINE h == [n \in 0 .. m |-> IF n = m THEN step[m][g[m - 1]] ELSE g[n]]
  <2>3. h \in [0 .. m -> S]
    BY <2>1, <2>2 DEF Recursive
  <2>4. h[0] = base
    BY <2>1 DEF Recursive
  <2>5. ASSUME NEW n \in 1 .. m PROVE h[n] = step[n][h[n - 1]]
    <3>1. n - 1 \in 0 .. m /\ n - 1 # m /\ h[n - 1] = g[n - 1]
      OBVIOUS
    <3>2. CASE n = m
      BY <3>1, <3>2
    <3>3. CASE n # m
      <4>1. n \in 1 .. m - 1 /\ h[n] = g[n]
        BY <3>3
      <4> QED BY <2>1, <3>1, <4>1 DEF Recursive
    <3> QED BY <3>2, <3>3
  <2> HIDE DEF h
  <2>6. Good(m, h)
    BY <2>3, <2>4, <2>5 DEF Recursive
  <2> QED BY <2>6
<1>3. N \in T
  <2> HIDE DEF T
  <2>1. \A n \in 0 .. N : n \in T
    BY <1>1, <1>2, Climb
  <2> QED BY <2>1
<1>4. PICK g : Good(N, g)
  BY <1>3
<1> QED BY <1>4

(***************************************************************************)
(* Sums.                                                                   *)
(***************************************************************************)
\* s holds the sums of the first elements of f.
SumsOf(f, s) ==
  /\ s \in [0 .. Width -> Int]
  /\ s[0] = 0
  /\ \A n \in 1 .. Width : s[n] = s[n - 1] + f[n - 1]

Sums(f) == CHOOSE s : SumsOf(f, s)
Total(f) == Sums(f)[Width]

LEMMA FieldSizes ==
  /\ Prime \in Nat /\ Prime > 1 /\ Width \in Nat /\ Width > 1
  /\ Rate \in Nat /\ Rate > 0 /\ Rate = Width - 1 /\ Rate \in Index
  /\ 0 \in Field /\ 1 \in Field
  /\ 0 \in Index
  /\ FullRounds \in Nat /\ PartialRounds \in Nat
BY PoseidonAssumption DEF Rate, Field, Index

LEMMA SumsExist ==
  ASSUME NEW f \in [Index -> Int]
  PROVE  SumsOf(f, Sums(f))
<1> DEFINE step == [n \in 1 .. Width |-> [x \in Int |-> x + f[n - 1]]]
<1>1. \A n \in 1 .. Width : n - 1 \in Index
  BY FieldSizes DEF Index
<1>2. Steps(Width, Int, step)
  BY <1>1 DEF Steps
<1>3. PICK g : Recursive(Width, Int, 0, step, g)
  <2> HIDE DEF step
  <2>1. Width \in Nat /\ 0 \in Int
    BY FieldSizes
  <2> QED BY <1>2, <2>1, RecursionExists
<1>4. SumsOf(f, g)
  <2>1. ASSUME NEW n \in 1 .. Width PROVE g[n] = g[n - 1] + f[n - 1]
    <3>1. n - 1 \in 0 .. Width
      BY FieldSizes
    <3> QED BY <1>3, <3>1 DEF Recursive
  <2> QED BY <1>3, <2>1 DEF SumsOf, Recursive
<1> QED BY <1>4 DEF Sums

LEMMA DotIsTotal ==
  ASSUME NEW u \in [Index -> Int], NEW v \in [Index -> Int]
  PROVE  Dot(u, v) = Total([j \in Index |-> u[j] * v[j]]) % Prime
<1> DEFINE f == [j \in Index |-> u[j] * v[j]]
           sum[n \in 0 .. Width] == IF n = 0 THEN 0 ELSE sum[n - 1] + u[n - 1] * v[n - 1]
<1>1. SumsOf(f, Sums(f))
  <2>1. f \in [Index -> Int]
    OBVIOUS
  <2> HIDE DEF f
  <2> QED BY <2>1, SumsExist
<1>2. \A n \in 1 .. Width : n - 1 \in Index /\ f[n - 1] = u[n - 1] * v[n - 1]
  BY FieldSizes DEF Index
<1> DEFINE s == Sums(f)
<1>3. s = [n \in 0 .. Width |-> IF n = 0 THEN 0 ELSE s[n - 1] + u[n - 1] * v[n - 1]]
  <2> HIDE DEF f, s
  <2>1. SumsOf(f, s)
    BY <1>1 DEF s
  <2>2. ASSUME NEW n \in 0 .. Width
        PROVE  s[n] = IF n = 0 THEN 0 ELSE s[n - 1] + u[n - 1] * v[n - 1]
    BY <1>2, <2>1, FieldSizes DEF SumsOf
  <2> QED BY <2>1, <2>2 DEF SumsOf
<1>4. sum = [n \in 0 .. Width |-> IF n = 0 THEN 0 ELSE sum[n - 1] + u[n - 1] * v[n - 1]]
  <2> HIDE DEF s
  <2> QED BY <1>3, Zenon
<1>5. Dot(u, v) = sum[Width] % Prime
  BY DEF Dot
<1> HIDE DEF sum, s, f
<1>6. \A n \in 0 .. Width : sum[n] = s[n]
  <2> DEFINE T == {n \in 0 .. Width : sum[n] = s[n]}
  <2>1. 0 \in T
    BY <1>3, <1>4, FieldSizes
  <2>2. ASSUME NEW n \in 1 .. Width, n - 1 \in T PROVE n \in T
    <3>1. /\ n \in 0 .. Width /\ n # 0 /\ sum[n - 1] = s[n - 1]
      BY <2>2, FieldSizes
    <3>2. sum[n] = sum[n - 1] + u[n - 1] * v[n - 1] /\ s[n] = s[n - 1] + u[n - 1] * v[n - 1]
      BY <1>3, <1>4, <3>1
    <3> QED BY <3>1, <3>2
  <2> HIDE DEF T
  <2>3. \A n \in 0 .. Width : n \in T
    BY <2>1, <2>2, Climb, FieldSizes
  <2> QED BY <2>3 DEF T
<1> QED BY <1>5, <1>6, FieldSizes DEF Total, s, f

LEMMA TotalType ==
  ASSUME NEW f \in [Index -> Int]
  PROVE  /\ SumsOf(f, Sums(f))
         /\ Total(f) = Sums(f)[Width]
         /\ Total(f) \in Int
         /\ Sums(f)[0] = 0
         /\ \A n \in 0 .. Width : Sums(f)[n] \in Int
         /\ \A n \in 1 .. Width :
              /\ n - 1 \in Index /\ n - 1 \in 0 .. Width
              /\ Sums(f)[n] = Sums(f)[n - 1] + f[n - 1]
<1> DEFINE s == Sums(f)
<1>1. SumsOf(f, s)
  BY SumsExist
<1> HIDE DEF s
<1>2. /\ s \in [0 .. Width -> Int] /\ s[0] = 0
      /\ \A n \in 1 .. Width : s[n] = s[n - 1] + f[n - 1]
  BY <1>1 DEF SumsOf
<1>3. Width \in 0 .. Width /\ \A n \in 1 .. Width : n - 1 \in Index /\ n - 1 \in 0 .. Width
  BY FieldSizes DEF Index
<1>4. Total(f) = s[Width]
  BY DEF Total, s
<1> QED BY <1>1, <1>2, <1>3, <1>4 DEF s

LEMMA TotalAdds ==
  ASSUME NEW f \in [Index -> Int], NEW g \in [Index -> Int], NEW h \in [Index -> Int],
         \A j \in Index : h[j] = f[j] + g[j]
  PROVE  Total(h) = Total(f) + Total(g)
<1> DEFINE T == {n \in 0 .. Width : Sums(h)[n] = Sums(f)[n] + Sums(g)[n]}
<1>1. 0 \in T
  BY TotalType, FieldSizes
<1>2. ASSUME NEW n \in 1 .. Width, n - 1 \in T PROVE n \in T
  <2>1. /\ n - 1 \in Index
        /\ Sums(f)[n] = Sums(f)[n - 1] + f[n - 1] /\ Sums(f)[n - 1] \in Int
        /\ Sums(g)[n] = Sums(g)[n - 1] + g[n - 1] /\ Sums(g)[n - 1] \in Int
        /\ Sums(h)[n] = Sums(h)[n - 1] + h[n - 1]
    BY TotalType
  <2>2. Sums(h)[n - 1] = Sums(f)[n - 1] + Sums(g)[n - 1]
    BY <1>2
  <2>3. h[n - 1] = f[n - 1] + g[n - 1] /\ f[n - 1] \in Int /\ g[n - 1] \in Int
    BY <2>1
  <2>4. n \in 0 .. Width
    BY FieldSizes
  <2> QED BY <2>1, <2>2, <2>3, <2>4
<1>3. \A n \in 0 .. Width : n \in T
  <2> HIDE DEF T
  <2> QED BY <1>1, <1>2, Climb, FieldSizes
<1>4. Width \in T
  BY <1>3, FieldSizes
<1> QED BY <1>4 DEF Total

LEMMA TotalScales ==
  ASSUME NEW f \in [Index -> Int], NEW c \in Int, NEW h \in [Index -> Int],
         \A j \in Index : h[j] = c * f[j]
  PROVE  Total(h) = c * Total(f)
<1> DEFINE T == {n \in 0 .. Width : Sums(h)[n] = c * Sums(f)[n]}
<1>1. 0 \in T
  BY TotalType, FieldSizes
<1>2. ASSUME NEW n \in 1 .. Width, n - 1 \in T PROVE n \in T
  <2>1. /\ n - 1 \in Index
        /\ Sums(f)[n] = Sums(f)[n - 1] + f[n - 1] /\ Sums(f)[n - 1] \in Int
        /\ Sums(h)[n] = Sums(h)[n - 1] + h[n - 1]
    BY TotalType
  <2>2. Sums(h)[n - 1] = c * Sums(f)[n - 1]
    BY <1>2
  <2>3. h[n - 1] = c * f[n - 1] /\ f[n - 1] \in Int
    BY <2>1
  <2>4. n \in 0 .. Width
    BY FieldSizes
  <2>5. \A a, b \in Int : c * a + c * b = c * (a + b)
    OBVIOUS
  <2> QED BY <2>1, <2>2, <2>3, <2>4, <2>5
<1>3. \A n \in 0 .. Width : n \in T
  <2> HIDE DEF T
  <2> QED BY <1>1, <1>2, Climb, FieldSizes
<1>4. Width \in T
  BY <1>3, FieldSizes
<1> QED BY <1>4 DEF Total

\* Only one element counts.
LEMMA TotalOfOne ==
  ASSUME NEW f \in [Index -> Int], NEW i \in Index, \A j \in Index : j # i => f[j] = 0
  PROVE  Total(f) = f[i]
<1> DEFINE T == {n \in 0 .. Width : Sums(f)[n] = IF n <= i THEN 0 ELSE f[i]}
<1>0. i \in Int /\ i >= 0 /\ i < Width /\ f[i] \in Int
  BY FieldSizes DEF Index
<1>1. 0 \in T
  BY TotalType, FieldSizes, <1>0
<1>2. ASSUME NEW n \in 1 .. Width, n - 1 \in T PROVE n \in T
  <2>1. /\ n - 1 \in Index
        /\ Sums(f)[n] = Sums(f)[n - 1] + f[n - 1] /\ Sums(f)[n - 1] \in Int
    BY TotalType
  <2>2. Sums(f)[n - 1] = IF n - 1 <= i THEN 0 ELSE f[i]
    BY <1>2
  <2>3. n - 1 # i => f[n - 1] = 0
    BY <2>1
  <2>4. n \in 0 .. Width
    BY FieldSizes
  <2> QED BY <1>0, <2>1, <2>2, <2>3, <2>4
<1>3. \A n \in 0 .. Width : n \in T
  <2> HIDE DEF T
  <2> QED BY <1>1, <1>2, Climb, FieldSizes
<1>4. Width \in T
  BY <1>3, FieldSizes
<1> QED BY <1>0, <1>4, FieldSizes DEF Total

LEMMA TotalOfZeros ==
  ASSUME NEW f \in [Index -> Int], \A j \in Index : f[j] = 0
  PROVE  Total(f) = 0
BY TotalOfOne, FieldSizes

\* The sum of the rows of a table is the sum of its columns.
LEMMA TotalsExchange ==
  ASSUME NEW F \in [Index -> [Index -> Int]]
  PROVE  Total([k \in Index |-> Total(F[k])])
           = Total([j \in Index |-> Total([k \in Index |-> F[k][j]])])
<1> DEFINE rows == [k \in Index |-> Total(F[k])]
           column(j) == [k \in Index |-> F[k][j]]
           below(n) == [j \in Index |-> Sums(column(j))[n]]
           T == {n \in 0 .. Width : Sums(rows)[n] = Total(below(n))}
<1>1. rows \in [Index -> Int]
  BY TotalType
<1>2. \A j \in Index : column(j) \in [Index -> Int]
  OBVIOUS
<1>3. \A n \in 0 .. Width : below(n) \in [Index -> Int]
  <2> HIDE DEF column
  <2> QED BY <1>2, TotalType
<1>4. 0 \in T
  <2>1. \A j \in Index : below(0)[j] = 0
    <3> HIDE DEF column
    <3> QED BY <1>2, TotalType
  <2>2. Total(below(0)) = 0
    <3> HIDE DEF below
    <3> QED BY <2>1, <1>3, TotalOfZeros, FieldSizes
  <2>3. Sums(rows)[0] = 0
    <3> HIDE DEF rows
    <3> QED BY <1>1, TotalType
  <2> QED BY <2>2, <2>3, FieldSizes
<1>5. ASSUME NEW n \in 1 .. Width, n - 1 \in T PROVE n \in T
  <2>0. n \in 0 .. Width /\ n - 1 \in 0 .. Width /\ n - 1 \in Index
    BY FieldSizes DEF Index
  <2>1. \A j \in Index : below(n)[j] = below(n - 1)[j] + F[n - 1][j]
    <3>1. ASSUME NEW j \in Index PROVE Sums(column(j))[n] = Sums(column(j))[n - 1] + F[n - 1][j]
      <4>1. column(j)[n - 1] = F[n - 1][j]
        BY <2>0
      <4> HIDE DEF column
      <4> QED BY <1>2, <4>1, TotalType
    <3> HIDE DEF column
    <3> QED BY <3>1
  <2>2. Total(below(n)) = Total(below(n - 1)) + Total(F[n - 1])
    <3>1. F[n - 1] \in [Index -> Int]
      BY <2>0
    <3> HIDE DEF below
    <3> QED BY <2>0, <2>1, <3>1, <1>3, TotalAdds
  <2>3. Sums(rows)[n] = Sums(rows)[n - 1] + Total(F[n - 1])
    <3>1. rows[n - 1] = Total(F[n - 1])
      BY <2>0
    <3> HIDE DEF rows
    <3> QED BY <3>1, <1>1, TotalType
  <2>4. Sums(rows)[n - 1] = Total(below(n - 1))
    BY <1>5
  <2> HIDE DEF rows, below
  <2> QED BY <2>0, <2>2, <2>3, <2>4
<1>6. \A n \in 0 .. Width : n \in T
  <2> HIDE DEF T
  <2> QED BY <1>4, <1>5, Climb, FieldSizes
<1>7. Sums(rows)[Width] = Total(below(Width))
  BY <1>6, FieldSizes
<1>8. below(Width) = [j \in Index |-> Total(column(j))]
  BY DEF Total
<1> QED BY <1>7, <1>8 DEF Total

(***************************************************************************)
(* Congruence modulo Prime.                                                *)
(***************************************************************************)
Same(a, b) == \E q \in Int : a = b + Prime * q

LEMMA SameIsRemainder ==
  ASSUME NEW a \in Int, NEW b \in Int
  PROVE  /\ a % Prime \in Field
         /\ Same(a % Prime, a)
         /\ Same(a, b) <=> a % Prime = b % Prime
<1>0. Prime \in Nat /\ Prime > 1
  BY FieldSizes
<1>1. \A x \in Int : /\ x % Prime \in Int /\ 0 <= x % Prime /\ x % Prime < Prime
                     /\ x \div Prime \in Int
                     /\ x = Prime * (x \div Prime) + (x % Prime)
  BY <1>0
<1>2. a % Prime \in Field
  BY <1>0, <1>1 DEF Field
<1>3. Same(a % Prime, a)
  <2>1. a % Prime = a + Prime * (- (a \div Prime)) /\ - (a \div Prime) \in Int
    <3> DEFINE k == a \div Prime
               m == a % Prime
    <3>1. k \in Int /\ m \in Int /\ a = Prime * k + m
      BY <1>1
    <3> HIDE DEF k, m
    <3>2. m = a + Prime * (- k) /\ - k \in Int
      BY <3>1, <1>0
    <3> QED BY <3>2 DEF k, m
  <2> QED BY <2>1 DEF Same
<1>4. ASSUME Same(a, b) PROVE a % Prime = b % Prime
  <2>1. PICK q \in Int : a = b + Prime * q
    BY <1>4 DEF Same
  <2> DEFINE k == a \div Prime
             m == a % Prime
             l == b \div Prime
             n == b % Prime
  <2>2. /\ k \in Int /\ m \in Int /\ a = Prime * k + m /\ 0 <= m /\ m < Prime
        /\ l \in Int /\ n \in Int /\ b = Prime * l + n /\ 0 <= n /\ n < Prime
    BY <1>1
  <2> HIDE DEF k, m, l, n
  <2>3. PICK d \in Int : d = l + q - k
    BY <2>2
  <2>4. m - n = Prime * d
    <3>1. m - n = Prime * l + Prime * q - Prime * k
      BY <2>1, <2>2, <1>0
    <3>2. Prime * d = Prime * l + Prime * q - Prime * k
      BY <2>2, <2>3, <1>0
    <3> QED BY <3>1, <3>2
  <2>5. d = 0
    <3>1. CASE d >= 1
      <4>1. Prime * d >= Prime
        BY <3>1, <1>0
      <4> QED BY <4>1, <2>2, <2>4, <1>0
    <3>2. CASE d <= -1
      <4>1. Prime * d <= - Prime
        BY <3>2, <1>0
      <4> QED BY <4>1, <2>2, <2>4, <1>0
    <3> QED BY <3>1, <3>2
  <2>6. m = n
    BY <2>2, <2>4, <2>5, <1>0
  <2> QED BY <2>6 DEF m, n
<1>5. ASSUME a % Prime = b % Prime PROVE Same(a, b)
  <2> DEFINE k == a \div Prime
             m == a % Prime
             l == b \div Prime
  <2>2. /\ k \in Int /\ m \in Int /\ a = Prime * k + m
        /\ l \in Int /\ b = Prime * l + m
    BY <1>1, <1>5
  <2> HIDE DEF k, m, l
  <2>3. k - l \in Int /\ a = b + Prime * (k - l)
    BY <2>2, <1>0
  <2> QED BY <2>3 DEF Same
<1> QED BY <1>2, <1>3, <1>4, <1>5

LEMMA SmallRemainder ==
  ASSUME NEW a \in Field
  PROVE  a \in Int /\ a % Prime = a
BY FieldSizes DEF Field

LEMMA SameIsEquivalence ==
  /\ \A a \in Int : Same(a, a)
  /\ \A a, b \in Int : Same(a, b) => Same(b, a)
  /\ \A a, b, c \in Int : Same(a, b) /\ Same(b, c) => Same(a, c)
BY SameIsRemainder

LEMMA SameSum ==
  ASSUME NEW a \in Int, NEW b \in Int, NEW c \in Int, NEW d \in Int, Same(a, b), Same(c, d)
  PROVE  Same(a + c, b + d)
<1>1. PICK q \in Int : a = b + Prime * q
  BY DEF Same
<1>2. PICK r \in Int : c = d + Prime * r
  BY DEF Same
<1>3. a + c = (b + d) + Prime * (q + r) /\ q + r \in Int
  BY <1>1, <1>2, FieldSizes
<1> QED BY <1>3 DEF Same

LEMMA SameProduct ==
  ASSUME NEW a \in Int, NEW b \in Int, NEW c \in Int, Same(a, b)
  PROVE  Same(a * c, b * c) /\ Same(c * a, c * b)
<1>1. PICK q \in Int : a = b + Prime * q
  BY DEF Same
<1>2. a * c = b * c + Prime * (q * c) /\ q * c \in Int /\ c * a = c * b + Prime * (q * c)
  BY <1>1, FieldSizes
<1> QED BY <1>2 DEF Same

LEMMA SameTotal ==
  ASSUME NEW f \in [Index -> Int], NEW g \in [Index -> Int], \A j \in Index : Same(f[j], g[j])
  PROVE  Same(Total(f), Total(g))
<1> DEFINE T == {n \in 0 .. Width : Same(Sums(f)[n], Sums(g)[n])}
<1>1. 0 \in T
  <2>1. Sums(f)[0] = 0 /\ Sums(g)[0] = 0 /\ Same(0, 0)
    BY TotalType, SameIsEquivalence
  <2> QED BY <2>1, FieldSizes
<1>2. ASSUME NEW n \in 1 .. Width, n - 1 \in T PROVE n \in T
  <2>1. /\ n - 1 \in Index
        /\ Sums(f)[n] = Sums(f)[n - 1] + f[n - 1] /\ Sums(f)[n - 1] \in Int
        /\ Sums(g)[n] = Sums(g)[n - 1] + g[n - 1] /\ Sums(g)[n - 1] \in Int
    BY TotalType
  <2>2. Same(Sums(f)[n - 1], Sums(g)[n - 1])
    BY <1>2
  <2>3. Same(f[n - 1], g[n - 1]) /\ f[n - 1] \in Int /\ g[n - 1] \in Int
    BY <2>1
  <2>4. n \in 0 .. Width
    BY FieldSizes
  <2>5. Same(Sums(f)[n - 1] + f[n - 1], Sums(g)[n - 1] + g[n - 1])
    BY <2>1, <2>2, <2>3, SameSum
  <2> QED BY <2>1, <2>4, <2>5
<1>3. \A n \in 0 .. Width : n \in T
  <2> HIDE DEF T
  <2> QED BY <1>1, <1>2, Climb, FieldSizes
<1>4. Width \in T
  BY <1>3, FieldSizes
<1> QED BY <1>4 DEF Total

LEMMA DotInField ==
  ASSUME NEW u \in [Index -> Int], NEW v \in [Index -> Int]
  PROVE  /\ Dot(u, v) \in Field
         /\ Same(Dot(u, v), Total([j \in Index |-> u[j] * v[j]]))
         /\ Total([j \in Index |-> u[j] * v[j]]) \in Int
<1>1. [j \in Index |-> u[j] * v[j]] \in [Index -> Int]
  OBVIOUS
<1>2. Total([j \in Index |-> u[j] * v[j]]) \in Int
  BY <1>1, TotalType
<1> QED BY <1>2, DotIsTotal, SameIsRemainder

\* Dot only depends on its second argument's remainders.
LEMMA DotOfSame ==
  ASSUME NEW u \in [Index -> Int], NEW v \in [Index -> Int], NEW w \in [Index -> Int],
         \A j \in Index : Same(v[j], w[j])
  PROVE  Dot(u, v) = Dot(u, w)
<1> DEFINE f == [j \in Index |-> u[j] * v[j]]
           g == [j \in Index |-> u[j] * w[j]]
<1>1. f \in [Index -> Int] /\ g \in [Index -> Int]
  OBVIOUS
<1>2. \A j \in Index : Same(f[j], g[j])
  BY SameProduct
<1>3. Total(f) \in Int /\ Total(g) \in Int
  <2> HIDE DEF f, g
  <2> QED BY <1>1, TotalType
<1>4. Same(Total(f), Total(g))
  <2> HIDE DEF f, g
  <2> QED BY <1>1, <1>2, SameTotal
<1>5. Total(f) % Prime = Total(g) % Prime
  <2> HIDE DEF f, g
  <2> QED BY <1>3, <1>4, SameIsRemainder
<1> QED BY <1>5, DotIsTotal

(***************************************************************************)
(* Matrices.                                                               *)
(***************************************************************************)
Inverts(A, B) ==
  \A i, j \in Index : Dot(A[i], Column(B, j)) = IF i = j THEN 1 ELSE 0

LEMMA InverseAtIndex ==
  ASSUME NEW A \in [Index -> States], NEW B \in [Index -> States], Inverts(A, B),
         NEW x \in [Index -> Int], NEW i \in Index
  PROVE  Same(Dot(A[i], Mix(B, x)), x[i])
<1> DEFINE v == Mix(B, x)
           F == [k \in Index |-> [j \in Index |-> A[i][k] * (B[k][j] * x[j])]]
           brow(k) == [j \in Index |-> B[k][j] * x[j]]
           col(j) == [k \in Index |-> A[i][k] * Column(B, j)[k]]
           fcol(j) == [k \in Index |-> F[k][j]]
           av == [k \in Index |-> A[i][k] * v[k]]
           rows == [k \in Index |-> Total(F[k])]
           cols == [j \in Index |-> Total(fcol(j))]
           hit == [j \in Index |-> IF i = j THEN x[j] ELSE 0]
<1>0. \A k, j \in Index : A[k][j] \in Int /\ B[k][j] \in Int /\ x[j] \in Int
  <2>1. \A a \in Field : a \in Int
    BY SmallRemainder
  <2> QED BY <2>1 DEF States
<1>1. A[i] \in [Index -> Int] /\ \A k \in Index : B[k] \in [Index -> Int]
  <2>1. A[i] \in States /\ \A k \in Index : B[k] \in States
    OBVIOUS
  <2>2. \A a \in Field : a \in Int
    BY SmallRemainder
  <2> QED BY <2>1, <2>2 DEF States
<1>2. v \in [Index -> Int] /\ \A k \in Index : v[k] = Dot(B[k], x) /\ Same(v[k], Total(brow(k)))
  <2>1. \A k \in Index : v[k] = Dot(B[k], x)
    BY DEF Mix
  <2>2. \A k \in Index : Dot(B[k], x) \in Int /\ Same(Dot(B[k], x), Total(brow(k)))
    BY <1>1, DotInField, SmallRemainder
  <2>3. v \in [Index -> Int]
    BY <2>2 DEF Mix
  <2> QED BY <2>1, <2>2, <2>3
<1>3. Same(Dot(A[i], v), Total(av)) /\ Dot(A[i], v) \in Int /\ Total(av) \in Int
  <2> HIDE DEF v
  <2> QED BY <1>1, <1>2, DotInField, SmallRemainder
<1>4. F \in [Index -> [Index -> Int]]
  BY <1>0
<1>5. \A k \in Index : brow(k) \in [Index -> Int] /\ Total(brow(k)) \in Int
                         /\ Total(F[k]) = A[i][k] * Total(brow(k))
  <2>1. \A k \in Index : brow(k) \in [Index -> Int]
    BY <1>0
  <2> SUFFICES ASSUME NEW k \in Index PROVE Total(brow(k)) \in Int /\ Total(F[k]) = A[i][k] * Total(brow(k))
    BY <2>1
  <2>2. \A j \in Index : F[k][j] = A[i][k] * brow(k)[j]
    OBVIOUS
  <2>3. F[k] \in [Index -> Int] /\ A[i][k] \in Int
    BY <1>4, <1>0
  <2> HIDE DEF F, brow
  <2> QED BY <2>1, <2>2, <2>3, TotalScales, TotalType
<1>6. rows \in [Index -> Int] /\ av \in [Index -> Int] /\ \A k \in Index : Same(av[k], rows[k])
  <2>1. rows \in [Index -> Int]
    <3> HIDE DEF F
    <3> QED BY <1>4, TotalType
  <2>2. av \in [Index -> Int]
    BY <1>0, <1>2
  <2>3. ASSUME NEW k \in Index PROVE Same(A[i][k] * v[k], A[i][k] * Total(brow(k)))
    <3> HIDE DEF v, brow
    <3> QED BY <1>0, <1>2, <1>5, SameProduct
  <2>4. \A k \in Index : av[k] = A[i][k] * v[k] /\ rows[k] = A[i][k] * Total(brow(k))
    BY <1>5
  <2> HIDE DEF av, rows
  <2> QED BY <2>1, <2>2, <2>3, <2>4
<1>7. Same(Total(av), Total(rows)) /\ Total(rows) \in Int
  <2> HIDE DEF av, rows
  <2> QED BY <1>6, SameTotal, TotalType
<1>8. Total(rows) = Total(cols)
  <2> HIDE DEF F
  <2> QED BY <1>4, TotalsExchange
<1>9. ASSUME NEW j \in Index
      PROVE  /\ fcol(j) \in [Index -> Int]
             /\ Same(Total(fcol(j)), hit[j])
  <2>1. col(j) \in [Index -> Int]
    BY <1>0 DEF Column
  <2>2. fcol(j) \in [Index -> Int]
    BY <1>0
  <2>3. Total(fcol(j)) = x[j] * Total(col(j))
    <3>1. ASSUME NEW k \in Index PROVE fcol(j)[k] = x[j] * col(j)[k]
      <4>1. fcol(j)[k] = A[i][k] * (B[k][j] * x[j]) /\ col(j)[k] = A[i][k] * B[k][j]
        BY DEF Column
      <4>2. \A a, b, c \in Int : a * (b * c) = c * (a * b)
        OBVIOUS
      <4> QED BY <4>1, <4>2, <1>0
    <3> HIDE DEF fcol, col
    <3> QED BY <1>0, <2>1, <2>2, <3>1, TotalScales
  <2>4. Same(Total(col(j)), IF i = j THEN 1 ELSE 0) /\ Total(col(j)) \in Int
    <3>1. Column(B, j) \in [Index -> Int]
      BY <1>0 DEF Column
    <3>2. /\ Same(Dot(A[i], Column(B, j)), Total(col(j))) /\ Total(col(j)) \in Int
          /\ Dot(A[i], Column(B, j)) \in Int
      BY <1>1, <3>1, DotInField, SmallRemainder
    <3>3. Dot(A[i], Column(B, j)) = IF i = j THEN 1 ELSE 0
      BY DEF Inverts
    <3> HIDE DEF col
    <3> QED BY <3>2, <3>3, SameIsEquivalence
  <2>5. Same(x[j] * Total(col(j)), x[j] * (IF i = j THEN 1 ELSE 0))
    <3> DEFINE d == IF i = j THEN 1 ELSE 0
    <3>1. d \in Int /\ x[j] \in Int /\ Total(col(j)) \in Int /\ Same(Total(col(j)), d)
      BY <1>0, <2>4
    <3> HIDE DEF col, d
    <3>2. Same(x[j] * Total(col(j)), x[j] * d)
      BY <3>1, SameProduct
    <3> QED BY <3>2 DEF d
  <2>6. x[j] * (IF i = j THEN 1 ELSE 0) = hit[j]
    BY <1>0
  <2> QED BY <2>2, <2>3, <2>5, <2>6
<1>10. cols \in [Index -> Int] /\ hit \in [Index -> Int] /\ \A j \in Index : Same(cols[j], hit[j])
  <2>1. hit \in [Index -> Int]
    BY <1>0
  <2> HIDE DEF hit, fcol
  <2>2. \A j \in Index : Total(fcol(j)) \in Int
    BY <1>9, TotalType
  <2> QED BY <1>9, <2>1, <2>2
<1>11. Same(Total(cols), Total(hit)) /\ Total(hit) \in Int
  <2> HIDE DEF cols, hit
  <2> QED BY <1>10, SameTotal, TotalType
<1>12. Total(hit) = x[i]
  <2>1. hit[i] = x[i] /\ \A j \in Index : j # i => hit[j] = 0
    OBVIOUS
  <2> HIDE DEF hit
  <2> QED BY <1>10, <2>1, TotalOfOne
<1> HIDE DEF v, av, rows, cols, hit
<1>13. Same(Total(av), x[i]) /\ x[i] \in Int
  BY <1>3, <1>7, <1>8, <1>11, <1>12, <1>0, SameIsEquivalence
<1>14. Same(Dot(A[i], v), x[i])
  BY <1>3, <1>13, SameIsEquivalence
<1> QED BY <1>14 DEF v

\* A matrix undoes its inverse.
LEMMA MixUndone ==
  ASSUME NEW A \in [Index -> States], NEW B \in [Index -> States], Inverts(A, B),
         NEW x \in States
  PROVE  Mix(A, Mix(B, x)) = x
<1>1. x \in [Index -> Int] /\ \A i \in Index : x[i] \in Field
  BY SmallRemainder DEF States
<1>2. \A i \in Index : A[i] \in [Index -> Int] /\ B[i] \in [Index -> Int]
  <2>1. \A i \in Index : A[i] \in States /\ B[i] \in States
    OBVIOUS
  <2>2. \A a \in Field : a \in Int
    BY SmallRemainder
  <2> QED BY <2>1, <2>2 DEF States
<1>3. Mix(B, x) \in [Index -> Int]
  BY <1>1, <1>2, DotInField, SmallRemainder DEF Mix
<1>4. ASSUME NEW i \in Index PROVE Dot(A[i], Mix(B, x)) = x[i]
  <2>1. Same(Dot(A[i], Mix(B, x)), x[i])
    BY <1>1, InverseAtIndex
  <2>2. Dot(A[i], Mix(B, x)) \in Field
    BY <1>2, <1>3, DotInField
  <2> QED BY <1>1, <2>1, <2>2, SmallRemainder, SameIsRemainder
<1>5. Mix(A, Mix(B, x)) = [i \in Index |-> x[i]]
  BY <1>4 DEF Mix
<1> QED BY <1>5 DEF States

LEMMA MixStays ==
  ASSUME NEW A \in [Index -> States], NEW x \in [Index -> Int]
  PROVE  Mix(A, x) \in States
<1>1. \A i \in Index : A[i] \in [Index -> Int]
  <2>1. \A i \in Index : A[i] \in States
    OBVIOUS
  <2>2. \A a \in Field : a \in Int
    BY SmallRemainder
  <2> QED BY <2>1, <2>2 DEF States
<1> QED BY <1>1, DotInField DEF Mix, States

\* The two matrices of the gates.
LEMMA MdsFacts ==
  /\ Mds \in [Index -> States] /\ MdsInv \in [Index -> States]
  /\ Inverts(Mds, MdsInv) /\ Inverts(MdsInv, Mds)
BY PoseidonAssumption DEF Inverts

(***************************************************************************)
(* The rounds and the gates.                                               *)
(***************************************************************************)
LEMMA RoundNumbers ==
  /\ HalfFull \in Nat /\ HalfPartial \in Nat
  /\ FullRounds = 2 * HalfFull /\ PartialRounds = 2 * HalfPartial
  /\ Rounds = FullRounds + PartialRounds /\ Rounds \in Nat
  /\ RowCount = FullRounds + HalfPartial /\ RowCount \in Nat
BY PoseidonAssumption DEF HalfFull, HalfPartial, Rounds, RowCount

LEMMA RoundsOfRows ==
  ASSUME NEW i \in 0 .. RowCount - 1
  PROVE  /\ RoundOfRow(i) \in 0 .. Rounds - 1
         /\ IsPartialRow(i) => RoundOfRow(i) + 1 \in 0 .. Rounds - 1
BY RoundNumbers DEF RoundOfRow, IsPartialRow

LEMMA StateParts ==
  ASSUME NEW s \in States, NEW r \in 0 .. Rounds - 1
  PROVE  /\ s \in [Index -> Int]
         /\ RoundConstants[r] \in [Index -> Int]
         /\ \A i \in Index : s[i] \in Field /\ s[i] \in Int /\ RoundConstants[r][i] \in Int
         /\ AddConstants(s, r) \in States
<1>1. RoundConstants[r] \in States
  BY PoseidonAssumption
<1>2. \A a \in Field : a \in Int
  BY SmallRemainder
<1>3. /\ s \in [Index -> Int]
      /\ RoundConstants[r] \in [Index -> Int]
      /\ \A i \in Index : s[i] \in Field /\ s[i] \in Int /\ RoundConstants[r][i] \in Int
  BY <1>1, <1>2 DEF States
<1>4. \A i \in Index : (s[i] + RoundConstants[r][i]) % Prime \in Field
  <2> SUFFICES ASSUME NEW i \in Index PROVE (s[i] + RoundConstants[r][i]) % Prime \in Field
    OBVIOUS
  <2>1. s[i] + RoundConstants[r][i] \in Int
    BY <1>3
  <2> QED BY <2>1, SameIsRemainder
<1> QED BY <1>3, <1>4 DEF AddConstants, States

LEMMA Pow5Stays ==
  ASSUME NEW x \in Int
  PROVE  Pow5(x) \in Field
<1>1. x * x * x * x * x \in Int
  OBVIOUS
<1> QED BY <1>1, SameIsRemainder DEF Pow5

Boxed(s, r) == [j \in Index |-> Pow5(AddConstants(s, r)[j])]
PartBoxed(s, r) == [AddConstants(s, r) EXCEPT ![0] = Pow5(@)]

LEMMA BoxedStays ==
  ASSUME NEW s \in States, NEW r \in 0 .. Rounds - 1
  PROVE  Boxed(s, r) \in States /\ PartBoxed(s, r) \in States
<1>1. AddConstants(s, r) \in States /\ \A a \in Field : a \in Int
  BY StateParts, SmallRemainder
<1>2. \A j \in Index : AddConstants(s, r)[j] \in Int
  BY <1>1 DEF States
<1>3. \A j \in Index : Pow5(AddConstants(s, r)[j]) \in Field
  BY <1>2, Pow5Stays
<1> QED BY <1>1, <1>3, FieldSizes DEF Boxed, PartBoxed, States

LEMMA RoundsStay ==
  ASSUME NEW s \in States, NEW r \in 0 .. Rounds - 1
  PROVE  /\ FullRound(s, r) = Mix(Mds, Boxed(s, r)) /\ FullRound(s, r) \in States
         /\ PartRound(s, r) = Mix(Mds, PartBoxed(s, r)) /\ PartRound(s, r) \in States
<1>1. FullRound(s, r) = Mix(Mds, Boxed(s, r)) /\ PartRound(s, r) = Mix(Mds, PartBoxed(s, r))
  BY DEF FullRound, PartRound, Boxed, PartBoxed
<1>2. Boxed(s, r) \in [Index -> Int] /\ PartBoxed(s, r) \in [Index -> Int]
  BY BoxedStays, StateParts
<1> QED BY <1>1, <1>2, MixStays, MdsFacts

LEMMA SameState ==
  ASSUME NEW s \in States, NEW t \in States, \A i \in Index : s[i] = t[i]
  PROVE  s = t
BY DEF States

\* The gate of a full round is the round.
LEMMA FullGateIsRound ==
  ASSUME NEW s \in States, NEW r \in 0 .. Rounds - 1, NEW next \in States
  PROVE  FullGate(s, r, next) <=> next = FullRound(s, r)
<1>1. Boxed(s, r) = [j \in Index |-> Pow5((s[j] + RoundConstants[r][j]) % Prime)]
  BY DEF Boxed, AddConstants
<1>2. FullGate(s, r, next) <=> \A i \in Index : Dot(Mds[i], Boxed(s, r)) = next[i]
  BY <1>1 DEF FullGate
<1>3. \A i \in Index : FullRound(s, r)[i] = Dot(Mds[i], Boxed(s, r))
  BY RoundsStay DEF Mix
<1>4. FullRound(s, r) \in States
  BY RoundsStay
<1> QED BY <1>2, <1>3, <1>4, SameState

\* The gate of the partial rounds is two of them.
LEMMA PartialGateIsRounds ==
  ASSUME NEW s \in States, NEW r \in 0 .. Rounds - 1, r + 1 \in 0 .. Rounds - 1,
         NEW next \in States, NEW sbox \in Field
  PROVE  PartialGate(s, r, sbox, next) <=>
           /\ sbox = Pow5((s[0] + RoundConstants[r][0]) % Prime)
           /\ next = PartRound(PartRound(s, r), r + 1)
<1> DEFINE mixed == [j \in Index |-> IF j = 0 THEN sbox ELSE s[j] + RoundConstants[r][j]]
           mid(i) == (Dot(Mds[i], mixed) + RoundConstants[r + 1][i]) % Prime
           t == PartRound(s, r)
           u == PartBoxed(t, r + 1)
<1>1. SUFFICES ASSUME sbox = Pow5((s[0] + RoundConstants[r][0]) % Prime)
               PROVE  PartialGate(s, r, sbox, next) <=> next = PartRound(t, r + 1)
  BY DEF PartialGate
<1>2. \A i \in Index : Dot(Mds[i], mixed) = t[i]
  <2>1. \A j \in Index : mixed[j] \in Int /\ Same(mixed[j], PartBoxed(s, r)[j])
    <3> SUFFICES ASSUME NEW j \in Index PROVE mixed[j] \in Int /\ Same(mixed[j], PartBoxed(s, r)[j])
      OBVIOUS
    <3>1. AddConstants(s, r)[j] = (s[j] + RoundConstants[r][j]) % Prime
      BY DEF AddConstants
    <3>2. PartBoxed(s, r)[j] = IF j = 0 THEN Pow5(AddConstants(s, r)[j]) ELSE AddConstants(s, r)[j]
      BY StateParts DEF PartBoxed, States
    <3>3. s[j] + RoundConstants[r][j] \in Int /\ sbox \in Int
      BY StateParts, SmallRemainder
    <3>4. CASE j = 0
      BY <1>1, <3>1, <3>2, <3>3, <3>4, SameIsEquivalence
    <3>5. CASE j # 0
      <4> DEFINE a == s[j] + RoundConstants[r][j]
      <4>1. mixed[j] = a /\ PartBoxed(s, r)[j] = a % Prime /\ a \in Int
        BY <3>1, <3>2, <3>3, <3>5
      <4> HIDE DEF a, mixed
      <4>2. a % Prime \in Int /\ Same(a % Prime, a)
        BY <4>1, SameIsRemainder, SmallRemainder
      <4> QED BY <4>1, <4>2, SameIsEquivalence
    <3> QED BY <3>4, <3>5
  <2>2. mixed \in [Index -> Int]
    BY <2>1
  <2>3. \A i \in Index : t[i] = Dot(Mds[i], PartBoxed(s, r))
    BY RoundsStay DEF Mix
  <2>4. PartBoxed(s, r) \in [Index -> Int]
    BY BoxedStays, StateParts
  <2>5. \A i \in Index : Mds[i] \in [Index -> Int]
    <3>1. \A i \in Index : Mds[i] \in States
      BY MdsFacts
    <3> QED BY <3>1, StateParts
  <2> HIDE DEF mixed, t
  <2> QED BY <2>1, <2>2, <2>3, <2>4, <2>5, DotOfSame
<1>3. t \in States
  BY RoundsStay
<1>4. u \in States /\ u \in [Index -> Int]
  <2> HIDE DEF t
  <2> QED BY <1>3, BoxedStays, StateParts
<1>5. \A i \in Index : u[i] = IF i = 0 THEN Pow5(mid(i)) ELSE mid(i)
  <2> HIDE DEF t
  <2>1. \A i \in Index : AddConstants(t, r + 1)[i] = (t[i] + RoundConstants[r + 1][i]) % Prime
    BY DEF AddConstants
  <2>2. AddConstants(t, r + 1) \in States
    BY <1>3, StateParts
  <2>3. \A i \in Index : AddConstants(t, r + 1)[i] = mid(i)
    BY <1>2, <2>1
  <2> HIDE DEF mid
  <2> QED BY <2>2, <2>3 DEF PartBoxed, States
<1>6. PartialGate(s, r, sbox, next) <=> \A i \in Index : u[i] = Dot(MdsInv[i], next)
  <2>1. PartialGate(s, r, sbox, next) <=>
          /\ Pow5(mid(0)) = Dot(MdsInv[0], next)
          /\ \A i \in Index \ {0} : mid(i) = Dot(MdsInv[i], next)
    BY <1>1 DEF PartialGate
  <2> HIDE DEF mid, u
  <2> QED BY <1>5, <2>1, FieldSizes
<1>7. PartRound(t, r + 1) = Mix(Mds, u)
  <2> HIDE DEF t
  <2> QED BY <1>3, RoundsStay
<1> HIDE DEF u, t
<1>8. next \in [Index -> Int] /\ Mix(MdsInv, next) \in States
  <2>1. next \in [Index -> Int]
    BY SmallRemainder DEF States
  <2> QED BY <2>1, MixStays, MdsFacts
<1>9. (\A i \in Index : u[i] = Dot(MdsInv[i], next)) <=> u = Mix(MdsInv, next)
  <2>1. \A i \in Index : Mix(MdsInv, next)[i] = Dot(MdsInv[i], next)
    BY DEF Mix
  <2> QED BY <1>4, <1>8, <2>1, SameState
<1>10. u = Mix(MdsInv, next) <=> next = Mix(Mds, u)
  <2>1. Mix(Mds, Mix(MdsInv, next)) = next
    BY MixUndone, MdsFacts
  <2>2. Mix(MdsInv, Mix(Mds, u)) = u
    BY <1>4, MixUndone, MdsFacts
  <2> QED BY <2>1, <2>2
<1> QED BY <1>6, <1>7, <1>9, <1>10

\* Every row has one next row, and the gates hold of it.
LEMMA RowGateIsNextRow ==
  ASSUME NEW s \in States, NEW i \in 0 .. RowCount - 1, NEW next \in States
  PROVE  /\ NextRow(s, i) \in States
         /\ SboxCell(s, i) \in Field
         /\ \A sbox \in Field : RowGate(s, i, sbox, next) => next = NextRow(s, i)
         /\ RowGate(s, i, SboxCell(s, i), NextRow(s, i))
<1> DEFINE r == RoundOfRow(i)
<1>1. r \in 0 .. Rounds - 1 /\ (IsPartialRow(i) => r + 1 \in 0 .. Rounds - 1)
  BY RoundsOfRows
<1>2. SboxCell(s, i) \in Field /\ SboxCell(s, i) = Pow5((s[0] + RoundConstants[r][0]) % Prime)
  <2> HIDE DEF r
  <2>1. s[0] + RoundConstants[r][0] \in Int
    BY <1>1, StateParts, FieldSizes
  <2>2. (s[0] + RoundConstants[r][0]) % Prime \in Int
    BY <2>1, SameIsRemainder, SmallRemainder
  <2> QED BY <2>2, Pow5Stays DEF SboxCell, r
<1>3. CASE IsPartialRow(i)
  <2>1. NextRow(s, i) = PartRound(PartRound(s, r), r + 1)
    BY <1>3 DEF NextRow
  <2>2. NextRow(s, i) \in States
    <3> HIDE DEF r
    <3> QED BY <1>1, <1>3, <2>1, RoundsStay
  <2>3. \A n \in States, sbox \in Field : RowGate(s, i, sbox, n) <=> PartialGate(s, r, sbox, n)
    BY <1>3 DEF RowGate
  <2> HIDE DEF r
  <2> QED BY <1>1, <1>2, <1>3, <2>1, <2>2, <2>3, PartialGateIsRounds
<1>4. CASE ~IsPartialRow(i)
  <2>1. NextRow(s, i) = FullRound(s, r)
    BY <1>4 DEF NextRow
  <2>2. NextRow(s, i) \in States
    <3> HIDE DEF r
    <3> QED BY <1>1, <2>1, RoundsStay
  <2>3. \A n \in States, sbox \in Field : RowGate(s, i, sbox, n) <=> FullGate(s, r, n)
    BY <1>4 DEF RowGate
  <2> HIDE DEF r
  <2> QED BY <1>1, <1>2, <2>1, <2>2, <2>3, FullGateIsRound
<1> QED BY <1>3, <1>4

(***************************************************************************)
(* The permutation, a round at a time.                                     *)
(***************************************************************************)
RoundAfter(n, s) ==
  IF n - 1 < HalfFull \/ n - 1 >= HalfFull + PartialRounds
  THEN FullRound(s, n - 1)
  ELSE PartRound(s, n - 1)

\* after holds the states of a permutation of s after each of its rounds.
PermutesBy(s, after) ==
  /\ after \in [0 .. Rounds -> States]
  /\ after[0] = s
  /\ \A n \in 1 .. Rounds : after[n] = RoundAfter(n, after[n - 1])

LEMMA PermuteExists ==
  ASSUME NEW s \in States
  PROVE  \E after : PermutesBy(s, after) /\ Permute(s) = after[Rounds]
<1> DEFINE step == [n \in 1 .. Rounds |-> [x \in States |-> RoundAfter(n, x)]]
           after[n \in 0 .. Rounds] ==
             IF n = 0 THEN s
             ELSE IF n - 1 < HalfFull \/ n - 1 >= HalfFull + PartialRounds
             THEN FullRound(after[n - 1], n - 1)
             ELSE PartRound(after[n - 1], n - 1)
<1>0. Rounds \in Nat /\ \A n \in 1 .. Rounds : n - 1 \in 0 .. Rounds - 1 /\ n - 1 \in 0 .. Rounds
  BY RoundNumbers
<1>1. \A n \in 1 .. Rounds, x \in States : RoundAfter(n, x) \in States
  BY <1>0, RoundsStay DEF RoundAfter
<1>2. Steps(Rounds, States, step)
  BY <1>1 DEF Steps
<1>3. PICK g : Recursive(Rounds, States, s, step, g)
  <2> HIDE DEF step
  <2> QED BY <1>0, <1>2, RecursionExists
<1>4. PermutesBy(s, g)
  <2>1. \A n \in 1 .. Rounds : g[n] = RoundAfter(n, g[n - 1])
    BY <1>0, <1>3 DEF Recursive
  <2> QED BY <1>3, <2>1 DEF Recursive, PermutesBy
<1>5. g = [n \in 0 .. Rounds |->
             IF n = 0 THEN s
             ELSE IF n - 1 < HalfFull \/ n - 1 >= HalfFull + PartialRounds
             THEN FullRound(g[n - 1], n - 1)
             ELSE PartRound(g[n - 1], n - 1)]
  <2>1. ASSUME NEW n \in 0 .. Rounds
        PROVE  g[n] = IF n = 0 THEN s ELSE RoundAfter(n, g[n - 1])
    BY <1>0, <1>4 DEF PermutesBy
  <2>2. g = [n \in 0 .. Rounds |-> IF n = 0 THEN s ELSE RoundAfter(n, g[n - 1])]
    BY <1>4, <2>1 DEF PermutesBy
  <2> QED BY <2>2 DEF RoundAfter
<1>6. after = [n \in 0 .. Rounds |->
             IF n = 0 THEN s
             ELSE IF n - 1 < HalfFull \/ n - 1 >= HalfFull + PartialRounds
             THEN FullRound(after[n - 1], n - 1)
             ELSE PartRound(after[n - 1], n - 1)]
  BY <1>5, Zenon
<1>7. Permute(s) = after[Rounds]
  BY DEF Permute
<1> HIDE DEF after
<1>8. after[0] = s /\ \A n \in 1 .. Rounds : after[n] = RoundAfter(n, after[n - 1])
  <2>1. ASSUME NEW n \in 1 .. Rounds PROVE after[n] = RoundAfter(n, after[n - 1])
    BY <1>0, <1>6 DEF RoundAfter
  <2> QED BY <1>0, <1>6, <2>1
<1>9. \A n \in 0 .. Rounds : after[n] = g[n]
  <2> DEFINE T == {n \in 0 .. Rounds : after[n] = g[n]}
  <2>1. 0 \in T
    BY <1>0, <1>4, <1>8 DEF PermutesBy
  <2>2. ASSUME NEW n \in 1 .. Rounds, n - 1 \in T PROVE n \in T
    BY <1>0, <1>4, <1>8, <2>2 DEF PermutesBy
  <2> HIDE DEF T
  <2>3. \A n \in 0 .. Rounds : n \in T
    BY <1>0, <2>1, <2>2, Climb
  <2> QED BY <2>3 DEF T
<1> QED BY <1>0, <1>4, <1>7, <1>9

\* The rounds done when a row is assigned.
RoundsDone(i) ==
  IF i < HalfFull THEN i
  ELSE IF i < HalfFull + HalfPartial THEN HalfFull + 2 * (i - HalfFull)
  ELSE i + HalfPartial

LEMMA RoundsDoneBounds ==
  /\ RoundsDone(0) = 0
  /\ RoundsDone(RowCount) = Rounds
  /\ \A i \in 0 .. RowCount : RoundsDone(i) \in 0 .. Rounds
BY RoundNumbers DEF RoundsDone

\* A row does one full round or two partial ones.
LEMMA RowAdvances ==
  ASSUME NEW s, NEW after, PermutesBy(s, after), NEW i \in 0 .. RowCount - 1
  PROVE  NextRow(after[RoundsDone(i)], i) = after[RoundsDone(i + 1)]
<1> DEFINE k == RoundsDone(i)
<1>0. /\ \A n \in 1 .. Rounds : after[n] = RoundAfter(n, after[n - 1])
  BY DEF PermutesBy
<1>1. CASE IsPartialRow(i)
  <2>1. /\ k = RoundOfRow(i) /\ RoundsDone(i + 1) = k + 2 /\ k \in Nat
        /\ k >= HalfFull /\ k + 1 < HalfFull + PartialRounds /\ k + 2 <= Rounds
    BY <1>1, RoundNumbers DEF RoundsDone, RoundOfRow, IsPartialRow
  <2> HIDE DEF k
  <2>2. after[k + 1] = PartRound(after[k], k)
    <3>1. k + 1 \in 1 .. Rounds /\ (k + 1) - 1 = k
      BY <2>1, RoundNumbers
    <3>2. after[k + 1] = RoundAfter(k + 1, after[k])
      BY <1>0, <3>1
    <3>3. ~(k < HalfFull) /\ ~(k >= HalfFull + PartialRounds)
      BY <2>1, RoundNumbers
    <3> QED BY <3>1, <3>2, <3>3 DEF RoundAfter
  <2>3. after[k + 2] = PartRound(after[k + 1], k + 1)
    <3>1. k + 2 \in 1 .. Rounds /\ (k + 2) - 1 = k + 1
      BY <2>1, RoundNumbers
    <3>2. after[k + 2] = RoundAfter(k + 2, after[k + 1])
      BY <1>0, <3>1
    <3>3. ~(k + 1 < HalfFull) /\ ~(k + 1 >= HalfFull + PartialRounds)
      BY <2>1, RoundNumbers
    <3> QED BY <3>1, <3>2, <3>3 DEF RoundAfter
  <2> QED BY <1>1, <2>1, <2>2, <2>3 DEF NextRow, k
<1>2. CASE ~IsPartialRow(i)
  <2>1. /\ k = RoundOfRow(i) /\ RoundsDone(i + 1) = k + 1 /\ k \in Nat
        /\ k < HalfFull \/ k >= HalfFull + PartialRounds
        /\ k + 1 <= Rounds
    BY <1>2, RoundNumbers DEF RoundsDone, RoundOfRow, IsPartialRow
  <2> HIDE DEF k
  <2>2. after[k + 1] = FullRound(after[k], k)
    <3>1. k + 1 \in 1 .. Rounds /\ (k + 1) - 1 = k
      BY <2>1, RoundNumbers
    <3>2. after[k + 1] = RoundAfter(k + 1, after[k])
      BY <1>0, <3>1
    <3> QED BY <2>1, <3>1, <3>2 DEF RoundAfter
  <2> QED BY <1>2, <2>1, <2>2 DEF NextRow, k
<1> QED BY <1>1, <1>2

(***************************************************************************)
(* The sponges.                                                            *)
(***************************************************************************)
EqualWords == {w \in [chip : Field, native : Field] : w.chip = w.native}

\* The chip has done some rows of the permutation that gave the native state.
Underway ==
  \E start, after : /\ PermutesBy(start, after)
                    /\ native = after[Rounds]
                    /\ chip = after[RoundsDone(row)]

SpongeInv ==
  /\ hashing \in {"idle", "absorb", "more", "last", "squeeze", "panicked"}
  /\ gates = TRUE
  /\ words \in Seq(EqualWords) /\ mode \in Seq(EqualWords) /\ Len(mode) <= Rate
  /\ native \in States /\ chip \in States
  /\ row \in 0 .. RowCount
  /\ hashing \in {"more", "last"} => Underway
  /\ hashing \notin {"more", "last"} => chip = native

LEMMA Heads ==
  ASSUME NEW s \in Seq(EqualWords), s # <<>>
  PROVE  /\ Head(s) \in EqualWords /\ Tail(s) \in Seq(EqualWords)
         /\ Len(s) \in Nat /\ Len(s) > 0 /\ Len(Tail(s)) = Len(s) - 1
         /\ Head(s) = s[1]
BY HeadTailProperties, EmptySeq

LEMMA Appended ==
  ASSUME NEW s \in Seq(EqualWords), NEW w \in EqualWords
  PROVE  /\ Append(s, w) \in Seq(EqualWords) /\ Len(s) \in Nat
         /\ Len(Append(s, w)) = Len(s) + 1
         /\ <<w>> \in Seq(EqualWords) /\ Len(<<w>>) = 1
BY AppendProperties, LenProperties

LEMMA AddInputStays ==
  ASSUME NEW s \in States, NEW input \in [1 .. Rate -> Field]
  PROVE  AddInput(s, input) \in States /\ AddGate(s, input, AddInput(s, input))
<1>1. \A i \in Index : s[i] \in Field /\ s[i] \in Int
  BY SmallRemainder DEF States
<1>2. ASSUME NEW i \in 0 .. Rate - 1
      PROVE  /\ i \in Index /\ i # Rate /\ i < Rate /\ i + 1 \in 1 .. Rate
             /\ input[i + 1] \in Field /\ input[i + 1] \in Int
             /\ s[i] + input[i + 1] \in Int
  <2>1. i \in Index /\ i # Rate /\ i < Rate /\ i + 1 \in 1 .. Rate
    BY FieldSizes DEF Index
  <2>2. input[i + 1] \in Field /\ input[i + 1] \in Int
    BY <2>1, SmallRemainder
  <2> QED BY <1>1, <2>1, <2>2
<1>3. \A i \in Index : i < Rate => i \in 0 .. Rate - 1
  BY FieldSizes DEF Index
<1>4. \A i \in Index : AddInput(s, input)[i]
                         = IF i < Rate THEN (s[i] + input[i + 1]) % Prime ELSE s[i]
  BY DEF AddInput
<1>5. \A i \in 0 .. Rate - 1 : (s[i] + input[i + 1]) % Prime \in Field
  BY <1>2, SameIsRemainder
<1>6. AddInput(s, input) \in States
  <2>1. \A i \in Index : AddInput(s, input)[i] \in Field
    BY <1>1, <1>3, <1>4, <1>5
  <2> QED BY <2>1 DEF AddInput, States
<1>7. ASSUME NEW i \in 0 .. Rate - 1
      PROVE  (s[i] + input[i + 1] - AddInput(s, input)[i]) % Prime = 0
  <2> DEFINE a == s[i] + input[i + 1]
             b == a % Prime
  <2>1. a \in Int /\ AddInput(s, input)[i] = b
    BY <1>2, <1>4
  <2> HIDE DEF a
  <2>2. b \in Field /\ b \in Int /\ Same(a, b)
    BY <2>1, SameIsRemainder, SameIsEquivalence, SmallRemainder
  <2> HIDE DEF b
  <2>3. PICK q \in Int : a = b + Prime * q
    BY <2>2 DEF Same
  <2>4. a - b = 0 + Prime * q
    BY <2>1, <2>2, <2>3, FieldSizes
  <2>5. Same(a - b, 0) /\ a - b \in Int
    BY <2>1, <2>2, <2>4 DEF Same
  <2>6. (a - b) % Prime = 0
    <3>1. 0 \in Int /\ 0 % Prime = 0
      BY SmallRemainder, FieldSizes
    <3> DEFINE c == a - b
    <3>2. c \in Int /\ Same(c, 0)
      BY <2>5
    <3> HIDE DEF c
    <3>3. c % Prime = 0
      BY <3>1, <3>2, SameIsRemainder
    <3> QED BY <3>3 DEF c
  <2>7. s[i] + input[i + 1] - b = a - b
    BY <1>1, <1>2, <2>2 DEF a
  <2> QED BY <2>1, <2>6, <2>7
<1>8. AddInput(s, input)[Rate] = s[Rate]
  BY <1>4, FieldSizes
<1> QED BY <1>6, <1>7, <1>8 DEF AddGate

LEMMA InitialStateStays ==
  ASSUME NEW n \in DOMAIN Capacity
  PROVE  InitialState(n) \in States
<1>1. Capacity[n] \in Field
  BY PoseidonAssumption
<1> QED BY <1>1, FieldSizes DEF InitialState, States

LEMMA PaddingIs ==
  ASSUME NEW n \in Nat
  PROVE  /\ Padding(n) \in Seq(EqualWords)
         /\ \E k \in Nat : n + Len(Padding(n)) = k * Rate
<1> DEFINE blocks == (n + Rate - 1) \div Rate
           rem == (n + Rate - 1) % Rate
           pad == blocks * Rate - n
<1>1. /\ n + Rate - 1 \in Nat /\ Rate \in Nat /\ Rate > 0
      /\ blocks \in Int /\ rem \in Int /\ rem >= 0 /\ rem < Rate
      /\ n + Rate - 1 = (Rate * blocks) + rem
  BY FieldSizes
<1>2. Padding(n) = [i \in 1 .. pad |-> [chip |-> 0, native |-> 0]]
  BY DEF Padding
<1> HIDE DEF blocks, rem
<1>3. pad >= 0 /\ pad \in Nat
  <2>1. Rate * blocks = n + Rate - 1 - rem /\ Rate * blocks = blocks * Rate
    BY <1>1
  <2> QED BY <1>1, <2>1
<1>4. blocks \in Nat
  <2>1. CASE blocks <= -1
    <3>1. blocks * Rate <= - Rate
      BY <1>1, <2>1
    <3> QED BY <3>1, <1>1, <1>3
  <2> QED BY <2>1, <1>1
<1>5. n + pad = blocks * Rate
  BY <1>1
<1> HIDE DEF pad
<1>6. [chip |-> 0, native |-> 0] \in EqualWords
  BY FieldSizes DEF EqualWords
<1>7. Padding(n) \in Seq(EqualWords) /\ Len(Padding(n)) = pad
  <2>1. Padding(n) \in [1 .. pad -> EqualWords]
    BY <1>2, <1>6
  <2> QED BY <1>3, <2>1, LenProperties, SeqDef
<1> QED BY <1>4, <1>5, <1>7

\* What StartHash may be given.
StartKeeps(message) ==
  message \in Seq(EqualWords) /\ Len(message) \in DOMAIN Capacity

LEMMA StartHashKeeps ==
  ASSUME SpongeInv, NEW message, StartKeeps(message), StartHash(message)
  PROVE  /\ SpongeInv'
         /\ \E k \in Nat : Len(words') + Len(mode') = k * Rate
         /\ Len(words') + Len(mode') = 0 => message = <<>>
<1>1. /\ message \in Seq(EqualWords) /\ Len(message) \in Nat
      /\ Padding(Len(message)) \in Seq(EqualWords) /\ Len(Padding(Len(message))) \in Nat
  BY PaddingIs, LenProperties DEF StartKeeps
<1>2. /\ words' \in Seq(EqualWords)
      /\ Len(words') = Len(message) + Len(Padding(Len(message)))
  BY <1>1, ConcatProperties DEF StartHash
<1>3. mode' = <<>> /\ mode' \in Seq(EqualWords) /\ Len(mode') = 0 /\ Len(mode') <= Rate
  BY EmptySeq, FieldSizes DEF StartHash
<1>4. native' \in States /\ chip' = native'
  BY InitialStateStays DEF StartHash, StartKeeps
<1>5. hashing' = "absorb" /\ gates' = gates /\ row' = 0 /\ row' \in 0 .. RowCount
  BY RoundNumbers DEF StartHash
<1>6. SpongeInv'
  BY <1>2, <1>3, <1>4, <1>5 DEF SpongeInv
<1>7. \E k \in Nat : Len(words') + Len(mode') = k * Rate
  BY <1>1, <1>2, <1>3, PaddingIs
<1>8. Len(words') + Len(mode') = 0 => message = <<>>
  BY <1>1, <1>2, <1>3, EmptySeq
<1> QED BY <1>6, <1>7, <1>8

LEMMA SpongeKeeps ==
  ASSUME SpongeInv, Len(mode) = Rate, hashing = "absorb", Sponge,
         hashing' \in {"more", "last"},
         words' \in Seq(EqualWords), mode' \in Seq(EqualWords), Len(mode') <= Rate
  PROVE  SpongeInv'
<1> DEFINE input == [i \in 1 .. Rate |-> mode[i].chip]
           start == AddInput(chip, input)
<1>1. \A i \in 1 .. Rate : mode[i] \in EqualWords
  BY LenProperties, ElementOfSeq DEF SpongeInv
<1>2. input = [i \in 1 .. Rate |-> mode[i].native] /\ input \in [1 .. Rate -> Field]
  BY <1>1 DEF EqualWords
<1>3. chip = native /\ chip \in States
  BY DEF SpongeInv
<1>4. start \in States /\ AddGate(chip, input, start)
  <2> HIDE DEF input
  <2> QED BY <1>2, <1>3, AddInputStays
<1>5. /\ native' = Permute(start) /\ chip' = start /\ row' = 0
      /\ gates' = (gates /\ AddGate(chip, input, start))
  BY <1>2, <1>3 DEF Sponge
<1> HIDE DEF start, input
<1>6. PICK after : PermutesBy(start, after) /\ Permute(start) = after[Rounds]
  BY <1>4, PermuteExists
<1>7. native' = after[Rounds] /\ chip' = after[RoundsDone(row')]
  BY <1>5, <1>6, RoundsDoneBounds DEF PermutesBy
<1>8. Underway'
  BY <1>6, <1>7 DEF Underway
<1>9. native' \in States /\ chip' \in States
  <2>1. Rounds \in 0 .. Rounds
    BY RoundNumbers
  <2> QED BY <1>4, <1>5, <1>6, <1>7, <2>1 DEF PermutesBy
<1>10. gates' = TRUE
  BY <1>4, <1>5 DEF SpongeInv
<1>11. row' \in 0 .. RowCount
  BY <1>5, RoundNumbers
<1> QED BY <1>8, <1>9, <1>10, <1>11 DEF SpongeInv

LEMMA AssignRowKeeps ==
  ASSUME SpongeInv, AssignRow
  PROVE  SpongeInv'
<1>1. PICK start, after : /\ PermutesBy(start, after)
                          /\ native = after[Rounds] /\ chip = after[RoundsDone(row)]
  BY DEF AssignRow, SpongeInv, Underway
<1>2. row \in 0 .. RowCount - 1 /\ row' = row + 1 /\ row' \in 0 .. RowCount
  BY RoundNumbers DEF SpongeInv, AssignRow
<1>3. chip' = after[RoundsDone(row')]
  BY <1>1, <1>2, RowAdvances DEF AssignRow
<1>4. native' = native /\ words' = words /\ mode' = mode /\ hashing' = hashing
  BY DEF AssignRow
<1>5. Underway'
  BY <1>1, <1>3, <1>4 DEF Underway
<1>6. chip \in States /\ chip' = NextRow(chip, row) /\ chip' \in States
  BY <1>2, RowGateIsNextRow DEF SpongeInv, AssignRow
<1>7. gates' = TRUE
  <2>1. RowGate(chip, row, SboxCell(chip, row), NextRow(chip, row))
    BY <1>2, <1>6, RowGateIsNextRow
  <2> QED BY <2>1 DEF AssignRow, SpongeInv
<1>8. hashing \in {"more", "last"}
  BY DEF AssignRow
<1> QED BY <1>2, <1>4, <1>5, <1>6, <1>7, <1>8 DEF SpongeInv

LEMMA PermutationDoneKeeps ==
  ASSUME SpongeInv, PermutationDone
  PROVE  SpongeInv'
<1>1. PICK start, after : /\ PermutesBy(start, after)
                          /\ native = after[Rounds] /\ chip = after[RoundsDone(row)]
  BY DEF PermutationDone, SpongeInv, Underway
<1>2. chip = native
  BY <1>1, RoundsDoneBounds DEF PermutationDone
<1> QED BY <1>2 DEF PermutationDone, SpongeInv

LEMMA HashingKeeps ==
  ASSUME SpongeInv, Hashing
  PROVE  SpongeInv'
<1>0. Rate \in Nat /\ Rate > 0
  BY FieldSizes
<1>1. CASE Absorb
  <2>1. /\ words' \in Seq(EqualWords) /\ mode' \in Seq(EqualWords) /\ Len(mode') <= Rate
    BY <1>0, <1>1, Heads, Appended DEF Absorb, SpongeInv
  <2>2. /\ hashing = "absorb" /\ hashing' = hashing /\ gates' = gates
        /\ native' = native /\ chip' = chip /\ row' = row
    BY <1>1 DEF Absorb
  <2> QED BY <2>1, <2>2 DEF SpongeInv
<1>2. CASE AbsorbFull
  <2>1. /\ words' \in Seq(EqualWords) /\ mode' \in Seq(EqualWords) /\ Len(mode') <= Rate
    BY <1>0, <1>2, Heads, Appended DEF AbsorbFull, SpongeInv
  <2> QED BY <1>2, <2>1, SpongeKeeps DEF AbsorbFull
<1>3. CASE FinishAbsorbing
  <2>1. /\ words' \in Seq(EqualWords) /\ mode' \in Seq(EqualWords) /\ Len(mode') <= Rate
    BY <1>0, <1>3, EmptySeq DEF FinishAbsorbing, SpongeInv
  <2> QED BY <1>3, <2>1, SpongeKeeps DEF FinishAbsorbing
<1>4. CASE NotPadded
  BY <1>4 DEF NotPadded, SpongeInv
<1>5. CASE AssignRow
  BY <1>5, AssignRowKeeps
<1>6. CASE PermutationDone
  BY <1>6, PermutationDoneKeeps
<1> QED BY <1>1, <1>2, <1>3, <1>4, <1>5, <1>6 DEF Hashing

(***************************************************************************)
(* The circuit of a hash.                                                  *)
(***************************************************************************)
\* The words make up whole blocks, and there are none only for the empty message.
WordsFill ==
  /\ hashing \in {"absorb", "more"} =>
       /\ \E k \in Nat : Len(words) + Len(mode) = k * Rate
       /\ Len(words) + Len(mode) = 0 => circuit.message = <<>>
  /\ hashing = "panicked" => circuit.message = <<>>

CircuitInv ==
  /\ verified \in {"none", "pending", "expected", "unexpected", "panicked"}
  /\ circuit.expected \in BOOLEAN
  /\ scheme # "poseidon" => circuit = NoCircuit /\ verified = "none"
  /\ verified \in {"expected", "unexpected"} =>
       /\ hashing = "squeeze"
       /\ verified = Outcome(Squeezed.native = circuit.output, circuit.expected)

\* What a path that is being walked hands to the sponges.
PathInv ==
  /\ scheme # "merkle" => opened = "none"
  /\ opened = "none" => level = 0 /\ swaps = TRUE
  /\ opened = "walk" =>
       /\ path.leaf \in Field
       /\ path.elements \in Seq(Field) /\ path.indices \in Seq(Field)
       /\ Len(path.indices) = Len(path.elements)
       /\ level \in 0 .. Len(path.indices)
       /\ hashing # "idle" => level < Len(path.indices)
       /\ digest.chip = digest.native /\ digest.native \in Field

HashInv == SpongeInv /\ WordsFill /\ CircuitInv /\ PathInv

LEMMA HashInit == Init => HashInv
<1> SUFFICES ASSUME Init PROVE HashInv
  OBVIOUS
<1>1. SpongeInv
  <2>1. [i \in Index |-> 0] \in States
    BY FieldSizes DEF States
  <2> QED BY <2>1, EmptySeq, FieldSizes, RoundNumbers DEF Init, SpongeInit, SpongeInv
<1>2. WordsFill /\ CircuitInv /\ PathInv
  BY DEF Init, SpongeInit, CircuitInit, MerkleInit, WordsFill, CircuitInv, PathInv, NoCircuit
<1> QED BY <1>1, <1>2 DEF HashInv

LEMMA HashingFills ==
  ASSUME SpongeInv, WordsFill, Hashing, UNCHANGED circuit
  PROVE  WordsFill'
<1>0. Rate \in Nat /\ Rate > 0 /\ Len(words) \in Nat /\ Len(mode) \in Nat /\ Len(<<>>) = 0
  BY FieldSizes, LenProperties, EmptySeq DEF SpongeInv
<1>1. CASE Absorb
  <2>1. Len(words') + Len(mode') = Len(words) + Len(mode) /\ Len(mode') > 0 /\ Len(words') >= 0
    BY <1>0, <1>1, Heads, Appended DEF Absorb, SpongeInv
  <2>2. hashing = "absorb" /\ hashing' = "absorb"
    BY <1>1 DEF Absorb
  <2> QED BY <1>0, <2>1, <2>2 DEF WordsFill
<1>2. CASE AbsorbFull
  <2>1. Len(mode') = 1 /\ Len(words') = Len(words) - 1 /\ Len(words) > 0 /\ Len(mode) = Rate
    BY <1>0, <1>2, Heads, Appended DEF AbsorbFull, SpongeInv
  <2>2. PICK k \in Nat : Len(words) + Len(mode) = k * Rate
    BY <1>2 DEF AbsorbFull, WordsFill
  <2>3. Len(words') + Len(mode') = (k - 1) * Rate /\ Len(words') + Len(mode') # 0
    BY <1>0, <2>1, <2>2
  <2>4. k - 1 \in Nat
    <3>1. CASE k = 0
      BY <1>0, <2>1, <2>2, <3>1
    <3> QED BY <3>1
  <2> QED BY <1>2, <2>3, <2>4 DEF WordsFill, AbsorbFull
<1>3. CASE FinishAbsorbing
  BY <1>3 DEF FinishAbsorbing, WordsFill
<1>4. CASE NotPadded
  <2>1. Len(words) + Len(mode) = 0
    <3>1. Len(words) = 0 /\ Len(mode) < Rate
      BY <1>0, <1>4 DEF NotPadded
    <3>2. PICK k \in Nat : Len(words) + Len(mode) = k * Rate
      BY <1>4 DEF NotPadded, WordsFill
    <3>3. CASE k = 0
      BY <1>0, <3>2, <3>3
    <3>4. CASE k >= 1
      <4>1. k * Rate >= Rate
        BY <1>0, <3>4
      <4> QED BY <1>0, <3>1, <3>2, <4>1
    <3> QED BY <3>3, <3>4
  <2> QED BY <1>4, <2>1 DEF NotPadded, WordsFill
<1>5. CASE AssignRow
  BY <1>5 DEF AssignRow, WordsFill
<1>6. CASE PermutationDone
  BY <1>6 DEF PermutationDone, WordsFill
<1> QED BY <1>1, <1>2, <1>3, <1>4, <1>5, <1>6 DEF Hashing

LEMMA SpongeSteps ==
  ASSUME HashInv, UseSponge, UNCHANGED scheme
  PROVE  HashInv'
<1>1. SpongeInv'
  BY HashingKeeps DEF UseSponge, HashInv
<1>2. WordsFill'
  BY HashingFills DEF UseSponge, HashInv, circuitVars
<1>3. CircuitInv'
  <2>1. hashing # "squeeze"
    BY DEF UseSponge, Hashing, Absorb, AbsorbFull, FinishAbsorbing, NotPadded, AssignRow,
           PermutationDone
  <2>2. verified \notin {"expected", "unexpected"}
    BY <2>1 DEF HashInv, CircuitInv
  <2> QED BY <2>2 DEF UseSponge, HashInv, CircuitInv, circuitVars
<1>4. PathInv'
  <2>1. hashing # "idle"
    BY DEF UseSponge, Hashing, Absorb, AbsorbFull, FinishAbsorbing, NotPadded, AssignRow,
           PermutationDone
  <2> QED BY <2>1 DEF UseSponge, HashInv, PathInv, merkleVars
<1> QED BY <1>1, <1>2, <1>3, <1>4 DEF HashInv

LEMMA BothIs ==
  ASSUME NEW message \in Seq(Field)
  PROVE  /\ Both(message) \in Seq(EqualWords) /\ Len(Both(message)) = Len(message)
         /\ Both(message) = <<>> => message = <<>>
<1>1. Len(message) \in Nat /\ \A i \in 1 .. Len(message) : message[i] \in Field
  BY LenProperties, ElementOfSeq
<1>2. Both(message) \in [1 .. Len(message) -> EqualWords]
  BY <1>1 DEF Both, EqualWords
<1>3. Both(message) \in Seq(EqualWords) /\ Len(Both(message)) = Len(message)
  BY <1>1, <1>2, LenProperties, SeqDef
<1> QED BY <1>3, EmptySeq

LEMMA CircuitSteps ==
  ASSUME HashInv, UsePoseidon, UNCHANGED scheme
  PROVE  HashInv'
<1>0. /\ opened = "none" /\ opened' = "none" /\ level' = level /\ swaps' = swaps
      /\ level = 0 /\ swaps = TRUE
  BY DEF UsePoseidon, HashInv, PathInv, merkleVars
<1>1. ASSUME NEW message \in Messages, NEW output \in Outputs, NEW expected \in BOOLEAN,
             NewProver(message, output, expected)
      PROVE  HashInv'
  <2>1. message \in Seq(Field) /\ Len(message) \in DOMAIN Capacity
    <3>1. message \in Seq(Field) /\ Len(message) \in 0 .. Width
      BY <1>1, MessageAssumption, LenProperties, FieldSizes DEF NewProver
    <3> QED BY <3>1, MessageAssumption
  <2>2. StartKeeps(Both(message)) /\ StartHash(Both(message))
    BY <1>1, <2>1, BothIs DEF StartKeeps, NewProver
  <2>3. /\ SpongeInv'
        /\ \E k \in Nat : Len(words') + Len(mode') = k * Rate
        /\ Len(words') + Len(mode') = 0 => Both(message) = <<>>
    BY <2>2, StartHashKeeps DEF HashInv
  <2>4. WordsFill'
    BY <1>1, <2>1, <2>2, <2>3, BothIs DEF WordsFill, NewProver, StartHash
  <2>5. CircuitInv'
    BY <1>1 DEF CircuitInv, NewProver, UsePoseidon
  <2>6. PathInv'
    BY <1>0 DEF PathInv
  <2> QED BY <2>3, <2>4, <2>5, <2>6 DEF HashInv
<1>2. ASSUME NEW message \in Messages, NEW output \in Outputs, NEW expected \in BOOLEAN,
             MessageTooLong(message, output, expected)
      PROVE  HashInv'
  <2>1. SpongeInv'
    BY <1>2 DEF HashInv, SpongeInv, Underway, MessageTooLong, spongeVars
  <2>2. WordsFill' /\ CircuitInv' /\ PathInv'
    BY <1>2 DEF HashInv, WordsFill, CircuitInv, PathInv, MessageTooLong, UsePoseidon,
                spongeVars, merkleVars
  <2> QED BY <2>1, <2>2 DEF HashInv
<1>3. CASE ConstrainOutput
  <2>1. SpongeInv'
    BY <1>3 DEF HashInv, SpongeInv, Underway, ConstrainOutput, spongeVars
  <2>2. verified' = Outcome(Squeezed.native = circuit.output, circuit.expected)
    <3>1. gates = TRUE /\ chip = native
      BY <1>3 DEF HashInv, SpongeInv, ConstrainOutput
    <3> QED BY <1>3, <3>1 DEF ConstrainOutput, Squeezed
  <2>3. UNCHANGED <<hashing, words, mode, native, circuit>> /\ hashing = "squeeze"
    BY <1>3 DEF ConstrainOutput, spongeVars
  <2>4. CircuitInv'
    <3>1. scheme = "poseidon" /\ circuit.expected \in BOOLEAN
      BY DEF UsePoseidon, HashInv, CircuitInv
    <3>2. verified' \in {"expected", "unexpected"}
      BY <2>2 DEF Outcome
    <3> QED BY <2>2, <2>3, <3>1, <3>2 DEF CircuitInv, Squeezed
  <2>5. WordsFill' /\ PathInv'
    BY <2>3 DEF HashInv, WordsFill, PathInv, UsePoseidon, merkleVars
  <2> QED BY <2>1, <2>4, <2>5 DEF HashInv
<1> QED BY <1>1, <1>2, <1>3 DEF UsePoseidon, CircuitNext

(***************************************************************************)
(* The walk along a path of a Merkle tree.                                 *)
(***************************************************************************)
\* The words of a level's hash, for both sponges.
Pair(index, node, element) ==
  [i \in 1 .. 2 |-> [chip |-> Children(index, node, element)[i],
                     native |-> Children(index, node, element)[i]]]

LEMMA PairIs ==
  ASSUME NEW index, NEW node \in Field, NEW element \in Field
  PROVE  /\ Pair(index, node, element) \in Seq(EqualWords)
         /\ Len(Pair(index, node, element)) = 2
<1>1. Children(index, node, element)[1] \in Field /\ Children(index, node, element)[2] \in Field
  BY DEF Children
<1>2. Pair(index, node, element) \in [1 .. 2 -> EqualWords]
  BY <1>1 DEF Pair, EqualWords
<1>3. \A n \in Nat : \A w \in [1 .. n -> EqualWords] : w \in Seq(EqualWords) /\ Len(w) = n
  BY LenProperties, SeqDef
<1> QED BY <1>2, <1>3

LEMMA WitnessParts ==
  ASSUME NEW witness \in Witnesses
  PROVE  /\ witness.leaf \in Field
         /\ witness.elements \in Seq(Field) /\ witness.indices \in Seq(Field)
<1>1. /\ witness.leaf \in Leaves
      /\ \E n \in 0 .. MaxLevels : witness.elements \in [1 .. n -> Elements]
      /\ \E n \in 0 .. MaxLevels : witness.indices \in [1 .. n -> Indices]
  BY DEF Witnesses
<1>2. PICK n \in 0 .. MaxLevels : witness.elements \in [1 .. n -> Elements]
  BY <1>1
<1>3. PICK m \in 0 .. MaxLevels : witness.indices \in [1 .. m -> Indices]
  BY <1>1
<1>4. witness.elements \in [1 .. n -> Field] /\ witness.indices \in [1 .. m -> Field]
  BY <1>2, <1>3, MerkleAssumption
<1>5. n \in Nat /\ m \in Nat
  OBVIOUS
<1> QED BY <1>1, <1>4, <1>5, SeqDef, MerkleAssumption

\* What a step of a walk finds.
LEMMA LevelParts ==
  ASSUME PathInv, opened = "walk", level < Len(path.indices)
  PROVE  /\ level + 1 \in 1 .. Len(path.indices) /\ level + 1 \in 1 .. Len(path.elements)
         /\ path.indices[level + 1] \in Field /\ path.elements[level + 1] \in Field
<1>1. /\ path.elements \in Seq(Field) /\ path.indices \in Seq(Field)
      /\ Len(path.indices) = Len(path.elements) /\ Len(path.indices) \in Nat
      /\ level \in 0 .. Len(path.indices)
  BY LenProperties DEF PathInv
<1>2. level + 1 \in 1 .. Len(path.indices)
  BY <1>1
<1> QED BY <1>1, <1>2, ElementOfSeq

LEMMA LevelStarts ==
  ASSUME HashInv, Level
  PROVE  /\ StartHash(Pair(path.indices[level + 1], digest.native, path.elements[level + 1]))
         /\ StartKeeps(Pair(path.indices[level + 1], digest.native, path.elements[level + 1]))
         /\ SwapGate(path.indices[level + 1], digest.native, path.elements[level + 1],
                     Children(path.indices[level + 1], digest.native, path.elements[level + 1])[1],
                     Children(path.indices[level + 1], digest.native, path.elements[level + 1])[2])
              /\ swaps <=> swaps'
<1> DEFINE index == path.indices[level + 1]
           element == path.elements[level + 1]
<1>1. opened = "walk" /\ level < Len(path.indices)
  BY DEF Level
<1>2. digest.chip = digest.native /\ digest.native \in Field /\ element \in Field
  BY <1>1, LevelParts DEF HashInv, PathInv
<1>3. StartHash([i \in 1 .. 2 |-> [chip |-> Children(index, digest.chip, element)[i],
                                   native |-> Children(index, digest.native, element)[i]]])
  BY DEF Level
<1>4. StartHash(Pair(index, digest.native, element))
  BY <1>2, <1>3 DEF Pair
<1>5. StartKeeps(Pair(index, digest.native, element))
  BY <1>2, PairIs, MerkleAssumption DEF StartKeeps
<1>6. swaps' = (swaps /\ SwapGate(index, digest.native, element,
                                  Children(index, digest.native, element)[1],
                                  Children(index, digest.native, element)[2]))
  BY <1>2 DEF Level
<1> QED BY <1>4, <1>5, <1>6

LEMMA MerkleSteps ==
  ASSUME HashInv, UseMerkle, UNCHANGED scheme
  PROVE  HashInv'
<1>0. /\ scheme = "merkle" /\ circuit = NoCircuit /\ verified = "none"
      /\ circuit' = NoCircuit /\ verified' = "none" /\ scheme' = "merkle"
  BY DEF UseMerkle, HashInv, CircuitInv, circuitVars
<1>00. CircuitInv'
  BY <1>0 DEF CircuitInv, NoCircuit
<1>1. ASSUME UNCHANGED spongeVars PROVE SpongeInv' /\ WordsFill'
  BY <1>0, <1>1 DEF HashInv, SpongeInv, WordsFill, Underway, spongeVars
<1>2. ASSUME NEW witness \in Witnesses, NewPath(witness) \/ LengthsDiffer(witness)
      PROVE  HashInv'
  <2>1. UNCHANGED spongeVars
    BY <1>2 DEF NewPath, LengthsDiffer
  <2>2. /\ witness.leaf \in Field
        /\ witness.elements \in Seq(Field) /\ witness.indices \in Seq(Field)
        /\ Len(witness.indices) \in Nat
    BY WitnessParts, LenProperties
  <2>3. PathInv'
    <3>1. CASE NewPath(witness)
      <4>1. level = 0 /\ level' = 0
        BY <3>1 DEF NewPath, HashInv, PathInv
      <4>2. /\ path' = witness /\ opened' = "walk" /\ hashing' = "idle"
            /\ digest' = [chip |-> witness.leaf, native |-> witness.leaf]
            /\ Len(witness.indices) = Len(witness.elements)
        BY <3>1 DEF NewPath, spongeVars
      <4> QED BY <1>0, <2>2, <4>1, <4>2 DEF PathInv
    <3>2. CASE LengthsDiffer(witness)
      BY <1>0, <3>2 DEF LengthsDiffer, PathInv
    <3> QED BY <1>2, <3>1, <3>2
  <2> QED BY <1>00, <1>1, <2>1, <2>3 DEF HashInv
<1>3. CASE Level
  <2> DEFINE pair == Pair(path.indices[level + 1], digest.native, path.elements[level + 1])
  <2>1. StartHash(pair) /\ StartKeeps(pair)
    BY <1>3, LevelStarts
  <2>2. pair # <<>> /\ hashing' = "absorb"
    <3>1. Len(pair) = 2
      BY <1>3, PairIs, LevelParts DEF HashInv, PathInv, Level
    <3> HIDE DEF pair
    <3> QED BY <2>1, <3>1, EmptySeq DEF StartHash
  <2> HIDE DEF pair
  <2>3. /\ SpongeInv'
        /\ \E k \in Nat : Len(words') + Len(mode') = k * Rate
        /\ Len(words') + Len(mode') # 0
    BY <2>1, <2>2, StartHashKeeps DEF HashInv
  <2>4. WordsFill'
    BY <2>2, <2>3 DEF WordsFill
  <2>5. PathInv'
    BY <1>0, <1>3 DEF Level, PathInv, HashInv
  <2> QED BY <1>00, <2>3, <2>4, <2>5 DEF HashInv
<1>4. CASE LevelDone
  <2>1. /\ opened = "walk" /\ hashing = "squeeze" /\ chip = native /\ native \in States
        /\ hashing' = "idle" /\ level' = level + 1 /\ digest' = Squeezed
        /\ UNCHANGED <<path, opened, swaps, words, mode, native, chip, row, gates>>
    BY <1>4 DEF LevelDone, HashInv, SpongeInv
  <2>2. SpongeInv' /\ WordsFill'
    BY <1>0, <2>1 DEF HashInv, SpongeInv, WordsFill
  <2>3. digest'.chip = digest'.native /\ digest'.native \in Field
    BY <2>1, FieldSizes DEF Squeezed, States
  <2>4. level \in 0 .. Len(path.indices) - 1
    BY <2>1, LenProperties DEF HashInv, PathInv
  <2>5. PathInv'
    BY <1>0, <2>1, <2>3, <2>4 DEF HashInv, PathInv
  <2> QED BY <1>00, <2>2, <2>5 DEF HashInv
<1>5. ASSUME NEW leaf, NEW root, VerifyProof(leaf, root) PROVE HashInv'
  <2>1. UNCHANGED spongeVars /\ opened' # "walk" /\ opened' # "none"
    BY <1>5 DEF VerifyProof, Answer
  <2>2. PathInv'
    BY <1>0, <2>1 DEF PathInv
  <2> QED BY <1>00, <1>1, <2>1, <2>2 DEF HashInv
<1>6. ASSUME NEW opening, NEW root, VerifyOpening(opening, root) PROVE HashInv'
  <2>1. UNCHANGED spongeVars /\ opened' # "walk" /\ opened' # "none"
    BY <1>6 DEF VerifyOpening
  <2>2. PathInv'
    BY <1>0, <2>1 DEF PathInv
  <2> QED BY <1>00, <1>1, <2>1, <2>2 DEF HashInv
<1> QED BY <1>2, <1>3, <1>4, <1>5, <1>6 DEF UseMerkle, MerkleNext

LEMMA HashInvHolds == Spec => []HashInv
<1>1. Init => HashInv
  BY HashInit
<1>2. ASSUME HashInv, [Next]_vars PROVE HashInv'
  <2>1. ASSUME UNCHANGED <<scheme, spongeVars, circuitVars, merkleVars>> PROVE HashInv'
    BY <1>2, <2>1 DEF HashInv, SpongeInv, Underway, WordsFill, CircuitInv, PathInv,
                      Squeezed, spongeVars, circuitVars, merkleVars
  <2>2. CASE UNCHANGED vars
    BY <2>1, <2>2 DEF vars
  <2>3. ASSUME UNCHANGED scheme, UsePoseidon \/ UseMerkle \/ UseSponge PROVE HashInv'
    BY <1>2, <2>3, SpongeSteps, CircuitSteps, MerkleSteps
  <2> QED BY <1>2, <2>1, <2>2, <2>3 DEF Next
<1> QED BY <1>1, <1>2, PTL DEF Spec

\* Whatever row the chip has assigned, the gates allow one next row, the one that it
\* assigns: a satisfied circuit contains the permutation of its input, for every field,
\* width and number of rounds and every pair of matrices that undo each other (the gates
\* "full round" and "partial rounds" of PoseidonConfig::configure).
THEOREM RowsForced == Spec => []RowsAreForced
<1>1. ASSUME HashInv PROVE RowsAreForced
  <2> SUFFICES ASSUME hashing \in {"more", "last"}, row < RowCount, NEW next \in States,
                      NEW sbox \in IF IsPartialRow(row) THEN Field ELSE {0},
                      RowGate(chip, row, sbox, next)
               PROVE  next = NextRow(chip, row)
    BY DEF RowsAreForced
  <2>1. chip \in States /\ row \in 0 .. RowCount - 1
    BY <1>1, RoundNumbers DEF HashInv, SpongeInv
  <2>2. sbox \in Field
    BY FieldSizes
  <2> QED BY <2>1, <2>2, RowGateIsNextRow
<1> QED BY <1>1, HashInvHolds, PTL

\* The proof of a hash is as expected exactly if the claimed output is the native hash
\* of the message, for every message, padding, field and width; only the empty message
\* has no hash (PoseidonProver::verify).
THEOREM HashIsProved == Spec => []ProofTellsTheHash
<1>1. ASSUME HashInv PROVE ProofTellsTheHash
  <2>1. /\ hashing = "panicked" => circuit.message = <<>>
        /\ circuit.expected \in BOOLEAN
        /\ verified \in {"expected", "unexpected"} =>
             verified = Outcome(Squeezed.native = circuit.output, circuit.expected)
    BY <1>1 DEF HashInv, WordsFill, CircuitInv
  <2>2. ASSUME verified = "expected" PROVE circuit.expected <=> circuit.output = Squeezed.native
    BY <2>1, <2>2 DEF Outcome
  <2>3. ASSUME verified = "unexpected" PROVE circuit.expected <=> circuit.output # Squeezed.native
    BY <2>1, <2>3 DEF Outcome
  <2> QED BY <2>1, <2>2, <2>3 DEF ProofTellsTheHash
<1> QED BY <1>1, HashInvHolds, PTL

\* What RootOf does with a digest on the way up.
UpStep(witness, n, node) ==
  IF witness.indices[n] = 0
  THEN TwoToOne(node, witness.elements[n])
  ELSE TwoToOne(witness.elements[n], node)

UpBy(witness, up) ==
  /\ up \in [0 .. Len(witness.elements) -> Field]
  /\ up[0] = witness.leaf
  /\ \A n \in 1 .. Len(witness.elements) : up[n] = UpStep(witness, n, up[n - 1])

LEMMA PermuteStays ==
  ASSUME NEW s \in States
  PROVE  Permute(s) \in States
BY PermuteExists, RoundNumbers DEF PermutesBy

\* The state that a level's hash permutes.
TwoWords(left, right) ==
  [i \in Index |-> CASE i = 0 -> left [] i = 1 -> right [] OTHER -> Capacity[2]]

LEMMA TwoToOneStays ==
  ASSUME NEW left \in Field, NEW right \in Field
  PROVE  /\ TwoToOne(left, right) = Permute(TwoWords(left, right))[0]
         /\ TwoWords(left, right) \in States
         /\ TwoToOne(left, right) \in Field
<1>1. Capacity[2] \in Field
  BY PoseidonAssumption, MerkleAssumption
<1>2. TwoWords(left, right) \in States
  BY <1>1 DEF TwoWords, States
<1>3. TwoToOne(left, right) = Permute(TwoWords(left, right))[0]
  BY DEF TwoToOne, TwoWords
<1>4. Permute(TwoWords(left, right)) \in States
  BY <1>2, PermuteStays
<1> QED BY <1>2, <1>3, <1>4, FieldSizes DEF States

LEMMA RootExists ==
  ASSUME NEW witness, witness.leaf \in Field, witness.elements \in Seq(Field)
  PROVE  \E up : UpBy(witness, up) /\ RootOf(witness) = up[Len(witness.elements)]
<1> DEFINE N == Len(witness.elements)
           step == [n \in 1 .. N |-> [x \in Field |-> UpStep(witness, n, x)]]
           up[n \in 0 .. N] ==
             IF n = 0 THEN witness.leaf
             ELSE IF witness.indices[n] = 0
             THEN TwoToOne(up[n - 1], witness.elements[n])
             ELSE TwoToOne(witness.elements[n], up[n - 1])
<1>0. N \in Nat /\ \A n \in 1 .. N : n - 1 \in 0 .. N /\ witness.elements[n] \in Field
  BY LenProperties, ElementOfSeq
<1>1. \A n \in 1 .. N : \A x \in Field : UpStep(witness, n, x) \in Field
  BY <1>0, TwoToOneStays DEF UpStep
<1>7. RootOf(witness) = up[N]
  BY DEF RootOf
<1>2. Steps(N, Field, step)
  BY <1>1 DEF Steps
<1>3. PICK g : Recursive(N, Field, witness.leaf, step, g)
  <2> HIDE DEF step
  <2> QED BY <1>0, <1>2, RecursionExists
<1>4. UpBy(witness, g)
  <2>1. \A n \in 1 .. N : g[n] = UpStep(witness, n, g[n - 1])
    BY <1>0, <1>3 DEF Recursive
  <2> QED BY <1>3, <2>1 DEF Recursive, UpBy
<1>5. g = [n \in 0 .. N |->
             IF n = 0 THEN witness.leaf
             ELSE IF witness.indices[n] = 0
             THEN TwoToOne(g[n - 1], witness.elements[n])
             ELSE TwoToOne(witness.elements[n], g[n - 1])]
  <2>1. ASSUME NEW n \in 0 .. N
        PROVE  g[n] = IF n = 0 THEN witness.leaf ELSE UpStep(witness, n, g[n - 1])
    BY <1>0, <1>4 DEF UpBy
  <2>2. g = [n \in 0 .. N |-> IF n = 0 THEN witness.leaf ELSE UpStep(witness, n, g[n - 1])]
    BY <1>4, <2>1 DEF UpBy
  <2> QED BY <2>2 DEF UpStep
<1>6. up = [n \in 0 .. N |->
             IF n = 0 THEN witness.leaf
             ELSE IF witness.indices[n] = 0
             THEN TwoToOne(up[n - 1], witness.elements[n])
             ELSE TwoToOne(witness.elements[n], up[n - 1])]
  BY <1>5, Zenon
<1> HIDE DEF up
<1>8. up[0] = witness.leaf /\ \A n \in 1 .. N : up[n] = UpStep(witness, n, up[n - 1])
  <2>1. ASSUME NEW n \in 1 .. N PROVE up[n] = UpStep(witness, n, up[n - 1])
    <3>1. n \in 0 .. N /\ n # 0
      BY <1>0
    <3> HIDE DEF N
    <3>2. up[n] = IF witness.indices[n] = 0
                  THEN TwoToOne(up[n - 1], witness.elements[n])
                  ELSE TwoToOne(witness.elements[n], up[n - 1])
      BY <1>6, <3>1
    <3> QED BY <3>2 DEF UpStep
  <2>2. up[0] = witness.leaf
    <3> HIDE DEF N
    <3> QED BY <1>0, <1>6
  <2> QED BY <2>1, <2>2
<1>9. \A n \in 0 .. N : up[n] = g[n]
  <2> DEFINE T == {n \in 0 .. N : up[n] = g[n]}
  <2>1. 0 \in T
    BY <1>0, <1>4, <1>8 DEF UpBy
  <2>2. ASSUME NEW n \in 1 .. N, n - 1 \in T PROVE n \in T
    BY <1>0, <1>4, <1>8, <2>2 DEF UpBy
  <2> HIDE DEF T
  <2>3. \A n \in 0 .. N : n \in T
    BY <1>0, <2>1, <2>2, Climb
  <2> QED BY <2>3 DEF T
<1> QED BY <1>0, <1>4, <1>7, <1>9

\* The swap gate holds exactly for a bit.
LEMMA SwapGateIsBit ==
  ASSUME NEW bit \in Field, NEW node \in Field, NEW element \in Field
  PROVE  SwapGate(bit, node, element, Children(bit, node, element)[1],
                  Children(bit, node, element)[2]) <=> bit \in {0, 1}
<1>0. bit \in Int /\ node \in Int /\ element \in Int /\ bit >= 0 /\ bit < Prime
  BY FieldSizes DEF Field
<1>1. 0 % Prime = 0
  BY SmallRemainder, FieldSizes
<1>2. CASE bit = 0
  <2>1. Children(bit, node, element)[1] = node /\ Children(bit, node, element)[2] = element
    BY <1>2 DEF Children
  <2>2. /\ bit * (1 - bit) = 0
        /\ node - (node + bit * (element - node)) = 0
        /\ element - (element + bit * (node - element)) = 0
    BY <1>0, <1>2
  <2> QED BY <1>1, <1>2, <2>1, <2>2 DEF SwapGate
<1>3. CASE bit = 1
  <2>1. Children(bit, node, element)[1] = element /\ Children(bit, node, element)[2] = node
    BY <1>3 DEF Children
  <2>2. /\ bit * (1 - bit) = 0
        /\ element - (node + bit * (element - node)) = 0
        /\ node - (element + bit * (node - element)) = 0
    BY <1>0, <1>3
  <2> QED BY <1>1, <1>3, <2>1, <2>2 DEF SwapGate
<1>4. CASE bit \notin {0, 1}
  <2>1. SUFFICES ASSUME (bit * (1 - bit)) % Prime = 0 PROVE FALSE
    BY <1>4 DEF SwapGate
  <2> DEFINE other == Prime + 1 - bit
  <2>2. other \in Field /\ other # 0 /\ other = Prime + (1 - bit)
    BY <1>0, <1>4, FieldSizes DEF Field
  <2>3. PICK a \in Int : a = bit * (1 - bit)
    BY <1>0
  <2>4. bit * other = a + Prime * bit
    <3>1. \A x, p, c \in Int : x * (p + c) = (x * c) + (p * x)
      OBVIOUS
    <3>2. bit * (Prime + (1 - bit)) = (bit * (1 - bit)) + (Prime * bit)
      BY <1>0, <3>1, FieldSizes
    <3> HIDE DEF other
    <3>3. bit * other = bit * (Prime + (1 - bit))
      BY <2>2
    <3> QED BY <2>3, <3>2, <3>3, Zenon
  <2> HIDE DEF other
  <2>5. PICK b \in Int : b = bit * other
    BY <1>0, <2>2, SmallRemainder
  <2>6. Same(b, a)
    BY <1>0, <2>4, <2>5 DEF Same
  <2>7. b % Prime = 0
    BY <2>1, <2>3, <2>6, SameIsRemainder
  <2>8. bit = 0 \/ other = 0
    BY <2>2, <2>5, <2>7, MerkleAssumption
  <2> QED BY <1>4, <2>2, <2>8
<1> QED BY <1>2, <1>3, <1>4

\* The words of the hash of the level above the last one walked, and what it permutes.
Kids == Children(path.indices[level + 1], digest.native, path.elements[level + 1])
KidPair == Pair(path.indices[level + 1], digest.native, path.elements[level + 1])

\* The digest is the one of RootOf at its level, and the sponges hash the next one.
ClimbInv ==
  opened = "walk" =>
    /\ hashing \in {"idle", "absorb", "last", "squeeze"}
    /\ \E up : /\ UpBy(path, up)
               /\ RootOf(path) = up[Len(path.elements)]
               /\ digest.native = up[level]
    /\ swaps <=> (\A i \in 1 .. (IF hashing = "idle" THEN level ELSE level + 1) :
                    path.indices[i] \in {0, 1})
    /\ hashing = "absorb" => mode \o words = KidPair /\ native = InitialState(2)
    /\ hashing \in {"last", "squeeze"} => native = Permute(TwoWords(Kids[1], Kids[2]))

LEMMA KidsIn ==
  ASSUME PathInv, opened = "walk", level < Len(path.indices)
  PROVE  /\ Kids[1] \in Field /\ Kids[2] \in Field
         /\ KidPair \in Seq(EqualWords) /\ Len(KidPair) = 2
         /\ KidPair[1].native = Kids[1] /\ KidPair[2].native = Kids[2]
         /\ TwoToOne(Kids[1], Kids[2]) = UpStep(path, level + 1, digest.native)
<1>1. digest.native \in Field /\ path.elements[level + 1] \in Field
  BY LevelParts DEF PathInv
<1>2. KidPair \in Seq(EqualWords) /\ Len(KidPair) = 2
  BY <1>1, PairIs DEF KidPair
<1>3. Kids[1] \in Field /\ Kids[2] \in Field
  BY <1>1 DEF Kids, Children
<1>4. KidPair[1].native = Kids[1] /\ KidPair[2].native = Kids[2]
  BY DEF KidPair, Pair, Kids
<1>5. TwoToOne(Kids[1], Kids[2]) = UpStep(path, level + 1, digest.native)
  BY DEF Kids, Children, UpStep
<1> QED BY <1>2, <1>3, <1>4, <1>5

LEMMA MovesOver ==
  ASSUME NEW s \in Seq(EqualWords), NEW t \in Seq(EqualWords), t # <<>>
  PROVE  Append(s, Head(t)) \o Tail(t) = s \o t
<1>1. t = <<Head(t)>> \o Tail(t)
  BY HeadTailProperties
<1>2. Append(s, Head(t)) = s \o <<Head(t)>>
  BY Heads, AppendProperties
<1>3. <<Head(t)>> \in Seq(EqualWords) /\ Tail(t) \in Seq(EqualWords)
  BY Heads, Appended
<1>4. (s \o <<Head(t)>>) \o Tail(t) = s \o (<<Head(t)>> \o Tail(t))
  BY <1>3, ConcatAssociative
<1> QED BY <1>1, <1>2, <1>4

\* A level's block is the one of TwoToOne, if the rate is two.
LEMMA BlockIsTwoWords ==
  ASSUME Width = 3, NEW left \in Field, NEW right \in Field, NEW block,
         block[1].native = left, block[2].native = right
  PROVE  AddInput(InitialState(2), [i \in 1 .. Rate |-> block[i].native]) = TwoWords(left, right)
<1> DEFINE input == [i \in 1 .. Rate |-> block[i].native]
<1>1. Rate = 2 /\ Index = {0, 1, 2}
  BY DEF Rate, Index
<1>2. input[0 + 1] = left /\ input[1 + 1] = right
  BY <1>1
<1>3. /\ InitialState(2)[0] = 0 /\ InitialState(2)[1] = 0 /\ InitialState(2)[2] = Capacity[2]
  BY <1>1 DEF InitialState
<1>4. (0 + left) % Prime = left /\ (0 + right) % Prime = right
  BY SmallRemainder
<1> HIDE DEF input
<1>5. /\ AddInput(InitialState(2), input)[0] = left
      /\ AddInput(InitialState(2), input)[1] = right
      /\ AddInput(InitialState(2), input)[2] = Capacity[2]
  BY <1>1, <1>2, <1>3, <1>4 DEF AddInput
<1>6. /\ TwoWords(left, right)[0] = left
      /\ TwoWords(left, right)[1] = right
      /\ TwoWords(left, right)[2] = Capacity[2]
  BY <1>1 DEF TwoWords
<1>7. \A i \in Index : AddInput(InitialState(2), input)[i] = TwoWords(left, right)[i]
  BY <1>1, <1>5, <1>6
<1>8. AddInput(InitialState(2), input) = TwoWords(left, right)
  BY <1>7 DEF AddInput, TwoWords
<1> QED BY <1>8 DEF input

LEMMA ClimbHashes ==
  ASSUME Width = 3, HashInv, ClimbInv, Hashing, UNCHANGED merkleVars
  PROVE  ClimbInv'
<1> SUFFICES ASSUME opened = "walk" PROVE ClimbInv'
  BY DEF ClimbInv, merkleVars
<1>0. /\ Rate = 2
      /\ words \in Seq(EqualWords) /\ mode \in Seq(EqualWords) /\ Len(mode) <= Rate
      /\ Len(words) \in Nat /\ Len(mode) \in Nat
      /\ UNCHANGED <<path, level, digest, swaps, opened>>
  BY LenProperties DEF HashInv, SpongeInv, merkleVars, Rate
<1>1. hashing # "idle" /\ level < Len(path.indices)
  BY DEF Hashing, Absorb, AbsorbFull, FinishAbsorbing, NotPadded, AssignRow,
         PermutationDone, HashInv, PathInv
<1>2. /\ KidPair \in Seq(EqualWords) /\ Len(KidPair) = 2
      /\ Kids[1] \in Field /\ Kids[2] \in Field
      /\ KidPair[1].native = Kids[1] /\ KidPair[2].native = Kids[2]
  BY <1>1, KidsIn DEF HashInv
<1>3. KidPair' = KidPair /\ Kids' = Kids
  BY <1>0 DEF KidPair, Kids
<1>4. /\ hashing \in {"absorb", "last", "squeeze"}
      /\ \E up : /\ UpBy(path, up)
                 /\ RootOf(path) = up[Len(path.elements)]
                 /\ digest.native = up[level]
      /\ swaps <=> (\A i \in 1 .. level + 1 : path.indices[i] \in {0, 1})
      /\ hashing = "absorb" => mode \o words = KidPair /\ native = InitialState(2)
      /\ hashing \in {"last", "squeeze"} => native = Permute(TwoWords(Kids[1], Kids[2]))
  BY <1>1 DEF ClimbInv
<1>5. ASSUME /\ hashing' \in {"absorb", "last", "squeeze"}
             /\ hashing' = "absorb" => mode' \o words' = KidPair /\ native' = InitialState(2)
             /\ hashing' \in {"last", "squeeze"} => native' = Permute(TwoWords(Kids[1], Kids[2]))
      PROVE  ClimbInv'
  <2>1. hashing' # "idle" /\ hashing' \in {"idle", "absorb", "last", "squeeze"}
    BY <1>5
  <2>2. \E up : /\ UpBy(path', up)
                /\ RootOf(path') = up[Len(path'.elements)]
                /\ digest'.native = up[level']
    BY <1>0, <1>4
  <2>3. swaps' <=> (\A i \in 1 .. (IF hashing' = "idle" THEN level' ELSE level' + 1) :
                      path'.indices[i] \in {0, 1})
    BY <1>0, <1>4, <2>1
  <2> QED BY <1>3, <1>5, <2>1, <2>2, <2>3 DEF ClimbInv
<1>6. CASE Absorb
  <2>1. mode' \o words' = mode \o words
    BY <1>0, <1>6, MovesOver DEF Absorb
  <2> QED BY <1>4, <1>5, <1>6, <2>1 DEF Absorb
<1>7. hashing = "absorb" => Len(mode) + Len(words) = 2
  <2>1. Len(mode \o words) = Len(mode) + Len(words)
    BY <1>0, ConcatProperties
  <2> QED BY <1>2, <1>4, <2>1
<1>8. CASE AbsorbFull
  <2>1. Len(words) > 0
    BY <1>0, <1>8, Heads DEF AbsorbFull
  <2> QED BY <1>0, <1>7, <1>8, <2>1 DEF AbsorbFull
<1>9. CASE FinishAbsorbing
  <2>1. mode = KidPair /\ native = InitialState(2)
    <3>1. mode \o <<>> = mode
      BY <1>0, ConcatEmptySeq
    <3> QED BY <1>4, <1>9, <3>1 DEF FinishAbsorbing
  <2>2. native' = Permute(AddInput(native, [i \in 1 .. Rate |-> mode[i].native]))
    BY <1>9 DEF FinishAbsorbing, Sponge
  <2>3. AddInput(InitialState(2), [i \in 1 .. Rate |-> KidPair[i].native])
          = TwoWords(Kids[1], Kids[2])
    BY <1>2, BlockIsTwoWords
  <2>4. native' = Permute(TwoWords(Kids[1], Kids[2])) /\ hashing' = "last"
    BY <1>9, <2>1, <2>2, <2>3 DEF FinishAbsorbing
  <2> QED BY <1>5, <2>4
<1>10. CASE NotPadded
  <2>1. Len(words) = 0 /\ Len(mode) < 2 /\ hashing = "absorb"
    BY <1>0, <1>10, EmptySeq DEF NotPadded
  <2> QED BY <1>0, <1>7, <2>1
<1>11. CASE AssignRow
  BY <1>4, <1>5, <1>11 DEF AssignRow
<1>12. CASE PermutationDone
  BY <1>4, <1>5, <1>12 DEF PermutationDone
<1> QED BY <1>6, <1>8, <1>9, <1>10, <1>11, <1>12 DEF Hashing

LEMMA ClimbStarts ==
  ASSUME HashInv, UseMerkle, NEW witness \in Witnesses, NewPath(witness)
  PROVE  ClimbInv'
<1>1. /\ path' = witness /\ opened' = "walk" /\ hashing' = "idle" /\ level' = 0
      /\ digest'.native = witness.leaf /\ swaps' = TRUE
  BY DEF NewPath, spongeVars, HashInv, PathInv
<1>2. \E up : UpBy(witness, up) /\ RootOf(witness) = up[Len(witness.elements)]
  BY WitnessParts, RootExists
<1>3. \E up : /\ UpBy(path', up)
              /\ RootOf(path') = up[Len(path'.elements)]
              /\ digest'.native = up[level']
  BY <1>1, <1>2 DEF UpBy
<1>4. \A i \in 1 .. 0 : FALSE
  OBVIOUS
<1>5. swaps' <=> (\A i \in 1 .. (IF hashing' = "idle" THEN level' ELSE level' + 1) :
                    path'.indices[i] \in {0, 1})
  BY <1>1, <1>4
<1> QED BY <1>1, <1>3, <1>5 DEF ClimbInv

LEMMA ClimbGoesOn ==
  ASSUME Width = 3, HashInv, ClimbInv, Level
  PROVE  ClimbInv'
<1> DEFINE index == path.indices[level + 1]
<1>1. /\ opened = "walk" /\ hashing = "idle" /\ level < Len(path.indices)
      /\ UNCHANGED <<path, level, digest, opened>>
  BY DEF Level
<1>2. /\ KidPair \in Seq(EqualWords) /\ Len(KidPair) = 2 /\ KidPair' = KidPair
      /\ StartHash(KidPair)
      /\ (SwapGate(index, digest.native, path.elements[level + 1], Kids[1], Kids[2]) /\ swaps)
           <=> swaps'
  BY <1>1, KidsIn, LevelStarts DEF HashInv, KidPair, Kids
<1>3. hashing' = "absorb" /\ native' = InitialState(2) /\ mode' = <<>>
      /\ words' = KidPair \o Padding(2)
  BY <1>2 DEF StartHash
<1>4. Padding(2) = <<>>
  <2>1. Rate = 2
    BY DEF Rate
  <2>2. (2 + Rate - 1) \div Rate = 1
    BY <2>1
  <2>3. Padding(2) = [i \in 1 .. 1 * Rate - 2 |-> [chip |-> 0, native |-> 0]]
    BY <2>2 DEF Padding
  <2>4. 1 * Rate - 2 = 0
    BY <2>1
  <2>5. 1 .. 0 = {}
    OBVIOUS
  <2>6. Padding(2) = [i \in {} |-> [chip |-> 0, native |-> 0]]
    BY <2>3, <2>4, <2>5
  <2>7. Padding(2) \in Seq(EqualWords)
    BY PaddingIs
  <2>8. DOMAIN Padding(2) = {}
    BY <2>6
  <2>9. Len(Padding(2)) = 0
    BY <2>7, <2>8, LenProperties
  <2> QED BY <2>7, <2>9, EmptySeq
<1>5. words' = KidPair /\ mode' \o words' = KidPair
  BY <1>2, <1>3, <1>4, ConcatEmptySeq
<1>6. swaps' <=> (\A i \in 1 .. level + 1 : path.indices[i] \in {0, 1})
  <2>1. SwapGate(index, digest.native, path.elements[level + 1], Kids[1], Kids[2])
          <=> index \in {0, 1}
    <3>1. /\ index \in Field /\ path.elements[level + 1] \in Field
          /\ digest.native \in Field
      BY <1>1, LevelParts DEF HashInv, PathInv
    <3> QED BY <3>1, SwapGateIsBit DEF Kids
  <2>2. swaps <=> (\A i \in 1 .. level : path.indices[i] \in {0, 1})
    BY <1>1 DEF ClimbInv
  <2>3. level \in Nat
    BY <1>1, LenProperties DEF HashInv, PathInv
  <2>4. \A i \in 1 .. level + 1 : i \in 1 .. level \/ i = level + 1
    BY <2>3
  <2>5. level + 1 \in 1 .. level + 1 /\ \A i \in 1 .. level : i \in 1 .. level + 1
    BY <2>3
  <2> QED BY <1>2, <2>1, <2>2, <2>4, <2>5
<1>7. \E up : /\ UpBy(path', up)
              /\ RootOf(path') = up[Len(path'.elements)]
              /\ digest'.native = up[level']
  BY <1>1 DEF ClimbInv
<1>8. hashing' # "idle" /\ hashing' \notin {"last", "squeeze"}
  BY <1>3
<1>9. swaps' <=> (\A i \in 1 .. (IF hashing' = "idle" THEN level' ELSE level' + 1) :
                    path'.indices[i] \in {0, 1})
  BY <1>1, <1>6, <1>8
<1> QED BY <1>2, <1>3, <1>5, <1>7, <1>8, <1>9 DEF ClimbInv

LEMMA ClimbAdvances ==
  ASSUME Width = 3, HashInv, ClimbInv, LevelDone
  PROVE  ClimbInv'
<1>1. /\ opened = "walk" /\ hashing = "squeeze" /\ hashing' = "idle" /\ level' = level + 1
      /\ digest' = Squeezed /\ UNCHANGED <<path, swaps, opened>>
  BY DEF LevelDone
<1>2. level < Len(path.indices) /\ Len(path.indices) = Len(path.elements)
  BY <1>1 DEF HashInv, PathInv
<1>3. level + 1 \in 1 .. Len(path.elements) /\ level \in Nat
  BY <1>1, <1>2, LevelParts, LenProperties DEF HashInv, PathInv
<1>4. digest'.native = UpStep(path, level + 1, digest.native)
  <2>1. native = Permute(TwoWords(Kids[1], Kids[2])) /\ Kids[1] \in Field /\ Kids[2] \in Field
    BY <1>1, <1>2, KidsIn DEF ClimbInv, HashInv
  <2>2. digest'.native = TwoToOne(Kids[1], Kids[2])
    BY <1>1, <2>1, TwoToOneStays DEF Squeezed
  <2> QED BY <1>1, <1>2, <2>2, KidsIn DEF HashInv
<1>5. PICK up : /\ UpBy(path, up)
                /\ RootOf(path) = up[Len(path.elements)]
                /\ digest.native = up[level]
  BY <1>1 DEF ClimbInv
<1>6. up[level + 1] = UpStep(path, level + 1, up[level])
  <2>1. (level + 1) - 1 = level
    BY <1>3
  <2> QED BY <1>3, <1>5, <2>1 DEF UpBy
<1>7. digest'.native = up[level']
  BY <1>1, <1>4, <1>5, <1>6
<1>8. \E g : /\ UpBy(path', g)
             /\ RootOf(path') = g[Len(path'.elements)]
             /\ digest'.native = g[level']
  BY <1>1, <1>5, <1>7
<1>9. swaps' <=> (\A i \in 1 .. (IF hashing' = "idle" THEN level' ELSE level' + 1) :
                    path'.indices[i] \in {0, 1})
  BY <1>1 DEF ClimbInv
<1> QED BY <1>1, <1>8, <1>9 DEF ClimbInv

\* What the end of a walk has found.
LEMMA ClimbEnds ==
  ASSUME HashInv, ClimbInv, opened = "walk", hashing = "idle", level = Len(path.indices)
  PROVE  /\ digest.native = RootOf(path) /\ digest.chip = RootOf(path)
         /\ gates = TRUE /\ (swaps <=> IsBinary(path))
<1>1. /\ gates = TRUE /\ digest.chip = digest.native
      /\ path.indices \in Seq(Field) /\ Len(path.indices) = Len(path.elements)
  BY DEF HashInv, SpongeInv, PathInv
<1>2. digest.native = RootOf(path)
  BY <1>1 DEF ClimbInv
<1>3. DOMAIN path.indices = 1 .. level
  BY <1>1, LenProperties
<1>4. swaps <=> IsBinary(path)
  BY <1>3 DEF ClimbInv, IsBinary
<1> QED BY <1>1, <1>2, <1>4

WalkInv == HashInv /\ ClimbInv /\ PathIsProved

LEMMA WalkSteps ==
  ASSUME Width = 3, WalkInv, UseMerkle
  PROVE  ClimbInv' /\ PathIsProved'
<1>0. HashInv /\ ClimbInv
  BY DEF WalkInv
<1>1. ASSUME NEW witness \in Witnesses, NewPath(witness) PROVE ClimbInv' /\ PathIsProved'
  <2>1. PathIsProved'
    BY <1>1 DEF NewPath, PathIsProved
  <2> QED BY <1>0, <1>1, <2>1, ClimbStarts
<1>2. ASSUME NEW witness \in Witnesses, LengthsDiffer(witness) PROVE ClimbInv' /\ PathIsProved'
  BY <1>2 DEF LengthsDiffer, PathIsProved, ClimbInv
<1>3. CASE Level
  <2>1. PathIsProved'
    BY <1>3 DEF Level, PathIsProved
  <2> QED BY <1>0, <1>3, <2>1, ClimbGoesOn
<1>4. CASE LevelDone
  <2>1. PathIsProved'
    BY <1>4 DEF LevelDone, PathIsProved
  <2> QED BY <1>0, <1>4, <2>1, ClimbAdvances
<1>5. ASSUME NEW leaf, NEW root, VerifyProof(leaf, root) PROVE ClimbInv' /\ PathIsProved'
  <2>1. /\ digest.native = RootOf(path) /\ digest.chip = RootOf(path)
        /\ gates = TRUE /\ (swaps <=> IsBinary(path))
    BY <1>0, <1>5, ClimbEnds DEF VerifyProof
  <2>2. /\ path' = path /\ claim'.leaf = leaf /\ claim'.root = root
        /\ opened' = Answer(/\ <<leaf, root>> = <<path.leaf, digest.native>>
                            /\ digest.chip = root
                            /\ swaps /\ gates)
    BY <1>5 DEF VerifyProof
  <2>3. opened' = Answer(IsBinary(path) /\ leaf = path.leaf /\ root = RootOf(path))
    <3>1. (/\ <<leaf, root>> = <<path.leaf, digest.native>>
           /\ digest.chip = root
           /\ swaps /\ gates) = (IsBinary(path) /\ leaf = path.leaf /\ root = RootOf(path))
      BY <2>1
    <3> QED BY <2>2, <3>1
  <2>4. opened' \in {"accepted", "refused"}
          /\ (opened' = "accepted" <=> IsBinary(path) /\ leaf = path.leaf /\ root = RootOf(path))
    BY <2>3 DEF Answer
  <2> QED BY <2>2, <2>4 DEF PathIsProved, ClimbInv
<1>6. ASSUME NEW opening, NEW root, VerifyOpening(opening, root)
      PROVE  ClimbInv' /\ PathIsProved'
  <2>1. digest.native = RootOf(path)
    BY <1>0, <1>6, ClimbEnds DEF VerifyOpening
  <2>2. /\ path' = path /\ claim'.opening = opening /\ claim'.root = root
        /\ opened' = IF opening = path.elements /\ root = digest.native
                     THEN "valid" ELSE "invalid"
    BY <1>6 DEF VerifyOpening, NoClaim
  <2> QED BY <2>1, <2>2 DEF PathIsProved, ClimbInv
<1> QED BY <1>1, <1>2, <1>3, <1>4, <1>5, <1>6 DEF UseMerkle, MerkleNext

\* With the code's width of three, the prover accepts exactly the leaf of the path and
\* the root that the path hashes to along bits, and the CommitmentScheme exactly the
\* path's own nodes and that root, for every field without zero divisors, every path and
\* every number of rounds (MerkleTreeProver::verify, verify of the CommitmentScheme).
THEOREM PathProved ==
  ASSUME Width = 3
  PROVE  Spec => []PathIsProved
<1>1. Init => WalkInv
  BY HashInit DEF WalkInv, Init, MerkleInit, ClimbInv, PathIsProved
<1>2. ASSUME WalkInv, [Next]_vars, HashInv' PROVE WalkInv'
  <2>1. ASSUME UNCHANGED <<spongeVars, merkleVars>> PROVE ClimbInv' /\ PathIsProved'
    BY <1>2, <2>1 DEF WalkInv, ClimbInv, PathIsProved, KidPair, Kids, spongeVars, merkleVars
  <2>2. CASE UNCHANGED vars
    BY <1>2, <2>1, <2>2 DEF vars, WalkInv
  <2>3. ASSUME UsePoseidon PROVE ClimbInv' /\ PathIsProved'
    <3>1. opened' = "none"
      BY <1>2, <2>3 DEF UsePoseidon, merkleVars, WalkInv, HashInv, PathInv
    <3> QED BY <3>1 DEF ClimbInv, PathIsProved
  <2>4. ASSUME UseSponge PROVE ClimbInv' /\ PathIsProved'
    <3>1. PathIsProved'
      BY <1>2, <2>4 DEF UseSponge, merkleVars, WalkInv, PathIsProved
    <3> QED BY <1>2, <2>4, <3>1, ClimbHashes DEF UseSponge, WalkInv
  <2> QED BY <1>2, <2>1, <2>2, <2>3, <2>4, WalkSteps DEF Next, WalkInv
<1>3. WalkInv => PathIsProved
  BY DEF WalkInv
<1> QED BY <1>1, <1>2, <1>3, HashInvHolds, PTL DEF Spec
=============================================================================
