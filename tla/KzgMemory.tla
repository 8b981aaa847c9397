----------------------------- MODULE KzgMemory ------------------------------
(***************************************************************************)
(* KZGMemoryCommitment: a trace record is committed to as a polynomial     *)
(* with eight values, of which the first five are opened.                  *)
(***************************************************************************)
EXTENDS KzgOpening

CONSTANTS
  Modulus,              \* the order of Fr
  TraceTimes, Depths,   \* u64, always less than the modulus
  TraceWords            \* addresses and values: a 256-bit word may exceed it

ASSUME KzgAssumption ==
  /\ Modulus \in Nat /\ Modulus > 1
  /\ TraceTimes \cup Depths \subseteq 0 .. Modulus - 1
  /\ TraceWords \subseteq Nat

VARIABLES
  committed,    \* the record whose commitment was published
  shown,        \* the record that was proved
  checked,      \* the record that it was verified with
  kzgProof,     \* the opening
  kzg           \* what the scheme did last

kzgVars == <<committed, shown, checked, kzgProof, kzg>>

Records ==
  [time : TraceTimes, depth : Depths, instruction : {"Read", "Write"},
   address : TraceWords, value : TraceWords]

NoRecord == [time |-> 0, depth |-> 0, instruction |-> "Read", address |-> 0, value |-> 0]

KzgInit ==
  /\ committed = NoRecord
  /\ shown = NoRecord
  /\ checked = NoRecord
  /\ kzgProof = NoProof
  /\ kzg = "none"

\* OMEGA_POWER[0..5]: the points that are opened, of eight.
OpenedPoints == <<0, 1, 2, 3, 4>>

\* From<word> for Fr: "Unable to deserialize Fr from bytes".
OutOfField(record) == record.address >= Modulus \/ record.value >= Modulus

\* trace_to_field and poly_from_trace: 1 for a write, 0 for a read, and three zeros.
TraceToField(record) ==
  [p \in 0 .. 7 |->
     CASE p = 0 -> record.time
       [] p = 1 -> record.depth
       [] p = 2 -> IF record.instruction = "Write" THEN 1 ELSE 0
       [] p = 3 -> record.address
       [] p = 4 -> record.value
       [] OTHER -> 0]

Five(x) == [i \in 1 .. 5 |-> x]

KzgPanic ==
  /\ kzg' = "panicked"
  /\ UNCHANGED <<committed, shown, checked, kzgProof>>

\* commit, commit_trace.
CommitTrace(record) ==
  /\ kzg = "none"
  /\ IF OutOfField(record) THEN KzgPanic
     ELSE /\ committed' = record
          /\ kzg' = "committed"
          /\ UNCHANGED <<shown, checked, kzgProof>>

\* prove_trace_record: of any record, with any commitment.
ProveTraceRecord(record, commitment) ==
  /\ kzg = "committed"
  /\ IF \/ OutOfField(record)
        \/ CannotProve(OpenedPoints, Five(TraceToField(record)), Five(commitment), 0)
     THEN KzgPanic
     ELSE /\ shown' = record
          /\ kzgProof' = CreateKzgProof(OpenedPoints, Five(TraceToField(record)),
                                        Five(commitment))
          /\ kzg' = "shown"
          /\ UNCHANGED <<committed, checked>>

\* open: the record is committed to once more.
Open(record) == ProveTraceRecord(record, TraceToField(record))

\* verify, verify_trace_record.  A proof that was cut off cannot be read.
VerifyTraceRecord(record, proof) ==
  /\ kzg = "shown"
  /\ IF OutOfField(record) \/ CannotRead(OpenedPoints, proof) THEN KzgPanic
     ELSE /\ kzg' = IF VerifyKzgProof(OpenedPoints,
                                      [i \in 1 .. 8 |-> TraceToField(record)[i - 1]],
                                      Five(TraceToField(committed)), proof)
                    THEN "verified" ELSE "rejected"
          /\ checked' = record
          /\ UNCHANGED <<committed, shown, kzgProof>>

KzgNext ==
  \E record \in Records :
    \/ CommitTrace(record)
    \/ ProveTraceRecord(record, TraceToField(committed))
    \/ Open(record)
    \/ \E proof \in {kzgProof, NoProof} : VerifyTraceRecord(record, proof)

-----------------------------------------------------------------------------
\* A commitment is opened as the record that was committed to and as no other: every
\* field of the record is bound by one of the five points, and an honest opening is
\* accepted (test_false_trace_opening, test_kzg_commitment_scheme).
RecordIsBound ==
  /\ kzg = "verified" => committed = shown /\ committed = checked
  /\ kzg = "rejected" => ~(committed = shown /\ committed = checked)
=============================================================================
