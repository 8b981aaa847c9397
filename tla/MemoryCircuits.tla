--------------------------- MODULE MemoryCircuits ---------------------------
(***************************************************************************)
(* The Halo2 memory consistency circuit: MemoryConsistencyCircuit lays out *)
(* the permutation argument, the sorted trace and the original trace, row  *)
(* by row, and is satisfied when all gates and lookups of all rows are.    *)
(*                                                                         *)
(* Gates are equations over a prime field that is larger than anything     *)
(* they compute from limbs, so they are stated on integers; a random       *)
(* combination of values stands for the values themselves.                 *)
(***************************************************************************)
EXTENDS Integers, Sequences, Functions

CONSTANTS
  LimbBase,                \* 256 in the code
  WordLimbs, TimeLimbs,    \* 32 and 8 in the code
  Words,                   \* addresses and values: limbs, most significant first
  Times, Depths,
  FieldOf(_),              \* From<B256>: a word reduced modulo the order of the field
  Traces,                  \* the traces given as input
  Arrangements(_)          \* the second traces given with a trace

Limbs == 0 .. LimbBase - 1
Instructions == {"Read", "Write"}
TraceRecord == [time_log : Times, stack_depth : Depths, instruction : Instructions,
                address : Words, value : Words]

\* Words that are below the order of the field whatever their other limbs are.
TopLimbIsZero(word) == word[1] = 0

ASSUME CircuitAssumption ==
  /\ LimbBase \in Nat \ {0}
  /\ WordLimbs \in Nat \ {0}
  /\ TimeLimbs \in Nat \ {0}
  /\ Words \subseteq [1 .. WordLimbs -> Limbs]
  /\ Times \subseteq [1 .. TimeLimbs -> Limbs]
  /\ \A v, w \in Words :
       TopLimbIsZero(v) /\ TopLimbIsZero(w) /\ FieldOf(v) = FieldOf(w) => v = w
  /\ Traces \subseteq Seq(TraceRecord)

VARIABLES
  input, shuffle,   \* the trace, and the trace sorted by address and time
  region,           \* the region that is assigned, or how the run ended
  row,              \* the rows of the region that are assigned
  satisfied         \* do all gates assigned so far hold?

vars == <<input, shuffle, region, row, satisfied>>

Init ==
  /\ input \in Traces
  /\ shuffle \in Arrangements(input)
  /\ shuffle \in Seq(TraceRecord)
  /\ region = "permutation"
  /\ row = 0
  /\ satisfied = TRUE

-----------------------------------------------------------------------------
(***************************************************************************)
(* Gadgets.                                                                *)
(***************************************************************************)
\* be_limbs: address and time_log stacked, or time_log alone.
KeyLimbs(record) ==
  [k \in 1 .. WordLimbs + TimeLimbs |->
     IF k <= WordLimbs THEN record.address[k] ELSE record.time_log[k - WordLimbs]]

\* limbs_to_expression: the gates see a word without its first limb.
LowLimbs(word) == [k \in 2 .. WordLimbs |-> word[k]]

Differ(cur, prev) == \E k \in DOMAIN cur : cur[k] # prev[k]

\* Mutant of FirstDifference: the search starts at the least significant limb.
LastDifference(cur, prev) ==
  CHOOSE k \in DOMAIN cur :
    /\ cur[k] # prev[k]
    /\ \A l \in DOMAIN cur : l > k => cur[l] = prev[l]

\* The index that the assignment puts into first_difference_limb.
FirstDifference(cur, prev) ==
  CHOOSE k \in DOMAIN cur :
    /\ cur[k] # prev[k]
    /\ \A l \in DOMAIN cur : l < k => cur[l] = prev[l]

\* Mutant of GreaterThan: the difference is not looked up.
GreaterThanUnchecked(cur, prev, index) ==
  /\ \A l \in DOMAIN cur : l < index => cur[l] = prev[l]
  /\ cur[index] - prev[index] # 0

\* GreaterThanConfig: no difference before the index, and one at the index
\* that is not zero and in the table of limbs.
GreaterThan(cur, prev, index) ==
  /\ \A l \in DOMAIN cur : l < index => cur[l] = prev[l]
  /\ cur[index] - prev[index] # 0
  /\ cur[index] - prev[index] \in Limbs

-----------------------------------------------------------------------------
(***************************************************************************)
(* The permutation argument.                                               *)
(***************************************************************************)
\* TraceRecord::compress: a product with random seeds.
Compress(record) ==
  <<record.time_log, record.stack_depth, record.instruction,
    FieldOf(record.address), FieldOf(record.value)>>

\* The shuffle argument: each element of a occurs in b as often as in a.
IsShuffle(a, b) ==
  \E p \in Bijection(DOMAIN a, DOMAIN b) :
    \A i \in DOMAIN a : Compress(a[i]) = Compress(b[p[i]])

\* PermutationCircuit::new asserts that the traces are equally long.
LengthsDiffer ==
  /\ region = "permutation"
  /\ Len(input) # Len(shuffle)
  /\ region' = "panicked"
  /\ UNCHANGED <<input, shuffle, row, satisfied>>

\* Mutant of Permutation: equal lengths are not asserted.
PermutationAnyLength ==
  /\ region = "permutation"
  /\ region' = "sorted"
  /\ satisfied' = IsShuffle(input, shuffle)
  /\ UNCHANGED <<input, shuffle, row>>

Permutation ==
  /\ region = "permutation"
  /\ Len(input) = Len(shuffle)
  /\ region' = "sorted"
  /\ satisfied' = IsShuffle(input, shuffle)
  /\ UNCHANGED <<input, shuffle, row>>

-----------------------------------------------------------------------------
(***************************************************************************)
(* The sorted trace.  The selector of the first row is selector_zero, of   *)
(* all others selector.                                                    *)
(***************************************************************************)
FirstSortedGates(cur) == cur.instruction = "Write"

SortedGates(cur, prev) ==
  /\ GreaterThan(KeyLimbs(cur), KeyLimbs(prev),
                 FirstDifference(KeyLimbs(cur), KeyLimbs(prev)))
  /\ cur.instruction = "Read" => LowLimbs(cur.address) = LowLimbs(prev.address)
  /\ cur.instruction = "Read" /\ LowLimbs(cur.address) = LowLimbs(prev.address)
       => LowLimbs(cur.value) = LowLimbs(prev.value)

FirstSortedRow ==
  /\ region = "sorted"
  /\ row = 0
  /\ row < Len(shuffle)
  /\ satisfied' = (satisfied /\ FirstSortedGates(shuffle[1]))
  /\ row' = 1
  /\ UNCHANGED <<input, shuffle, region>>

SortedRow ==
  /\ region = "sorted"
  /\ row > 0
  /\ row < Len(shuffle)
  /\ Differ(KeyLimbs(shuffle[row + 1]), KeyLimbs(shuffle[row]))
  /\ satisfied' = (satisfied /\ SortedGates(shuffle[row + 1], shuffle[row]))
  /\ row' = row + 1
  /\ UNCHANGED <<input, shuffle, region>>

\* The difference of two equal keys has no inverse to assign.
SortedRowPanics ==
  /\ region = "sorted"
  /\ row > 0
  /\ row < Len(shuffle)
  /\ ~ Differ(KeyLimbs(shuffle[row + 1]), KeyLimbs(shuffle[row]))
  /\ region' = "panicked"
  /\ UNCHANGED <<input, shuffle, row, satisfied>>

SortedDone ==
  /\ region = "sorted"
  /\ row = Len(shuffle)
  /\ region' = "original"
  /\ row' = 0
  /\ UNCHANGED <<input, shuffle, satisfied>>

-----------------------------------------------------------------------------
(***************************************************************************)
(* The original trace, and the verdict on all gates.                       *)
(***************************************************************************)
FirstOriginalGates(cur) == \A k \in 1 .. TimeLimbs : cur.time_log[k] = 0

OriginalGates(cur, prev) ==
  GreaterThan(cur.time_log, prev.time_log,
              FirstDifference(cur.time_log, prev.time_log))

FirstOriginalRow ==
  /\ region = "original"
  /\ row = 0
  /\ row < Len(input)
  /\ satisfied' = (satisfied /\ FirstOriginalGates(input[1]))
  /\ row' = 1
  /\ UNCHANGED <<input, shuffle, region>>

OriginalRow ==
  /\ region = "original"
  /\ row > 0
  /\ row < Len(input)
  /\ Differ(input[row + 1].time_log, input[row].time_log)
  /\ satisfied' = (satisfied /\ OriginalGates(input[row + 1], input[row]))
  /\ row' = row + 1
  /\ UNCHANGED <<input, shuffle, region>>

\* The difference of two equal times has no inverse to assign.
OriginalRowPanics ==
  /\ region = "original"
  /\ row > 0
  /\ row < Len(input)
  /\ ~ Differ(input[row + 1].time_log, input[row].time_log)
  /\ region' = "panicked"
  /\ UNCHANGED <<input, shuffle, row, satisfied>>

Verify ==
  /\ region = "original"
  /\ row = Len(input)
  /\ region' = IF satisfied THEN "accepted" ELSE "rejected"
  /\ UNCHANGED <<input, shuffle, row, satisfied>>

Next ==
  \/ LengthsDiffer
  \/ Permutation
  \/ FirstSortedRow
  \/ SortedRow
  \/ SortedRowPanics
  \/ SortedDone
  \/ FirstOriginalRow
  \/ OriginalRow
  \/ OriginalRowPanics
  \/ Verify

Spec == Init /\ [][Next]_vars

-----------------------------------------------------------------------------
(***************************************************************************)
(* What a trace and a sorted trace are.  The order of big-endian limbs is  *)
(* that of the numbers they write.                                         *)
(***************************************************************************)
Before(a, b) ==
  \E k \in DOMAIN a : a[k] < b[k] /\ \A l \in DOMAIN a : l < k => a[l] = b[l]

Increasing(trace) ==
  \A i, j \in DOMAIN trace : i < j => Before(trace[i].time_log, trace[j].time_log)

\* Record w is the latest write to the address that record i reads.
IsLatestWrite(trace, w, i) ==
  /\ w < i
  /\ trace[w].instruction = "Write"
  /\ trace[w].address = trace[i].address
  /\ \A k \in DOMAIN trace :
       w < k /\ k < i /\ trace[k].instruction = "Write"
         => trace[k].address # trace[i].address

ConsistentReads(trace) ==
  \A i \in DOMAIN trace :
    trace[i].instruction = "Read" =>
      \E w \in DOMAIN trace :
        IsLatestWrite(trace, w, i) /\ trace[w].value = trace[i].value

StartsAtZero(trace) ==
  trace # <<>> => \A k \in 1 .. TimeLimbs : trace[1].time_log[k] = 0

Valid(trace) == StartsAtZero(trace) /\ Increasing(trace) /\ ConsistentReads(trace)

InField(trace) ==
  \A i \in DOMAIN trace :
    TopLimbIsZero(trace[i].address) /\ TopLimbIsZero(trace[i].value)

\* sort_trace: the trace in the order of addresses, then of times.
IsSortOf(sorted, trace) ==
  /\ \E p \in Bijection(DOMAIN trace, DOMAIN sorted) :
       \A i \in DOMAIN trace : trace[i] = sorted[p[i]]
  /\ \A i, j \in DOMAIN sorted :
       i < j => ~ Before(KeyLimbs(sorted[j]), KeyLimbs(sorted[i]))

-----------------------------------------------------------------------------
\* The traces whose rows are compared have one length, and rows are counted
\* from zero in each region (synthesize_with_layouter of the circuits).
TypeOK ==
  /\ {input, shuffle} \subseteq Seq(TraceRecord)
  /\ region \in {"permutation", "sorted", "original", "accepted", "rejected", "panicked"}
  /\ row \in 0 .. Len(shuffle)
  /\ satisfied \in BOOLEAN
  /\ region \in {"sorted", "original", "accepted", "rejected"} => Len(input) = Len(shuffle)
  /\ region = "permutation" => row = 0 /\ satisfied

\* Soundness of the circuit: a trace that is accepted starts at time zero, its
\* times increase, and every read returns what the latest write stored, with
\* whatever second trace it was accepted.  Top limbs are zero because the gates
\* skip them (limbs_to_expression).
Sound ==
  region = "accepted" /\ InField(input) /\ InField(shuffle) => Valid(input)

\* Completeness of the circuit: a trace of a memory is accepted with its sort,
\* as build_and_test_circuit expects (constraints/helper.rs).
Complete ==
  region \in {"rejected", "panicked"} /\ IsSortOf(shuffle, input) => ~ Valid(input)

\* What the gates are named after: the value of a read is that of the previous
\* record, and the first access to an address is a write, for every word.
SoundForAllWords == region = "accepted" => ConsistentReads(input)
=============================================================================
