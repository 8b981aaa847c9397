----------------------------- MODULE ZincMemory -----------------------------
(***************************************************************************)
(* The Zinc+ backend of zkmemory: the witness builder, the constraints of  *)
(* the memory-consistency UAIR, the prover, the encoding of a proof and    *)
(* the verifier.  State 0 of the network is the sorted trace, its last     *)
(* state the original one; every row is a wire.                            *)
(*                                                                         *)
(* Zinc+ itself is external: its prover refuses a witness that violates a  *)
(* constraint, and its verifier accepts what the prover made for the same  *)
(* number of rows.  Cells are below LimbBase by its booleanity argument,   *)
(* and constraints are stated on integers (they are tiny next to the       *)
(* prime).                                                                 *)
(***************************************************************************)
EXTENDS BenesNetwork

CONSTANTS
  LimbBase,                             \* 2^32 in the code
  AddrLimbs, DepthLimbs, ValueLimbs,    \* 8, 2 and 8 in the code
  MinVars, MaxVars,                     \* MIN_NUM_VARS and MAX_NUM_VARS: 3 and 16
  Traces,                               \* the traces given to the prover
  FreeVars, FreeRows,                   \* size and rows of a witness the builder did not make
  Headers                               \* the num_vars that a serialized proof may arrive with

TimeLimbs == 2
Cells == 0 .. LimbBase - 1

PlTime == AddrLimbs
PlDepth == PlTime + TimeLimbs
PlValue == PlDepth + DepthLimbs
PlInstr == PlValue + ValueLimbs
Payload == 0 .. PlInstr

Row == [Payload -> Cells]
LexLimbs == 0 .. PlDepth - 1    \* address, then time_log

PowerOfBase[n \in Nat] == IF n = 0 THEN 1 ELSE LimbBase * PowerOfBase[n - 1]

\* The numbers of so many limbs: the words of a record are exactly as wide as their columns.
Words(width) == 0 .. PowerOfBase[width] - 1

TraceRecord ==
  [time_log : Words(TimeLimbs), stack_depth : Words(DepthLimbs),
   instruction : {"Read", "Write"}, address : Words(AddrLimbs), value : Words(ValueLimbs)]

ASSUME ZincAssumption ==
  /\ LimbBase \in Nat /\ LimbBase > 1
  /\ {AddrLimbs, DepthLimbs, ValueLimbs} \subseteq Nat \ {0}
  /\ MaxVars \in Nat /\ MinVars \in 2 .. MaxVars
  /\ FreeVars \in MinVars .. MaxVars
  /\ FreeRows \subseteq Row
  /\ Traces \subseteq Seq(TraceRecord)

-----------------------------------------------------------------------------
VARIABLES
  free,      \* is the witness one that the builder did not make?
  trace,     \* the trace to prove
  rows,      \* the rows of the sorted trace that are committed
  net,       \* the network state reached so far
  layer,     \* the layers between state 0 and net
  linked,    \* do the constraints of these layers hold?
  answer,    \* the result of prove_memory_consistency or verify_memory_consistency
  header     \* num_vars of the proof that the verifier reads

vars == <<routeVars, free, trace, rows, net, layer, linked, answer, header>>

None == "none"

Init ==
  /\ \/ free = FALSE /\ trace \in Traces /\ stage = "build"
     \/ free = TRUE /\ trace = <<>> /\ stage = "free"
  /\ perm = <<>> /\ numVars = 0 /\ blocks = <<>> /\ color = <<>>
  /\ walk = NoWalk /\ switches = <<>>
  /\ rows = <<>> /\ net = <<>>
  /\ layer = 0 /\ linked = TRUE
  /\ answer = None /\ header = 0

-----------------------------------------------------------------------------
(***************************************************************************)
(* The column layout: the shifted columns that are declared, and the ones  *)
(* that the constraints read.                                              *)
(***************************************************************************)
\* build_shifts: an inner state is shifted by the strides of its two layers, the
\* first and last states also by one row where a transition reads them.
DeclaredShifts(v) ==
  {<<0, p, Stride(v, 0)>> : p \in Payload}
  \cup {<<0, p, 1>> : p \in Payload \ (PlDepth .. PlValue - 1)}
  \cup (UNION {{<<g, p, Stride(v, l)>> : p \in Payload, l \in {g - 1, g}}
                 : g \in 1 .. NumLayers(v) - 1})
  \cup {<<NumLayers(v), p, Stride(v, NumLayers(v) - 1)>> : p \in Payload}
  \cup {<<NumLayers(v), p, 1>> : p \in PlTime .. PlTime + 1}

\* The pairs that constrain_general looks up with down_idx.
UsedShifts(v) ==
  {<<0, p, 1>> : p \in LexLimbs \cup (PlValue .. PlInstr - 1) \cup {PlInstr}}
  \cup {<<NumLayers(v), p, 1>> : p \in {PlTime, PlTime + 1}}
  \cup (UNION {{<<g, p, Stride(v, l)>> : g \in {l, l + 1}, p \in Payload} : l \in Layers(v)})

-----------------------------------------------------------------------------
(***************************************************************************)
(* Constraints.  They are not asserted on the last row, so each relates    *)
(* two rows that exist.                                                    *)
(***************************************************************************)
\* (S1) is_first * (instr - 1) = 0.
FirstSorted(row) == row[PlInstr] - 1 = 0

\* (S2)-(S9), k being the limb whose selector is one.
SortedConstraints(cur, next, k) ==
  LET d == [j \in LexLimbs |-> next[j] - cur[j]]
      same == IF k >= AddrLimbs THEN 1 ELSE 0
      w == same * (next[PlInstr] - 1)
  IN /\ next[PlInstr] * (next[PlInstr] - 1) = 0
     /\ \A j \in LexLimbs : j < k => d[j] = 0
     /\ d[k] - 1 \in Cells
     /\ \A p \in PlValue .. PlInstr - 1 : w * (next[p] - cur[p]) = 0
     /\ (1 - same) * (next[PlInstr] - 1) = 0

\* (O1), (O2).
FirstOriginal(row) == row[PlTime] = 0 /\ row[PlTime + 1] = 0

\* (O3)-(O6), hi being the selector of the high limb of time_log.
OriginalConstraints(cur, next, hi) ==
  LET dHi == next[PlTime] - cur[PlTime]
      dLo == next[PlTime + 1] - cur[PlTime + 1]
  IN /\ (1 - hi) * dHi = 0
     /\ hi * dHi + (1 - hi) * dLo - 1 \in Cells

\* (N1): switches are boolean on the rows that upper_k marks.
BooleanSwitches(s) == \A i \in DOMAIN s : s[i] * (s[i] - 1) = 0

\* (N2), (N3): the conditional swap, cell by cell.
SwapConstraints(in, out, v, l, s) ==
  \A i \in UpperWires(v, l) : LET j == Partner(v, l, i) IN
    \A p \in Payload :
      /\ out[i][p] - in[i][p] - s[i] * (in[j][p] - in[i][p]) = 0
      /\ out[j][p] - in[j][p] + s[i] * (in[j][p] - in[i][p]) = 0

\* The only state that (N2) and (N3) allow.
SwapSolution(in, v, l, s) ==
  [i \in Wires(v) |->
     LET j == Partner(v, l, i)
         sw == s[SwitchAt(v, l, i)]
     IN [p \in Payload |-> in[i][p] + sw * (in[j][p] - in[i][p])]]

-----------------------------------------------------------------------------
(***************************************************************************)
(* build_uair_trace.                                                       *)
(***************************************************************************)
\* Limb k of n written in width limbs, most significant first.
Limb(n, width, k) == (n \div PowerOfBase[width - 1 - k]) % LimbBase
TimeEnd == PowerOfBase[TimeLimbs]
TimeOf(row) == LimbBase * row[PlTime] + row[PlTime + 1]

FromRecord(r) ==
  [p \in Payload |->
     CASE p < PlTime -> Limb(r.address, AddrLimbs, p)
       [] p \in PlTime .. PlDepth - 1 -> Limb(r.time_log, TimeLimbs, p - PlTime)
       [] p \in PlDepth .. PlValue - 1 -> Limb(r.stack_depth, DepthLimbs, p - PlDepth)
       [] p \in PlValue .. PlInstr - 1 -> Limb(r.value, ValueLimbs, p - PlValue)
       [] p = PlInstr -> IF r.instruction = "Write" THEN 1 ELSE 0]

\* next_power_of_two of the length and the one padding row.
NumVarsFor(n) ==
  CHOOSE v \in MinVars .. n + MinVars :
    PowerOf2[v] >= n + 1 /\ \A u \in MinVars .. v - 1 : PowerOf2[u] < n + 1

Before(a, b) ==
  \/ a.address < b.address
  \/ a.address = b.address /\ a.time_log < b.time_log

\* The records in the order of addresses, then of times.
SortedTrace ==
  LET records == Range(trace) IN
  [i \in DOMAIN trace |->
     CHOOSE r \in records : Cardinality({q \in records : Before(q, r)}) = i - 1]

LastTime == trace[Len(trace)].time_log

\* Mutant of PaddingRecord: the record accessed last is replayed, not the last
\* one of the sorted trace.
PaddingRecordByTime(n) ==
  [trace[Len(trace)] EXCEPT !.time_log = LastTime + n, !.instruction = "Read"]

\* The n-th padding row reads the last address of the sorted trace once more.
PaddingRecord(n) ==
  [SortedTrace[Len(trace)] EXCEPT !.time_log = LastTime + n, !.instruction = "Read"]

\* Records with the padding behind them, wires counted from zero.
Padded(records, v) ==
  [i \in Wires(v) |->
     IF i < Len(trace) THEN records[i + 1] ELSE PaddingRecord(i + 1 - Len(trace))]

\* The input checks in the order of the code.
FirstBadPair ==
  CHOOSE i \in 2 .. Len(trace) :
    /\ trace[i].time_log <= trace[i - 1].time_log
    /\ \A j \in 2 .. i - 1 : trace[j].time_log > trace[j - 1].time_log

Refusal ==
  IF trace = <<>> THEN "EmptyTrace"
  ELSE IF trace[1].time_log # 0 THEN "FirstTimeNonZero"
  ELSE IF \E i \in 2 .. Len(trace) : trace[i].time_log <= trace[i - 1].time_log
  THEN IF trace[FirstBadPair].time_log = trace[FirstBadPair - 1].time_log
       THEN "DuplicatedAccess" ELSE "TimeNotIncreasing"
  ELSE IF NumVarsFor(Len(trace)) > MaxVars THEN "TraceTooLong"
  ELSE IF LastTime + PowerOf2[NumVarsFor(Len(trace))] - Len(trace) >= TimeEnd
  THEN "TimeLogOverflow"
  ELSE None

Refuse ==
  /\ stage = "build"
  /\ Refusal # None
  /\ answer' = Refusal
  /\ stage' = "ended"
  /\ UNCHANGED <<perm, numVars, blocks, color, walk, switches,
                 free, trace, rows, net, layer, linked, header>>

OriginalRows == [i \in Wires(numVars) |-> FromRecord(Padded(trace, numVars)[i])]

\* Both orderings are padded; state 0 of the network is the sorted one.
Build ==
  LET v == NumVarsFor(Len(trace)) IN
  /\ stage = "build"
  /\ Refusal = None
  /\ numVars' = v
  /\ rows' = [i \in Wires(v) |-> FromRecord(Padded(SortedTrace, v)[i])]
  /\ net' = rows'
  /\ stage' = "link"
  /\ UNCHANGED <<perm, blocks, color, walk, switches, free, trace, layer, linked, answer, header>>

\* Times, which are unique, key the permutation between the orderings.
Link ==
  /\ stage = "link"
  /\ perm' = [j \in Wires(numVars) |->
                CHOOSE i \in Wires(numVars) :
                  TimeOf(rows[i]) = Padded(trace, numVars)[j].time_log]
  /\ stage' = "route"
  /\ UNCHANGED <<numVars, blocks, color, walk, switches,
                 free, trace, rows, net, layer, linked, answer, header>>

Bit(b) == IF b THEN 1 ELSE 0

\* The next network state, with the switches that were routed.
Switch ==
  LET out == ApplyLayer(net, numVars, layer, switches[layer])
      s == [i \in UpperWires(numVars, layer) |-> Bit(switches[layer][i])]
  IN /\ Routed
     /\ layer < NumLayers(numVars)
     /\ net' = out
     /\ linked' = (linked /\ BooleanSwitches(s)
                          /\ SwapConstraints(net, out, numVars, layer, s))
     /\ layer' = layer + 1
     /\ UNCHANGED <<routeVars, free, trace, rows, answer, header>>

\* The last state must be the original trace; the code calls UnsortedTrace unreachable.
Built ==
  /\ Routed
  /\ layer = NumLayers(numVars)
  /\ stage' = IF net = OriginalRows THEN "prove" ELSE "ended"
  /\ answer' = IF net = OriginalRows THEN answer ELSE "UnsortedTrace"
  /\ UNCHANGED <<perm, numVars, blocks, color, walk, switches,
                 free, trace, rows, net, layer, linked, header>>

-----------------------------------------------------------------------------
(***************************************************************************)
(* A witness that the builder did not make: rows, selectors and switches   *)
(* are free.  Only witnesses that satisfy the constraints so far are       *)
(* continued, the prover refuses the others.                               *)
(***************************************************************************)
FreeRow ==
  /\ stage = "free"
  /\ Len(rows) < PowerOf2[FreeVars]
  /\ \E row \in FreeRows :
       /\ IF rows = <<>> THEN FirstSorted(row)
          ELSE \E k \in LexLimbs : SortedConstraints(rows[Len(rows)], row, k)
       /\ rows' = Append(rows, row)
  /\ UNCHANGED <<routeVars, free, trace, net, layer, linked, answer, header>>

FreeNetwork ==
  /\ stage = "free"
  /\ Len(rows) = PowerOf2[FreeVars]
  /\ numVars' = FreeVars
  /\ rows' = [i \in Wires(FreeVars) |-> rows[i + 1]]
  /\ net' = rows'
  /\ stage' = "switch"
  /\ UNCHANGED <<perm, blocks, color, walk, switches, free, trace, layer, linked, answer, header>>

\* Mutant of FreeSwitch: switches are not constrained to be boolean.
FreeSwitchAny ==
  /\ stage = "switch"
  /\ layer < NumLayers(numVars)
  /\ \E s \in [UpperWires(numVars, layer) -> {-1, 0, 1, 2}] :
       LET out == SwapSolution(net, numVars, layer, s) IN
       /\ \A i \in Wires(numVars) : out[i] \in Row
       /\ net' = out
  /\ layer' = layer + 1
  /\ UNCHANGED <<routeVars, free, trace, rows, linked, answer, header>>

FreeSwitch ==
  /\ stage = "switch"
  /\ layer < NumLayers(numVars)
  /\ \E s \in [UpperWires(numVars, layer) -> {-1, 0, 1, 2}] :
       LET out == SwapSolution(net, numVars, layer, s) IN
       /\ BooleanSwitches(s)
       /\ \A i \in Wires(numVars) : out[i] \in Row
       /\ net' = out
  /\ layer' = layer + 1
  /\ UNCHANGED <<routeVars, free, trace, rows, linked, answer, header>>

FreeDone ==
  /\ stage = "switch"
  /\ layer = NumLayers(numVars)
  /\ stage' = "prove"
  /\ UNCHANGED <<perm, numVars, blocks, color, walk, switches,
                 free, trace, rows, net, layer, linked, answer, header>>

-----------------------------------------------------------------------------
(***************************************************************************)
(* The prover, the encoding of proofs and the verifier.                    *)
(***************************************************************************)
\* with_const_num_vars has an arm for every size the callers let through.
HasArm(v) == v \in MinVars .. MaxVars

\* Mutant of Satisfied: the rows of the original trace may repeat a time.
SatisfiedButOriginal ==
  /\ linked
  /\ FirstSorted(rows[0])
  /\ FirstOriginal(net[0])
  /\ \A i \in Wires(numVars) \ {PowerOf2[numVars] - 1} :
       \E k \in LexLimbs : SortedConstraints(rows[i], rows[i + 1], k)

Satisfied ==
  /\ linked
  /\ FirstSorted(rows[0])
  /\ FirstOriginal(net[0])
  /\ \A i \in Wires(numVars) \ {PowerOf2[numVars] - 1} :
       /\ \E k \in LexLimbs : SortedConstraints(rows[i], rows[i + 1], k)
       /\ \E hi \in {0, 1} : OriginalConstraints(net[i], net[i + 1], hi)

\* There is an arm for the size, and down_idx finds every shift.
Proves == HasArm(numVars) /\ UsedShifts(numVars) \subseteq DeclaredShifts(numVars)

Prove ==
  /\ stage = "prove"
  /\ Proves
  /\ Satisfied
  /\ stage' = "proved"
  /\ answer' = "Ok"
  /\ UNCHANGED <<perm, numVars, blocks, color, walk, switches,
                 free, trace, rows, net, layer, linked, header>>

\* An error of the prover, or a panic.
ProverFails ==
  /\ stage = "prove"
  /\ ~ (Proves /\ Satisfied)
  /\ stage' = IF Proves THEN "ended" ELSE "panicked"
  /\ answer' = IF Proves THEN "Prover" ELSE answer
  /\ UNCHANGED <<perm, numVars, blocks, color, walk, switches,
                 free, trace, rows, net, layer, linked, header>>

\* to_bytes, then from_bytes of what arrived: the size may have been altered.
FromBytes ==
  /\ stage = "proved"
  /\ \E h \in Headers \cup {numVars} :
       /\ h \in MinVars .. MaxVars
       /\ header' = h
  /\ stage' = "received"
  /\ UNCHANGED <<perm, numVars, blocks, color, walk, switches,
                 free, trace, rows, net, layer, linked, answer>>

\* from_bytes refuses a short buffer, or a size out of range.
Malformed ==
  /\ stage = "proved"
  /\ Headers \ (MinVars .. MaxVars) # {}
  /\ answer' = "MalformedProof"
  /\ stage' = "ended"
  /\ UNCHANGED <<perm, numVars, blocks, color, walk, switches,
                 free, trace, rows, net, layer, linked, header>>

\* The library rejects a proof with the public columns of another size.
Verify ==
  /\ stage = "received"
  /\ header \in MinVars .. MaxVars
  /\ stage' = "ended"
  /\ answer' = IF header = numVars THEN "Verified" ELSE "Verifier"
  /\ UNCHANGED <<perm, numVars, blocks, color, walk, switches,
                 free, trace, rows, net, layer, linked, header>>

-----------------------------------------------------------------------------
Next ==
  \/ Refuse
  \/ Build
  \/ Link
  \/ Routing /\ UNCHANGED <<free, trace, rows, net, layer, linked, answer, header>>
  \/ Switch
  \/ Built
  \/ FreeRow
  \/ FreeNetwork
  \/ FreeSwitch
  \/ FreeDone
  \/ Prove
  \/ ProverFails
  \/ FromBytes
  \/ Malformed
  \/ Verify

\* The prover and the verifier run to their end.
Spec == Init /\ [][Next]_vars /\ WF_vars(Next)

-----------------------------------------------------------------------------
(***************************************************************************)
(* What a proof is about.                                                  *)
(***************************************************************************)
SamePart(r, q, parts) == \A p \in parts : r[p] = q[p]
SameAddress(r, q) == SamePart(r, q, 0 .. PlTime - 1)
SameValue(r, q) == SamePart(r, q, PlValue .. PlInstr - 1)

ConsistentReads(seq) ==
  \A i \in DOMAIN seq : seq[i][PlInstr] = 0 =>
    \E w \in DOMAIN seq :
      /\ w < i /\ seq[w][PlInstr] = 1
      /\ SameAddress(seq[w], seq[i]) /\ SameValue(seq[w], seq[i])
      /\ \A k \in DOMAIN seq :
           w < k /\ k < i /\ seq[k][PlInstr] = 1 => ~ SameAddress(seq[k], seq[i])

ValidTrace(seq) ==
  /\ TimeOf(seq[0]) = 0
  /\ \A i, j \in DOMAIN seq : i < j => TimeOf(seq[i]) < TimeOf(seq[j])
  /\ \A i \in DOMAIN seq : seq[i][PlInstr] \in {0, 1}
  /\ ConsistentReads(seq)

\* A trace is provable if it is one of a memory and its padded rows fit.
Provable ==
  /\ ~ free
  /\ Len(trace) \in 1 .. PowerOf2[MaxVars] - 1
  /\ ValidTrace([i \in 0 .. Len(trace) - 1 |-> FromRecord(trace[i + 1])])
  /\ \E v \in MinVars .. MaxVars :
       Len(trace) < PowerOf2[v] /\ LastTime + PowerOf2[v] - Len(trace) < TimeEnd

-----------------------------------------------------------------------------

\* Soundness of the constraints: however rows, selectors and switches were
\* chosen, the last network state of a proof that verifies is the trace of a memory.
ProvedIsValid == answer = "Verified" => ValidTrace(net)

\* The network permutes whole records: the two ends hold the same ones.
SameRecords ==
  stage = "prove" =>
    \A row \in Range(rows) \cup Range(net) :
      Cardinality({i \in DOMAIN rows : rows[i] = row})
        = Cardinality({i \in DOMAIN net : net[i] = row})

\* Completeness: routing, padding and limbs never turn the trace of a memory
\* away, and its proof is only refused by the verifier if its size was altered.
ValidIsProved ==
  stage = "ended" /\ Provable =>
    \/ answer = "Verified"
    \/ answer = "Verifier" /\ header # numVars
    \/ answer = "MalformedProof"

\* The walks, the blocks and the layers end, nothing panics (a size without an arm, a
\* shift that is not declared), and the verifier answers.
Answers == ~ free => <>(stage = "ended")
=============================================================================
