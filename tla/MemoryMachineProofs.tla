------------------------ MODULE MemoryMachineProofs ------------------------
(***************************************************************************)
(* MemoryMachine for any layout, program, build and set of instructions:   *)
(* it is well typed and its trace is consistent; in the head layout push   *)
(* and pop stay in the stack section, and it implements FlatMachine.       *)
(***************************************************************************)
EXTENDS MemoryMachine, SequenceTheorems, WellFoundedInduction, TLAPS

(***************************************************************************)
(* Multiples of the word size.                                             *)
(***************************************************************************)
LEMMA DivMod ==
  ASSUME NEW w \in Nat \ {0}, NEW a \in Int
  PROVE  /\ a = (a \div w) * w + (a % w)
         /\ a \div w \in Int
         /\ a % w \in 0 .. w - 1
OBVIOUS

LEMMA MultipleMod ==
  ASSUME NEW w \in Nat \ {0}, NEW k \in Int
  PROVE  (k * w) % w = 0
OBVIOUS

LEMMA MultipleOf ==
  ASSUME NEW w \in Nat \ {0}, NEW a \in Int, a % w = 0
  PROVE  \E k \in Int : a = k * w
<1>1. a = (a \div w) * w /\ a \div w \in Int
  BY DivMod
<1> QED BY <1>1

LEMMA SumMod ==
  ASSUME NEW w \in Nat \ {0}, NEW a \in Int, NEW b \in Int, a % w = 0, b % w = 0
  PROVE  (a + b) % w = 0
<1>1. PICK k \in Int : a = k * w
  BY MultipleOf
<1>2. PICK m \in Int : b = m * w
  BY MultipleOf
<1>3. a + b = (k + m) * w /\ k + m \in Int
  BY <1>1, <1>2
<1> QED BY <1>3, MultipleMod

LEMMA LowerMod ==
  ASSUME NEW w \in Nat \ {0}, NEW a \in Int
  PROVE  (a - (a % w)) % w = 0
<1>1. a - (a % w) = (a \div w) * w /\ a \div w \in Int
  BY DivMod
<1> QED BY <1>1, MultipleMod

LEMMA ProductLeq ==
  ASSUME NEW w \in Nat, NEW a \in Int, NEW b \in Int, a <= b
  PROVE  a * w <= b * w
OBVIOUS

\* Two multiples that differ do so by a word at least.
LEMMA MultiplesApart ==
  ASSUME NEW w \in Nat \ {0}, NEW a \in Int, NEW b \in Int,
         a % w = 0, b % w = 0, a < b
  PROVE  a + w <= b
<1>1. PICK k \in Int : a = k * w
  BY MultipleOf
<1>2. PICK m \in Int : b = m * w
  BY MultipleOf
<1>3. k + 1 <= m
  <2> SUFFICES ASSUME m <= k PROVE FALSE
    BY <1>1, <1>2
  <2> QED BY ProductLeq, <1>1, <1>2
<1>4. (k + 1) * w <= m * w
  BY <1>3, ProductLeq
<1> QED BY <1>1, <1>2, <1>4

(***************************************************************************)
(* Cells.                                                                  *)
(***************************************************************************)
LEMMA Sizes ==
  /\ WordSize \in Nat \ {0}
  /\ MaxAddress \in Nat
  /\ (MaxAddress + 1) % WordSize = 0
  /\ StackDepth \in Nat /\ NoRegister \in Nat /\ NoBuffer \in Nat
<1>1. PICK cells \in 0 .. MaxAddress : MaxAddress + 1 = cells * WordSize
  BY LayoutAssumption
<1>2. WordSize \in Nat \ {0} /\ cells \in Int
  BY LayoutAssumption
<1>3. (cells * WordSize) % WordSize = 0
  BY <1>2, MultipleMod
<1> QED BY <1>1, <1>3, LayoutAssumption

LEMMA LowerBounds ==
  ASSUME NEW w \in Nat \ {0}, NEW a \in Nat
  PROVE  a - (a % w) \in Nat /\ a - (a % w) <= a
<1>1. a = (a \div w) * w + (a % w) /\ a \div w \in Int /\ a % w \in 0 .. w - 1
  BY DivMod
<1>2. a \div w >= 0
  <2> SUFFICES ASSUME a \div w <= -1 PROVE FALSE
    BY <1>1
  <2>1. (a \div w) * w <= (-1) * w
    BY <1>1, ProductLeq
  <2> QED BY <2>1, <1>1
<1>3. 0 * w <= (a \div w) * w
  BY <1>1, <1>2, ProductLeq
<1> QED BY <1>1, <1>3

LEMMA LowerCell ==
  ASSUME NEW a \in 0 .. MaxAddress
  PROVE  Lower(a) \in CellAddress /\ Lower(a) + WordSize <= MaxAddress + 1
<1>1. Lower(a) % WordSize = 0
  BY Sizes, LowerMod DEF Lower
<1>2. Lower(a) \in Nat /\ Lower(a) <= a
  BY Sizes, LowerBounds DEF Lower
<1>3. Lower(a) + WordSize <= MaxAddress + 1
  BY <1>1, <1>2, MultiplesApart, Sizes
<1> QED BY <1>1, <1>2, <1>3, Sizes DEF CellAddress

LEMMA UpperCell ==
  ASSUME NEW a \in 0 .. MaxAddress
  PROVE  Upper(a) \in CellAddress
<1>1. Lower(a) \in Int /\ Lower(a) >= 0 /\ Lower(a) % WordSize = 0
      /\ Lower(a) + WordSize <= MaxAddress + 1
  BY LowerCell DEF CellAddress
<1>2. (Lower(a) + WordSize) % WordSize = 0
  BY <1>1, SumMod, Sizes, MultipleMod
<1>3. CASE Lower(a) + WordSize = MaxAddress + 1
  <2>1. Upper(a) = 0
    BY <1>3, Sizes DEF Upper
  <2> QED BY <2>1, Sizes DEF CellAddress
<1>4. CASE Lower(a) + WordSize <= MaxAddress
  <2>1. Upper(a) = Lower(a) + WordSize
    BY <1>1, <1>4, Sizes DEF Upper
  <2> QED BY <2>1, <1>1, <1>2, <1>4, Sizes DEF CellAddress
<1> QED BY <1>1, <1>3, <1>4, Sizes

LEMMA AlignedCell ==
  ASSUME NEW a \in 0 .. MaxAddress, Aligned(a)
  PROVE  a \in CellAddress
BY DEF Aligned, CellAddress

LEMMA CellIsAddress ==
  ASSUME NEW c \in CellAddress
  PROVE  c \in 0 .. MaxAddress /\ Aligned(c)
BY DEF Aligned, CellAddress

(***************************************************************************)
(* The fixed sections: their cells are cells of the address space.         *)
(***************************************************************************)
LEMMA HeadSections ==
  /\ HeadStack.low = 0
  /\ HeadStack.high = StackDepth * WordSize
  /\ HeadRegister.low = (StackDepth + NoBuffer) * WordSize
  /\ LastOffset(HeadRegister) = (StackDepth + NoRegister + 2 * NoBuffer) * WordSize
<1>1. HeadStack.low = 0 /\ HeadStack.high = StackDepth * WordSize
  BY Sizes DEF HeadStack, FixedSection
<1>2. HeadRegister.low = StackDepth * WordSize + NoBuffer * WordSize
  BY <1>1 DEF HeadRegister, FixedSection, LastOffset, BufferSize
<1>3. LastOffset(HeadRegister)
        = StackDepth * WordSize + NoBuffer * WordSize + NoRegister * WordSize
          + NoBuffer * WordSize
  BY <1>2 DEF HeadRegister, FixedSection, LastOffset, BufferSize
<1> QED BY <1>1, <1>2, <1>3, Sizes

LEMMA Begin ==
  ASSUME ~ HeadLayout
  PROVE  /\ BeginOfFixedSection \in Nat
         /\ BeginOfFixedSection % WordSize = 0
         /\ BeginOfFixedSection + LastOffset(HeadRegister) <= MaxAddress
<1> DEFINE fixed == LastOffset(HeadRegister)
<1>1. (StackDepth + NoRegister + 3 * NoBuffer) * WordSize <= MaxAddress
  BY LayoutAssumption
<1>2. (StackDepth + NoRegister + 2 * NoBuffer) * WordSize
        <= (StackDepth + NoRegister + 3 * NoBuffer) * WordSize
  BY Sizes, ProductLeq
<1>3. fixed \in Int /\ fixed <= MaxAddress
  BY <1>1, <1>2, HeadSections, Sizes
<1>4. BeginOfFixedSection = (MaxAddress - fixed) - ((MaxAddress - fixed) % WordSize)
  BY DEF BeginOfFixedSection
<1>5. MaxAddress - fixed \in Nat
  BY <1>3, Sizes
<1> HIDE DEF fixed
<1>6. BeginOfFixedSection \in Nat /\ BeginOfFixedSection <= MaxAddress - fixed
  BY <1>4, <1>5, Sizes, LowerBounds
<1>7. BeginOfFixedSection % WordSize = 0
  BY <1>4, <1>5, Sizes, LowerMod
<1>8. BeginOfFixedSection + fixed <= MaxAddress
  BY <1>3, <1>6, Sizes
<1> QED BY <1>6, <1>7, <1>8 DEF fixed

LEMMA RegisterCell ==
  ASSUME NEW r \in Registers
  PROVE  Cell(r) \in CellAddress
<1>1. r \in Nat /\ r + 1 <= NoRegister
  BY MachineAssumption, Sizes
<1> DEFINE offset == (StackDepth + NoBuffer + r) * WordSize
<1>2. offset \in Int /\ offset % WordSize = 0 /\ offset >= 0
  BY <1>1, Sizes, MultipleMod, ProductLeq
<1>3. HeadRegister.low + r * WordSize = offset
  BY <1>1, HeadSections, Sizes
<1>4. CASE HeadLayout
  <2>1. Cell(r) = offset
    BY <1>3, <1>4 DEF Cell, RegisterAddress, RegisterSection, Moved
  <2>2. (StackDepth + NoRegister + 2 * NoBuffer) * WordSize <= MaxAddress
    BY <1>4, LayoutAssumption
  <2>3. offset <= (StackDepth + NoRegister + 2 * NoBuffer) * WordSize
    BY <1>1, Sizes, ProductLeq
  <2> HIDE DEF offset
  <2> QED BY <2>1, <2>2, <2>3, <1>2, Sizes DEF CellAddress
<1>5. CASE ~ HeadLayout
  <2>1. Cell(r) = HeadRegister.low + BeginOfFixedSection + r * WordSize
    BY <1>5 DEF Cell, RegisterAddress, RegisterSection, Moved
  <2>2. offset <= LastOffset(HeadRegister)
    BY <1>1, Sizes, ProductLeq, HeadSections
  <2>3. HeadRegister.low \in Int /\ r * WordSize \in Int /\ LastOffset(HeadRegister) \in Int
    BY <1>1, HeadSections, Sizes
  <2> HIDE DEF offset
  <2>4. Cell(r) = offset + BeginOfFixedSection
    BY <2>1, <2>3, <1>2, <1>3, <1>5, Begin
  <2>5. (offset + BeginOfFixedSection) % WordSize = 0
    BY <1>2, <1>5, Begin, SumMod, Sizes
  <2> QED BY <2>2, <2>3, <2>4, <2>5, <1>2, <1>5, Begin, Sizes DEF CellAddress
<1> QED BY <1>4, <1>5

LEMMA StackCell ==
  ASSUME NEW d \in 0 .. StackDepth - 1
  PROVE  d * WordSize \in CellAddress /\ d * WordSize + WordSize <= StackDepth * WordSize
<1>1. d \in Nat /\ d + 1 <= StackDepth
  BY Sizes
<1>2. (d + 1) * WordSize <= StackDepth * WordSize
  BY <1>1, Sizes, ProductLeq
<1>3. d * WordSize + WordSize = (d + 1) * WordSize /\ d * WordSize \in Int
  BY <1>1, Sizes
<1>4. 0 * WordSize <= d * WordSize
  BY <1>1, Sizes, ProductLeq
<1>5. StackDepth * WordSize <= MaxAddress
  <2> DEFINE buffers == IF HeadLayout THEN 2 * NoBuffer ELSE 3 * NoBuffer
  <2>1. (StackDepth + NoRegister + buffers) * WordSize <= MaxAddress
    BY LayoutAssumption
  <2>2. StackDepth <= StackDepth + NoRegister + buffers /\ buffers \in Int
    BY Sizes
  <2>3. StackDepth * WordSize <= (StackDepth + NoRegister + buffers) * WordSize
    BY <2>2, Sizes, ProductLeq
  <2> QED BY <2>1, <2>2, <2>3, Sizes
<1>6. (d * WordSize) % WordSize = 0
  BY <1>1, Sizes, MultipleMod
<1> QED BY <1>2, <1>3, <1>4, <1>5, <1>6, Sizes DEF CellAddress

(***************************************************************************)
(* Words: what is read and written is words.                               *)
(***************************************************************************)
LEMMA ZeroWord == Zero \in Word
BY MachineAssumption DEF Zero, Word

LEMMA ReadWord ==
  ASSUME TypeOK, NEW c \in CellAddress
  PROVE  DummyRead(c) \in Word
BY ZeroWord DEF TypeOK, DummyRead

LEMMA PartsAreWords ==
  ASSUME TypeOK, NEW a \in 0 .. MaxAddress, NEW v \in Word
  PROVE  WordAt(a) \in Word /\ LowerPart(a, v) \in Word /\ UpperPart(a, v) \in Word
<1>1. DummyRead(Lower(a)) \in Word /\ DummyRead(Upper(a)) \in Word
  BY LowerCell, UpperCell, ReadWord
<1>2. a % WordSize \in 0 .. WordSize - 1
  BY Sizes, DivMod
<1> DEFINE rest == a % WordSize  lower == DummyRead(Lower(a))  upper == DummyRead(Upper(a))
<1> HIDE DEF rest, lower, upper
<1>3. /\ rest \in 0 .. WordSize - 1
      /\ lower \in [0 .. WordSize - 1 -> Byte] /\ upper \in [0 .. WordSize - 1 -> Byte]
      /\ v \in [0 .. WordSize - 1 -> Byte]
  BY <1>1, <1>2 DEF rest, lower, upper, Word
<1>4. WordAt(a) \in Word
  <2>1. [i \in 0 .. WordSize - 1 |-> IF i + rest < WordSize THEN lower[i + rest]
                                     ELSE upper[i + rest - WordSize]] \in Word
    BY <1>3, Sizes DEF Word
  <2> QED BY <2>1 DEF WordAt, rest, lower, upper
<1>5. LowerPart(a, v) \in Word
  <2>1. [i \in 0 .. WordSize - 1 |-> IF i < rest THEN lower[i] ELSE v[i - rest]] \in Word
    BY <1>3, Sizes DEF Word
  <2> QED BY <2>1 DEF LowerPart, rest, lower
<1>6. UpperPart(a, v) \in Word
  <2>1. [i \in 0 .. WordSize - 1 |-> IF i < rest THEN v[i + WordSize - rest]
                                     ELSE upper[i]] \in Word
    BY <1>3, Sizes DEF Word
  <2> QED BY <2>1 DEF UpperPart, rest, upper
<1> QED BY <1>4, <1>5, <1>6

(***************************************************************************)
(* The accesses of an instruction: reads of what memory holds, then writes. *)
(***************************************************************************)
AccessType == [instruction : Instructions, address : CellAddress, value : Word,
               stack_depth : 0 .. StackDepth]

ReadsOnly(s) ==
  /\ s \in Seq(AccessType)
  /\ \A i \in 1 .. Len(s) : /\ s[i].instruction = "Read"
                            /\ s[i].value = DummyRead(s[i].address)

WritesOnly(s) ==
  /\ s \in Seq(AccessType)
  /\ \A i \in 1 .. Len(s) : s[i].instruction = "Write"

ReadsThenWrites(s) ==
  /\ s \in Seq(AccessType)
  /\ \A i \in 1 .. Len(s) :
       s[i].instruction = "Read" =>
         /\ s[i].value = DummyRead(s[i].address)
         /\ \A j \in 1 .. i : s[j].instruction = "Read"

LEMMA ReadAccesses ==
  ASSUME TypeOK, NEW a \in 0 .. MaxAddress, NEW d \in 0 .. StackDepth
  PROVE  ReadsOnly(Reads(a, d))
<1>1. CASE Aligned(a)
  <2>1. a \in CellAddress
    BY <1>1, AlignedCell
  <2>2. Access("Read", a, DummyRead(a), d) \in AccessType
    BY <2>1, ReadWord DEF Access, AccessType, Instructions
  <2> QED BY <1>1, <2>2 DEF ReadsOnly, Reads, Access
<1>2. CASE ~ Aligned(a)
  <2>1. /\ Access("Read", Lower(a), DummyRead(Lower(a)), d) \in AccessType
        /\ Access("Read", Upper(a), DummyRead(Upper(a)), d) \in AccessType
    BY LowerCell, UpperCell, ReadWord DEF Access, AccessType, Instructions
  <2> QED BY <1>2, <2>1 DEF ReadsOnly, Reads, Access
<1> QED BY <1>1, <1>2

LEMMA WriteAccesses ==
  ASSUME TypeOK, NEW a \in 0 .. MaxAddress, NEW v \in Word, NEW d \in 0 .. StackDepth
  PROVE  WritesOnly(Writes(a, v, d))
<1>1. CASE Aligned(a)
  <2>1. a \in CellAddress
    BY <1>1, AlignedCell
  <2>2. Access("Write", a, v, d) \in AccessType
    BY <2>1 DEF Access, AccessType, Instructions
  <2> QED BY <1>1, <2>2 DEF WritesOnly, Writes, Access
<1>2. CASE ~ Aligned(a)
  <2>1. /\ Access("Write", Lower(a), LowerPart(a, v), d) \in AccessType
        /\ Access("Write", Upper(a), UpperPart(a, v), d) \in AccessType
    BY LowerCell, UpperCell, PartsAreWords DEF Access, AccessType, Instructions
  <2> QED BY <1>2, <2>1 DEF WritesOnly, Writes, Access
<1> QED BY <1>1, <1>2

LEMMA MoreReads ==
  ASSUME NEW s, NEW t, ReadsOnly(s), ReadsOnly(t)
  PROVE  ReadsOnly(s \o t)
BY ConcatProperties DEF ReadsOnly

LEMMA MoreWrites ==
  ASSUME NEW s, NEW t, WritesOnly(s), WritesOnly(t)
  PROVE  WritesOnly(s \o t)
BY ConcatProperties DEF WritesOnly

LEMMA Ordered ==
  ASSUME NEW s, NEW t, ReadsOnly(s), WritesOnly(t)
  PROVE  ReadsThenWrites(s \o t)
BY ConcatProperties DEF ReadsOnly, WritesOnly, ReadsThenWrites

LEMMA OnlyOneKind ==
  ASSUME NEW s
  PROVE  /\ ReadsOnly(s) => ReadsThenWrites(s)
         /\ WritesOnly(s) => ReadsThenWrites(s)
BY DEF ReadsOnly, WritesOnly, ReadsThenWrites

\* A nonempty set of indices has a greatest one.
LEMMA Greatest ==
  ASSUME NEW n \in Nat, NEW S \in SUBSET (1 .. n), S # {}
  PROVE  \E i \in S : \A j \in S : j <= i
<1> DEFINE T == {k \in Nat : n - k \in S}
<1>1. PICK i \in S : TRUE
  OBVIOUS
<1>2. n - i \in T
  <2>1. i \in Int /\ 1 <= i /\ i <= n
    BY <1>1
  <2>2. n - i \in Nat /\ n - (n - i) = i
    BY <2>1
  <2> QED BY <2>2, <1>1
<1>3. T \subseteq Nat /\ T # {}
  BY <1>2
<1>4. PICK k \in T : \A m \in T : <<m, k>> \notin OpToRel(<, Nat)
  BY <1>3, WFMin, NatLessThanWellFounded
<1>5. n - k \in S /\ k \in Nat
  BY <1>4
<1>6. ASSUME NEW j \in S PROVE j <= n - k
  <2>1. j \in Int /\ n - j \in Nat /\ n - (n - j) = j
    BY <1>6
  <2>2. n - j \in T
    BY <2>1
  <2>3. ~ (n - j < k)
    BY <2>2, <1>4, <1>5, <2>1 DEF OpToRel
  <2> QED BY <2>1, <2>3, <1>5
<1> QED BY <1>5, <1>6

(***************************************************************************)
(* The trace and the memory agree: a cell holds what was written last.     *)
(***************************************************************************)
IsWriteTo(w, c) == w.instruction = "Write" /\ w.address = c

MemoryIsLastWrite ==
  \A c \in CellAddress :
    \/ \E w \in execution_trace :
         /\ IsWriteTo(w, c)
         /\ w.value = DummyRead(c)
         /\ \A x \in execution_trace : IsWriteTo(x, c) => x.time_log <= w.time_log
    \/ /\ \A w \in execution_trace : ~ IsWriteTo(w, c)
       /\ DummyRead(c) = Zero

IndInv == TypeOK /\ ReadsLastWrite /\ MemoryIsLastWrite

\* The types of the variables that Perform changes.
MemoryType ==
  /\ DOMAIN memory \subseteq CellAddress
  /\ \A cell \in DOMAIN memory : memory[cell] \in Word
  /\ execution_trace \subseteq TraceRecord
  /\ time_log \in Nat
  /\ panicked \in BOOLEAN

\* A cell after the accesses: what the last of them wrote, else what it was.
LEMMA CellAfter ==
  ASSUME TypeOK, NEW s, ReadsThenWrites(s), Perform(s), NEW c \in CellAddress
  PROVE  \/ /\ \A j \in 1 .. Len(s) : ~ IsWriteTo(s[j], c)
            /\ DummyRead(c)' = DummyRead(c)
            /\ c \in DOMAIN memory' => c \in DOMAIN memory
         \/ \E k \in 1 .. Len(s) :
              /\ IsWriteTo(s[k], c)
              /\ \A j \in 1 .. Len(s) : IsWriteTo(s[j], c) => j <= k
              /\ DummyRead(c)' = s[k].value
              /\ c \in DOMAIN memory' /\ memory'[c] = s[k].value
<1>1. s \in Seq(AccessType) /\ DOMAIN s = 1 .. Len(s) /\ Len(s) \in Nat
  BY DEF ReadsThenWrites
<1>2. memory' = Written(s)
  BY DEF Perform
<1> DEFINE S == WritesTo(s, c)
<1>3. S = {i \in 1 .. Len(s) : IsWriteTo(s[i], c)}
  BY <1>1 DEF WritesTo, IsWriteTo
<1>4. CASE S = {}
  <2>1. c \in DOMAIN memory' <=> c \in DOMAIN memory
    BY <1>2, <1>4 DEF Written
  <2>2. c \in DOMAIN memory => memory'[c] = memory[c]
    BY <1>2, <1>4 DEF Written
  <2>3. DummyRead(c)' = DummyRead(c)
    BY <2>1, <2>2 DEF DummyRead
  <2> QED BY <1>3, <1>4, <2>1, <2>3
<1>5. CASE S # {}
  <2> DEFINE k == CHOOSE i \in S : \A j \in S : j <= i
  <2>1. \E i \in S : \A j \in S : j <= i
    BY <1>1, <1>3, <1>5, Greatest
  <2>2. k \in S /\ \A j \in S : j <= k
    BY <2>1
  <2>3. c \in DOMAIN memory' /\ memory'[c] = s[k].value
    BY <1>2, <1>5 DEF Written
  <2> HIDE DEF k
  <2> QED BY <1>3, <2>2, <2>3 DEF DummyRead
<1> QED BY <1>4, <1>5

LEMMA PerformTypes ==
  ASSUME TypeOK, NEW s, ReadsThenWrites(s), Perform(s)
  PROVE  MemoryType'
<1>1. s \in Seq(AccessType) /\ DOMAIN s = 1 .. Len(s) /\ Len(s) \in Nat
  BY DEF ReadsThenWrites
<1>2. DOMAIN memory' \subseteq CellAddress
  BY DEF TypeOK, Perform, Written
<1>3. ASSUME NEW c \in DOMAIN memory' PROVE memory'[c] \in Word
  <2>1. c \in CellAddress
    BY <1>2
  <2>2. CASE c \in DOMAIN memory /\ DummyRead(c)' = DummyRead(c)
    BY <2>2, <2>1, ReadWord DEF DummyRead
  <2>3. ASSUME NEW k \in 1 .. Len(s), memory'[c] = s[k].value PROVE memory'[c] \in Word
    <3>1. s[k] \in AccessType
      BY <1>1
    <3>2. s[k].value \in Word
      BY <3>1 DEF AccessType
    <3> QED BY <3>2, <2>3
  <2> QED BY <2>1, <2>2, <2>3, CellAfter
<1>4. execution_trace' \subseteq TraceRecord
  <2>1. ASSUME NEW i \in 1 .. Len(s) PROVE Track(s[i], i) \in TraceRecord
    <3>1. s[i] \in AccessType
      BY <1>1
    <3>2. time_log + i - 1 \in Nat
      BY <1>1 DEF TypeOK
    <3> QED BY <3>1, <3>2 DEF Track, TraceRecord, AccessType
  <2> QED BY <1>1, <2>1 DEF TypeOK, Perform
<1>5. time_log' \in Nat /\ panicked' \in BOOLEAN
  BY <1>1 DEF TypeOK, Perform, Elapsed
<1> QED BY <1>2, <1>3, <1>4, <1>5 DEF MemoryType

\* What Perform adds to the trace: records later than all there were.
LEMMA NewRecord ==
  ASSUME TypeOK, NEW s, ReadsThenWrites(s), Perform(s), NEW i \in 1 .. Len(s)
  PROVE  /\ s[i] \in AccessType
         /\ Track(s[i], i).time_log = time_log + i - 1
         /\ Track(s[i], i).value = s[i].value
         /\ Track(s[i], i).instruction = s[i].instruction
         /\ Track(s[i], i).address = s[i].address
         /\ Track(s[i], i) \in execution_trace'
<1>1. s \in Seq(AccessType) /\ DOMAIN s = 1 .. Len(s)
  BY DEF ReadsThenWrites
<1> QED BY <1>1 DEF Perform, Track

LEMMA Records ==
  ASSUME TypeOK, ReadsLastWrite, NEW s, ReadsThenWrites(s), Perform(s)
  PROVE  /\ time_log \in Nat /\ Len(s) \in Nat /\ time_log' = time_log + Len(s)
         /\ execution_trace \subseteq execution_trace'
         /\ \A r \in execution_trace : r.time_log \in Nat /\ r.time_log < time_log
         /\ \A r \in execution_trace' :
              r \in execution_trace \/ \E i \in 1 .. Len(s) : r = Track(s[i], i)
<1>1. s \in Seq(AccessType) /\ DOMAIN s = 1 .. Len(s) /\ Len(s) \in Nat
  BY DEF ReadsThenWrites
<1> QED BY <1>1 DEF Perform, Elapsed, TypeOK, TraceRecord, ReadsLastWrite

LEMMA PerformMemory ==
  ASSUME IndInv, NEW s, ReadsThenWrites(s), Perform(s)
  PROVE  MemoryIsLastWrite'
<1> USE DEF IndInv
<1> SUFFICES ASSUME NEW c \in CellAddress
             PROVE  \/ \E w \in execution_trace' :
                         /\ IsWriteTo(w, c)
                         /\ w.value = DummyRead(c)'
                         /\ \A x \in execution_trace' :
                              IsWriteTo(x, c) => x.time_log <= w.time_log
                    \/ /\ \A w \in execution_trace' : ~ IsWriteTo(w, c)
                       /\ DummyRead(c)' = Zero
  BY DEF MemoryIsLastWrite
<1>1. CASE /\ \A j \in 1 .. Len(s) : ~ IsWriteTo(s[j], c)
           /\ DummyRead(c)' = DummyRead(c)
  <2>1. ASSUME NEW x \in execution_trace', IsWriteTo(x, c)
        PROVE  x \in execution_trace
    <3>1. ASSUME NEW i \in 1 .. Len(s), x = Track(s[i], i) PROVE FALSE
      BY <1>1, <2>1, <3>1, NewRecord DEF IsWriteTo
    <3> QED BY <3>1, Records
  <2>2. execution_trace \subseteq execution_trace'
    BY Records
  <2> QED BY <1>1, <2>1, <2>2 DEF MemoryIsLastWrite
<1>2. ASSUME NEW k \in 1 .. Len(s), IsWriteTo(s[k], c), DummyRead(c)' = s[k].value,
             \A j \in 1 .. Len(s) : IsWriteTo(s[j], c) => j <= k
      PROVE  \E w \in execution_trace' :
               /\ IsWriteTo(w, c)
               /\ w.value = DummyRead(c)'
               /\ \A x \in execution_trace' : IsWriteTo(x, c) => x.time_log <= w.time_log
  <2> DEFINE w == Track(s[k], k)
  <2>1. w \in execution_trace' /\ IsWriteTo(w, c) /\ w.value = DummyRead(c)'
        /\ w.time_log = time_log + k - 1
    BY <1>2, NewRecord DEF IsWriteTo
  <2> HIDE DEF w
  <2>2. ASSUME NEW x \in execution_trace', IsWriteTo(x, c)
        PROVE  x.time_log <= w.time_log
    <3>1. CASE x \in execution_trace
      BY <3>1, <2>1, Records
    <3>2. ASSUME NEW i \in 1 .. Len(s), x = Track(s[i], i) PROVE x.time_log <= w.time_log
      <4>1. IsWriteTo(s[i], c) /\ x.time_log = time_log + i - 1
        BY <2>2, <3>2, NewRecord DEF IsWriteTo
      <4> QED BY <4>1, <1>2, <2>1, Records
    <3> QED BY <3>1, <3>2, Records
  <2> QED BY <2>1, <2>2
<1> QED BY <1>1, <1>2, CellAfter

\* The writes before a record that was there are the same as before.
LEMMA OldReads ==
  ASSUME IndInv, NEW s, ReadsThenWrites(s), Perform(s),
         NEW r \in execution_trace, r.instruction = "Read"
  PROVE  \/ \E w \in execution_trace' : IsLastWrite(w, r)' /\ w.value = r.value
         \/ /\ ~ \E w \in execution_trace' : IsLastWrite(w, r)'
            /\ r.value = Zero
<1> USE DEF IndInv
<1>1. ASSUME NEW x \in execution_trace', x.time_log < r.time_log PROVE x \in execution_trace
  <2>1. ASSUME NEW i \in 1 .. Len(s), x = Track(s[i], i) PROVE FALSE
    <3>1. x.time_log = time_log + i - 1
      BY <2>1, NewRecord
    <3> QED BY <3>1, <1>1, Records
  <2> QED BY <2>1, Records
<1>2. execution_trace \subseteq execution_trace'
  BY Records
<1>3. \A w : IsLastWrite(w, r)' <=> IsLastWrite(w, r)
  BY <1>1, <1>2 DEF IsLastWrite
<1>4. \A w \in execution_trace' : IsLastWrite(w, r)' => w \in execution_trace
  BY <1>1 DEF IsLastWrite
<1> QED BY <1>2, <1>3, <1>4 DEF ReadsLastWrite

\* The writes before a new read are those before the instruction.
LEMMA NewReads ==
  ASSUME IndInv, NEW s, ReadsThenWrites(s), Perform(s),
         NEW i \in 1 .. Len(s), NEW r, r = Track(s[i], i), r.instruction = "Read"
  PROVE  \/ \E w \in execution_trace' : IsLastWrite(w, r)' /\ w.value = r.value
         \/ /\ ~ \E w \in execution_trace' : IsLastWrite(w, r)'
            /\ r.value = Zero
<1> USE DEF IndInv
<1> DEFINE c == r.address
<1>1. s[i] \in AccessType /\ r.time_log = time_log + i - 1 /\ r.value = s[i].value
      /\ s[i].instruction = "Read" /\ c = s[i].address
  BY NewRecord
<1>2. /\ c \in CellAddress /\ r.value = DummyRead(c)
      /\ \A j \in 1 .. i : s[j].instruction = "Read"
  BY <1>1 DEF AccessType, ReadsThenWrites
<1> HIDE DEF c
<1>3. ASSUME NEW x \in execution_trace', IsWriteTo(x, c), x.time_log < r.time_log
      PROVE  x \in execution_trace
  <2>1. ASSUME NEW j \in 1 .. Len(s), x = Track(s[j], j) PROVE FALSE
    <3>1. x.time_log = time_log + j - 1 /\ x.instruction = s[j].instruction
      BY <2>1, NewRecord
    <3>2. j \in 1 .. i
      BY <3>1, <1>1, <1>3, Records
    <3> QED BY <3>1, <3>2, <1>2, <1>3 DEF IsWriteTo
  <2> QED BY <2>1, Records
<1>4. \A w \in execution_trace : w \in execution_trace' /\ w.time_log < r.time_log
  BY <1>1, Records
<1>5. \A w : IsLastWrite(w, r)' <=>
        /\ IsWriteTo(w, c) /\ w.time_log < r.time_log
        /\ \A x \in execution_trace : IsWriteTo(x, c) => x.time_log <= w.time_log
  BY <1>3, <1>4 DEF IsLastWrite, IsWriteTo, c
<1> QED BY <1>2, <1>3, <1>4, <1>5 DEF MemoryIsLastWrite

LEMMA PerformReads ==
  ASSUME IndInv, NEW s, ReadsThenWrites(s), Perform(s)
  PROVE  ReadsLastWrite'
<1> USE DEF IndInv
<1>1. ASSUME NEW r \in execution_trace', NEW t \in execution_trace', r.time_log = t.time_log
      PROVE  r = t
  <2>1. CASE r \in execution_trace /\ t \in execution_trace
    BY <1>1, <2>1 DEF ReadsLastWrite
  <2>2. ASSUME NEW x \in execution_trace, NEW i \in 1 .. Len(s)
        PROVE  Track(s[i], i).time_log # x.time_log
    BY NewRecord, Records
  <2>3. ASSUME NEW i \in 1 .. Len(s), NEW j \in 1 .. Len(s),
               Track(s[i], i).time_log = Track(s[j], j).time_log
        PROVE  i = j
    BY <2>3, NewRecord, Records
  <2> QED BY <1>1, <2>1, <2>2, <2>3, Records
<1>2. ASSUME NEW r \in execution_trace' PROVE r.time_log < time_log'
  <2>1. CASE r \in execution_trace
    BY <2>1, Records
  <2>2. ASSUME NEW i \in 1 .. Len(s), r = Track(s[i], i) PROVE r.time_log < time_log'
    BY <2>2, NewRecord, Records
  <2> QED BY <2>1, <2>2, Records
<1>3. ASSUME NEW r \in execution_trace', r.instruction = "Read"
      PROVE  \/ \E w \in execution_trace' : IsLastWrite(w, r)' /\ w.value = r.value
             \/ /\ ~ \E w \in execution_trace' : IsLastWrite(w, r)'
                /\ r.value = Zero
  BY <1>3, OldReads, NewReads, Records
<1> QED BY <1>1, <1>2, <1>3 DEF ReadsLastWrite

(***************************************************************************)
(* One instruction.                                                        *)
(***************************************************************************)
LEMMA Performed ==
  ASSUME IndInv, NEW s, ReadsThenWrites(s), Perform(s),
         stack_depth' \in 0 .. StackDepth, stack_ptr' = stack_depth' * WordSize,
         answer' \in Word
  PROVE  IndInv'
<1>1. MemoryType'
  BY PerformTypes DEF IndInv
<1>2. TypeOK'
  BY <1>1 DEF MemoryType, TypeOK
<1> QED BY <1>2, PerformReads, PerformMemory DEF IndInv

LEMMA Addresses ==
  ASSUME TypeOK
  PROVE  /\ stack_depth \in 0 .. StackDepth /\ StackDepth \in Nat
         /\ answer \in Word
         /\ stack_depth # StackDepth => stack_depth < StackDepth
         /\ stack_depth # 0 => stack_depth > 0
         /\ stack_depth < StackDepth =>
              /\ stack_ptr \in 0 .. MaxAddress
              /\ Aligned(stack_ptr)
              /\ stack_ptr + WordSize <= StackDepth * WordSize
              /\ stack_ptr + WordSize = (stack_depth + 1) * WordSize
         /\ stack_depth > 0 =>
              /\ TopCell \in CellAddress
              /\ TopCell \in 0 .. MaxAddress
              /\ Aligned(TopCell)
              /\ TopCell + WordSize <= StackDepth * WordSize
              /\ TopCell = (stack_depth - 1) * WordSize
         /\ \A r \in Registers : /\ Cell(r) \in CellAddress
                                 /\ Cell(r) \in 0 .. MaxAddress
                                 /\ Aligned(Cell(r))
                                 /\ Value(r) \in Word
<1>1. /\ stack_depth \in 0 .. StackDepth /\ StackDepth \in Nat
      /\ stack_ptr = stack_depth * WordSize /\ answer \in Word
  BY Sizes DEF TypeOK
<1>2. ASSUME stack_depth < StackDepth
      PROVE  /\ stack_ptr \in 0 .. MaxAddress /\ Aligned(stack_ptr)
             /\ stack_ptr + WordSize <= StackDepth * WordSize
             /\ stack_ptr + WordSize = (stack_depth + 1) * WordSize
  <2>1. stack_depth \in 0 .. StackDepth - 1
    BY <1>1, <1>2
  <2>2. stack_depth * WordSize + WordSize = (stack_depth + 1) * WordSize
    BY <1>1, Sizes
  <2> QED BY <1>1, <2>1, <2>2, StackCell, CellIsAddress
<1>3. ASSUME stack_depth > 0
      PROVE  /\ TopCell \in CellAddress /\ TopCell \in 0 .. MaxAddress /\ Aligned(TopCell)
             /\ TopCell + WordSize <= StackDepth * WordSize
             /\ TopCell = (stack_depth - 1) * WordSize
  <2>1. stack_depth - 1 \in 0 .. StackDepth - 1
    BY <1>1, <1>3
  <2>2. TopCell = (stack_depth - 1) * WordSize
    BY <1>1, Sizes DEF TopCell
  <2> QED BY <2>1, <2>2, StackCell, CellIsAddress
<1>4. ASSUME NEW r \in Registers
      PROVE  /\ Cell(r) \in CellAddress /\ Cell(r) \in 0 .. MaxAddress
             /\ Aligned(Cell(r)) /\ Value(r) \in Word
  BY RegisterCell, CellIsAddress, ReadWord DEF Value
<1>5. /\ stack_depth # StackDepth => stack_depth < StackDepth
      /\ stack_depth # 0 => stack_depth > 0
  BY <1>1
<1> QED BY <1>1, <1>2, <1>3, <1>4, <1>5

\* The accesses of each instruction are reads, then writes.
LEMMA Accesses ==
  ASSUME TypeOK
  PROVE  /\ \A a \in 0 .. MaxAddress :
              /\ ReadsThenWrites(Reads(a, stack_depth))
              /\ WordAt(a) \in Word
              /\ \A v \in Values : ReadsThenWrites(Writes(a, v, stack_depth))
         /\ stack_depth < StackDepth =>
              \A v \in Values : ReadsThenWrites(Writes(stack_ptr, v, stack_depth + 1))
         /\ stack_depth > 0 =>
              /\ ReadsThenWrites(Reads(TopCell, stack_depth - 1))
              /\ DummyRead(TopCell) \in Word
              /\ \A r \in Registers : ReadsThenWrites(SwapAccesses(r))
         /\ \A r, q \in Registers :
              /\ ReadsThenWrites(Reads(Cell(q), stack_depth)
                                 \o Writes(Cell(r), Value(q), stack_depth))
              /\ Plus(Value(r), Value(q)) # Overflow =>
                   ReadsThenWrites(Reads(Cell(r), stack_depth) \o Reads(Cell(q), stack_depth)
                                   \o Writes(Cell(r), Plus(Value(r), Value(q)), stack_depth))
         /\ \A r \in Registers, a \in Operands :
              /\ ReadsThenWrites(Reads(a, stack_depth)
                                 \o Writes(Cell(r), WordAt(a), stack_depth))
              /\ ReadsThenWrites(Reads(Cell(r), stack_depth)
                                 \o Writes(a, Value(r), stack_depth))
<1> USE Addresses
<1>1. ASSUME NEW a \in 0 .. MaxAddress
      PROVE  /\ ReadsThenWrites(Reads(a, stack_depth))
             /\ WordAt(a) \in Word
             /\ \A v \in Values : ReadsThenWrites(Writes(a, v, stack_depth))
  BY ReadAccesses, WriteAccesses, OnlyOneKind, PartsAreWords, ZeroWord, MachineAssumption
<1>2. ASSUME stack_depth < StackDepth, NEW v \in Values
      PROVE  ReadsThenWrites(Writes(stack_ptr, v, stack_depth + 1))
  <2>1. stack_depth + 1 \in 0 .. StackDepth /\ v \in Word /\ stack_ptr \in 0 .. MaxAddress
    BY <1>2, MachineAssumption
  <2> QED BY <2>1, WriteAccesses, OnlyOneKind
<1>3. ASSUME stack_depth > 0
      PROVE  /\ ReadsOnly(Reads(TopCell, stack_depth - 1))
             /\ TopCell \in 0 .. MaxAddress
             /\ stack_depth - 1 \in 0 .. StackDepth
             /\ DummyRead(TopCell) \in Word
  <2>1. stack_depth - 1 \in 0 .. StackDepth
    BY <1>3
  <2> QED BY <2>1, <1>3, ReadAccesses, ReadWord
<1>4. ASSUME stack_depth > 0, NEW r \in Registers
      PROVE  ReadsThenWrites(SwapAccesses(r))
  <2> DEFINE pop == Reads(TopCell, stack_depth - 1)
             get == Reads(Cell(r), stack_depth - 1)
             push(v) == Writes(TopCell, v, stack_depth)
             set == Writes(Cell(r), DummyRead(TopCell), stack_depth)
  <2>1. ReadsOnly(pop) /\ ReadsOnly(get)
    BY <1>3, <1>4, ReadAccesses
  <2>2. WritesOnly(set) /\ \A v \in Word : WritesOnly(push(v))
    BY <1>3, <1>4, WriteAccesses
  <2>3. SwapAccesses(r) = IF Example THEN pop \o push(DummyRead(TopCell)) \o set
                                     ELSE pop \o get \o push(Value(r)) \o set
    BY DEF SwapAccesses
  <2>4. DummyRead(TopCell) \in Word /\ Value(r) \in Word
    BY <1>3, <1>4
  <2> HIDE DEF pop, get, push, set
  <2>5. ASSUME NEW v \in Word
        PROVE  /\ (pop \o push(v)) \o set = pop \o (push(v) \o set)
               /\ ((pop \o get) \o push(v)) \o set = (pop \o get) \o (push(v) \o set)
    <3>1. pop \in Seq(AccessType) /\ pop \o get \in Seq(AccessType)
      BY <2>1, MoreReads DEF ReadsOnly
    <3>2. push(v) \in Seq(AccessType) /\ set \in Seq(AccessType)
      BY <2>2 DEF WritesOnly
    <3>3. (pop \o push(v)) \o set = pop \o (push(v) \o set)
      BY ONLY <3>1, <3>2, ConcatAssociative
    <3>4. \A before \in Seq(AccessType) :
            (before \o push(v)) \o set = before \o (push(v) \o set)
      BY <3>2, ConcatAssociative
    <3> QED BY <3>1, <3>3, <3>4
  <2>6. \A v \in Word : WritesOnly(push(v) \o set)
    BY <2>2, MoreWrites
  <2> QED BY <2>1, <2>3, <2>4, <2>5, <2>6, MoreReads, Ordered
<1>5. ASSUME NEW r \in Registers, NEW q \in Registers
      PROVE  /\ ReadsThenWrites(Reads(Cell(q), stack_depth)
                                \o Writes(Cell(r), Value(q), stack_depth))
             /\ Plus(Value(r), Value(q)) # Overflow =>
                  ReadsThenWrites(Reads(Cell(r), stack_depth) \o Reads(Cell(q), stack_depth)
                                  \o Writes(Cell(r), Plus(Value(r), Value(q)), stack_depth))
  <2>1. ReadsOnly(Reads(Cell(q), stack_depth)) /\ ReadsOnly(Reads(Cell(r), stack_depth))
    BY <1>5, ReadAccesses
  <2>2. \A v \in Word : WritesOnly(Writes(Cell(r), v, stack_depth))
    BY <1>5, WriteAccesses
  <2>3. Plus(Value(r), Value(q)) # Overflow => Plus(Value(r), Value(q)) \in Word
    BY <1>5, MachineAssumption
  <2>4. Value(q) \in Word
    BY <1>5
  <2> QED BY <2>1, <2>2, <2>3, <2>4, MoreReads, Ordered
<1>6. ASSUME NEW r \in Registers, NEW a \in Operands
      PROVE  /\ ReadsThenWrites(Reads(a, stack_depth)
                                \o Writes(Cell(r), WordAt(a), stack_depth))
             /\ ReadsThenWrites(Reads(Cell(r), stack_depth)
                                \o Writes(a, Value(r), stack_depth))
  <2>1. a \in 0 .. MaxAddress /\ WordAt(a) \in Word
    BY <1>1, <1>6, MachineAssumption
  <2>2. ReadsOnly(Reads(a, stack_depth)) /\ ReadsOnly(Reads(Cell(r), stack_depth))
    BY <2>1, <1>6, ReadAccesses
  <2>3. /\ WritesOnly(Writes(Cell(r), WordAt(a), stack_depth))
        /\ WritesOnly(Writes(a, Value(r), stack_depth))
    BY <2>1, <1>6, WriteAccesses
  <2> QED BY <2>2, <2>3, Ordered
<1>7. stack_depth > 0 => ReadsThenWrites(Reads(TopCell, stack_depth - 1))
  BY <1>3, OnlyOneKind
<1> QED BY <1>1, <1>2, <1>3, <1>4, <1>5, <1>6, <1>7

LEMMA InitInv == Init => IndInv
<1> SUFFICES ASSUME Init PROVE IndInv
  OBVIOUS
<1>1. DOMAIN memory = {} /\ execution_trace = {}
  BY DEF Init
<1>2. stack_depth = 0 /\ StackDepth \in Nat /\ stack_ptr = stack_depth * WordSize
  BY Sizes DEF Init
<1>3. TypeOK
  <2>1. /\ DOMAIN memory \subseteq CellAddress
        /\ \A cell \in DOMAIN memory : memory[cell] \in Word
        /\ execution_trace \subseteq TraceRecord
    BY <1>1
  <2>2. time_log \in Nat /\ answer \in Word /\ panicked \in BOOLEAN
    BY ZeroWord DEF Init
  <2>3. stack_depth \in 0 .. StackDepth
    BY <1>2
  <2> QED BY <1>2, <2>1, <2>2, <2>3 DEF TypeOK
<1>4. ReadsLastWrite /\ MemoryIsLastWrite
  BY <1>1 DEF ReadsLastWrite, MemoryIsLastWrite, DummyRead
<1> QED BY <1>3, <1>4 DEF IndInv

LEMMA NextInv == IndInv /\ [Next]_vars => IndInv'
<1> SUFFICES ASSUME IndInv, [Next]_vars PROVE IndInv'
  OBVIOUS
<1> USE DEF IndInv
<1>1. /\ stack_depth \in 0 .. StackDepth /\ StackDepth \in Nat
      /\ stack_ptr = stack_depth * WordSize /\ answer \in Word
  BY Sizes DEF TypeOK
<1>2. CASE UNCHANGED vars
  BY <1>2 DEF vars, TypeOK, ReadsLastWrite, IsLastWrite, MemoryIsLastWrite, DummyRead
<1>3. CASE Panic
  BY <1>3 DEF Panic, TypeOK, ReadsLastWrite, IsLastWrite, MemoryIsLastWrite, DummyRead
<1>4. ASSUME NEW a \in 0 .. MaxAddress, Read(a) PROVE IndInv'
  BY <1>1, <1>3, <1>4, Accesses, Performed DEF Read
<1>5. ASSUME NEW a \in 0 .. MaxAddress, NEW v \in Values, Write(a, v) PROVE IndInv'
  BY <1>1, <1>3, <1>5, Accesses, Performed DEF Write
<1>6. ASSUME NEW v \in Values, Push(v) PROVE IndInv'
  <2>1. CASE stack_depth < StackDepth
    <3>1. /\ Perform(Writes(stack_ptr, v, stack_depth + 1))
          /\ stack_depth' = stack_depth + 1 /\ stack_ptr' = stack_ptr + WordSize
          /\ answer' = answer
      BY <1>1, <1>6, <2>1 DEF Push
    <3>2. stack_depth' \in 0 .. StackDepth
      BY <1>1, <2>1, <3>1
    <3>3. stack_ptr' = stack_depth' * WordSize
      BY <2>1, <3>1, Addresses
    <3> QED BY <1>1, <2>1, <3>1, <3>2, <3>3, Accesses, Performed
  <2> QED BY <1>1, <1>3, <1>6, <2>1 DEF Push
<1>7. CASE Pop
  <2>1. CASE stack_depth > 0
    <3>1. /\ Perform(Reads(TopCell, stack_depth - 1))
          /\ stack_depth' = stack_depth - 1 /\ stack_ptr' = TopCell
          /\ answer' = DummyRead(TopCell)
      BY <1>7, <2>1 DEF Pop
    <3>2. stack_depth' \in 0 .. StackDepth
      BY <1>1, <2>1, <3>1
    <3>3. stack_ptr' = stack_depth' * WordSize
      BY <2>1, <3>1, Addresses
    <3>4. answer' \in Word
      BY <2>1, <3>1, Accesses
    <3> QED BY <2>1, <3>1, <3>2, <3>3, <3>4, Accesses, Performed
  <2> QED BY <1>1, <1>3, <1>7, <2>1 DEF Pop
<1>8. ASSUME NEW r \in Registers, Swap(r) PROVE IndInv'
  BY <1>1, <1>3, <1>8, Accesses, Performed DEF Swap
<1>9. ASSUME NEW r \in Registers, NEW q \in Registers, Mov(r, q) PROVE IndInv'
  BY <1>1, <1>9, Accesses, Performed DEF Mov
<1>10. ASSUME NEW r \in Registers, NEW q \in Registers, Add(r, q) PROVE IndInv'
  BY <1>1, <1>3, <1>10, Accesses, Performed DEF Add
<1>11. ASSUME NEW r \in Registers, NEW a \in Operands, Load(r, a) PROVE IndInv'
  BY <1>1, <1>3, <1>11, Accesses, Performed DEF Load
<1>12. ASSUME NEW r \in Registers, NEW a \in Operands, Save(a, r) PROVE IndInv'
  BY <1>1, <1>3, <1>12, Accesses, Performed DEF Save
<1> QED BY <1>2, <1>3, <1>4, <1>5, <1>6, <1>7, <1>8, <1>9, <1>10, <1>11, <1>12 DEF Next, Exec, Invalid

\* The machine and its trace agree all along.
THEOREM Invariant == Spec => []IndInv
BY InitInv, NextInv, PTL DEF Spec

\* Every variable keeps its type: cells only in memory, the pointer at the
\* depth of the stack, the depth within its bound.
THEOREM TypeCorrect == Spec => []TypeOK
BY Invariant, PTL DEF IndInv

\* No two records share a time, and every read record returns what the trace
\* says was last written to its cell: the statement that the lookups, the
\* memory circuits and the permutation argument prove about a trace.
THEOREM Consistent == Spec => []ReadsLastWrite
BY Invariant, PTL DEF IndInv

(***************************************************************************)
(* Where an instruction writes.                                            *)
(***************************************************************************)
WritesInto(s, T) ==
  /\ s \in Seq(AccessType)
  /\ \A i \in 1 .. Len(s) : s[i].instruction = "Write" => s[i].address \in T

LEMMA MoreInto ==
  ASSUME NEW s, NEW t, NEW T, WritesInto(s, T), WritesInto(t, T)
  PROVE  WritesInto(s \o t, T)
BY ConcatProperties DEF WritesInto

LEMMA ReadsInto ==
  ASSUME NEW s, NEW T, ReadsOnly(s)
  PROVE  WritesInto(s, T)
BY DEF ReadsOnly, WritesInto

LEMMA CellInto ==
  ASSUME TypeOK, NEW c \in CellAddress, NEW v \in Word, NEW d \in 0 .. StackDepth,
         NEW T, c \in T
  PROVE  WritesInto(Writes(c, v, d), T)
<1>1. c \in 0 .. MaxAddress /\ Aligned(c)
  BY CellIsAddress
<1>2. Writes(c, v, d) \in Seq(AccessType)
  BY <1>1, WriteAccesses DEF WritesOnly
<1>3. Writes(c, v, d) = <<Access("Write", c, v, d)>>
  BY <1>1 DEF Writes
<1> QED BY <1>2, <1>3 DEF WritesInto, Access

LEMMA NewRecordsInto ==
  ASSUME IndInv, NEW s, ReadsThenWrites(s), Perform(s), NEW T, WritesInto(s, T),
         NEW r \in NewRecords, r.instruction = "Write"
  PROVE  r.address \in T
<1>1. PICK i \in 1 .. Len(s) : r = Track(s[i], i)
  BY Records DEF NewRecords, IndInv
<1> QED BY <1>1, NewRecord DEF WritesInto, IndInv

LEMMA MemoryBegin ==
  /\ MemorySection.low \in Nat /\ MemorySection.low % WordSize = 0
  /\ MemorySection.high \in Int
<1>1. CASE HeadLayout
  <2>1. MemorySection.low = (StackDepth + NoRegister + 2 * NoBuffer) * WordSize
        /\ MemorySection.high = MaxAddress
    BY <1>1, HeadSections DEF MemorySection
  <2>2. 0 * WordSize <= (StackDepth + NoRegister + 2 * NoBuffer) * WordSize
    BY Sizes, ProductLeq
  <2>3. ((StackDepth + NoRegister + 2 * NoBuffer) * WordSize) % WordSize = 0
    BY Sizes, MultipleMod
  <2> QED BY <2>1, <2>2, <2>3, Sizes
<1>2. CASE ~ HeadLayout
  <2>1. MemorySection.low = 0 /\ MemorySection.high = BeginOfFixedSection - BufferSize
    BY <1>2 DEF MemorySection
  <2>2. BeginOfFixedSection \in Nat /\ BufferSize \in Int
    BY <1>2, Begin, Sizes DEF BufferSize
  <2> QED BY <2>1, <2>2, Sizes
<1> QED BY <1>1, <1>2

\* With overflow checks a word of the memory section is written in the cells
\* of the section and in the one behind its last.
LEMMA MemoryInto ==
  ASSUME TypeOK, OverflowChecks, NEW a \in 0 .. MaxAddress, Contain(MemorySection, a),
         ~ Traps(a), NEW v \in Word, NEW d \in 0 .. StackDepth
  PROVE  WritesInto(Writes(a, v, d), WritableCells)
<1> DEFINE low == MemorySection.low  high == MemorySection.high
<1>1. low \in Nat /\ low % WordSize = 0 /\ high \in Int /\ low <= a /\ a <= high
  BY MemoryBegin DEF Contain
<1> HIDE DEF low, high
<1>2. \A c \in CellAddress : low <= c /\ c < high + WordSize => c \in WritableCells
  BY DEF WritableCells, low, high
<1>3. CASE Aligned(a)
  <2>1. a \in CellAddress
    BY <1>3, AlignedCell
  <2>2. a \in WritableCells
    BY <1>1, <1>2, <2>1, Sizes
  <2> QED BY <2>1, <2>2, CellInto
<1>4. CASE ~ Aligned(a)
  <2>1. Lower(a) \in CellAddress /\ Upper(a) \in CellAddress
    BY LowerCell, UpperCell
  <2>2. /\ Lower(a) \in Int /\ Lower(a) % WordSize = 0 /\ Lower(a) < a
        /\ a < Lower(a) + WordSize
    <3>1. a % WordSize \in 0 .. WordSize - 1 /\ a % WordSize # 0
      BY <1>4, Sizes, DivMod DEF Aligned
    <3> QED BY <2>1, <3>1, Sizes DEF Lower, CellAddress
  <2>3. low <= Lower(a)
    <3> SUFFICES ASSUME Lower(a) < low PROVE FALSE
      BY <1>1, <2>2
    <3>1. Lower(a) + WordSize <= low
      BY <1>1, <2>2, MultiplesApart, Sizes
    <3> QED BY <3>1, <1>1, <2>2, Sizes
  <2>4. Upper(a) = Lower(a) + WordSize
    <3>1. Lower(a) + WordSize <= MaxAddress
      BY <1>4, <2>2, Sizes DEF Traps
    <3>2. Lower(a) + WordSize \in 0 .. MaxAddress
      BY <3>1, <2>1, Sizes DEF CellAddress
    <3> QED BY <3>2, Sizes DEF Upper
  <2>5. Lower(a) \in WritableCells /\ Upper(a) \in WritableCells
    BY <1>1, <1>2, <2>1, <2>2, <2>3, <2>4, Sizes
  <2>6. Writes(a, v, d) = <<Access("Write", Lower(a), LowerPart(a, v), d),
                            Access("Write", Upper(a), UpperPart(a, v), d)>>
    BY <1>4 DEF Writes
  <2>7. Writes(a, v, d) \in Seq(AccessType)
    BY WriteAccesses DEF WritesOnly
  <2> QED BY <2>5, <2>6, <2>7 DEF WritesInto, Access
<1> QED BY <1>3, <1>4

\* A record that does not write, or writes where it may.
InPlace(r) ==
  r.instruction = "Write" => r.address \in WritableCells \cup {stack_ptr' - WordSize}

LEMMA NextInPlace ==
  ASSUME OverflowChecks, \A a \in Operands : Contain(MemorySection, a), IndInv, Next
  PROVE  \A r \in NewRecords : InPlace(r)
<1> DEFINE T == WritableCells \cup {stack_ptr' - WordSize}
<1> USE DEF IndInv
<1>0. /\ TypeOK /\ stack_depth \in 0 .. StackDepth /\ StackDepth \in Nat
      /\ \A r \in Registers : /\ Cell(r) \in CellAddress /\ Cell(r) \in 0 .. MaxAddress
                              /\ Cell(r) \in T /\ Value(r) \in Word
  BY Addresses DEF WritableCells
<1>1. ASSUME NEW s, ReadsThenWrites(s), Perform(s), WritesInto(s, T)
      PROVE  \A r \in NewRecords : InPlace(r)
  <2> HIDE DEF T
  <2>1. \A r \in NewRecords : r.instruction = "Write" => r.address \in T
    BY <1>1, NewRecordsInto
  <2> QED BY <2>1 DEF InPlace, T
<1>2. ASSUME NEW s, WritesInto(s, WritableCells) PROVE WritesInto(s, T)
  BY <1>2 DEF WritesInto
<1> HIDE DEF T
<1>3. CASE Panic
  BY <1>3 DEF Panic, NewRecords
<1>4. ASSUME NEW a \in 0 .. MaxAddress, Read(a) PROVE \A r \in NewRecords : InPlace(r)
  <2>1. ReadsOnly(Reads(a, stack_depth))
    BY <1>0, ReadAccesses
  <2> QED BY <1>0, <1>1, <1>3, <1>4, <2>1, ReadsInto, Accesses DEF Read
<1>5. ASSUME NEW a \in 0 .. MaxAddress, NEW v \in Values, Write(a, v)
      PROVE  \A r \in NewRecords : InPlace(r)
  <2>1. CASE Contain(MemorySection, a) /\ ~ Traps(a)
    <3>1. v \in Word
      BY MachineAssumption
    <3>2. WritesInto(Writes(a, v, stack_depth), T)
      BY <1>0, <1>2, <2>1, <3>1, MemoryInto
    <3> QED BY <1>0, <1>1, <1>5, <2>1, <3>2, Accesses DEF Write
  <2> QED BY <1>3, <1>5, <2>1 DEF Write
<1>6. ASSUME NEW v \in Values, Push(v) PROVE \A r \in NewRecords : InPlace(r)
  <2>1. CASE stack_depth < StackDepth
    <3>1. stack_ptr \in CellAddress /\ stack_ptr = stack_ptr' - WordSize
      BY <1>6, <2>1, Addresses, AlignedCell, Sizes DEF Push, CellAddress
    <3>2. v \in Word /\ stack_depth + 1 \in 0 .. StackDepth /\ stack_ptr \in T
      BY <1>0, <2>1, <3>1, MachineAssumption DEF T
    <3>3. WritesInto(Writes(stack_ptr, v, stack_depth + 1), T)
      BY <1>0, <3>1, <3>2, CellInto
    <3> QED BY <1>0, <1>1, <1>6, <2>1, <3>3, Accesses DEF Push
  <2> QED BY <1>0, <1>3, <1>6, <2>1 DEF Push
<1>7. CASE Pop
  <2>1. CASE stack_depth > 0
    <3>1. TopCell \in 0 .. MaxAddress /\ stack_depth - 1 \in 0 .. StackDepth
      BY <1>0, <2>1, Addresses
    <3>2. WritesInto(Reads(TopCell, stack_depth - 1), T)
      BY <1>0, <3>1, ReadAccesses, ReadsInto
    <3> QED BY <1>0, <1>1, <1>7, <2>1, <3>2, Accesses DEF Pop
  <2> QED BY <1>0, <1>3, <1>7, <2>1 DEF Pop
<1>8. ASSUME NEW q \in Registers, Swap(q) PROVE \A r \in NewRecords : InPlace(r)
  <2>1. CASE stack_depth > 0
    <3>1. /\ TopCell \in CellAddress /\ TopCell \in 0 .. MaxAddress
          /\ stack_depth - 1 \in 0 .. StackDepth /\ DummyRead(TopCell) \in Word
      BY <1>0, <2>1, Addresses, ReadWord
    <3>2. TopCell \in T
      BY <1>8, <2>1 DEF Swap, T, TopCell
    <3> DEFINE pop == Reads(TopCell, stack_depth - 1)
               get == Reads(Cell(q), stack_depth - 1)
               push(v) == Writes(TopCell, v, stack_depth)
               set == Writes(Cell(q), DummyRead(TopCell), stack_depth)
    <3>3. WritesInto(pop, T) /\ WritesInto(get, T)
      BY <1>0, <3>1, ReadAccesses, ReadsInto
    <3>4. WritesInto(set, T) /\ \A v \in Word : WritesInto(push(v), T)
      BY <1>0, <3>1, <3>2, CellInto
    <3>5. SwapAccesses(q) = IF Example THEN pop \o push(DummyRead(TopCell)) \o set
                                       ELSE pop \o get \o push(Value(q)) \o set
      BY DEF SwapAccesses
    <3> HIDE DEF pop, get, push, set
    <3>6. WritesInto(SwapAccesses(q), T)
      BY <1>0, <3>1, <3>3, <3>4, <3>5, MoreInto
    <3> QED BY <1>0, <1>1, <1>8, <2>1, <3>6, Accesses DEF Swap
  <2> QED BY <1>0, <1>3, <1>8, <2>1 DEF Swap
<1>9. ASSUME NEW p \in Registers, NEW q \in Registers, Mov(p, q)
      PROVE  \A r \in NewRecords : InPlace(r)
  <2>1. WritesInto(Reads(Cell(q), stack_depth), T)
    BY <1>0, ReadAccesses, ReadsInto
  <2>2. WritesInto(Writes(Cell(p), Value(q), stack_depth), T)
    BY <1>0, CellInto
  <2> QED BY <1>0, <1>1, <1>9, <2>1, <2>2, MoreInto, Accesses DEF Mov
<1>10. ASSUME NEW p \in Registers, NEW q \in Registers, Add(p, q)
       PROVE  \A r \in NewRecords : InPlace(r)
  <2>1. CASE Plus(Value(p), Value(q)) # Overflow
    <3>1. Plus(Value(p), Value(q)) \in Word
      BY <1>0, <2>1, MachineAssumption
    <3>2. /\ WritesInto(Reads(Cell(p), stack_depth), T)
          /\ WritesInto(Reads(Cell(q), stack_depth), T)
      BY <1>0, ReadAccesses, ReadsInto
    <3>3. WritesInto(Writes(Cell(p), Plus(Value(p), Value(q)), stack_depth), T)
      BY <1>0, <3>1, CellInto
    <3> QED BY <1>0, <1>1, <1>10, <2>1, <3>2, <3>3, MoreInto, Accesses DEF Add
  <2> QED BY <1>3, <1>10, <2>1 DEF Add
<1>11. ASSUME NEW q \in Registers, NEW a \in Operands, Load(q, a)
       PROVE  \A r \in NewRecords : InPlace(r)
  <2>1. CASE ~ Traps(a)
    <3>1. a \in 0 .. MaxAddress /\ WordAt(a) \in Word
      BY <1>0, Accesses, MachineAssumption
    <3>2. WritesInto(Reads(a, stack_depth), T)
      BY <1>0, <3>1, ReadAccesses, ReadsInto
    <3>3. WritesInto(Writes(Cell(q), WordAt(a), stack_depth), T)
      BY <1>0, <3>1, CellInto
    <3> QED BY <1>0, <1>1, <1>11, <2>1, <3>2, <3>3, MoreInto, Accesses DEF Load
  <2> QED BY <1>3, <1>11, <2>1 DEF Load
<1>12. ASSUME NEW q \in Registers, NEW a \in Operands, Save(a, q)
       PROVE  \A r \in NewRecords : InPlace(r)
  <2>1. CASE ~ Traps(a)
    <3>1. a \in 0 .. MaxAddress /\ Contain(MemorySection, a)
      BY MachineAssumption
    <3>2. WritesInto(Reads(Cell(q), stack_depth), T)
      BY <1>0, ReadAccesses, ReadsInto
    <3>3. WritesInto(Writes(a, Value(q), stack_depth), T)
      BY <1>0, <1>2, <2>1, <3>1, MemoryInto
    <3> QED BY <1>0, <1>1, <1>12, <2>1, <3>2, <3>3, MoreInto, Accesses DEF Save
  <2> QED BY <1>3, <1>12, <2>1 DEF Save
<1> QED BY <1>3, <1>4, <1>5, <1>6, <1>7, <1>8, <1>9, <1>10, <1>11, <1>12 DEF Next, Exec, Invalid

\* In a build with overflow checks, a program whose Load and Save operands
\* are in the memory section writes to the memory section, to its registers
\* and to the top of the stack, whatever the layout.
THEOREM MemoryProtected ==
  ASSUME OverflowChecks, \A a \in Operands : Contain(MemorySection, a)
  PROVE  Spec => WritesInPlace
<1>1. IndInv /\ [Next]_vars =>
        [\A r \in NewRecords : r.instruction = "Write" =>
           r.address \in WritableCells \cup {stack_ptr' - WordSize}]_vars
  BY NextInPlace DEF InPlace
<1> QED BY <1>1, Invariant, PTL DEF Spec, WritesInPlace

(***************************************************************************)
(* The stack.                                                              *)
(***************************************************************************)
LEMMA NextStack ==
  ASSUME HeadLayout, IndInv, Next, stack_depth' # stack_depth, NEW r \in NewRecords
  PROVE  r.address >= StackSection.low /\ r.address < StackSection.high
<1> USE DEF IndInv
<1>0. /\ stack_depth # StackDepth <=> stack_depth < StackDepth
      /\ stack_depth # 0 <=> stack_depth > 0
  BY Addresses
<1>1. /\ StackSection.low = 0 /\ StackSection.high = StackDepth * WordSize
      /\ StackDepth * WordSize \in Int
  BY HeadSections, Sizes DEF StackSection, Moved
<1>2. ASSUME NEW s, ReadsThenWrites(s), Perform(s), NEW c \in CellAddress,
             c + WordSize <= StackDepth * WordSize,
             \A i \in 1 .. Len(s) : s[i].address = c
      PROVE  r.address >= StackSection.low /\ r.address < StackSection.high
  <2>0. PICK i \in 1 .. Len(s) : r = Track(s[i], i)
    BY <1>2, Records DEF NewRecords
  <2>1. r.address = c
    BY <2>0, <1>2, NewRecord
  <2>2. c \in Int /\ c >= 0
    BY Sizes DEF CellAddress
  <2> QED BY <1>1, <1>2, <2>1, <2>2, Sizes
<1>3. CASE \E v \in Values : Push(v)
  <2>1. PICK v \in Values : Push(v)
    BY <1>3
  <2>2. CASE stack_depth < StackDepth
    <3>1. stack_ptr \in CellAddress /\ Aligned(stack_ptr)
          /\ stack_ptr + WordSize <= StackDepth * WordSize
      BY <2>2, Addresses, AlignedCell
    <3>2. Writes(stack_ptr, v, stack_depth + 1)
            = <<Access("Write", stack_ptr, v, stack_depth + 1)>>
      BY <3>1 DEF Writes
    <3>3. \A i \in 1 .. Len(Writes(stack_ptr, v, stack_depth + 1)) :
            Writes(stack_ptr, v, stack_depth + 1)[i].address = stack_ptr
      BY <3>2 DEF Access
    <3> QED BY <1>2, <2>1, <2>2, <3>1, <3>3, <1>0, Accesses DEF Push
  <2> QED BY <1>0, <2>1, <2>2 DEF Push, Panic
<1>4. CASE Pop
  <2>1. CASE stack_depth > 0
    <3>1. TopCell \in CellAddress /\ Aligned(TopCell)
          /\ TopCell + WordSize <= StackDepth * WordSize
      BY <2>1, Addresses
    <3>2. Reads(TopCell, stack_depth - 1)
            = <<Access("Read", TopCell, DummyRead(TopCell), stack_depth - 1)>>
      BY <3>1 DEF Reads
    <3>3. \A i \in 1 .. Len(Reads(TopCell, stack_depth - 1)) :
            Reads(TopCell, stack_depth - 1)[i].address = TopCell
      BY <3>2 DEF Access
    <3> QED BY <1>2, <1>4, <2>1, <3>1, <3>3, <1>0, Accesses DEF Pop
  <2> QED BY <1>0, <1>4, <2>1 DEF Pop, Panic
<1> QED BY <1>3, <1>4
  DEF Next, Exec, Read, Write, Swap, Mov, Add, Load, Save, Invalid, Panic

\* In the head layout push and pop access cells of the stack section only.
THEOREM StackConfined ==
  ASSUME HeadLayout
  PROVE  Spec => StackAccesses
<1>1. IndInv /\ [Next]_vars =>
        [stack_depth' # stack_depth =>
           \A r \in NewRecords : /\ r.address >= StackSection.low
                                  /\ r.address < StackSection.high]_vars
  BY NextStack
<1> QED BY <1>1, Invariant, PTL DEF Spec, StackAccesses

\* No register shares a cell with the stack, in either layout.
LEMMA RegistersApart ==
  ASSUME NEW r \in Registers
  PROVE  StackDepth * WordSize <= Cell(r)
<1>1. r \in Nat /\ (StackDepth + NoBuffer + r) \in Int
  BY MachineAssumption, Sizes
<1>2. StackDepth * WordSize <= (StackDepth + NoBuffer + r) * WordSize
  BY <1>1, Sizes, ProductLeq
<1>3. HeadRegister.low + r * WordSize = (StackDepth + NoBuffer + r) * WordSize
  BY <1>1, HeadSections, Sizes
<1>4. HeadRegister.low \in Int /\ r * WordSize \in Int
  BY <1>1, HeadSections, Sizes
<1>5. CASE HeadLayout
  BY <1>2, <1>3, <1>5 DEF Cell, RegisterAddress, RegisterSection, Moved
<1>6. CASE ~ HeadLayout
  <2>1. Cell(r) = HeadRegister.low + BeginOfFixedSection + r * WordSize
    BY <1>6 DEF Cell, RegisterAddress, RegisterSection, Moved
  <2>2. Cell(r) = (StackDepth + NoBuffer + r) * WordSize + BeginOfFixedSection
    BY <2>1, <1>3, <1>4, <1>6, Begin
  <2>3. (StackDepth + NoBuffer + r) * WordSize \in Int /\ StackDepth * WordSize \in Int
    BY <1>1, Sizes
  <2> QED BY <1>2, <1>6, <2>2, <2>3, Begin
<1> QED BY <1>5, <1>6

\* All that the accesses write to cell c is v.
Sets(s, c, v) ==
  /\ s \in Seq(AccessType)
  /\ \A i \in 1 .. Len(s) : IsWriteTo(s[i], c) => s[i].value = v

Hits(s, c) ==
  /\ s \in Seq(AccessType)
  /\ \E i \in 1 .. Len(s) : IsWriteTo(s[i], c)

LEMMA MoreSets ==
  ASSUME NEW s, NEW t, NEW c, NEW v, Sets(s, c, v), Sets(t, c, v)
  PROVE  Sets(s \o t, c, v)
BY ConcatProperties DEF Sets

LEMMA MoreHits ==
  ASSUME NEW s, NEW t, NEW c, s \in Seq(AccessType), t \in Seq(AccessType)
  PROVE  /\ Hits(s, c) => Hits(s \o t, c)
         /\ Hits(t, c) => Hits(s \o t, c)
<1> DEFINE both == s \o t
<1>1. /\ both \in Seq(AccessType) /\ Len(both) = Len(s) + Len(t)
      /\ Len(s) \in Nat /\ Len(t) \in Nat
      /\ \A i \in 1 .. Len(s) + Len(t) : both[i] = IF i <= Len(s) THEN s[i]
                                                  ELSE t[i - Len(s)]
  BY ConcatProperties
<1> HIDE DEF both
<1>2. ASSUME NEW i \in 1 .. Len(s), IsWriteTo(s[i], c) PROVE Hits(both, c)
  <2>1. i \in 1 .. Len(both) /\ both[i] = s[i]
    BY <1>1
  <2> QED BY <1>1, <1>2, <2>1 DEF Hits
<1>3. ASSUME NEW i \in 1 .. Len(t), IsWriteTo(t[i], c) PROVE Hits(both, c)
  <2>1. i + Len(s) \in 1 .. Len(both) /\ both[i + Len(s)] = t[i]
    BY <1>1
  <2> QED BY <1>1, <1>3, <2>1 DEF Hits
<1> QED BY <1>2, <1>3 DEF Hits, both

LEMMA ReadsSet ==
  ASSUME NEW s, NEW c, NEW v, ReadsOnly(s)
  PROVE  Sets(s, c, v)
BY DEF ReadsOnly, Sets, IsWriteTo

LEMMA WriteSets ==
  ASSUME TypeOK, NEW c \in CellAddress, NEW w \in Word, NEW d \in 0 .. StackDepth
  PROVE  /\ Sets(Writes(c, w, d), c, w)
         /\ Hits(Writes(c, w, d), c)
         /\ \A b, v : b # c => Sets(Writes(c, w, d), b, v)
<1>1. c \in 0 .. MaxAddress /\ Aligned(c)
  BY CellIsAddress
<1>2. Writes(c, w, d) \in Seq(AccessType)
  BY <1>1, WriteAccesses DEF WritesOnly
<1>3. Writes(c, w, d) = <<Access("Write", c, w, d)>>
  BY <1>1 DEF Writes
<1>4. /\ Len(Writes(c, w, d)) = 1
      /\ Writes(c, w, d)[1].instruction = "Write"
      /\ Writes(c, w, d)[1].address = c
      /\ Writes(c, w, d)[1].value = w
  BY <1>3 DEF Access
<1> QED BY <1>2, <1>4 DEF Sets, Hits, IsWriteTo

LEMMA CellSet ==
  ASSUME TypeOK, NEW s, ReadsThenWrites(s), Perform(s),
         NEW c \in CellAddress, NEW v, Sets(s, c, v), Hits(s, c)
  PROVE  DummyRead(c)' = v
BY CellAfter DEF Sets, Hits

LEMMA SwapCells ==
  ASSUME ~ Example, TypeOK, stack_depth > 0, NEW r \in Registers,
         Perform(SwapAccesses(r)), NEW top, top = TopCell
  PROVE  DummyRead(top)' = Value(r) /\ DummyRead(Cell(r))' = DummyRead(top)
<1> DEFINE pop == Reads(top, stack_depth - 1)
           get == Reads(Cell(r), stack_depth - 1)
           push == Writes(top, Value(r), stack_depth)
           set == Writes(Cell(r), DummyRead(top), stack_depth)
<1>1. /\ top \in CellAddress /\ Cell(r) \in CellAddress
      /\ top \in 0 .. MaxAddress /\ Cell(r) \in 0 .. MaxAddress
      /\ top + WordSize <= StackDepth * WordSize
      /\ stack_depth \in 0 .. StackDepth /\ stack_depth - 1 \in 0 .. StackDepth
      /\ Value(r) \in Word
  BY Addresses
<1>2. DummyRead(top) \in Word
  BY <1>1, ReadWord
<1>3. top # Cell(r)
  BY <1>1, RegistersApart, Sizes DEF CellAddress
<1>4. SwapAccesses(r) = pop \o get \o push \o set
  BY DEF SwapAccesses
<1>5. ReadsThenWrites(SwapAccesses(r))
  BY Accesses
<1>6. ReadsOnly(pop) /\ ReadsOnly(get)
  BY <1>1, ReadAccesses
<1>7. /\ Sets(push, top, Value(r)) /\ Hits(push, top)
      /\ Sets(set, Cell(r), DummyRead(top)) /\ Hits(set, Cell(r))
      /\ \A v : Sets(push, Cell(r), v) /\ Sets(set, top, v)
  BY <1>1, <1>2, <1>3, WriteSets
<1> HIDE DEF pop, get, push, set
<1>8. \A c, v : Sets(pop, c, v) /\ Sets(get, c, v)
  BY <1>6, ReadsSet
<1>9. Sets(SwapAccesses(r), top, Value(r)) /\ Sets(SwapAccesses(r), Cell(r), DummyRead(top))
  BY <1>4, <1>7, <1>8, MoreSets
<1>10. /\ pop \o get \in Seq(AccessType) /\ (pop \o get) \o push \in Seq(AccessType)
       /\ push \in Seq(AccessType) /\ set \in Seq(AccessType)
  BY <1>7, <1>8, MoreSets DEF Sets
<1>11. Hits(SwapAccesses(r), top) /\ Hits(SwapAccesses(r), Cell(r))
  BY <1>4, <1>7, <1>10, MoreHits
<1>12. DummyRead(top)' = Value(r)
  BY <1>1, <1>5, <1>9, <1>11, CellSet
<1>13. \A c \in CellAddress : c = Cell(r) => DummyRead(c)' = DummyRead(top)
  BY <1>5, <1>9, <1>11, CellSet
<1> QED BY <1>1, <1>12, <1>13

LEMMA NextSwap ==
  ASSUME ~ Example, IndInv, ~ panicked, NEW r \in Registers, Swap(r), panicked' = FALSE
  PROVE  Value(r)' = DummyRead(TopCell) /\ DummyRead(TopCell)' = Value(r)
<1>1. stack_depth > 0 /\ Perform(SwapAccesses(r)) /\ UNCHANGED stack_ptr
  BY Addresses DEF Swap, Panic, IndInv
<1>2. PICK top : top = TopCell
  OBVIOUS
<1>3. DummyRead(top)' = Value(r) /\ DummyRead(Cell(r))' = DummyRead(top)
  BY <1>1, <1>2, SwapCells DEF IndInv
<1>4. DummyRead(TopCell)' = DummyRead(top)'
  BY <1>1, <1>2 DEF TopCell, DummyRead
<1> QED BY <1>2, <1>3, <1>4 DEF Value

\* The Swap of the machine in machine.rs exchanges the top with the register.
THEOREM SwapIsExchange ==
  ASSUME ~ Example
  PROVE  Spec => SwapExchanges
<1>1. IndInv /\ [Next]_vars =>
        [\A r \in Registers :
           Swap(r) /\ panicked' = FALSE
             => Value(r)' = DummyRead(TopCell) /\ DummyRead(TopCell)' = Value(r)]_vars
  BY NextSwap DEF Next
<1> QED BY <1>1, Invariant, PTL DEF Spec, SwapExchanges

(***************************************************************************)
(* The refinement of FlatMachine: where its bytes, its registers and its   *)
(* stack are in the cells of the head layout.                              *)
(***************************************************************************)
LEMMA CellPlus ==
  ASSUME NEW c \in Int, c % WordSize = 0, NEW k \in 0 .. WordSize - 1
  PROVE  (c + k) % WordSize = k /\ Lower(c + k) = c
<1>0. WordSize \in Nat \ {0}
  BY Sizes
<1>1. PICK m \in Int : c = m * WordSize
  BY <1>0, MultipleOf
<1>2. (c + k) % WordSize = k
  BY <1>0, <1>1
<1> QED BY <1>2 DEF Lower

\* The memory section begins behind the stack and the registers.
LEMMA HeadPlaces ==
  ASSUME HeadLayout
  PROVE  /\ MemoryBytes = MemorySection.low .. MaxAddress
         /\ MemorySection.low \in Nat /\ MemorySection.low % WordSize = 0
         /\ MemorySection.high = MaxAddress
         /\ StackDepth * WordSize <= MemorySection.low
         /\ \A r \in Registers : Cell(r) \in Nat /\ Cell(r) + WordSize <= MemorySection.low
<1>1. MemorySection.low = (StackDepth + NoRegister + 2 * NoBuffer) * WordSize
      /\ MemorySection.high = MaxAddress
  BY HeadSections DEF MemorySection
<1>2. StackDepth * WordSize <= (StackDepth + NoRegister + 2 * NoBuffer) * WordSize
  BY Sizes, ProductLeq
<1>3. ASSUME NEW r \in Registers
      PROVE  Cell(r) \in Nat /\ Cell(r) + WordSize <= MemorySection.low
  <2>1. r \in Nat /\ r + 1 <= NoRegister
    BY MachineAssumption, Sizes
  <2>2. HeadRegister.low \in Int /\ Cell(r) = HeadRegister.low + r * WordSize
    BY HeadSections, Sizes DEF Cell, RegisterAddress, RegisterSection, Moved
  <2>3. Cell(r) + WordSize = (StackDepth + NoBuffer + r + 1) * WordSize
    BY <2>1, <2>2, HeadSections, Sizes
  <2>4. (StackDepth + NoBuffer + r + 1) * WordSize
          <= (StackDepth + NoRegister + 2 * NoBuffer) * WordSize
    BY <2>1, Sizes, ProductLeq
  <2> QED BY <1>1, <2>3, <2>4, RegisterCell, Sizes DEF CellAddress
<1>4. MemoryBytes = MemorySection.low .. MaxAddress
  BY DEF MemoryBytes
<1> QED BY <1>1, <1>2, <1>3, <1>4, MemoryBegin

LEMMA RegistersDiffer ==
  ASSUME NEW r \in Registers, NEW q \in Registers, r # q
  PROVE  Cell(r) # Cell(q)
<1>1. r \in Int /\ q \in Int /\ WordSize \in Nat \ {0}
  BY MachineAssumption, Sizes
<1>2. RegisterSection.low \in Int
  BY HeadSections, Sizes, Begin DEF RegisterSection, Moved
<1>3. r * WordSize # q * WordSize
  <2>1. r + 1 <= q \/ q + 1 <= r
    BY <1>1
  <2>2. CASE r + 1 <= q
    BY <1>1, <2>2, ProductLeq
  <2>3. CASE q + 1 <= r
    BY <1>1, <2>3, ProductLeq
  <2> QED BY <2>1, <2>2, <2>3
<1>4. r * WordSize \in Int /\ q * WordSize \in Int
  BY <1>1
<1> QED BY <1>2, <1>3, <1>4 DEF Cell, RegisterAddress

\* A cell that no access writes keeps its word.
LEMMA Elsewhere ==
  ASSUME TypeOK, NEW s, ReadsThenWrites(s), Perform(s), NEW T, WritesInto(s, T),
         NEW c \in CellAddress, c \notin T
  PROVE  DummyRead(c)' = DummyRead(c)
BY CellAfter DEF WritesInto, IsWriteTo

\* What the accesses of an instruction leave in the cells.
AllKept == \A b \in CellAddress : DummyRead(b)' = DummyRead(b)
OneSet(c, v) ==
  /\ DummyRead(c)' = v
  /\ \A b \in CellAddress \ {c} : DummyRead(b)' = DummyRead(b)

LEMMA ReadsKeep ==
  ASSUME TypeOK, NEW s, ReadsOnly(s), ReadsThenWrites(s), Perform(s)
  PROVE  AllKept
<1>1. WritesInto(s, {})
  BY ReadsInto
<1> QED BY <1>1, Elsewhere DEF AllKept

LEMMA OneIsSet ==
  ASSUME TypeOK, NEW r, NEW c \in CellAddress, NEW v \in Word, NEW d \in 0 .. StackDepth,
         NEW s, s = Writes(c, v, d) \/ (ReadsOnly(r) /\ s = r \o Writes(c, v, d)),
         ReadsThenWrites(s), Perform(s)
  PROVE  OneSet(c, v)
<1> DEFINE w == Writes(c, v, d)
<1>1. Sets(w, c, v) /\ Hits(w, c) /\ WritesInto(w, {c})
  BY WriteSets, CellInto
<1> HIDE DEF w
<1>2. ASSUME ReadsOnly(r), s = r \o w
      PROVE  Sets(s, c, v) /\ Hits(s, c) /\ WritesInto(s, {c})
  <2>1. Sets(r, c, v) /\ WritesInto(r, {c})
    BY <1>2, ReadsSet, ReadsInto
  <2>2. r \in Seq(AccessType) /\ w \in Seq(AccessType)
    BY <1>1, <1>2 DEF ReadsOnly, Sets
  <2> QED BY <1>1, <1>2, <2>1, <2>2, MoreSets, MoreHits, MoreInto
<1>3. Sets(s, c, v) /\ Hits(s, c) /\ WritesInto(s, {c})
  BY <1>1, <1>2 DEF w
<1>4. DummyRead(c)' = v
  BY <1>3, CellSet
<1>5. ASSUME NEW b \in CellAddress \ {c} PROVE DummyRead(b)' = DummyRead(b)
  BY <1>3, Elsewhere
<1> QED BY <1>4, <1>5 DEF OneSet

\* The cells after a word was written at a.
WordSet(a, v) ==
  /\ Lower(a) # Upper(a)
  /\ DummyRead(Lower(a))' = LowerPart(a, v)
  /\ DummyRead(Upper(a))' = UpperPart(a, v)
  /\ \A b \in CellAddress \ {Lower(a), Upper(a)} : DummyRead(b)' = DummyRead(b)

\* The word at a lies in the memory section, in one cell or in two that follow each other.
LEMMA WordPlace ==
  ASSUME HeadLayout, OverflowChecks, NEW a \in 0 .. MaxAddress, Contain(MemorySection, a),
         ~ Traps(a)
  PROVE  /\ Lower(a) \in CellAddress /\ MemorySection.low <= Lower(a)
         /\ a = Lower(a) + (a % WordSize) /\ a % WordSize \in 0 .. WordSize - 1
         /\ Aligned(a) => Lower(a) = a
         /\ ~ Aligned(a) => Upper(a) = Lower(a) + WordSize /\ Upper(a) \in CellAddress
         /\ a + WordSize - 1 <= MaxAddress
<1> DEFINE low == MemorySection.low
<1>1. low \in Nat /\ low % WordSize = 0 /\ low <= a
  BY MemoryBegin DEF Contain
<1> HIDE DEF low
<1>2. WordSize \in Nat \ {0} /\ a % WordSize \in 0 .. WordSize - 1 /\ MaxAddress \in Nat
  BY Sizes, DivMod
<1>3. /\ Lower(a) \in CellAddress /\ Lower(a) \in Int /\ Lower(a) % WordSize = 0
      /\ Lower(a) + WordSize <= MaxAddress + 1
  BY LowerCell DEF CellAddress
<1>4. a = Lower(a) + (a % WordSize)
  BY <1>2 DEF Lower
<1>5. low <= Lower(a)
  <2> SUFFICES ASSUME Lower(a) < low PROVE FALSE
    BY <1>1, <1>3
  <2>1. Lower(a) + WordSize <= low
    BY <1>1, <1>2, <1>3, MultiplesApart
  <2> QED BY <2>1, <1>1, <1>2, <1>3, <1>4
<1>6. Aligned(a) => Lower(a) = a /\ a + WordSize - 1 <= MaxAddress
  BY <1>2, <1>3, <1>4 DEF Aligned
<1>7. ASSUME ~ Aligned(a)
      PROVE  /\ Upper(a) = Lower(a) + WordSize /\ Upper(a) \in CellAddress
             /\ a + WordSize - 1 <= MaxAddress
  <2>1. Lower(a) + WordSize <= MaxAddress
    BY <1>2, <1>3, <1>7 DEF Traps
  <2>2. Lower(a) + WordSize \in 0 .. MaxAddress
    BY <2>1, <1>2, <1>3 DEF CellAddress
  <2>3. Upper(a) = Lower(a) + WordSize /\ Upper(a) \in CellAddress
    BY <2>2, <1>2, UpperCell DEF Upper
  <2>4. Upper(a) + WordSize <= MaxAddress + 1
    <3>1. Upper(a) \in 0 .. MaxAddress /\ Aligned(Upper(a))
      BY <2>3, CellIsAddress
    <3>2. Lower(Upper(a)) = Upper(a)
      BY <3>1, <1>2 DEF Lower, Aligned
    <3> QED BY <3>1, <3>2, LowerCell
  <2> QED BY <2>3, <2>4, <1>2, <1>3, <1>4
<1> QED BY <1>2, <1>3, <1>4, <1>5, <1>6, <1>7 DEF low

LEMMA WordIsSet ==
  ASSUME HeadLayout, OverflowChecks, TypeOK, NEW a \in 0 .. MaxAddress,
         Contain(MemorySection, a), ~ Traps(a), ~ Aligned(a),
         NEW v \in Word, NEW d \in 0 .. StackDepth, NEW r,
         NEW s, s = Writes(a, v, d) \/ (ReadsOnly(r) /\ s = r \o Writes(a, v, d)),
         ReadsThenWrites(s), Perform(s)
  PROVE  WordSet(a, v)
<1> DEFINE w == Writes(a, v, d)  L == Lower(a)  U == Upper(a)
           lower == LowerPart(a, v)  upper == UpperPart(a, v)
<1>1. L # U /\ L \in CellAddress /\ U \in CellAddress
  BY WordPlace, Sizes DEF CellAddress
<1>2. w = <<Access("Write", L, lower, d), Access("Write", U, upper, d)>>
  BY DEF Writes
<1>3. w \in Seq(AccessType)
  BY WriteAccesses DEF WritesOnly
<1>4. WordSet(a, v) <=> /\ L # U /\ DummyRead(L)' = lower /\ DummyRead(U)' = upper
                        /\ \A b \in CellAddress \ {L, U} : DummyRead(b)' = DummyRead(b)
  BY DEF WordSet
<1> HIDE DEF w, L, U, lower, upper
<1>5. /\ Len(w) = 2
      /\ w[1].instruction = "Write" /\ w[1].address = L /\ w[1].value = lower
      /\ w[2].instruction = "Write" /\ w[2].address = U /\ w[2].value = upper
  BY <1>2 DEF Access
<1>6. /\ Sets(w, L, lower) /\ Hits(w, L) /\ Sets(w, U, upper) /\ Hits(w, U)
      /\ WritesInto(w, {L, U})
  BY <1>1, <1>3, <1>5 DEF Sets, Hits, WritesInto, IsWriteTo
<1>7. ASSUME ReadsOnly(r), s = r \o w
      PROVE  /\ Sets(s, L, lower) /\ Hits(s, L) /\ Sets(s, U, upper) /\ Hits(s, U)
             /\ WritesInto(s, {L, U})
  <2>1. Sets(r, L, lower) /\ Sets(r, U, upper) /\ WritesInto(r, {L, U})
    BY <1>7, ReadsSet, ReadsInto
  <2>2. r \in Seq(AccessType)
    BY <1>7 DEF ReadsOnly
  <2> QED BY <1>3, <1>6, <1>7, <2>1, <2>2, MoreSets, MoreHits, MoreInto
<1>8. /\ Sets(s, L, lower) /\ Hits(s, L) /\ Sets(s, U, upper) /\ Hits(s, U)
      /\ WritesInto(s, {L, U})
  BY <1>6, <1>7 DEF w
<1>9. \A c \in CellAddress : /\ c = L => DummyRead(c)' = lower
                             /\ c = U => DummyRead(c)' = upper
  BY <1>8, CellSet
<1>10. DummyRead(L)' = lower /\ DummyRead(U)' = upper
  BY <1>1, <1>9
<1>11. ASSUME NEW b \in CellAddress \ {L, U} PROVE DummyRead(b)' = DummyRead(b)
  BY <1>8, <1>11, Elsewhere
<1> QED BY <1>1, <1>4, <1>10, <1>11

(***************************************************************************)
(* The state of the flat machine.                                          *)
(***************************************************************************)
FlatBytes == [b \in MemoryBytes |-> DummyRead(Lower(b))[b % WordSize]]
FlatRegisters == [r \in Registers |-> Value(r)]
FlatStack == [i \in 1 .. stack_depth |-> DummyRead((i - 1) * WordSize)]

\* A byte of the memory section is in a cell of it.
LEMMA BytePlace ==
  ASSUME HeadLayout, NEW b \in MemoryBytes
  PROVE  /\ b \in 0 .. MaxAddress
         /\ Lower(b) \in CellAddress /\ Lower(b) \in Int
         /\ MemorySection.low <= Lower(b)
         /\ b = Lower(b) + (b % WordSize) /\ b % WordSize \in 0 .. WordSize - 1
<1> DEFINE low == MemorySection.low
<1>1. low \in Nat /\ low % WordSize = 0 /\ b \in low .. MaxAddress
  BY HeadPlaces
<1> HIDE DEF low
<1>2. b \in 0 .. MaxAddress /\ b \in Int /\ low <= b
  BY <1>1, Sizes
<1>3. Lower(b) \in CellAddress /\ Lower(b) \in Int /\ Lower(b) % WordSize = 0
  BY <1>2, LowerCell DEF CellAddress
<1>4. b % WordSize \in 0 .. WordSize - 1 /\ WordSize \in Nat \ {0}
  BY <1>2, Sizes, DivMod
<1>5. b = Lower(b) + (b % WordSize)
  BY <1>2, <1>4 DEF Lower
<1>6. low <= Lower(b)
  <2> SUFFICES ASSUME Lower(b) < low PROVE FALSE
    BY <1>1, <1>3
  <2>1. Lower(b) + WordSize <= low
    BY <1>1, <1>3, <1>4, MultiplesApart
  <2> QED BY <2>1, <1>1, <1>2, <1>3, <1>4, <1>5
<1> QED BY <1>2, <1>3, <1>4, <1>5, <1>6 DEF low

\* A word is the bytes from its address on.
LEMMA WordIsFlat ==
  ASSUME HeadLayout, OverflowChecks, NEW a \in 0 .. MaxAddress,
         Contain(MemorySection, a), ~ Traps(a)
  PROVE  /\ a \in MemoryBytes /\ a + WordSize - 1 \in MemoryBytes
         /\ WordAt(a) = [i \in 0 .. WordSize - 1 |-> FlatBytes[a + i]]
<1> DEFINE L == Lower(a)  U == Upper(a)  rest == a % WordSize
<1>1. /\ L \in CellAddress /\ MemorySection.low <= L
      /\ a = L + rest /\ rest \in 0 .. WordSize - 1
      /\ rest = 0 => L = a
      /\ rest # 0 => U = L + WordSize /\ U \in CellAddress
      /\ a + WordSize - 1 <= MaxAddress
  BY WordPlace DEF Aligned
<1>2. /\ MemoryBytes = MemorySection.low .. MaxAddress
      /\ MemorySection.low \in Nat /\ WordSize \in Nat \ {0} /\ MaxAddress \in Nat
  BY HeadPlaces, Sizes
<1>3. L \in Int /\ L % WordSize = 0
  BY <1>1 DEF CellAddress
<1>4. WordAt(a) = [i \in 0 .. WordSize - 1 |->
                     IF i + rest < WordSize THEN DummyRead(L)[i + rest]
                                            ELSE DummyRead(U)[i + rest - WordSize]]
  BY DEF WordAt
<1> HIDE DEF L, U, rest
<1>5. a \in MemoryBytes /\ a + WordSize - 1 \in MemoryBytes
  BY <1>1, <1>2, <1>3
<1>6. ASSUME NEW i \in 0 .. WordSize - 1
      PROVE  FlatBytes[a + i] = IF i + rest < WordSize THEN DummyRead(L)[i + rest]
                                ELSE DummyRead(U)[i + rest - WordSize]
  <2>1. a + i \in MemoryBytes /\ a + i \in Int
    BY <1>1, <1>2, <1>3
  <2>2. FlatBytes[a + i] = DummyRead(Lower(a + i))[(a + i) % WordSize]
    BY <2>1 DEF FlatBytes
  <2>3. CASE i + rest < WordSize
    <3>1. a + i = L + (i + rest) /\ i + rest \in 0 .. WordSize - 1
      BY <1>1, <1>2, <1>3, <2>3
    <3>2. (a + i) % WordSize = i + rest /\ Lower(a + i) = L
      BY <3>1, <1>3, CellPlus
    <3> QED BY <2>2, <2>3, <3>2
  <2>4. CASE ~ (i + rest < WordSize)
    <3>1. rest # 0
      BY <1>1, <1>2, <2>4
    <3>2. U \in Int /\ U % WordSize = 0 /\ U = L + WordSize
      BY <1>1, <3>1 DEF CellAddress
    <3>3. a + i = U + (i + rest - WordSize) /\ i + rest - WordSize \in 0 .. WordSize - 1
      BY <1>1, <1>2, <1>3, <2>4, <3>2
    <3>4. (a + i) % WordSize = i + rest - WordSize /\ Lower(a + i) = U
      BY <3>2, <3>3, CellPlus
    <3> QED BY <2>2, <2>4, <3>4
  <2> QED BY <2>3, <2>4
<1> QED BY <1>4, <1>5, <1>6

\* The bytes depend on the cells of the memory section only.
LEMMA BytesKept ==
  ASSUME HeadLayout,
         \A c \in CellAddress : MemorySection.low <= c => DummyRead(c)' = DummyRead(c)
  PROVE  FlatBytes' = FlatBytes
<1>1. FlatBytes' = [b \in MemoryBytes |-> DummyRead(Lower(b))'[b % WordSize]]
  BY DEF FlatBytes, DummyRead
<1>2. \A b \in MemoryBytes : DummyRead(Lower(b))' = DummyRead(Lower(b))
  BY BytePlace
<1> QED BY <1>1, <1>2 DEF FlatBytes

\* The bytes of a flat memory after v is stored at a.
Stored(a, v) ==
  [b \in MemoryBytes |-> IF b - a \in 0 .. WordSize - 1 THEN v[b - a] ELSE FlatBytes[b]]

LEMMA BytesStored ==
  ASSUME HeadLayout, OverflowChecks, NEW a \in 0 .. MaxAddress,
         Contain(MemorySection, a), ~ Traps(a), NEW v,
         Aligned(a) => OneSet(a, v), ~ Aligned(a) => WordSet(a, v)
  PROVE  FlatBytes' = Stored(a, v)
<1> DEFINE L == Lower(a)  U == Upper(a)  rest == a % WordSize
<1>1. /\ L \in CellAddress /\ L \in Int /\ L % WordSize = 0
      /\ a = L + rest /\ rest \in 0 .. WordSize - 1
      /\ WordSize \in Nat \ {0}
  BY WordPlace, Sizes DEF CellAddress
<1>2. rest = 0 => OneSet(a, v) /\ a = L
  BY WordPlace DEF Aligned
<1>3. rest # 0 => /\ U = L + WordSize /\ U \in CellAddress
                  /\ DummyRead(L)' = LowerPart(a, v) /\ DummyRead(U)' = UpperPart(a, v)
                  /\ \A b \in CellAddress \ {L, U} : DummyRead(b)' = DummyRead(b)
  BY WordPlace DEF Aligned, WordSet
<1>4. /\ LowerPart(a, v) = [i \in 0 .. WordSize - 1 |->
                              IF i < rest THEN DummyRead(L)[i] ELSE v[i - rest]]
      /\ UpperPart(a, v) = [i \in 0 .. WordSize - 1 |->
                              IF i < rest THEN v[i + WordSize - rest] ELSE DummyRead(U)[i]]
  BY DEF LowerPart, UpperPart
<1>5. FlatBytes' = [b \in MemoryBytes |-> DummyRead(Lower(b))'[b % WordSize]]
  BY DEF FlatBytes, DummyRead
<1> HIDE DEF L, U, rest
<1>6. ASSUME NEW b \in MemoryBytes
      PROVE  DummyRead(Lower(b))'[b % WordSize]
               = IF b - a \in 0 .. WordSize - 1 THEN v[b - a] ELSE FlatBytes[b]
  <2> DEFINE c == Lower(b)  k == b % WordSize
  <2>1. /\ c \in CellAddress /\ c \in Int /\ c % WordSize = 0
        /\ b = c + k /\ k \in 0 .. WordSize - 1
    BY BytePlace DEF CellAddress
  <2>2. FlatBytes[b] = DummyRead(c)[k]
    BY DEF FlatBytes
  <2>3. c < L => c + WordSize <= L
    BY <1>1, <2>1, MultiplesApart
  <2>4. L < c => L + WordSize <= c
    BY <1>1, <2>1, MultiplesApart
  <2> HIDE DEF c, k
  <2>5. CASE c = L /\ rest = 0
    <3>1. DummyRead(c)' = v /\ b - a = k
      BY <1>1, <1>2, <2>1, <2>5 DEF OneSet
    <3> QED BY <2>1, <3>1 DEF c, k
  <2>6. CASE c = L /\ rest # 0
    <3>1. DummyRead(c)'[k] = IF k < rest THEN DummyRead(L)[k] ELSE v[k - rest]
      BY <1>3, <1>4, <2>1, <2>6
    <3>2. b - a = k - rest
      BY <1>1, <2>1, <2>6
    <3>3. k < rest <=> ~ (b - a \in 0 .. WordSize - 1)
      BY <1>1, <2>1, <3>2
    <3> QED BY <2>2, <2>6, <3>1, <3>2, <3>3 DEF c, k
  <2>7. CASE c # L /\ rest # 0 /\ c = U
    <3>1. DummyRead(c)'[k] = IF k < rest THEN v[k + WordSize - rest] ELSE DummyRead(U)[k]
      BY <1>3, <1>4, <2>1, <2>7
    <3>2. b - a = k + WordSize - rest
      BY <1>1, <1>3, <2>1, <2>7
    <3>3. k < rest <=> b - a \in 0 .. WordSize - 1
      BY <1>1, <2>1, <3>2
    <3> QED BY <2>2, <2>7, <3>1, <3>2, <3>3 DEF c, k
  <2>8. CASE c # L /\ (rest # 0 => c # U)
    <3>1. DummyRead(c)' = DummyRead(c)
      BY <1>2, <1>3, <2>1, <2>8 DEF OneSet
    <3>2. b - a \notin 0 .. WordSize - 1
      <4>1. CASE c < L
        BY <1>1, <2>1, <2>3, <4>1
      <4>2. CASE L < c /\ rest = 0
        BY <1>1, <2>1, <2>4, <4>2
      <4>3. CASE L < c /\ rest # 0
        <5>1. U \in Int /\ U % WordSize = 0 /\ U = L + WordSize /\ c # U
          BY <1>3, <2>8, <4>3 DEF CellAddress
        <5>2. U < c
          BY <1>1, <2>1, <2>4, <4>3, <5>1
        <5>3. U + WordSize <= c
          BY <1>1, <2>1, <5>1, <5>2, MultiplesApart
        <5> QED BY <1>1, <2>1, <5>1, <5>3
      <4> QED BY <1>1, <2>1, <2>8, <4>1, <4>2, <4>3
    <3> QED BY <2>2, <3>1, <3>2 DEF c, k
  <2> QED BY <2>5, <2>6, <2>7, <2>8
<1> QED BY <1>5, <1>6 DEF Stored

(***************************************************************************)
(* Registers and stack.                                                    *)
(***************************************************************************)
LEMMA RegistersKept ==
  ASSUME \A r \in Registers : DummyRead(Cell(r))' = DummyRead(Cell(r))
  PROVE  FlatRegisters' = FlatRegisters
<1>1. FlatRegisters' = [r \in Registers |-> DummyRead(Cell(r))']
  BY DEF FlatRegisters, Value, DummyRead
<1> QED BY <1>1 DEF FlatRegisters, Value

LEMMA RegisterSet ==
  ASSUME NEW r \in Registers, NEW v, DummyRead(Cell(r))' = v,
         \A q \in Registers \ {r} : DummyRead(Cell(q))' = DummyRead(Cell(q))
  PROVE  FlatRegisters' = [FlatRegisters EXCEPT ![r] = v]
<1>1. FlatRegisters' = [q \in Registers |-> DummyRead(Cell(q))']
  BY DEF FlatRegisters, Value, DummyRead
<1> QED BY <1>1 DEF FlatRegisters, Value

\* The cell of the i-th word of the stack.
StackAt(i) == (i - 1) * WordSize

LEMMA StackPlaces ==
  /\ \A i \in 1 .. StackDepth : /\ StackAt(i) \in CellAddress
                                /\ StackAt(i) + WordSize <= StackDepth * WordSize
  /\ \A i, j \in 1 .. StackDepth : i # j => StackAt(i) # StackAt(j)
<1>1. ASSUME NEW i \in 1 .. StackDepth
      PROVE  StackAt(i) \in CellAddress /\ StackAt(i) + WordSize <= StackDepth * WordSize
  <2>1. i - 1 \in 0 .. StackDepth - 1
    BY Sizes
  <2> QED BY <2>1, StackCell DEF StackAt
<1>2. ASSUME NEW i \in 1 .. StackDepth, NEW j \in 1 .. StackDepth, i < j
      PROVE  StackAt(i) # StackAt(j)
  <2>1. (i - 1) + 1 <= j - 1 /\ i - 1 \in Int /\ j - 1 \in Int
    BY <1>2, Sizes
  <2>2. ((i - 1) + 1) * WordSize <= (j - 1) * WordSize
    BY <2>1, Sizes, ProductLeq
  <2>3. ((i - 1) + 1) * WordSize = (i - 1) * WordSize + WordSize
    BY <2>1, Sizes
  <2>4. (i - 1) * WordSize \in Int /\ (j - 1) * WordSize \in Int
    BY <2>1, Sizes
  <2> QED BY <2>2, <2>3, <2>4, Sizes DEF StackAt
<1>3. ASSUME NEW i \in 1 .. StackDepth, NEW j \in 1 .. StackDepth, i # j
      PROVE  StackAt(i) # StackAt(j)
  <2>1. i < j \/ j < i
    BY <1>3, Sizes
  <2> QED BY <2>1, <1>2
<1> QED BY <1>1, <1>3

LEMMA StackIsSeq ==
  ASSUME TypeOK
  PROVE  FlatStack \in Seq(Word) /\ Len(FlatStack) = stack_depth
         /\ \A i \in 1 .. stack_depth : FlatStack[i] = DummyRead(StackAt(i))
<1>1. stack_depth \in Nat /\ stack_depth <= StackDepth
  BY Sizes DEF TypeOK
<1>2. FlatStack = [i \in 1 .. stack_depth |-> DummyRead(StackAt(i))]
  BY DEF FlatStack, StackAt
<1>3. \A i \in 1 .. stack_depth : DummyRead(StackAt(i)) \in Word
  BY <1>1, StackPlaces, ReadWord, Sizes
<1> QED BY <1>1, <1>2, <1>3

\* The stack after an instruction that leaves n words.
LEMMA StackAfter ==
  ASSUME NEW n \in 0 .. StackDepth, stack_depth' = n, NEW t \in Seq(Word),
         Len(t) = n, \A i \in 1 .. n : DummyRead(StackAt(i))' = t[i]
  PROVE  FlatStack' = t
<1>1. n \in Nat
  BY Sizes
<1>2. FlatStack' = [i \in 1 .. n |-> DummyRead(StackAt(i))']
  BY DEF FlatStack, StackAt, DummyRead
<1>3. t = [i \in 1 .. n |-> t[i]]
  BY <1>1
<1> QED BY <1>2, <1>3

\* What becomes of the flat state when one cell, or a word of the memory section, is set.
StackCellsKept == \A i \in 1 .. StackDepth : DummyRead(StackAt(i))' = DummyRead(StackAt(i))

LEMMA Places ==
  ASSUME HeadLayout
  PROVE  /\ \A c \in CellAddress : MemorySection.low <= c =>
              /\ \A r \in Registers : c # Cell(r)
              /\ \A i \in 1 .. StackDepth : c # StackAt(i)
         /\ \A r \in Registers : /\ Cell(r) \in CellAddress
                                 /\ ~ (MemorySection.low <= Cell(r))
                                 /\ \A i \in 1 .. StackDepth : Cell(r) # StackAt(i)
         /\ \A i \in 1 .. StackDepth : ~ (MemorySection.low <= StackAt(i))
<1>1. /\ MemorySection.low \in Nat /\ WordSize \in Nat \ {0}
      /\ StackDepth * WordSize <= MemorySection.low /\ StackDepth * WordSize \in Int
  BY HeadPlaces, Sizes
<1>2. ASSUME NEW r \in Registers
      PROVE  /\ Cell(r) \in CellAddress /\ Cell(r) \in Int
             /\ Cell(r) + WordSize <= MemorySection.low
             /\ StackDepth * WordSize <= Cell(r)
  BY HeadPlaces, RegistersApart, RegisterCell
<1>3. ASSUME NEW i \in 1 .. StackDepth
      PROVE  StackAt(i) \in Int /\ StackAt(i) + WordSize <= StackDepth * WordSize
  BY StackPlaces DEF CellAddress
<1>4. \A c \in CellAddress : c \in Int
  BY DEF CellAddress
<1>5. ASSUME NEW c \in CellAddress, MemorySection.low <= c
      PROVE  /\ \A r \in Registers : c # Cell(r)
             /\ \A i \in 1 .. StackDepth : c # StackAt(i)
  BY <1>1, <1>2, <1>3, <1>4, <1>5
<1>6. ASSUME NEW r \in Registers
      PROVE  /\ Cell(r) \in CellAddress /\ ~ (MemorySection.low <= Cell(r))
             /\ \A i \in 1 .. StackDepth : Cell(r) # StackAt(i)
  BY <1>1, <1>2, <1>3
<1>7. ASSUME NEW i \in 1 .. StackDepth PROVE ~ (MemorySection.low <= StackAt(i))
  BY <1>1, <1>3
<1> QED BY <1>5, <1>6, <1>7

LEMMA FlatKept ==
  ASSUME HeadLayout, AllKept
  PROVE  FlatBytes' = FlatBytes /\ FlatRegisters' = FlatRegisters /\ StackCellsKept
<1>1. FlatBytes' = FlatBytes
  BY BytesKept DEF AllKept
<1>2. FlatRegisters' = FlatRegisters
  BY RegistersKept, RegisterCell DEF AllKept
<1>3. StackCellsKept
  BY StackPlaces DEF AllKept, StackCellsKept
<1> QED BY <1>1, <1>2, <1>3

LEMMA FlatRegisterSet ==
  ASSUME HeadLayout, NEW r \in Registers, NEW v, OneSet(Cell(r), v)
  PROVE  /\ FlatBytes' = FlatBytes
         /\ FlatRegisters' = [FlatRegisters EXCEPT ![r] = v]
         /\ StackCellsKept
<1>1. \A b \in CellAddress : b # Cell(r) => DummyRead(b)' = DummyRead(b)
  BY DEF OneSet
<1>2. FlatBytes' = FlatBytes
  BY <1>1, BytesKept, Places
<1>3. \A q \in Registers \ {r} : DummyRead(Cell(q))' = DummyRead(Cell(q))
  BY <1>1, RegistersDiffer, RegisterCell
<1>4. DummyRead(Cell(r))' = v
  BY DEF OneSet
<1>5. FlatRegisters' = [FlatRegisters EXCEPT ![r] = v]
  BY <1>3, <1>4, RegisterSet
<1>6. StackCellsKept
  BY <1>1, StackPlaces, Places DEF StackCellsKept
<1> QED BY <1>2, <1>5, <1>6

LEMMA FlatStackSet ==
  ASSUME HeadLayout, NEW i \in 1 .. StackDepth, NEW v, OneSet(StackAt(i), v)
  PROVE  /\ FlatBytes' = FlatBytes
         /\ FlatRegisters' = FlatRegisters
         /\ DummyRead(StackAt(i))' = v
         /\ \A j \in 1 .. StackDepth : j # i => DummyRead(StackAt(j))' = DummyRead(StackAt(j))
<1>1. \A b \in CellAddress : b # StackAt(i) => DummyRead(b)' = DummyRead(b)
  BY DEF OneSet
<1>2. FlatBytes' = FlatBytes
  BY <1>1, BytesKept, Places
<1>3. FlatRegisters' = FlatRegisters
  BY <1>1, RegistersKept, Places
<1>4. DummyRead(StackAt(i))' = v
  BY DEF OneSet
<1> QED BY <1>1, <1>2, <1>3, <1>4, StackPlaces

LEMMA FlatWordSet ==
  ASSUME HeadLayout, OverflowChecks, NEW a \in 0 .. MaxAddress,
         Contain(MemorySection, a), ~ Traps(a), NEW v,
         Aligned(a) => OneSet(a, v), ~ Aligned(a) => WordSet(a, v)
  PROVE  /\ FlatBytes' = Stored(a, v)
         /\ FlatRegisters' = FlatRegisters
         /\ StackCellsKept
<1>1. FlatBytes' = Stored(a, v)
  BY BytesStored
<1>2. /\ Lower(a) \in CellAddress /\ MemorySection.low <= Lower(a)
      /\ Aligned(a) => Lower(a) = a
      /\ ~ Aligned(a) => /\ Upper(a) = Lower(a) + WordSize /\ Upper(a) \in CellAddress
                         /\ MemorySection.low <= Upper(a)
  BY WordPlace, HeadPlaces, Sizes DEF CellAddress
<1>3. ASSUME NEW b \in CellAddress, ~ (MemorySection.low <= b)
      PROVE  DummyRead(b)' = DummyRead(b)
  BY <1>2, <1>3 DEF OneSet, WordSet
<1>4. FlatRegisters' = FlatRegisters
  BY <1>3, RegistersKept, Places
<1>5. StackCellsKept
  BY <1>3, StackPlaces, Places DEF StackCellsKept
<1> QED BY <1>1, <1>4, <1>5

\* The stack keeps its words as long as its cells and its depth stay.
LEMMA StackKept ==
  ASSUME TypeOK, StackCellsKept, stack_depth' = stack_depth
  PROVE  FlatStack' = FlatStack
<1>1. stack_depth \in 0 .. StackDepth /\ StackDepth \in Nat
  BY Sizes DEF TypeOK
<1>2. /\ FlatStack \in Seq(Word) /\ Len(FlatStack) = stack_depth
      /\ \A i \in 1 .. stack_depth : FlatStack[i] = DummyRead(StackAt(i))
  BY StackIsSeq
<1>3. \A i \in 1 .. stack_depth : i \in 1 .. StackDepth
  BY <1>1
<1> HIDE DEF FlatStack
<1>4. \A i \in 1 .. stack_depth : DummyRead(StackAt(i))' = FlatStack[i]
  BY <1>2, <1>3 DEF StackCellsKept
<1> QED BY <1>1, <1>2, <1>4, StackAfter

(***************************************************************************)
(* The steps of the flat machine, on this state.                           *)
(***************************************************************************)
LEMMA FlatRead ==
  ASSUME NEW a \in MemoryBytes, a + WordSize - 1 \in MemoryBytes,
         answer' = [i \in 0 .. WordSize - 1 |-> FlatBytes[a + i]],
         FlatBytes' = FlatBytes, FlatRegisters' = FlatRegisters, FlatStack' = FlatStack
  PROVE  Flat!Next
<1>1. a \in Flat!Addresses
  BY DEF Flat!Addresses
<1>2. Flat!Read(a)
  BY DEF Flat!Read, Flat!Word, FlatBytes, FlatRegisters, FlatStack
<1> QED BY <1>1, <1>2 DEF Flat!Next

LEMMA FlatWrite ==
  ASSUME NEW a \in MemoryBytes, a + WordSize - 1 \in MemoryBytes, NEW v \in Values,
         FlatBytes' = Stored(a, v), FlatRegisters' = FlatRegisters, FlatStack' = FlatStack,
         answer' = answer
  PROVE  Flat!Next
<1>1. a \in Flat!Addresses
  BY DEF Flat!Addresses
<1>2. Flat!Write(a, v)
  BY DEF Flat!Write, Flat!Store, FlatBytes, FlatRegisters, FlatStack, Stored
<1> QED BY <1>1, <1>2 DEF Flat!Next

LEMMA FlatPush ==
  ASSUME NEW v \in Values, Len(FlatStack) < StackDepth, FlatStack' = Append(FlatStack, v),
         FlatBytes' = FlatBytes, FlatRegisters' = FlatRegisters, answer' = answer
  PROVE  Flat!Next
<1>1. Flat!Push(v)
  BY DEF Flat!Push, FlatBytes, FlatRegisters, FlatStack
<1> QED BY <1>1 DEF Flat!Next

LEMMA FlatPop ==
  ASSUME FlatStack # <<>>, FlatStack' = SubSeq(FlatStack, 1, Len(FlatStack) - 1),
         answer' = FlatStack[Len(FlatStack)],
         FlatBytes' = FlatBytes, FlatRegisters' = FlatRegisters
  PROVE  Flat!Next
<1>1. Flat!Pop
  BY DEF Flat!Pop, Flat!Top, Flat!Below, FlatBytes, FlatRegisters, FlatStack
<1> QED BY <1>1 DEF Flat!Next

LEMMA FlatMov ==
  ASSUME NEW r \in Registers, NEW q \in Registers,
         FlatRegisters' = [FlatRegisters EXCEPT ![r] = FlatRegisters[q]],
         FlatBytes' = FlatBytes, FlatStack' = FlatStack, answer' = answer
  PROVE  Flat!Next
<1>1. Flat!Mov(r, q)
  BY DEF Flat!Mov, Flat!Assign, FlatBytes, FlatRegisters, FlatStack
<1> QED BY <1>1 DEF Flat!Next

LEMMA FlatSwap ==
  ASSUME NEW r \in Registers, FlatStack # <<>>,
         FlatStack' = Append(SubSeq(FlatStack, 1, Len(FlatStack) - 1), FlatRegisters[r]),
         FlatRegisters' = [FlatRegisters EXCEPT ![r] = FlatStack[Len(FlatStack)]],
         FlatBytes' = FlatBytes, answer' = answer
  PROVE  Flat!Next
<1>1. Flat!Swap(r)
  BY DEF Flat!Swap, Flat!Assign, Flat!Top, Flat!Below, FlatBytes, FlatRegisters, FlatStack
<1> QED BY <1>1 DEF Flat!Next

LEMMA FlatLoad ==
  ASSUME NEW r \in Registers, NEW a \in MemoryBytes, a + WordSize - 1 \in MemoryBytes,
         FlatRegisters' = [FlatRegisters EXCEPT
                             ![r] = [i \in 0 .. WordSize - 1 |-> FlatBytes[a + i]]],
         FlatBytes' = FlatBytes, FlatStack' = FlatStack, answer' = answer
  PROVE  Flat!Next
<1>1. a \in Flat!Addresses
  BY DEF Flat!Addresses
<1>2. Flat!Load(r, a)
  BY DEF Flat!Load, Flat!Assign, Flat!Word, FlatBytes, FlatRegisters, FlatStack
<1> QED BY <1>1, <1>2 DEF Flat!Next

LEMMA FlatSave ==
  ASSUME NEW r \in Registers, NEW a \in MemoryBytes, a + WordSize - 1 \in MemoryBytes,
         FlatBytes' = Stored(a, FlatRegisters[r]),
         FlatRegisters' = FlatRegisters, FlatStack' = FlatStack, answer' = answer
  PROVE  Flat!Next
<1>1. a \in Flat!Addresses
  BY DEF Flat!Addresses
<1>2. Flat!Save(a, r)
  BY DEF Flat!Save, Flat!Store, FlatBytes, FlatRegisters, FlatStack, Stored
<1> QED BY <1>1, <1>2 DEF Flat!Next

LEMMA FlatAdd ==
  ASSUME NEW r \in Registers, NEW q \in Registers,
         Plus(FlatRegisters[r], FlatRegisters[q]) # Overflow,
         FlatRegisters' = [FlatRegisters EXCEPT
                             ![r] = Plus(FlatRegisters[r], FlatRegisters[q])],
         FlatBytes' = FlatBytes, FlatStack' = FlatStack, answer' = answer
  PROVE  Flat!Next
<1>1. Flat!Add(r, q)
  BY DEF Flat!Add, Flat!Assign, FlatBytes, FlatRegisters, FlatStack
<1> QED BY <1>1 DEF Flat!Next

LEMMA FlatInit == Init => Flat!Init
<1> SUFFICES ASSUME Init PROVE Flat!Init
  OBVIOUS
<1>1. \A c : DummyRead(c) = Zero
  BY DEF Init, DummyRead
<1>2. WordSize \in Nat \ {0}
  BY Sizes
<1>3. FlatBytes = [b \in MemoryBytes |-> 0]
  <2>1. \A b \in MemoryBytes : b \in Int /\ b % WordSize \in 0 .. WordSize - 1
    <3>1. MemoryBytes \subseteq Int
      BY MemoryBegin, Sizes DEF MemoryBytes
    <3> QED BY <3>1, <1>2, DivMod
  <2> QED BY <1>1, <2>1 DEF FlatBytes, Zero
<1>4. FlatRegisters = [r \in Registers |-> Zero]
  BY <1>1 DEF FlatRegisters, Value
<1>5. FlatStack = <<>>
  BY DEF FlatStack, Init
<1> QED BY <1>3, <1>4, <1>5
  DEF Flat!Init, Flat!Zero, Zero, Init, FlatBytes, FlatRegisters, FlatStack

\* What the refinement relies on: the layout and the build that the memory needs, a program
\* that addresses the memory section, and the Swap of the machine in machine.rs.
Faithful ==
  /\ HeadLayout
  /\ OverflowChecks
  /\ ~ Example
  /\ \A a \in Operands : Contain(MemorySection, a)

LEMMA ReadStep ==
  ASSUME Faithful, TypeOK, NEW a \in 0 .. MaxAddress, Contain(MemorySection, a), ~ Traps(a),
         Read(a)
  PROVE  Flat!Next
<1>1. ReadsOnly(Reads(a, stack_depth)) /\ ReadsThenWrites(Reads(a, stack_depth))
  BY ReadAccesses, Accesses DEF TypeOK
<1>2. /\ Perform(Reads(a, stack_depth))
      /\ answer' = WordAt(a) /\ stack_depth' = stack_depth
  BY DEF Read
<1>3. AllKept
  BY <1>1, <1>2, ReadsKeep
<1>4. FlatBytes' = FlatBytes /\ FlatRegisters' = FlatRegisters /\ FlatStack' = FlatStack
  BY <1>2, <1>3, FlatKept, StackKept DEF Faithful
<1>5. /\ a \in MemoryBytes /\ a + WordSize - 1 \in MemoryBytes
      /\ answer' = [i \in 0 .. WordSize - 1 |-> FlatBytes[a + i]]
  BY <1>2, WordIsFlat DEF Faithful
<1> QED BY <1>4, <1>5, FlatRead

LEMMA WriteStep ==
  ASSUME Faithful, TypeOK, NEW a \in 0 .. MaxAddress, NEW v \in Values,
         Contain(MemorySection, a), ~ Traps(a), Write(a, v)
  PROVE  Flat!Next
<1>1. ReadsThenWrites(Writes(a, v, stack_depth)) /\ v \in Word
      /\ stack_depth \in 0 .. StackDepth
  BY Accesses, MachineAssumption DEF TypeOK
<1>2. /\ Perform(Writes(a, v, stack_depth))
      /\ answer' = answer /\ stack_depth' = stack_depth
  BY DEF Write
<1>3. Aligned(a) => OneSet(a, v)
  BY <1>1, <1>2, AlignedCell, OneIsSet
<1>4. ~ Aligned(a) => WordSet(a, v)
  BY <1>1, <1>2, WordIsSet DEF Faithful
<1>5. FlatBytes' = Stored(a, v) /\ FlatRegisters' = FlatRegisters /\ FlatStack' = FlatStack
  BY <1>2, <1>3, <1>4, FlatWordSet, StackKept DEF Faithful
<1>6. a \in MemoryBytes /\ a + WordSize - 1 \in MemoryBytes
  BY WordIsFlat DEF Faithful
<1> QED BY <1>2, <1>5, <1>6, FlatWrite

LEMMA PushStep ==
  ASSUME Faithful, TypeOK, stack_depth < StackDepth, NEW v \in Values, Push(v)
  PROVE  Flat!Next
<1>0. PICK n : n = stack_depth + 1
  OBVIOUS
<1>1. /\ stack_depth \in Nat /\ StackDepth \in Nat /\ n \in 1 .. StackDepth
      /\ v \in Word /\ stack_ptr = StackAt(n)
  BY <1>0, Sizes, MachineAssumption DEF TypeOK, StackAt
<1>2. /\ Perform(Writes(stack_ptr, v, n)) /\ ReadsThenWrites(Writes(stack_ptr, v, n))
      /\ answer' = answer /\ stack_depth' = n
  BY <1>0, <1>1, Accesses DEF Push
<1>3. OneSet(StackAt(n), v)
  <2>1. StackAt(n) \in CellAddress /\ n \in 0 .. StackDepth
    BY <1>1, StackPlaces, Sizes
  <2> QED BY <1>1, <1>2, <2>1, OneIsSet
<1>4. /\ FlatBytes' = FlatBytes /\ FlatRegisters' = FlatRegisters
      /\ DummyRead(StackAt(n))' = v
      /\ \A j \in 1 .. StackDepth : j # n => DummyRead(StackAt(j))' = DummyRead(StackAt(j))
  BY <1>1, <1>3, FlatStackSet DEF Faithful
<1> DEFINE s == FlatStack  t == Append(s, v)
<1>5. /\ s \in Seq(Word) /\ Len(s) = stack_depth
      /\ \A i \in 1 .. stack_depth : s[i] = DummyRead(StackAt(i))
  BY StackIsSeq
<1> HIDE DEF s
<1>6. /\ t \in Seq(Word) /\ Len(t) = n /\ t[n] = v
      /\ \A i \in 1 .. stack_depth : t[i] = s[i]
  BY <1>0, <1>1, <1>5, AppendProperties
<1> HIDE DEF t
<1>7. ASSUME NEW i \in 1 .. n PROVE DummyRead(StackAt(i))' = t[i]
  <2>1. CASE i = n
    BY <1>4, <1>6, <2>1
  <2>2. CASE i # n
    <3>1. i \in 1 .. stack_depth /\ i \in 1 .. StackDepth
      BY <1>0, <1>1, <2>2
    <3>2. DummyRead(StackAt(i))' = DummyRead(StackAt(i))
      BY <1>4, <2>2, <3>1
    <3> QED BY <1>5, <1>6, <3>1, <3>2
  <2> QED BY <2>1, <2>2
<1>8. n \in 0 .. StackDepth
  BY <1>1
<1>9. FlatStack' = t
  BY <1>2, <1>6, <1>7, <1>8, StackAfter
<1> QED BY <1>2, <1>4, <1>5, <1>9, FlatPush DEF s, t

LEMMA PopStep ==
  ASSUME Faithful, TypeOK, stack_depth > 0, Pop
  PROVE  Flat!Next
<1> DEFINE n == stack_depth - 1
<1>1. /\ stack_depth \in 1 .. StackDepth /\ stack_depth \in Nat /\ n \in 0 .. StackDepth
      /\ TopCell = StackAt(stack_depth) /\ TopCell \in 0 .. MaxAddress
  BY Addresses, Sizes DEF TypeOK, StackAt
<1>2. /\ Perform(Reads(TopCell, n)) /\ ReadsThenWrites(Reads(TopCell, n))
      /\ ReadsOnly(Reads(TopCell, n))
      /\ answer' = DummyRead(TopCell) /\ stack_depth' = n
  BY <1>1, Accesses, ReadAccesses DEF Pop
<1>3. AllKept
  BY <1>2, ReadsKeep
<1>4. FlatBytes' = FlatBytes /\ FlatRegisters' = FlatRegisters /\ StackCellsKept
  BY <1>3, FlatKept DEF Faithful
<1> DEFINE s == FlatStack  t == SubSeq(s, 1, n)
<1>5. /\ s \in Seq(Word) /\ Len(s) = stack_depth
      /\ \A i \in 1 .. stack_depth : s[i] = DummyRead(StackAt(i))
  BY StackIsSeq
<1> HIDE DEF s
<1>6. t \in Seq(Word) /\ Len(t) = n /\ \A i \in 1 .. n : t[i] = s[i]
  <2>1. n \in Nat /\ 1 \in Int /\ \A i \in 1 .. n : s[i] \in Word
    BY <1>1, <1>5
  <2> HIDE DEF n
  <2>2. /\ SubSeq(s, 1, n) \in Seq(Word)
        /\ Len(SubSeq(s, 1, n)) = IF 1 <= n THEN n - 1 + 1 ELSE 0
        /\ \A i \in 1 .. n - 1 + 1 : SubSeq(s, 1, n)[i] = s[1 + i - 1]
    BY <2>1, SubSeqProperties
  <2>3. n - 1 + 1 = n /\ (~ (1 <= n) => n = 0) /\ \A i \in 1 .. n : 1 + i - 1 = i
    BY <2>1
  <2> QED BY <2>2, <2>3
<1> HIDE DEF t
<1>7. ASSUME NEW i \in 1 .. n PROVE DummyRead(StackAt(i))' = t[i]
  <2>1. i \in 1 .. stack_depth /\ i \in 1 .. StackDepth
    <3>1. stack_depth \in Nat /\ StackDepth \in Nat /\ stack_depth <= StackDepth
      BY <1>1, Sizes
    <3> QED BY <3>1
  <2>2. DummyRead(StackAt(i))' = DummyRead(StackAt(i))
    BY <1>4, <2>1 DEF StackCellsKept
  <2> QED BY <1>5, <1>6, <2>1, <2>2
<1>8. s # <<>> /\ answer' = s[Len(s)] /\ n = Len(s) - 1
  BY <1>1, <1>2, <1>5
<1> HIDE DEF n
<1>9. FlatStack' = t
  BY <1>1, <1>2, <1>6, <1>7, StackAfter
<1> QED BY <1>4, <1>8, <1>9, FlatPop DEF s, t

LEMMA MovStep ==
  ASSUME Faithful, TypeOK, NEW r \in Registers, NEW q \in Registers, Mov(r, q)
  PROVE  Flat!Next
<1> DEFINE get == Reads(Cell(q), stack_depth)
           set == Writes(Cell(r), Value(q), stack_depth)
<1>1. /\ Perform(get \o set) /\ ReadsThenWrites(get \o set)
      /\ answer' = answer /\ stack_depth' = stack_depth
  BY Accesses DEF Mov
<1>2. /\ Cell(r) \in CellAddress /\ Cell(q) \in 0 .. MaxAddress /\ Value(q) \in Word
      /\ stack_depth \in 0 .. StackDepth
  BY Addresses
<1>3. ReadsOnly(get)
  BY <1>2, ReadAccesses
<1>4. OneSet(Cell(r), Value(q))
  <2> HIDE DEF get
  <2> QED BY <1>1, <1>2, <1>3, OneIsSet
<1>5. /\ FlatBytes' = FlatBytes /\ FlatStack' = FlatStack
      /\ FlatRegisters' = [FlatRegisters EXCEPT ![r] = Value(q)]
  BY <1>1, <1>4, FlatRegisterSet, StackKept DEF Faithful
<1>6. FlatRegisters[q] = Value(q)
  BY DEF FlatRegisters
<1> QED BY <1>1, <1>5, <1>6, FlatMov

LEMMA AddStep ==
  ASSUME Faithful, TypeOK, NEW r \in Registers, NEW q \in Registers, Add(r, q),
         Plus(Value(r), Value(q)) # Overflow
  PROVE  Flat!Next
<1> DEFINE sum == Plus(Value(r), Value(q))
           get == Reads(Cell(r), stack_depth) \o Reads(Cell(q), stack_depth)
           set == Writes(Cell(r), sum, stack_depth)
<1>1. /\ Perform(get \o set) /\ ReadsThenWrites(get \o set)
      /\ answer' = answer /\ stack_depth' = stack_depth
  BY Accesses DEF Add
<1>2. /\ Cell(r) \in CellAddress /\ Cell(q) \in 0 .. MaxAddress /\ Cell(r) \in 0 .. MaxAddress
      /\ Value(q) \in Word /\ Value(r) \in Word
      /\ stack_depth \in 0 .. StackDepth
  BY Addresses
<1>3. ReadsOnly(get) /\ sum \in Word
  BY <1>2, ReadAccesses, MoreReads, MachineAssumption
<1>4. OneSet(Cell(r), sum)
  <2> HIDE DEF get, sum
  <2> QED BY <1>1, <1>2, <1>3, OneIsSet
<1>5. /\ FlatBytes' = FlatBytes /\ FlatStack' = FlatStack
      /\ FlatRegisters' = [FlatRegisters EXCEPT ![r] = sum]
  <2> HIDE DEF sum
  <2> QED BY <1>1, <1>4, FlatRegisterSet, StackKept DEF Faithful
<1>6. FlatRegisters[q] = Value(q) /\ FlatRegisters[r] = Value(r)
  BY DEF FlatRegisters
<1> QED BY <1>1, <1>5, <1>6, FlatAdd

LEMMA LoadStep ==
  ASSUME Faithful, TypeOK, NEW r \in Registers, NEW a \in Operands, ~ Traps(a), Load(r, a)
  PROVE  Flat!Next
<1> DEFINE get == Reads(a, stack_depth)
           set == Writes(Cell(r), WordAt(a), stack_depth)
<1>1. /\ Perform(get \o set) /\ ReadsThenWrites(get \o set)
      /\ answer' = answer /\ stack_depth' = stack_depth
  BY Accesses DEF Load
<1>2. /\ Cell(r) \in CellAddress /\ a \in 0 .. MaxAddress /\ Contain(MemorySection, a)
      /\ WordAt(a) \in Word /\ stack_depth \in 0 .. StackDepth
  BY Addresses, Accesses, MachineAssumption DEF Faithful
<1>3. ReadsOnly(get)
  BY <1>2, ReadAccesses
<1>4. OneSet(Cell(r), WordAt(a))
  <2> HIDE DEF get
  <2> QED BY <1>1, <1>2, <1>3, OneIsSet
<1>5. /\ FlatBytes' = FlatBytes /\ FlatStack' = FlatStack
      /\ FlatRegisters' = [FlatRegisters EXCEPT ![r] = WordAt(a)]
  BY <1>1, <1>4, FlatRegisterSet, StackKept DEF Faithful
<1>6. /\ a \in MemoryBytes /\ a + WordSize - 1 \in MemoryBytes
      /\ WordAt(a) = [i \in 0 .. WordSize - 1 |-> FlatBytes[a + i]]
  BY <1>2, WordIsFlat DEF Faithful
<1> QED BY <1>1, <1>5, <1>6, FlatLoad

LEMMA SaveStep ==
  ASSUME Faithful, TypeOK, NEW r \in Registers, NEW a \in Operands, ~ Traps(a), Save(a, r)
  PROVE  Flat!Next
<1> DEFINE get == Reads(Cell(r), stack_depth)
           set == Writes(a, Value(r), stack_depth)
<1>1. /\ Perform(get \o set) /\ ReadsThenWrites(get \o set)
      /\ answer' = answer /\ stack_depth' = stack_depth
  BY Accesses DEF Save
<1>2. /\ Cell(r) \in 0 .. MaxAddress /\ Value(r) \in Word
      /\ a \in 0 .. MaxAddress /\ Contain(MemorySection, a)
      /\ stack_depth \in 0 .. StackDepth
  BY Addresses, MachineAssumption DEF Faithful
<1>3. ReadsOnly(get)
  BY <1>2, ReadAccesses
<1> HIDE DEF get
<1>4. Aligned(a) => OneSet(a, Value(r))
  BY <1>1, <1>2, <1>3, AlignedCell, OneIsSet
<1>5. ~ Aligned(a) => WordSet(a, Value(r))
  BY <1>1, <1>2, <1>3, WordIsSet DEF Faithful
<1>6. /\ FlatBytes' = Stored(a, Value(r)) /\ FlatRegisters' = FlatRegisters
      /\ FlatStack' = FlatStack
  BY <1>1, <1>2, <1>4, <1>5, FlatWordSet, StackKept DEF Faithful
<1>7. a \in MemoryBytes /\ a + WordSize - 1 \in MemoryBytes
  BY <1>2, WordIsFlat DEF Faithful
<1>8. FlatRegisters[r] = Value(r)
  BY DEF FlatRegisters
<1> QED BY <1>1, <1>6, <1>7, <1>8, FlatSave

LEMMA SwapStep ==
  ASSUME Faithful, TypeOK, stack_depth > 0, NEW r \in Registers, Swap(r)
  PROVE  Flat!Next
<1>1. PICK n : n = stack_depth
  OBVIOUS
<1>2. PICK top : top = TopCell
  OBVIOUS
<1>3. /\ n \in 1 .. StackDepth /\ n - 1 \in Nat /\ n \in Nat /\ StackDepth \in Nat
      /\ top = StackAt(n) /\ top \in CellAddress /\ top \in 0 .. MaxAddress
      /\ DummyRead(top) \in Word /\ Value(r) \in Word
      /\ Cell(r) \in CellAddress /\ Cell(r) \in 0 .. MaxAddress
  <2>1. /\ stack_depth \in 0 .. StackDepth /\ StackDepth \in Nat
        /\ stack_ptr = stack_depth * WordSize
    BY Sizes DEF TypeOK
  <2>2. /\ TopCell = (stack_depth - 1) * WordSize
        /\ TopCell \in CellAddress /\ TopCell \in 0 .. MaxAddress
        /\ Value(r) \in Word /\ Cell(r) \in CellAddress /\ Cell(r) \in 0 .. MaxAddress
    BY Addresses
  <2> QED BY <1>1, <1>2, <2>1, <2>2, ReadWord DEF StackAt
<1>4. /\ Perform(SwapAccesses(r)) /\ ReadsThenWrites(SwapAccesses(r))
      /\ answer' = answer /\ stack_depth' = stack_depth
  BY Accesses DEF Swap
<1>5. DummyRead(top)' = Value(r) /\ DummyRead(Cell(r))' = DummyRead(top)
  BY <1>2, <1>4, SwapCells DEF Faithful
<1>6. WritesInto(SwapAccesses(r), {top, Cell(r)})
  <2> DEFINE pop == Reads(top, n - 1)
             get == Reads(Cell(r), n - 1)
             push == Writes(top, Value(r), n)
             set == Writes(Cell(r), DummyRead(top), n)
             T == {top, Cell(r)}
  <2>1. SwapAccesses(r) = pop \o get \o push \o set
    BY <1>1, <1>2 DEF SwapAccesses, Faithful
  <2>2. n \in 0 .. StackDepth /\ n - 1 \in 0 .. StackDepth
    BY <1>3
  <2>3. ReadsOnly(pop) /\ ReadsOnly(get)
    BY <1>3, <2>2, ReadAccesses
  <2>4. WritesInto(push, T) /\ WritesInto(set, T)
    BY <1>3, <2>2, CellInto
  <2> HIDE DEF pop, get, push, set, T
  <2>5. WritesInto(pop, T) /\ WritesInto(get, T)
    BY <2>3, ReadsInto
  <2> QED BY <2>1, <2>4, <2>5, MoreInto DEF T
<1>7. ASSUME NEW c \in CellAddress, c # top, c # Cell(r)
      PROVE  DummyRead(c)' = DummyRead(c)
  BY <1>4, <1>6, <1>7, Elsewhere
<1>8. FlatBytes' = FlatBytes
  BY <1>3, <1>7, BytesKept, Places DEF Faithful
<1>9. FlatRegisters' = [FlatRegisters EXCEPT ![r] = DummyRead(top)]
  <2>1. \A q \in Registers \ {r} : DummyRead(Cell(q))' = DummyRead(Cell(q))
    BY <1>3, <1>7, Places, RegistersDiffer DEF Faithful
  <2> QED BY <1>5, <2>1, RegisterSet
<1> DEFINE s == FlatStack  below == SubSeq(s, 1, n - 1)  t == Append(below, Value(r))
<1>10. /\ s \in Seq(Word) /\ Len(s) = n
       /\ \A i \in 1 .. n : s[i] = DummyRead(StackAt(i))
  BY <1>1, StackIsSeq
<1> HIDE DEF s
<1>11. below \in Seq(Word) /\ Len(below) = n - 1 /\ \A i \in 1 .. n - 1 : below[i] = s[i]
  <2>1. n - 1 \in Int /\ 1 \in Int /\ \A i \in 1 .. n - 1 : s[i] \in Word
    BY <1>3, <1>10
  <2>2. /\ SubSeq(s, 1, n - 1) \in Seq(Word)
        /\ Len(SubSeq(s, 1, n - 1)) = IF 1 <= n - 1 THEN n - 1 - 1 + 1 ELSE 0
        /\ \A i \in 1 .. n - 1 - 1 + 1 : SubSeq(s, 1, n - 1)[i] = s[1 + i - 1]
    BY <2>1, SubSeqProperties
  <2>3. n - 1 - 1 + 1 = n - 1 /\ (~ (1 <= n - 1) => n - 1 = 0)
        /\ \A i \in 1 .. n - 1 : 1 + i - 1 = i
    BY <1>3
  <2> QED BY <2>2, <2>3
<1> HIDE DEF below
<1>12. /\ t \in Seq(Word) /\ Len(t) = n /\ t[n] = Value(r)
       /\ \A i \in 1 .. n - 1 : t[i] = s[i]
  <2>1. n - 1 + 1 = n
    BY <1>3
  <2> QED BY <1>3, <1>11, <2>1, AppendProperties
<1> HIDE DEF t
<1>13. ASSUME NEW i \in 1 .. n PROVE DummyRead(StackAt(i))' = t[i]
  <2>1. CASE i = n
    <3>1. DummyRead(StackAt(i))' = DummyRead(top)'
      BY <1>3, <2>1
    <3> QED BY <1>5, <1>12, <2>1, <3>1
  <2>2. CASE i # n
    <3>1. i \in 1 .. n - 1 /\ i \in 1 .. StackDepth
      BY <1>3, <2>2
    <3>2. StackAt(i) \in CellAddress /\ StackAt(i) # top /\ StackAt(i) # Cell(r)
      BY <1>3, <2>2, <3>1, StackPlaces, Places DEF Faithful
    <3> QED BY <1>7, <1>10, <1>12, <3>1, <3>2
  <2> QED BY <2>1, <2>2
<1>14. FlatStack' = t
  <2>1. n \in 0 .. StackDepth /\ stack_depth' = n
    BY <1>1, <1>3, <1>4
  <2> QED BY <1>12, <1>13, <2>1, StackAfter
<1>15. s # <<>> /\ s[Len(s)] = DummyRead(top) /\ n - 1 = Len(s) - 1 /\ FlatRegisters[r] = Value(r)
  BY <1>3, <1>10 DEF FlatRegisters
<1> QED BY <1>4, <1>8, <1>9, <1>14, <1>15, FlatSwap DEF s, below, t

LEMMA StepIsFlat ==
  ASSUME Faithful, IndInv, [Next]_vars
  PROVE  [Flat!Next]_(Flat!vars)
<1> USE DEF IndInv
<1>0. /\ stack_depth # StackDepth <=> stack_depth < StackDepth
      /\ stack_depth # 0 <=> stack_depth > 0
  BY Addresses
<1>1. CASE UNCHANGED vars \/ Panic
  <2>1. /\ FlatBytes' = FlatBytes /\ FlatRegisters' = FlatRegisters
        /\ FlatStack' = FlatStack /\ answer' = answer
    BY <1>1 DEF vars, Panic, FlatBytes, FlatRegisters, FlatStack, Value, DummyRead
  <2> QED BY <2>1 DEF Flat!vars, FlatBytes, FlatRegisters, FlatStack
<1>2. ASSUME NEW a \in 0 .. MaxAddress, Read(a) PROVE Panic \/ Flat!Next
  BY <1>2, ReadStep DEF Read
<1>3. ASSUME NEW a \in 0 .. MaxAddress, NEW v \in Values, Write(a, v) PROVE Panic \/ Flat!Next
  BY <1>3, WriteStep DEF Write
<1>4. ASSUME NEW v \in Values, Push(v) PROVE Panic \/ Flat!Next
  BY <1>0, <1>4, PushStep DEF Push
<1>5. ASSUME Pop PROVE Panic \/ Flat!Next
  BY <1>0, <1>5, PopStep DEF Pop
<1>6. ASSUME NEW r \in Registers, Swap(r) PROVE Panic \/ Flat!Next
  BY <1>0, <1>6, SwapStep DEF Swap
<1>7. ASSUME NEW r \in Registers, NEW q \in Registers, Mov(r, q) PROVE Panic \/ Flat!Next
  BY <1>7, MovStep
<1>8. ASSUME NEW r \in Registers, NEW q \in Registers, Add(r, q) PROVE Panic \/ Flat!Next
  BY <1>8, AddStep DEF Add
<1>9. ASSUME NEW r \in Registers, NEW a \in Operands, Load(r, a) PROVE Panic \/ Flat!Next
  BY <1>9, LoadStep DEF Load
<1>10. ASSUME NEW r \in Registers, NEW a \in Operands, Save(a, r) PROVE Panic \/ Flat!Next
  BY <1>10, SaveStep DEF Save
<1> QED BY <1>1, <1>2, <1>3, <1>4, <1>5, <1>6, <1>7, <1>8, <1>9, <1>10
  DEF Next, Exec, Invalid

\* In the head layout and a build with overflow checks, for any sizes, words and sum, a
\* program whose Load and Save operands are in the memory section sees a flat memory, a stack
\* and registers: words across two cells are their bytes, and no section is reached through
\* another (ImplementsFlat).
THEOREM MachineIsFlat ==
  ASSUME Faithful
  PROVE  Spec => ImplementsFlat
<1>1. Init => Flat!Init
  BY FlatInit
<1>2. IndInv /\ [Next]_vars => [Flat!Next]_(Flat!vars)
  BY StepIsFlat
<1> QED BY <1>1, <1>2, Invariant, PTL DEF Spec, ImplementsFlat, Flat!Spec
=============================================================================
