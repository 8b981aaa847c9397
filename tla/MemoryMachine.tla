--------------------------- MODULE MemoryMachine ---------------------------
(***************************************************************************)
(* A zkmemory machine: AbstractMemoryMachine, AbstractStackMachine and     *)
(* AbstractRegisterMachine over one memory of cells, with the instruction  *)
(* set of the machine in the tests of machine.rs or, if Example, of the    *)
(* machine in examples/256bits-machine.rs.                                 *)
(*                                                                         *)
(* A word is its bytes in the order in which they are stored.  A word at   *)
(* an address that is not a multiple of WordSize lies across two cells.    *)
(* Every access to a cell leaves a record in the trace, which is what the  *)
(* proof systems work on.  An instruction is one step: the machine is      *)
(* borrowed mutably while it is executed.  An instruction that panics      *)
(* unwinds the thread that owns the machine, which is never used again.    *)
(***************************************************************************)
EXTENDS MemoryLayout, Sequences

CONSTANTS
  Byte,
  Registers,        \* the indices of the registers the program uses
  Values,           \* the words in Write and Push instructions
  Operands,         \* the addresses in Load and Save instructions
  Plus(_, _),       \* value1 + value2, or Overflow where that panics
  Overflow,
  OverflowChecks,   \* a dev build, where address arithmetic panics?
  Example,          \* the machine of the example?
  MaxTime           \* bound on time_log

Word == [0 .. WordSize - 1 -> Byte]
Zero == [i \in 0 .. WordSize - 1 |-> 0]
CellAddress == {a \in 0 .. MaxAddress : a % WordSize = 0}
Instructions == {"Read", "Write"}
TraceRecord == [time_log : Nat, stack_depth : 0 .. StackDepth,
                instruction : Instructions, address : CellAddress, value : Word]

ASSUME MachineAssumption ==
  /\ 0 \in Byte
  /\ Registers \subseteq 0 .. NoRegister - 1
  /\ Values \subseteq Word
  /\ Operands \subseteq 0 .. MaxAddress
  /\ Overflow \notin Word
  /\ \A v, w \in Word : Plus(v, w) \in Word \cup {Overflow}
  /\ OverflowChecks \in BOOLEAN
  /\ Example \in BOOLEAN
  /\ MaxTime \in Nat

VARIABLES
  memory,            \* the cells that were written
  execution_trace,   \* the records, in a tree ordered by time_log
  time_log, stack_depth, stack_ptr,
  answer,            \* the word in the CellInteraction of the last read or pop
  panicked

vars == <<memory, execution_trace, time_log, stack_depth, stack_ptr, answer, panicked>>

Init ==
  /\ memory = <<>>
  /\ execution_trace = {}
  /\ time_log = 0
  /\ stack_depth = 0
  /\ stack_ptr = 0
  /\ answer = Zero
  /\ panicked = FALSE

-----------------------------------------------------------------------------
(***************************************************************************)
(* Words and cells.  Every instruction reads all it needs before its first *)
(* write, so what it reads is what memory holds when it begins.            *)
(***************************************************************************)
Aligned(a) == a % WordSize = 0

\* compute_address: the lower and the upper cell of a word.
Lower(a) == a - (a % WordSize)
Upper(a) == (Lower(a) + WordSize) % (MaxAddress + 1)

\* Mutant of Traps: the address of the upper cell is not checked.
TrapsNever(a) == FALSE

\* The address of the upper cell does not fit the address type.
Traps(a) == OverflowChecks /\ ~ Aligned(a) /\ Lower(a) + WordSize > MaxAddress

DummyRead(cell) == IF cell \in DOMAIN memory THEN memory[cell] ELSE Zero

\* The word at a: the end of the lower cell and the beginning of the upper.
WordAt(a) ==
  [i \in 0 .. WordSize - 1 |->
     IF i + (a % WordSize) < WordSize
       THEN DummyRead(Lower(a))[i + (a % WordSize)]
       ELSE DummyRead(Upper(a))[i + (a % WordSize) - WordSize]]

\* What the lower and the upper cell hold after v is written at a.
LowerPart(a, v) ==
  [i \in 0 .. WordSize - 1 |->
     IF i < a % WordSize THEN DummyRead(Lower(a))[i] ELSE v[i - (a % WordSize)]]

\* Mutant of UpperPart: the upper cell takes the beginning of the word.
UpperPartShifted(a, v) ==
  [i \in 0 .. WordSize - 1 |->
     IF i < a % WordSize THEN v[i] ELSE DummyRead(Upper(a))[i]]

UpperPart(a, v) ==
  [i \in 0 .. WordSize - 1 |->
     IF i < a % WordSize THEN v[i + WordSize - (a % WordSize)]
                         ELSE DummyRead(Upper(a))[i]]

Access(instruction, cell, value, depth) ==
  [instruction |-> instruction, address |-> cell, value |-> value, stack_depth |-> depth]

\* AbstractMemoryMachine::read and write: the cells they access.
Reads(a, depth) ==
  IF Aligned(a)
    THEN <<Access("Read", a, DummyRead(a), depth)>>
    ELSE <<Access("Read", Lower(a), DummyRead(Lower(a)), depth),
           Access("Read", Upper(a), DummyRead(Upper(a)), depth)>>

Writes(a, v, depth) ==
  IF Aligned(a)
    THEN <<Access("Write", a, v, depth)>>
    ELSE <<Access("Write", Lower(a), LowerPart(a, v), depth),
           Access("Write", Upper(a), UpperPart(a, v), depth)>>

\* The cells after the accesses: the last write to a cell counts.
WritesTo(accesses, cell) ==
  {i \in DOMAIN accesses : accesses[i].instruction = "Write" /\ accesses[i].address = cell}

Written(accesses) ==
  [cell \in DOMAIN memory \cup {c \in CellAddress : WritesTo(accesses, c) # {}} |->
     IF WritesTo(accesses, cell) = {}
       THEN memory[cell]
       ELSE accesses[CHOOSE i \in WritesTo(accesses, cell) :
                       \A j \in WritesTo(accesses, cell) : j <= i].value]

\* The record of the i-th access of an instruction.
Track(access, i) ==
  [time_log |-> time_log + i - 1, stack_depth |-> access.stack_depth,
   instruction |-> access.instruction, address |-> access.address,
   value |-> access.value]

\* Mutant of Elapsed: the clock counts instructions.
ElapsedOne(accesses) == 1

\* How far the clock advances: once per access.
Elapsed(accesses) == Len(accesses)

\* The effects of an instruction's accesses.
Perform(accesses) ==
  /\ time_log + Len(accesses) <= MaxTime
  /\ memory' = Written(accesses)
  /\ execution_trace' =
       execution_trace \cup {Track(accesses[i], i) : i \in DOMAIN accesses}
  /\ time_log' = time_log + Elapsed(accesses)
  /\ UNCHANGED panicked

Panic ==
  /\ panicked' = TRUE
  /\ UNCHANGED <<memory, execution_trace, time_log, stack_depth, stack_ptr, answer>>

-----------------------------------------------------------------------------
(***************************************************************************)
(* The instructions.                                                       *)
(***************************************************************************)
Cell(r) == RegisterAddress(r)
Value(r) == DummyRead(Cell(r))

TopCell == stack_ptr - WordSize

\* exec checks the memory section in Read and Write, and only there.
Read(a) ==
  IF Contain(MemorySection, a) /\ ~ Traps(a)
    THEN /\ Perform(Reads(a, stack_depth))
         /\ answer' = WordAt(a)
         /\ UNCHANGED <<stack_depth, stack_ptr>>
    ELSE Panic

Write(a, v) ==
  IF Contain(MemorySection, a) /\ ~ Traps(a)
    THEN /\ Perform(Writes(a, v, stack_depth))
         /\ UNCHANGED <<stack_depth, stack_ptr, answer>>
    ELSE Panic

\* Mutant of Push: a full stack takes one more word.
PushBeyond(v) ==
  IF stack_depth # StackDepth + 1
    THEN /\ Perform(Writes(stack_ptr, v, stack_depth + 1))
         /\ stack_depth' = stack_depth + 1
         /\ stack_ptr' = stack_ptr + WordSize
         /\ UNCHANGED answer
    ELSE Panic

\* The depth is set before, the pointer after the address is taken from it.
Push(v) ==
  IF stack_depth # StackDepth
    THEN /\ Perform(Writes(stack_ptr, v, stack_depth + 1))
         /\ stack_depth' = stack_depth + 1
         /\ stack_ptr' = stack_ptr + WordSize
         /\ UNCHANGED answer
    ELSE Panic

\* Mutant of Pop: an empty stack can be popped.
PopEmpty ==
  /\ Perform(Reads(TopCell, stack_depth - 1))
  /\ stack_depth' = stack_depth - 1
  /\ stack_ptr' = TopCell
  /\ answer' = DummyRead(TopCell)

Pop ==
  IF stack_depth # 0
    THEN /\ Perform(Reads(TopCell, stack_depth - 1))
         /\ stack_depth' = stack_depth - 1
         /\ stack_ptr' = TopCell
         /\ answer' = DummyRead(TopCell)
    ELSE Panic

Mov(r1, r2) ==
  /\ Perform(Reads(Cell(r2), stack_depth) \o Writes(Cell(r1), Value(r2), stack_depth))
  /\ UNCHANGED <<stack_depth, stack_ptr, answer>>

\* Mutant of SwapAccesses: the register is read after it was set.
SwapLate(r) ==
  Reads(TopCell, stack_depth - 1)
  \o Reads(Cell(r), stack_depth - 1)
  \o Writes(TopCell, DummyRead(TopCell), stack_depth)
  \o Writes(Cell(r), DummyRead(TopCell), stack_depth)

\* pop, get, push and set; the example pops, and pushes and sets what it popped.
SwapAccesses(r) ==
  IF Example
    THEN Reads(TopCell, stack_depth - 1)
         \o Writes(TopCell, DummyRead(TopCell), stack_depth)
         \o Writes(Cell(r), DummyRead(TopCell), stack_depth)
    ELSE Reads(TopCell, stack_depth - 1)
         \o Reads(Cell(r), stack_depth - 1)
         \o Writes(TopCell, Value(r), stack_depth)
         \o Writes(Cell(r), DummyRead(TopCell), stack_depth)

Swap(r) ==
  IF stack_depth # 0
    THEN /\ Perform(SwapAccesses(r))
         /\ UNCHANGED <<stack_depth, stack_ptr, answer>>
    ELSE Panic

Load(r, a) ==
  IF Traps(a)
    THEN Panic
    ELSE /\ Perform(Reads(a, stack_depth) \o Writes(Cell(r), WordAt(a), stack_depth))
         /\ UNCHANGED <<stack_depth, stack_ptr, answer>>

Save(a, r) ==
  IF Traps(a)
    THEN Panic
    ELSE /\ Perform(Reads(Cell(r), stack_depth) \o Writes(a, Value(r), stack_depth))
         /\ UNCHANGED <<stack_depth, stack_ptr, answer>>

Add(r1, r2) ==
  IF Plus(Value(r1), Value(r2)) = Overflow
    THEN Panic
    ELSE /\ Perform(Reads(Cell(r1), stack_depth) \o Reads(Cell(r2), stack_depth)
                    \o Writes(Cell(r1), Plus(Value(r1), Value(r2)), stack_depth))
         /\ UNCHANGED <<stack_depth, stack_ptr, answer>>

Invalid == Panic

Exec ==
  \/ Invalid
  \/ \E a \in 0 .. MaxAddress : Read(a) \/ \E v \in Values : Write(a, v)
  \/ \E v \in Values : Push(v)
  \/ Pop
  \/ \E r \in Registers : \/ Swap(r)
                          \/ \E s \in Registers : Mov(r, s) \/ Add(r, s)
                          \/ \E a \in Operands : Load(r, a) \/ Save(a, r)

Next == ~ panicked /\ Exec

Spec == Init /\ [][Next]_vars
-----------------------------------------------------------------------------
(***************************************************************************)
(* Properties.                                                             *)
(***************************************************************************)

\* Every variable keeps its type; in particular memory has cells only, and
\* the pointer of the stack follows its depth.
TypeOK ==
  /\ DOMAIN memory \subseteq CellAddress
  /\ \A cell \in DOMAIN memory : memory[cell] \in Word
  /\ execution_trace \subseteq TraceRecord
  /\ time_log \in Nat
  /\ stack_depth \in 0 .. StackDepth
  /\ stack_ptr = stack_depth * WordSize
  /\ answer \in Word
  /\ panicked \in BOOLEAN

\* The last write to the cell of record r before it.
IsLastWrite(w, r) ==
  /\ w.instruction = "Write" /\ w.address = r.address /\ w.time_log < r.time_log
  /\ \A x \in execution_trace :
       x.instruction = "Write" /\ x.address = r.address /\ x.time_log < r.time_log
         => x.time_log <= w.time_log

\* No two records have the same time, on which their comparison panics, and
\* every read of a cell returns what was last written to it, 0 if nothing was.
ReadsLastWrite ==
  /\ \A r, s \in execution_trace : r.time_log = s.time_log => r = s
  /\ \A r \in execution_trace :
       /\ r.time_log < time_log
       /\ r.instruction = "Read" =>
            \/ \E w \in execution_trace : IsLastWrite(w, r) /\ w.value = r.value
            \/ /\ ~ \E w \in execution_trace : IsLastWrite(w, r)
               /\ r.value = Zero

\* The records that an instruction leaves.
NewRecords == execution_trace' \ execution_trace

\* push and pop access the stack section and nothing else.
StackAccesses ==
  [][stack_depth' # stack_depth =>
       \A r \in NewRecords : /\ r.address >= StackSection.low
                              /\ r.address < StackSection.high]_vars

\* Every write goes to the memory section, to a register of the program or
\* to the top of the stack: no section is reached through another.
WritableCells ==
  {c \in CellAddress : MemorySection.low <= c /\ c < MemorySection.high + WordSize}
  \cup {Cell(r) : r \in Registers}
WritesInPlace ==
  [][\A r \in NewRecords :
       r.instruction = "Write" =>
         r.address \in WritableCells \cup {stack_ptr' - WordSize}]_vars

\* Swap exchanges the top of the stack with the register.
SwapExchanges ==
  [][\A r \in Registers :
       Swap(r) /\ panicked' = FALSE
         => Value(r)' = DummyRead(TopCell) /\ DummyRead(TopCell)' = Value(r)]_vars

\* The addresses that the words of the memory section cover.
MemoryBytes ==
  IF HeadLayout THEN MemorySection.low .. MaxAddress
                ELSE MemorySection.low .. MemorySection.high + WordSize - 1

\* The machine keeps the promise of FlatMachine.
Flat == INSTANCE FlatMachine WITH
  Span <- MemoryBytes,
  bytes <- [b \in MemoryBytes |-> DummyRead(Lower(b))[b % WordSize]],
  registers <- [r \in Registers |-> Value(r)],
  stack <- [i \in 1 .. stack_depth |-> DummyRead((i - 1) * WordSize)]
ImplementsFlat == Flat!Spec
=============================================================================
