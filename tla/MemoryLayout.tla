---------------------------- MODULE MemoryLayout ----------------------------
(***************************************************************************)
(* The sections of the address space of a zkmemory machine: Config::new.   *)
(* A section keeps its first address and, as the code does, the address    *)
(* right behind its last cell, which Section::contain admits too; only the *)
(* memory section of the head layout ends with its last address.           *)
(***************************************************************************)
EXTENDS Integers

CONSTANTS
  WordSize,     \* the bytes of a cell
  MaxAddress,   \* the greatest address of the address type
  StackDepth, NoRegister, NoBuffer,   \* sizes in cells
  HeadLayout    \* are stack and registers at the head of the space?

ASSUME LayoutAssumption ==
  /\ WordSize \in Nat \ {0}
  /\ MaxAddress \in Nat
  /\ \E cells \in 0 .. MaxAddress : MaxAddress + 1 = cells * WordSize
  /\ {StackDepth, NoRegister, NoBuffer} \subseteq Nat
  /\ HeadLayout \in BOOLEAN
  /\ LET buffers == IF HeadLayout THEN 2 * NoBuffer ELSE 3 * NoBuffer
     IN (StackDepth + NoRegister + buffers) * WordSize <= MaxAddress

BufferSize == NoBuffer * WordSize
LastOffset(section) == section.high + BufferSize
FixedSection(begin, size) == [low |-> begin, high |-> begin + size * WordSize]

\* Stack and registers before they are moved to their place.
HeadStack == FixedSection(0, StackDepth)
HeadRegister == FixedSection(LastOffset(HeadStack), NoRegister)

\* Where the fixed sections of the tail layout begin.
BeginOfFixedSection ==
  LET begin == MaxAddress - LastOffset(HeadRegister)
  IN begin - (begin % WordSize)

Moved(section) ==
  IF HeadLayout
    THEN section
    ELSE [low  |-> section.low + BeginOfFixedSection,
          high |-> section.high + BeginOfFixedSection]

StackSection == Moved(HeadStack)
RegisterSection == Moved(HeadRegister)
MemorySection ==
  IF HeadLayout
    THEN [low |-> LastOffset(HeadRegister), high |-> MaxAddress]
    ELSE [low |-> 0, high |-> BeginOfFixedSection - BufferSize]

Contain(section, address) == section.low <= address /\ address <= section.high

RegisterAddress(index) == RegisterSection.low + index * WordSize
=============================================================================
