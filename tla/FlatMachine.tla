---------------------------- MODULE FlatMachine ----------------------------
(***************************************************************************)
(* What a program may rely on when it runs on a zkmemory machine: a memory *)
(* of bytes in which a word can be read and written at any address, a      *)
(* stack, and registers, none of which can be reached through another.     *)
(***************************************************************************)
EXTENDS Integers, Sequences

CONSTANTS
  Byte, WordSize,
  Span,           \* the addresses of the memory
  Registers,      \* the registers a program uses
  StackDepth,     \* the greatest depth of the stack
  Values,         \* the words a program is written with
  Plus(_, _),     \* the sum of two words, or Overflow
  Overflow

VARIABLES bytes, registers, stack,
          answer   \* the word that was read or popped last

vars == <<bytes, registers, stack, answer>>

Zero == [i \in 0 .. WordSize - 1 |-> 0]
Addresses == {a \in Span : a + WordSize - 1 \in Span}

Word(a) == [i \in 0 .. WordSize - 1 |-> bytes[a + i]]

Store(a, v) ==
  bytes' = [b \in Span |-> IF b - a \in 0 .. WordSize - 1 THEN v[b - a] ELSE bytes[b]]

Assign(r, v) == registers' = [registers EXCEPT ![r] = v]

Top == stack[Len(stack)]
Below == SubSeq(stack, 1, Len(stack) - 1)

Init ==
  /\ bytes = [b \in Span |-> 0]
  /\ registers = [r \in Registers |-> Zero]
  /\ stack = <<>>
  /\ answer = Zero

Read(a) == answer' = Word(a) /\ UNCHANGED <<bytes, registers, stack>>

Write(a, v) == Store(a, v) /\ UNCHANGED <<registers, stack, answer>>

Push(v) == /\ Len(stack) < StackDepth
           /\ stack' = Append(stack, v)
           /\ UNCHANGED <<bytes, registers, answer>>

Pop == /\ stack # <<>>
       /\ stack' = Below
       /\ answer' = Top
       /\ UNCHANGED <<bytes, registers>>

Mov(r1, r2) == Assign(r1, registers[r2]) /\ UNCHANGED <<bytes, stack, answer>>

Swap(r) == /\ stack # <<>>
           /\ stack' = Append(Below, registers[r])
           /\ Assign(r, Top)
           /\ UNCHANGED <<bytes, answer>>

Load(r, a) == Assign(r, Word(a)) /\ UNCHANGED <<bytes, stack, answer>>

Save(a, r) == Store(a, registers[r]) /\ UNCHANGED <<registers, stack, answer>>

Add(r1, r2) == /\ Plus(registers[r1], registers[r2]) # Overflow
               /\ Assign(r1, Plus(registers[r1], registers[r2]))
               /\ UNCHANGED <<bytes, stack, answer>>

Next ==
  \/ \E a \in Addresses : Read(a) \/ \E v \in Values : Write(a, v)
  \/ \E v \in Values : Push(v)
  \/ Pop
  \/ \E r \in Registers : \/ Swap(r)
                          \/ \E s \in Registers : Mov(r, s) \/ Add(r, s)
                          \/ \E a \in Addresses : Load(r, a) \/ Save(a, r)

Spec == Init /\ [][Next]_vars
=============================================================================
