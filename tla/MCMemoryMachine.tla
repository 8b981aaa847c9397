-------------------------- MODULE MCMemoryMachine --------------------------
(***************************************************************************)
(* Instances of MemoryMachine for TLC: words of two bytes, each 0, 1 or 2. *)
(***************************************************************************)
EXTENDS MemoryMachine

Pair(high, low) == [i \in 0 .. 1 |-> IF i = 0 THEN high ELSE low]

\* One word that is not equal to any shift of itself.
MCValues == {Pair(1, 2)}

\* The sum of a release build wraps; a dev build panics when it overflows.
Number(v) == 3 * v[0] + v[1]
Wrapping(v, w) ==
  LET n == (Number(v) + Number(w)) % 9 IN Pair(n \div 3, n % 3)
Checked(v, w) == IF Number(v) + Number(w) > 8 THEN Overflow ELSE Wrapping(v, w)

\* Load and Save with addresses of the memory section, or with any address.
MemoryOperands == MemorySection.low .. MemorySection.high
AllOperands == 0 .. MaxAddress
=============================================================================
