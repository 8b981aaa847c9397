-------------------------- MODULE MCMemoryCircuits --------------------------
(***************************************************************************)
(* Instances of MemoryCircuits for TLC: two limbs of two values in words   *)
(* and times, and a field of three elements, so that one word is not its   *)
(* own remainder.                                                          *)
(***************************************************************************)
EXTENDS MemoryCircuits

CONSTANT MaxLength   \* bound on the records of a trace

AllWords == [1 .. WordLimbs -> 0 .. LimbBase - 1]
SmallWords == {w \in AllWords : w[1] = 0}
SomeWords == SmallWords \cup {<<1, 1>>}   \* <<1, 1>> and <<0, 0>> have one remainder
SomeTimes == {<<0, 0>>, <<0, 1>>, <<1, 0>>}

Remainder(w) == (2 * w[1] + w[2]) % 3

TracesUpTo(n) == UNION {[1 .. m -> TraceRecord] : m \in 0 .. n}
MCTraces == TracesUpTo(MaxLength)

Reorderings(trace) ==
  {[i \in DOMAIN trace |-> trace[p[i]]] : p \in Bijection(DOMAIN trace, DOMAIN trace)}

\* A trace with all its reorderings, its sort among them, and a short trace
\* with every trace of at most one record.
Seconds(trace) ==
  Reorderings(trace) \cup (IF Len(trace) < MaxLength THEN TracesUpTo(1) ELSE {})
=============================================================================
