------------------------- MODULE MCFoldingBackends -------------------------
(***************************************************************************)
(* Instances of FoldingBackends for TLC.  A hash is the pair of what is    *)
(* hashed.                                                                 *)
(***************************************************************************)
EXTENDS FoldingBackends

CONSTANT MaxLength    \* bound on the records of a trace

Pair(left, right) == <<left, right>>

Accesses == {r \in TraceRecord : r.address \in Cells /\ r.instruction \in {0, 1}}

\* Any records up to the bound, and reads and writes of the memory in two steps.
MCTraces ==
  UNION {[1 .. n -> TraceRecord] : n \in 1 .. MaxLength} \cup [1 .. 2 * NumIters -> Accesses]
=============================================================================
