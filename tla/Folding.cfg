\* A memory of two cells, one address beyond it, instructions 0, 1 and 2, up to
\* two steps of two records.
CONSTANTS
  MemoryLen = 2
  Field = {0, 1}
  Addresses = {0, 1, 2}
  Operations = {0, 1, 2}
  Hash <- Pair
  NumIters = 2
  MaxLength = 3
  Traces <- MCTraces
SPECIFICATION Spec
INVARIANTS
  TypeOK
  CommitmentsValid
  NovaExact
  SupernovaExact
CHECK_DEADLOCK FALSE
