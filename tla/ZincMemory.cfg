\* All traces of up to three records, the long ones in every order, free witnesses of four rows.
CONSTANTS
  LimbBase = 4
  AddrLimbs = 2
  DepthLimbs = 1
  ValueLimbs = 1
  MinVars = 2
  MaxVars = 3
  ShortLength = 3
  LongLength = 7
  Traces <- MCTraces
  FreeVars = 2
  FreeRows <- MCFreeRows
  Headers = {0, 3, 4}
SPECIFICATION Spec
INVARIANTS
  MatesAreSplit
  ProvedIsValid
  SameRecords
  ValidIsProved
PROPERTY Answers
CHECK_DEADLOCK FALSE
