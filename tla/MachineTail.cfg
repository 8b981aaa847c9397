\* The tail layout, a release build, Load and Save anywhere, the Swap of the
\* example: the trace is consistent whatever the program does.
CONSTANTS
  WordSize = 2
  MaxAddress = 17
  StackDepth = 2
  NoRegister = 2
  NoBuffer = 1
  HeadLayout = FALSE
  Byte = {0, 1, 2}
  Registers = {0, 1}
  Values <- MCValues
  Operands <- AllOperands
  Plus <- Wrapping
  Overflow = Overflow
  OverflowChecks = FALSE
  Example = TRUE
  MaxTime = 5
SPECIFICATION Spec
INVARIANTS
  TypeOK
  ReadsLastWrite
CHECK_DEADLOCK FALSE
