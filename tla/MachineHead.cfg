\* The head layout, a dev build, Load and Save within the memory section.
CONSTANTS
  WordSize = 2
  MaxAddress = 15
  StackDepth = 2
  NoRegister = 2
  NoBuffer = 1
  HeadLayout = TRUE
  Byte = {0, 1, 2}
  Registers = {0, 1}
  Values <- MCValues
  Operands <- MemoryOperands
  Plus <- Checked
  Overflow = Overflow
  OverflowChecks = TRUE
  Example = FALSE
  MaxTime = 6
SPECIFICATION Spec
PROPERTIES
  WritesInPlace
  StackAccesses
  SwapExchanges
  ImplementsFlat
CHECK_DEADLOCK FALSE
