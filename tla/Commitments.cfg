SPECIFICATION Spec
CONSTANTS
  Prime = 7
  Width = 3
  FullRounds = 4
  PartialRounds = 2
  RoundConstants <- MCRoundConstants
  Mds <- MCMds
  MdsInv <- MCMdsInv
  Capacity <- MCCapacity
  Messages <- MCMessages
  Outputs = {0, 1, 2, 3, 4, 5, 6}
  Leaves = {1, 4}
  Elements = {2, 5}
  Indices = {0, 1, 2}
  MaxLevels = 2
  Modulus = 3
  TraceTimes = {0, 1}
  Depths = {0, 1}
  TraceWords = {0, 1, 3}
  Arity = 2
  Scalars = {0, 1}
  Positions <- MCPositions
  LowByte <- MCLowByte
  MaxDepth = 2
INVARIANTS
  RowsAreForced
  ProofTellsTheHash
  PathIsProved
  RecordIsBound
  PathIsOpen
  HonestPathIsAccepted
CHECK_DEADLOCK FALSE
