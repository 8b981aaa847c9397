\* Traces of three records with any reordering, some words with a top limb.
CONSTANTS
  LimbBase = 2
  WordLimbs = 2
  TimeLimbs = 2
  Words <- SomeWords
  Times <- SomeTimes
  Depths = {0}
  FieldOf <- Remainder
  Traces <- MCTraces
  Arrangements <- Seconds
  MaxLength = 3
SPECIFICATION Spec
INVARIANTS
  TypeOK
  Sound
  Complete
CHECK_DEADLOCK FALSE
