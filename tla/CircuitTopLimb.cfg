\* Traces of two records with any reordering, some words with a top limb.
CONSTANTS
  LimbBase = 2
  WordLimbs = 2
  TimeLimbs = 2
  Words <- SomeWords
  Times <- SomeTimes
  Depths = {0}
  FieldOf <- Remainder
  Traces <- MCTraces
  Arrangements <- Seconds
  MaxLength = 2
SPECIFICATION Spec
INVARIANTS
  SoundForAllWords
CHECK_DEADLOCK FALSE
