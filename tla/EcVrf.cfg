SPECIFICATION Spec
CONSTANTS
  FieldSize = 43
  GroupOrder = 31
  HashSize = 62
  Shift = 2
  LimbSize = 8
  Keccak <- MCKeccak
  AddressOf <- MCAddressOf
  Generator <- MCGenerator
  SecretKeys = {1, 2, 7, 19, 30}
  Alphas = {0, 1, 3, 5, 6, 8, 10, 12, 14, 17, 21, 24, 27, 29, 30}
  Draws = {0, 1, 2, 3, 5, 8, 11, 15, 20, 26, 30, 31, 33, 47, 61}
  MaxRetries = 2
INVARIANTS
  ProofsVerify
  NonceHidesKey
  DoubleCheck
CHECK_DEADLOCK FALSE
