SPECIFICATION Spec
CONSTANTS
  ByteValues = 4
  Prime = 269
  Generator = 2
  MaxData = 40
  MaxLength = 5
  Keys = {7, 268, 269}
  Randoms = {5, 268}
  FlipAt = {1, 5, 9}
  Inputs <- MCInputs
INVARIANTS
  TypeOK
  ReadsInside
  RecoversMessage
  ReadsAll
  TruncationRefused
CHECK_DEADLOCK FALSE
