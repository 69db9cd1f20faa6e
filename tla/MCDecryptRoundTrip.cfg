SPECIFICATION Spec
CONSTANTS
  ByteValues = 4
  Prime = 269
  Generator = 2
  MaxData = 40
  MaxLength = 2
  Keys = {7}
  Randoms = {5}
  FlipAt = {1}
  Inputs <- MCInputs
INVARIANT
  RoundTrip
CHECK_DEADLOCK FALSE
