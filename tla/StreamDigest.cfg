CONSTANTS
  Capacity = 3
  MaxSize = 7
SPECIFICATION FairDigestSpec
INVARIANTS
  DigestIsWhole
PROPERTIES
  EndsUnlessBad
CHECK_DEADLOCK FALSE
