CONSTANTS
  Texts <- MCTexts
SPECIFICATION FairSpec
INVARIANTS
  RoundTrip
PROPERTIES
  DecoderStops
CHECK_DEADLOCK FALSE
