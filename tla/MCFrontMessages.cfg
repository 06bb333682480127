CONSTANTS
  Small = 1
  UploadCut = 2
  Blob = 3
  Unlimited = 9
  Later <- MCLater
  Requests <- AllRequests
  Varied <- SomeFields
  Sizes = {1, 3, 4}
  Releases <- MCReleases
  Causes <- MCCauses
  MaxCalls = 2
  MaxLosses = 1
SPECIFICATION Spec
INVARIANTS
  TypeOK
  NoFalseSuccess
  ToldAsRaised
  AcceptedIsServable
  ReaderTakes
CHECK_DEADLOCK FALSE
