CONSTANTS
  ServerBuilds <- MCServerBuilds
  ClientBuilds <- MCClientBuilds
  MaxSessions = 2
SPECIFICATION FairSpec
INVARIANTS
  NeverShort
  AcceptedInStep
  AcceptedNotNewer
  SupportedServed
  NoFalseSuccess
PROPERTIES
  RequestsEnd
CHECK_DEADLOCK FALSE
