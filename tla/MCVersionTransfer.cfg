CONSTANTS
  ServerBuilds <- MCServerBuilds
  ClientBuilds <- MCClientBuilds
  MaxSessions = 1
SPECIFICATION FairSpec
INVARIANTS
  VersionTransferred
CHECK_DEADLOCK FALSE
