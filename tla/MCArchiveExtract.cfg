CONSTANTS
  root = root
  d1 = d1
  d2 = d2
  f1 = f1
  f2 = f2
  f3 = f3
  Root = root
  Dirs <- MCDirs
  Files <- MCFiles
  Parent <- MCParent
  NoArchive = NoArchive
  InitArchives <- MCInitArchives
  BufCap = 2
  MaxAttempts = 3
  MaxFaults = 2
SPECIFICATION FairSpec
INVARIANTS
  TypeOK
  TrueIsComplete
  FalseHasCause
  NoResume
  DestinationIsPart
PROPERTIES
  CallsEnd
  CopiesTree
CHECK_DEADLOCK FALSE
