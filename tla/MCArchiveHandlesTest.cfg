CONSTANTS
  root = root
  d1 = d1
  f1 = f1
  f2 = f2
  Root = root
  Dirs <- MCDirs
  Files <- MCFiles
  Parent <- MCParent
  NoArchive = NoArchive
  InitArchives <- MCInitArchives
  BufCap = 1
  MaxAttempts = 4
  MaxFaults = 0
  MaxHandles = 2
SPECIFICATION HandlesSpec
INVARIANTS
  TrueCounts
CHECK_DEADLOCK FALSE
