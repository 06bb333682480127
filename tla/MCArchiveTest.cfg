CONSTANTS
  root = root
  d1 = d1
  d2 = d2
  f1 = f1
  f2 = f2
  Root = root
  Dirs <- MCDirs
  Files <- MCFiles
  Parent <- MCParent
  Meta <- MCMeta
  MetaWidth <- MCMetaWidth
  NoArchive = NoArchive
  Others = {}
  MaxSize = 1
  MaxCalls = 1
  MaxDropped = 1
  MaxResizes = 0
  BufCap = 1
  MaxAttempts = 1
  MaxFaults = 0
SPECIFICATION TestSpec
INVARIANTS
  TestCheck
CHECK_DEADLOCK FALSE
