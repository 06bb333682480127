CONSTANTS
  root = root
  d1 = d1
  d2 = d2
  f1 = f1
  f2 = f2
  Root = root
  Dirs <- MCDirs
  Files <- MCFiles
  Parent <- MCParent
  Meta <- MCMeta
  MetaWidth <- MCMetaWidth
  NoArchive = NoArchive
  Others = {}
  MaxSize = 2
  MaxCalls = 2
  MaxDropped = 1
  MaxResizes = 1
  BufCap = 1
  MaxAttempts = 2
  MaxFaults = 1
SPECIFICATION RoundTripSpec
INVARIANTS
  RebuildsTree
  TotalsAgree
  TotalIsSumOfEntries
CHECK_DEADLOCK FALSE
