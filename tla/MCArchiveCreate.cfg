CONSTANTS
  root = root
  d1 = d1
  d2 = d2
  f1 = f1
  f2 = f2
  f3 = f3
  Root = root
  Dirs <- MCDirs
  Files <- MCFiles
  Parent <- MCParent
  Meta <- MCMeta
  MetaWidth <- MCMetaWidth
  NoArchive = NoArchive
  Others <- MCOthers
  MaxSize = 1
  MaxCalls = 2
  MaxDropped = 1
  MaxResizes = 1
SPECIFICATION FairSpec
INVARIANTS
  TypeOK
  ParentsPrecede
  TrueArchivesAll
  MetaIsOwn
PROPERTIES
  ReplacesOnlyInRace
  CallsReturn
CHECK_DEADLOCK FALSE
