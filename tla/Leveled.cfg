SPECIFICATION LeveledSpec
CONSTANTS
  big = big
  Absent = Absent
  Tomb = Tomb
  SizeBucket <- MCSizeBucket
  SizeBytes <- MCSizeBytes
  FileBytes <- MCSizeBytes
  RecordBytes <- MCRecordBytes
  L1Bytes = 1
  SizeRatio = 2
  TargetBytes = 1
  Keys <- TwoKeys
  Values <- BigOnly
  Big <- BigOnly
  MinMerge = 1
  Threshold = 1
  Clients = {c1}
  Readers = {}
  Compactors <- Compactor
  SyncModes = {TRUE}
  CrashAt <- OutsideDropWal
  LostOps = {"remove"}
  MaxWrites = 3
  MaxGens = 1
  MaxCrashes = 1
INVARIANTS
  ViewOK
  DurableOK
  LevelsDisjoint
  ReadOrder
