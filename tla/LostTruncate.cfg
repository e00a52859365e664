SPECIFICATION Spec
CONSTANTS
  small = small
  big = big
  Absent = Absent
  Tomb = Tomb
  SizeBucket <- MCSizeBucket
  SizeBytes <- MCSizeBytes
  Keys <- TwoKeys
  Values <- OneValue
  Big = {}
  MinMerge = 2
  Threshold = 2
  Clients = {c1}
  Readers = {}
  Compactors <- Compactor
  SyncModes = {TRUE, FALSE}
  CrashAt <- OutsideDropWal
  LostOps = {"truncate"}
  MaxWrites = 3
  MaxGens = 0
  MaxCrashes = 1
INVARIANTS
  DurableOK
