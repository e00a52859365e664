SPECIFICATION FairSpec
CONSTANTS
  small = small
  big = big
  Absent = Absent
  Tomb = Tomb
  SizeBucket <- MCSizeBucket
  SizeBytes <- MCSizeBytes
  Keys <- OneKey
  Values <- BigOnly
  Big <- BigOnly
  MinMerge = 2
  Threshold = 1
  Clients = {c1, c2}
  Readers = {}
  Compactors <- Compactor
  SyncModes = {TRUE}
  CrashAt <- Anytime
  LostOps = {}
  MaxWrites = 3
  MaxGens = 1
  MaxCrashes = 1
INVARIANTS
  ViewOK
PROPERTIES
  WritersProceed
  EventuallyIdle
