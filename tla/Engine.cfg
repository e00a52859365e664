SPECIFICATION Spec
CONSTANTS
  small = small
  big = big
  Absent = Absent
  Tomb = Tomb
  SizeBucket <- MCSizeBucket
  SizeBytes <- MCSizeBytes
  Keys <- TwoKeys
  Values <- BigOnly
  Big <- BigOnly
  MinMerge = 2
  Threshold = 1
  Clients = {c1}
  Readers = {r1}
  Compactors <- Compactor
  SyncModes = {TRUE}
  CrashAt <- Never
  LostOps = {}
  MaxWrites = 3
  MaxGens = 1
  MaxCrashes = 0
INVARIANTS
  ViewOK
  ReadOK
  HeldOK
  PointersOK
  OneAppender
  WaitForIdleOK
  NoLeak
