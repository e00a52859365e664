SPECIFICATION Spec
CONSTANTS
  small = small
  big = big
  Absent = Absent
  Tomb = Tomb
  SizeBucket <- MCSizeBucket
  SizeBytes <- MCSizeBytes
  Keys <- TwoKeys
  Values <- OneValue
  Big = {}
  MinMerge = 2
  Threshold = 1
  Clients = {c1}
  Readers = {}
  Compactors <- BothCompactors
  SyncModes = {TRUE}
  CrashAt <- Never
  LostOps = {}
  MaxWrites = 3
  MaxGens = 0
  MaxCrashes = 0
INVARIANTS
  ViewOK
