SPECIFICATION Spec
CONSTANTS
  small = small
  big = big
  Absent = Absent
  Tomb = Tomb
  SizeBucket <- MCSizeBucket
  SizeBytes <- MCSizeBytes
  Keys <- TwoKeys
  Values <- BigOnly
  Big <- BigOnly
  MinMerge = 2
  Threshold = 2
  Clients = {c1}
  Readers = {}
  Compactors <- CompactAllOnly
  SyncModes = {TRUE, FALSE}
  CrashAt <- OutsideDropWal
  LostOps = {"remove"}
  MaxWrites = 3
  MaxGens = 1
  MaxCrashes = 2
INVARIANTS
  TypeOK
  DurableOK
  ManifestOK
  ViewOK
PROPERTIES
  TablesImmutable
