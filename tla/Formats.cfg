SPECIFICATION FSpec
CONSTANTS
  small = small
  big = big
  Absent = Absent
  Tomb = Tomb
  SizeBucket <- MCSizeBucket
  MinMerge = 2
  Keys <- MCKeys
  Values <- MCValues
  Big <- MCBig
  KeyBytes <- MCKeyBytes
  ValueBytes <- MCValueBytes
  SizeMod = 256
  RecordBytes <- MCRecordBytes
  BlockSize = 24
  Hash1 <- MCHash1
  Hash2 <- MCHash2
  HashMod = 16
  NumBits <- MCNumBits
  NumHashes <- MCNumHashes
  MaxStores = 4
CHECK_DEADLOCK FALSE
INVARIANTS
  SizeOK
  TablesOK
  GetOK
  ScanOK
