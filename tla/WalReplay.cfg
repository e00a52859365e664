SPECIFICATION WalSpec
CONSTANTS
  LenSize = 1
  WalKeys <- MCKeys
  WalValues <- MCValues
  MaxRecords = 3
  MaxWalCrashes = 2
INVARIANTS
  WalTypeOK
  CleanLogRecovered
