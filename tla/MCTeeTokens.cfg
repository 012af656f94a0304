\* One TEE node, two tokens, stale key bytes, repeated ids and registrations.
SPECIFICATION SerialSpec
CONSTANTS
  a1 = a1
  a2 = a2
  t1 = t1
  t2 = t2
  Operations <- TokenOperations
  Submitted <- TokenOps
  TokenCalls = {t1}
  SortCalls <- NoSorting
  Bucket <- MCBucket
  Hash <- MCHash
  Tees = {n1}
  MaxDagNodes = 3
  MaxParents = 2
  MaxChildren = 2
  NearScan = 2
  NearFirst = 1
  AmountMod = 4
  MaxTxOps = 2
  MaxTokens = 2
  MaxSortInfo = 1
  MaxRegister = 2
  Tails = {0, 1}
  Mallocs = {"ok"}
  Batches <- SomeBatches
  SerialOps <- SomeOps
  MaxSerial = 1
INVARIANTS
  JudgedFunded
  NoDoubleApply
  SerialTransfersWhole
CHECK_DEADLOCK FALSE
