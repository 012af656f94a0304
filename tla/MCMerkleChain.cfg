\* One chain, two head slots for up to three tips, two parent slots.
SPECIFICATION ChainSpec
CONSTANTS
  a1 = a1
  a2 = a2
  a3 = a3
  t1 = t1
  Operations <- MCOperations
  Submitted <- MCSubmitted
  Bucket <- MCBucket
  MaxDagNodes = 6
  MaxParents = 2
  MaxChildren = 2
  NearScan = 3
  NearFirst = 2
  AmountMod = 4
  MaxTxOps = 3
  Orders = {1, 2, 3, 4}
  Tails = {0}
  IndexAlloc = {"ok"}
INVARIANTS
  ParentsAppliedFirst
PROPERTIES
  EveryOpApplied
CHECK_DEADLOCK FALSE
