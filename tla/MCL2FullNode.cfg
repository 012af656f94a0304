\* Syncs and verifications in any order; ranges that wrap around.
SPECIFICATION Spec
CONSTANTS
  x1 = x1
  x2 = x2
  c1 = c1
  c2 = c2
  FullChains <- MCChains
  L2Logs <- MCLogs
  Batches <- MCBatches
  TeeCounts = {1, 2}
  MaxHeaders = 2
  CacheSize = 2
  Word = 4
INVARIANTS
  WithinArrays
  PositiveIsProved
PROPERTY
  ProvableIsAccepted
