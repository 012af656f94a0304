\* Two TEE nodes receive the same operations in different orders and sync; other
\* tokens hold every slot, so balances (see MCTeeTokens.cfg) do not come into it.
SPECIFICATION Spec
CONSTANTS
  a1 = a1
  a2 = a2
  t1 = t1
  t2 = t2
  Operations <- ClusterOperations
  Submitted <- ClusterOps
  TokenCalls = {}
  SortCalls <- SwapOrders
  Bucket <- MCBucket
  Hash <- MCHash
  Tees = {n1, n2}
  MaxDagNodes = 2
  MaxParents = 3
  MaxChildren = 3
  NearScan = 1
  NearFirst = 1
  AmountMod = 4
  MaxTxOps = 3
  MaxTokens = 0
  MaxSortInfo = 2
  MaxRegister = 0
  Tails = {0}
  Mallocs = {"ok", "fails", "refused"}
INVARIANTS
  EdgesConverge
SYMMETRY AnyTee
CONSTRAINT OneLost
CHECK_DEADLOCK FALSE
