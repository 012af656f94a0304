\* Two chains, two transactions each, between two accounts; stops and restarts.
SPECIFICATION HostSpec
CONSTANTS
  a1 = a1
  a2 = a2
  t1 = t1
  Operations <- MCOperations
  Submitted <- MCSubmitted
  TokenCalls = {t1}
  SortCalls = {}
  Bucket <- MCBucket
  Hash <- MCHash
  Tees = {n1}
  Node = n1
  ChainIds = {c1, c2}
  MaxChains = 2
  MaxTx = 2
  Accounts = {a1, a2}
  TokenIds = {t1}
  MaxDagNodes = 3
  MaxParents = 3
  MaxChildren = 3
  NearScan = 2
  NearFirst = 1
  AmountMod = 4
  MaxTxOps = 4
  MaxTokens = 1
  MaxSortInfo = 0
  MaxRegister = 1
  Tails = {0}
  Mallocs = {"ok", "refused"}
INVARIANTS
  FedInOrder
  OutputComplete
  WholeWhenStopped
PROPERTIES
  StopReturns
CHECK_DEADLOCK FALSE
