\* The log of a transaction of the current epoch, resolved by recycling an old one.
SPECIFICATION L2Spec
CONSTANTS
  r1 = r1
  r2 = r2
  x1 = x1
  x2 = x2
  Chains = {c1}
  L2Epochs = {0, 1, 2, 3}
  L2Roots <- MCRoots
  L2NoRoot = NoRoot
  Txs <- MCTxs
  Claims = {b1}
  Proves <- MCProves
  L2Tokens = {t1}
  MaxExecuted = 3
INVARIANT CurrentEpochPending
CHECK_DEADLOCK FALSE
