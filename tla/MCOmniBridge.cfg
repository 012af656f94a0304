\* Syncs of two chains, to published roots and to others, in any order beside all the calls
\* of their users, who may execute once per epoch.
SPECIFICATION BridgeSpec
CONSTANTS
  r1 = r1
  r2 = r2
  x1 = x1
  Addresses = {a}
  TssKeys = {k1}
  InitThreshold = 1
  MaxNodes = 1
  MaxEpoch = 2
  MaxThreshold = 1
  Roots <- MCRoots
  NoRoot = NoRoot
  L1Tokens = {}
  Chains = {c1, c2}
  L2Epochs <- MCEpochs
  L2Roots <- MCRoots
  L2NoRoot = NoRoot
  Txs = {x1}
  Claims = {b1}
  Proves <- MCProves
  L2Tokens = {t1}
  MaxExecuted = 1
INVARIANTS
  VerdictProved
  PendingIsListed
  ChainsFollowL1
  ConfirmedByL1
PROPERTIES
  ConfirmedIsFinal
  ImplementsRootFollower
SYMMETRY AnyChain
CONSTRAINT NoActivation
