\* Three nodes, one peer each, two terms, two deliveries, one restart.
SPECIFICATION Spec
CONSTANTS
  Nodes = {n1, n2, n3}
  Nobody = Nobody
  MaxPending = 2
  MaxPeers = 1
  MaxTerm = 2
  MaxDeliveries = 2
  MaxLives = 2
INVARIANTS
  OneVotePerLife
  VotesWereAsked
PROPERTIES
  ForeignOnlyDelays
SYMMETRY AnyNode
