\* The DAG under every submission order, ties, id collisions, full arrays
\* and lost index entries.
SPECIFICATION Spec
CONSTANTS
  a1 = a1
  a2 = a2
  t1 = t1
  Operations <- MCOperations
  Submitted <- MCSubmitted
  Bucket <- MCBucket
  MaxDagNodes = 4
  MaxParents = 2
  MaxChildren = 2
  NearScan = 2
  NearFirst = 2
  AmountMod = 4
  MaxTxOps = 3
  Orders = {1, 2}
  Tails = {0}
  IndexAlloc = {"ok", "fails"}
INVARIANTS
  TypeOK
  DagEdgesSorted
  DagEdgesMutual
  DagLinked
  DagWithinCapacity
  OnlyLateSkipped
  AddAsLooped
CHECK_DEADLOCK FALSE
