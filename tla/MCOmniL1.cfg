\* Two nodes that may share an address, two roots, three epoch ids.
SPECIFICATION L1Spec
CONSTANTS
  Addresses = {x, y}
  TssKeys = {k1}
  InitThreshold = 2
  MaxNodes = 2
  MaxEpoch = 2
  MaxThreshold = 2
  Roots = {r1, r2}
  NoRoot = NoRoot
  L1Tokens = {t1}
INVARIANTS
  ActivationsAgree
  LatestIsNewest
  PublishedUnderTSSKey
PROPERTIES
  ConfirmedByThreshold
  PublishedRootsFinal
