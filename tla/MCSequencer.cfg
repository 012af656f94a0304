\* Batches of a queue of three logs, over two token slots.
SPECIFICATION SequencerSpec
CONSTANTS
  t1 = t1
  t2 = t2
  t3 = t3
  a1 = a1
  a2 = a2
  Logs <- MCLogs
  LogTokens <- MCTokens
  MaxTokens = 2
  MaxLogs = 3
INVARIANTS
  EffectsOnce
PROPERTIES
  SignedLogProcessed
