\* Main opens and closes both services beside two threads that use the mediator.
SPECIFICATION Spec
CONSTANTS
  Threads = {m, w1, w2}
  Main = m
  VmIds = {v1, v2, v3}
  MaxVms = 2
  MaxInits = 2
  MaxCalls = 5
INVARIANTS
  OneEntryPerVm
  CarefulIsDefined
  NoReadAfterClose
PROPERTIES
  CallsReturn
CHECK_DEADLOCK FALSE
