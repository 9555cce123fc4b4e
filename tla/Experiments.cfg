SPECIFICATION Spec
CONSTANTS
  BUF_SIZE = 3
  ItemCount = 10
  NCPU = 3
  ProcessCount = 5
  Addr = {1, 2, 3, 4}
  Values = {2, 3}
INVARIANTS
  HoldsContent
PROPERTIES
  ImplementsChannel
  ExperimentsFinish
CHECK_DEADLOCK FALSE
