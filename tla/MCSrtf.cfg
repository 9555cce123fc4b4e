SPECIFICATION SrtfSpec
CONSTANTS
  TOTAL_PROCESS = 3
  Policy = "srtf"
  Workloads <- MCWorkloads
  Garbage <- MCGarbage
INVARIANTS
  SrtfTypeOK
  ThreadsInv
  ClockAccounting
PROPERTIES
  SwapTakesLeast
  Implements
  ProgramExits
CHECK_DEADLOCK FALSE
