SPECIFICATION RrSpec
CONSTANTS
  TOTAL_PROCESS = 3
  Policy = "rr"
  quantum = 2
  Workloads <- MCWorkloads
  Garbage <- MCGarbage
INVARIANTS
  RrTypeOK
  ThreadsInv
  BurstsCutAtQuantum
  RrLogTimeline
PROPERTIES
  Implements
  ProgramExits
CHECK_DEADLOCK FALSE
