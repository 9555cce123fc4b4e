SPECIFICATION SrtfSpec
CONSTANTS
  TOTAL_PROCESS = 3
  Policy = "srtf"
  Workloads <- MCWorkloads
  Garbage <- MCGarbage
INVARIANTS
  PausedNotRestarted
CHECK_DEADLOCK FALSE
