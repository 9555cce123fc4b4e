SPECIFICATION SrtfSpec
CONSTANTS
  TOTAL_PROCESS = 3
  Policy = "srtf"
  Workloads <- MCWorkloads
  Garbage <- MCGarbage
INVARIANTS
  NoTurnLoggedTwice
CHECK_DEADLOCK FALSE
