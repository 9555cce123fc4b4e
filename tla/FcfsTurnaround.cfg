SPECIFICATION FairSpec
CONSTANTS
  TOTAL_PROCESS = 3
  Policy = "fcfs"
  Workloads <- MCWorkloads
  Garbage <- MCGarbage
PROPERTIES
  TurnaroundIsElapsed
CHECK_DEADLOCK FALSE
