SPECIFICATION RrSpec
CONSTANTS
  TOTAL_PROCESS = 3
  Policy = "rr"
  quantum = 2
  Workloads <- MCWorkloads
  Garbage <- MCGarbage
PROPERTIES
  ExpiryRequeues
CHECK_DEADLOCK FALSE
