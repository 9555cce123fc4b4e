SPECIFICATION SjfSpec
CONSTANTS
  TOTAL_PROCESS = 3
  Policy = "sjf"
  Workloads <- MCWorkloads
  Garbage <- MCGarbage
INVARIANTS
  ThreadsInv
  NoOvertaking
PROPERTIES
  DispatchesLeastPriority
  Implements
  ProgramExits
CHECK_DEADLOCK FALSE
