SPECIFICATION FairSpec
CONSTANTS
  TOTAL_PROCESS = 3
  Policy = "fcfs"
  Workloads <- MCWorkloads
  Garbage <- MCGarbage
INVARIANTS
  TypeOK
  SemaphoresCountQueues
  OneOwner
  BurstIndexInBounds
  CounterMatchesRetired
  ExitDrained
  ClockAccounting
  ReportComplete
  LogTimeline
  NoOvertaking
PROPERTIES
  Implements
  ProgramExits
CHECK_DEADLOCK FALSE
