SPECIFICATION Spec
CONSTANTS
  t1 = t1
  t2 = t2
  Threads <- MCThreads
  Procs <- MCProcs
  Addr <- MCAddr
  PriorityOf <- MCPriorityOf
INVARIANTS
  RemovesAsked
