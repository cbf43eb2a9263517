SPECIFICATION FairSpec
CONSTANTS
  MAX_PROCESSES = 3
  MaxPid = 4
  Priority = {0, 1, 4}
  BenchPolicy = {"FCFS", "RR", "PRIORITY", "MLQ"}
INVARIANTS
  ReadyQueueSound
  LiveAccounting
  IdleIsSafetyNet
  
PROPERTIES
  NoneLostButBySwap
  
  RoundRobinProgress
CHECK_DEADLOCK FALSE
