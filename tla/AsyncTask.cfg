\* Two threads, two owners, and jobs that start a task of their own.
CONSTANTS
  w1 = w1
  w2 = w2
  o1 = o1
  o2 = o2
  a1 = a1
  NoWork = NoWork
  NoThread = NoThread
  PoolThreads <- TwoThreads
  Tasks <- TwoTasks
  Callers <- TwoTasks
  AutoTasks <- OneAutoTask
  Work <- AllWork
  QuietShutdown = TRUE
SPECIFICATION FairSpec
INVARIANTS
  PoolInv
  IdleMeansUntouched
  NoIdleThreadWhileWorkWaits
PROPERTIES
  CompletionReturns
  ShutdownCompletes
