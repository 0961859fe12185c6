\* Another thread adds work to the pool while it is destroyed.
CONSTANTS
  w1 = w1
  w2 = w2
  o1 = o1
  o2 = o2
  a1 = a1
  NoWork = NoWork
  NoThread = NoThread
  PoolThreads <- OneThread
  Tasks <- OneTask
  Callers <- OneTask
  AutoTasks <- OneAutoTask
  Work <- AllWork
  QuietShutdown = FALSE
SPECIFICATION FairSpec
PROPERTY ShutdownCompletes
\* Destroy may wait for ever for a thread that waits for its lock.
CHECK_DEADLOCK FALSE
