\* A loader and one other thread, nested guards, streaming flushed by GC.
CONSTANTS
  t1 = t1
  t2 = t2
  GameThread = GameThread
  AsyncThreads <- Threads
  Loaders <- OneLoader
  MaxNesting = 2
  MaxQueued = 1
  NumRetriesBeforeForcingGC = 1
  FlushStreamingOnGC = TRUE
SPECIFICATION FairSpec
INVARIANTS
  LockInv
  GCExcludesAsync
  NestedGuardNeverWaits
  NoStrandedWaiter
PROPERTIES
  GCLockGranted
  FlushCompletes
