---------------------------- MODULE GCSync_proofs ----------------------------
(***************************************************************************)
(* What GCSync promises for any number of threads, any nesting of guards   *)
(* and any setting of the console variables.                               *)
(***************************************************************************)
EXTENDS GCSync, FiniteSetTheorems, TLAPS

\* The game thread is inside the critical section.
GameInCritical ==
  gpc \in {"test", "reset", "increment", "clear", "tryTest", "tryReset", "tryIncrement"}

\* The game thread has raised GCCounter and not yet lowered it.
GCCounted == gpc \in {"clear", "begin", "marking", "section", "trigger", "decrement"}

\* The game thread has seen AsyncCounter at zero under the critical section,
\* and no guard can have been counted since.
AsyncShutOut == GCCounted \/ gpc \in {"reset", "increment", "tryReset", "tryIncrement"}

\* Critical is held by one thread, and by one that is inside its section.
CriticalInv ==
  /\ \A o1, o2 \in critical : o1 = o2
  /\ \A t \in AsyncThreads : t \in critical <=> pc[t] \in {"test", "count"}
  /\ GameThread \in critical <=> GameInCritical

GCCounterInv == gcCounter = IF GCCounted THEN 1 ELSE 0

AsyncInv ==
  /\ AsyncShutOut => asyncCounter = 0
  /\ \A t \in AsyncThreads : pc[t] = "count" => gcCounter = 0

\* A call of GCLock returns with the lock held, a call of GCUnlock without it.
ReturnInv ==
  /\ gpc \in {"setWaiting", "sleep", "acquire", "test", "reset", "increment", "clear"}
       => ret \in {"begin", "marking", "section"}
  /\ gpc \in {"trigger", "decrement"} => ret \in {"run", "flushing"}

DepthInv ==
  \A t \in AsyncThreads :
    /\ pc[t] \in {"outside", "suspended"} => depth[t] = 0
    /\ pc[t] = "locked" => depth[t] > 0
    /\ pc[t] \in {"leaving", "suspending"} => depth[t] = 1
    /\ pc[t] \in {"check", "wait", "acquire", "test", "count"} => depth[t] < MaxNesting

EventInv == NoStrandedWaiter /\ (gpc = "decrement" => gcUnlockedEvent)

Inv ==
  /\ TypeOK
  /\ CriticalInv
  /\ GCCounterInv
  /\ AsyncCounterCountsGuards
  /\ AsyncInv
  /\ ReturnInv
  /\ DepthInv
  /\ NestedGuardNeverWaits
  /\ EventInv

-----------------------------------------------------------------------------
(* The number of live guards.                                              *)

LEMMA HeldGuardsFinite == IsFiniteSet(HeldGuards)
<1>1. IsFiniteSet(1 .. MaxNesting)
  BY FS_Interval, GCSyncAssumption
<1>2. IsFiniteSet(AsyncThreads \X (1 .. MaxNesting))
  BY <1>1, FS_Product, GCSyncAssumption
<1> QED
  BY <1>2, FS_Subset DEF HeldGuards

\* AsyncCounter is zero exactly when no thread has a guard.
LEMMA ZeroMeansNoGuard ==
  ASSUME TypeOK, AsyncCounterCountsGuards
  PROVE  asyncCounter = 0 <=> \A t \in AsyncThreads : depth[t] = 0
<1>1. asyncCounter = 0 <=> HeldGuards = {}
  BY HeldGuardsFinite, FS_EmptySet DEF AsyncCounterCountsGuards
<1>2. ASSUME NEW t \in AsyncThreads, depth[t] # 0
      PROVE  <<t, 1>> \in HeldGuards
  BY <1>2, GCSyncAssumption DEF HeldGuards, TypeOK
<1>3. ASSUME \A t \in AsyncThreads : depth[t] = 0
      PROVE  HeldGuards = {}
  BY <1>3, GCSyncAssumption DEF HeldGuards
<1> QED
  BY <1>1, <1>2, <1>3

\* Opening a guard adds one to the number of guards.
LEMMA GuardOpened ==
  ASSUME TypeOK, NEW t \in AsyncThreads, depth[t] < MaxNesting,
         depth' = [depth EXCEPT ![t] = @ + 1]
  PROVE  Cardinality(HeldGuards') = Cardinality(HeldGuards) + 1
<1> DEFINE g == <<t, depth[t] + 1>>
<1>1. g \notin HeldGuards
  BY DEF HeldGuards, TypeOK
<1>2. HeldGuards' = HeldGuards \cup {g}
  BY GCSyncAssumption DEF HeldGuards, TypeOK
<1> QED
  BY <1>1, <1>2, HeldGuardsFinite, FS_AddElement

\* Closing one takes one away.
LEMMA GuardClosed ==
  ASSUME TypeOK, NEW t \in AsyncThreads, depth[t] > 0,
         depth' = [depth EXCEPT ![t] = @ - 1]
  PROVE  Cardinality(HeldGuards') = Cardinality(HeldGuards) - 1
<1> DEFINE g == <<t, depth[t]>>
<1>1. g \in HeldGuards
  BY DEF HeldGuards, TypeOK
<1>2. HeldGuards' = HeldGuards \ {g}
  BY GCSyncAssumption DEF HeldGuards, TypeOK
<1> QED
  BY <1>1, <1>2, HeldGuardsFinite, FS_RemoveElement

LEMMA GuardsUnchanged ==
  ASSUME UNCHANGED depth
  PROVE  HeldGuards' = HeldGuards
BY DEF HeldGuards

-----------------------------------------------------------------------------
(* Inv is inductive.                                                       *)

LEMMA InitInv == Init => Inv
<1> SUFFICES ASSUME Init PROVE Inv
  OBVIOUS
<1>1. HeldGuards = {}
  BY GCSyncAssumption DEF Init, HeldGuards
<1>2. AsyncCounterCountsGuards
  BY <1>1, FS_EmptySet DEF Init, AsyncCounterCountsGuards
<1>3. TypeOK
  <2>1. pc \in [AsyncThreads -> AsyncPC]
    BY DEF Init, AsyncPC
  <2>2. depth \in [AsyncThreads -> 0 .. MaxNesting]
    BY GCSyncAssumption DEF Init
  <2>3. gpc \in GamePC /\ ret \in ReturnPC
    BY DEF Init, GamePC, ReturnPC
  <2>4. gcUnlockedEvent \in BOOLEAN /\ critical \in SUBSET (AsyncThreads \cup {GameThread})
    BY DEF Init
  <2> QED
    BY <2>1, <2>2, <2>3, <2>4, GCSyncAssumption DEF Init, TypeOK
<1>4. CriticalInv /\ GCCounterInv
  BY DEF Init, CriticalInv, GameInCritical, GCCounterInv, GCCounted
<1>5. AsyncInv /\ ReturnInv
  BY DEF Init, AsyncInv, AsyncShutOut, GCCounted, ReturnInv
<1>6. DepthInv /\ NestedGuardNeverWaits /\ EventInv
  BY DEF Init, DepthInv, NestedGuardNeverWaits, EventInv, NoStrandedWaiter
<1> QED
  BY <1>2, <1>3, <1>4, <1>5, <1>6 DEF Inv

\* Steps of LockAsync that open no guard.
LEMMA LockAsyncInv ==
  ASSUME Inv, NEW t \in AsyncThreads,
         \/ EnterScopeGuard(t)
         \/ CheckGCRunning(t)
         \/ WaitForGCUnlocked(t)
         \/ AcquireCritical(t)
         \/ TestGCRunning(t)
  PROVE  Inv'
<1> USE GCSyncAssumption
<1>0. UNCHANGED <<depth, asyncCounter, gcCounter, gcUnlockedEvent, gpc, ret, attempts, queued>>
  BY DEF EnterScopeGuard, CheckGCRunning, WaitForGCUnlocked, AcquireCritical,
         TestGCRunning, syncVars, gameVars
<1>1. TypeOK'
  BY <1>0 DEF Inv, TypeOK, AsyncPC, AsyncGoto, EnterScopeGuard, CheckGCRunning,
         WaitForGCUnlocked, AcquireCritical, TestGCRunning, syncVars
<1>2. CriticalInv'
  BY <1>0 DEF Inv, TypeOK, CriticalInv, GameInCritical, AsyncGoto, EnterScopeGuard,
         CheckGCRunning, WaitForGCUnlocked, AcquireCritical, TestGCRunning, syncVars
<1>3. GCCounterInv' /\ ReturnInv'
  BY <1>0 DEF Inv, GCCounterInv, GCCounted, ReturnInv
<1>4. AsyncCounterCountsGuards'
  BY <1>0, GuardsUnchanged DEF Inv, AsyncCounterCountsGuards
<1>5. AsyncInv'
  BY <1>0 DEF Inv, TypeOK, AsyncInv, AsyncShutOut, GCCounted, AsyncGoto, EnterScopeGuard,
         CheckGCRunning, WaitForGCUnlocked, AcquireCritical, TestGCRunning
<1>6. DepthInv'
  BY <1>0 DEF Inv, TypeOK, DepthInv, AsyncGoto, EnterScopeGuard, CheckGCRunning,
         WaitForGCUnlocked, AcquireCritical, TestGCRunning
<1>7. NestedGuardNeverWaits'
  <2>1. depth[t] > 0 => gcCounter = 0
    BY ZeroMeansNoGuard DEF Inv, TypeOK, GCCounterInv, AsyncInv, AsyncShutOut
  <2> QED
    BY <1>0, <2>1 DEF Inv, TypeOK, NestedGuardNeverWaits, AsyncGoto, EnterScopeGuard,
         CheckGCRunning, WaitForGCUnlocked, AcquireCritical, TestGCRunning
<1>8. EventInv'
  BY <1>0 DEF Inv, TypeOK, EventInv, NoStrandedWaiter, AsyncGoto, EnterScopeGuard,
         CheckGCRunning, WaitForGCUnlocked, AcquireCritical, TestGCRunning
<1> QED
  BY <1>1, <1>2, <1>3, <1>4, <1>5, <1>6, <1>7, <1>8 DEF Inv

LEMMA CountAsyncLockInv ==
  ASSUME Inv, NEW t \in AsyncThreads, CountAsyncLock(t)
  PROVE  Inv'
<1> USE GCSyncAssumption DEF CountAsyncLock, AsyncGoto, gameVars
<1>1. TypeOK'
  BY DEF Inv, TypeOK, AsyncPC, DepthInv
<1>2. CriticalInv'
  BY DEF Inv, TypeOK, CriticalInv, GameInCritical
<1>3. GCCounterInv' /\ ReturnInv'
  BY DEF Inv, GCCounterInv, GCCounted, ReturnInv
<1>4. AsyncCounterCountsGuards'
  BY GuardOpened DEF Inv, TypeOK, DepthInv, AsyncCounterCountsGuards
<1>5. AsyncInv'
  <2>1. ~AsyncShutOut
    BY DEF Inv, TypeOK, AsyncShutOut, GCCounted, AsyncInv, GCCounterInv, CriticalInv,
           GameInCritical
  <2> QED
    BY <2>1 DEF Inv, TypeOK, AsyncInv, AsyncShutOut, GCCounted
<1>6. DepthInv' /\ NestedGuardNeverWaits' /\ EventInv'
  BY DEF Inv, TypeOK, DepthInv, NestedGuardNeverWaits, EventInv, NoStrandedWaiter
<1> QED
  BY <1>1, <1>2, <1>3, <1>4, <1>5, <1>6 DEF Inv

LEMMA UnlockAsyncInv ==
  ASSUME Inv, NEW t \in AsyncThreads, UnlockAsync(t)
  PROVE  Inv'
<1> USE GCSyncAssumption DEF UnlockAsync, AsyncGoto, gameVars
<1>0. depth[t] > 0
  BY DEF Inv, TypeOK, DepthInv
<1>1. TypeOK'
  BY <1>0 DEF Inv, TypeOK, AsyncPC
<1>2. CriticalInv'
  BY DEF Inv, TypeOK, CriticalInv, GameInCritical
<1>3. GCCounterInv' /\ ReturnInv'
  BY DEF Inv, GCCounterInv, GCCounted, ReturnInv
<1>4. AsyncCounterCountsGuards'
  BY <1>0, GuardClosed DEF Inv, TypeOK, AsyncCounterCountsGuards
<1>5. AsyncInv'
  <2>1. ~AsyncShutOut
    BY <1>0, ZeroMeansNoGuard DEF Inv, AsyncInv
  <2> QED
    BY <2>1 DEF Inv, TypeOK, AsyncInv, AsyncShutOut, GCCounted
<1>6. DepthInv'
  BY <1>0 DEF Inv, TypeOK, DepthInv
<1>7. NestedGuardNeverWaits' /\ EventInv'
  BY DEF Inv, TypeOK, NestedGuardNeverWaits, EventInv, NoStrandedWaiter
<1> QED
  BY <1>1, <1>2, <1>3, <1>4, <1>5, <1>6, <1>7 DEF Inv

\* The loading loop touches neither the counters nor the critical section.
LEMMA LoaderInv ==
  ASSUME Inv, NEW t \in AsyncThreads,
         LoadPackage(t) \/ PollGCWaiting(t) \/ ResumeLoader(t)
  PROVE  Inv'
<1> USE GCSyncAssumption
    DEF LoadPackage, PollGCWaiting, ResumeLoader, AsyncGoto, syncVars, asyncVars, gameVars
<1>1. TypeOK'
  BY DEF Inv, TypeOK, AsyncPC
<1>2. CriticalInv'
  BY DEF Inv, TypeOK, CriticalInv, GameInCritical
<1>3. GCCounterInv' /\ ReturnInv'
  BY DEF Inv, GCCounterInv, GCCounted, ReturnInv
<1>4. AsyncCounterCountsGuards'
  BY GuardsUnchanged DEF Inv, AsyncCounterCountsGuards
<1>5. AsyncInv'
  BY DEF Inv, TypeOK, AsyncInv, AsyncShutOut, GCCounted
<1>6. DepthInv' /\ NestedGuardNeverWaits' /\ EventInv'
  BY DEF Inv, TypeOK, DepthInv, NestedGuardNeverWaits, EventInv, NoStrandedWaiter
<1> QED
  BY <1>1, <1>2, <1>3, <1>4, <1>5, <1>6 DEF Inv

\* The game thread inside GCLock, TryGCLock and GCUnlock.
LEMMA GameLockInv ==
  ASSUME Inv,
         \/ SetGCIsWaiting
         \/ SleepUntilNoAsyncLock
         \/ GameAcquireCritical
         \/ TestNoAsyncLock
         \/ TryTestNoAsyncLock
         \/ ResetEvent
         \/ IncrementGCCounter
         \/ ResetGCIsWaiting
         \/ TriggerEvent
         \/ DecrementGCCounter
  PROVE  Inv'
<1> USE GCSyncAssumption
    DEF SetGCIsWaiting, SleepUntilNoAsyncLock, GameAcquireCritical, TestNoAsyncLock,
        TryTestNoAsyncLock, ResetEvent, IncrementGCCounter, ResetGCIsWaiting,
        TriggerEvent, DecrementGCCounter, GameGoto, CallGCLock, syncVars, asyncVars
<1>0. UNCHANGED <<pc, depth, asyncCounter, queued>>
  OBVIOUS
<1>1. TypeOK'
  <2>1. /\ asyncCounter' \in Int
        /\ gcCounter' \in Int
        /\ gcWantsToRun' \in Nat
        /\ attempts' \in Nat
    BY DEF Inv, TypeOK
  <2>2. critical' \in SUBSET (AsyncThreads \cup {GameThread})
    BY DEF Inv, TypeOK
  <2>3. gcUnlockedEvent' \in BOOLEAN
    BY DEF Inv, TypeOK
  <2>4. gpc' \in GamePC /\ ret' \in ReturnPC
    BY DEF Inv, TypeOK, GamePC, ReturnPC
  <2> QED
    BY <1>0, <2>1, <2>2, <2>3, <2>4 DEF Inv, TypeOK
<1>2. CriticalInv'
  BY DEF Inv, TypeOK, CriticalInv, GameInCritical, ReturnPC, ReturnInv
<1>3. GCCounterInv'
  BY DEF Inv, TypeOK, GCCounterInv, GCCounted, ReturnInv
<1>4. ReturnInv'
  BY DEF Inv, TypeOK, ReturnInv
<1>5. AsyncCounterCountsGuards'
  BY <1>0, GuardsUnchanged DEF Inv, AsyncCounterCountsGuards
<1>6. AsyncInv'
  BY DEF Inv, TypeOK, AsyncInv, AsyncShutOut, GCCounted, ReturnInv, CriticalInv,
         GameInCritical, GCCounterInv
<1>7. DepthInv' /\ NestedGuardNeverWaits'
  BY <1>0 DEF Inv, DepthInv, NestedGuardNeverWaits
<1>8. EventInv'
  BY DEF Inv, TypeOK, EventInv, NoStrandedWaiter, ReturnInv, GCCounterInv, GCCounted
<1> QED
  BY <1>1, <1>2, <1>3, <1>4, <1>5, <1>6, <1>7, <1>8 DEF Inv

\* The callers of the lock on the game thread.
LEMMA GameCallInv ==
  ASSUME Inv,
         \/ CollectGarbage
         \/ TryCollectGarbage
         \/ BeginCollectGarbageInternal
         \/ SkipCollectGarbageInternal
         \/ FlushAsyncLoading
         \/ PurgeGarbage
         \/ ReleaseGCLock
         \/ LoadPackageAsync
  PROVE  Inv'
<1> USE GCSyncAssumption
    DEF CollectGarbage, TryCollectGarbage, BeginCollectGarbageInternal,
        SkipCollectGarbageInternal, FlushAsyncLoading, PurgeGarbage, ReleaseGCLock,
        LoadPackageAsync, GameGoto, CallGCLock, CallGCUnlock, syncVars, asyncVars, gameVars
<1>0. UNCHANGED <<pc, depth, asyncCounter, gcCounter, critical, gcUnlockedEvent>>
  OBVIOUS
<1>1. TypeOK'
  BY DEF Inv, TypeOK, GamePC, ReturnPC
<1>2. CriticalInv'
  BY DEF Inv, TypeOK, CriticalInv, GameInCritical
<1>3. GCCounterInv'
  BY DEF Inv, TypeOK, GCCounterInv, GCCounted
<1>4. ReturnInv'
  BY DEF Inv, TypeOK, ReturnInv
<1>5. AsyncCounterCountsGuards'
  BY <1>0, GuardsUnchanged DEF Inv, AsyncCounterCountsGuards
<1>6. AsyncInv'
  BY DEF Inv, TypeOK, AsyncInv, AsyncShutOut, GCCounted
<1>7. DepthInv' /\ NestedGuardNeverWaits'
  BY <1>0 DEF Inv, DepthInv, NestedGuardNeverWaits
<1>8. EventInv'
  BY DEF Inv, TypeOK, EventInv, NoStrandedWaiter
<1> QED
  BY <1>1, <1>2, <1>3, <1>4, <1>5, <1>6, <1>7, <1>8 DEF Inv

LEMMA NextInv == Inv /\ [Next]_vars => Inv'
<1> SUFFICES ASSUME Inv, [Next]_vars PROVE Inv'
  OBVIOUS
<1>1. ASSUME NEW t \in AsyncThreads, AsyncNext(t) PROVE Inv'
  BY <1>1, LockAsyncInv, CountAsyncLockInv, UnlockAsyncInv, LoaderInv
  DEF AsyncNext, LockAsyncStep
<1>2. CASE GameNext
  BY <1>2, GameLockInv, GameCallInv DEF GameNext, GCStep
<1>3. CASE UNCHANGED vars
  BY <1>3, GuardsUnchanged
  DEF vars, Inv, TypeOK, CriticalInv, GCCounterInv, GCCounted, GameInCritical,
      AsyncInv, AsyncShutOut, ReturnInv, DepthInv, NestedGuardNeverWaits, EventInv,
      NoStrandedWaiter, AsyncCounterCountsGuards
<1> QED
  BY <1>1, <1>2, <1>3 DEF Next

\* Inv holds in every reachable state.
THEOREM Invariance == Spec => []Inv
BY InitInv, NextInv, PTL DEF Spec

-----------------------------------------------------------------------------
(* What it gives.                                                          *)

\* Every variable keeps its type.
THEOREM TypeCorrect == Spec => []TypeOK
<1>1. Inv => TypeOK
  BY DEF Inv
<1> QED
  BY <1>1, Invariance, PTL

\* While the game thread collects or purges, no other thread has an
\* FGCScopeGuard: the comments at GarbageCollection.cpp 2056 and 2068.
THEOREM MutualExclusion == Spec => []GCExcludesAsync
<1>1. Inv => GCExcludesAsync
  BY ZeroMeansNoGuard DEF Inv, GCExcludesAsync, GCHolds, AsyncInv, AsyncShutOut, GCCounted
<1> QED
  BY <1>1, Invariance, PTL

\* AsyncCounter is the number of live guards (LockAsync, UnlockAsync).
THEOREM CounterExact == Spec => []AsyncCounterCountsGuards
<1>1. Inv => AsyncCounterCountsGuards
  BY DEF Inv
<1> QED
  BY <1>1, Invariance, PTL

\* check(GCCounterValue == 1), GCScopeLock.h 100 and 129, never fires.
THEOREM NoRecursiveLock == Spec => []GCLockNotRecursive
<1>1. Inv => GCLockNotRecursive
  BY DEF Inv, GCLockNotRecursive, GCCounterInv, GCCounted
<1> QED
  BY <1>1, Invariance, PTL

\* A nested FGCScopeGuard never blocks its thread on GC (LockAsync).
THEOREM NestingSafe == Spec => []NestedGuardNeverWaits
<1>1. Inv => NestedGuardNeverWaits
  BY DEF Inv
<1> QED
  BY <1>1, Invariance, PTL

\* No thread is left asleep on the event of a GC that is over (GCUnlock).
THEOREM NoLostWakeup == Spec => []NoStrandedWaiter
<1>1. Inv => NoStrandedWaiter
  BY DEF Inv, EventInv
<1> QED
  BY <1>1, Invariance, PTL

\* The accounts of the lock are in order, all of them together.
THEOREM LockInOrder == Spec => []LockInv
BY TypeCorrect, CounterExact, NoRecursiveLock, PTL DEF LockInv
=============================================================================
