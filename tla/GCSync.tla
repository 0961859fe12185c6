------------------------------- MODULE GCSync -------------------------------
(***************************************************************************)
(* The lock that keeps garbage collection and UObject work on other        *)
(* threads apart: FGCCSyncObject (CoreUObject GCScopeLock.h), taken by the *)
(* game thread around CollectGarbage, TryCollectGarbage and the            *)
(* incremental purge (GarbageCollection.cpp), and by every other thread    *)
(* through FGCScopeGuard.  The loop of FAsyncLoadingThread2::Run           *)
(* (AsyncLoading2.cpp) is the one client that gives way to a waiting GC.   *)
(*                                                                         *)
(* One action is one access to shared memory, so that every interleaving   *)
(* of the interlocked counters, of the event and of the critical section   *)
(* is explored.                                                            *)
(***************************************************************************)
EXTENDS Integers, FiniteSets

CONSTANTS
  AsyncThreads,               \* threads other than the game thread
  Loaders,                    \* those that run the asynchronous loading loop
  MaxNesting,                 \* bound: nested FGCScopeGuards of one thread
  MaxQueued,                  \* bound: packages waiting to be loaded
  NumRetriesBeforeForcingGC,  \* gc.NumRetriesBeforeForcingGC, 0 never to force
  FlushStreamingOnGC,         \* gc.FlushStreamingOnGC
  GameThread                  \* identifies the game thread as an owner

ASSUME GCSyncAssumption ==
  /\ IsFiniteSet(AsyncThreads)
  /\ GameThread \notin AsyncThreads
  /\ Loaders \subseteq AsyncThreads
  /\ MaxNesting \in Nat \ {0}
  /\ MaxQueued \in Nat
  /\ NumRetriesBeforeForcingGC \in Nat
  /\ FlushStreamingOnGC \in BOOLEAN

VARIABLES
  asyncCounter,      \* AsyncCounter
  gcCounter,         \* GCCounter
  gcWantsToRun,      \* GCWantsToRunCounter
  critical,          \* {} or the singleton holding the owner of Critical
  gcUnlockedEvent,   \* GCUnlockedEvent, a manual-reset event: TRUE is signalled
  pc,                \* where each asynchronous thread is
  depth,             \* FGCScopeGuards alive on each asynchronous thread
  gpc,               \* where the game thread is
  ret,               \* where its call of GCLock or GCUnlock returns to
  attempts,          \* GNumAttemptsSinceLastGC
  queued             \* packages the loader has still to load

syncVars  == <<asyncCounter, gcCounter, gcWantsToRun, critical, gcUnlockedEvent>>
asyncVars == <<pc, depth>>
gameVars  == <<gpc, ret, attempts>>
vars == <<asyncCounter, gcCounter, gcWantsToRun, critical, gcUnlockedEvent,
          pc, depth, gpc, ret, attempts, queued>>

AsyncPC == {"outside", "check", "wait", "acquire", "test", "count", "locked",
            "leaving", "suspending", "suspended"}
GamePC  == {"run",
            "setWaiting", "sleep", "acquire", "test", "reset", "increment", "clear",
            "tryAcquire", "tryTest", "tryReset", "tryIncrement",
            "trigger", "decrement",
            "begin", "flushing", "marking", "section"}
\* Where a call of GCLock or GCUnlock may return to.
ReturnPC == {"run", "begin", "flushing", "marking", "section"}

TypeOK ==
  /\ asyncCounter \in Int
  /\ gcCounter \in Int
  /\ gcWantsToRun \in Nat
  /\ critical \in SUBSET (AsyncThreads \cup {GameThread})
  /\ gcUnlockedEvent \in BOOLEAN
  /\ pc \in [AsyncThreads -> AsyncPC]
  /\ depth \in [AsyncThreads -> 0 .. MaxNesting]
  /\ gpc \in GamePC
  /\ ret \in ReturnPC
  /\ attempts \in Nat
  /\ queued \in 0 .. MaxQueued

Init ==
  /\ asyncCounter = 0
  /\ gcCounter = 0
  /\ gcWantsToRun = 0
  /\ critical = {}
  /\ gcUnlockedEvent = FALSE
  /\ pc = [t \in AsyncThreads |-> "outside"]
  /\ depth = [t \in AsyncThreads |-> 0]
  /\ gpc = "run"
  /\ ret = "run"
  /\ attempts = 0
  /\ queued = 0

-----------------------------------------------------------------------------
(* Asynchronous threads: FGCScopeGuard, LockAsync and UnlockAsync.         *)

AsyncGoto(t, label) == pc' = [pc EXCEPT ![t] = label]

\* An FGCScopeGuard is constructed, possibly inside another one.
EnterScopeGuard(t) ==
  /\ pc[t] \in {"outside", "locked"}
  /\ depth[t] < MaxNesting
  /\ AsyncGoto(t, "check")
  /\ UNCHANGED <<syncVars, depth, gameVars, queued>>

\* Mutant: a thread also waits for a GC that is only asking for the lock.
CheckGCRunning_WaitsForWaitingGC(t) ==
  /\ pc[t] = "check"
  /\ AsyncGoto(t, IF gcCounter > 0 \/ gcWantsToRun > 0 THEN "wait" ELSE "acquire")
  /\ UNCHANGED <<syncVars, depth, gameVars, queued>>

\* LockAsync looks at GCCounter before it tries the critical section.
CheckGCRunning(t) ==
  /\ pc[t] = "check"
  /\ AsyncGoto(t, IF gcCounter > 0 THEN "wait" ELSE "acquire")
  /\ UNCHANGED <<syncVars, depth, gameVars, queued>>

\* Wait returns only while the event is signalled: a thread that wakes up
\* after a later Reset goes back to waiting.
WaitForGCUnlocked(t) ==
  /\ pc[t] = "wait"
  /\ gcUnlockedEvent
  /\ AsyncGoto(t, "acquire")
  /\ UNCHANGED <<syncVars, depth, gameVars, queued>>

AcquireCritical(t) ==
  /\ pc[t] = "acquire"
  /\ critical = {}
  /\ critical' = {t}
  /\ AsyncGoto(t, "test")
  /\ UNCHANGED <<asyncCounter, gcCounter, gcWantsToRun, gcUnlockedEvent,
                 depth, gameVars, queued>>

\* Mutant: the first look at GCCounter is relied on.
TestGCRunning_NotAgain(t) ==
  /\ pc[t] = "test"
  /\ AsyncGoto(t, "count")
  /\ UNCHANGED <<syncVars, depth, gameVars, queued>>

\* Under the critical section GCCounter is read again; a GC that got in first
\* sends the thread back to the top of the loop.
TestGCRunning(t) ==
  /\ pc[t] = "test"
  /\ \/ /\ gcCounter = 0
        /\ AsyncGoto(t, "count")
        /\ UNCHANGED critical
     \/ /\ gcCounter # 0
        /\ critical' = {}
        /\ AsyncGoto(t, "check")
  /\ UNCHANGED <<asyncCounter, gcCounter, gcWantsToRun, gcUnlockedEvent,
                 depth, gameVars, queued>>

\* Mutant: only the outermost guard of a thread is counted.
CountAsyncLock_OutermostOnly(t) ==
  /\ pc[t] = "count"
  /\ asyncCounter' = asyncCounter + (IF depth[t] = 0 THEN 1 ELSE 0)
  /\ critical' = {}
  /\ depth' = [depth EXCEPT ![t] = @ + 1]
  /\ AsyncGoto(t, "locked")
  /\ UNCHANGED <<gcCounter, gcWantsToRun, gcUnlockedEvent, gameVars, queued>>

CountAsyncLock(t) ==
  /\ pc[t] = "count"
  /\ asyncCounter' = asyncCounter + 1
  /\ critical' = {}
  /\ depth' = [depth EXCEPT ![t] = @ + 1]
  /\ AsyncGoto(t, "locked")
  /\ UNCHANGED <<gcCounter, gcWantsToRun, gcUnlockedEvent, gameVars, queued>>

\* The innermost FGCScopeGuard goes out of scope.  A loader closes its
\* outermost one only at the end of its loop, after the poll below.
UnlockAsync(t) ==
  /\ \/ pc[t] = "locked" /\ (t \in Loaders => depth[t] > 1)
     \/ pc[t] \in {"leaving", "suspending"}
  /\ asyncCounter' = asyncCounter - 1
  /\ depth' = [depth EXCEPT ![t] = @ - 1]
  /\ AsyncGoto(t, CASE pc[t] = "suspending" -> "suspended"
                    [] pc[t] = "locked" /\ depth[t] > 1 -> "locked"
                    [] OTHER -> "outside")
  /\ UNCHANGED <<gcCounter, gcWantsToRun, critical, gcUnlockedEvent, gameVars, queued>>

-----------------------------------------------------------------------------
(* The asynchronous loading loop.                                          *)

\* Mutant: the queue is popped without a test.
LoadPackage_NoTest(t) ==
  /\ t \in Loaders
  /\ pc[t] = "locked"
  /\ depth[t] = 1
  /\ queued' = queued - 1
  /\ UNCHANGED <<syncVars, asyncVars, gameVars>>

\* PopAndExecute of one event under the guard.
LoadPackage(t) ==
  /\ t \in Loaders
  /\ pc[t] = "locked"
  /\ depth[t] = 1
  /\ queued > 0
  /\ queued' = queued - 1
  /\ UNCHANGED <<syncVars, asyncVars, gameVars>>

\* Mutant: the loop does not give way.
PollGCWaiting_Never(t) ==
  /\ t \in Loaders
  /\ pc[t] = "locked"
  /\ depth[t] = 1
  /\ queued = 0
  /\ AsyncGoto(t, "leaving")
  /\ UNCHANGED <<syncVars, depth, gameVars, queued>>

\* After every event the loop asks whether GC is waiting.  If so it suspends;
\* if not, and nothing is left to do, it leaves the scope of its guard.
PollGCWaiting(t) ==
  /\ t \in Loaders
  /\ pc[t] = "locked"
  /\ depth[t] = 1
  /\ \/ gcWantsToRun > 0 /\ AsyncGoto(t, "suspending")
     \/ gcWantsToRun = 0 /\ queued = 0 /\ AsyncGoto(t, "leaving")
  /\ UNCHANGED <<syncVars, depth, gameVars, queued>>

ResumeLoader(t) ==
  /\ pc[t] = "suspended"
  /\ gcWantsToRun = 0
  /\ AsyncGoto(t, "outside")
  /\ UNCHANGED <<syncVars, depth, gameVars, queued>>

-----------------------------------------------------------------------------
(* The game thread: GCLock, TryGCLock and GCUnlock.                        *)

GameGoto(label) == gpc' = label

CallGCLock(after)   == gpc' = "setWaiting" /\ ret' = after
CallGCUnlock(after) == gpc' = "trigger" /\ ret' = after

SetGCIsWaiting ==
  /\ gpc = "setWaiting"
  /\ gcWantsToRun' = gcWantsToRun + 1
  /\ GameGoto("sleep")
  /\ UNCHANGED <<asyncCounter, gcCounter, critical, gcUnlockedEvent,
                 asyncVars, ret, attempts, queued>>

\* ConditionalSleep returns once it has seen AsyncCounter at zero.
SleepUntilNoAsyncLock ==
  /\ gpc = "sleep"
  /\ asyncCounter = 0
  /\ GameGoto("acquire")
  /\ UNCHANGED <<syncVars, asyncVars, ret, attempts, queued>>

GameAcquireCritical ==
  /\ \/ gpc = "acquire" /\ GameGoto("test")
     \/ gpc = "tryAcquire" /\ GameGoto("tryTest")
  /\ critical = {}
  /\ critical' = {GameThread}
  /\ UNCHANGED <<asyncCounter, gcCounter, gcWantsToRun, gcUnlockedEvent,
                 asyncVars, ret, attempts, queued>>

\* AsyncCounter is read again under the critical section.
TestNoAsyncLock ==
  /\ gpc = "test"
  /\ \/ asyncCounter = 0 /\ GameGoto("reset") /\ UNCHANGED critical
     \/ asyncCounter # 0 /\ GameGoto("sleep") /\ critical' = {}
  /\ UNCHANGED <<asyncCounter, gcCounter, gcWantsToRun, gcUnlockedEvent,
                 asyncVars, ret, attempts, queued>>

MustForceGC == NumRetriesBeforeForcingGC > 0 /\ attempts > NumRetriesBeforeForcingGC

\* TryGCLock gives up at once; TryCollectGarbage then forces the lock when GC
\* has been skipped often enough, and counts one more skip otherwise.
TryTestNoAsyncLock ==
  /\ gpc = "tryTest"
  /\ \/ /\ asyncCounter = 0
        /\ GameGoto("tryReset")
        /\ UNCHANGED <<critical, ret, attempts>>
     \/ /\ asyncCounter # 0
        /\ critical' = {}
        /\ \/ /\ MustForceGC
              /\ attempts' = 0
              /\ CallGCLock("begin")
           \/ /\ ~MustForceGC
              /\ attempts' = attempts + 1
              /\ GameGoto("run")
              /\ UNCHANGED ret
  /\ UNCHANGED <<asyncCounter, gcCounter, gcWantsToRun, gcUnlockedEvent,
                 asyncVars, queued>>

ResetEvent ==
  /\ \/ gpc = "reset" /\ GameGoto("increment")
     \/ gpc = "tryReset" /\ GameGoto("tryIncrement")
  /\ gcUnlockedEvent' = FALSE
  /\ UNCHANGED <<asyncCounter, gcCounter, gcWantsToRun, critical,
                 asyncVars, ret, attempts, queued>>

\* GCCounter goes up.  Only GCLock still has the waiting signal to take back.
IncrementGCCounter ==
  /\ gcCounter' = gcCounter + 1
  /\ \/ gpc = "increment" /\ GameGoto("clear") /\ UNCHANGED critical
     \/ gpc = "tryIncrement" /\ GameGoto("begin") /\ critical' = {}
  /\ UNCHANGED <<asyncCounter, gcWantsToRun, gcUnlockedEvent,
                 asyncVars, ret, attempts, queued>>

ResetGCIsWaiting ==
  /\ gpc = "clear"
  /\ gcWantsToRun' = 0
  /\ critical' = {}
  /\ GameGoto(ret)
  /\ UNCHANGED <<asyncCounter, gcCounter, gcUnlockedEvent,
                 asyncVars, ret, attempts, queued>>

\* GCUnlock signals the event first and lowers GCCounter second.
TriggerEvent ==
  /\ gpc = "trigger"
  /\ gcUnlockedEvent' = TRUE
  /\ GameGoto("decrement")
  /\ UNCHANGED <<asyncCounter, gcCounter, gcWantsToRun, critical,
                 asyncVars, ret, attempts, queued>>

DecrementGCCounter ==
  /\ gpc = "decrement"
  /\ gcCounter' = gcCounter - 1
  /\ GameGoto(ret)
  /\ UNCHANGED <<asyncCounter, gcWantsToRun, critical, gcUnlockedEvent,
                 asyncVars, ret, attempts, queued>>

-----------------------------------------------------------------------------
(* The game thread: what it takes the lock for.                            *)

CollectGarbage ==
  /\ gpc = "run"
  /\ CallGCLock("begin")
  /\ UNCHANGED <<syncVars, asyncVars, attempts, queued>>

TryCollectGarbage ==
  /\ gpc = "run"
  /\ GameGoto("tryAcquire")
  /\ UNCHANGED <<syncVars, asyncVars, ret, attempts, queued>>

\* The head of CollectGarbageInternal.  Streaming is flushed with the lock
\* released, since the loader needs it to finish.
BeginCollectGarbageInternal ==
  /\ gpc = "begin"
  /\ gcWantsToRun' = 0
  /\ attempts' = 0
  /\ IF FlushStreamingOnGC
       THEN CallGCUnlock("flushing")
       ELSE GameGoto("marking") /\ UNCHANGED ret
  /\ UNCHANGED <<asyncCounter, gcCounter, critical, gcUnlockedEvent, asyncVars, queued>>

\* During the initial load CollectGarbageInternal returns at once.
SkipCollectGarbageInternal ==
  /\ gpc = "begin"
  /\ CallGCUnlock("run")
  /\ UNCHANGED <<syncVars, asyncVars, attempts, queued>>

\* Mutant: the flush ends only when nobody is inside a guard.
FlushAsyncLoading_WaitsForGuards ==
  /\ gpc = "flushing"
  /\ queued = 0
  /\ asyncCounter = 0
  /\ CallGCLock("marking")
  /\ UNCHANGED <<syncVars, asyncVars, attempts, queued>>

\* FlushAsyncLoading returns when nothing is left to load, and the lock is
\* taken again.
FlushAsyncLoading ==
  /\ gpc = "flushing"
  /\ queued = 0
  /\ CallGCLock("marking")
  /\ UNCHANGED <<syncVars, asyncVars, attempts, queued>>

\* Mutant: the purge always locks.
PurgeGarbage_AlwaysLocks ==
  /\ gpc \in {"run", "marking"}
  /\ CallGCLock("section")
  /\ UNCHANGED <<syncVars, asyncVars, attempts, queued>>

\* FConditionalGCLock of the incremental purge, which the game thread enters
\* from its tick and from inside CollectGarbageInternal: the lock is taken
\* only if it is not held already.
PurgeGarbage ==
  /\ gpc \in {"run", "marking"}
  /\ gcCounter = 0
  /\ CallGCLock("section")
  /\ UNCHANGED <<syncVars, asyncVars, attempts, queued>>

\* Mutant: the lock is released without a signal.
ReleaseGCLock_NoTrigger ==
  /\ gpc \in {"marking", "section"}
  /\ GameGoto("decrement")
  /\ ret' = "run"
  /\ UNCHANGED <<syncVars, asyncVars, attempts, queued>>

\* The end of CollectGarbage, of TryCollectGarbage or of the purge's scope.
ReleaseGCLock ==
  /\ gpc \in {"marking", "section"}
  /\ CallGCUnlock("run")
  /\ UNCHANGED <<syncVars, asyncVars, attempts, queued>>

LoadPackageAsync ==
  /\ gpc = "run"
  /\ queued < MaxQueued
  /\ queued' = queued + 1
  /\ UNCHANGED <<syncVars, asyncVars, gameVars>>

-----------------------------------------------------------------------------

LockAsyncStep(t) ==
  \/ CheckGCRunning(t)
  \/ WaitForGCUnlocked(t)
  \/ TestGCRunning(t)
  \/ CountAsyncLock(t)

AsyncNext(t) ==
  \/ EnterScopeGuard(t)
  \/ AcquireCritical(t)
  \/ LockAsyncStep(t)
  \/ UnlockAsync(t)
  \/ LoadPackage(t)
  \/ PollGCWaiting(t)
  \/ ResumeLoader(t)

\* The game thread inside a call that only the other threads can delay.
GCStep ==
  \/ SetGCIsWaiting
  \/ SleepUntilNoAsyncLock
  \/ GameAcquireCritical
  \/ TestNoAsyncLock
  \/ TryTestNoAsyncLock
  \/ ResetEvent
  \/ IncrementGCCounter
  \/ ResetGCIsWaiting
  \/ TriggerEvent
  \/ DecrementGCCounter
  \/ BeginCollectGarbageInternal
  \/ SkipCollectGarbageInternal
  \/ FlushAsyncLoading
  \/ ReleaseGCLock

GameNext ==
  \/ GCStep
  \/ CollectGarbage
  \/ TryCollectGarbage
  \/ PurgeGarbage
  \/ LoadPackageAsync

Next == GameNext \/ \E t \in AsyncThreads : AsyncNext(t)

Spec == Init /\ [][Next]_vars

(***************************************************************************)
(* Threads that can run do run (WF), and every scope closes.  A loader     *)
(* wakes up when a package is queued.  Its loop polls after every event    *)
(* and drains its queue, however often nested guards come and go (SF), and *)
(* a critical section is not refused for ever to one thread (SF).          *)
(***************************************************************************)
Fairness ==
  /\ WF_vars(GCStep)
  /\ \A t \in AsyncThreads :
       /\ WF_vars(LockAsyncStep(t))
       /\ SF_vars(AcquireCritical(t))
       /\ WF_vars(UnlockAsync(t))
       /\ SF_vars(LoadPackage(t))
       /\ SF_vars(PollGCWaiting(t))
       /\ WF_vars(ResumeLoader(t))
       /\ t \in Loaders => WF_vars(EnterScopeGuard(t) /\ depth[t] = 0 /\ queued > 0)

FairSpec == Spec /\ Fairness

-----------------------------------------------------------------------------
(* Properties.                                                             *)

\* The game thread relies on being alone with the UObjects here.
GCHolds == gpc \in {"begin", "marking", "section"}

HeldGuards == {g \in AsyncThreads \X (1 .. MaxNesting) : g[2] <= depth[g[1]]}

\* The purpose of the lock (comments at GarbageCollection.cpp 2056 and 2068):
\* no other thread performs UObject operations while the game thread collects.
GCExcludesAsync == GCHolds => \A t \in AsyncThreads : depth[t] = 0

\* AsyncCounter is exactly the number of live guards, so the zero that GCLock
\* waits for means that nobody is inside (LockAsync and UnlockAsync).
AsyncCounterCountsGuards == asyncCounter = Cardinality(HeldGuards)

\* check(GCCounterValue == 1) in GCLock and TryGCLock never fires: the game
\* thread never takes the lock while it holds it, not even when the purge runs
\* inside a collection or streaming is flushed in the middle of one.
GCLockNotRecursive ==
  /\ gcCounter \in {0, 1}
  /\ gpc \in {"increment", "tryIncrement"} => gcCounter = 0

\* The lock's accounts are in order: types, AsyncCounter and the checks on
\* GCCounter.
LockInv == TypeOK /\ AsyncCounterCountsGuards /\ GCLockNotRecursive

\* A guard opened inside another guard of its thread never blocks on GC:
\* otherwise GC would wait for the thread and the thread for GC.
NestedGuardNeverWaits == \A t \in AsyncThreads : depth[t] > 0 => pc[t] # "wait"

\* When nobody holds or is taking the GC lock the event is signalled as soon
\* as a thread sleeps on it: Reset always comes before the GCCounter value
\* that sends a thread to sleep, and Trigger before its end.
NoStrandedWaiter ==
  (gcCounter = 0 /\ gpc \notin {"increment", "tryIncrement"})
    => \A t \in AsyncThreads : pc[t] = "wait" => gcUnlockedEvent

\* A GC that asks for the lock gets it, provided that the threads that do not
\* give way as the loading loop does (IsGarbageCollectionWaiting) stay out.
GCLockGranted ==
  (\A t \in AsyncThreads \ Loaders : <>[](depth[t] = 0))
    => (gpc = "setWaiting" ~> gcCounter = 1)

\* Flushing streaming in the middle of a collection ends: the game thread
\* waits for the loader, so the loader must not be waiting for the game thread.
FlushCompletes == gpc = "flushing" ~> gpc # "flushing"
=============================================================================
