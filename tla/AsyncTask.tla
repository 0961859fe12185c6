------------------------------ MODULE AsyncTask ------------------------------
(***************************************************************************)
(* FAsyncTask and FAutoDeleteAsyncTask (Core AsyncWork.h) on a thread      *)
(* pool.  An FAsyncTask belongs to one thread, which starts it, waits for  *)
(* it, takes it back or cancels it; that thread has the name of its task.  *)
(* FAutoDeleteAsyncTasks are started by jobs that run in the pool and are  *)
(* never waited for.                                                       *)
(***************************************************************************)
EXTENDS Integers, FiniteSets, Sequences, ThreadPool

CONSTANTS
  Tasks,           \* FAsyncTasks, and the threads that own them
  AutoTasks,       \* FAutoDeleteAsyncTasks
  QuietShutdown    \* Destroy is called while no other thread calls the pool

ASSUME AsyncTaskAssumption ==
  /\ Tasks = Callers
  /\ Tasks \cap AutoTasks = {}
  /\ Work = Tasks \cup AutoTasks
  /\ QuietShutdown \in BOOLEAN

VARIABLES
  workNotFinished,  \* WorkNotFinishedCounter; an AutoTask counts while it exists
  doneEvent,        \* DoneEvent, a manual-reset event, is set
  queuedPool,       \* QueuedPool is set
  opc               \* where the owner of a task is

taskVars == <<workNotFinished, doneEvent, queuedPool, opc>>
vars == <<poolVars, taskVars>>

OwnerPC ==
  {"idle", "abandon", "abandonFinish", "workHere", "finishHere", "workSync",
   "retract", "retractToCancel", "cancel", "sync"}

TypeOK ==
  /\ PoolTypeOK
  /\ workNotFinished \in [Work -> 0 .. 1]
  /\ doneEvent \in [Tasks -> BOOLEAN]
  /\ queuedPool \in [Tasks -> BOOLEAN]
  /\ opc \in [Tasks -> OwnerPC]

Init ==
  /\ PoolInit
  /\ workNotFinished = [x \in Work |-> 0]
  /\ doneEvent = [x \in Tasks |-> FALSE]
  /\ queuedPool = [x \in Tasks |-> FALSE]
  /\ opc = [x \in Tasks |-> "idle"]

OwnerGoto(x, label) == opc' = [opc EXCEPT ![x] = label]

\* The owner is between two calls.
Free(x) == opc[x] = "idle" /\ apc[x] = "none"

\* CheckIdle
Idle(x) == workNotFinished[x] = 0 /\ ~queuedPool[x]

Finish(x) == workNotFinished' = [workNotFinished EXCEPT ![x] = @ - 1]

-----------------------------------------------------------------------------
(* Starting a task.                                                        *)

StartBackgroundTask(x) ==
  /\ Free(x)
  /\ Idle(x)
  /\ workNotFinished' = [workNotFinished EXCEPT ![x] = 1]
  /\ queuedPool' = [queuedPool EXCEPT ![x] = TRUE]
  /\ doneEvent' = [doneEvent EXCEPT ![x] = FALSE]
  /\ \/ PassTimeToDie(x, x) /\ UNCHANGED opc
     \/ timeToDie /\ OwnerGoto(x, "abandon") /\ UNCHANGED poolVars

\* Without a pool the event is given up and the owner does the work at once.
StartSynchronousTask(x) ==
  /\ Free(x)
  /\ Idle(x)
  /\ workNotFinished' = [workNotFinished EXCEPT ![x] = 1]
  /\ doneEvent' = [doneEvent EXCEPT ![x] = FALSE]
  /\ OwnerGoto(x, "workSync")
  /\ UNCHANGED <<poolVars, queuedPool>>

\* A job in the pool starts an FAutoDeleteAsyncTask.  A dying pool abandons it
\* at once: it is done or dropped, and deleted, before the job goes on.
StartAutoTask(w, y) ==
  /\ tpc[w] = "work"
  /\ workNotFinished[y] = 0
  /\ PassTimeToDie(w, y)
  /\ workNotFinished' = [workNotFinished EXCEPT ![y] = 1]
  /\ UNCHANGED <<doneEvent, queuedPool, opc>>

-----------------------------------------------------------------------------
(* The work: DoWork, or the job's own Abandon, and then the counter; the   *)
(* event is triggered in a step of its own (FinishThreadedWork).           *)

DoThreadedWork(w) ==
  /\ tpc[w] = "work"
  /\ apc[w] = "none"
  /\ Finish(job[w])
  /\ ThreadGoto(w, IF job[w] \in AutoTasks THEN "return" ELSE "finish")
  /\ UNCHANGED <<queueVars, threadWork, doWorkEvent, threadTimeToDie, job, addVars, dpc,
                 doneEvent, queuedPool, opc>>

FinishThreadedWork(w) ==
  /\ tpc[w] = "finish"
  /\ doneEvent' = [doneEvent EXCEPT ![job[w]] = TRUE]
  /\ ThreadGoto(w, "return")
  /\ UNCHANGED <<queueVars, threadWork, doWorkEvent, threadTimeToDie, job, addVars, dpc,
                 workNotFinished, queuedPool, opc>>

\* mutant: no event for a task that is abandoned
AbandonQueuedWork_NoEvent ==
  /\ dpc = "abandon"
  /\ queuedWork # << >>
  /\ Finish(Head(queuedWork))
  /\ queuedWork' = Tail(queuedWork)
  /\ UNCHANGED <<timeToDie, queuedThreads, synchQueue, threadVars, addVars, dpc,
                 doneEvent, queuedPool, opc>>

\* Abandon, called by Destroy for the work in its queue.  Destroy empties the
\* queue when all of it is abandoned; it holds the lock until then, so that
\* the work can as well leave one by one.
AbandonQueuedWork ==
  /\ dpc = "abandon"
  /\ queuedWork # << >>
  /\ Finish(Head(queuedWork))
  /\ IF Head(queuedWork) \in AutoTasks
       THEN queuedWork' = Tail(queuedWork) /\ UNCHANGED dpc
       ELSE dpc' = "abandonFinish" /\ UNCHANGED queuedWork
  /\ UNCHANGED <<timeToDie, queuedThreads, synchQueue, threadVars, addVars,
                 doneEvent, queuedPool, opc>>

FinishAbandonedWork ==
  /\ dpc = "abandonFinish"
  /\ doneEvent' = [doneEvent EXCEPT ![Head(queuedWork)] = TRUE]
  /\ queuedWork' = Tail(queuedWork)
  /\ dpc' = "abandon"
  /\ UNCHANGED <<timeToDie, queuedThreads, synchQueue, threadVars, addVars,
                 workNotFinished, queuedPool, opc>>

\* The owner does the work itself: abandoned by a dying pool in AddQueuedWork,
\* taken back by EnsureCompletion, or started synchronously.
DoWork(x) ==
  /\ \/ opc[x] = "abandon" /\ OwnerGoto(x, "abandonFinish")
     \/ opc[x] = "workHere" /\ OwnerGoto(x, "finishHere")
     \/ opc[x] = "workSync" /\ OwnerGoto(x, "idle")
  /\ Finish(x)
  /\ UNCHANGED <<poolVars, doneEvent, queuedPool>>

\* FinishThreadedWork on the owner's thread.  Only a task that was taken back
\* is no longer the pool's.
FinishOwnWork(x) ==
  /\ \/ opc[x] = "abandonFinish" /\ UNCHANGED queuedPool
     \/ opc[x] = "finishHere" /\ queuedPool' = [queuedPool EXCEPT ![x] = FALSE]
  /\ doneEvent' = [doneEvent EXCEPT ![x] = TRUE]
  /\ OwnerGoto(x, "idle")
  /\ UNCHANGED <<poolVars, workNotFinished>>

-----------------------------------------------------------------------------
(* Waiting for a task.                                                     *)

\* The work is taken back if it has not started; a dying pool refuses that.
EnsureCompletion(x) ==
  /\ Free(x)
  /\ queuedPool[x]
  /\ \E bDoWorkOnThisThreadIfNotStarted \in BOOLEAN :
       OwnerGoto(x, IF bDoWorkOnThisThreadIfNotStarted /\ ~timeToDie
                      THEN "retract" ELSE "sync")
  /\ UNCHANGED <<poolVars, workNotFinished, doneEvent, queuedPool>>

Cancel(x) ==
  /\ Free(x)
  /\ queuedPool[x]
  /\ ~timeToDie
  /\ OwnerGoto(x, "retractToCancel")
  /\ UNCHANGED <<poolVars, workNotFinished, doneEvent, queuedPool>>

RetractQueuedWork(x) ==
  /\ RetractUnderLock(x)
  /\ \/ /\ opc[x] = "retract"
        /\ OwnerGoto(x, IF Contains(queuedWork, x) THEN "workHere" ELSE "sync")
     \/ /\ opc[x] = "retractToCancel"
        /\ OwnerGoto(x, IF Contains(queuedWork, x) THEN "cancel" ELSE "idle")
  /\ UNCHANGED <<workNotFinished, doneEvent, queuedPool>>

CancelRetracted(x) ==
  /\ opc[x] = "cancel"
  /\ Finish(x)
  /\ OwnerGoto(x, "finishHere")
  /\ UNCHANGED <<poolVars, doneEvent, queuedPool>>

\* mutant: the counter alone decides
IsDone_NoSync(x) ==
  /\ Free(x)
  /\ queuedPool[x]
  /\ workNotFinished[x] = 0
  /\ queuedPool' = [queuedPool EXCEPT ![x] = FALSE]
  /\ UNCHANGED <<poolVars, workNotFinished, doneEvent, opc>>

\* IsDone looks at the counter first, and then synchronizes like the others.
IsDone(x) ==
  /\ Free(x)
  /\ queuedPool[x]
  /\ workNotFinished[x] = 0
  /\ OwnerGoto(x, "sync")
  /\ UNCHANGED <<poolVars, workNotFinished, doneEvent, queuedPool>>

SyncCompletion(x) ==
  /\ opc[x] = "sync"
  /\ doneEvent[x]
  /\ queuedPool' = [queuedPool EXCEPT ![x] = FALSE]
  /\ OwnerGoto(x, "idle")
  /\ UNCHANGED <<poolVars, workNotFinished, doneEvent>>

\* When it times out nothing changes.
WaitCompletionWithTimeout(x) ==
  /\ Free(x)
  /\ queuedPool[x]
  /\ doneEvent[x]
  /\ queuedPool' = [queuedPool EXCEPT ![x] = FALSE]
  /\ UNCHANGED <<poolVars, workNotFinished, doneEvent, opc>>

-----------------------------------------------------------------------------

Destroy ==
  /\ BeginDestroy
  /\ QuietShutdown =>
       \A x \in Tasks : apc[x] = "none" /\ opc[x] \notin {"retract", "retractToCancel"}
  /\ UNCHANGED taskVars

\* Steps that a thread takes on its own once it is scheduled.
AddStep(c) == (AddUnderLock(c) \/ GiveWork(c) \/ TriggerThread(c)) /\ UNCHANGED taskVars

ThreadStep(w) ==
  \/ (TestTimeToDie(w) \/ WaitForWork(w) \/ TakeWork(w)) /\ UNCHANGED taskVars
  \/ FinishThreadedWork(w)
  \/ ReturnToPoolOrGetNextJob(w) /\ UNCHANGED taskVars

OwnerStep(x) ==
  \/ DoWork(x)
  \/ FinishOwnWork(x)
  \/ RetractQueuedWork(x)
  \/ CancelRetracted(x)
  \/ SyncCompletion(x)

DestroyStep ==
  \/ AbandonQueuedWork
  \/ FinishAbandonedWork
  \/ (EndAbandon \/ SeeAllThreadsBack \/ LockToKill \/ EndDestroy) /\ UNCHANGED taskVars
  \/ \E w \in PoolThreads : KillThread(w) /\ UNCHANGED taskVars

Next ==
  \/ \E c \in Adders : AddStep(c)
  \/ \E w \in PoolThreads :
       \/ ThreadStep(w)
       \/ DoThreadedWork(w)
       \/ \E y \in AutoTasks : StartAutoTask(w, y)
  \/ \E x \in Tasks :
       \/ OwnerStep(x)
       \/ StartBackgroundTask(x)
       \/ StartSynchronousTask(x)
       \/ EnsureCompletion(x)
       \/ Cancel(x)
       \/ IsDone(x)
       \/ WaitCompletionWithTimeout(x)
  \/ Destroy
  \/ DestroyStep

Spec == Init /\ [][Next]_vars

(***************************************************************************)
(* Threads that can run do run.  A job ends, however many other tasks it   *)
(* starts on the way (SF).                                                 *)
(***************************************************************************)
Fairness ==
  /\ \A c \in Adders : WF_vars(AddStep(c))
  /\ \A w \in PoolThreads : WF_vars(ThreadStep(w)) /\ SF_vars(DoThreadedWork(w))
  /\ \A x \in Tasks : WF_vars(OwnerStep(x))
  /\ WF_vars(DestroyStep)

FairSpec == Spec /\ Fairness

-----------------------------------------------------------------------------
(* Properties.                                                             *)

\* The places that hold a piece of work and will do, drop or pass it on.
Holders(x) ==
  {<<"queue", i>> : i \in {j \in DOMAIN queuedWork :
     queuedWork[j] = x /\ ~(j = 1 /\ dpc = "abandonFinish")}}
  \cup {<<"handed", w>> : w \in {v \in PoolThreads : threadWork[v] = x}}
  \cup {<<"job", w>> : w \in {v \in PoolThreads : tpc[v] = "work" /\ job[v] = x}}
  \cup {<<"adder", c>> : c \in {d \in Adders : adding[d] = x}}
  \cup {<<"owner", o>> : o \in {t \in Tasks :
     t = x /\ opc[t] \in {"abandon", "workHere", "workSync", "cancel"}}}

\* A piece of work that has started is held in exactly one place, and in none
\* once it is done: it is neither lost nor done twice, whatever is added, taken
\* back, cancelled or abandoned at the same time.
WorkHeldOnce == \A x \in Work : Cardinality(Holders(x)) = workNotFinished[x]

\* Work, threads and locks are accounted for.
PoolInv == TypeOK /\ WorkHeldOnce /\ OneJobPerThread

\* An owner that has synchronized may delete its task or start it again: the
\* work is done, and no thread will still trigger the task's event.
IdleMeansUntouched ==
  \A x \in Tasks : Free(x) /\ ~queuedPool[x] =>
    /\ workNotFinished[x] = 0
    /\ \A w \in PoolThreads : ~(job[w] = x /\ tpc[w] \in {"work", "finish"})
    /\ ~Contains(queuedWork, x)

\* EnsureCompletion and IsDone return.
CompletionReturns == \A x \in Tasks : opc[x] = "sync" ~> opc[x] = "idle"

\* Destroy "tells the pool to clean up all background threads"
\* (QueuedThreadPool.h 30), and comes to an end.
ShutdownCompletes == timeToDie ~> dpc = "destroyed"
=============================================================================
