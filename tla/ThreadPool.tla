------------------------------ MODULE ThreadPool ------------------------------
(***************************************************************************)
(* FQueuedThreadPoolBase and FQueuedThread (Core ThreadingBase.cpp): a     *)
(* pool of threads, the work waiting for one of them, and the destruction  *)
(* of the pool.  What a thread does with a piece of work belongs to the    *)
(* work: AsyncTask.tla puts the two together.                              *)
(*                                                                         *)
(* A scope under SynchQueue is one action, except in Destroy, which calls  *)
(* out of the pool and waits for threads while it holds that lock.         *)
(***************************************************************************)
EXTENDS Integers, FiniteSets, Sequences, SequencesExt

CONSTANTS
  PoolThreads,     \* AllThreads
  Callers,         \* other threads that hand work to the pool
  Work,            \* the IQueuedWork objects
  NoWork,          \* a null IQueuedWork pointer
  NoThread         \* a null FQueuedThread pointer

ASSUME ThreadPoolAssumption ==
  /\ IsFiniteSet(PoolThreads)
  /\ PoolThreads \cap Callers = {}
  /\ NoWork \notin Work
  /\ NoThread \notin PoolThreads

VARIABLES
  timeToDie,        \* TimeToDie of the pool
  queuedWork,       \* QueuedWork: waits for a thread
  queuedThreads,    \* QueuedThreads: wait for work, the most recent one last
  synchQueue,       \* the lock: free, held (by Destroy) or deleted
  threadWork,       \* QueuedWork of each thread: handed to it, not yet taken
  doWorkEvent,      \* DoWorkEvent of each thread, an auto-reset event
  threadTimeToDie,  \* TimeToDie of each thread
  tpc,              \* where each thread is in Run
  job,              \* LocalQueuedWork
  apc,              \* where a thread is that calls AddQueuedWork
  adding,           \* the work it adds
  chosen,           \* the thread it chose for it
  dpc               \* where the call of Destroy is

queueVars   == <<timeToDie, queuedWork, queuedThreads, synchQueue>>
threadVars  == <<threadWork, doWorkEvent, threadTimeToDie, tpc, job>>
addVars     == <<apc, adding, chosen>>
poolVars    == <<queueVars, threadVars, addVars, dpc>>

Adders == PoolThreads \cup Callers

PoolTypeOK ==
  /\ timeToDie \in BOOLEAN
  /\ queuedWork \in Seq(Work)
  /\ queuedThreads \in Seq(PoolThreads)
  /\ synchQueue \in {"free", "held", "deleted"}
  /\ threadWork \in [PoolThreads -> Work \cup {NoWork}]
  /\ doWorkEvent \in [PoolThreads -> BOOLEAN]
  /\ threadTimeToDie \in [PoolThreads -> BOOLEAN]
  /\ tpc \in [PoolThreads ->
       {"top", "wait", "take", "work", "finish", "return", "exited"}]
  /\ job \in [PoolThreads -> Work \cup {NoWork}]
  /\ apc \in [Adders -> {"none", "lock", "give", "trigger"}]
  /\ adding \in [Adders -> Work \cup {NoWork}]
  /\ chosen \in [Adders -> PoolThreads \cup {NoThread}]
  /\ dpc \in {"none", "abandon", "abandonFinish", "waitAll", "kill", "killing",
              "destroyed"}

\* Create: every thread is in the pool and about to wait.
PoolInit ==
  /\ timeToDie = FALSE
  /\ queuedWork = << >>
  /\ queuedThreads \in SetToSeqs(PoolThreads)
  /\ synchQueue = "free"
  /\ threadWork = [w \in PoolThreads |-> NoWork]
  /\ doWorkEvent = [w \in PoolThreads |-> FALSE]
  /\ threadTimeToDie = [w \in PoolThreads |-> FALSE]
  /\ tpc = [w \in PoolThreads |-> "top"]
  /\ job = [w \in PoolThreads |-> NoWork]
  /\ apc = [c \in Adders |-> "none"]
  /\ adding = [c \in Adders |-> NoWork]
  /\ chosen = [c \in Adders |-> NoThread]
  /\ dpc = "none"

-----------------------------------------------------------------------------
(* AddQueuedWork and RetractQueuedWork.                                    *)

\* TimeToDie is tested before the lock is taken.  (A pool that is dying
\* abandons the work at once: the caller of AddQueuedWork does that.)
PassTimeToDie(c, x) ==
  /\ apc[c] = "none"
  /\ ~timeToDie
  /\ apc' = [apc EXCEPT ![c] = "lock"]
  /\ adding' = [adding EXCEPT ![c] = x]
  /\ UNCHANGED <<queueVars, threadVars, chosen, dpc>>

\* mutant: the chosen thread stays in the pool
AddUnderLock_KeepsThread(c) ==
  /\ apc[c] = "lock"
  /\ synchQueue = "free"
  /\ queuedThreads # << >>
  /\ chosen' = [chosen EXCEPT ![c] = Last(queuedThreads)]
  /\ apc' = [apc EXCEPT ![c] = "give"]
  /\ UNCHANGED <<queueVars, adding, threadVars, dpc>>

\* With no thread in the pool the work waits; otherwise the most recently used
\* thread leaves the pool for it.
AddUnderLock(c) ==
  /\ apc[c] = "lock"
  /\ synchQueue = "free"
  /\ \/ /\ queuedThreads = << >>
        /\ queuedWork' = Append(queuedWork, adding[c])
        /\ apc' = [apc EXCEPT ![c] = "none"]
        /\ adding' = [adding EXCEPT ![c] = NoWork]
        /\ UNCHANGED <<queuedThreads, chosen>>
     \/ /\ queuedThreads # << >>
        /\ chosen' = [chosen EXCEPT ![c] = Last(queuedThreads)]
        /\ queuedThreads' = Front(queuedThreads)
        /\ apc' = [apc EXCEPT ![c] = "give"]
        /\ UNCHANGED <<queuedWork, adding>>
  /\ UNCHANGED <<timeToDie, synchQueue, threadVars, dpc>>

\* FQueuedThread::DoWork hands the work over first and wakes the thread second.
GiveWork(c) ==
  /\ apc[c] = "give"
  /\ threadWork' = [threadWork EXCEPT ![chosen[c]] = adding[c]]
  /\ apc' = [apc EXCEPT ![c] = "trigger"]
  /\ adding' = [adding EXCEPT ![c] = NoWork]
  /\ UNCHANGED <<queueVars, doWorkEvent, threadTimeToDie, tpc, job, chosen, dpc>>

TriggerThread(c) ==
  /\ apc[c] = "trigger"
  /\ doWorkEvent' = [doWorkEvent EXCEPT ![chosen[c]] = TRUE]
  /\ apc' = [apc EXCEPT ![c] = "none"]
  /\ chosen' = [chosen EXCEPT ![c] = NoThread]
  /\ UNCHANGED <<queueVars, threadWork, threadTimeToDie, tpc, job, adding, dpc>>

\* mutant: the work stays in the queue
RetractUnderLock_KeepsWork(x) ==
  /\ synchQueue = "free"
  /\ UNCHANGED poolVars

\* The locked part of RetractQueuedWork; it returns whether the work was there.
RetractUnderLock(x) ==
  /\ synchQueue = "free"
  /\ queuedWork' = RemoveFirst(queuedWork, x)
  /\ UNCHANGED <<timeToDie, queuedThreads, synchQueue, threadVars, addVars, dpc>>

-----------------------------------------------------------------------------
(* FQueuedThread::Run.                                                     *)

ThreadGoto(w, label) == tpc' = [tpc EXCEPT ![w] = label]

TestTimeToDie(w) ==
  /\ tpc[w] = "top"
  /\ ThreadGoto(w, IF threadTimeToDie[w] THEN "exited" ELSE "wait")
  /\ UNCHANGED <<queueVars, threadWork, doWorkEvent, threadTimeToDie, job, addVars, dpc>>

WaitForWork(w) ==
  /\ tpc[w] = "wait"
  /\ doWorkEvent[w]
  /\ doWorkEvent' = [doWorkEvent EXCEPT ![w] = FALSE]
  /\ ThreadGoto(w, "take")
  /\ UNCHANGED <<queueVars, threadWork, threadTimeToDie, job, addVars, dpc>>

\* mutant: QueuedWork is not reset
TakeWork_KeepsWork(w) ==
  /\ tpc[w] = "take"
  /\ job' = [job EXCEPT ![w] = threadWork[w]]
  /\ ThreadGoto(w, IF threadWork[w] = NoWork THEN "top" ELSE "work")
  /\ UNCHANGED <<queueVars, threadWork, doWorkEvent, threadTimeToDie, addVars, dpc>>

TakeWork(w) ==
  /\ tpc[w] = "take"
  /\ job' = [job EXCEPT ![w] = threadWork[w]]
  /\ threadWork' = [threadWork EXCEPT ![w] = NoWork]
  /\ ThreadGoto(w, IF threadWork[w] = NoWork THEN "top" ELSE "work")
  /\ UNCHANGED <<queueVars, doWorkEvent, threadTimeToDie, addVars, dpc>>

\* mutant: the thread does not look for more work
ReturnToPoolOrGetNextJob_NoNextJob(w) ==
  /\ tpc[w] = "return"
  /\ synchQueue = "free"
  /\ job' = [job EXCEPT ![w] = NoWork]
  /\ queuedThreads' = Append(queuedThreads, w)
  /\ ThreadGoto(w, "top")
  /\ UNCHANGED <<timeToDie, queuedWork, synchQueue, threadWork, doWorkEvent,
                 threadTimeToDie, addVars, dpc>>

\* The oldest work first; with none left the thread goes back to the pool.  The check
\* that a dying pool has no work is left out (shipping builds do not compile it): work
\* that a job adds while Destroy begins violates it.
ReturnToPoolOrGetNextJob(w) ==
  /\ tpc[w] = "return"
  /\ synchQueue = "free"
  /\ \/ /\ queuedWork # << >>
        /\ job' = [job EXCEPT ![w] = Head(queuedWork)]
        /\ queuedWork' = Tail(queuedWork)
        /\ ThreadGoto(w, "work")
        /\ UNCHANGED queuedThreads
     \/ /\ queuedWork = << >>
        /\ job' = [job EXCEPT ![w] = NoWork]
        /\ queuedThreads' = Append(queuedThreads, w)
        /\ ThreadGoto(w, "top")
        /\ UNCHANGED queuedWork
  /\ UNCHANGED <<timeToDie, synchQueue, threadWork, doWorkEvent, threadTimeToDie,
                 addVars, dpc>>

-----------------------------------------------------------------------------
(* Destroy.                                                                *)

BeginDestroy ==
  /\ dpc = "none"
  /\ synchQueue = "free"
  /\ synchQueue' = "held"
  /\ timeToDie' = TRUE
  /\ dpc' = "abandon"
  /\ UNCHANGED <<queuedWork, queuedThreads, threadVars, addVars>>

\* Everything in the queue has been abandoned.
EndAbandon ==
  /\ dpc = "abandon"
  /\ queuedWork = << >>
  /\ synchQueue' = "free"
  /\ dpc' = "waitAll"
  /\ UNCHANGED <<timeToDie, queuedWork, queuedThreads, threadVars, addVars>>

\* The loop that waits until every thread is back in the pool.
SeeAllThreadsBack ==
  /\ dpc = "waitAll"
  /\ synchQueue = "free"
  /\ Len(queuedThreads) = Cardinality(PoolThreads)
  /\ dpc' = "kill"
  /\ UNCHANGED <<queueVars, threadVars, addVars>>

LockToKill ==
  /\ dpc = "kill"
  /\ synchQueue = "free"
  /\ synchQueue' = "held"
  /\ dpc' = "killing"
  /\ UNCHANGED <<timeToDie, queuedWork, queuedThreads, threadVars, addVars>>

\* mutant: the event is not triggered
KillThread_NoWake(w) ==
  /\ dpc = "killing"
  /\ ~threadTimeToDie[w]
  /\ \A v \in PoolThreads : threadTimeToDie[v] => tpc[v] = "exited"
  /\ threadTimeToDie' = [threadTimeToDie EXCEPT ![w] = TRUE]
  /\ UNCHANGED <<queueVars, threadWork, doWorkEvent, tpc, job, addVars, dpc>>

\* KillThread for one thread after the other: each is told to die, woken up,
\* and waited for.  A thread that sees the flag before it is woken up has
\* exited and is not affected by the event any more.
KillThread(w) ==
  /\ dpc = "killing"
  /\ ~threadTimeToDie[w]
  /\ \A v \in PoolThreads : threadTimeToDie[v] => tpc[v] = "exited"
  /\ threadTimeToDie' = [threadTimeToDie EXCEPT ![w] = TRUE]
  /\ doWorkEvent' = [doWorkEvent EXCEPT ![w] = TRUE]
  /\ UNCHANGED <<queueVars, threadWork, tpc, job, addVars, dpc>>

EndDestroy ==
  /\ dpc = "killing"
  /\ \A w \in PoolThreads : threadTimeToDie[w] /\ tpc[w] = "exited"
  /\ queuedThreads' = << >>
  /\ synchQueue' = "deleted"
  /\ dpc' = "destroyed"
  /\ UNCHANGED <<timeToDie, queuedWork, threadVars, addVars>>

-----------------------------------------------------------------------------
(* Properties.                                                             *)

\* Work waits only while every thread is busy: whenever the lock is free, the
\* queue or the pool is empty (AddQueuedWork, ReturnToPoolOrGetNextJob).
NoIdleThreadWhileWorkWaits ==
  synchQueue = "free" => queuedWork = << >> \/ queuedThreads = << >>

\* The checks of DoWork ("Can't do more than one task at a time") and of Run
\* ("well you woke me up, where is the job or termination request?"): a thread
\* is handed work only when it has none, and never wakes up for nothing.
OneJobPerThread ==
  /\ \A c \in Adders : apc[c] = "give" => threadWork[chosen[c]] = NoWork
  /\ \A w \in PoolThreads :
       tpc[w] = "take" => threadWork[w] # NoWork \/ threadTimeToDie[w]
=============================================================================
