# A verification project for the UE runtime

TLA+ models of the concurrent and the distributed control of this repository
(the runtime modules of Unreal Engine 4.25, `src/`), TLC configurations that
check them, and TLAPS proofs of what must hold for every size.

The repository is some ten thousand files; most of them transform data (math,
rendering, audio, serialization) or drive a graphics card, and there a model
checker has little to say.  What it does have to say is about the few places on
which everything else relies and that no unit test exercises in all their
interleavings: locks, queues, pools, and the protocol between client and server.
These are modelled first.

## 1. Inventory

The table lists the parts that carry control worth modelling, and `PROJECT.json`
lists all parts with their status.

| Component | State it keeps | Operations | Interacts with | Hard behaviours | What makes it correct |
|---|---|---|---|---|---|
| Garbage collection lock (`CoreUObject`: `GCScopeLock.h`, `GarbageCollection.cpp`) | three interlocked counters, a critical section, a manual-reset event, skip counter | `LockAsync`, `UnlockAsync`, `GCLock`, `TryGCLock`, `GCUnlock`; `CollectGarbage`, `TryCollectGarbage`, the purge | every thread that touches a UObject; the loader | lock-free tests repeated under the lock, order of trigger and counter, nesting, lock released in the middle | GC and UObject work exclude each other; nobody sleeps for ever; GC gets its turn |
| Asynchronous loading loop (`AsyncLoading2.cpp`) | suspended flag, its scope guard, event queues | load, poll GC, suspend, resume | GC lock; the game thread flushes it | game thread waits for it in the middle of a collection | a flush ends; GC is not starved |
| Packet layer (`Engine`: `NetPacketNotify`, `SequenceNumber.h`, `SequenceHistory.h`, `NetConnection`) | in/out sequence numbers of 14 bits, 32-bit ids, record of sent acks, bit history, send buffer, dirty acks | `WriteHeader`, `CommitAndIncrementOutSeq`, `Update`, `AckSeq`, `NakSeq`; `FlushNet`, `WriteBitsToSendBuffer`, `ReceivedPacket` | UDP below, channels above, which call back into it | loss, duplication, delay, reordering, wrap-around, sending from within receiving, a history of limited length | every packet's fate is reported once, in order and truthfully |
| Thread pool and async tasks (`Core`: `ThreadingBase.cpp`, `AsyncWork.h`) | queue of work, list of idle threads, per-thread event and work, per-task counter and event | `AddQueuedWork`, `RetractQueuedWork`, `ReturnToPoolOrGetNextJob`, `Run`, `Destroy`; `Start`, `EnsureCompletion`, `Cancel`, `IsDone`, `WaitCompletionWithTimeout` | owners of tasks, jobs that start more jobs | hand-over outside the lock, retraction against start, destruction against everything | work is done exactly once; an idle task is not touched; waiting and destruction end |
| Reliable channels (`DataChannel.cpp`, `DataBunch.cpp`, `NetConnection.cpp`) | out list and in list of bunches, sequence numbers per channel index, message being put together, open/close flags | `SendBunch`, `ReceivedRawBunch`, `ReceivedNextBunch`, `ReceivedSequencedBunch`, `ReceivedAcks`, `ReceivedNak`, `Close`, `CleanUp` | packet layer below (packet ids, fates), actors above, which open and close | resends under new packet ids, limits of the lists, close against resend, an index used again while old bunches are under way, parts of messages lost | messages come once, whole and in order, to the actor they were for; a closed channel is freed once everything is acknowledged |
| Packet order cache (`NetConnection.cpp` 1980–2330) | ring of packets held back, flags | hold, flush, drain | re-enters `ReceivedPacket` | re-entrance, wrap-around | packets are handed on in order |
| Stateless handshake (`StatelessConnectHandlerComponent`) | server: two secrets and the time of the last update; client: state, cookies, time stamps; per connection: cookie, address for acks | challenge, response, ack, restart request; `Tick` (resend, new secret) | packet handler, driver's table of connections | retries with several cookies in use, restart when the address changes, late and repeated packets, secrets replaced meanwhile, no state at the server | both ends count from the same numbers; one connection per client, where the client is; a cookie lives long enough |
| Packet handlers (`PacketHandlers`) | component list, buffered packets | `Incoming`, `Outgoing`, `BeginHandshaking`, `HandlerComponentInitialized` | handshake, connection | buffering until initialized | nothing overtakes or is dropped |
| DDoS detection (`Net/Core`) | severity state, counters of two periods | per packet, per frame | driver | escalation and cool-off | counters and states agree |
| HTTP (`Online/HTTP`) | request lists of manager and thread, retry entries | process, cancel, tick, complete, retry | two threads | cancellation against completion, back-off | each request completes once |
| Task graph (`TaskGraph.cpp`) | prerequisites, subsequents, named-thread queues | create, dispatch, wait | all threads | closing a list of subsequents against adding to it | a task runs once, after its prerequisites |
| Triple buffer (`TripleBuffer.h`) | three buffers, one word of flags | `Write`, `SwapWriteBuffers`, `SwapReadBuffers`, `Reset` | a writer and a reader thread | compare-and-exchange loops against each other | the reader sees the latest value, complete, until it swaps |
| Queues (`CircularQueue.h`, `Queue.h`, `ResizableCircularQueue.h`) | ring or list, head and tail | enqueue, dequeue, count, empty, resize | producers and a consumer without a lock; the last one a single thread (the packet layer) | producer against consumer, nodes freed and reused, wrap-around, full against empty | first in, first out, each element once |
| Lock-free lists (`LockFreeList.h`) | indexed pointers with counters | push, pop | any thread | ABA, overflow of counters | linearizable |
| Message bus, gameplay tasks, image write queue, render fences | queues, claims, fences | see `PROJECT.json` | | ordering, limits | order and exclusion |

The hazards of this code, each at its line with the properties that would catch
it, are listed under `hazards` in `PROJECT.json`.

## 2. Modules

```
SequenceNumber ---+                                 DeliveryNotification
                  +--- PacketNotify --- Connection ---- implements --^
SequenceHistory --+                         |
Connection_proofs (EXTENDS Connection)      |
                                       MCConnection

ReliableChannel ---- implements --> ChannelService
   MCReliableChannel (stands on what DeliveryNotification promises)
ReliableChannel_proofs (EXTENDS ReliableChannel)
ChannelAgreement_proofs (EXTENDS ReliableChannel_proofs)

Handshake --- MCHandshake
Handshake_proofs (EXTENDS Handshake)

GCSync --- MCGCSync                    ThreadPool --- AsyncTask --- MCAsyncTask
GCSync_proofs (EXTENDS GCSync)         AsyncTask_proofs (EXTENDS AsyncTask)

TripleBuffer ---- implements --> LatestValue         CircularQueue ----------+
                                                     LinkedQueue ------------+- implement --> FifoQueue
                                                     ResizableCircularQueue -+
Buffers_proofs (EXTENDS CircularQueue, INSTANCE ResizableCircularQueue, TripleBuffer)
LinkedQueue_proofs (EXTENDS LinkedQueue)
```

`MCLinkedQueue` instantiates the linked queue; `MCContainers` the other three containers,
which share nothing: each of its behaviours is one of one of them.  `MCCircularQueue` is
for the run that is violated.

Some definitions are followed by variants of them named after the mistake they
make (`CheckGCRunning_WaitsForWaitingGC`).  No specification uses a variant: each
stands for a plausible bug, and `mutants` in `PROJECT.json` pairs it with the
property that must then fail under the same configuration, which shows that the
property depends on that line of the code.

### GCSync: the garbage collection lock

`FGCCSyncObject` in full, the scope guards that take it on other threads, every
place of `GarbageCollection.cpp` where the game thread takes it, and the loop of
`FAsyncLoadingThread2::Run` as its one client that gives way.

The lock is built from interlocked counters that are partly read without any
critical section, so **one action is one access to shared memory**.  `pc[t]` is
the place of a thread in `LockAsync` (`check` the unlocked test, `wait` in the
event, `acquire`, `test` under the lock, `count` the increment and the release),
`gpc` the place of the game thread in `GCLock`/`TryGCLock`/`GCUnlock` and in its
caller; `ret` is where such a call returns to.

| Model | Code |
|---|---|
| `asyncCounter`, `gcCounter`, `gcWantsToRun`, `critical`, `gcUnlockedEvent` | members of `FGCCSyncObject` |
| `depth[t]` | the number of `FGCScopeGuard`s alive on thread `t` |
| `EnterScopeGuard` ... `UnlockAsync` | `LockAsync`, `UnlockAsync` |
| `LoadPackage`, `PollGCWaiting`, `ResumeLoader` | `FAsyncLoadingThread2::Run` |
| `SetGCIsWaiting` ... `DecrementGCCounter` | `GCLock`, `TryGCLock`, `GCUnlock` |
| `CollectGarbage` ... `ReleaseGCLock` | `GarbageCollection.cpp` |
| `attempts` | `GNumAttemptsSinceLastGC` |
| `queued` | what the loader has left to do |

The event is `FPThreadEvent` with manual reset: `Wait` returns only while the
event is signalled, a thread that wakes after a later `Reset` waits again.
Left out: `bSuspendRequested` of the loader, its waits for disk and for
post-load, and reachability itself.

### Packet layer

`SequenceNumber` and `SequenceHistory` are the two data types, with the width,
the word size and the number of words as constants (14 bits, 32 bits and 8 words
in the code).  `PacketNotify` is `FNetPacketNotify`: the object is a record and
each method an operator on it, conditions and clamps included.  `Connection` is
two `UNetConnection`s and the network.

A connection belongs to one thread, but `ReceivedPacket` calls the game back for
every notification and for every bunch, and the game may write and flush there.
So `ReceivedPacket` is a sequence of actions with a `phase`:

| `phase` | `ReceivedPacket` is |
|---|---|
| `idle` | not running |
| `notify` | inside `PacketNotify.Update`: `AckRecord` and `InAckSeqAck` are updated, `InSeq` and `OutAckSeq` not yet |
| `bunches` | dispatching bunches |
| `flush`, `reflush` | in the one or two flushes that too many dirty acknowledgements force |

`inAckId`, `outAckId`, `delivered` and `acked` are auxiliary: full-width shadows
of what the code only has in wrapped form, for the properties (`InCallback`
reads one to say that a notification is on the stack).  The network delivers any
packet that was sent, any number of times and in any order; loss is never
delivering.  `MaxPacketAge` bounds how old a packet may be on arrival: without
any such bound no protocol with sequence numbers of limited width is correct.

`DeliveryNotification` is the abstract specification: ids without limit, no
headers, no history, no network.  An endpoint sends packets, its peer settles
their fate in order, and the endpoint is told each fate once and in order.
`Connection!ImplementsDelivery` is the refinement.

Left out: the packet order cache (off by default), the packet simulation
settings, replay and internal-ack connections, the keep-alive timer (a flush may
happen at any time anyway), statistics, the contents of bunches, closing for
reasons of the game.  `AckRecord`, a `TResizableCircularQueue`, is a sequence, which
is what `ResizableCircularQueue` shows it to be.

### Reliable channels

`ReliableChannel` is one channel index between a server, which opens and closes
actor channels, and a client: `UChannel` of both sides and what `UNetConnection`
does with bunches.  An end is a record; each method is an operator from the record
to its next value, and the actions apply them.

What lies below is taken from what the packet layer promises: packets of one side
arrive in order or not at all, and each side is told the fate of each of its
packets once and in order.  So a packet carries its bunches and the `fates` that its
header tells for the first time; ids are counted from the oldest packet whose fate
is open (`MoveUp`).  `ReceivedPacket(e, i)` lets the first `i - 1` packets under way be
lost.  Like the code it handles the fates first, then one bunch at a time
(`ReceivedPacketBunch`), then those of `InRec` whose turn has come
(`DispatchQueued`), and at the end acknowledges the packet or, when a bunch asked
to skip that, reports it lost (`AcknowledgePacket`).

| Model | Code |
|---|---|
| `channel.outRec`, `inRec`, `inPartial` | `OutRec`, `InRec`, `InPartialBunch` |
| `channel.opened`, `openAcked`, `closing` | `OpenPacketId` is set, `OpenAcked`, `Closing` |
| `outReliable`, `inReliable`, `pendingOutRec` | the arrays of that name at this index |
| `receiving` | the local variables of `ReceivedPacket` |
| `state = "error"` | `SetError`, a `check` or an `ensure`; `"closed"`: closed on overflow |

A bunch carries a `tag` that no code reads: the message and part it is, the channel
(`incarnation`) it was sent for, and its full number.  `got`, `whole` and `fresh`
record what the game was handed.

The server opens the channel whenever its index is free: between packets, as
replication does, or from the handler of a bunch (of another channel), as
`UNetDriver::InternalProcessRemoteFunction` does for a remote call on an actor without a
channel.  `reused` records that it did so while bunches of the packet in hand were still
to be processed.  These are for the former channel and go to the new one
(`NeverStale` in section 5), so that some of the promises end there: properties that
say `reused \/ ...` are about behaviours up to that moment.

`ChannelService` is the abstract specification: no packets at all.  The server opens
a channel, each side sends messages, they are delivered one after the other, the
close is delivered behind them and frees the index.  After `reused` (there `void`) it
promises nothing.

Left out: merging of small bunches into the last one, temporary channels (opened
by an unreliable bunch), the threshold above which a split message turns reliable,
exports of GUIDs and bunches that wait for them, the control channel's queue,
dormancy, replays.  A packet that resends fill up is flushed in the middle of a
notification (`NetConnection.cpp`:2796); here all resends of a notification go into the
packet that is open.

### Handshake

`Handshake` is one client and the server.  The server keeps no state for a client
that has not answered a challenge: a cookie is an HMAC of address and time under
one of two secrets.  In the model a cookie is a name and `issued` says what the
server would recompute from it; when a secret is replaced its cookies lose `fresh`.
A cookie that nobody holds any more may be issued again.

Time passes by `Pass`; every time stamp is kept as the time since then, up to where
no comparison tells values apart.  The server ticks often enough to replace its
secret within the variance.

| Model | Code |
|---|---|
| `client` | `State`, `LastCookie`, `AuthorisedCookie`, `bRestartedHandshake`, `LastClientSendTimestamp`, `LastChallengeTimestamp`, and whether the packet handler is initialized |
| `secret` | `ActiveSecret`, `LastSecretUpdateTimestamp` |
| `connections[a]` | the connection of address `a`: `AuthorisedCookie` and `LastChallengeSuccessAddress` of its component |
| `ValidResponse`, `ServerAccepts` | `IncomingConnectionless` |
| `ClientReceives...`, `ConnectionReceives` | `Incoming` on a client and on a server |
| `ClientTick`, `UpdateSecret` | `Tick` |
| `Switch` | a router that gives the client's traffic another address |

The tables of `UIpNetDriver`, which is not in this repository, are modelled from
what the component offers it (`HasPassedChallenge`, `DoesRestartedHandshakeMatch`,
`InitFromConnectionless`): a response that passed makes a connection or moves the
one with the named cookie.

Assumed of the network: a packet is not under way for more than the ten seconds
between two restarts (`PromptPackets`, for `OneConnection`), nor for more than half of
that (`PromptAnswers`, for `RestartMoved`).  The code does not enforce it: the server
accepts cookies that are older.  And the address changes only when the client is
connected.  The observations in section 5 say what happens otherwise.
Left out: the magic header, diagnostics, counters against floods, the check for
clients that send from two addresses at once (what it refuses counts as lost), and
the buffer of the packet handler, which is empty as the game writes nothing before
the handshake has ended.

### ThreadPool and AsyncTask

`ThreadPool` is `FQueuedThreadPoolBase` with its `FQueuedThread`s; `AsyncTask`
adds the `IQueuedWork` of this code base, `FAsyncTask` and
`FAutoDeleteAsyncTask`.  A scope under `SynchQueue` is one action, except in
`Destroy`, which calls out of the pool and waits for threads with the lock held;
there `synchQueue` is `"held"`.  `AddQueuedWork` is three steps: the
`TimeToDie` test without the lock (`PassTimeToDie`), the scope under the lock
(`AddUnderLock`), and what `DoWork` of the chosen thread does after the lock is
released (`GiveWork`, `TriggerThread`).

An `FAsyncTask` is not thread-safe: one thread owns it, starts it, waits for it,
cancels it and starts it again, so owners carry the names of their tasks.
Auto-delete tasks are started by jobs that run in the pool.
`QuietShutdown` says that `Destroy` is called while no thread outside the pool
is inside a call to it, which is how the engine shuts down; jobs inside the pool
are never restricted.

### Containers

`LatestValue` and `FifoQueue` are the abstract specifications: a value that is
published and fetched, and a queue whose oldest item is taken or dropped.  The
detailed modules implement them by refinement mappings.

* `TripleBuffer`: `flags` is the word of flags as a record; a compare and exchange
  is one action that succeeds or sends its thread back to reading the flags
  (`wpc`, `rpc`).  A write takes two steps, between which the buffer is `Torn`.
  `epoch`, which is auxiliary, changes with every `Reset`, so that the abstract
  specification can tell a reset, the only step that may go back to an older value,
  from a fetch.
* `CircularQueue`: one action per access to `Head`, `Tail` or an element.
  `ppc` and `cpc` are the places of producer and consumer; `counting` are the
  threads inside `Count`, which loads the two indices in two steps.  `taken` and
  `trueCounts` are auxiliary.
* `LinkedQueue`: nodes are allocated from a small memory and freed into it again,
  so that a dangling pointer would hit a node in use.  `order` is auxiliary: the
  nodes in the order in which `Head` was exchanged, which is the abstract queue.
* `ResizableCircularQueue`: sequential; the methods are operators on the queue as
  a value, since they call each other, and the actions apply them.  The move
  assignment in `SetCapacity` destructs every slot of the old ring; `strays`, which is
  auxiliary, collects the operations that have destructed a slot without an element.

Atomics and interlocked operations are sequentially consistent, as
`TAtomic`'s default and the `Interlocked` functions are; the accesses to `volatile`
members and to `Flags` in between are taken as consistent with them, which the code
relies on too.  Not modelled: methods that change nothing (`Peek`, `IsEmpty`,
`IsFull`), destructors, failing allocation.

## 3. Runs

| Run | Question | Instance and why it is enough |
|---|---|---|
| `GCSync` | Do the lock's safety properties hold under every interleaving, and do GC and flush get on? | A loader and another thread, guards nested twice, one package, forced GC after one skip, streaming flushed. Two threads are enough for one to sleep while the other enters; three kinds of client of the game thread mix freely. GC cycles are **not** bounded. |
| `Connection` | Are fates truthful, do records match, are acknowledgements forgotten, do wrapped and full-width ids stay in step, and is the abstract promise kept? | 3 bits of sequence number (8 numbers), history of 2 words of 1 bit, so that every packet can grow the history by a word and overflow it. The client sends 6 packets from id 6 on and the server 2 from id 7 on, so that both wrap around and the client's numbers span more than half of the space, the distance at which newer turns into older; 3 may be in flight, the most that the window of this width allows. For ids further apart there is `CompareByDistance` in `Connection_proofs`. |
| `ConnectionWindow` | Does `FlushNet` respect the send window? | **Violated**, see Findings. |
| `ReliableChannel` | Are messages delivered once, whole, in order and to the right actor, and is no limit or check of the code ever hit, unless a channel is opened in the middle of a packet? | Two channels one after the other on one index; the server sends two messages of one or two bunches and then one, each with unreliable ones besides for the first, the client one each. Eight sequence numbers with a buffer of three, started two before the wrap-around: as in the code (1024 and 256) more than twice the buffer. Two packets in flight: one can be lost and the loss told while the other is under way. |
| `ChannelReuse` | Is what was sent to an actor ever handed to its successor? | **Violated**, see Findings; the instance of `ReliableChannel`. |
| `ReliableChannelLive` | Do messages arrive and are channels freed? | One channel, one message, split or not, and the close, with losses until some point. |
| `Handshake` | Is there one connection, in step with the client and where the client is, and do cookies live long enough? | Units of five seconds: a restart after 2, secrets replaced after 3 to 4, so that a cookie outlives up to two updates. Two addresses, to which the client moves and from which it moves back; two packets under way; three cookies, so that one of a former handshake, one of the present and a new one exist together. 4.1 million states. |
| `AsyncTask` | Is work done once, is an idle task untouched, and do waits and `Destroy` end? | Two threads, two owners, one auto task, `Destroy` at any time. Tasks restart for ever, without a bound. |
| `AsyncTaskShutdown` | Does `Destroy` end when a caller outside races with it? | **Violated**, see Findings. |
| `Containers` | Is the circular queue a FIFO queue, and do its own threads count truthfully while others count, too? Does the reader of a triple buffer see what was published last, complete and stable? Do order and lifetime of elements survive wrap-around, growing and shrinking of the resizable ring? | Four places in the circular queue, so that it is empty, partly filled, full and wraps around; a third thread counts. The size of the triple buffer is the code's. Capacities 1, 2 and 4 of the resizable ring; its indices of four bits in place of 32 wrap around after four turns of the largest one. Two values tell the order, and a new one from an old one. |
| `CircularQueueCount` | Does `Count` tell the truth to any thread? | **Violated**, see Findings; four places. |
| `LinkedQueue` | Is the list a FIFO queue without leaks and dangling pointers, does every item get through, and when does `Dequeue` fail? | Four nodes, two producers: one can be between exchange and link while the other completes and the consumer frees and reuses nodes. |

Bounds: `MaxNesting`, `MaxQueued` (GCSync); `ClientMaxPackets`,
`ServerMaxPackets`, `MaxInFlight`, `MaxPacketAge` (Connection).  `MaxInFlight`
stands for the time-out of a connection that hears nothing; the code has no
other limit, and that is the subject of `ConnectionWindow`; `LogMaxCapacity`
(ResizableCircularQueue) and the set `Node` (LinkedQueue), without which the queues
would grow for ever; the number of messages and channels, `MaxInFlight` and
`MaxBuffered` (ReliableChannel); `Cookies`, `MaxInFlight`, `MaxDelay` and `MaxSwitches`
(Handshake).  Deadlock is checked, except in the `Connection*`, `ReliableChannel*` and
`ChannelReuse` runs, where a behaviour ends when the packets are used up or an end has closed, and in `AsyncTaskShutdown`, where the deadlock is what the run is about.

### Properties

* `LockInv`: types, and the two facts the lock rests on: the counter is the number of
  live guards, so that zero means that nobody is inside (`AsyncCounterCountsGuards`);
  and the `check` in `GCLock` never fails, since the game thread's own paths (purge
  inside a collection, flush in the middle) never take the lock twice
  (`GCLockNotRecursive`).
* `GCExcludesAsync`: the purpose of the lock.
* `NestedGuardNeverWaits`: no self-deadlock through nesting.
* `NoStrandedWaiter`: no lost wake-up.
* `GCLockGranted`: a collection that asks for the lock gets it, provided that the
  threads that do not give way stop using guards at some time; the loaders need not,
  since their loop gives way.  `FlushCompletes`: a flush inside a collection ends.
* `EndpointInv`: the two endpoints' tables in step: the `ensure` and the sanity check
  of the code never fire, in spite of wrap-around (`AckRecordsMatch`,
  `NotificationsInStep`, `PacketIdsAgree`), and no acknowledgement drops out of the
  history before it was sent (`DirtyAcksFitHistory`).
* `NoFalseNak`: a delivered packet is reported lost only if its report comes more than
  a history too late; that no lost packet is reported as delivered is part of the
  refinement.
* `CleanMeansTold`: acknowledgements are not forgotten when a header could not be
  refreshed.
* `ImplementsDelivery`: refinement of `DeliveryNotification`.
* `NoBunchError`: no legal use of a channel, with whatever losses, runs into a
  `SetError`, `check` or `ensure` of `DataChannel.cpp`, as long as it was not opened in the
  middle of a packet; in particular the close fits into the buffer and `InRec` does not
  overflow.
* `AckedMeansLetIn`: a reliable bunch is kept until the peer has it, across the end
  of the channel.
* `SequencesAgree` (ReliableChannel): the few bits on the wire are taken for the number
  they were made from.
* `HandedWhole`: the game is handed whole messages.
* `NeverStale`: it is handed them for the actor that the channel belongs to now.  The
  code does not keep that (`ChannelReuse`); `StaleOnlyIfReused` says when it does: an
  actor gets what was sent to its predecessor only if a channel was opened in the middle
  of a packet.
* `ImplementsChannelService`: refinement of `ChannelService`, as long.
* `ClosingIsFreed`, `MessagesArrive`: progress by resends alone, once losses end.
* `CookieLifetime`: a response passes the server's checks while its cookie is no older than
  `MIN_COOKIE_LIFETIME`, whichever of the two secrets made it.  (The client repeats its
  response for as long after it received the challenge, so somewhat longer.)
* `OneConnection`: once connected a client has exactly one connection, however often
  its packets were repeated and its handshake restarted, if packets are prompt.
* `SequencesAgree` (Handshake): a game packet comes only to a connection that counts
  from the numbers of the client's cookie.
* `RestartMoved`: a restart does not end before the connection has moved.
* `PoolInv`: each started piece of work is in exactly one place (`WorkHeldOnce`) and each
  thread has one job (`OneJobPerThread`).
* `IdleMeansUntouched`: a task whose owner has synchronized is touched by nobody.
* `NoIdleThreadWhileWorkWaits`: the pool's two decisions agree.
* `CompletionReturns`, `ShutdownCompletes`: progress.
* `ThreeBuffers`, `RingInv`: two threads without a lock never touch the same
  memory at the same time.
* `ImplementsLatestValue`: the reader fetches what the writer published last, and goes on
  seeing it; only `Reset` goes back to an older value or drops one.
* `ImplementsFifo`, `RingImplementsFifo` (the resizable ring): refinement of `FifoQueue`.
* `CountIsTrue`: a count of the producer or the consumer is the size of the queue at some
  moment of the call; `CountFromAnyThread` says so of every thread, and fails.
* `ListInv`: no leak, and no producer holds a pointer to a freed node.
* `ItemsDelivered`, `EmptyUnlessUnlinked`: nothing stays behind the gap that an
  unfinished `Enqueue` leaves, and only such a gap hides items.
* `SlotsInv`: exactly the slots between the indices hold an element, and a destructor runs
  on another one only when `Trim` shrinks the ring (`OnlyTrimStrays`).

### Fairness

Threads that can run do run: weak fairness of each thread's own steps, which is
what an operating system's scheduler gives.  Strong fairness is assumed in four
places: a thread is not refused a critical section for ever (the scheduler of a
mutex); the loader polls and drains its queue however often nested guards come
and go within it; and a job ends, however many tasks it starts on the way.
In `LinkedQueue` producers finish an `Enqueue` that has begun, which has no loop, and
the consumer keeps calling `Dequeue`, as its users do once per tick.
Nothing makes a game thread collect, an owner start a task or a pool be
destroyed.  `Connection` and `Handshake` state no liveness: UDP promises nothing.
`ReliableChannelLive` assumes that packets are lost only finitely often (`LossEnds`),
that each end works through what it received and takes the next packet, and that it
flushes, which the driver's tick does; the game need not do anything.

## 4. Proofs

`GCSync_proofs` proves for any finite set of threads, any loaders among them,
any nesting and either setting of the console variables:

* `Invariance`: `Spec => []Inv`.  `Inv` is the type invariant with six parts:
  `CriticalInv` (the owner of the critical section is the thread whose program
  counter says so), `GCCounterInv` (`gcCounter` as a function of the game
  thread's place), `AsyncInv` (`asyncCounter` counts the guards), `ReturnInv`
  (what a call of the lock may return to), `DepthInv` (how many guards a thread
  has at each place), `EventInv` (the event is signalled whenever `gcCounter` is
  zero and somebody sleeps, up to the window between `Reset` and the increment).
  None of the properties is inductive on its own: exclusion needs that a thread
  at `count` saw a `gcCounter` of zero under the critical section it still holds,
  and that the game thread between its test and its increment saw no guards under
  the same section.  The proof has one step per action.
* `LockInOrder`, `MutualExclusion`, `NestingSafe`, `NoLostWakeup`: the safety properties
  of the run `GCSync`, from `Inv`; `TypeCorrect`, `CounterExact` and `NoRecursiveLock` are
  the parts of the first.

`Connection_proofs` proves the whole packet layer for sequence numbers of any width, a
history of any number of words of any size, any first ids and any number of packets,
under one hypothesis, `Window`: fewer than half of the sequence numbers are in flight
and no packet is delayed by more than that many ids (`MaxInFlight < SeqNumberHalf`,
`MaxPacketAge <= SeqNumberHalf`).  The comment in `NetPacketNotify.h` asks for the
first; the code does not enforce it (`SendWindowRespected` below), and without the
second no protocol with wrapped numbers works.

* `IncFollowsId` (increment commutes with the wrapping of ids), `CompareByDistance` (ids
  less than half the number space apart compare as their sequence numbers) and
  `DiffIsDistance` (their difference is the difference of the ids): the arithmetic of
  wrapped sequence numbers, which is why the packet layer may work with 14 bits.
* `Invariance`: `Spec => []Inv`.  `Inv` says for each endpoint and its peer that the
  wrapped numbers stand for the full-width ids of the auxiliary variables (`NumbersInv`);
  that these are in order, `FirstId(e) - 1 <= outAckId[e] <= inAckId[p] <= inPacketId[p]
  < outPacketId[e]` (`OrderInv` with `IdsInOrder`); that every packet ever sent, and the one
  in the send buffer, acknowledges no less than those before it, is not far ahead of
  what it acknowledges, and carries enough of the history to tell the truth about each
  packet whose fate the peer does not know yet (`PacketInv`, `Covers`); that `AckRecord`
  has one record per packet in flight (`RecordInv`); what the history holds
  (`HistoryInv`), the packet being processed (`PendingInv`) and what dirty
  acknowledgements mean (`DirtyInv`).  None of the properties is inductive without the
  packets: that a header is long enough when it is written (`LengthCovers`,
  `WordsSuffice`) depends on how far the sender knows its acknowledgements to be known
  (`inAckSeqAck`), and that on the record of an earlier packet of its own.  The last step
  of the argument is that nothing e relies on is lost when only its peer acts
  (`PeerKeeps`), so that each action is proved for the endpoint that takes it.
* `RecordsInOrder`, `NothingUntold` and `NoFalseLoss`: the properties of the run
  `Connection`, from `Inv`.  `HeaderUnderstood` is why no `ensure` fires: what the wrapped
  numbers of a packet let in are taken for is what they were made from.
* `Refinement`: the packet layer implements `DeliveryNotification`, with `FateIsTrue` for
  the step that reports a fate.

`Handshake_proofs` proves for any addresses, cookies, numbers of packets and update
times of the secrets, the first two also for any delays:

* `TypeCorrect`, from `TypeInv`: the types are inductive only together with
  `CookiesThere` (challenges, responses, acks and game packets carry a cookie) and
  `ClientThere` (so has a client that has answered a challenge, or is connected, or
  restarts).
* `CookieAnswerable`: `Spec => []CookieLifetime`.  The strengthening `LifeInv` says that
  the age of a cookie fits the time of the last update (`StampsFit`: no older than
  the active secret, or no younger) and that no young cookie has lost its secret
  (`YoungIsFresh`).  The second depends on the first at an update: the secret that is
  replaced then has been inactive for longer than `SECRET_UPDATE_TIME`, so its cookies
  are older than that.
* `Moves` and `InSequence`: `OneConnection` and `SequencesAgree`, under the hypothesis
  `PromptPackets` (no packet is under way longer than the time between two restarts).  The strengthening
  `OneInv` says that a connection is made only at the first address and a connected
  client's is the only one (`PhaseInv`, `ConnectedInv`), that acks, game packets and the
  responses of a restart name cookies that are in use (`AckInv`, `AuthorisedInv`), and
  that a response of the first handshake is as old as the last packet of the client, so
  that none is left when a restart begins and takes that cookie away (`FirstInv`).
* `RestartEndsMoved`: `RestartMoved`, from `MovedInv`.  It adds how old the packets of the
  first handshake must be by the time a restart may begin (`StayInv`, `AgainInv`,
  `UnmovedInv`), and has the hypothesis `PromptAnswers` (twice the delay is no longer
  than that time).  These two are what the properties need, not what the code
  guarantees: section 5 says what happens without them.

`Buffers_proofs` is about three containers.  Of `CircularQueue` it proves for any capacity and any elements `Invariance`, `RingSafe`,
`CountTruthful` (a count of producer or consumer is true, whatever threads count besides)
and `Refinement`.  The indices are inductive only with what each thread knows between
two accesses: the producer that its next index is not the consumer's (`ProducerInv`),
the consumer that its element is not the producer's (`ConsumerInv`), and that every
element from head to tail is complete (`FilledInv`).  The distance of two indices
modulo the capacity is worked out once (`Distances`).

Of `ResizableCircularQueue` it proves, for indices of any width
and rings up to any size below the number of indices (`Widths`, what that module
assumes), `ResizableRingSafe`, which is `SlotsInv` (so pops and growing destruct elements
only), and `ResizableRefinement`.  The invariant
(`ResizableInv`) adds to `SlotsInv` that there are never more elements than slots: `SlotsInv`
alone would hold of a ring that has overrun itself.  That an index may be masked before
or after it wraps around, and that rounding up finds a capacity, rest on powers of two
dividing each other (`PowersDivide`, by induction over the exponent); the rest is that
the places of different elements differ (`PlacesDiffer`) and move with the tail
(`PlacesShift`).  Each method is shown to leave a ring and the elements it found, with
one more, without the first few, or all of them (`Leaves`).

Of `TripleBuffer` it proves for any set of values `TripleInvariance` (the three indices
differ, a thread between reading the flags and exchanging them is not confused by
what they were, and only the write buffer is ever half written), `TripleTypeCorrect`,
`TripleOwnBuffers` and `TripleRefinement`: the triple buffer implements `LatestValue`,
step by step (`TripleStepsImplement`): a successful exchange of the reader fetches exactly what the
last successful one of the writer published, and no step but `Reset` goes back.

`LinkedQueue_proofs` proves for any number of nodes and producers, in both modes,
`Invariance`, `ListSafe`, `EmptyTruthful` and `Refinement`.  The invariant says how the
chain of links follows the order of the exchanges of `Head`, with a gap exactly where
a producer stands between exchange and link (`ChainInv`, `LinkInv`), that the node such
a producer writes to is in the list, so not yet deleted (`OrderInv`), and that every
allocated node is in one place (`AllocatedInv`).

`AsyncTask_proofs` proves for any number of threads, owners and automatic tasks, and for
any `QuietShutdown`, `Invariance`, `PoolSafe`, `Synchronized` and `NoWorkWaits`.  The
invariant consists of `PlaceInv` (each piece of work is in exactly one of: the queue, a
thread, the hands of a caller) and of `PoolSide`: neither list has duplicates
(`QueueInv`), who holds the lock (`LockInv`), what a thread in the list of idle ones may be
doing (`ThreadInv`), and that a thread taken out of it is nobody else's until its event is
triggered (`ChosenInv`), which carries the hand-over outside the lock.  It holds in
`AsyncTaskShutdown` too: what fails there is progress.

`ReliableChannel_proofs` proves for any sizes and numbers of messages, any windows and
sequence numbers of any width:

* `TypeCorrect`: `Spec => []TypeOK`.  The types are inductive only with what they depend
  on: the packets of an end whose fate is open are those under way, those the peer is
  working on and those it has yet to tell the fate of (`Accounted`), so that no
  notification is about a packet that does not exist; a later header tells at least
  what an earlier one does (`Told`), so that dropping the fates that became known is
  dropping a prefix; and an end never has more unacknowledged numbers than it gave out
  (`Bounded`), so that the first number of a former channel is one.
  What an operation does bunch by bunch (the parts of a message, the notifications of a
  header, resends, syncs) is unrolled into its steps (`NatInd`, induction for a
  set of natural numbers), so that each step is shown to keep the invariant once.

`ChannelAgreement_proofs` goes on from there, for the same constants and without any
hypothesis:

* `NoError`, `AckedLetIn` and `SequencesRestored`: `NoBunchError`, `AckedMeansLetIn` and
  `SequencesAgree`, until the server opens the channel while bunches of a packet are still
  to be processed (`reused`).  From then on the strengthening does not hold; TLC finds
  that the last two survive in its instance.  None is inductive: that an acknowledged
  bunch is with the peer depends on which packet each bunch was last sent in, and that on
  what resends, lost packets, former channels and the peer's queue did to it; that nothing
  errs depends on all of it, and on which parts of a message the receiver has.
* The strengthening is `Agreement`: there are histories `hs` and `hc`, what each end last
  gave each number to, of which each direction is a `Line`.  On a line the peer
  has everything below the first number that is kept (`Numbered`); each record is of the
  history's bunch, and that is with the peer, or in the packet it is recorded under, or that
  packet is lost (`Recorded`); each bunch in a packet is one that is kept, under
  that packet (`InFlight`); what waits in `InRec` is later, once, in order and of the history
  (`Queued`); and there are never more numbers out than the buffer holds (`Room`), which
  is why a few bits on the wire name one.  A line and its reverse meet in `Turns`: the
  server opens and closes, the client says nothing before it has joined (`JoinTurn`) nor
  once the server may know that it has left (`LeaveTurn`), and a close is the last number
  (`CloseTurn`).  Without these an index that is used again could take a bunch of the
  former channel for one of its own.  Together these are `Agree`.
* `Parts`: what is numbered are the parts of whole messages, one after the other
  (`Chained`), and what the receiver is putting together is the message of the last
  number it processed, up to there (`Reading`, `OpenTurn`, `AnswerTurn`).  So the next
  bunch continues it (`Fits`), which is why neither `ReceivedNextBunch` nor the code behind
  it finds anything to object to.
* The lemmas about one direction (what sending, losing, taking, resending, noting a fate and
  renumbering after a channel each do to a `Line`) are in `ReliableChannel_proofs`, those
  about both in `ChannelAgreement_proofs`.

Assumptions: those named in the modules, which TLC evaluates in every run
(`GCSyncAssumption`, `SeqNumberAssumption`, `HistoryAssumption`, `ConnectionAssumption`,
`ContainersAssumption`, `HandshakeAssumption`, `MCPromptAssumption`, `CircularQueueAssumption`,
`LinkedQueueAssumption`, `ThreadPoolAssumption`, `AsyncTaskAssumption`,
`ChannelAssumption`, `NullAssumption`), and the hypotheses
named above (`ContainersAssumption` stands for those of `TripleBuffer` and
`ResizableCircularQueue`).  The instances of the passing runs satisfy them.

Only model-checked: all liveness (out of the prover's reach), and of the channels
`HandedWhole`, `StaleOnlyIfReused` and the refinement of `ChannelService`.

## 5. Findings

* **`SendWindowRespected`** (`ConnectionWindow`): nothing calls `CanSend` but tests; only
  the connection's time-out keeps the number of packets in flight below the
  window that its comment asks for.
* **`ShutdownCompletes`** (`AsyncTaskShutdown`): `AddQueuedWork` tests `TimeToDie` without
  the lock and not again under it, so a caller may take a thread out of the pool after `Destroy` has seen all threads back; `Destroy` then
  waits, with the lock held, for a thread that needs the lock.
* **`NeverStale`** (`ChannelReuse`): the header of a packet may acknowledge a close, which
  frees the channel index, and the packet carry a client bunch of the old actor behind
  bunches of other channels.  If the game opens an actor channel while one of those is
  handled, the old bunch is taken for the new channel's.  The comment at
  `NetConnection.cpp`:2602 provides for data in flight only where the index is still free.
* **`CountFromAnyThread`** (`CircularQueueCount`): `Count` loads `Tail` and `Head` one after
  the other.  A third thread, which its comment allows, may be told a number that the
  queue never held.

`StaleOnlyIfReused` and `CountIsTrue` show how far the last two go; `AsyncTask` shows what holds all the same: work is neither lost
nor done twice, and with no outside caller `Destroy` ends.

Smaller observations, without a run of their own:

* Through the same gap in `AddQueuedWork` work that a job adds while `Destroy` begins
  lands in the queue after it was emptied, against the `check` in
  `ReturnToPoolOrGetNextJob` (`ThreadingBase.cpp`:785).  The model leaves that `check`
  out, which shipping builds do not compile.
* A temporary channel whose unreliable opening packet is lost is never freed:
  `UNetConnection::ReceivedNak` calls `ReceivedAcks`, which frees it only for the ack
  of a close.
* A restart of the handshake is acknowledged once.  If that ack is lost the client goes
  on asking: the connection's `LastChallengeSuccessAddress` was reset by its first game
  packet and nothing sets it again, so that the retries that the comment in
  `IncomingConnectionless` speaks of do not exist for restarts.  Game packets flow all
  the same.
* A connection that has not yet received a game packet sends the ack again to the
  address of its handshake, also when a restart has moved it; the client, back at the
  old address, may then end a restart although its connection is elsewhere.  The next
  restart heals this; `RestartMoved` is stated for the first change of address.
* Without the bound on delays a late copy of the first response makes a second
  connection, with the same cookie, at the address that the client has left.  If the
  address changes before the first handshake ends, a connection without a client is
  left as well.  Both end by the time-out of a connection.
* A producer of an `Mpsc` `TQueue` between its exchange of `Head` and the linking of
  its node hides items whose `Enqueue` has returned, so that `Dequeue` fails although
  the queue is not empty.  `EmptyUnlessUnlinked` says that this is the only case, and
  `ItemsDelivered` that it passes.
* `TryCollectGarbage` compares the skips with `>`, so that one more collection is
  skipped than the help text of `gc.NumRetriesBeforeForcingGC` says.
* `TResizableCircularQueue::SetCapacity` replaces `Storage` by a move assignment, which
  destructs every slot of the old ring, also those without an element when `Trim`
  shrinks a ring; the model does the same (`strays`).  No element type in this repository
  has a destructor.

## 6. Plan

1. Packet layer: `PacketOrderCache` on top of `Connection`; the rest of
   `UNetConnection`: time-outs, closing, the children.  Channels: merging of bunches,
   temporary opens, the control channel.
2. `AsyncLoading2`: the event graph of packages (imports, barriers, export states),
   queue of requests and flush, below the loop that `GCSync` has.
3. `PacketHandler` (buffering, several components), `DDoSDetection`; progress of the
   handshake once losses end.
4. `LockFreeList` (ABA counter) with an abstract stack.
5. `TaskGraph` (prerequisites and closing of subsequents), `HttpThread` (manager,
   thread, cancellation, retry), render fences, message router, gameplay tasks,
   image write queue.
6. Proofs: that messages stay whole and reach the actor they were for (`HandedWhole`,
   `StaleOnlyIfReused`), and the refinement of `ChannelService`, on top of `Agreement`.

## 7. Not modelled

Rendering, audio, animation, physics, UI, assets, platform layers and the game
framework: numeric or data-driven code with little control of its own, or
wrappers around an operating system or a driver.  `PROJECT.json` names each with
its reason.
