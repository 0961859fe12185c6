---------------------------- MODULE CircularQueue ----------------------------
(***************************************************************************)
(* TCircularQueue (Core/Public/Containers/CircularQueue.h) on its          *)
(* TCircularBuffer: one producer and one consumer thread share a ring and  *)
(* two indices without a lock.  The indices are atomic and sequentially    *)
(* consistent; one action is one access to an index or to an element that  *)
(* another thread may access too.  Local variables are reset when they go  *)
(* out of scope.  Count may be called by any thread.                       *)
(***************************************************************************)
EXTENDS Integers, Sequences

CONSTANTS
  Capacity,      \* of the buffer: one more than the queue can hold
  Item, NoItem,
  Producer, Consumer,
  Counters       \* the threads that call Count

ASSUME CircularQueueAssumption ==
  /\ Capacity \in Nat \ {0}
  /\ NoItem \notin Item
  /\ Producer # Consumer

VARIABLES
  buffer,      \* Buffer; NoItem where an element was moved away
  head,        \* Head: the first element
  tail,        \* Tail: the first free place
  ppc,         \* where the producer is in Enqueue
  element,     \* what it adds
  cpc,         \* where the consumer is in Dequeue or Empty
  outElement,  \* what Dequeue has read
  loadedTail,  \* the Tail that Empty has loaded
  counting,    \* threads inside Count
  countTail,   \* the Tail they have loaded
  taken,       \* auxiliary: the element handed out last
  trueCounts   \* auxiliary: the sizes of the queue since a call of Count began

queueVars    == <<buffer, head, tail>>
producerVars == <<ppc, element>>
consumerVars == <<cpc, outElement, loadedTail, taken>>
countVars    == <<counting, countTail, trueCounts>>
vars == <<queueVars, producerVars, consumerVars, countVars>>

Index == 0 .. Capacity - 1

\* Mutant: the index is not masked.
GetNextIndex_NoMask(i) == i + 1

GetNextIndex(i) == (i + 1) % Capacity

\* The number of elements between the indices.
Distance(h, t) == (t - h) % Capacity

Size == Distance(head, tail)

\* The size has changed, and the calls of Count in progress may see it.
Observe ==
  trueCounts' = [c \in Counters |->
    IF c \in counting THEN trueCounts[c] \cup {Size'} ELSE trueCounts[c]]

TypeOK ==
  /\ buffer \in [Index -> Item \cup {NoItem}]
  /\ head \in Index
  /\ tail \in Index
  /\ ppc \in {"idle", "write", "store"}
  /\ element \in Item \cup {NoItem}
  /\ cpc \in {"idle", "read", "drop", "store", "empty"}
  /\ outElement \in Item \cup {NoItem}
  /\ loadedTail \in Index
  /\ counting \in SUBSET Counters
  /\ countTail \in [Counters -> Index]
  /\ taken \in Item \cup {NoItem}
  /\ trueCounts \in [Counters -> SUBSET Index]

Init ==
  /\ buffer = [i \in Index |-> NoItem]
  /\ head = 0
  /\ tail = 0
  /\ ppc = "idle"
  /\ element = NoItem
  /\ cpc = "idle"
  /\ outElement = NoItem
  /\ loadedTail = 0
  /\ counting = {}
  /\ countTail = [c \in Counters |-> 0]
  /\ taken = NoItem
  /\ trueCounts = [c \in Counters |-> {}]

-----------------------------------------------------------------------------
(* Enqueue.  A full queue refuses the element and nothing changes.         *)

\* Mutant: all of the places are used.
LoadHead_Full ==
  /\ ppc = "idle"
  /\ Producer \notin counting
  /\ \E x \in Item : element' = x
  /\ ppc' = "write"
  /\ UNCHANGED <<queueVars, consumerVars, countVars>>

LoadHead ==
  /\ ppc = "idle"
  /\ Producer \notin counting
  /\ GetNextIndex(tail) # head
  /\ \E x \in Item : element' = x
  /\ ppc' = "write"
  /\ UNCHANGED <<queueVars, consumerVars, countVars>>

WriteElement ==
  /\ ppc = "write"
  /\ buffer' = [buffer EXCEPT ![tail] = element]
  /\ ppc' = "store"
  /\ UNCHANGED <<head, tail, element, consumerVars, countVars>>

StoreTail ==
  /\ ppc = "store"
  /\ tail' = GetNextIndex(tail)
  /\ ppc' = "idle"
  /\ element' = NoItem
  /\ UNCHANGED <<buffer, head, consumerVars, counting, countTail>>
  /\ Observe

-----------------------------------------------------------------------------
(* Dequeue, which hands out the element or drops it, and Empty.            *)

\* Mutant: no test for an empty queue.
LoadTail_NoTest ==
  /\ cpc = "idle"
  /\ Consumer \notin counting
  /\ cpc' \in {"read", "drop"}
  /\ UNCHANGED <<queueVars, producerVars, outElement, loadedTail, taken, countVars>>

LoadTail ==
  /\ cpc = "idle"
  /\ Consumer \notin counting
  /\ head # tail
  /\ cpc' \in {"read", "drop"}
  /\ UNCHANGED <<queueVars, producerVars, outElement, loadedTail, taken, countVars>>

\* MoveTemp leaves an element behind that is good for nothing.
ReadElement ==
  /\ cpc = "read"
  /\ outElement' = buffer[head]
  /\ buffer' = [buffer EXCEPT ![head] = NoItem]
  /\ cpc' = "store"
  /\ UNCHANGED <<head, tail, producerVars, loadedTail, taken, countVars>>

StoreHead ==
  /\ \/ cpc = "store" /\ taken' = outElement
     \/ cpc = "drop" /\ UNCHANGED taken
  /\ head' = GetNextIndex(head)
  /\ cpc' = "idle"
  /\ outElement' = NoItem
  /\ UNCHANGED <<buffer, tail, producerVars, loadedTail, counting, countTail>>
  /\ Observe

LoadTailToEmpty ==
  /\ cpc = "idle"
  /\ Consumer \notin counting
  /\ loadedTail' = tail
  /\ cpc' = "empty"
  /\ UNCHANGED <<queueVars, producerVars, outElement, taken, countVars>>

Empty ==
  /\ cpc = "empty"
  /\ head' = loadedTail
  /\ loadedTail' = 0
  /\ cpc' = "idle"
  /\ UNCHANGED <<buffer, tail, producerVars, outElement, taken, counting, countTail>>
  /\ Observe

-----------------------------------------------------------------------------
(* Count: Tail is loaded first, then Head.                                 *)

LoadTailToCount(c) ==
  /\ c \notin counting
  /\ c = Producer => ppc = "idle"
  /\ c = Consumer => cpc = "idle"
  /\ counting' = counting \cup {c}
  /\ countTail' = [countTail EXCEPT ![c] = tail]
  /\ trueCounts' = [trueCounts EXCEPT ![c] = {Size}]
  /\ UNCHANGED <<queueVars, producerVars, consumerVars>>

\* Mutant: a negative difference is not corrected.
CountResult_Uncorrected(c) == countTail[c] - head

\* A negative difference is corrected by the capacity.
CountResult(c) == Distance(head, countTail[c])

Count(c) ==
  /\ c \in counting
  /\ counting' = counting \ {c}
  /\ countTail' = [countTail EXCEPT ![c] = 0]
  /\ trueCounts' = [trueCounts EXCEPT ![c] = {}]
  /\ UNCHANGED <<queueVars, producerVars, consumerVars>>

Next ==
  \/ LoadHead
  \/ WriteElement
  \/ StoreTail
  \/ LoadTail
  \/ ReadElement
  \/ StoreHead
  \/ LoadTailToEmpty
  \/ Empty
  \/ \E c \in Counters : LoadTailToCount(c) \/ Count(c)

Spec == Init /\ [][Next]_vars

-----------------------------------------------------------------------------
(* Properties.                                                             *)

\* The two threads never touch the same element at the same time (Enqueue
\* writes Buffer[Tail] and Dequeue moves Buffer[Head] without a lock).
ElementsApart == ppc \in {"write", "store"} /\ cpc \in {"read", "store", "drop"} => head # tail

\* The indices stay inside the buffer and the threads off each other's elements.
RingInv == TypeOK /\ ElementsApart

\* The elements in the queue; the first may be on its way out.
Elements ==
  [i \in 1 .. Size |->
     IF i = 1 /\ cpc = "store" THEN outElement ELSE buffer[(head + i - 1) % Capacity]]

\* Elements come out in the order in which they went in, each of them once and
\* not before it is complete, while Enqueue, Dequeue and Empty interleave.
Fifo == INSTANCE FifoQueue WITH queue <- Elements

ImplementsFifo == Fifo!Spec

\* A call of Count by thread c returns the size the queue had at some moment of the
\* call.
CountsTruly(c) == c \in counting /\ c \notin counting' => CountResult(c) \in trueCounts[c]

\* Count, called by the producer or by the consumer, returns a "Number of queued
\* elements" (CircularQueue.h 46) that the queue did have during the call, although
\* the other thread goes on between the two loads.
CountIsTrue == [][\A c \in Counters \cap {Producer, Consumer} : CountsTruly(c)]_vars

\* The same for every thread, since Count "Can be called from any thread" (43).  A
\* third one may load Tail, be overtaken by Head, and get a difference that is
\* corrected to a size that the queue never had.
CountFromAnyThread == [][\A c \in Counters : CountsTruly(c)]_vars
=============================================================================
