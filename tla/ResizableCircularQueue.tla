----------------------- MODULE ResizableCircularQueue ------------------------
(***************************************************************************)
(* TResizableCircularQueue (Net/Core ResizableCircularQueue.h): a ring     *)
(* whose indices run freely, wrap around with the width of IndexT and are  *)
(* masked on access, and which grows and shrinks by powers of two.  It is  *)
(* the AckRecord of FNetPacketNotify.  Elements have a destructor here,    *)
(* which a pop must call, and a move assignment of the storage calls for   *)
(* every slot; for the others nothing else changes.                        *)
(***************************************************************************)
EXTENDS Integers, Sequences

CONSTANTS
  LogIndexCount,    \* 32: the bits of IndexT
  LogMaxCapacity,   \* bound: the largest capacity is 2^LogMaxCapacity
  Item,
  Raw               \* memory without an element

ResizableCircularQueueAssumption ==
  /\ LogIndexCount \in Nat
  /\ LogMaxCapacity \in 0 .. LogIndexCount - 1
  /\ Raw \notin Item

VARIABLES
  storage,   \* Storage: the slot with index i is storage[i + 1]
  head,      \* Head: index of the next element to add
  tail,      \* Tail: index of the oldest element
  strays     \* auxiliary: what has destructed a slot without an element

vars == <<storage, head, tail, strays>>

\* The powers of two up to the number of indices.
TwoTo[k \in 0 .. LogIndexCount] == IF k = 0 THEN 1 ELSE 2 * TwoTo[k - 1]

IndexCount == TwoTo[LogIndexCount]
Capacities == {TwoTo[k] : k \in 0 .. LogMaxCapacity}

\* The queue as a value, for the methods that call others.
Queue == [storage |-> storage, head |-> head, tail |-> tail, strays |-> strays]

Become(q) ==
  storage' = q.storage /\ head' = q.head /\ tail' = q.tail /\ strays' = q.strays

AllocatedCapacity(q) == Len(q.storage)

Count(q) == (q.head - q.tail) % IndexCount

\* IndexMask is the capacity less one whenever a slot is accessed.
Masked(q, i) == i % AllocatedCapacity(q)

RawSlots(n) == [i \in 1 .. n |-> Raw]

\* The destructor is called for each of these slots.
Strays(q, slots, what) ==
  IF \E i \in slots : i \in DOMAIN q.storage => q.storage[i] = Raw THEN {what} ELSE {}

TypeOK ==
  /\ storage \in Seq(Item \cup {Raw})
  /\ Len(storage) \in {0} \cup Capacities
  /\ head \in 0 .. IndexCount - 1
  /\ tail \in 0 .. IndexCount - 1
  /\ strays \subseteq {"pop", "grow", "shrink"}

Init == storage = << >> /\ head = 0 /\ tail = 0 /\ strays = {}

-----------------------------------------------------------------------------
(* The methods.                                                            *)

\* Mutant: the required capacity is taken as it is.
RoundUpToPowerOfTwo_Exact(n) == n

RoundUpToPowerOfTwo(n) ==
  CHOOSE p \in Capacities : p >= n /\ (p = 1 \/ p \div 2 < n)

\* Mutant: the two pieces of a ring that wraps around are swapped.
CopyOfElements_Swapped(q) ==
  LET first == Masked(q, q.tail)
      end   == Masked(q, q.head)
  IN  IF Count(q) > 0 /\ first >= end
        THEN SubSeq(q.storage, 1, end) \o SubSeq(q.storage, first + 1, AllocatedCapacity(q))
        ELSE SubSeq(q.storage, first + 1, first + Count(q))

\* The elements from the oldest on.  The two masked indices are equal both
\* when the queue is full and when it is empty.
CopyOfElements(q) ==
  LET first == Masked(q, q.tail)
      end   == Masked(q, q.head)
  IN  IF Count(q) > 0 /\ first >= end
        THEN SubSeq(q.storage, first + 1, AllocatedCapacity(q)) \o SubSeq(q.storage, 1, end)
        ELSE SubSeq(q.storage, first + 1, first + Count(q))

\* The old storage is overwritten by a move assignment, which destructs all its
\* slots, the copied elements and whatever lies between them.
SetCapacity(q, required) ==
  LET capacity == RoundUpToPowerOfTwo(required)
  IN  IF capacity = AllocatedCapacity(q) \/ capacity < Count(q)
        THEN q
        ELSE IF AllocatedCapacity(q) > 0
          THEN [storage |-> CopyOfElements(q) \o RawSlots(capacity - Count(q)),
                head    |-> Count(q),
                tail    |-> 0,
                strays  |-> q.strays \cup
                              Strays(q, DOMAIN q.storage,
                                     IF capacity > AllocatedCapacity(q) THEN "grow" ELSE "shrink")]
          ELSE [q EXCEPT !.storage = RawSlots(capacity)]

\* Mutant: a full queue is taken for one that does not wrap around.
Popped_FullAsPlain(q, n) ==
  LET first == Masked(q, q.tail)
      end   == Masked(q, q.tail + n)
  IN  IF first > end
        THEN {i \in DOMAIN q.storage : i > first \/ i <= end}
        ELSE first + 1 .. first + n

\* The slots whose elements PopNoCheck destructs.
Popped(q, n) ==
  LET first == Masked(q, q.tail)
      end   == Masked(q, q.tail + n)
  IN  IF first >= end
        THEN {i \in DOMAIN q.storage : i > first \/ i <= end}
        ELSE first + 1 .. first + n

PopNoCheck(q, n) ==
  IF n = 0 THEN q
  ELSE [q EXCEPT
         !.storage = [i \in DOMAIN @ |-> IF i \in Popped(q, n) THEN Raw ELSE @[i]],
         !.tail = (@ + n) % IndexCount,
         !.strays = @ \cup Strays(q, Popped(q, n), "pop")]

-----------------------------------------------------------------------------

Enqueue ==
  /\ Count(Queue) < TwoTo[LogMaxCapacity]
  /\ LET required == Count(Queue) + 1
         q == IF required > AllocatedCapacity(Queue) THEN SetCapacity(Queue, required)
                                                     ELSE Queue
     IN  \E x \in Item :
           Become([q EXCEPT !.storage[Masked(q, q.head) + 1] = x,
                            !.head = (@ + 1) % IndexCount])

Pop == \E n \in 1 .. Count(Queue) : Become(PopNoCheck(Queue, n))

Reset == Become([PopNoCheck(Queue, Count(Queue)) EXCEPT !.head = 0, !.tail = 0])

Empty ==
  Become([PopNoCheck(Queue, Count(Queue)) EXCEPT !.storage = << >>, !.head = 0, !.tail = 0])

Trim == IF Count(Queue) = 0 THEN Empty ELSE Become(SetCapacity(Queue, Count(Queue)))

Next == Enqueue \/ Pop \/ Trim \/ Reset \/ Empty

Spec == Init /\ [][Next]_vars

-----------------------------------------------------------------------------
(* Properties.                                                             *)

\* The slots that hold an element are those between the indices: a pop neither
\* forgets to destruct an element nor destructs another one, and Enqueue never
\* constructs one on top of another.
LiveSlots ==
  {i \in DOMAIN storage : storage[i] # Raw}
    = {Masked(Queue, tail + k) + 1 : k \in 0 .. Count(Queue) - 1}

\* A destructor never runs where there is no element, except in a Trim that
\* shrinks the ring: neither in a pop nor when Enqueue lets it grow.
OnlyTrimStrays == strays \subseteq {"shrink"}

\* The indices fit their width, the capacity is a power of two, exactly the slots
\* between the indices hold an element, and only these are destructed by pops and
\* by growing; for shrinking that would be false.
SlotsInv == TypeOK /\ LiveSlots /\ OnlyTrimStrays

\* Elements leave in the order in which they came, across any wrap-around of the
\* indices and while the ring is copied to a larger or smaller one.
Fifo == INSTANCE FifoQueue WITH
          NoItem <- Raw,
          queue  <- [k \in 1 .. Count(Queue) |-> storage[Masked(Queue, tail + k - 1) + 1]],
          taken  <- Raw

ImplementsFifo == Fifo!Spec
=============================================================================
