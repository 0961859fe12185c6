------------------------------ MODULE FifoQueue ------------------------------
(***************************************************************************)
(* What the queues of Core and Net promise: items leave in the order in    *)
(* which they came, each of them once, and only the consumer drops any.    *)
(* CircularQueue, LinkedQueue and ResizableCircularQueue implement this.   *)
(***************************************************************************)
EXTENDS Integers, Sequences

CONSTANTS Item, NoItem

VARIABLES
  queue,     \* the items in the queue, the oldest first
  taken      \* the item handed out last

vars == <<queue, taken>>

Init == queue = << >> /\ taken = NoItem

Put ==
  /\ \E x \in Item : queue' = Append(queue, x)
  /\ UNCHANGED taken

Take ==
  /\ queue # << >>
  /\ taken' = Head(queue)
  /\ queue' = Tail(queue)

\* Some of the oldest items are dropped.
Drop ==
  /\ \E n \in 1 .. Len(queue) : queue' = SubSeq(queue, n + 1, Len(queue))
  /\ UNCHANGED taken

Next == Put \/ Take \/ Drop

Spec == Init /\ [][Next]_vars
=============================================================================
