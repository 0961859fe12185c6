----------------------------- MODULE LinkedQueue -----------------------------
(***************************************************************************)
(* TQueue (Core/Public/Containers/Queue.h): an unbounded linked list that  *)
(* one or several producers extend at its head while one consumer takes    *)
(* nodes away at its tail and deletes them.  Tail points to a node whose   *)
(* item has been taken; the oldest item is in the node after it.           *)
(*                                                                         *)
(* Deleted nodes are allocated again, so that a stale pointer would hit    *)
(* somebody else's node.  In Spsc mode the exchange of Head is a load and  *)
(* a store; the only producer is alone in using Head, so that this is the  *)
(* same step.                                                              *)
(***************************************************************************)
EXTENDS Integers, Sequences, SequencesExt

CONSTANTS
  Node,        \* the memory for nodes
  Null,        \* nullptr
  Item, NoItem,
  Producers

ASSUME LinkedQueueAssumption ==
  /\ Node # {}
  /\ Null \notin Node
  /\ NoItem \notin Item

VARIABLES
  allocated,   \* nodes that exist
  nextNode,    \* NextNode of each node
  item,        \* Item of each node
  head,        \* Head
  tail,        \* Tail
  ppc,         \* where each producer is in Enqueue
  newNode,     \* its NewNode
  oldHead,     \* its OldHead
  cpc,         \* where the consumer is in Dequeue or Pop
  popped,      \* Popped
  oldTail,     \* OldTail
  taken,       \* auxiliary: the item handed out last
  order        \* auxiliary: the nodes in the order in which they became Head

listVars     == <<allocated, nextNode, item>>
producerVars == <<head, ppc, newNode, oldHead>>
consumerVars == <<tail, cpc, popped, oldTail, taken>>
vars == <<listVars, producerVars, consumerVars, order>>

TypeOK ==
  /\ allocated \in SUBSET Node
  /\ nextNode \in [Node -> Node \cup {Null}]
  /\ item \in [Node -> Item \cup {NoItem}]
  /\ head \in Node
  /\ tail \in Node
  /\ ppc \in [Producers -> {"idle", "exchange", "link"}]
  /\ newNode \in [Producers -> Node \cup {Null}]
  /\ oldHead \in [Producers -> Node \cup {Null}]
  /\ cpc \in {"idle", "dequeue", "pop", "delete"}
  /\ popped \in Node \cup {Null}
  /\ oldTail \in Node \cup {Null}
  /\ taken \in Item \cup {NoItem}
  /\ order \in Seq(Node)

Init ==
  /\ \E n \in Node :
       /\ allocated = {n}
       /\ head = n
       /\ tail = n
  /\ nextNode = [n \in Node |-> Null]
  /\ item = [n \in Node |-> NoItem]
  /\ ppc = [p \in Producers |-> "idle"]
  /\ newNode = [p \in Producers |-> Null]
  /\ oldHead = [p \in Producers |-> Null]
  /\ cpc = "idle"
  /\ popped = Null
  /\ oldTail = Null
  /\ taken = NoItem
  /\ order = << >>

-----------------------------------------------------------------------------
(* Enqueue.                                                                *)

AllocateNode(p) ==
  /\ ppc[p] = "idle"
  /\ \E n \in Node \ allocated, x \in Item :
       /\ allocated' = allocated \cup {n}
       /\ nextNode' = [nextNode EXCEPT ![n] = Null]
       /\ item' = [item EXCEPT ![n] = x]
       /\ newNode' = [newNode EXCEPT ![p] = n]
  /\ ppc' = [ppc EXCEPT ![p] = "exchange"]
  /\ UNCHANGED <<head, oldHead, consumerVars, order>>

ExchangeHead(p) ==
  /\ ppc[p] = "exchange"
  /\ oldHead' = [oldHead EXCEPT ![p] = head]
  /\ head' = newNode[p]
  /\ order' = Append(order, newNode[p])
  /\ ppc' = [ppc EXCEPT ![p] = "link"]
  /\ UNCHANGED <<listVars, newNode, consumerVars>>

\* Mutant: Head is read again instead of using what the exchange returned.
LinkNode_AfterHead(p) ==
  /\ ppc[p] = "link"
  /\ nextNode' = [nextNode EXCEPT ![head] = newNode[p]]
  /\ newNode' = [newNode EXCEPT ![p] = Null]
  /\ oldHead' = [oldHead EXCEPT ![p] = Null]
  /\ ppc' = [ppc EXCEPT ![p] = "idle"]
  /\ UNCHANGED <<allocated, item, head, consumerVars, order>>

\* Only now can the consumer get to the new node and to those after it.
LinkNode(p) ==
  /\ ppc[p] = "link"
  /\ nextNode' = [nextNode EXCEPT ![oldHead[p]] = newNode[p]]
  /\ newNode' = [newNode EXCEPT ![p] = Null]
  /\ oldHead' = [oldHead EXCEPT ![p] = Null]
  /\ ppc' = [ppc EXCEPT ![p] = "idle"]
  /\ UNCHANGED <<allocated, item, head, consumerVars, order>>

-----------------------------------------------------------------------------
(* Dequeue and Pop (Empty is Pop until it fails).                          *)

\* Without a next node they return false.
LoadNextNode ==
  /\ cpc = "idle"
  /\ nextNode[tail] # Null
  /\ popped' = nextNode[tail]
  /\ cpc' \in {"dequeue", "pop"}
  /\ UNCHANGED <<listVars, producerVars, tail, oldTail, taken, order>>

\* Mutant: the item stays in the node, and the next Dequeue finds it there.
TakeItem_FromTail ==
  /\ \/ cpc = "dequeue" /\ taken' = item[tail]
     \/ cpc = "pop" /\ UNCHANGED taken
  /\ oldTail' = tail
  /\ tail' = popped
  /\ popped' = Null
  /\ order' = Tail(order)
  /\ cpc' = "delete"
  /\ UNCHANGED <<listVars, producerVars>>

\* Mutant: Tail is moved past the popped node.
TakeItem_TailTooFar ==
  /\ \/ cpc = "dequeue" /\ taken' = item[popped]
     \/ cpc = "pop" /\ UNCHANGED taken
  /\ oldTail' = tail
  /\ tail' = nextNode[popped]
  /\ item' = [item EXCEPT ![popped] = NoItem]
  /\ popped' = Null
  /\ order' = Tail(order)
  /\ cpc' = "delete"
  /\ UNCHANGED <<allocated, nextNode, producerVars>>

\* The item is taken or dropped, and its node becomes the one Tail points to.
TakeItem ==
  /\ \/ cpc = "dequeue" /\ taken' = item[popped]
     \/ cpc = "pop" /\ UNCHANGED taken
  /\ oldTail' = tail
  /\ tail' = popped
  /\ item' = [item EXCEPT ![popped] = NoItem]
  /\ popped' = Null
  /\ order' = Tail(order)
  /\ cpc' = "delete"
  /\ UNCHANGED <<allocated, nextNode, producerVars>>

\* Mutant: the wrong one of the two nodes is deleted.
DeleteOldTail_Popped ==
  /\ cpc = "delete"
  /\ allocated' = allocated \ {tail}
  /\ oldTail' = Null
  /\ cpc' = "idle"
  /\ UNCHANGED <<nextNode, item, producerVars, tail, popped, taken, order>>

DeleteOldTail ==
  /\ cpc = "delete"
  /\ allocated' = allocated \ {oldTail}
  /\ oldTail' = Null
  /\ cpc' = "idle"
  /\ UNCHANGED <<nextNode, item, producerVars, tail, popped, taken, order>>

-----------------------------------------------------------------------------

ProducerStep(p) == ExchangeHead(p) \/ LinkNode(p)

ConsumerStep == LoadNextNode \/ TakeItem \/ DeleteOldTail

Next ==
  \/ ConsumerStep
  \/ \E p \in Producers : AllocateNode(p) \/ ProducerStep(p)

Spec == Init /\ [][Next]_vars

\* An Enqueue that has begun ends, and the consumer keeps calling Dequeue.
Fairness == WF_vars(ConsumerStep) /\ \A p \in Producers : WF_vars(ProducerStep(p))

FairSpec == Spec /\ Fairness

-----------------------------------------------------------------------------
(* Properties.                                                             *)

\* Every node is accounted for: it is Tail, in the queue, about to be added or
\* about to be deleted.  So nothing leaks, and the node that a producer still
\* has to link its own to has not been deleted by the consumer.
NodesAccounted ==
  /\ allocated = {tail} \cup ToSet(order)
                   \cup {newNode[p] : p \in {q \in Producers : ppc[q] # "idle"}}
                   \cup (IF cpc = "delete" THEN {oldTail} ELSE {})
  /\ \A p \in Producers : ppc[p] = "link" => oldHead[p] \in {tail} \cup ToSet(order)

\* The list holds together.
ListInv == TypeOK /\ NodesAccounted

\* The items leave in the order in which the producers exchanged Head, each of
\* them once, although the list is broken wherever a producer has not linked yet.
Fifo == INSTANCE FifoQueue WITH queue <- [i \in DOMAIN order |-> item[order[i]]]

ImplementsFifo == Fifo!Spec

\* No item stays in the queue for ever, though later ones may arrive all the time.
ItemsDelivered ==
  \A n \in Node : n \in ToSet(order) ~> n \notin ToSet(order)

\* Dequeue returns "false if the queue was empty" (65 of the header).  It does so
\* with items in the queue, too, some of them of producers whose Enqueue has
\* returned, but only while the producer of the oldest item is about to link it.
EmptyUnlessUnlinked ==
  cpc = "idle" /\ nextNode[tail] = Null /\ order # << >> =>
    \E p \in Producers : ppc[p] = "link" /\ newNode[p] = Head(order)
=============================================================================
