------------------------- MODULE LinkedQueue_proofs --------------------------
(***************************************************************************)
(* LinkedQueue for any number of producers and any memory: the inductive   *)
(* invariant of the list with its gaps, and that it implements FifoQueue.  *)
(***************************************************************************)
EXTENDS LinkedQueue, SequenceTheorems, TLAPS

\* The node before the i-th one in the queue.
Before(i) == IF i = 1 THEN tail ELSE order[i - 1]

InList(n) == n = tail \/ \E i \in 1 .. Len(order) : order[i] = n

\* No node is in the list twice, Head is its last node, and nothing follows Head.
OrderInv ==
  /\ \A i, j \in 1 .. Len(order) : order[i] = order[j] => i = j
  /\ \A i \in 1 .. Len(order) : order[i] # tail
  /\ head = IF order = << >> THEN tail ELSE order[Len(order)]
  /\ nextNode[head] = Null

\* A node points to the one after it, or its producer is still about to link that.
ChainInv ==
  \A i \in 1 .. Len(order) :
    \/ nextNode[Before(i)] = order[i]
    \/ /\ nextNode[Before(i)] = Null
       /\ \E p \in Producers : ppc[p] = "link" /\ newNode[p] = order[i]

\* A producer links its node to the one before it; a node that it has not yet put
\* in the list is nobody else's.
LinkInv ==
  \A p \in Producers :
    /\ ppc[p] = "exchange" =>
         /\ newNode[p] \in Node
         /\ ~InList(newNode[p])
         /\ nextNode[newNode[p]] = Null
         /\ item[newNode[p]] \in Item
    /\ ppc[p] = "link" =>
         \E i \in 1 .. Len(order) :
           newNode[p] = order[i] /\ oldHead[p] = Before(i) /\ nextNode[Before(i)] = Null
    /\ \A q \in Producers :
         p # q /\ ppc[p] # "idle" /\ ppc[q] # "idle" => newNode[p] # newNode[q]

\* What the consumer has popped is the first node, and what it deletes is out of
\* everybody's reach.
ConsumerInv ==
  /\ cpc \in {"dequeue", "pop"} =>
       order # << >> /\ popped = order[1] /\ nextNode[tail] = order[1]
  /\ cpc = "delete" =>
       /\ oldTail \in Node
       /\ ~InList(oldTail)
       /\ \A p \in Producers : ppc[p] # "idle" => newNode[p] # oldTail

ItemInv == \A i \in 1 .. Len(order) : item[order[i]] \in Item

\* No node is lost, and none is used that is not allocated.
AllocatedInv ==
  \A n \in Node :
    n \in allocated <=>
      \/ InList(n)
      \/ \E p \in Producers : ppc[p] # "idle" /\ newNode[p] = n
      \/ cpc = "delete" /\ oldTail = n

Inv ==
  /\ TypeOK
  /\ OrderInv
  /\ ChainInv
  /\ LinkInv
  /\ ConsumerInv
  /\ ItemInv
  /\ AllocatedInv

LEMMA InvImplies == Inv => ListInv
<1> SUFFICES ASSUME Inv PROVE ListInv
  OBVIOUS
<1> USE DEF Inv
<1>1. order \in Seq(Node) /\ Len(order) \in Nat /\ DOMAIN order = 1 .. Len(order)
  BY LenProperties DEF TypeOK
<1>2. \A n : InList(n) <=> n \in {tail} \cup ToSet(order)
  BY <1>1 DEF InList, ToSet
<1>3. tail \in Node /\ \A i \in 1 .. Len(order) : order[i] \in Node
  BY <1>1, ElementOfSeq DEF TypeOK
<1>4. ASSUME NEW p \in Producers, ppc[p] # "idle" PROVE newNode[p] \in Node
  BY <1>3, <1>4 DEF TypeOK, LinkInv
<1>5. allocated = {tail} \cup ToSet(order)
                   \cup {newNode[p] : p \in {q \in Producers : ppc[q] # "idle"}}
                   \cup (IF cpc = "delete" THEN {oldTail} ELSE {})
  <2> DEFINE A == {tail} \cup ToSet(order)
                   \cup {newNode[p] : p \in {q \in Producers : ppc[q] # "idle"}}
                   \cup (IF cpc = "delete" THEN {oldTail} ELSE {})
  <2>1. A \subseteq Node
    BY <1>2, <1>3, <1>4 DEF InList, ConsumerInv
  <2>2. \A n \in Node : n \in A <=> n \in allocated
    BY <1>2 DEF AllocatedInv
  <2> QED
    BY <2>1, <2>2 DEF TypeOK
<1>6. ASSUME NEW p \in Producers, ppc[p] = "link" PROVE oldHead[p] \in {tail} \cup ToSet(order)
  <2>1. PICK i \in 1 .. Len(order) : oldHead[p] = Before(i)
    BY <1>6 DEF LinkInv
  <2>2. i = 1 \/ i - 1 \in 1 .. Len(order)
    BY <1>1
  <2> QED
    BY <1>2, <2>1, <2>2 DEF Before, InList
<1> QED
  BY <1>5, <1>6 DEF ListInv, NodesAccounted

LEMMA InitInv == Init => Inv
<1> SUFFICES ASSUME Init PROVE Inv
  OBVIOUS
<1>1. order = << >> /\ Len(order) = 0 /\ order \in Seq(Node)
  BY EmptySeq DEF Init
<1>2. 1 .. Len(order) = {}
  BY <1>1
<1>3. PICK n \in Node : allocated = {n} /\ head = n /\ tail = n
  BY DEF Init
<1> QED
  BY <1>1, <1>2, <1>3
  DEF Init, Inv, TypeOK, OrderInv, ChainInv, LinkInv, ConsumerInv, ItemInv, AllocatedInv, InList

-----------------------------------------------------------------------------
(* Every step preserves the invariant.                                     *)

\* The list in the terms the steps need: its nodes are different ones.
LEMMA ListFacts ==
  ASSUME Inv
  PROVE  /\ order \in Seq(Node) /\ Len(order) \in Nat
         /\ order = << >> <=> Len(order) = 0
         /\ Null \notin Node
         /\ \A i \in 1 .. Len(order) :
              /\ order[i] \in Node /\ order[i] # Null /\ InList(order[i])
              /\ Before(i) \in Node /\ InList(Before(i)) /\ Before(i) # head
         /\ \A i, j \in 1 .. Len(order) : Before(i) = Before(j) => i = j
<1> USE DEF Inv
<1>1. order \in Seq(Node) /\ Len(order) \in Nat /\ (order = << >> <=> Len(order) = 0)
  BY LenProperties, EmptySeq DEF TypeOK
<1>2. Null \notin Node
  BY LinkedQueueAssumption DEF LinkedQueueAssumption
<1>3. \A i \in 1 .. Len(order) : order[i] \in Node
  BY <1>1, ElementOfSeq
<1>4. tail \in Node
  BY DEF TypeOK
<1>5. \A i \in 1 .. Len(order) : i = 1 \/ i - 1 \in 1 .. Len(order)
  BY <1>1
<1>6. ASSUME NEW i \in 1 .. Len(order)
      PROVE  Before(i) \in Node /\ InList(Before(i)) /\ Before(i) # head
  <2>1. CASE i = 1
    BY <1>1, <1>4, <2>1 DEF Before, InList, OrderInv
  <2>2. CASE i # 1
    <3>1. i - 1 \in 1 .. Len(order) /\ i - 1 # Len(order) /\ Len(order) \in 1 .. Len(order)
      BY <1>1, <2>2
    <3>2. Before(i) = order[i - 1] /\ head = order[Len(order)]
      BY <1>1, <2>2, <3>1 DEF Before, OrderInv
    <3> QED
      BY <1>3, <3>1, <3>2 DEF InList, OrderInv
  <2> QED
    BY <2>1, <2>2
<1>7. ASSUME NEW i \in 1 .. Len(order), NEW j \in 1 .. Len(order), Before(i) = Before(j)
      PROVE  i = j
  <2>1. CASE i = 1 \/ j = 1
    BY <1>5, <1>7, <2>1 DEF Before, OrderInv
  <2>2. CASE i # 1 /\ j # 1
    <3>1. i - 1 \in 1 .. Len(order) /\ j - 1 \in 1 .. Len(order)
      BY <1>5, <2>2
    <3>2. order[i - 1] = order[j - 1]
      BY <1>7, <2>2 DEF Before
    <3>3. i - 1 = j - 1
      BY <3>1, <3>2 DEF OrderInv
    <3> QED
      BY <1>1, <3>3
  <2> QED
    BY <2>1, <2>2
<1> QED
  BY <1>1, <1>2, <1>3, <1>6, <1>7 DEF InList

\* A new node comes from memory that nothing refers to.
LEMMA AllocateNodeInv ==
  ASSUME Inv, NEW p \in Producers, AllocateNode(p) PROVE Inv'
<1> USE DEF Inv
<1>1. PICK n \in Node \ allocated, x \in Item :
        /\ allocated' = allocated \cup {n}
        /\ nextNode' = [nextNode EXCEPT ![n] = Null]
        /\ item' = [item EXCEPT ![n] = x]
        /\ newNode' = [newNode EXCEPT ![p] = n]
  BY DEF AllocateNode
<1>2. /\ ppc[p] = "idle"
      /\ ppc' = [ppc EXCEPT ![p] = "exchange"]
      /\ UNCHANGED <<head, oldHead, tail, cpc, popped, oldTail, taken, order>>
  BY DEF AllocateNode, consumerVars
<1>3. /\ ~InList(n)
      /\ \A q \in Producers : ppc[q] # "idle" => newNode[q] # n
      /\ cpc = "delete" => oldTail # n
  BY <1>1 DEF AllocatedInv
<1>4. /\ \A i \in 1 .. Len(order) : order[i] # n /\ Before(i) # n
      /\ tail # n /\ head # n
  <2>1. tail # n /\ \A i \in 1 .. Len(order) : order[i] # n
    BY <1>3 DEF InList
  <2>2. Len(order) \in Nat /\ (order # << >> => Len(order) \in 1 .. Len(order))
    BY ListFacts
  <2>3. head # n
    BY <2>1, <2>2 DEF OrderInv
  <2> QED
    BY <1>3, <2>1, <2>3, ListFacts
<1>5. /\ \A m : InList(m)' <=> InList(m)
      /\ \A i : Before(i)' = Before(i)
  BY <1>2 DEF InList, Before
<1>6. /\ \A m \in Node : m # n => nextNode'[m] = nextNode[m] /\ item'[m] = item[m]
      /\ nextNode'[n] = Null /\ item'[n] = x
      /\ ppc'[p] = "exchange" /\ newNode'[p] = n
      /\ \A q \in Producers : q # p => ppc'[q] = ppc[q] /\ newNode'[q] = newNode[q]
  BY <1>1, <1>2 DEF TypeOK
<1>7. TypeOK'
  BY <1>1, <1>2 DEF TypeOK
<1>8. OrderInv'
  BY <1>2, <1>4, <1>6 DEF OrderInv, TypeOK
<1>9. ChainInv'
  <2> SUFFICES ASSUME NEW i \in 1 .. Len(order)
               PROVE  \/ nextNode'[Before(i)] = order[i]
                      \/ /\ nextNode'[Before(i)] = Null
                         /\ \E q \in Producers : ppc'[q] = "link" /\ newNode'[q] = order[i]
    BY <1>2, <1>5 DEF ChainInv
  <2>1. nextNode'[Before(i)] = nextNode[Before(i)]
    BY <1>4, <1>6, ListFacts
  <2>2. \A q \in Producers : ppc[q] = "link" => ppc'[q] = "link" /\ newNode'[q] = newNode[q]
    BY <1>2, <1>6
  <2> QED
    BY <2>1, <2>2 DEF ChainInv
<1>10. LinkInv'
  <2> SUFFICES ASSUME NEW q \in Producers
               PROVE  /\ ppc'[q] = "exchange" =>
                           /\ newNode'[q] \in Node
                           /\ ~InList(newNode'[q])
                           /\ nextNode'[newNode'[q]] = Null
                           /\ item'[newNode'[q]] \in Item
                      /\ ppc'[q] = "link" =>
                           \E i \in 1 .. Len(order) :
                             newNode'[q] = order[i] /\ oldHead[q] = Before(i)
                               /\ nextNode'[Before(i)] = Null
                      /\ \A r \in Producers :
                           q # r /\ ppc'[q] # "idle" /\ ppc'[r] # "idle"
                             => newNode'[q] # newNode'[r]
    BY <1>2, <1>5 DEF LinkInv
  <2>1. ASSUME ppc'[q] = "exchange"
        PROVE  /\ newNode'[q] \in Node
               /\ ~InList(newNode'[q])
               /\ nextNode'[newNode'[q]] = Null
               /\ item'[newNode'[q]] \in Item
    BY <1>1, <1>3, <1>6, <2>1 DEF LinkInv
  <2>2. ASSUME ppc'[q] = "link"
        PROVE  \E i \in 1 .. Len(order) :
                 newNode'[q] = order[i] /\ oldHead[q] = Before(i) /\ nextNode'[Before(i)] = Null
    <3>1. q # p /\ ppc[q] = "link" /\ newNode'[q] = newNode[q]
      BY <1>6, <2>2
    <3>2. PICK i \in 1 .. Len(order) :
            newNode[q] = order[i] /\ oldHead[q] = Before(i) /\ nextNode[Before(i)] = Null
      BY <3>1 DEF LinkInv
    <3>3. nextNode'[Before(i)] = Null
      BY <1>4, <1>6, <3>2, ListFacts
    <3> QED
      BY <3>1, <3>2, <3>3
  <2>3. ASSUME NEW r \in Producers, q # r, ppc'[q] # "idle", ppc'[r] # "idle"
        PROVE  newNode'[q] # newNode'[r]
    BY <1>3, <1>6, <2>3 DEF LinkInv
  <2> QED
    BY <2>1, <2>2, <2>3
<1>11. ConsumerInv'
  <2>1. nextNode'[tail] = nextNode[tail]
    BY <1>4, <1>6 DEF TypeOK
  <2> QED
    BY <1>2, <1>3, <1>5, <1>6, <2>1 DEF ConsumerInv
<1>12. ItemInv'
  BY <1>2, <1>4, <1>6, ListFacts DEF ItemInv
<1>13. AllocatedInv'
  <2> SUFFICES ASSUME NEW m \in Node
               PROVE  m \in allocated' <=>
                        \/ InList(m)
                        \/ \E q \in Producers : ppc'[q] # "idle" /\ newNode'[q] = m
                        \/ cpc = "delete" /\ oldTail = m
    BY <1>2, <1>5 DEF AllocatedInv
  <2>1. CASE m = n
    BY <1>1, <1>6, <2>1
  <2>2. CASE m # n
    BY <1>1, <1>2, <1>6, <2>2 DEF AllocatedInv
  <2> QED
    BY <2>1, <2>2
<1> QED
  BY <1>7, <1>8, <1>9, <1>10, <1>11, <1>12, <1>13

\* The exchange puts the node at the end, with a gap before it.
LEMMA ExchangeHeadInv ==
  ASSUME Inv, NEW p \in Producers, ExchangeHead(p) PROVE Inv'
<1> USE DEF Inv
<1> DEFINE n == newNode[p]
           L == Len(order)
<1>1. /\ ppc[p] = "exchange" /\ oldHead' = [oldHead EXCEPT ![p] = head]
      /\ head' = n /\ order' = Append(order, n)
      /\ ppc' = [ppc EXCEPT ![p] = "link"]
      /\ UNCHANGED <<allocated, nextNode, item, newNode, tail, cpc, popped, oldTail, taken>>
  BY DEF ExchangeHead, listVars, consumerVars
<1>2. n \in Node /\ ~InList(n) /\ nextNode[n] = Null /\ item[n] \in Item
  BY <1>1 DEF LinkInv
<1>3. tail # n /\ \A i \in 1 .. L : order[i] # n
  BY <1>2 DEF InList
<1>4. L \in Nat /\ (order = << >> <=> L = 0)
  BY ListFacts
<1>5. /\ order' \in Seq(Node) /\ order' # << >> /\ Len(order') = L + 1
      /\ (\A i \in 1 .. L : order'[i] = order[i]) /\ order'[L + 1] = n
  BY <1>1, <1>2, ListFacts, AppendProperties
<1>6. \A i : i \in 1 .. L + 1 <=> i \in 1 .. L \/ i = L + 1
  BY <1>4
<1>7. \A m : InList(m)' <=> InList(m) \/ m = n
  BY <1>1, <1>5, <1>6 DEF InList
<1>8. ASSUME NEW i \in 1 .. L PROVE Before(i)' = Before(i)
  <2>1. i = 1 \/ i - 1 \in 1 .. L
    BY <1>4
  <2> QED
    BY <1>1, <1>5, <2>1 DEF Before
<1>9. ASSUME NEW i \in Int, i = L + 1 PROVE Before(i)' = head
  <2>1. CASE L = 0
    BY <1>1, <1>4, <1>9, <2>1 DEF Before, OrderInv
  <2>2. CASE L # 0
    <3>1. i # 1 /\ i - 1 = L /\ L \in 1 .. L
      BY <1>4, <1>9, <2>2
    <3> QED
      BY <1>4, <1>5, <2>2, <3>1 DEF Before, OrderInv
  <2> QED
    BY <2>1, <2>2
<1>10. /\ ppc'[p] = "link" /\ oldHead'[p] = head
       /\ \A q \in Producers : q # p => ppc'[q] = ppc[q] /\ oldHead'[q] = oldHead[q]
  BY <1>1 DEF TypeOK
<1> HIDE DEF n, L
<1>11. TypeOK'
  BY <1>1, <1>2, <1>5 DEF TypeOK
<1>12. OrderInv'
  <2>1. ASSUME NEW i \in 1 .. L + 1, NEW j \in 1 .. L + 1, order'[i] = order'[j] PROVE i = j
    <3>1. CASE i \in 1 .. L /\ j \in 1 .. L
      BY <1>5, <2>1, <3>1 DEF OrderInv, L
    <3>2. CASE i = L + 1 \/ j = L + 1
      BY <1>3, <1>5, <1>6, <2>1, <3>2
    <3> QED
      BY <1>6, <3>1, <3>2
  <2>2. \A i \in 1 .. L + 1 : order'[i] # tail
    BY <1>3, <1>5, <1>6 DEF OrderInv, L
  <2> QED
    BY <1>1, <1>2, <1>5, <2>1, <2>2 DEF OrderInv
<1>13. ChainInv'
  <2> SUFFICES ASSUME NEW i \in 1 .. L + 1
               PROVE  \/ nextNode[Before(i)'] = order'[i]
                      \/ /\ nextNode[Before(i)'] = Null
                         /\ \E q \in Producers : ppc'[q] = "link" /\ newNode[q] = order'[i]
    BY <1>1, <1>5 DEF ChainInv
  <2>1. CASE i \in 1 .. L
    BY <1>1, <1>5, <1>8, <1>10, <2>1 DEF ChainInv, L
  <2>2. CASE i = L + 1
    BY <1>4, <1>5, <1>9, <1>10, <2>2 DEF OrderInv, n
  <2> QED
    BY <1>6, <2>1, <2>2
<1>14. LinkInv'
  <2> SUFFICES ASSUME NEW q \in Producers
               PROVE  /\ ppc'[q] = "exchange" => ~InList(newNode[q])'
                      /\ ppc'[q] = "exchange" =>
                           /\ newNode[q] \in Node
                           /\ nextNode[newNode[q]] = Null
                           /\ item[newNode[q]] \in Item
                      /\ ppc'[q] = "link" =>
                           \E i \in 1 .. L + 1 :
                             newNode[q] = order'[i] /\ oldHead'[q] = Before(i)'
                               /\ nextNode[Before(i)'] = Null
                      /\ \A r \in Producers :
                           q # r /\ ppc'[q] # "idle" /\ ppc'[r] # "idle"
                             => newNode[q] # newNode[r]
    BY <1>1, <1>5 DEF LinkInv
  <2>1. ASSUME ppc'[q] = "exchange"
        PROVE  /\ ~InList(newNode[q])'
               /\ newNode[q] \in Node
               /\ nextNode[newNode[q]] = Null
               /\ item[newNode[q]] \in Item
    <3>1. q # p /\ ppc[q] = "exchange"
      BY <1>10, <2>1
    <3>2. newNode[q] # n /\ newNode'[q] = newNode[q]
      BY <1>1, <3>1 DEF LinkInv, n
    <3> QED
      BY <1>1, <1>7, <3>1, <3>2 DEF LinkInv
  <2>2. ASSUME ppc'[q] = "link"
        PROVE  \E i \in 1 .. L + 1 :
                 newNode[q] = order'[i] /\ oldHead'[q] = Before(i)' /\ nextNode[Before(i)'] = Null
    <3>1. CASE q = p
      <4>1. PICK i \in 1 .. L + 1 : i = L + 1
        BY <1>4
      <4> QED
        BY <1>5, <1>9, <1>10, <3>1, <4>1 DEF OrderInv, n
    <3>2. CASE q # p
      <4>1. PICK i \in 1 .. L :
              newNode[q] = order[i] /\ oldHead[q] = Before(i) /\ nextNode[Before(i)] = Null
        BY <1>10, <2>2, <3>2 DEF LinkInv, L
      <4> QED
        BY <1>5, <1>6, <1>8, <1>10, <3>2, <4>1
    <3> QED
      BY <3>1, <3>2
  <2>3. ASSUME NEW r \in Producers, q # r, ppc'[q] # "idle", ppc'[r] # "idle"
        PROVE  newNode[q] # newNode[r]
    BY <1>1, <1>10, <2>3 DEF LinkInv
  <2> QED
    BY <2>1, <2>2, <2>3
<1>15. ConsumerInv'
  <2>1. ASSUME cpc' \in {"dequeue", "pop"}
        PROVE  order' # << >> /\ popped' = order'[1] /\ nextNode'[tail'] = order'[1]
    <3>1. order # << >> /\ popped = order[1] /\ nextNode[tail] = order[1]
      BY <1>1, <2>1 DEF ConsumerInv
    <3>2. 1 \in 1 .. L
      BY <1>4, <3>1
    <3> QED
      BY <1>1, <1>5, <3>1, <3>2
  <2>2. ASSUME cpc' = "delete"
        PROVE  /\ oldTail' \in Node /\ ~InList(oldTail)'
               /\ \A q \in Producers : ppc'[q] # "idle" => newNode'[q] # oldTail'
    BY <1>1, <1>7, <1>10, <2>2 DEF ConsumerInv, n
  <2> QED
    BY <2>1, <2>2, <1>1 DEF ConsumerInv
<1>16. ItemInv'
  BY <1>1, <1>2, <1>5, <1>6 DEF ItemInv, L
<1>17. AllocatedInv'
  BY <1>1, <1>7, <1>10 DEF AllocatedInv, n
<1> QED
  BY <1>11, <1>12, <1>13, <1>14, <1>15, <1>16, <1>17

\* The gap before the producer's own node is closed.
LEMMA LinkNodeInv ==
  ASSUME Inv, NEW p \in Producers, LinkNode(p) PROVE Inv'
<1> USE DEF Inv
<1>1. /\ ppc[p] = "link"
      /\ nextNode' = [nextNode EXCEPT ![oldHead[p]] = newNode[p]]
      /\ newNode' = [newNode EXCEPT ![p] = Null]
      /\ oldHead' = [oldHead EXCEPT ![p] = Null]
      /\ ppc' = [ppc EXCEPT ![p] = "idle"]
      /\ UNCHANGED <<allocated, item, head, tail, cpc, popped, oldTail, taken, order>>
  BY DEF LinkNode, consumerVars
<1>2. PICK k \in 1 .. Len(order) :
        newNode[p] = order[k] /\ oldHead[p] = Before(k) /\ nextNode[Before(k)] = Null
  BY <1>1 DEF LinkInv
<1>3. /\ order[k] \in Node /\ Before(k) \in Node /\ Before(k) # head /\ InList(Before(k))
      /\ InList(order[k])
  BY ListFacts
<1>4. /\ nextNode'[Before(k)] = order[k]
      /\ \A m \in Node : m # Before(k) => nextNode'[m] = nextNode[m]
      /\ ppc'[p] = "idle"
      /\ \A q \in Producers : q # p =>
           ppc'[q] = ppc[q] /\ newNode'[q] = newNode[q] /\ oldHead'[q] = oldHead[q]
  BY <1>1, <1>2, <1>3 DEF TypeOK
<1>5. /\ \A m : InList(m)' <=> InList(m)
      /\ \A i : Before(i)' = Before(i)
  BY <1>1 DEF InList, Before
<1>6. TypeOK'
  BY <1>1, <1>2, <1>3 DEF TypeOK
<1>7. OrderInv'
  BY <1>1, <1>3, <1>4 DEF OrderInv, TypeOK
<1>8. ChainInv'
  <2> SUFFICES ASSUME NEW i \in 1 .. Len(order)
               PROVE  \/ nextNode'[Before(i)] = order[i]
                      \/ /\ nextNode'[Before(i)] = Null
                         /\ \E q \in Producers : ppc'[q] = "link" /\ newNode'[q] = order[i]
    BY <1>1, <1>5 DEF ChainInv
  <2>1. CASE i = k
    BY <1>4, <2>1
  <2>2. CASE i # k
    <3>1. nextNode'[Before(i)] = nextNode[Before(i)]
      BY <1>4, <2>2, ListFacts
    <3>2. newNode[p] # order[i]
      BY <1>2, <2>2 DEF OrderInv
    <3> QED
      BY <1>4, <3>1, <3>2 DEF ChainInv
  <2> QED
    BY <2>1, <2>2
<1>9. LinkInv'
  <2> SUFFICES ASSUME NEW q \in Producers
               PROVE  /\ ppc'[q] = "exchange" =>
                           /\ newNode'[q] \in Node
                           /\ ~InList(newNode'[q])
                           /\ nextNode'[newNode'[q]] = Null
                           /\ item[newNode'[q]] \in Item
                      /\ ppc'[q] = "link" =>
                           \E i \in 1 .. Len(order) :
                             newNode'[q] = order[i] /\ oldHead'[q] = Before(i)
                               /\ nextNode'[Before(i)] = Null
                      /\ \A r \in Producers :
                           q # r /\ ppc'[q] # "idle" /\ ppc'[r] # "idle"
                             => newNode'[q] # newNode'[r]
    BY <1>1, <1>5 DEF LinkInv
  <2>1. ASSUME ppc'[q] = "exchange"
        PROVE  /\ newNode'[q] \in Node
               /\ ~InList(newNode'[q])
               /\ nextNode'[newNode'[q]] = Null
               /\ item[newNode'[q]] \in Item
    <3>1. q # p /\ ppc[q] = "exchange" /\ newNode'[q] = newNode[q]
      BY <1>4, <2>1
    <3> QED
      BY <1>3, <1>4, <3>1 DEF LinkInv
  <2>2. ASSUME ppc'[q] = "link"
        PROVE  \E i \in 1 .. Len(order) :
                 newNode'[q] = order[i] /\ oldHead'[q] = Before(i) /\ nextNode'[Before(i)] = Null
    <3>1. q # p /\ ppc[q] = "link" /\ newNode'[q] = newNode[q] /\ oldHead'[q] = oldHead[q]
      BY <1>4, <2>2
    <3>2. PICK i \in 1 .. Len(order) :
            newNode[q] = order[i] /\ oldHead[q] = Before(i) /\ nextNode[Before(i)] = Null
      BY <3>1 DEF LinkInv
    <3>3. newNode[p] # newNode[q]
      BY <1>1, <3>1 DEF LinkInv
    <3>4. nextNode'[Before(i)] = Null
      BY <1>2, <1>4, <3>2, <3>3, ListFacts
    <3> QED
      BY <3>1, <3>2, <3>4
  <2>3. ASSUME NEW r \in Producers, q # r, ppc'[q] # "idle", ppc'[r] # "idle"
        PROVE  newNode'[q] # newNode'[r]
    BY <1>4, <2>3 DEF LinkInv
  <2> QED
    BY <2>1, <2>2, <2>3
<1>10. ConsumerInv'
  <2>1. ASSUME cpc \in {"dequeue", "pop"} PROVE nextNode'[tail] = nextNode[tail]
    <3>1. nextNode[tail] = order[1] /\ 1 \in 1 .. Len(order) /\ tail \in Node
      BY <2>1, ListFacts DEF ConsumerInv, TypeOK
    <3>2. nextNode[tail] # Null
      BY <3>1, ListFacts
    <3> QED
      BY <1>2, <1>4, <3>1, <3>2
  <2> QED
    BY <1>1, <1>4, <1>5, <2>1 DEF ConsumerInv
<1>11. ItemInv'
  BY <1>1 DEF ItemInv
<1>12. AllocatedInv'
  BY <1>1, <1>2, <1>3, <1>4, <1>5 DEF AllocatedInv
<1> QED
  BY <1>6, <1>7, <1>8, <1>9, <1>10, <1>11, <1>12

\* Dequeue and Pop go on only with the first node of the queue.
LEMMA LoadNextNodeInv ==
  ASSUME Inv, LoadNextNode PROVE Inv'
<1> USE DEF Inv
<1>1. /\ nextNode[tail] # Null /\ popped' = nextNode[tail] /\ cpc' \in {"dequeue", "pop"}
      /\ UNCHANGED <<allocated, nextNode, item, head, ppc, newNode, oldHead>>
      /\ UNCHANGED <<tail, oldTail, taken, order>>
  BY DEF LoadNextNode, listVars, producerVars
<1>2. order # << >>
  BY <1>1 DEF OrderInv
<1>3. nextNode[tail] = order[1] /\ order[1] \in Node
  <2>1. 1 \in 1 .. Len(order) /\ Before(1) = tail
    BY <1>2, ListFacts DEF Before
  <2> QED
    BY <1>1, <2>1, ListFacts DEF ChainInv
<1>4. cpc = "idle"
  BY DEF LoadNextNode
<1>5. TypeOK' /\ OrderInv' /\ ChainInv' /\ LinkInv' /\ ItemInv' /\ ConsumerInv'
  BY <1>1, <1>2, <1>3
  DEF TypeOK, OrderInv, ChainInv, LinkInv, ItemInv, ConsumerInv, InList, Before
<1>6. AllocatedInv'
  BY <1>1, <1>4 DEF AllocatedInv, InList
<1> QED
  BY <1>5, <1>6

\* The first node becomes Tail, and the one that was Tail leaves the list.
LEMMA TakeItemInv ==
  ASSUME Inv, TakeItem PROVE Inv'
<1> USE DEF Inv
<1> DEFINE L == Len(order)
<1>1. /\ order # << >> /\ popped = order[1] /\ nextNode[tail] = order[1]
      /\ cpc \in {"dequeue", "pop"}
  BY DEF TakeItem, ConsumerInv
<1>2. /\ taken' \in {taken, item[popped]} /\ oldTail' = tail /\ tail' = order[1]
      /\ item' = [item EXCEPT ![order[1]] = NoItem]
      /\ popped' = Null /\ order' = Tail(order) /\ cpc' = "delete"
      /\ UNCHANGED <<allocated, nextNode, head, ppc, newNode, oldHead>>
  BY <1>1 DEF TakeItem, producerVars
<1>3. L \in Nat /\ 1 \in 1 .. L /\ order \in Seq(Node) /\ order[1] \in Node /\ tail \in Node
  BY <1>1, ListFacts DEF TypeOK
<1>4. order' \in Seq(Node) /\ Len(order') = L - 1
  BY <1>1, <1>2, <1>3, HeadTailProperties
<1>5. \A i \in 1 .. L - 1 : order'[i] = order[i + 1]
  BY <1>1, <1>2, <1>3, HeadTailProperties
<1>6. \A i \in 1 .. L - 1 : i + 1 \in 1 .. L /\ i + 1 # 1
  BY <1>3
<1>7. \A i \in 1 .. L : i = 1 \/ (i - 1 \in 1 .. L - 1 /\ (i - 1) + 1 = i)
  BY <1>3
<1>8. ASSUME NEW i \in 1 .. L - 1 PROVE Before(i)' = Before(i + 1)
  <2>1. CASE i = 1
    BY <1>2, <2>1 DEF Before
  <2>2. CASE i # 1
    <3>1. i - 1 \in 1 .. L - 1 /\ (i - 1) + 1 = i /\ (i + 1) - 1 = i /\ i + 1 # 1
      BY <1>3, <2>2
    <3>2. Before(i)' = order'[i - 1]
      BY <2>2 DEF Before
    <3>3. order'[i - 1] = order[i]
      BY <1>5, <3>1
    <3> QED
      BY <3>1, <3>2, <3>3 DEF Before
  <2> QED
    BY <2>1, <2>2
<1>9. \A i \in 1 .. L : i # 1 => order[i] # order[1]
  BY <1>3 DEF OrderInv
<1> HIDE DEF L
<1>10. ASSUME NEW m PROVE InList(m)' <=> InList(m) /\ m # tail
  <2>1. ASSUME InList(m), m # tail PROVE InList(m)'
    <3>1. PICK i \in 1 .. L : order[i] = m
      BY <2>1 DEF InList, L
    <3>2. CASE i = 1
      BY <1>2, <3>1, <3>2 DEF InList
    <3>3. CASE i # 1
      <4>1. PICK j \in 1 .. L - 1 : j + 1 = i
        BY <1>7, <3>3
      <4>2. order'[j] = m
        BY <1>5, <3>1, <4>1
      <4> QED
        BY <1>4, <4>2 DEF InList
    <3> QED
      BY <3>2, <3>3
  <2>2. ASSUME InList(m)' PROVE InList(m) /\ m # tail
    <3>1. m = order[1] \/ \E j \in 1 .. L - 1 : order'[j] = m
      BY <1>2, <1>4, <2>2 DEF InList
    <3>2. \E i \in 1 .. L : m = order[i]
      BY <1>3, <1>5, <1>6, <3>1
    <3> QED
      BY <3>2 DEF InList, OrderInv, L
  <2> QED
    BY <2>1, <2>2
<1>11. TypeOK'
  BY <1>2, <1>3, <1>4, <1>1 DEF TypeOK
<1>12. OrderInv'
  <2>1. ASSUME NEW i \in 1 .. L - 1, NEW j \in 1 .. L - 1, order'[i] = order'[j] PROVE i = j
    <3>1. i + 1 = j + 1
      BY <1>5, <1>6, <2>1 DEF OrderInv, L
    <3> QED
      BY <3>1
  <2>2. \A i \in 1 .. L - 1 : order'[i] # tail'
    BY <1>2, <1>5, <1>6, <1>9
  <2>3. head = IF order' = << >> THEN tail' ELSE order'[Len(order')]
    <3>1. CASE L = 1
      <4>1. order' = << >>
        BY <1>4, <3>1, EmptySeq
      <4> QED
        BY <1>1, <1>2, <3>1, <4>1 DEF OrderInv, L
    <3>2. CASE L # 1
      <4>1. PICK j \in 1 .. L - 1 : j = L - 1 /\ j + 1 = L
        BY <1>3, <3>2
      <4>2. order' # << >>
        BY <1>3, <1>4, <3>2, EmptySeq
      <4>3. order'[Len(order')] = order[L]
        BY <1>4, <1>5, <4>1
      <4> QED
        BY <1>1, <4>2, <4>3 DEF OrderInv, L
    <3> QED
      BY <3>1, <3>2
  <2> QED
    BY <1>2, <1>4, <2>1, <2>2, <2>3 DEF OrderInv
<1>13. ChainInv'
  <2> SUFFICES ASSUME NEW i \in 1 .. L - 1
               PROVE  \/ nextNode[Before(i)'] = order'[i]
                      \/ /\ nextNode[Before(i)'] = Null
                         /\ \E q \in Producers : ppc[q] = "link" /\ newNode[q] = order'[i]
    BY <1>2, <1>4 DEF ChainInv
  <2>1. PICK j \in 1 .. L : j = i + 1
    BY <1>6
  <2>2. Before(i)' = Before(j) /\ order'[i] = order[j]
    BY <1>5, <1>8, <2>1
  <2> QED
    BY <2>2 DEF ChainInv, L
<1>14. LinkInv'
  <2> SUFFICES ASSUME NEW q \in Producers
               PROVE  /\ ppc[q] = "exchange" =>
                           /\ newNode[q] \in Node
                           /\ ~InList(newNode[q])'
                           /\ nextNode[newNode[q]] = Null
                           /\ item'[newNode[q]] \in Item
                      /\ ppc[q] = "link" =>
                           \E i \in 1 .. L - 1 :
                             newNode[q] = order'[i] /\ oldHead[q] = Before(i)'
                               /\ nextNode[Before(i)'] = Null
                      /\ \A r \in Producers :
                           q # r /\ ppc[q] # "idle" /\ ppc[r] # "idle"
                             => newNode[q] # newNode[r]
    BY <1>2, <1>4 DEF LinkInv
  <2>1. ASSUME ppc[q] = "exchange"
        PROVE  /\ newNode[q] \in Node
               /\ ~InList(newNode[q])'
               /\ nextNode[newNode[q]] = Null
               /\ item'[newNode[q]] \in Item
    <3>1. /\ newNode[q] \in Node /\ ~InList(newNode[q])
          /\ nextNode[newNode[q]] = Null /\ item[newNode[q]] \in Item
      BY <2>1 DEF LinkInv
    <3>2. newNode[q] # order[1]
      BY <1>3, <3>1 DEF InList, L
    <3>3. ~InList(newNode[q])' /\ newNode'[q] = newNode[q]
      BY <1>2, <1>10, <3>1
    <3> QED
      BY <1>2, <3>1, <3>2, <3>3 DEF TypeOK
  <2>2. ASSUME ppc[q] = "link"
        PROVE  \E i \in 1 .. L - 1 :
                 newNode[q] = order'[i] /\ oldHead[q] = Before(i)' /\ nextNode[Before(i)'] = Null
    <3>1. PICK j \in 1 .. L :
            newNode[q] = order[j] /\ oldHead[q] = Before(j) /\ nextNode[Before(j)] = Null
      BY <2>2 DEF LinkInv, L
    <3>2. j # 1
      BY <1>1, <1>3, <3>1, ListFacts DEF Before
    <3>3. PICK i \in 1 .. L - 1 : i + 1 = j
      BY <1>7, <3>2
    <3>4. order'[i] = order[j] /\ Before(i)' = Before(j)
      BY <1>5, <1>8, <3>3
    <3> QED
      BY <3>1, <3>4
  <2> QED
    BY <2>1, <2>2 DEF LinkInv
<1>15. ConsumerInv'
  <2>1. \A q \in Producers : ppc[q] # "idle" => newNode[q] # tail
    BY DEF LinkInv, InList, OrderInv, TypeOK
  <2>2. InList(tail) /\ (~InList(oldTail))'
    BY <1>2, <1>10 DEF InList
  <2> QED
    BY <1>2, <1>3, <2>1, <2>2 DEF ConsumerInv
<1>16. ItemInv'
  <2> SUFFICES ASSUME NEW i \in 1 .. L - 1 PROVE item'[order'[i]] \in Item
    BY <1>4 DEF ItemInv
  <2>1. PICK j \in 1 .. L : j = i + 1 /\ j # 1
    BY <1>6
  <2>2. order'[i] = order[j] /\ order[j] # order[1] /\ order[j] \in Node
    BY <1>5, <1>9, <2>1, ListFacts DEF L
  <2> QED
    BY <1>2, <2>1, <2>2 DEF ItemInv, TypeOK, L
<1>17. AllocatedInv'
  <2>1. InList(tail)
    BY DEF InList
  <2> QED
    BY <1>1, <1>2, <1>10, <2>1 DEF AllocatedInv
<1> QED
  BY <1>11, <1>12, <1>13, <1>14, <1>15, <1>16, <1>17

\* The deleted node is in nobody's reach.
LEMMA DeleteOldTailInv ==
  ASSUME Inv, DeleteOldTail PROVE Inv'
<1> USE DEF Inv
<1>1. /\ cpc = "delete" /\ cpc' = "idle" /\ allocated' = allocated \ {oldTail} /\ oldTail' = Null
      /\ UNCHANGED <<nextNode, item, head, ppc, newNode, oldHead, tail, popped, taken, order>>
  BY DEF DeleteOldTail, producerVars
<1>2. TypeOK' /\ OrderInv' /\ ChainInv' /\ LinkInv' /\ ItemInv' /\ ConsumerInv'
  BY <1>1 DEF TypeOK, OrderInv, ChainInv, LinkInv, ItemInv, ConsumerInv, InList, Before
<1>3. AllocatedInv'
  BY <1>1 DEF AllocatedInv, ConsumerInv, InList
<1> QED
  BY <1>2, <1>3

LEMMA NextInv == Inv /\ [Next]_vars => Inv'
<1>1. ASSUME Inv, UNCHANGED vars PROVE Inv'
  BY <1>1 DEF Inv, vars, listVars, producerVars, consumerVars,
     TypeOK, OrderInv, ChainInv, LinkInv, ConsumerInv, ItemInv, AllocatedInv, InList, Before
<1> QED
  BY <1>1, AllocateNodeInv, ExchangeHeadInv, LinkNodeInv, LoadNextNodeInv, TakeItemInv,
     DeleteOldTailInv
  DEF Next, ConsumerStep, ProducerStep

THEOREM Invariance == Spec => []Inv
BY InitInv, NextInv, PTL DEF Spec

\* No node leaks, and the node that a producer still has to link its own to has
\* not been deleted by the consumer, however many producers there are.
THEOREM ListSafe == Spec => []ListInv
BY InvImplies, Invariance, PTL

\* Dequeue and Pop fail with items in the queue only while the producer of the
\* oldest item stands between its exchange of Head and its link.
THEOREM EmptyTruthful == Spec => []EmptyUnlessUnlinked
<1>1. ASSUME Inv PROVE EmptyUnlessUnlinked
  <2> SUFFICES ASSUME nextNode[tail] = Null, order # << >>
               PROVE  \E p \in Producers : ppc[p] = "link" /\ newNode[p] = Head(order)
    BY DEF EmptyUnlessUnlinked
  <2>1. 1 \in 1 .. Len(order) /\ Before(1) = tail /\ order[1] # Null
    BY <1>1, ListFacts DEF Before
  <2>2. Head(order) = order[1]
    BY <1>1, ListFacts
  <2> QED
    BY <1>1, <2>1, <2>2 DEF Inv, ChainInv
<1> QED
  BY <1>1, Invariance, PTL

-----------------------------------------------------------------------------
(* The list implements FifoQueue.                                          *)

ItemAt(i) == item[order[i]]

Items == [i \in DOMAIN order |-> ItemAt(i)]

\* The abstract queue is a sequence of items.
ItemsInv ==
  /\ Items \in Seq(Item)
  /\ Len(Items) = Len(order)
  /\ \A i \in 1 .. Len(order) : Items[i] = ItemAt(i)

LEMMA ItemsAre == Inv => ItemsInv
<1> SUFFICES ASSUME Inv PROVE ItemsInv
  OBVIOUS
<1>1. order \in Seq(Node) /\ Len(order) \in Nat /\ DOMAIN order = 1 .. Len(order)
  BY ListFacts
<1>2. Items = [i \in 1 .. Len(order) |-> ItemAt(i)]
  BY <1>1 DEF Items
<1>3. \A i \in 1 .. Len(order) : ItemAt(i) \in Item
  BY DEF Inv, ItemInv, ItemAt
<1> QED
  BY <1>1, <1>2, <1>3 DEF ItemsInv

\* A step that leaves the order and its items alone is not seen.
LEMMA Unseen ==
  ASSUME Inv, Inv', UNCHANGED <<order, taken>>,
         \A i \in 1 .. Len(order) : item'[order[i]] = item[order[i]]
  PROVE  UNCHANGED Fifo!vars
<1>1. DOMAIN order = 1 .. Len(order)
  BY ListFacts
<1> QED
  BY <1>1 DEF Fifo!vars

\* A producer puts its item in when it exchanges Head; Dequeue takes one out and
\* Pop drops one when they move Tail.  The other steps are not seen.
LEMMA StepsImplement == Inv /\ Inv' /\ [Next]_vars => [Fifo!Next]_(Fifo!vars)
<1> SUFFICES ASSUME Inv, Inv', [Next]_vars
             PROVE  Fifo!Next \/ UNCHANGED Fifo!vars
  OBVIOUS
<1>1. /\ Items \in Seq(Item) /\ Len(Items) = Len(order)
      /\ \A i \in 1 .. Len(order) : Items[i] = ItemAt(i)
  BY ItemsAre DEF ItemsInv
<1>2. /\ Items' \in Seq(Item) /\ Len(Items') = Len(order')
      /\ \A i \in 1 .. Len(order') : Items'[i] = ItemAt(i)'
  <2>1. ItemsInv'
    BY ItemsAre, PTL
  <2> QED
    BY <2>1 DEF ItemsInv
<1>3. /\ order \in Seq(Node) /\ Len(order) \in Nat
      /\ (order = << >> <=> Len(order) = 0)
      /\ \A i \in 1 .. Len(order) : order[i] \in Node
  BY ListFacts
<1>4. ASSUME NEW p \in Producers, AllocateNode(p) PROVE UNCHANGED Fifo!vars
  <2>1. PICK n \in Node \ allocated, x \in Item : item' = [item EXCEPT ![n] = x]
    BY <1>4 DEF AllocateNode
  <2>2. \A i \in 1 .. Len(order) : order[i] # n
    BY DEF Inv, AllocatedInv, InList
  <2>3. UNCHANGED <<order, taken>>
    BY <1>4 DEF AllocateNode, consumerVars
  <2> QED
    BY <1>3, <2>1, <2>2, <2>3, Unseen DEF Inv, TypeOK
<1>5. ASSUME NEW p \in Producers, ExchangeHead(p) PROVE Fifo!Put
  <2> DEFINE n == newNode[p]
  <2>1. /\ order' = Append(order, n) /\ UNCHANGED <<item, taken>>
        /\ n \in Node /\ item[n] \in Item
    BY <1>5 DEF ExchangeHead, listVars, consumerVars, Inv, LinkInv
  <2>2. /\ Len(order') = Len(order) + 1
        /\ (\A i \in 1 .. Len(order) : order'[i] = order[i]) /\ order'[Len(order) + 1] = n
    BY <1>3, <2>1, AppendProperties
  <2>3. /\ Append(Items, item[n]) \in Seq(Item)
        /\ Len(Append(Items, item[n])) = Len(Items) + 1
        /\ \A i \in 1 .. Len(Items) : Append(Items, item[n])[i] = Items[i]
        /\ Append(Items, item[n])[Len(Items) + 1] = item[n]
    BY <1>1, <2>1, AppendProperties
  <2>4. ASSUME NEW i \in 1 .. Len(order) + 1 PROVE Items'[i] = Append(Items, item[n])[i]
    <3>1. Items'[i] = item[order'[i]]
      BY <1>2, <2>1, <2>2 DEF ItemAt
    <3>2. CASE i \in 1 .. Len(order)
      BY <1>1, <2>2, <2>3, <3>1, <3>2 DEF ItemAt
    <3>3. CASE i = Len(order) + 1
      BY <1>1, <2>2, <2>3, <3>1, <3>3
    <3>4. i \in 1 .. Len(order) \/ i = Len(order) + 1
      BY <1>3
    <3> QED
      BY <3>2, <3>3, <3>4
  <2>5. Items' = Append(Items, item[n])
    BY <1>1, <1>2, <2>2, <2>3, <2>4, SeqEqual
  <2> QED
    BY <2>1, <2>5 DEF Fifo!Put, Items, ItemAt
<1>6. ASSUME TakeItem PROVE Fifo!Next
  <2> DEFINE L == Len(order)
  <2>1. /\ order # << >> /\ popped = order[1] /\ order' = Tail(order)
        /\ item' = [item EXCEPT ![order[1]] = NoItem]
    BY <1>6 DEF TakeItem, Inv, ConsumerInv
  <2>2. Len(order') = L - 1 /\ \A i \in 1 .. L - 1 : order'[i] = order[i + 1]
    BY <1>3, <2>1, HeadTailProperties
  <2>3. Items # << >> /\ L \in Nat \ {0}
    BY <1>1, <1>3, <2>1
  <2>4. /\ Tail(Items) \in Seq(Item) /\ Len(Tail(Items)) = L - 1
        /\ \A i \in 1 .. L - 1 : Tail(Items)[i] = Items[i + 1]
    BY <1>1, <2>3, HeadTailProperties
  <2>5. ASSUME NEW i \in 1 .. L - 1 PROVE Items'[i] = Tail(Items)[i]
    <3>1. PICK j \in 1 .. L : j = i + 1 /\ j # 1
      BY <1>3
    <3>2. order[j] # order[1]
      BY <2>3, <3>1 DEF Inv, OrderInv
    <3>3. item'[order[j]] = item[order[j]]
      BY <1>3, <2>1, <3>2 DEF Inv, TypeOK
    <3>4. Items'[i] = item'[order'[i]] /\ Tail(Items)[i] = Items[j] /\ Items[j] = item[order[j]]
      BY <1>1, <1>2, <2>2, <2>4, <3>1 DEF ItemAt
    <3> QED
      BY <2>2, <3>1, <3>3, <3>4
  <2>6. Items' = Tail(Items)
    BY <1>2, <2>2, <2>4, <2>5, SeqEqual
  <2>7. Head(Items) = item[popped]
    <3>1. 1 \in 1 .. L
      BY <2>3
    <3> QED
      BY <1>1, <2>1, <2>3, <3>1 DEF ItemAt
  <2>8. CASE taken' = item[popped]
    BY <2>3, <2>6, <2>7, <2>8 DEF Fifo!Next, Fifo!Take, Items, ItemAt
  <2>9. CASE UNCHANGED taken
    <3>1. 1 \in 1 .. Len(Items)
      BY <1>1, <2>3
    <3>2. Items' = SubSeq(Items, 1 + 1, Len(Items))
      BY <1>1, <2>3, <2>6, TailIsSubSeq
    <3> QED
      BY <2>9, <3>1, <3>2 DEF Fifo!Next, Fifo!Drop, Items, ItemAt
  <2> QED
    BY <1>6, <2>8, <2>9 DEF TakeItem
<1>7. CASE LoadNextNode \/ DeleteOldTail \/ (\E p \in Producers : LinkNode(p)) \/ UNCHANGED vars
  <2>1. UNCHANGED <<item, order, taken>>
    BY <1>7 DEF LoadNextNode, DeleteOldTail, LinkNode, vars, listVars, consumerVars
  <2> QED
    BY <2>1, Unseen
<1> QED
  BY <1>4, <1>5, <1>6, <1>7 DEF Next, ConsumerStep, ProducerStep, Fifo!Next

\* The list is a first-in first-out queue in the order of the exchanges of Head:
\* items come out once each and in that order, whatever the gaps and however the
\* producers and the consumer interleave.
THEOREM Refinement == Spec => ImplementsFifo
<1>1. ASSUME Init PROVE Fifo!Init
  <2>1. order = << >> /\ Items \in Seq(Item) /\ Len(Items) = 0
    BY <1>1, InitInv, ItemsAre, EmptySeq DEF Init, ItemsInv
  <2>2. Items = << >>
    BY <2>1
  <2> QED
    BY <1>1, <2>2 DEF Init, Fifo!Init, Items, ItemAt
<1> QED
  BY <1>1, StepsImplement, Invariance, PTL DEF Spec, Fifo!Spec, ImplementsFifo
=============================================================================
