--------------------------- MODULE Buffers_proofs ----------------------------
(***************************************************************************)
(* The two rings and the triple buffer.  CircularQueue for every capacity, *)
(* any elements and any threads that count: the inductive invariant, that  *)
(* it implements FifoQueue, and that its own two threads count truthfully. *)
(* ResizableCircularQueue for indices and rings of every size: which slots *)
(* hold an element, and that it implements FifoQueue too.  TripleBuffer    *)
(* for every set of values: that it implements LatestValue.                *)
(***************************************************************************)
EXTENDS CircularQueue, SequenceTheorems, FiniteSetTheorems, TLAPS

-----------------------------------------------------------------------------
(* Arithmetic of the ring, without remainders.                             *)

\* The remainder of what is less than one turn away.
LEMMA Remainders ==
  ASSUME NEW C \in Nat \ {0}, NEW r \in 0 .. C - 1
  PROVE  r % C = r /\ (r + C) % C = r /\ (r - C) % C = r
<1>1. r % C = r
  OBVIOUS
<1>2. (r + C) % C = r
  OBVIOUS
<1>3. (r - C) % C = r
  OBVIOUS
<1> QED
  BY <1>1, <1>2, <1>3

LEMMA Bounds == Capacity \in Nat \ {0} /\ 0 \in Index
BY CircularQueueAssumption DEF CircularQueueAssumption, Index

\* The slot of the element that comes k after the first one.
Slot(h, k) == (h + k) % Capacity

LEMMA SlotValue ==
  ASSUME NEW h \in Index, NEW k \in 0 .. Capacity
  PROVE  /\ Slot(h, k) \in Index
         /\ Slot(h, k) = IF h + k < Capacity THEN h + k ELSE h + k - Capacity
<1>0. Capacity \in Nat \ {0}
  BY Bounds
<1>1. CASE h + k < Capacity
  BY <1>0, <1>1, Remainders DEF Slot, Index
<1>2. CASE ~(h + k < Capacity)
  <2>1. h + k - Capacity \in 0 .. Capacity - 1
    BY <1>0, <1>2 DEF Index
  <2>2. h + k = (h + k - Capacity) + Capacity
    BY <1>0 DEF Index
  <2>3. (h + k) % Capacity = h + k - Capacity
    BY <1>0, <2>1, <2>2, Remainders
  <2> QED
    BY <1>2, <2>1, <2>3 DEF Slot, Index
<1> QED
  BY <1>1, <1>2

LEMMA NextIndexValue ==
  ASSUME NEW i \in Index
  PROVE  /\ GetNextIndex(i) \in Index
         /\ GetNextIndex(i) = IF i = Capacity - 1 THEN 0 ELSE i + 1
<1>0. Capacity \in Nat \ {0}
  BY Bounds
<1>1. GetNextIndex(i) = Slot(i, 1)
  BY DEF GetNextIndex, Slot
<1>2. 1 \in 0 .. Capacity
  BY <1>0
<1>3. Slot(i, 1) \in Index /\ Slot(i, 1) = IF i + 1 < Capacity THEN i + 1 ELSE i + 1 - Capacity
  BY <1>2, SlotValue
<1>4. i + 1 < Capacity <=> i # Capacity - 1
  BY <1>0 DEF Index
<1>5. i = Capacity - 1 => i + 1 - Capacity = 0
  BY <1>0
<1> QED
  BY <1>1, <1>3, <1>4, <1>5

LEMMA DistanceValue ==
  ASSUME NEW h \in Index, NEW t \in Index
  PROVE  /\ Distance(h, t) \in Index
         /\ Distance(h, t) = IF h <= t THEN t - h ELSE t - h + Capacity
<1>0. Capacity \in Nat \ {0}
  BY Bounds
<1>1. CASE h <= t
  <2>1. t - h \in 0 .. Capacity - 1
    BY <1>0, <1>1 DEF Index
  <2> QED
    BY <1>0, <1>1, <2>1, Remainders DEF Distance, Index
<1>2. CASE ~(h <= t)
  <2>1. t - h + Capacity \in 0 .. Capacity - 1
    BY <1>0, <1>2 DEF Index
  <2>2. t - h = (t - h + Capacity) - Capacity
    BY <1>0 DEF Index
  <2>3. (t - h) % Capacity = t - h + Capacity
    BY <1>0, <2>1, <2>2, Remainders
  <2> QED
    BY <1>2, <2>1, <2>3 DEF Distance, Index
<1> QED
  BY <1>1, <1>2

\* How distances change when one end moves, and how they add up.
LEMMA Distances ==
  ASSUME NEW h \in Index, NEW t \in Index, NEW u \in Index
  PROVE  /\ Distance(h, t) = 0 <=> h = t
         /\ GetNextIndex(t) # h => Distance(h, GetNextIndex(t)) = Distance(h, t) + 1
         /\ h # t => Distance(GetNextIndex(h), t) = Distance(h, t) - 1
         /\ Distance(h, u) <= Distance(h, t)
              => Distance(u, t) = Distance(h, t) - Distance(h, u)
         /\ Distance(h, u) + Distance(u, t) < Capacity
              => Distance(h, t) = Distance(h, u) + Distance(u, t)
         /\ Distance(h, u) = Distance(h, t) => u = t
         /\ Distance(h, t) \in Index
<1>0. Capacity \in Nat \ {0}
  BY Bounds
<1>1. /\ Distance(h, t) = IF h <= t THEN t - h ELSE t - h + Capacity
      /\ Distance(h, u) = IF h <= u THEN u - h ELSE u - h + Capacity
      /\ Distance(u, t) = IF u <= t THEN t - u ELSE t - u + Capacity
      /\ Distance(h, t) \in Index
  BY DistanceValue
<1>2. PICK n \in Index : n = GetNextIndex(t) /\ n = IF t = Capacity - 1 THEN 0 ELSE t + 1
  BY NextIndexValue
<1>3. PICK m \in Index : m = GetNextIndex(h) /\ m = IF h = Capacity - 1 THEN 0 ELSE h + 1
  BY NextIndexValue
<1>4. Distance(h, n) = IF h <= n THEN n - h ELSE n - h + Capacity
  BY DistanceValue
<1>5. Distance(m, t) = IF m <= t THEN t - m ELSE t - m + Capacity
  BY DistanceValue
<1>6. Distance(h, t) = 0 <=> h = t
  BY <1>0, <1>1 DEF Index
<1>7. n # h => Distance(h, n) = Distance(h, t) + 1
  BY <1>0, <1>1, <1>2, <1>4 DEF Index
<1>8. h # t => Distance(m, t) = Distance(h, t) - 1
  BY <1>0, <1>1, <1>3, <1>5 DEF Index
<1>9. /\ Distance(h, u) <= Distance(h, t)
           => Distance(u, t) = Distance(h, t) - Distance(h, u)
      /\ Distance(h, u) + Distance(u, t) < Capacity
           => Distance(h, t) = Distance(h, u) + Distance(u, t)
      /\ Distance(h, u) = Distance(h, t) => u = t
  BY <1>0, <1>1 DEF Index
<1> QED
  BY <1>1, <1>2, <1>3, <1>6, <1>7, <1>8, <1>9

-----------------------------------------------------------------------------
(* The inductive invariant.                                                *)

\* What the producer and the consumer have seen of the indices stays true until
\* they store their own: the other one can only make more room or more elements.
ProducerInv ==
  /\ ppc \in {"write", "store"} => element \in Item /\ GetNextIndex(tail) # head
  /\ ppc = "store" => buffer[tail] = element

ConsumerInv ==
  /\ cpc \in {"read", "store", "drop"} => head # tail
  /\ cpc = "store" => outElement \in Item
  /\ cpc = "empty" => Distance(head, loadedTail) <= Size

\* Between the indices are elements; the first may have been moved out.
FilledInv ==
  \A i \in Index :
    Distance(head, i) < Size /\ ~(i = head /\ cpc = "store") => buffer[i] \in Item

\* A call of Count has seen the present size, and neither the producer nor the
\* consumer moves its own index while it counts.
CountInv ==
  \A c \in counting :
    /\ Size \in trueCounts[c]
    /\ c = Producer => ppc = "idle" /\ countTail[c] = tail
    /\ c = Consumer => cpc = "idle" /\ Distance(head, countTail[c]) \in trueCounts[c]

Inv ==
  /\ TypeOK
  /\ ProducerInv
  /\ ConsumerInv
  /\ FilledInv
  /\ CountInv

LEMMA InitInv == Init => Inv
<1> SUFFICES ASSUME Init PROVE Inv
  OBVIOUS
<1>1. 0 \in Index
  BY Bounds
<1>2. Size = 0
  BY <1>1, Distances DEF Init, Size
<1>3. TypeOK
  BY <1>1 DEF Init, TypeOK
<1>4. FilledInv
  BY <1>1, <1>2, Distances DEF FilledInv, Init, Index
<1> QED
  BY <1>3, <1>4 DEF Init, Inv, ProducerInv, ConsumerInv, CountInv

\* Everything that says that an index lies in the buffer.
LEMMA Types ==
  ASSUME TypeOK
  PROVE  /\ head \in Index /\ tail \in Index /\ loadedTail \in Index
         /\ GetNextIndex(head) \in Index /\ GetNextIndex(tail) \in Index
         /\ Size \in Index
BY DistanceValue, NextIndexValue DEF TypeOK, Size

\* The steps of the producer.
LEMMA ProducerKeepsInv ==
  ASSUME Inv, LoadHead \/ WriteElement \/ StoreTail
  PROVE  Inv'
<1> USE DEF Inv
<1>0. /\ head \in Index /\ tail \in Index /\ loadedTail \in Index
      /\ GetNextIndex(head) \in Index /\ GetNextIndex(tail) \in Index
      /\ Size \in Index
  BY Types
<1>c. counting \subseteq Counters /\ trueCounts \in [Counters -> SUBSET Index]
  BY DEF TypeOK
<1>1. CASE LoadHead
  <2>1. Size' = Size
    BY <1>1 DEF LoadHead, queueVars, Size
  <2>2. TypeOK'
    BY <1>1 DEF LoadHead, TypeOK, queueVars, consumerVars, countVars
  <2> QED
    BY <1>1, <2>1, <2>2
    DEF LoadHead, queueVars, consumerVars, countVars,
        ProducerInv, ConsumerInv, FilledInv, CountInv
<1>2. CASE WriteElement
  <2>1. Size' = Size
    BY <1>2 DEF WriteElement, Size
  <2>2. TypeOK'
    BY <1>2 DEF WriteElement, TypeOK, consumerVars, countVars, ProducerInv
  <2>3. ProducerInv'
    BY <1>2, <1>0 DEF WriteElement, ProducerInv, TypeOK
  <2>4. ConsumerInv'
    BY <1>2, <2>1 DEF WriteElement, ConsumerInv, consumerVars
  <2>5. FilledInv'
    BY <1>2, <2>1, <1>0 DEF WriteElement, FilledInv, consumerVars, ProducerInv, TypeOK
  <2>6. CountInv'
    BY <1>2, <2>1 DEF WriteElement, CountInv, consumerVars, countVars
  <2> QED
    BY <2>2, <2>3, <2>4, <2>5, <2>6
<1>3. CASE StoreTail
  <2> DEFINE n == GetNextIndex(tail)
  <2>1. tail' = n /\ n # head /\ head' = head
    BY <1>3 DEF StoreTail, ProducerInv
  <2>2. Size' = Size + 1 /\ Size' \in Index
    BY <1>0, <2>1, Distances DEF Size
  <2>3. trueCounts' \in [Counters -> SUBSET Index]
    BY <1>3, <1>c, <2>2 DEF StoreTail, Observe
  <2>4. TypeOK'
    BY <1>0, <1>3, <2>1, <2>3 DEF StoreTail, TypeOK, consumerVars
  <2>5. ProducerInv'
    BY <1>3 DEF StoreTail, ProducerInv
  <2>6. ConsumerInv'
    <3>1. head # n
      BY <2>1
    <3>2. Distance(head, loadedTail) \in Index
      BY <1>0, DistanceValue
    <3>3. cpc = "empty" => Distance(head, loadedTail) <= Size + 1
      BY <1>0, <3>2 DEF ConsumerInv, Index
    <3> QED
      BY <1>3, <2>1, <2>2, <3>1, <3>3 DEF StoreTail, ConsumerInv, consumerVars
  <2>7. FilledInv'
    <3> SUFFICES ASSUME NEW i \in Index, Distance(head, i) < Size + 1,
                        ~(i = head /\ cpc = "store")
                 PROVE  buffer[i] \in Item
      BY <1>3, <2>1, <2>2 DEF StoreTail, FilledInv, consumerVars
    <3>1. Distance(head, i) \in Index
      BY <1>0, DistanceValue
    <3>2. Distance(head, i) < Size \/ Distance(head, i) = Distance(head, tail)
      BY <1>0, <3>1 DEF Index, Size
    <3>3. Distance(head, i) < Size \/ i = tail
      BY <1>0, <3>2, Distances
    <3> QED
      BY <1>3, <3>3 DEF StoreTail, FilledInv, ProducerInv
  <2>8. CountInv'
    <3> SUFFICES ASSUME NEW c \in counting
                 PROVE  /\ Size' \in trueCounts'[c]
                        /\ c # Producer
                        /\ c = Consumer => /\ cpc = "idle"
                                           /\ Distance(head, countTail[c]) \in trueCounts'[c]
      BY <1>3, <2>1 DEF StoreTail, CountInv, consumerVars
    <3>1. trueCounts'[c] = trueCounts[c] \cup {Size'}
      BY <1>3, <1>c DEF StoreTail, Observe
    <3> QED
      BY <1>3, <3>1 DEF StoreTail, CountInv
  <2> QED
    BY <2>4, <2>5, <2>6, <2>7, <2>8
<1> QED
  BY <1>1, <1>2, <1>3

\* The steps of the consumer.  What moves away is what it has seen to be there.
LEMMA ConsumerKeepsInv ==
  ASSUME Inv, LoadTail \/ ReadElement \/ StoreHead \/ LoadTailToEmpty \/ Empty
  PROVE  Inv'
<1> USE DEF Inv
<1>0. /\ head \in Index /\ tail \in Index /\ loadedTail \in Index
      /\ GetNextIndex(head) \in Index /\ GetNextIndex(tail) \in Index
      /\ Size \in Index
  BY Types
<1>c. counting \subseteq Counters /\ trueCounts \in [Counters -> SUBSET Index]
  BY DEF TypeOK
<1>1. CASE LoadTail
  <2>1. Size' = Size
    BY <1>1 DEF LoadTail, queueVars, Size
  <2>2. TypeOK'
    BY <1>1 DEF LoadTail, TypeOK, queueVars, producerVars, countVars
  <2> QED
    BY <1>1, <2>1, <2>2
    DEF LoadTail, queueVars, producerVars, countVars,
        ProducerInv, ConsumerInv, FilledInv, CountInv
<1>2. CASE ReadElement
  <2>1. Size' = Size
    BY <1>2 DEF ReadElement, Size
  <2>2. head # tail /\ Distance(head, head) = 0 /\ 0 < Size
    BY <1>0, <1>2, Distances DEF ReadElement, ConsumerInv, Size, Index
  <2>3. buffer[head] \in Item
    BY <1>0, <1>2, <2>2 DEF ReadElement, FilledInv
  <2>4. TypeOK'
    BY <1>2 DEF ReadElement, TypeOK, producerVars, countVars
  <2>5. ProducerInv'
    BY <1>0, <1>2, <2>2 DEF ReadElement, ProducerInv, TypeOK, producerVars
  <2>6. ConsumerInv' /\ CountInv'
    BY <1>2, <2>1, <2>2, <2>3
    DEF ReadElement, ConsumerInv, CountInv, producerVars, countVars
  <2>7. FilledInv'
    BY <1>0, <1>2, <2>1 DEF ReadElement, FilledInv, TypeOK
  <2> QED
    BY <2>4, <2>5, <2>6, <2>7
<1>3. ASSUME NEW a \in Index, head' = a, Distance(head, a) <= Size,
             cpc # "idle", cpc' = "idle",
             Consumer \notin counting, Observe,
             cpc = "store" => a # head,
             UNCHANGED <<buffer, tail, producerVars, counting, countTail>>,
             outElement' \in Item \cup {NoItem}, taken' \in Item \cup {NoItem},
             loadedTail' \in Index
      PROVE  Inv'
  <2>1. Size' = Size - Distance(head, a) /\ Size' \in Index
    BY <1>0, <1>3, Distances DEF Size
  <2>d. Distance(head, a) \in Index /\ (Distance(head, a) = 0 <=> a = head)
    BY <1>0, Distances
  <2>2. trueCounts' \in [Counters -> SUBSET Index]
    BY <1>3, <1>c, <2>1 DEF Observe
  <2>3. TypeOK'
    BY <1>3, <2>2 DEF TypeOK, producerVars
  <2>4. ProducerInv'
    <3>1. GetNextIndex(tail) # head => GetNextIndex(tail) # a
      <4>1. SUFFICES ASSUME GetNextIndex(tail) # head, GetNextIndex(tail) = a PROVE FALSE
        OBVIOUS
      <4>2. Distance(head, a) = Size + 1
        BY <1>0, <4>1, Distances DEF Size
      <4> QED
        BY <1>0, <1>3, <4>2 DEF Index
    <3> QED
      BY <1>3, <3>1 DEF ProducerInv, producerVars
  <2>5. ConsumerInv'
    BY <1>3 DEF ConsumerInv
  <2>6. FilledInv'
    <3> SUFFICES ASSUME NEW i \in Index, Distance(a, i) < Size - Distance(head, a)
                 PROVE  buffer[i] \in Item
      BY <1>3, <2>1 DEF FilledInv
    <3>1. Distance(a, i) \in Index
      BY DistanceValue
    <3>2. Distance(head, a) + Distance(a, i) < Size
      BY <1>0, <1>3, <2>d, <3>1, Bounds DEF Index
    <3>3. Distance(head, a) + Distance(a, i) < Capacity
      BY <1>0, <2>d, <3>1, <3>2, Bounds DEF Index
    <3>4. Distance(head, i) = Distance(head, a) + Distance(a, i)
      BY <1>0, <3>3, Distances
    <3>5. i = head => a = head
      BY <1>0, <2>d, <3>1, <3>4, Distances DEF Index
    <3> QED
      BY <1>3, <3>2, <3>4, <3>5 DEF FilledInv
  <2>7. CountInv'
    <3> SUFFICES ASSUME NEW c \in counting
                 PROVE  /\ Size' \in trueCounts'[c]
                        /\ c = Producer => ppc = "idle" /\ countTail[c] = tail
                        /\ c # Consumer
      BY <1>3 DEF CountInv, producerVars
    <3>1. trueCounts'[c] = trueCounts[c] \cup {Size'}
      BY <1>3, <1>c DEF Observe
    <3> QED
      BY <1>3, <3>1 DEF CountInv
  <2> QED
    BY <2>3, <2>4, <2>5, <2>6, <2>7
<1>4. CASE StoreHead
  <2>1. head # tail /\ cpc \in {"store", "drop"}
    BY <1>4 DEF StoreHead, ConsumerInv
  <2>2. Distance(head, head) = 0 /\ Distance(head, tail) # 0
    BY <1>0, <2>1, Distances
  <2>3. GetNextIndex(head) # head
    BY <1>0, <2>1, NextIndexValue DEF Index
  <2>4. Distance(head, GetNextIndex(head)) = 1
    BY <1>0, <2>2, <2>3, Distances
  <2>5. Distance(head, GetNextIndex(head)) <= Size
    BY <1>0, <2>2, <2>4 DEF Size, Index
  <2>6. Consumer \notin counting
    BY <2>1 DEF CountInv
  <2>7. outElement' \in Item \cup {NoItem} /\ taken' \in Item \cup {NoItem}
    BY <1>4 DEF StoreHead, TypeOK
  <2> QED
    BY <1>0, <1>3, <1>4, <2>1, <2>3, <2>5, <2>6, <2>7 DEF StoreHead
<1>5. CASE LoadTailToEmpty
  <2>1. Size' = Size
    BY <1>5 DEF LoadTailToEmpty, queueVars, Size
  <2>2. TypeOK'
    BY <1>5 DEF LoadTailToEmpty, TypeOK, queueVars, producerVars, countVars
  <2>3. ConsumerInv'
    BY <1>0, <1>5, <2>1 DEF LoadTailToEmpty, ConsumerInv, queueVars, Size, Index
  <2> QED
    BY <1>5, <2>1, <2>2, <2>3
    DEF LoadTailToEmpty, queueVars, producerVars, countVars,
        ProducerInv, FilledInv, CountInv
<1>6. CASE Empty
  <2>1. 0 \in Index
    BY Bounds
  <2>2. Consumer \notin counting /\ Distance(head, loadedTail) <= Size
    BY <1>6 DEF Empty, CountInv, ConsumerInv
  <2>3. outElement' \in Item \cup {NoItem} /\ taken' \in Item \cup {NoItem}
    BY <1>6 DEF Empty, TypeOK
  <2> QED
    BY <1>0, <1>3, <1>6, <2>1, <2>2, <2>3 DEF Empty
<1> QED
  BY <1>1, <1>2, <1>4, <1>5, <1>6

\* Counting changes nothing but its own variables.
LEMMA CountKeepsInv ==
  ASSUME Inv, NEW c \in Counters, LoadTailToCount(c) \/ Count(c)
  PROVE  Inv'
<1> USE DEF Inv
<1>0. tail \in Index /\ head \in Index /\ Size \in Index /\ 0 \in Index
  BY Types, Bounds
<1>1. UNCHANGED <<queueVars, producerVars, consumerVars>> /\ Size' = Size
  BY DEF LoadTailToCount, Count, queueVars, Size
<1>2. TypeOK'
  BY <1>0, <1>1 DEF LoadTailToCount, Count, TypeOK, queueVars, producerVars, consumerVars
<1>3. ProducerInv' /\ ConsumerInv' /\ FilledInv'
  BY <1>1 DEF ProducerInv, ConsumerInv, FilledInv, queueVars, producerVars, consumerVars
<1>4. CountInv'
  BY <1>0, <1>1 DEF LoadTailToCount, Count, CountInv, TypeOK, queueVars, producerVars,
                    consumerVars, Size
<1> QED
  BY <1>2, <1>3, <1>4

LEMMA NextInv == Inv /\ [Next]_vars => Inv'
<1> SUFFICES ASSUME Inv, [Next]_vars PROVE Inv'
  OBVIOUS
<1>1. CASE UNCHANGED vars
  BY <1>1 DEF vars, queueVars, producerVars, consumerVars, countVars, Inv, TypeOK, Size,
              ProducerInv, ConsumerInv, FilledInv, CountInv
<1> QED
  BY <1>1, ProducerKeepsInv, ConsumerKeepsInv, CountKeepsInv DEF Next

\* The invariant holds in every ring, however its threads interleave.
THEOREM Invariance == Spec => []Inv
<1> QED
  BY InitInv, NextInv, PTL DEF Spec

\* The indices stay inside the buffer, and Enqueue never writes the element that
\* Dequeue moves away at that moment.
THEOREM RingSafe == Spec => []RingInv
<1>1. Inv => RingInv
  BY DEF Inv, RingInv, ElementsApart, ConsumerInv
<1> QED
  BY <1>1, Invariance, PTL

-----------------------------------------------------------------------------
(* What Count returns to the producer and to the consumer.                 *)

\* Whoever else counts, Count returns to the producer and to the consumer a number that
\* the queue had during the call.  (To another thread it need not, although the header
\* lets any thread call it: Head may overtake the Tail that was loaded.)
THEOREM CountTruthful == Spec => CountIsTrue
<1>1. ASSUME Inv, [Next]_vars, NEW c \in Counters \cap {Producer, Consumer}
      PROVE  CountsTruly(c)
  BY <1>1 DEF Inv, CountInv, CountResult, Size, CountsTruly
<1>2. Inv /\ [Next]_vars => [\A c \in Counters \cap {Producer, Consumer} : CountsTruly(c)]_vars
  BY <1>1
<1> QED
  BY <1>2, Invariance, PTL DEF Spec, CountIsTrue

-----------------------------------------------------------------------------
(* The ring implements FifoQueue.                                          *)

\* The k-th element.
Nth(k) == IF k = 1 /\ cpc = "store" THEN outElement ELSE buffer[Slot(head, k - 1)]

LEMMA SlotDistance ==
  ASSUME NEW h \in Index, NEW k \in 0 .. Capacity - 1
  PROVE  Slot(h, k) \in Index /\ Distance(h, Slot(h, k)) = k
<1>0. Capacity \in Nat \ {0} /\ k \in 0 .. Capacity
  BY Bounds
<1>1. /\ Slot(h, k) \in Index
      /\ Slot(h, k) = IF h + k < Capacity THEN h + k ELSE h + k - Capacity
  BY <1>0, SlotValue
<1>2. PICK s \in Index : s = Slot(h, k)
  BY <1>1
<1>3. Distance(h, s) = IF h <= s THEN s - h ELSE s - h + Capacity
  BY DistanceValue
<1> QED
  BY <1>0, <1>1, <1>2, <1>3 DEF Index

\* The slot k + n after h is the slot k after the one that is n after h.
LEMMA SlotFromSlot ==
  ASSUME NEW h \in Index, NEW a \in Index, NEW k \in 0 .. Capacity - 1,
         Distance(h, a) + k < Capacity
  PROVE  Slot(a, k) = Slot(h, Distance(h, a) + k)
<1>0. Capacity \in Nat \ {0} /\ k \in 0 .. Capacity
  BY Bounds
<1>1. Distance(h, a) = IF h <= a THEN a - h ELSE a - h + Capacity
  BY DistanceValue
<1>2. Distance(h, a) \in Index
  BY DistanceValue
<1>3. Distance(h, a) + k \in 0 .. Capacity
  BY <1>0, <1>2 DEF Index
<1>4. Slot(a, k) = IF a + k < Capacity THEN a + k ELSE a + k - Capacity
  BY <1>0, SlotValue
<1>5. \A j \in 0 .. Capacity :
        Slot(h, j) = IF h + j < Capacity THEN h + j ELSE h + j - Capacity
  BY SlotValue
<1>6. PICK j \in 0 .. Capacity : j = Distance(h, a) + k
  BY <1>3
<1>7. Slot(h, j) = IF h + j < Capacity THEN h + j ELSE h + j - Capacity
  BY <1>5
<1> QED
  BY <1>0, <1>1, <1>4, <1>6, <1>7 DEF Index

\* The abstract queue is a sequence of elements.
ElementsInv ==
  /\ Elements \in Seq(Item)
  /\ Len(Elements) = Size
  /\ \A k \in 1 .. Size : Elements[k] = Nth(k)

LEMMA ElementsAre == Inv => ElementsInv
<1> SUFFICES ASSUME Inv PROVE ElementsInv
  OBVIOUS
<1>0. head \in Index /\ Size \in Index /\ Capacity \in Nat \ {0}
  BY Types, Bounds DEF Inv
<1>1. Elements = [k \in 1 .. Size |-> Nth(k)]
  <2>1. ASSUME NEW k \in 1 .. Size PROVE Slot(head, k - 1) = (head + k - 1) % Capacity
    <3>1. head + (k - 1) = head + k - 1
      BY <1>0 DEF Index
    <3> QED
      BY <3>1 DEF Slot
  <2> QED
    BY <2>1 DEF Elements, Nth
<1>2. ASSUME NEW k \in 1 .. Size PROVE Nth(k) \in Item
  <2>1. k - 1 \in 0 .. Capacity - 1
    BY <1>0 DEF Index
  <2>2. Slot(head, k - 1) \in Index /\ Distance(head, Slot(head, k - 1)) = k - 1
    BY <1>0, <2>1, SlotDistance
  <2>3. k - 1 < Size
    BY <1>0 DEF Index
  <2>4. Slot(head, k - 1) = head => k = 1
    BY <1>0, <2>1, <2>2, Distances DEF Index
  <2> QED
    BY <2>2, <2>3, <2>4 DEF Nth, Inv, FilledInv, ConsumerInv
<1>3. Size \in Nat
  BY <1>0 DEF Index
<1> QED
  BY <1>1, <1>2, <1>3 DEF ElementsInv

\* A step that leaves the indices and the elements alone is not seen.
LEMMA Unseen ==
  ASSUME Inv, Inv', Size' = Size, UNCHANGED taken,
         \A k \in 1 .. Size : Nth(k)' = Nth(k)
  PROVE  UNCHANGED Fifo!vars
<1>1. /\ Elements \in Seq(Item) /\ Len(Elements) = Size
      /\ \A k \in 1 .. Size : Elements[k] = Nth(k)
  BY ElementsAre DEF ElementsInv
<1>2. /\ Elements' \in Seq(Item) /\ Len(Elements') = Size'
      /\ \A k \in 1 .. Size' : Elements'[k] = Nth(k)'
  <2>1. ElementsInv'
    BY ElementsAre, PTL
  <2> QED
    BY <2>1 DEF ElementsInv
<1>3. Elements' = Elements
  BY <1>1, <1>2, SeqEqual
<1> QED
  BY <1>3 DEF Fifo!vars

\* A step of the consumer that moves Head drops the elements it passes.
LEMMA HeadMoves ==
  ASSUME Inv, Inv', NEW a \in Index, head' = a, Distance(head, a) <= Size,
         UNCHANGED <<buffer, tail>>, cpc' = "idle", cpc = "store" => a # head
  PROVE  /\ Distance(head, a) \in 0 .. Len(Elements)
         /\ Elements' = SubSeq(Elements, Distance(head, a) + 1, Len(Elements))
<1> DEFINE n == Distance(head, a)
<1>0. /\ head \in Index /\ tail \in Index /\ Size \in Index /\ Capacity \in Nat \ {0}
      /\ n \in Index
  BY Types, Bounds, DistanceValue DEF Inv
<1>1. /\ Elements \in Seq(Item) /\ Len(Elements) = Size
      /\ \A k \in 1 .. Size : Elements[k] = Nth(k)
  BY ElementsAre DEF ElementsInv
<1>2. /\ Elements' \in Seq(Item) /\ Len(Elements') = Size'
      /\ \A k \in 1 .. Size' : Elements'[k] = Nth(k)'
  <2>1. ElementsInv'
    BY ElementsAre, PTL
  <2> QED
    BY <2>1 DEF ElementsInv
<1>3. Size' = Size - n
  BY <1>0, Distances DEF Size
<1>4. ASSUME NEW k \in 1 .. Size - n, NEW m \in Int, m = n + k
      PROVE  Nth(k)' = Nth(m)
  <2>1. k - 1 \in 0 .. Capacity - 1 /\ n + (k - 1) < Capacity /\ m - 1 = n + (k - 1)
    BY <1>0, <1>4 DEF Index
  <2>2. Slot(a, k - 1) = Slot(head, m - 1)
    BY <1>0, <2>1, SlotFromSlot
  <2>3. m = 1 => a = head
    BY <1>0, <1>4, Distances DEF Index
  <2>4. Nth(k)' = buffer[Slot(a, k - 1)]
    BY DEF Nth, Slot
  <2>5. Nth(m) = buffer[Slot(head, m - 1)]
    BY <2>3 DEF Nth
  <2> QED
    BY <2>2, <2>4, <2>5
<1> HIDE DEF n
<1>5. \A k \in n + 1 .. Len(Elements) : Elements[k] \in Item
  BY <1>0, <1>1 DEF Index
<1>6. n + 1 \in Int /\ Len(Elements) \in Int
  BY <1>0, <1>1 DEF Index
<1>7. /\ SubSeq(Elements, n + 1, Len(Elements)) \in Seq(Item)
      /\ Len(SubSeq(Elements, n + 1, Len(Elements))) =
           IF n + 1 <= Len(Elements) THEN Len(Elements) - (n + 1) + 1 ELSE 0
      /\ \A k \in 1 .. Len(Elements) - (n + 1) + 1 :
           SubSeq(Elements, n + 1, Len(Elements))[k] = Elements[n + 1 + k - 1]
  BY <1>5, <1>6, SubSeqProperties
<1>8. n <= Size
  BY DEF n
<1>9. Len(SubSeq(Elements, n + 1, Len(Elements))) = Size - n
  BY <1>0, <1>1, <1>7, <1>8 DEF Index
<1>10. ASSUME NEW k \in 1 .. Size - n
       PROVE  SubSeq(Elements, n + 1, Len(Elements))[k] = Elements'[k]
  <2>1. PICK m \in 1 .. Size : m = n + k
    BY <1>0 DEF Index
  <2>2. n + 1 + k - 1 = m /\ k \in 1 .. Len(Elements) - (n + 1) + 1
    BY <1>0, <1>1, <2>1 DEF Index
  <2> QED
    BY <1>1, <1>2, <1>3, <1>4, <1>7, <2>1, <2>2
<1>11. Elements' = SubSeq(Elements, n + 1, Len(Elements))
  BY <1>2, <1>3, <1>7, <1>9, <1>10, SeqEqual
<1> QED
  BY <1>0, <1>1, <1>8, <1>11 DEF n, Index

\* Enqueue puts its element in at the end when it stores Tail; Dequeue takes one
\* out or drops it, and Empty drops what it has seen, when they store Head.  The
\* other steps are not seen.
LEMMA StepsImplement == Inv /\ Inv' /\ [Next]_vars => [Fifo!Next]_(Fifo!vars)
<1> SUFFICES ASSUME Inv, Inv', [Next]_vars
             PROVE  Fifo!Next \/ UNCHANGED Fifo!vars
  OBVIOUS
<1>0. /\ head \in Index /\ tail \in Index /\ Size \in Index /\ Capacity \in Nat \ {0}
      /\ TypeOK
  BY Types, Bounds DEF Inv
<1>1. /\ Elements \in Seq(Item) /\ Len(Elements) = Size
      /\ \A k \in 1 .. Size : Elements[k] = Nth(k)
  BY ElementsAre DEF ElementsInv
<1>2. /\ Elements' \in Seq(Item) /\ Len(Elements') = Size'
      /\ \A k \in 1 .. Size' : Elements'[k] = Nth(k)'
  <2>1. ElementsInv'
    BY ElementsAre, PTL
  <2> QED
    BY <2>1 DEF ElementsInv
<1>3. ASSUME NEW k \in 1 .. Size
      PROVE  /\ Slot(head, k - 1) \in Index
             /\ Slot(head, k - 1) # tail
             /\ Slot(head, k - 1) = head <=> k = 1
  <2>1. k - 1 \in 0 .. Capacity - 1
    BY <1>0 DEF Index
  <2>2. Slot(head, k - 1) \in Index /\ Distance(head, Slot(head, k - 1)) = k - 1
    BY <1>0, <2>1, SlotDistance
  <2>3. Distance(head, Slot(head, k - 1)) = 0 <=> head = Slot(head, k - 1)
    BY <1>0, <2>2, Distances
  <2>4. Distance(head, Slot(head, k - 1)) < Distance(head, tail)
    BY <1>0, <2>2 DEF Size, Index
  <2> QED
    BY <1>0, <2>2, <2>3, <2>4 DEF Index
<1>4. CASE WriteElement
  <2>1. Size' = Size /\ UNCHANGED taken
    BY <1>4 DEF WriteElement, Size, consumerVars
  <2>2. \A k \in 1 .. Size : Nth(k)' = Nth(k)
    BY <1>0, <1>3, <1>4 DEF WriteElement, Nth, Slot, consumerVars, TypeOK
  <2> QED
    BY <2>1, <2>2, Unseen
<1>5. CASE StoreTail
  <2>1. /\ tail' = GetNextIndex(tail) /\ GetNextIndex(tail) # head
        /\ buffer[tail] = element /\ element \in Item
        /\ UNCHANGED <<buffer, head, consumerVars>>
    BY <1>5 DEF StoreTail, Inv, ProducerInv
  <2>2. Size' = Size + 1
    BY <1>0, <2>1, Distances DEF Size
  <2>3. \A k \in 1 .. Size : Nth(k)' = Nth(k)
    BY <2>1 DEF Nth, Slot, consumerVars
  <2>4. Slot(head, Size) = tail
    <3>1. Size \in 0 .. Capacity - 1
      BY <1>0 DEF Index
    <3>2. Slot(head, Size) \in Index /\ Distance(head, Slot(head, Size)) = Size
      BY <1>0, <3>1, SlotDistance
    <3> QED
      BY <1>0, <3>2, Distances DEF Size
  <2>5. ASSUME NEW n \in Nat, n = Size + 1 PROVE Nth(n)' = element
    <3>1. n - 1 = Size
      BY <1>0, <2>5 DEF Index
    <3>2. n = 1 => cpc # "store"
      BY <1>0, <2>5, Distances DEF Inv, ConsumerInv, Size, Index
    <3>3. Nth(n)' = buffer[Slot(head, n - 1)]
      BY <2>1, <3>2 DEF Nth, Slot, consumerVars
    <3> QED
      BY <2>1, <2>4, <3>1, <3>3
  <2>6. /\ Append(Elements, element) \in Seq(Item)
        /\ Len(Append(Elements, element)) = Size + 1
        /\ \A k \in 1 .. Size : Append(Elements, element)[k] = Elements[k]
        /\ Append(Elements, element)[Size + 1] = element
    BY <1>1, <2>1, AppendProperties
  <2>7. ASSUME NEW k \in 1 .. Size + 1 PROVE Elements'[k] = Append(Elements, element)[k]
    <3>1. Elements'[k] = Nth(k)'
      BY <1>2, <2>2
    <3>2. CASE k \in 1 .. Size
      BY <1>1, <2>3, <2>6, <3>1, <3>2
    <3>3. CASE k = Size + 1
      <4>1. Nth(k)' = element
        BY <1>0, <2>5, <3>3 DEF Index
      <4> QED
        BY <2>6, <3>1, <3>3, <4>1
    <3>4. k \in 1 .. Size \/ k = Size + 1
      BY <1>0 DEF Index
    <3> QED
      BY <3>2, <3>3, <3>4
  <2>8. Elements' = Append(Elements, element)
    BY <1>2, <2>2, <2>6, <2>7, SeqEqual
  <2>9. UNCHANGED taken
    BY <2>1 DEF consumerVars
  <2> QED
    BY <2>1, <2>8, <2>9 DEF Fifo!Next, Fifo!Put
<1>6. CASE ReadElement
  <2>1. Size' = Size /\ UNCHANGED <<taken, head>>
    BY <1>6 DEF ReadElement, Size
  <2>2. outElement' = buffer[head] /\ cpc' = "store" /\ cpc = "read"
    BY <1>6 DEF ReadElement
  <2>3. \A i \in Index \ {head} : buffer'[i] = buffer[i]
    BY <1>0, <1>6 DEF ReadElement, TypeOK
  <2>4. Slot(head, 0) = head
    BY <1>0, Remainders DEF Slot, Index
  <2>5. ASSUME NEW k \in 1 .. Size PROVE Nth(k)' = Nth(k)
    <3>1. CASE k = 1
      <4>1. Nth(k)' = buffer[head]
        BY <2>2, <3>1 DEF Nth
      <4>2. Nth(k) = buffer[Slot(head, 0)]
        BY <2>2, <3>1 DEF Nth
      <4> QED
        BY <2>4, <4>1, <4>2
    <3>2. CASE k # 1
      <4>1. Slot(head, k - 1) \in Index \ {head}
        BY <1>3, <3>2
      <4> QED
        BY <2>1, <2>3, <3>2, <4>1 DEF Nth, Slot
    <3> QED
      BY <3>1, <3>2
  <2> QED
    BY <2>1, <2>5, Unseen
<1>7. CASE StoreHead
  <2> DEFINE a == GetNextIndex(head)
  <2>1. /\ head' = a /\ cpc' = "idle" /\ UNCHANGED <<buffer, tail>>
        /\ head # tail /\ a # head /\ a \in Index
    <3>1. head # tail
      BY <1>7 DEF StoreHead, Inv, ConsumerInv
    <3>2. a \in Index /\ a = IF head = Capacity - 1 THEN 0 ELSE head + 1
      BY <1>0, NextIndexValue
    <3>3. a # head
      BY <1>0, <3>1, <3>2 DEF Index
    <3> QED
      BY <1>7, <3>1, <3>2, <3>3 DEF StoreHead
  <2>2. Distance(head, a) = 1 /\ 1 <= Size
    <3>1. Distance(head, head) = 0 /\ Distance(head, tail) # 0
      BY <1>0, <2>1, Distances
    <3>2. Distance(head, a) = 1
      BY <1>0, <2>1, <3>1, Distances
    <3> QED
      BY <1>0, <3>1, <3>2 DEF Size, Index
  <2> HIDE DEF a
  <2>3. Elements' = SubSeq(Elements, 1 + 1, Len(Elements))
    BY <2>1, <2>2, HeadMoves
  <2>4. 1 \in 1 .. Len(Elements) /\ Elements # << >>
    BY <1>0, <1>1, <2>2 DEF Index
  <2>5. CASE cpc = "store" /\ taken' = outElement
    <3>1. Elements[1] = outElement
      BY <1>0, <1>1, <2>2, <2>5 DEF Nth, Index
    <3>2. Head(Elements) = outElement
      BY <1>1, <2>4, <3>1
    <3>3. Tail(Elements) = SubSeq(Elements, 2, Len(Elements))
      BY <1>1, <2>4, TailIsSubSeq
    <3> QED
      BY <2>3, <2>4, <2>5, <3>2, <3>3 DEF Fifo!Next, Fifo!Take
  <2>6. CASE UNCHANGED taken
    BY <2>3, <2>4, <2>6 DEF Fifo!Next, Fifo!Drop
  <2> QED
    BY <1>7, <2>5, <2>6 DEF StoreHead
<1>8. CASE Empty
  <2> DEFINE a == loadedTail
             n == Distance(head, a)
  <2>1. /\ head' = a /\ cpc' = "idle" /\ cpc = "empty"
        /\ UNCHANGED <<buffer, tail, taken>> /\ a \in Index /\ n <= Size
    BY <1>8 DEF Empty, Inv, ConsumerInv, TypeOK
  <2> HIDE DEF a
  <2>2. n \in 0 .. Len(Elements) /\ Elements' = SubSeq(Elements, n + 1, Len(Elements))
    BY <2>1, HeadMoves
  <2>3. CASE n = 0
    <3>1. a = head
      BY <1>0, <2>1, <2>3, Distances
    <3>2. Size' = Size /\ \A k \in 1 .. Size : Nth(k)' = Nth(k)
      BY <2>1, <3>1 DEF Size, Nth, Slot
    <3> QED
      BY <2>1, <3>2, Unseen
  <2>4. CASE n # 0
    <3>1. n \in 1 .. Len(Elements)
      BY <1>0, <1>1, <2>2, <2>4 DEF Index
    <3> QED
      BY <2>1, <2>2, <3>1 DEF Fifo!Next, Fifo!Drop
  <2> QED
    BY <2>3, <2>4
<1>9. CASE LoadHead \/ LoadTail \/ LoadTailToEmpty
           \/ (\E c \in Counters : LoadTailToCount(c) \/ Count(c)) \/ UNCHANGED vars
  <2>1. /\ UNCHANGED <<queueVars, outElement, taken>>
        /\ cpc' = "store" <=> cpc = "store"
    BY <1>9 DEF LoadHead, LoadTail, LoadTailToEmpty, LoadTailToCount, Count, vars, consumerVars
  <2>2. Size' = Size /\ \A k \in 1 .. Size : Nth(k)' = Nth(k)
    BY <2>1 DEF Size, Nth, Slot, queueVars
  <2> QED
    BY <2>1, <2>2, Unseen
<1> QED
  BY <1>4, <1>5, <1>6, <1>7, <1>8, <1>9 DEF Next

\* The ring is a first-in first-out queue: elements come out in the order in which
\* they went in, each once, and only when they are complete.
THEOREM Refinement == Spec => ImplementsFifo
<1>1. Init => Fifo!Init
  <2> SUFFICES ASSUME Init PROVE Fifo!Init
    OBVIOUS
  <2>1. Inv /\ Size = 0
    BY InitInv, Bounds, Distances DEF Init, Size
  <2>2. Elements \in Seq(Item) /\ Len(Elements) = 0
    BY <2>1, ElementsAre DEF ElementsInv
  <2>3. Elements = << >>
    BY <2>2
  <2> QED
    BY <2>3 DEF Init, Fifo!Init
<1> QED
  BY <1>1, StepsImplement, Invariance, PTL DEF Spec, Fifo!Spec, ImplementsFifo

-----------------------------------------------------------------------------
(* ResizableCircularQueue, for indices of any width and rings of any size. *)

CONSTANTS LogIndexCount, LogMaxCapacity

VARIABLES storage, ringHead, ringTail, strays

Resizable == INSTANCE ResizableCircularQueue WITH
               Raw <- NoItem, head <- ringHead, tail <- ringTail

\* What the module assumes.
Widths ==
  /\ LogIndexCount \in Nat
  /\ LogMaxCapacity \in 0 .. LogIndexCount - 1
  /\ NoItem \notin Item

Two(k) == Resizable!TwoTo[k]

\* A set of natural numbers has a least element.
LEMMA LeastOf ==
  ASSUME NEW B \in SUBSET Nat, B # {}
  PROVE  \E m \in B : \A k \in B : m <= k
<1>1. PICK n \in B : TRUE
  OBVIOUS
<1> DEFINE R == StrictSubsetOrdering(0 .. n)
           T == {0 .. k : k \in {j \in B : j <= n}}
<1>2. IsFiniteSet(0 .. n)
  BY FS_Interval
<1>3. IsWellFoundedOn(R, FiniteSubsetsOf(0 .. n))
  BY <1>2, FS_StrictSubsetOrderingWellFounded
<1>4. T \subseteq FiniteSubsetsOf(0 .. n)
  <2>1. \A k \in Nat : IsFiniteSet(0 .. k)
    BY FS_Interval
  <2>2. \A k \in {j \in B : j <= n} : 0 .. k \subseteq 0 .. n
    OBVIOUS
  <2> QED
    BY <2>1, <2>2 DEF FiniteSubsetsOf
<1>5. T # {}
  BY <1>1
<1>6. ASSUME NEW x \in T, NEW y \in T, y \subseteq x, y # x PROVE <<y, x>> \in R
  BY <1>4, <1>6 DEF StrictSubsetOrdering, FiniteSubsetsOf
<1> HIDE DEF R
<1>7. PICK x \in T : \A y \in T : ~ (<<y, x>> \in R)
  <2> HIDE DEF T
  <2> QED
    BY <1>3, <1>4, <1>5, WFMin
<1>8. PICK m \in B : m <= n /\ x = 0 .. m
  BY <1>7
<1>9. ASSUME NEW k \in B, k < m PROVE FALSE
  <2>1. 0 .. k \in T
    BY <1>8, <1>9
  <2>2. 0 .. k \subseteq x /\ m \in x /\ m \notin 0 .. k
    BY <1>8, <1>9
  <2> QED
    BY <2>1, <2>2, <1>6, <1>7
<1> QED
  BY <1>9

LEMMA NatInd ==
  ASSUME NEW S, 0 \in S, \A n \in Nat : n \in S => n + 1 \in S
  PROVE  Nat \subseteq S
<1> SUFFICES ASSUME Nat \ S # {} PROVE FALSE
  OBVIOUS
<1>1. PICK x \in Nat \ S : \A y \in Nat \ S : x <= y
  BY LeastOf
<1> QED
  BY <1>1

LEMMA Doubling ==
  ASSUME Widths
  PROVE  /\ Two(0) = 1
         /\ \A k \in 1 .. LogIndexCount : Two(k) = 2 * Two(k - 1)
<1> DEFINE Good(f, m) == f = [i \in 0 .. m |-> IF i = 0 THEN 1 ELSE 2 * f[i - 1]]
           S == {m \in Nat : \E f : Good(f, m)}
<1>1. 0 \in S
  <2>1. Good([i \in 0 .. 0 |-> 1], 0)
    OBVIOUS
  <2> QED
    BY <2>1
<1>2. ASSUME NEW m \in Nat, NEW f, Good(f, m) PROVE \E g : Good(g, m + 1)
  <2> DEFINE g == [i \in 0 .. m + 1 |-> IF i <= m THEN f[i] ELSE 2 * f[m]]
  <2>1. ASSUME NEW i \in 0 .. m + 1 PROVE g[i] = IF i = 0 THEN 1 ELSE 2 * g[i - 1]
    <3>1. CASE i = 0
      BY <3>1, <1>2
    <3>2. CASE i \in 1 .. m
      <4>1. g[i] = f[i] /\ g[i - 1] = f[i - 1]
        BY <3>2
      <4>2. f[i] = 2 * f[i - 1]
        <5>1. i \in 0 .. m /\ i # 0
          BY <3>2
        <5> QED
          BY <5>1, <1>2
      <4> HIDE DEF g
      <4> QED
        BY <4>1, <4>2, <3>2
    <3>3. CASE i = m + 1
      BY <3>3
    <3> QED
      BY <3>1, <3>2, <3>3
  <2>2. Good(g, m + 1)
    <3>1. g = [i \in 0 .. m + 1 |-> g[i]]
      OBVIOUS
    <3> HIDE DEF g
    <3> QED
      BY <2>1, <3>1
  <2> HIDE DEF g, Good
  <2> QED
    BY <2>2
<1>3. LogIndexCount \in Nat
  BY DEF Widths
<1>4. LogIndexCount \in S
  <2>1. \A m \in Nat : m \in S => m + 1 \in S
    <3> HIDE DEF Good
    <3> QED
      BY <1>2
  <2> HIDE DEF S
  <2> QED
    BY <1>1, <1>3, <2>1, NatInd
<1>5. Good(Resizable!TwoTo, LogIndexCount)
  <2>1. \E f : Good(f, LogIndexCount)
    <3> HIDE DEF Good
    <3> QED
      BY <1>4
  <2> QED
    BY <2>1 DEF Resizable!TwoTo
<1>6. \A i \in 0 .. LogIndexCount : Two(i) = IF i = 0 THEN 1 ELSE 2 * Two(i - 1)
  BY <1>5 DEF Two
<1> QED
  BY <1>3, <1>6

LEMMA PowersAreNumbers ==
  ASSUME Widths
  PROVE  \A k \in 0 .. LogIndexCount : Two(k) \in Nat \ {0}
<1> DEFINE S == {k \in Nat : k <= LogIndexCount => Two(k) \in Nat \ {0}}
<1>0. LogIndexCount \in Nat
  BY DEF Widths
<1>1. 0 \in S
  BY Doubling
<1>2. ASSUME NEW k \in Nat, k \in S PROVE k + 1 \in S
  <2>1. CASE k + 1 <= LogIndexCount
    <3>1. k + 1 \in 1 .. LogIndexCount /\ (k + 1) - 1 = k
      BY <1>0, <2>1
    <3>2. Two(k + 1) = 2 * Two(k)
      BY <3>1, Doubling
    <3>3. Two(k) \in Nat \ {0}
      BY <1>0, <1>2, <2>1
    <3> QED
      BY <3>2, <3>3
  <2> QED
    BY <2>1
<1>3. Nat \subseteq S
  <2> HIDE DEF S
  <2> QED
    BY <1>1, <1>2, NatInd
<1> QED
  BY <1>0, <1>3

\* A power of two divides the later ones, the next of which is twice as large.
LEMMA PowersDivide ==
  ASSUME Widths, NEW j \in 0 .. LogIndexCount, NEW k \in 0 .. LogIndexCount, j < k
  PROVE  \E m \in Nat \ {0} : Two(k) = (2 * m) * Two(j)
<1> DEFINE S == {k_1 \in Nat : j < k_1 /\ k_1 <= LogIndexCount =>
                    \E m \in Nat \ {0} : Two(k_1) = (2 * m) * Two(j)}
<1>0. LogIndexCount \in Nat /\ Two(j) \in Nat
  BY PowersAreNumbers DEF Widths
<1>1. 0 \in S
  OBVIOUS
<1>2. ASSUME NEW i \in Nat, i \in S PROVE i + 1 \in S
  <2>1. CASE j < i + 1 /\ i + 1 <= LogIndexCount
    <3>1. i + 1 \in 1 .. LogIndexCount /\ (i + 1) - 1 = i
      BY <1>0, <2>1
    <3>2. Two(i + 1) = 2 * Two(i)
      BY <3>1, Doubling
    <3>3. CASE i = j
      <4>1. Two(i + 1) = (2 * 1) * Two(j)
        BY <3>2, <3>3
      <4> QED
        BY <4>1
    <3>4. CASE j < i
      <4>1. PICK m \in Nat \ {0} : Two(i) = (2 * m) * Two(j)
        BY <1>0, <1>2, <2>1, <3>4
      <4>2. PICK n \in Nat \ {0} : n = 2 * m
        OBVIOUS
      <4>3. Two(i + 1) = (2 * n) * Two(j)
        BY <1>0, <3>2, <4>1, <4>2
      <4>4. \E n_1 \in Nat \ {0} : Two(i + 1) = (2 * n_1) * Two(j)
        BY <4>3
      <4> QED
        BY <4>4
    <3> QED
      BY <2>1, <3>3, <3>4
  <2> QED
    BY <2>1
<1>3. Nat \subseteq S
  <2> HIDE DEF S
  <2> QED
    BY <1>1, <1>2, NatInd
<1> QED
  BY <1>0, <1>3

-----------------------------------------------------------------------------
(* Remainders: the masks of the code.                                      *)

LEMMA Division ==
  \A c \in Nat \ {0}, x \in Int :
    x = (x \div c) * c + (x % c) /\ x % c \in 0 .. c - 1 /\ x \div c \in Int
OBVIOUS

LEMMA RemainderIs == \A c \in Nat \ {0} : \A q \in Int, r \in 0 .. c - 1 : (q * c + r) % c = r
OBVIOUS

\* What is added a multiple of the modulus to has the same remainder.
LEMMA SameRemainder ==
  ASSUME NEW c \in Nat \ {0}, NEW q \in Int, NEW x \in Int
  PROVE  (q * c + x) % c = x % c
<1>1. PICK p \in Int : x = p * c + (x % c) /\ x % c \in 0 .. c - 1
  BY Division
<1>2. q * c + x = (q + p) * c + (x % c)
  BY <1>1
<1>3. q + p \in Int
  OBVIOUS
<1> QED
  BY <1>1, <1>2, <1>3, RemainderIs

\* Indices may wrap around where the size of the ring divides their number.
LEMMA RemainderOfRemainder ==
  ASSUME NEW c \in Nat \ {0}, NEW m \in Nat \ {0}, NEW x \in Int
  PROVE  (x % (m * c)) % c = x % c
<1>0. m * c \in Nat \ {0}
  OBVIOUS
<1>1. PICK q \in Int : x = q * (m * c) + (x % (m * c))
  BY <1>0, Division
<1>2. PICK r \in Int : r = x % (m * c)
  BY <1>0, Division
<1>3. PICK k \in Int : k = q * m
  OBVIOUS
<1>4. x = k * c + r
  BY <1>1, <1>2, <1>3
<1> QED
  BY <1>2, <1>4, SameRemainder

\* The slot of the k-th element from the tail on.
Place(c, t, k) == ((t + k) % c) + 1

LEMMA PlaceValue ==
  ASSUME NEW c \in Nat \ {0}, NEW t \in Nat, NEW k \in 0 .. c
  PROVE  /\ t % c \in 0 .. c - 1
         /\ Place(c, t, k) = IF (t % c) + k < c THEN (t % c) + k + 1 ELSE (t % c) + k - c + 1
         /\ Place(c, t, k) \in 1 .. c
<1>0. t \in Int
  OBVIOUS
<1>1. PICK p \in Int, a \in 0 .. c - 1 : t = p * c + a /\ a = t % c
  <2>1. t = (t \div c) * c + (t % c) /\ t % c \in 0 .. c - 1 /\ t \div c \in Int
    BY <1>0, Division
  <2> QED
    BY <2>1
<1>2. CASE a + k < c
  <2>1. t + k = p * c + (a + k) /\ a + k \in 0 .. c - 1
    BY <1>1, <1>2
  <2>2. (t + k) % c = a + k
    BY <2>1, RemainderIs
  <2>3. Place(c, t, k) = a + k + 1
    BY <2>2 DEF Place
  <2> QED
    BY <1>1, <1>2, <2>3
<1>3. CASE ~ (a + k < c)
  <2>1. t + k = (p + 1) * c + (a + k - c) /\ a + k - c \in 0 .. c - 1 /\ p + 1 \in Int
    BY <1>1, <1>3
  <2>2. (t + k) % c = a + k - c
    BY <2>1, RemainderIs
  <2>3. Place(c, t, k) = a + k - c + 1
    BY <2>2 DEF Place
  <2> QED
    BY <1>1, <1>3, <2>3
<1> QED
  BY <1>2, <1>3

\* Different elements are in different slots.
LEMMA PlacesDiffer ==
  ASSUME NEW c \in Nat \ {0}, NEW t \in Nat, NEW j \in 0 .. c - 1, NEW k \in 0 .. c - 1,
         Place(c, t, j) = Place(c, t, k)
  PROVE  j = k
<1>1. j \in 0 .. c /\ k \in 0 .. c
  OBVIOUS
<1>2. PICK a \in 0 .. c - 1 : a = t % c
  BY <1>1, PlaceValue
<1>3. PICK x \in Int : x = Place(c, t, j)
  BY <1>1, PlaceValue
<1>4. x = IF a + j < c THEN a + j + 1 ELSE a + j - c + 1
  BY <1>1, <1>2, <1>3, PlaceValue
<1>5. x = IF a + k < c THEN a + k + 1 ELSE a + k - c + 1
  BY <1>1, <1>2, <1>3, PlaceValue
<1> QED
  BY <1>4, <1>5

\* Every slot is the place of an element.
LEMMA PlacesCover ==
  ASSUME NEW c \in Nat \ {0}, NEW t \in Nat, NEW i \in 1 .. c
  PROVE  \E k \in 0 .. c - 1 : i = Place(c, t, k)
<1>1. PICK a \in 0 .. c - 1 : a = t % c
  BY PlaceValue
<1>2. PICK k \in 0 .. c - 1 : k = IF i - 1 >= a THEN i - 1 - a ELSE i - 1 - a + c
  <2>1. (IF i - 1 >= a THEN i - 1 - a ELSE i - 1 - a + c) \in 0 .. c - 1
    OBVIOUS
  <2> QED
    BY <2>1
<1>3. k \in 0 .. c
  OBVIOUS
<1>4. Place(c, t, k) = IF a + k < c THEN a + k + 1 ELSE a + k - c + 1
  BY <1>1, <1>3, PlaceValue
<1>5. i = Place(c, t, k)
  BY <1>2, <1>4
<1> QED
  BY <1>5

\* The index u is j behind t, in a range of N indices which c slots divide.
Behind(c, N, t, j, u) == u = (t + j) % N /\ \E m \in Nat \ {0} : N = m * c

\* Contents further back, seen from a later tail.
LEMMA PlacesShift ==
  ASSUME NEW c \in Nat \ {0}, NEW N \in Nat \ {0}, NEW t \in Nat, NEW j \in Nat,
         NEW k \in Nat, NEW u, Behind(c, N, t, j, u)
  PROVE  Place(c, u, k) = Place(c, t, j + k)
<1>1. PICK m \in Nat \ {0} : N = m * c
  BY DEF Behind
<1>2. PICK r \in Nat, q \in Int : r = u /\ t + j = q * (m * c) + r
  <2>1. PICK x \in Int : x = t + j
    OBVIOUS
  <2>2. x = (x \div N) * N + (x % N) /\ x % N \in 0 .. N - 1 /\ x \div N \in Int
    BY Division
  <2>3. x % N \in Nat
    BY <2>2
  <2>4. u = x % N
    BY <2>1 DEF Behind
  <2> QED
    BY <1>1, <2>1, <2>2, <2>3, <2>4
<1>3. PICK p \in Int : p = q * m
  OBVIOUS
<1>4. t + (j + k) = p * c + (r + k)
  BY <1>2, <1>3
<1>5. (t + (j + k)) % c = (r + k) % c
  <2>1. r + k \in Int
    OBVIOUS
  <2> QED
    BY <1>4, <2>1, SameRemainder
<1> QED
  BY <1>2, <1>5 DEF Place

-----------------------------------------------------------------------------
(* A ring of n elements in c slots.                                        *)

Indices == Resizable!IndexCount

Sizes == Resizable!Capacities

Slots == Seq(Item \cup {NoItem})

RingQueue ==
  [storage : Slots, head : 0 .. Indices - 1, tail : 0 .. Indices - 1,
   strays : SUBSET {"shrink"}]

Ring(q, c, n) ==
  /\ q \in RingQueue
  /\ c = Len(q.storage) /\ c \in {0} \cup Sizes
  /\ n \in 0 .. c
  /\ q.head = (q.tail + n) % Indices
  /\ \A k \in 0 .. c - 1 : q.storage[Place(c, q.tail, k)] # NoItem <=> k < n

\* Its elements, the oldest first.
Contents(q, n) == [k \in 1 .. n |-> q.storage[Place(Len(q.storage), q.tail, k - 1)]]

LEMMA SizesDivide ==
  ASSUME Widths
  PROVE  /\ Indices \in Nat \ {0}
         /\ \A c \in Sizes : /\ c \in Nat \ {0} /\ c < Indices
                             /\ \E m \in Nat \ {0} : Indices = m * c
<1>0. LogIndexCount \in Nat /\ LogMaxCapacity \in 0 .. LogIndexCount - 1
  BY DEF Widths
<1>1. Indices = Two(LogIndexCount) /\ Indices \in Nat \ {0}
  BY <1>0, PowersAreNumbers DEF Indices, Resizable!IndexCount, Two
<1>2. ASSUME NEW c \in Sizes
      PROVE  /\ c \in Nat \ {0} /\ c < Indices
             /\ \E m \in Nat \ {0} : Indices = m * c
  <2>1. PICK k \in 0 .. LogMaxCapacity : c = Two(k)
    BY DEF Sizes, Resizable!Capacities, Two
  <2>2. k \in 0 .. LogIndexCount /\ k < LogIndexCount /\ LogIndexCount \in 0 .. LogIndexCount
    BY <1>0
  <2>3. c \in Nat \ {0}
    BY <2>1, <2>2, PowersAreNumbers
  <2>4. PICK m \in Nat \ {0} : Two(LogIndexCount) = (2 * m) * Two(k)
    BY <2>2, PowersDivide
  <2>5. PICK n \in Nat \ {0} : n = 2 * m /\ n >= 2
    OBVIOUS
  <2>6. Indices = n * c
    BY <1>1, <2>1, <2>4, <2>5
  <2>7. n * c >= 2 * c
    BY <2>3, <2>5
  <2>8. c < Indices
    BY <2>3, <2>6, <2>7
  <2> QED
    BY <2>3, <2>6, <2>8
<1> QED
  BY <1>1, <1>2

LEMMA RingTypes ==
  ASSUME Widths, NEW q, NEW c, NEW n, Ring(q, c, n)
  PROVE  /\ c \in Nat /\ n \in Nat /\ n <= c /\ c < Indices /\ Indices \in Nat \ {0}
         /\ q.storage \in Slots /\ c = Len(q.storage) /\ DOMAIN q.storage = 1 .. c
         /\ q.head \in 0 .. Indices - 1 /\ q.tail \in 0 .. Indices - 1
         /\ c # 0 => c \in Nat \ {0} /\ \E m \in Nat \ {0} : Indices = m * c
<1>1. q.storage \in Slots /\ q.head \in 0 .. Indices - 1 /\ q.tail \in 0 .. Indices - 1
  BY DEF Ring, RingQueue
<1>2. c = Len(q.storage) /\ c \in {0} \cup Sizes /\ n \in 0 .. c
  BY DEF Ring
<1>3. c \in Nat /\ DOMAIN q.storage = 1 .. c
  BY <1>1, <1>2 DEF Slots
<1>4. c # 0 => c \in Sizes
  BY <1>2
<1>5. Indices \in Nat \ {0}
  BY SizesDivide
<1>6. c # 0 => c \in Nat \ {0} /\ c < Indices /\ \E m \in Nat \ {0} : Indices = m * c
  BY <1>4, SizesDivide
<1>7. c < Indices
  BY <1>3, <1>5, <1>6
<1>8. n \in Nat /\ n <= c
  BY <1>2, <1>3
<1> QED
  BY <1>1, <1>2, <1>3, <1>5, <1>6, <1>7, <1>8

\* A remainder that is less than one turn away.
LEMMA OneTurn ==
  ASSUME NEW N \in Nat \ {0}, NEW t \in 0 .. N - 1, NEW n \in 0 .. N - 1
  PROVE  /\ (t + n) % N = IF t + n < N THEN t + n ELSE t + n - N
         /\ (((t + n) % N) - t) % N = n
<1>1. CASE t + n < N
  <2>1. (0 * N + (t + n)) % N = t + n
    BY <1>1, RemainderIs
  <2>2. (t + n) % N = t + n
    BY <2>1
  <2>3. (0 * N + n) % N = n
    BY RemainderIs
  <2> QED
    BY <1>1, <2>2, <2>3
<1>2. CASE ~ (t + n < N)
  <2>1. (1 * N + (t + n - N)) % N = t + n - N
    BY <1>2, RemainderIs
  <2>2. (t + n) % N = t + n - N
    BY <2>1
  <2>3. ((-1) * N + n) % N = n
    BY RemainderIs
  <2>4. ((t + n) % N) - t = (-1) * N + n
    BY <2>2
  <2> QED
    BY <1>2, <2>2, <2>3, <2>4
<1> QED
  BY <1>1, <1>2

LEMMA RingCount ==
  ASSUME Widths, NEW q, NEW c, NEW n, Ring(q, c, n)
  PROVE  Resizable!Count(q) = n
<1>0. /\ Indices \in Nat \ {0} /\ q.tail \in 0 .. Indices - 1 /\ n \in Nat /\ n <= c
      /\ c < Indices /\ c \in Nat
  BY RingTypes
<1>1. /\ Indices \in Nat \ {0} /\ q.tail \in 0 .. Indices - 1 /\ n \in 0 .. Indices - 1
      /\ q.head = (q.tail + n) % Indices
  BY <1>0 DEF Ring
<1>2. (((q.tail + n) % Indices) - q.tail) % Indices = n
  BY <1>1, OneTurn
<1> QED
  BY <1>1, <1>2 DEF Resizable!Count, Indices

\* A masked index is the place of an element.
LEMMA Masks ==
  ASSUME Widths, NEW q, NEW c, NEW n, Ring(q, c, n), c # 0, NEW k \in 0 .. c
  PROVE  Resizable!Masked(q, (q.tail + k) % Indices) + 1 = Place(c, q.tail, k)
<1>1. c = Len(q.storage) /\ c \in Nat \ {0} /\ q.tail \in Nat
  BY RingTypes
<1>2. PICK m \in Nat \ {0} : Indices = m * c
  BY RingTypes
<1>3. PICK x \in Int : x = q.tail + k
  BY <1>1
<1>4. (x % (m * c)) % c = x % c
  BY <1>1, RemainderOfRemainder
<1> QED
  BY <1>1, <1>2, <1>3, <1>4 DEF Resizable!Masked, Resizable!AllocatedCapacity, Place

LEMMA ContentsSeq ==
  ASSUME Widths, NEW q, NEW c, NEW n, Ring(q, c, n)
  PROVE  Contents(q, n) \in Seq(Item) /\ Len(Contents(q, n)) = n
<1>1. /\ n \in Nat /\ n <= c /\ q.storage \in Slots /\ c = Len(q.storage) /\ c \in Nat
      /\ DOMAIN q.storage = 1 .. c /\ q.tail \in Nat
  BY RingTypes
<1>2. ASSUME NEW k \in 1 .. n PROVE q.storage[Place(Len(q.storage), q.tail, k - 1)] \in Item
  <2>1. k - 1 \in 0 .. c - 1 /\ k - 1 \in 0 .. c /\ k - 1 < n /\ c \in Nat \ {0}
    BY <1>1
  <2>2. Place(c, q.tail, k - 1) \in 1 .. c
    BY <1>1, <2>1, PlaceValue
  <2>3. q.storage[Place(c, q.tail, k - 1)] # NoItem
    BY <2>1 DEF Ring
  <2>4. q.storage[Place(c, q.tail, k - 1)] \in Item \cup {NoItem}
    BY <1>1, <2>2 DEF Slots
  <2> QED
    BY <1>1, <2>3, <2>4
<1>3. Contents(q, n) \in [1 .. n -> Item]
  BY <1>2 DEF Contents
<1> QED
  BY <1>1, <1>3

-----------------------------------------------------------------------------
(* The methods.                                                            *)

\* An element more, where there is room.
Enqueued(q, x) ==
  [q EXCEPT !.storage[Resizable!Masked(q, q.head) + 1] = x,
            !.head = (q.head + 1) % Indices]

LEMMA NextIndex ==
  ASSUME NEW N \in Nat \ {0}, NEW t \in 0 .. N - 1, NEW n \in Nat, NEW k \in Nat
  PROVE  (((t + n) % N) + k) % N = (t + (n + k)) % N
<1>1. PICK r \in Nat, q \in Int : r = (t + n) % N /\ t + n = q * N + r
  <2>1. PICK x \in Int : x = t + n
    OBVIOUS
  <2>2. x = (x \div N) * N + (x % N) /\ x % N \in 0 .. N - 1 /\ x \div N \in Int
    BY Division
  <2> QED
    BY <2>1, <2>2
<1>2. t + (n + k) = q * N + (r + k) /\ r + k \in Int
  BY <1>1
<1> QED
  BY <1>1, <1>2, SameRemainder

LEMMA EnqueueRing ==
  ASSUME Widths, NEW q, NEW c, NEW n, Ring(q, c, n), n < c, NEW x \in Item
  PROVE  /\ Ring(Enqueued(q, x), c, n + 1)
         /\ Contents(Enqueued(q, x), n + 1) = Append(Contents(q, n), x)
<1>1. /\ c \in Nat \ {0} /\ n \in Nat /\ Indices \in Nat \ {0} /\ c < Indices
      /\ q.storage \in Slots /\ c = Len(q.storage) /\ DOMAIN q.storage = 1 .. c
      /\ q.head \in 0 .. Indices - 1 /\ q.tail \in 0 .. Indices - 1
  BY RingTypes
<1>2. q.tail \in Nat /\ n \in 0 .. c /\ n \in 0 .. c - 1
  BY <1>1
<1>3. Resizable!Masked(q, q.head) + 1 = Place(c, q.tail, n)
  <2>1. q.head = (q.tail + n) % Indices
    BY DEF Ring
  <2> QED
    BY <1>1, <1>2, <2>1, Masks
<1>4. PICK p \in 1 .. c : p = Place(c, q.tail, n)
  BY <1>1, <1>2, PlaceValue
<1>5. PICK h : h = (q.head + 1) % Indices
  OBVIOUS
<1>6. h \in 0 .. Indices - 1 /\ h = (q.tail + (n + 1)) % Indices
  <2>1. q.head = (q.tail + n) % Indices
    BY DEF Ring
  <2>2. h = (q.tail + (n + 1)) % Indices
    <3>1. PICK k \in Nat : k = 1
      OBVIOUS
    <3>2. (((q.tail + n) % Indices) + k) % Indices = (q.tail + (n + k)) % Indices
      BY <1>1, NextIndex
    <3> QED
      BY <1>5, <2>1, <3>1, <3>2
  <2>3. PICK y \in Int : y = q.head + 1
    BY <1>1
  <2>4. y % Indices \in 0 .. Indices - 1
    BY <1>1, Division
  <2> QED
    BY <1>5, <2>2, <2>3, <2>4
<1>7. PICK st : st = [q.storage EXCEPT ![p] = x]
  OBVIOUS
<1>8. /\ st \in Slots /\ Len(st) = c /\ DOMAIN st = 1 .. c /\ st[p] = x
      /\ \A i \in 1 .. c : i # p => st[i] = q.storage[i]
  BY <1>1, <1>7 DEF Slots
<1>9. PICK r : r = Enqueued(q, x)
  OBVIOUS
<1>10. r = [q EXCEPT !.storage = st, !.head = h]
  BY <1>3, <1>4, <1>5, <1>7, <1>9 DEF Enqueued
<1>11. q \in RingQueue
  BY DEF Ring
<1>12. r \in RingQueue /\ r.storage = st /\ r.head = h /\ r.tail = q.tail
  BY <1>6, <1>8, <1>10, <1>11 DEF RingQueue
<1>13. \A k \in 0 .. c - 1 : k # n => st[Place(c, q.tail, k)] = q.storage[Place(c, q.tail, k)]
  <2> SUFFICES ASSUME NEW k \in 0 .. c - 1, k # n
               PROVE  st[Place(c, q.tail, k)] = q.storage[Place(c, q.tail, k)]
    OBVIOUS
  <2>1. Place(c, q.tail, k) # p
    BY <1>1, <1>2, <1>4, PlacesDiffer
  <2>2. k \in 0 .. c
    BY <1>1
  <2>3. Place(c, q.tail, k) \in 1 .. c
    BY <1>1, <1>2, <2>2, PlaceValue
  <2> QED
    BY <1>8, <2>1, <2>3
<1>14. Ring(r, c, n + 1)
  <2>1. ASSUME NEW k \in 0 .. c - 1
        PROVE  st[Place(c, q.tail, k)] # NoItem <=> k < n + 1
    <3>1. CASE k = n
      <4>1. st[Place(c, q.tail, k)] = x
        BY <1>4, <1>8, <3>1
      <4>2. x # NoItem
        BY DEF Widths
      <4> QED
        BY <1>1, <3>1, <4>1, <4>2
    <3>2. CASE k # n
      <4>1. st[Place(c, q.tail, k)] = q.storage[Place(c, q.tail, k)]
        BY <1>13, <3>2
      <4>2. q.storage[Place(c, q.tail, k)] # NoItem <=> k < n
        BY DEF Ring
      <4>3. k < n <=> k < n + 1
        BY <1>1, <3>2
      <4> QED
        BY <4>1, <4>2, <4>3
    <3> QED
      BY <3>1, <3>2
  <2>2. n + 1 \in 0 .. c
    BY <1>1
  <2>3. c \in {0} \cup Sizes
    BY DEF Ring
  <2> QED
    BY <1>6, <1>8, <1>12, <2>1, <2>2, <2>3 DEF Ring
<1>15. Contents(r, n + 1) = Append(Contents(q, n), x)
  <2>1. Contents(q, n) \in Seq(Item) /\ Len(Contents(q, n)) = n
    BY ContentsSeq
  <2>2. Contents(r, n + 1) \in Seq(Item) /\ Len(Contents(r, n + 1)) = n + 1
    BY <1>14, ContentsSeq
  <2>3. ASSUME NEW k \in 1 .. n PROVE Contents(r, n + 1)[k] = Contents(q, n)[k]
    <3>1. k - 1 \in 0 .. c - 1 /\ k - 1 # n /\ k \in 1 .. n + 1
      BY <1>1
    <3> QED
      BY <1>1, <1>8, <1>12, <1>13, <3>1 DEF Contents
  <2>4. Contents(r, n + 1)[n + 1] = x
    <3>1. n + 1 \in 1 .. n + 1 /\ (n + 1) - 1 = n
      BY <1>1
    <3> QED
      BY <1>1, <1>4, <1>8, <1>12, <3>1 DEF Contents
  <2>5. PICK a \in Seq(Item), b \in Seq(Item) : a = Contents(q, n) /\ b = Contents(r, n + 1)
    BY <2>1, <2>2
  <2>6. b = Append(a, x)
    BY <1>1, <2>1, <2>2, <2>3, <2>4, <2>5
  <2> QED
    BY <2>5, <2>6
<1> QED
  BY <1>9, <1>14, <1>15

\* The two ends of what is popped.
LEMMA PoppedEnds ==
  ASSUME Widths, NEW q, NEW c, NEW n, Ring(q, c, n), NEW m \in 1 .. n
  PROVE  \E a \in 0 .. c - 1, b \in 0 .. c - 1 :
           /\ a = q.tail % c /\ a = Resizable!Masked(q, q.tail)
           /\ b = Resizable!Masked(q, q.tail + m)
           /\ a + m < c => b = a + m
           /\ ~ (a + m < c) => b = a + m - c
<1>1. /\ c \in Nat \ {0} /\ n \in Nat /\ n <= c /\ q.tail \in Nat /\ c = Len(q.storage)
      /\ DOMAIN q.storage = 1 .. c
  BY RingTypes
<1>0. c \in Nat \ {0} /\ n \in Nat /\ n <= c /\ m \in Nat /\ m >= 1 /\ m <= c
  BY <1>1
<1>2. PICK a \in 0 .. c - 1 : a = q.tail % c
  <2>1. 0 \in 0 .. c
    BY <1>1
  <2> QED
    BY <1>1, <2>1, PlaceValue
<1>3. Resizable!Masked(q, q.tail) = a
  BY <1>1, <1>2 DEF Resizable!Masked, Resizable!AllocatedCapacity
<1>4. PICK b \in 0 .. c - 1 :
        /\ b = Resizable!Masked(q, q.tail + m)
        /\ a + m < c => b = a + m
        /\ ~ (a + m < c) => b = a + m - c
  <2>1. m \in 0 .. c
    BY <1>1
  <2>2. /\ Place(c, q.tail, m) = IF a + m < c THEN a + m + 1 ELSE a + m - c + 1
    BY <1>1, <1>2, <2>1, PlaceValue
  <2>3. ((q.tail + m) % c) + 1 = IF a + m < c THEN a + m + 1 ELSE a + m - c + 1
    BY <2>2 DEF Place
  <2>4. PICK b \in Int : b = (q.tail + m) % c /\ b \in 0 .. c - 1
    <3>1. PICK x \in Int : x = q.tail + m
      BY <1>1
    <3>2. x % c \in 0 .. c - 1
      BY <1>1, Division
    <3> QED
      BY <3>1, <3>2
  <2>8. b \in Int
    OBVIOUS
  <2>5. b + 1 = IF a + m < c THEN a + m + 1 ELSE a + m - c + 1
    BY <2>3, <2>4
  <2>6. (a + m < c => b = a + m) /\ (~ (a + m < c) => b = a + m - c)
    BY <1>0, <2>5, <2>8
  <2>7. b = Resizable!Masked(q, q.tail + m)
    BY <1>1, <2>4 DEF Resizable!Masked, Resizable!AllocatedCapacity
  <2> QED
    BY <2>4, <2>6, <2>7
<1> QED
  BY <1>2, <1>3, <1>4

\* The slots that a pop of m elements empties are the places of the first m.
LEMMA PoppedSlots ==
  ASSUME Widths, NEW q, NEW c, NEW n, Ring(q, c, n), NEW m \in 1 .. n
  PROVE  \A k \in 0 .. c - 1 : Place(c, q.tail, k) \in Resizable!Popped(q, m) <=> k < m
<1>1. /\ c \in Nat \ {0} /\ n \in Nat /\ n <= c /\ q.tail \in Nat /\ c = Len(q.storage)
      /\ DOMAIN q.storage = 1 .. c
  BY RingTypes
<1>0. c \in Nat \ {0} /\ n \in Nat /\ n <= c /\ m \in Nat /\ m >= 1 /\ m <= c
  BY <1>1
<1>2. PICK a \in 0 .. c - 1, b \in 0 .. c - 1 :
        /\ a = q.tail % c /\ a = Resizable!Masked(q, q.tail)
        /\ b = Resizable!Masked(q, q.tail + m)
        /\ a + m < c => b = a + m
        /\ ~ (a + m < c) => b = a + m - c
  BY PoppedEnds
<1>3. Resizable!Masked(q, q.tail) = a
  BY <1>2
<1>4. /\ b = Resizable!Masked(q, q.tail + m)
      /\ a + m < c => b = a + m
      /\ ~ (a + m < c) => b = a + m - c
  BY <1>2
<1>5. Resizable!Popped(q, m) =
        IF a >= b THEN {i \in 1 .. c : i > a \/ i <= b} ELSE a + 1 .. a + m
  BY <1>1, <1>3, <1>4 DEF Resizable!Popped
<1>6. SUFFICES ASSUME NEW k \in 0 .. c - 1
               PROVE  Place(c, q.tail, k) \in Resizable!Popped(q, m) <=> k < m
  OBVIOUS
<1>7. PICK p \in 1 .. c :
        /\ p = Place(c, q.tail, k)
        /\ a + k < c => p = a + k + 1
        /\ ~ (a + k < c) => p = a + k - c + 1
  <2>1. k \in 0 .. c
    BY <1>1
  <2>2. /\ Place(c, q.tail, k) \in 1 .. c
        /\ Place(c, q.tail, k) = IF (q.tail % c) + k < c THEN (q.tail % c) + k + 1
                                ELSE (q.tail % c) + k - c + 1
    BY <1>1, <2>1, PlaceValue
  <2>3. q.tail % c = a
    BY <1>2
  <2> QED
    BY <1>1, <2>2, <2>3
<1>8. CASE a >= b
  <2>1. p \in Resizable!Popped(q, m) <=> (p > a \/ p <= b)
    BY <1>5, <1>8
  <2>2. b = a + m - c
    BY <1>0, <1>4, <1>8
  <2>3. (p > a \/ p <= b) <=> k < m
    <3>1. CASE a + k < c
      BY <1>0, <1>7, <2>2, <3>1
    <3>2. CASE ~ (a + k < c)
      BY <1>0, <1>7, <2>2, <3>2
    <3> QED
      BY <3>1, <3>2
  <2> QED
    BY <1>7, <2>1, <2>3
<1>9. CASE ~ (a >= b)
  <2>1. p \in Resizable!Popped(q, m) <=> p \in a + 1 .. a + m
    BY <1>5, <1>9
  <2>2. b = a + m /\ a + m < c
    BY <1>0, <1>4, <1>9
  <2>3. p \in a + 1 .. a + m <=> k < m
    <3>1. CASE a + k < c
      BY <1>0, <1>7, <2>2, <3>1
    <3>2. CASE ~ (a + k < c)
      BY <1>0, <1>7, <2>2, <3>2
    <3> QED
      BY <3>1, <3>2
  <2> QED
    BY <1>7, <2>1, <2>3
<1> QED
  BY <1>8, <1>9

\* A pop destructs nothing but elements.
LEMMA PopsNoStrays ==
  ASSUME Widths, NEW q, NEW c, NEW n, Ring(q, c, n), NEW m \in 1 .. n
  PROVE  Resizable!Strays(q, Resizable!Popped(q, m), "pop") = {}
<1>1. /\ c \in Nat \ {0} /\ n \in Nat /\ n <= c /\ q.tail \in Nat /\ c = Len(q.storage)
      /\ DOMAIN q.storage = 1 .. c
  BY RingTypes
<1>2. Resizable!Popped(q, m) \subseteq 1 .. c
  <2>1. CASE Resizable!Popped(q, m) \subseteq DOMAIN q.storage
    BY <1>1, <2>1
  <2>2. CASE ~ (Resizable!Popped(q, m) \subseteq DOMAIN q.storage)
    <3>1. PICK a \in 0 .. c - 1, b \in 0 .. c - 1 :
            /\ a = Resizable!Masked(q, q.tail) /\ b = Resizable!Masked(q, q.tail + m)
            /\ a + m < c => b = a + m
            /\ ~ (a + m < c) => b = a + m - c
      BY PoppedEnds
    <3>2. a < b /\ Resizable!Popped(q, m) = a + 1 .. a + m
      BY <2>2, <3>1 DEF Resizable!Popped
    <3>3. a + m < c /\ m \in Nat
      BY <1>1, <3>1, <3>2
    <3> QED
      BY <1>1, <3>2, <3>3
  <2> QED
    BY <2>1, <2>2
<1>3. ASSUME NEW i \in Resizable!Popped(q, m) PROVE i \in DOMAIN q.storage /\ q.storage[i] # NoItem
  <2>1. PICK k \in 0 .. c - 1 : i = Place(c, q.tail, k)
    BY <1>1, <1>2, PlacesCover
  <2>2. k < m
    BY <2>1, PoppedSlots
  <2>3. k < n
    BY <1>1, <2>2
  <2> QED
    BY <1>1, <1>2, <2>1, <2>3 DEF Ring
<1> QED
  BY <1>3 DEF Resizable!Strays

LEMMA PopRing ==
  ASSUME Widths, NEW q, NEW c, NEW n, Ring(q, c, n), NEW m \in 1 .. n
  PROVE  /\ Ring(Resizable!PopNoCheck(q, m), c, n - m)
         /\ Contents(Resizable!PopNoCheck(q, m), n - m) = SubSeq(Contents(q, n), m + 1, n)
<1>1. /\ c \in Nat \ {0} /\ n \in Nat /\ n <= c /\ Indices \in Nat \ {0} /\ c < Indices
      /\ q.storage \in Slots /\ c = Len(q.storage) /\ DOMAIN q.storage = 1 .. c
      /\ q.head \in 0 .. Indices - 1 /\ q.tail \in 0 .. Indices - 1 /\ q.tail \in Nat
      /\ m \in Nat /\ m # 0
  BY RingTypes
<1>2. PICK d \in Nat \ {0} : Indices = d * c
  BY <1>1, RingTypes
<1>3. PICK t : t = (q.tail + m) % Indices
  OBVIOUS
<1>4. /\ t \in 0 .. Indices - 1
      /\ \A k \in Nat : Place(c, t, k) = Place(c, q.tail, m + k)
  <2>1. PICK x \in Int : x = q.tail + m
    BY <1>1
  <2>2. x % Indices \in 0 .. Indices - 1
    BY <1>1, Division
  <2>3. \A k \in Nat : Place(c, t, k) = Place(c, q.tail, m + k)
    <3>1. Behind(c, Indices, q.tail, m, t)
      BY <1>2, <1>3 DEF Behind
    <3> QED
      BY <1>1, <3>1, PlacesShift
  <2> QED
    BY <1>3, <2>1, <2>2, <2>3
<1>5. PICK st : st = [i \in 1 .. c |-> IF i \in Resizable!Popped(q, m) THEN NoItem ELSE q.storage[i]]
  OBVIOUS
<1>6. st \in Slots /\ Len(st) = c
  <2>1. st \in [1 .. c -> Item \cup {NoItem}]
    BY <1>1, <1>5 DEF Slots
  <2> QED
    BY <1>1, <2>1 DEF Slots
<1>7. PICK r : r = Resizable!PopNoCheck(q, m)
  OBVIOUS
<1>14. PICK stray : stray = q.strays \cup Resizable!Strays(q, Resizable!Popped(q, m), "pop")
  OBVIOUS
<1>15. stray = q.strays
  BY <1>14, PopsNoStrays
<1>8. r = [q EXCEPT !.storage = st, !.tail = t, !.strays = stray]
  BY <1>1, <1>3, <1>5, <1>7, <1>14 DEF Resizable!PopNoCheck, Indices
<1>9. r \in RingQueue /\ r.storage = st /\ r.head = q.head /\ r.tail = t
  <2>1. q \in RingQueue
    BY DEF Ring
  <2> QED
    BY <1>4, <1>6, <1>8, <1>15, <2>1 DEF RingQueue
<1>10. \A k \in 0 .. c - 1 : st[Place(c, q.tail, k)] = IF k < m THEN NoItem ELSE q.storage[Place(c, q.tail, k)]
  <2> SUFFICES ASSUME NEW k \in 0 .. c - 1
               PROVE  st[Place(c, q.tail, k)] = IF k < m THEN NoItem ELSE q.storage[Place(c, q.tail, k)]
    OBVIOUS
  <2>1. k \in 0 .. c
    BY <1>1
  <2>2. PICK p \in 1 .. c : p = Place(c, q.tail, k)
    BY <1>1, <2>1, PlaceValue
  <2>3. p \in Resizable!Popped(q, m) <=> k < m
    BY <2>2, PoppedSlots
  <2> QED
    BY <1>5, <2>2, <2>3
<1>11. q.head = (t + (n - m)) % Indices
  <2>1. q.head = (q.tail + n) % Indices
    BY DEF Ring
  <2>2. PICK j \in Nat : j = n - m
    BY <1>1
  <2>3. (t + j) % Indices = (q.tail + (m + j)) % Indices
    BY <1>1, <1>3, NextIndex
  <2>4. m + j = n
    BY <1>1, <2>2
  <2> QED
    BY <2>1, <2>2, <2>3, <2>4
<1>12. Ring(r, c, n - m)
  <2>1. ASSUME NEW k \in 0 .. c - 1
        PROVE  st[Place(c, t, k)] # NoItem <=> k < n - m
    <3>0. Place(c, t, k) = Place(c, q.tail, m + k)
      BY <1>4
    <3>1. CASE m + k < c
      <4>1. m + k \in 0 .. c - 1 /\ ~ (m + k < m) /\ (m + k < n <=> k < n - m)
        BY <1>1, <3>1
      <4>2. st[Place(c, q.tail, m + k)] = q.storage[Place(c, q.tail, m + k)]
        BY <1>10, <4>1
      <4>3. q.storage[Place(c, q.tail, m + k)] # NoItem <=> m + k < n
        BY <4>1 DEF Ring
      <4> QED
        BY <3>0, <4>1, <4>2, <4>3
    <3>2. CASE ~ (m + k < c)
      <4>0. c \in Nat \ {0} /\ n \in Nat /\ n <= c /\ m \in Nat /\ m <= n
        BY <1>1
      <4>1. PICK j \in 0 .. c - 1 : j = m + k - c
        <5>1. m + k - c \in 0 .. c - 1
          BY <4>0, <3>2
        <5> QED
          BY <5>1
      <4>2. Place(c, q.tail, m + k) = Place(c, q.tail, j)
        <5>1. PICK x \in Int : x = q.tail + j
          BY <1>1
        <5>2. (1 * c + x) % c = x % c
          <6>1. 1 \in Int /\ c \in Nat \ {0}
            BY <4>0
          <6> QED
            BY <6>1, SameRemainder
        <5>4. q.tail \in Nat
          BY <1>1
        <5>3. q.tail + (m + k) = 1 * c + x
          BY <4>0, <4>1, <5>1, <5>4
        <5> QED
          BY <5>1, <5>2, <5>3 DEF Place
      <4>3. j < m /\ ~ (k < n - m)
        BY <3>2, <4>0, <4>1
      <4>4. st[Place(c, q.tail, j)] = NoItem
        BY <1>10, <4>3
      <4> QED
        BY <3>0, <4>2, <4>3, <4>4
    <3> QED
      BY <3>1, <3>2
  <2>2. n - m \in 0 .. c
    BY <1>1
  <2>3. c \in {0} \cup Sizes
    BY DEF Ring
  <2> QED
    BY <1>6, <1>9, <1>11, <2>1, <2>2, <2>3 DEF Ring
<1>13. Contents(r, n - m) = SubSeq(Contents(q, n), m + 1, n)
  <2>1. Contents(q, n) \in Seq(Item) /\ Len(Contents(q, n)) = n
    BY ContentsSeq
  <2>2. Contents(r, n - m) \in Seq(Item) /\ Len(Contents(r, n - m)) = n - m
    BY <1>12, ContentsSeq
  <2>3. ASSUME NEW k \in 1 .. n - m PROVE Contents(r, n - m)[k] = Contents(q, n)[m + k]
    <3>1. /\ m + (k - 1) \in 0 .. c - 1 /\ ~ (m + (k - 1) < m) /\ m + k \in 1 .. n /\ k - 1 \in Nat
          /\ (m + k) - 1 = m + (k - 1)
      BY <1>1
    <3>2. st[Place(c, q.tail, m + (k - 1))] = q.storage[Place(c, q.tail, m + (k - 1))]
      BY <1>10, <3>1
    <3>3. Place(c, t, k - 1) = Place(c, q.tail, m + (k - 1))
      BY <1>4, <3>1
    <3>4. Contents(r, n - m)[k] = st[Place(c, t, k - 1)]
      BY <1>6, <1>9 DEF Contents
    <3>5. Contents(q, n)[m + k] = q.storage[Place(c, q.tail, m + (k - 1))]
      BY <1>1, <3>1 DEF Contents
    <3> QED
      BY <3>2, <3>3, <3>4, <3>5
  <2>4. PICK u \in Seq(Item), v \in Seq(Item) : u = Contents(q, n) /\ v = Contents(r, n - m)
    BY <2>1, <2>2
  <2>6. Len(u) = n /\ Len(v) = n - m /\ \A k \in 1 .. n - m : v[k] = u[m + k]
    BY <2>1, <2>2, <2>3, <2>4
  <2>7. PICK w \in Seq(Item) : w = SubSeq(u, m + 1, n)
    <3>1. \A i \in m + 1 .. n : u[i] \in Item
      BY <1>1, <2>6
    <3> QED
      BY <1>1, <2>6, SubSeqProperties
  <2>8. Len(w) = n - m /\ \A k \in 1 .. n - m : w[k] = u[m + k]
    <3>1. m + 1 \in 1 .. Len(u) + 1 /\ n \in m .. Len(u)
      BY <1>1, <2>6
    <3>2. Len(w) = IF m + 1 <= n THEN n - (m + 1) + 1 ELSE 0
      BY <1>1, <2>6, <2>7, <3>1, SubSeqProperties
    <3>3. \A i \in 1 .. n - (m + 1) + 1 : w[i] = u[m + 1 + i - 1]
      BY <1>1, <2>6, <2>7, <3>1, SubSeqProperties
    <3>4. Len(w) = n - m
      BY <1>1, <3>2
    <3>5. ASSUME NEW k \in 1 .. n - m PROVE w[k] = u[m + k]
      <4>1. k \in 1 .. n - (m + 1) + 1 /\ m + 1 + k - 1 = m + k
        BY <1>1
      <4> QED
        BY <3>3, <4>1
    <3> QED
      BY <3>4, <3>5
  <2>5. v = w
    BY <1>1, <2>6, <2>8
  <2> QED
    BY <2>4, <2>5, <2>7
<1> QED
  BY <1>7, <1>12, <1>13

\* A power of two at least as large as what is asked for.
LEMMA Rounding ==
  ASSUME Widths, NEW n \in 1 .. Two(LogMaxCapacity)
  PROVE  \E p \in Sizes : /\ p = Resizable!RoundUpToPowerOfTwo(n)
                          /\ p >= n
                          /\ p = 1 \/ p \div 2 < n
<1>0. LogIndexCount \in Nat /\ LogMaxCapacity \in 0 .. LogIndexCount - 1 /\ LogMaxCapacity \in Nat
  BY DEF Widths
<1> DEFINE Fits(p) == p >= n /\ (p = 1 \/ p \div 2 < n)
           S == {k \in Nat : k <= LogMaxCapacity /\ n <= Two(k) => \E p \in Sizes : Fits(p)}
<1>1. 0 \in S
  <2>1. CASE n <= Two(0)
    <3>1. Two(0) = 1
      BY Doubling
    <3>2. 1 \in Sizes
      BY <1>0, <3>1 DEF Sizes, Resizable!Capacities, Two
    <3>3. Fits(1)
      BY <2>1, <3>1
    <3> QED
      BY <3>2, <3>3
  <2> QED
    BY <2>1
<1>2. ASSUME NEW k \in Nat, k \in S PROVE k + 1 \in S
  <2>1. CASE k + 1 <= LogMaxCapacity /\ n <= Two(k + 1)
    <3>1. k + 1 \in 1 .. LogIndexCount /\ (k + 1) - 1 = k /\ k \in 0 .. LogIndexCount
          /\ k + 1 \in 0 .. LogMaxCapacity /\ k <= LogMaxCapacity
      BY <1>0, <2>1
    <3>2. Two(k + 1) = 2 * Two(k)
      BY <3>1, Doubling
    <3>3. CASE n <= Two(k)
      BY <1>2, <3>1, <3>3
    <3>4. CASE ~ (n <= Two(k))
      <4>1. PICK h \in Nat : h = Two(k)
        BY <3>1, PowersAreNumbers
      <4>2. PICK p \in Nat : p = Two(k + 1)
        BY <3>2, <4>1
      <4>3. p = 2 * h /\ p \div 2 = h
        BY <3>2, <4>1, <4>2
      <4>4. Fits(p)
        BY <2>1, <3>4, <4>1, <4>2, <4>3
      <4>5. p \in Sizes
        BY <3>1, <4>2 DEF Sizes, Resizable!Capacities, Two
      <4> QED
        BY <4>4, <4>5
    <3> QED
      BY <3>3, <3>4
  <2> QED
    BY <2>1
<1>3. \E p \in Sizes : Fits(p)
  <2>1. Nat \subseteq S
    <3> HIDE DEF S
    <3> QED
      BY <1>1, <1>2, NatInd
  <2>2. LogMaxCapacity \in S
    BY <1>0, <2>1
  <2> QED
    BY <1>0, <2>2
<1>4. Resizable!RoundUpToPowerOfTwo(n) = CHOOSE p \in Sizes : Fits(p)
  BY DEF Resizable!RoundUpToPowerOfTwo, Sizes
<1> HIDE DEF Fits
<1>5. (CHOOSE p \in Sizes : Fits(p)) \in Sizes /\ Fits(CHOOSE p \in Sizes : Fits(p))
  BY <1>3
<1> QED
  BY <1>4, <1>5 DEF Fits

\* It is not larger than a ring that is large enough.
LEMMA RoundingIsLeast ==
  ASSUME Widths, NEW p \in Sizes, NEW c \in Sizes, NEW n \in Nat,
         p = 1 \/ p \div 2 < n, n <= c
  PROVE  p <= c
<1>1. LogIndexCount \in Nat /\ LogMaxCapacity \in 0 .. LogIndexCount - 1 /\ LogMaxCapacity \in Nat
  BY DEF Widths
<1>2. PICK j \in 0 .. LogMaxCapacity : p = Two(j)
  BY DEF Sizes, Resizable!Capacities, Two
<1>3. PICK k \in 0 .. LogMaxCapacity : c = Two(k)
  BY DEF Sizes, Resizable!Capacities, Two
<1>4. /\ j \in Nat /\ k \in Nat /\ j \in 0 .. LogIndexCount /\ k \in 0 .. LogIndexCount
      /\ j <= LogIndexCount /\ k <= LogIndexCount
  BY <1>1
<1>5. p \in Nat \ {0} /\ c \in Nat \ {0}
  BY <1>2, <1>3, <1>4, PowersAreNumbers
<1>6. CASE j = k
  BY <1>2, <1>3, <1>5, <1>6
<1>7. CASE j < k
  <2>1. PICK m \in Nat \ {0} : Two(k) = (2 * m) * Two(j)
    BY <1>4, <1>7, PowersDivide
  <2>2. PICK x \in Nat \ {0} : x = 2 * m
    OBVIOUS
  <2>3. x * p >= p
    BY <1>5
  <2> QED
    BY <1>2, <1>3, <1>5, <2>1, <2>2, <2>3
<1>8. CASE k < j
  <2>1. PICK m \in Nat \ {0} : Two(j) = (2 * m) * Two(k)
    BY <1>4, <1>8, PowersDivide
  <2>2. PICK x \in Nat : x = m * c /\ x >= c
    <3>1. m * c \in Nat /\ m * c >= c
      BY <1>5
    <3> QED
      BY <3>1
  <2>3. p = 2 * x
    BY <1>2, <1>3, <1>5, <2>1, <2>2
  <2>4. p \div 2 = x
    BY <2>3
  <2>5. p = 1
    BY <1>5, <2>2, <2>4
  <2> QED
    BY <1>5, <2>5
<1> QED
  BY <1>4, <1>6, <1>7, <1>8

\* What is copied to a new ring are the elements, in order.
LEMMA CopyIsElements ==
  ASSUME Widths, NEW q, NEW c, NEW n, Ring(q, c, n), c # 0
  PROVE  Resizable!CopyOfElements(q) = Contents(q, n)
<1>1. /\ c \in Nat \ {0} /\ n \in Nat /\ n <= c /\ q.tail \in Nat /\ c = Len(q.storage)
      /\ q.storage \in Slots /\ DOMAIN q.storage = 1 .. c
  BY RingTypes
<1>0. c \in Nat \ {0} /\ n \in Nat /\ n <= c
  BY <1>1
<1>2. PICK a \in 0 .. c - 1 : a = q.tail % c
  <2>1. 0 \in 0 .. c
    BY <1>1
  <2> QED
    BY <1>1, <2>1, PlaceValue
<1>3. Resizable!Masked(q, q.tail) = a
  BY <1>1, <1>2 DEF Resizable!Masked, Resizable!AllocatedCapacity
<1>4. PICK b \in 0 .. c - 1 :
        /\ b = Resizable!Masked(q, q.head)
        /\ a + n < c => b = a + n
        /\ ~ (a + n < c) => b = a + n - c
  <2>1. n \in 0 .. c
    BY <1>0
  <2>2. q.head = (q.tail + n) % Indices
    BY DEF Ring
  <2>3. Resizable!Masked(q, q.head) + 1 = Place(c, q.tail, n)
    BY <2>1, <2>2, Masks
  <2>4. PICK p \in 1 .. c : p = Place(c, q.tail, n) /\ (a + n < c => p = a + n + 1)
                            /\ (~ (a + n < c) => p = a + n - c + 1)
    BY <1>1, <1>2, <2>1, PlaceValue
  <2>5. PICK b \in Int : b = Resizable!Masked(q, q.head)
    <3>1. PICK x \in Int : x = q.head
      <4>1. q.head \in 0 .. Indices - 1 /\ Indices \in Nat
        BY RingTypes
      <4> QED
        BY <4>1
    <3>2. x % c \in Int
      BY <1>0, Division
    <3> QED
      BY <1>1, <3>1, <3>2 DEF Resizable!Masked, Resizable!AllocatedCapacity
  <2>6. b = p - 1
    BY <2>3, <2>4, <2>5
  <2>7. b \in 0 .. c - 1 /\ (a + n < c => b = a + n) /\ (~ (a + n < c) => b = a + n - c)
    BY <1>0, <2>4, <2>6
  <2> QED
    BY <2>5, <2>7
<1>5. PICK st \in Slots : st = q.storage /\ Len(st) = c
  BY <1>1
<1>6. PICK e \in Seq(Item) : e = Contents(q, n) /\ Len(e) = n
  BY ContentsSeq
<1>7. \A k \in 1 .. n : e[k] = IF a + k <= c THEN st[a + k] ELSE st[a + k - c]
  <2> SUFFICES ASSUME NEW k \in 1 .. n
               PROVE  e[k] = IF a + k <= c THEN st[a + k] ELSE st[a + k - c]
    OBVIOUS
  <2>1. k - 1 \in 0 .. c
    BY <1>0
  <2>2. Place(c, q.tail, k - 1) = IF a + (k - 1) < c THEN a + (k - 1) + 1 ELSE a + (k - 1) - c + 1
    BY <1>1, <1>2, <2>1, PlaceValue
  <2>3. Place(c, q.tail, k - 1) = IF a + k <= c THEN a + k ELSE a + k - c
    BY <1>0, <2>2
  <2>4. e[k] = st[Place(c, q.tail, k - 1)]
    BY <1>5, <1>6 DEF Contents
  <2> QED
    BY <2>3, <2>4
<1>8. Resizable!CopyOfElements(q) =
        IF n > 0 /\ a >= b THEN SubSeq(st, a + 1, c) \o SubSeq(st, 1, b)
                           ELSE SubSeq(st, a + 1, a + n)
  <2>1. Resizable!Count(q) = n
    BY RingCount
  <2> QED
    BY <1>3, <1>4, <1>5, <2>1 DEF Resizable!CopyOfElements, Resizable!AllocatedCapacity
<1> DEFINE E == Item \cup {NoItem}
<1>9. \A i \in 1 .. c : st[i] \in E
  BY <1>5 DEF Slots
<1> HIDE DEF E
<1>10. e = SubSeq(st, a + 1, c) \o SubSeq(st, 1, b) \/ ~ (n > 0 /\ a >= b)
  <2> SUFFICES ASSUME n > 0, a >= b PROVE e = SubSeq(st, a + 1, c) \o SubSeq(st, 1, b)
    OBVIOUS
  <2>1. b = a + n - c /\ ~ (a + n < c)
    BY <1>0, <1>4
  <2>2. PICK u \in Seq(E) : u = SubSeq(st, a + 1, c) /\ Len(u) = c - a
                           /\ \A i \in 1 .. c - a : u[i] = st[a + i]
    <3>1. \A i \in a + 1 .. c : st[i] \in E
      BY <1>0, <1>9
    <3>2. /\ SubSeq(st, a + 1, c) \in Seq(E)
          /\ Len(SubSeq(st, a + 1, c)) = IF a + 1 <= c THEN c - (a + 1) + 1 ELSE 0
          /\ \A i \in 1 .. c - (a + 1) + 1 : SubSeq(st, a + 1, c)[i] = st[a + 1 + i - 1]
      BY <1>0, <3>1, SubSeqProperties
    <3>3. c - (a + 1) + 1 = c - a /\ a + 1 <= c
      BY <1>0
    <3>4. ASSUME NEW i \in 1 .. c - a PROVE SubSeq(st, a + 1, c)[i] = st[a + i]
      <4>1. a + 1 + i - 1 = a + i /\ i \in 1 .. c - (a + 1) + 1
        BY <3>3
      <4> QED
        BY <3>2, <4>1
    <3>5. Len(SubSeq(st, a + 1, c)) = c - a
      BY <3>2, <3>3
    <3> QED
      BY <3>2, <3>4, <3>5
  <2>3. PICK v \in Seq(E) : v = SubSeq(st, 1, b) /\ Len(v) = b
                           /\ \A i \in 1 .. b : v[i] = st[i]
    <3>1. \A i \in 1 .. b : st[i] \in E
      BY <1>0, <1>9
    <3>2. /\ SubSeq(st, 1, b) \in Seq(E)
          /\ Len(SubSeq(st, 1, b)) = IF 1 <= b THEN b - 1 + 1 ELSE 0
          /\ \A i \in 1 .. b - 1 + 1 : SubSeq(st, 1, b)[i] = st[1 + i - 1]
      BY <1>0, <3>1, SubSeqProperties
    <3>3. b - 1 + 1 = b /\ (IF 1 <= b THEN b - 1 + 1 ELSE 0) = b
      BY <1>0
    <3>4. ASSUME NEW i \in 1 .. b PROVE SubSeq(st, 1, b)[i] = st[i]
      <4>1. 1 + i - 1 = i /\ i \in 1 .. b - 1 + 1
        BY <3>3
      <4> QED
        BY <3>2, <4>1
    <3>5. Len(SubSeq(st, 1, b)) = b
      BY <3>2, <3>3
    <3> QED
      BY <3>2, <3>4, <3>5
  <2>4. PICK w \in Seq(E) : w = u \o v
    <3>1. u \o v \in Seq(E)
      BY ConcatProperties
    <3> QED
      BY <3>1
  <2>5. Len(w) = n
    BY <1>0, <2>1, <2>2, <2>3, <2>4
  <2>6. ASSUME NEW k \in 1 .. n PROVE w[k] = e[k]
    <3>1. CASE a + k <= c
      <4>1. k \in 1 .. Len(u) /\ k \in 1 .. c - a
        BY <1>0, <2>2, <3>1
      <4>2. w[k] = u[k]
        BY <2>2, <2>3, <2>4, <4>1
      <4> QED
        BY <1>7, <2>2, <3>1, <4>1, <4>2
    <3>2. CASE ~ (a + k <= c)
      <4>1. k \in Len(u) + 1 .. Len(u) + Len(v) /\ k - (c - a) \in 1 .. b /\ k - (c - a) = a + k - c
        BY <1>0, <2>1, <2>2, <2>3, <3>2
      <4>2. w[k] = v[k - Len(u)]
        BY <2>2, <2>3, <2>4, <4>1
      <4>3. w[k] = st[a + k - c]
        BY <2>2, <2>3, <4>1, <4>2
      <4> QED
        BY <1>7, <3>2, <4>3
    <3> QED
      BY <3>1, <3>2
  <2>7. e = w
    BY <1>6, <2>5, <2>6
  <2> QED
    BY <2>2, <2>3, <2>4, <2>7
<1>11. ~ (n > 0 /\ a >= b) => e = SubSeq(st, a + 1, a + n)
  <2> HAVE ~ (n > 0 /\ a >= b)
  <2>1. a + n <= c
    BY <1>0, <1>4
  <2>2. PICK u \in Seq(E) : u = SubSeq(st, a + 1, a + n) /\ Len(u) = n
                           /\ \A i \in 1 .. n : u[i] = st[a + i]
    <3>1. \A i \in a + 1 .. a + n : st[i] \in E
      BY <1>0, <1>9, <2>1
    <3>2. /\ SubSeq(st, a + 1, a + n) \in Seq(E)
          /\ Len(SubSeq(st, a + 1, a + n)) = IF a + 1 <= a + n THEN a + n - (a + 1) + 1 ELSE 0
          /\ \A i \in 1 .. a + n - (a + 1) + 1 : SubSeq(st, a + 1, a + n)[i] = st[a + 1 + i - 1]
      BY <1>0, <3>1, SubSeqProperties
    <3>3. a + n - (a + 1) + 1 = n /\ (IF a + 1 <= a + n THEN a + n - (a + 1) + 1 ELSE 0) = n
      BY <1>0
    <3>4. \A i \in 1 .. n : a + 1 + i - 1 = a + i
      OBVIOUS
    <3> QED
      BY <3>2, <3>3, <3>4
  <2>3. ASSUME NEW k \in 1 .. n PROVE u[k] = e[k]
    <3>1. a + k <= c
      BY <1>0, <2>1
    <3> QED
      BY <1>7, <2>2, <3>1
  <2>4. e = u
    BY <1>6, <2>2, <2>3
  <2> QED
    BY <2>2, <2>4
<1> QED
  BY <1>6, <1>8, <1>10, <1>11

LEMMA FromZero ==
  ASSUME NEW c \in Nat \ {0}, NEW k \in 0 .. c - 1
  PROVE  Place(c, 0, k) = k + 1
<1>1. (0 * c + k) % c = k
  BY RemainderIs
<1>2. (0 + k) % c = k
  BY <1>1
<1> QED
  BY <1>2 DEF Place

\* A full ring has no slot without an element.
LEMMA FullRing ==
  ASSUME Widths, NEW q, NEW c, NEW n, Ring(q, c, n), n = c, NEW what
  PROVE  Resizable!Strays(q, DOMAIN q.storage, what) = {}
<1>1. c \in Nat /\ q.tail \in Nat /\ DOMAIN q.storage = 1 .. c
  BY RingTypes
<1>2. ASSUME NEW i \in 1 .. c PROVE q.storage[i] # NoItem
  <2>1. c \in Nat \ {0}
    BY <1>1
  <2>2. PICK k \in 0 .. c - 1 : i = Place(c, q.tail, k)
    BY <1>1, <2>1, PlacesCover
  <2>3. k < n
    BY <1>1, <2>2
  <2> QED
    BY <2>2, <2>3 DEF Ring
<1> QED
  BY <1>1, <1>2 DEF Resizable!Strays

\* A ring of another size holds the same elements, and only a smaller one leaves
\* slots without an element to be destructed.
LEMMA SetCapacityRing ==
  ASSUME Widths, NEW q, NEW c, NEW n, Ring(q, c, n),
         NEW required \in 1 .. Two(LogMaxCapacity), n <= required,
         required <= c \/ n = c
  PROVE  \E p \in Sizes : /\ p >= required
                          /\ Ring(Resizable!SetCapacity(q, required), p, n)
                          /\ Contents(Resizable!SetCapacity(q, required), n) = Contents(q, n)
<1>1. /\ c \in Nat /\ n \in Nat /\ n <= c /\ Indices \in Nat \ {0} /\ c = Len(q.storage)
      /\ q.head \in 0 .. Indices - 1 /\ q.tail \in 0 .. Indices - 1 /\ q.storage \in Slots
  BY RingTypes
<1>2. required \in Nat /\ LogMaxCapacity \in 0 .. LogIndexCount /\ LogIndexCount \in Nat
  <2>1. LogIndexCount \in Nat /\ LogMaxCapacity \in 0 .. LogIndexCount - 1
    BY DEF Widths
  <2>2. Two(LogMaxCapacity) \in Nat
    BY <2>1, PowersAreNumbers
  <2> QED
    BY <2>1, <2>2
<1>3. PICK p \in Sizes : /\ p = Resizable!RoundUpToPowerOfTwo(required) /\ p >= required
                         /\ p = 1 \/ p \div 2 < required
  BY Rounding
<1>4. p \in Nat \ {0} /\ p < Indices
  BY SizesDivide
<1>5. Resizable!Count(q) = n /\ Resizable!AllocatedCapacity(q) = c /\ ~ (p < n)
  <2>1. ~ (p < n)
    BY <1>1, <1>2, <1>3, <1>4
  <2> QED
    BY <1>1, <2>1, RingCount DEF Resizable!AllocatedCapacity
<1>6. PICK r : r = Resizable!SetCapacity(q, required)
  OBVIOUS
<1>7. CASE p = c
  <2>1. r = q
    BY <1>3, <1>5, <1>6, <1>7 DEF Resizable!SetCapacity
  <2> QED
    BY <1>3, <1>6, <1>7, <2>1
<1>8. CASE p # c /\ c = 0
  <2>1. PICK st : st = [i \in 1 .. p |-> NoItem]
    OBVIOUS
  <2>2. r = [q EXCEPT !.storage = st]
    BY <1>3, <1>5, <1>6, <1>8, <2>1 DEF Resizable!SetCapacity, Resizable!RawSlots
  <2>3. st \in Slots /\ Len(st) = p
    <3>1. st \in [1 .. p -> Item \cup {NoItem}]
      BY <2>1
    <3> QED
      BY <1>4, <3>1 DEF Slots
  <2>4. r \in RingQueue /\ r.storage = st /\ r.head = q.head /\ r.tail = q.tail
    <3>1. q \in RingQueue
      BY DEF Ring
    <3> QED
      BY <2>2, <2>3, <3>1 DEF RingQueue
  <2>5. n = 0
    BY <1>1, <1>8
  <2>6. \A k \in 0 .. p - 1 : st[Place(p, q.tail, k)] # NoItem <=> k < n
    <3> SUFFICES ASSUME NEW k \in 0 .. p - 1
                 PROVE  st[Place(p, q.tail, k)] # NoItem <=> k < n
      OBVIOUS
    <3>1. k \in 0 .. p /\ q.tail \in Nat /\ ~ (k < n)
      BY <1>1, <1>4, <2>5
    <3>2. Place(p, q.tail, k) \in 1 .. p
      BY <1>4, <3>1, PlaceValue
    <3> QED
      BY <2>1, <3>1, <3>2
  <2>7. Ring(r, p, n)
    <3>1. n \in 0 .. p /\ p \in {0} \cup Sizes
      BY <1>4, <2>5
    <3>2. q.head = (q.tail + n) % Indices
      BY DEF Ring
    <3> QED
      BY <2>3, <2>4, <2>6, <3>1, <3>2 DEF Ring
  <2>8. Contents(r, n) = Contents(q, n)
    BY <2>5 DEF Contents
  <2> QED
    BY <1>3, <1>6, <2>7, <2>8
<1>9. CASE p # c /\ c # 0
  <2>1. PICK e \in Seq(Item) : e = Contents(q, n) /\ Len(e) = n
    BY ContentsSeq
  <2>2. PICK m \in Nat : m = p - n
    BY <1>1, <1>4, <1>5
  <2>3. PICK w \in Slots : w = [i \in 1 .. m |-> NoItem] /\ Len(w) = m
    <3>1. [i \in 1 .. m |-> NoItem] \in [1 .. m -> Item \cup {NoItem}]
      OBVIOUS
    <3>2. [i \in 1 .. m |-> NoItem] \in Slots /\ Len([i \in 1 .. m |-> NoItem]) = m
      BY <3>1 DEF Slots
    <3> QED
      BY <3>2
  <2>4. e \in Slots
    BY <2>1 DEF Slots
  <2>5. PICK st \in Slots : st = e \o w
    <3>1. e \o w \in Slots
      BY <2>3, <2>4, ConcatProperties DEF Slots
    <3> QED
      BY <3>1
  <2>6. /\ Len(st) = p
        /\ \A k \in 1 .. p : st[k] = IF k <= n THEN e[k] ELSE NoItem
    <3>1. Len(st) = n + m /\ \A k \in 1 .. n + m : st[k] = IF k <= n THEN e[k] ELSE w[k - n]
      <4>1. e \in Seq(Item \cup {NoItem}) /\ w \in Seq(Item \cup {NoItem})
        BY <2>3, <2>4 DEF Slots
      <4> QED
        BY <2>1, <2>3, <2>5, <4>1, ConcatProperties
    <3>2. n + m = p
      BY <1>1, <1>4, <2>2
    <3>3. ASSUME NEW k \in 1 .. p, ~ (k <= n) PROVE w[k - n] = NoItem
      <4>1. k - n \in 1 .. m
        BY <1>1, <1>4, <2>2, <3>3
      <4> QED
        BY <2>3, <4>1
    <3> QED
      BY <3>1, <3>2, <3>3
  <2>13. PICK what : what = IF p > c THEN "grow" ELSE "shrink"
    OBVIOUS
  <2>14. PICK stray : stray = q.strays \cup Resizable!Strays(q, DOMAIN q.storage, what)
    OBVIOUS
  <2>15. stray \in SUBSET {"shrink"}
    <3>1. q.strays \in SUBSET {"shrink"}
      BY DEF Ring, RingQueue
    <3>2. CASE n = c
      BY <2>14, <3>1, <3>2, FullRing
    <3>3. CASE required <= c
      <4>1. c \in Sizes
        BY <1>9 DEF Ring
      <4>2. p <= c
        BY <1>2, <1>3, <3>3, <4>1, RoundingIsLeast
      <4>3. what = "shrink"
        BY <1>1, <1>4, <2>13, <4>2
      <4> QED
        BY <2>14, <3>1, <4>3 DEF Resizable!Strays
    <3> QED
      BY <3>2, <3>3
  <2>7. r = [storage |-> st, head |-> n, tail |-> 0, strays |-> stray]
    <3>1. Resizable!CopyOfElements(q) = e
      BY <1>9, <2>1, CopyIsElements
    <3>2. Resizable!RawSlots(p - n) = w
      BY <2>2, <2>3 DEF Resizable!RawSlots
    <3>3. c > 0
      BY <1>1, <1>9
    <3> QED
      BY <1>3, <1>5, <1>6, <1>9, <2>5, <2>13, <2>14, <3>1, <3>2, <3>3 DEF Resizable!SetCapacity
  <2>8. n \in 0 .. Indices - 1 /\ 0 \in 0 .. Indices - 1
    BY <1>1, <1>4, <1>5
  <2>9. r \in RingQueue /\ r.storage = st /\ r.head = n /\ r.tail = 0
    BY <2>7, <2>8, <2>15 DEF RingQueue
  <2>10. \A k \in 0 .. p - 1 : st[Place(p, 0, k)] = IF k < n THEN e[k + 1] ELSE NoItem
    <3> SUFFICES ASSUME NEW k \in 0 .. p - 1
                 PROVE  st[Place(p, 0, k)] = IF k < n THEN e[k + 1] ELSE NoItem
      OBVIOUS
    <3>1. Place(p, 0, k) = k + 1
      BY <1>4, FromZero
    <3>2. k + 1 \in 1 .. p /\ (k + 1 <= n <=> k < n)
      BY <1>1, <1>4
    <3> QED
      BY <2>6, <3>1, <3>2
  <2>11. Ring(r, p, n)
    <3>1. n \in 0 .. p /\ p \in {0} \cup Sizes
      BY <1>1, <1>4, <1>5
    <3>2. n = (0 + n) % Indices
      <4>1. (0 + n) % Indices = IF 0 + n < Indices THEN 0 + n ELSE 0 + n - Indices
        BY <1>1, <2>8, OneTurn
      <4> QED
        BY <1>1, <2>8, <4>1
    <3>3. ASSUME NEW k \in 0 .. p - 1 PROVE st[Place(p, 0, k)] # NoItem <=> k < n
      <4>1. k < n => e[k + 1] \in Item
        <5>1. k < n => k + 1 \in 1 .. n
          BY <1>1, <1>4
        <5> QED
          BY <2>1, <5>1
      <4>2. NoItem \notin Item
        BY DEF Widths
      <4> QED
        BY <2>10, <4>1, <4>2
    <3> QED
      BY <2>6, <2>9, <3>1, <3>2, <3>3 DEF Ring
  <2>12. Contents(r, n) = e
    <3>1. Contents(r, n) \in Seq(Item) /\ Len(Contents(r, n)) = n
      BY <2>11, ContentsSeq
    <3>2. ASSUME NEW k \in 1 .. n PROVE Contents(r, n)[k] = e[k]
      <4>1. k - 1 \in 0 .. p - 1 /\ k - 1 < n /\ (k - 1) + 1 = k
        BY <1>1, <1>4, <1>5
      <4>2. st[Place(p, 0, k - 1)] = e[k]
        BY <2>10, <4>1
      <4> QED
        BY <2>6, <2>9, <4>2 DEF Contents
    <3>3. PICK v \in Seq(Item) : v = Contents(r, n)
      BY <3>1
    <3> QED
      BY <2>1, <3>1, <3>2, <3>3
  <2> QED
    BY <1>3, <1>6, <2>1, <2>11, <2>12
<1> QED
  BY <1>7, <1>8, <1>9

-----------------------------------------------------------------------------
(* The inductive invariant.                                                *)

TheRing == Resizable!Queue

Held == Resizable!Count(TheRing)

\* There are never more elements than slots, and they lie between the indices; without
\* the first part the second would not say which.
ResizableInv == Ring(TheRing, Len(storage), Held)

\* What a method leaves behind: the elements it found with one more at the end, or
\* without the first few, or as they were.
Leaves(q, c, n) ==
  /\ Ring(q, c, n)
  /\ LET before == Contents(TheRing, Held)
         after  == Contents(q, n)
     IN  \/ \E x \in Item : after = Append(before, x)
         \/ \E m \in 1 .. Held : after = SubSeq(before, m + 1, Held)
         \/ after = before

LEMMA RingParts ==
  /\ TheRing.storage = storage /\ TheRing.head = ringHead /\ TheRing.tail = ringTail
  /\ TheRing.strays = strays
  /\ TheRing = [storage |-> storage, head |-> ringHead, tail |-> ringTail, strays |-> strays]
BY DEF TheRing, Resizable!Queue

LEMMA SizesBound ==
  ASSUME Widths, NEW c \in Sizes
  PROVE  c <= Two(LogMaxCapacity) /\ Two(LogMaxCapacity) \in Nat
<1>1. LogIndexCount \in Nat /\ LogMaxCapacity \in 0 .. LogIndexCount /\ LogMaxCapacity \in Nat
  BY DEF Widths
<1>2. PICK k \in 0 .. LogMaxCapacity : c = Two(k)
  BY DEF Sizes, Resizable!Capacities, Two
<1>3. Two(LogMaxCapacity) \in Nat /\ Two(k) \in Nat /\ k \in 0 .. LogIndexCount
  BY <1>1, PowersAreNumbers
<1>4. CASE k = LogMaxCapacity
  BY <1>2, <1>3, <1>4
<1>5. CASE k < LogMaxCapacity
  <2>1. PICK m \in Nat \ {0} : Two(LogMaxCapacity) = (2 * m) * Two(k)
    BY <1>1, <1>3, <1>5, PowersDivide
  <2>2. PICK x \in Nat, n \in Nat \ {0} : x = Two(k) /\ n = 2 * m
    BY <1>3
  <2>3. n * x >= x
    OBVIOUS
  <2> QED
    BY <1>2, <1>3, <2>1, <2>2, <2>3
<1> QED
  BY <1>1, <1>2, <1>4, <1>5

LEMMA EnqueueLeaves ==
  ASSUME Widths, ResizableInv, Resizable!Enqueue
  PROVE  \E q, c, n : Resizable!Become(q) /\ Leaves(q, c, n)
<1> DEFINE c == Len(storage)
<1>1. Ring(TheRing, c, Held)
  BY DEF ResizableInv
<1>2. PICK n \in Nat : n = Held /\ n <= c
  BY <1>1, RingTypes
<1>3. c \in Nat
  BY <1>1, RingTypes
<1> HIDE DEF c
<1>4. Two(LogMaxCapacity) \in Nat
  <2>1. LogIndexCount \in Nat /\ LogMaxCapacity \in 0 .. LogIndexCount
    BY DEF Widths
  <2> QED
    BY <2>1, PowersAreNumbers
<1>5. n < Two(LogMaxCapacity)
  BY <1>2 DEF Resizable!Enqueue, Two, TheRing, Held
<1>6. PICK required \in 1 .. Two(LogMaxCapacity) : required = n + 1
  BY <1>2, <1>4, <1>5
<1>7. PICK b : b = IF required > c THEN Resizable!SetCapacity(TheRing, required) ELSE TheRing
  OBVIOUS
<1>8. PICK x \in Item : Resizable!Become(Enqueued(b, x))
  <2>1. Resizable!AllocatedCapacity(TheRing) = c
    BY RingParts DEF Resizable!AllocatedCapacity, c
  <2> QED
    BY <1>2, <1>6, <1>7, <2>1 DEF Resizable!Enqueue, Enqueued, Indices, TheRing, Held
<1>9. PICK p : Ring(b, p, n) /\ n < p /\ Contents(b, n) = Contents(TheRing, n)
  <2>1. CASE required > c
    <3>1. n <= required /\ n = c
      BY <1>2, <1>3, <1>6, <2>1
    <3>2. PICK p \in Sizes : /\ p >= required
                             /\ Ring(b, p, n)
                             /\ Contents(b, n) = Contents(TheRing, n)
      BY <1>1, <1>2, <1>7, <2>1, <3>1, SetCapacityRing
    <3>3. p \in Nat
      BY SizesDivide
    <3>4. n < p
      BY <1>6, <3>2, <3>3
    <3> QED
      BY <3>2, <3>4
  <2>2. CASE ~ (required > c)
    <3>1. n < c
      BY <1>3, <1>6, <2>2
    <3> QED
      BY <1>1, <1>2, <1>7, <2>2, <3>1
  <2> QED
    BY <2>1, <2>2
<1>10. /\ Ring(Enqueued(b, x), p, n + 1)
       /\ Contents(Enqueued(b, x), n + 1) = Append(Contents(b, n), x)
  BY <1>9, EnqueueRing
<1>11. Leaves(Enqueued(b, x), p, n + 1)
  BY <1>2, <1>9, <1>10 DEF Leaves
<1> QED
  BY <1>8, <1>11

LEMMA PopLeaves ==
  ASSUME Widths, ResizableInv, Resizable!Pop
  PROVE  \E q, c, n : Resizable!Become(q) /\ Leaves(q, c, n)
<1>1. Ring(TheRing, Len(storage), Held)
  BY DEF ResizableInv
<1>2. PICK m \in 1 .. Held : Resizable!Become(Resizable!PopNoCheck(TheRing, m))
  BY DEF Resizable!Pop, TheRing, Held
<1>3. /\ Ring(Resizable!PopNoCheck(TheRing, m), Len(storage), Held - m)
      /\ Contents(Resizable!PopNoCheck(TheRing, m), Held - m)
           = SubSeq(Contents(TheRing, Held), m + 1, Held)
  BY <1>1, PopRing
<1>4. Leaves(Resizable!PopNoCheck(TheRing, m), Len(storage), Held - m)
  BY <1>3 DEF Leaves
<1> QED
  BY <1>2, <1>4

\* Everything is popped.
LEMMA PopAll ==
  ASSUME Widths, ResizableInv
  PROVE  Leaves(Resizable!PopNoCheck(TheRing, Held), Len(storage), 0)
<1>1. Ring(TheRing, Len(storage), Held)
  BY DEF ResizableInv
<1>2. PICK n \in Nat : n = Held
  BY <1>1, RingTypes
<1>3. CASE n = 0
  <2>1. Resizable!PopNoCheck(TheRing, Held) = TheRing
    BY <1>2, <1>3 DEF Resizable!PopNoCheck
  <2> QED
    BY <1>1, <1>2, <1>3, <2>1 DEF Leaves
<1>4. CASE n # 0
  <2>1. n \in 1 .. n
    BY <1>4
  <2>2. /\ Ring(Resizable!PopNoCheck(TheRing, n), Len(storage), n - n)
        /\ Contents(Resizable!PopNoCheck(TheRing, n), n - n)
             = SubSeq(Contents(TheRing, n), n + 1, n)
    BY <1>1, <1>2, <2>1, PopRing
  <2>3. n - n = 0
    OBVIOUS
  <2> QED
    BY <1>2, <2>1, <2>2, <2>3 DEF Leaves
<1> QED
  BY <1>3, <1>4

\* An empty ring is one wherever its indices point.
LEMMA EmptyRing ==
  ASSUME Widths, NEW q, NEW c, Ring(q, c, 0)
  PROVE  /\ Ring([q EXCEPT !.head = 0, !.tail = 0], c, 0)
         /\ Ring([q EXCEPT !.storage = <<>>, !.head = 0, !.tail = 0], 0, 0)
<1>1. /\ c \in Nat /\ Indices \in Nat \ {0} /\ c = Len(q.storage) /\ q.storage \in Slots
      /\ q.tail \in 0 .. Indices - 1
  BY RingTypes
<1>2. q \in RingQueue /\ c \in {0} \cup Sizes
  BY DEF Ring
<1>3. 0 \in 0 .. Indices - 1 /\ 0 \in 0 .. c /\ 0 \in 0 .. 0
  BY <1>1
<1>4. 0 = (0 + 0) % Indices
  <2>1. (0 + 0) % Indices = IF 0 + 0 < Indices THEN 0 + 0 ELSE 0 + 0 - Indices
    BY <1>1, <1>3, OneTurn
  <2> QED
    BY <1>1, <2>1
<1>5. Ring([q EXCEPT !.head = 0, !.tail = 0], c, 0)
  <2>1. PICK r : r = [q EXCEPT !.head = 0, !.tail = 0]
    OBVIOUS
  <2>2. r \in RingQueue /\ r.storage = q.storage /\ r.head = 0 /\ r.tail = 0
    BY <1>2, <1>3, <2>1 DEF RingQueue
  <2>3. ASSUME NEW k \in 0 .. c - 1 PROVE ~ (q.storage[Place(c, 0, k)] # NoItem) /\ ~ (k < 0)
    <3>1. c \in Nat \ {0} /\ q.tail \in Nat /\ 0 \in Nat /\ k \in 0 .. c
      BY <1>1
    <3>2. Place(c, 0, k) \in 1 .. c
      BY <3>1, PlaceValue
    <3>3. PICK j \in 0 .. c - 1 : Place(c, 0, k) = Place(c, q.tail, j)
      BY <3>1, <3>2, PlacesCover
    <3>4. ~ (j < 0)
      OBVIOUS
    <3> QED
      BY <3>3, <3>4 DEF Ring
  <2> QED
    BY <1>1, <1>2, <1>3, <1>4, <2>1, <2>2, <2>3 DEF Ring
<1>6. Ring([q EXCEPT !.storage = <<>>, !.head = 0, !.tail = 0], 0, 0)
  <2>1. PICK r : r = [q EXCEPT !.storage = <<>>, !.head = 0, !.tail = 0]
    OBVIOUS
  <2>2. PICK st \in Slots : st = <<>>
    <3>1. <<>> \in Slots
      BY EmptySeq DEF Slots
    <3> QED
      BY <3>1
  <2>3. Len(st) = 0
    BY <2>2
  <2>4. r \in RingQueue /\ r.storage = st /\ r.head = 0 /\ r.tail = 0
    BY <1>2, <1>3, <2>1, <2>2 DEF RingQueue
  <2>5. \A k \in 0 .. 0 - 1 : st[Place(0, 0, k)] # NoItem <=> k < 0
    OBVIOUS
  <2> QED
    BY <1>3, <1>4, <2>1, <2>3, <2>4, <2>5 DEF Ring
<1> QED
  BY <1>5, <1>6

LEMMA EmptyLeaves ==
  ASSUME Widths, ResizableInv, Resizable!Reset \/ Resizable!Empty
  PROVE  \E q, c, n : Resizable!Become(q) /\ Leaves(q, c, n)
<1>1. PICK q : q = Resizable!PopNoCheck(TheRing, Held)
  OBVIOUS
<1>2. Leaves(q, Len(storage), 0)
  BY <1>1, PopAll
<1>3. Ring(q, Len(storage), 0)
  BY <1>2 DEF Leaves
<1>4. CASE Resizable!Reset
  <2>1. PICK r : r = [q EXCEPT !.head = 0, !.tail = 0]
    OBVIOUS
  <2>2. Resizable!Become(r)
    BY <1>1, <1>4, <2>1 DEF Resizable!Reset, TheRing, Held
  <2>3. Ring(r, Len(storage), 0)
    BY <1>3, <2>1, EmptyRing
  <2>4. Contents(r, 0) = Contents(q, 0)
    BY DEF Contents
  <2>5. Leaves(r, Len(storage), 0)
    BY <1>2, <2>3, <2>4 DEF Leaves
  <2> QED
    BY <2>2, <2>5
<1>5. CASE Resizable!Empty
  <2>1. PICK r : r = [q EXCEPT !.storage = <<>>, !.head = 0, !.tail = 0]
    OBVIOUS
  <2>2. Resizable!Become(r)
    BY <1>1, <1>5, <2>1 DEF Resizable!Empty, TheRing, Held
  <2>3. Ring(r, 0, 0)
    BY <1>3, <2>1, EmptyRing
  <2>4. Contents(r, 0) = Contents(q, 0)
    BY DEF Contents
  <2>5. Leaves(r, 0, 0)
    BY <1>2, <2>3, <2>4 DEF Leaves
  <2> QED
    BY <2>2, <2>5
<1> QED
  BY <1>4, <1>5

LEMMA TrimLeaves ==
  ASSUME Widths, ResizableInv, Resizable!Trim
  PROVE  \E q, c, n : Resizable!Become(q) /\ Leaves(q, c, n)
<1>1. Ring(TheRing, Len(storage), Held)
  BY DEF ResizableInv
<1>2. PICK n \in Nat, c \in Nat : n = Held /\ c = Len(storage) /\ n <= c
  BY <1>1, RingTypes
<1>3. CASE n = 0
  <2>1. Resizable!Empty
    BY <1>2, <1>3 DEF Resizable!Trim, TheRing, Held
  <2> QED
    BY <2>1, EmptyLeaves
<1>4. CASE n # 0
  <2>1. PICK q : q = Resizable!SetCapacity(TheRing, n)
    OBVIOUS
  <2>2. Resizable!Become(q)
    BY <1>2, <1>4, <2>1 DEF Resizable!Trim, TheRing, Held
  <2>3. n \in 1 .. Two(LogMaxCapacity)
    <3>1. c \in Sizes
      <4>1. c \in {0} \cup Sizes
        BY <1>1, <1>2 DEF Ring
      <4> QED
        BY <1>2, <1>4, <4>1
    <3>2. c <= Two(LogMaxCapacity) /\ Two(LogMaxCapacity) \in Nat
      BY <3>1, SizesBound
    <3> QED
      BY <1>2, <1>4, <3>2
  <2>4. PICK p \in Sizes : Ring(q, p, n) /\ Contents(q, n) = Contents(TheRing, n)
    <3>1. n <= n /\ n <= c
      BY <1>2
    <3> QED
      BY <1>1, <1>2, <2>1, <2>3, <3>1, SetCapacityRing
  <2>5. Leaves(q, p, n)
    BY <1>2, <2>4 DEF Leaves
  <2> QED
    BY <2>2, <2>5
<1> QED
  BY <1>3, <1>4

LEMMA Becomes ==
  ASSUME Widths, NEW q, NEW c, NEW n, Resizable!Become(q), Ring(q, c, n)
  PROVE  ResizableInv' /\ TheRing' = q /\ Held' = n
<1>1. q \in RingQueue
  BY DEF Ring
<1>2. TheRing' = [storage |-> storage', head |-> ringHead', tail |-> ringTail', strays |-> strays']
  BY DEF TheRing, Resizable!Queue
<1>3. storage' = q.storage /\ ringHead' = q.head /\ ringTail' = q.tail /\ strays' = q.strays
  BY DEF Resizable!Become
<1>4. TheRing' = q
  BY <1>1, <1>2, <1>3 DEF RingQueue
<1>5. Resizable!Count(q) = n
  BY RingCount
<1>6. Held' = (TheRing'.head - TheRing'.tail) % Indices
  BY DEF Held, Resizable!Count, Indices, TheRing, Resizable!Queue
<1>7. Held' = n
  BY <1>4, <1>5, <1>6 DEF Resizable!Count, Indices
<1>8. c = Len(storage')
  BY <1>3 DEF Ring
<1>9. ResizableInv' <=> Ring(TheRing', Len(storage'), Held')
  BY DEF ResizableInv
<1> QED
  BY <1>4, <1>7, <1>8, <1>9

LEMMA RingInit ==
  ASSUME Widths, Resizable!Init
  PROVE  ResizableInv /\ Held = 0
<1>1. storage = <<>> /\ ringHead = 0 /\ ringTail = 0 /\ strays = {}
  BY DEF Resizable!Init
<1>2. Indices \in Nat \ {0}
  BY SizesDivide
<1>3. 0 \in 0 .. Indices - 1
  BY <1>2
<1>4. PICK st \in Slots : st = <<>>
  <2>1. <<>> \in Slots
    BY EmptySeq DEF Slots
  <2> QED
    BY <2>1
<1>5. TheRing = [storage |-> st, head |-> 0, tail |-> 0, strays |-> {}]
  BY <1>1, <1>4, RingParts
<1>6. TheRing \in RingQueue
  BY <1>3, <1>5 DEF RingQueue
<1>7. (0 + 0) % Indices = 0 /\ (((0 + 0) % Indices) - 0) % Indices = 0
  <2>1. /\ (0 + 0) % Indices = IF 0 + 0 < Indices THEN 0 + 0 ELSE 0 + 0 - Indices
        /\ (((0 + 0) % Indices) - 0) % Indices = 0
    BY <1>2, <1>3, OneTurn
  <2> QED
    BY <1>2, <2>1
<1>8. Ring(TheRing, 0, 0)
  <2>1. \A k \in 0 .. 0 - 1 : TheRing.storage[Place(0, TheRing.tail, k)] # NoItem <=> k < 0
    OBVIOUS
  <2>2. Len(TheRing.storage) = 0 /\ TheRing.head = 0 /\ TheRing.tail = 0
    BY <1>4, <1>5
  <2>3. 0 \in 0 .. 0
    OBVIOUS
  <2> QED
    BY <1>6, <1>7, <2>1, <2>2, <2>3 DEF Ring
<1>9. Held = 0
  BY <1>8, RingCount DEF Held
<1>10. Len(storage) = 0
  BY <1>1
<1> QED
  BY <1>8, <1>9, <1>10 DEF ResizableInv

LEMMA RingNext ==
  ASSUME Widths, ResizableInv, Resizable!Next
  PROVE  \E q, c, n : Resizable!Become(q) /\ Leaves(q, c, n)
BY EnqueueLeaves, PopLeaves, TrimLeaves, EmptyLeaves DEF Resizable!Next

\* The slots that hold an element are those between the indices.
LEMMA RingInvImplies ==
  ASSUME Widths, ResizableInv
  PROVE  Resizable!SlotsInv
<1> DEFINE c == Len(storage)
<1>1. Ring(TheRing, c, Held)
  BY DEF ResizableInv
<1>2. /\ c \in Nat /\ Held \in Nat /\ Held <= c /\ storage \in Slots /\ DOMAIN storage = 1 .. c
      /\ ringHead \in 0 .. Indices - 1 /\ ringTail \in 0 .. Indices - 1 /\ Indices \in Nat
      /\ c \in {0} \cup Sizes
  BY <1>1, RingTypes, RingParts DEF Ring
<1>10. strays \subseteq {"shrink"}
  BY <1>1, RingParts DEF Ring, RingQueue
<1>3. Resizable!TypeOK
  BY <1>2, <1>10 DEF Resizable!TypeOK, Slots, Indices, Sizes
<1>4. \A k \in 0 .. c - 1 : storage[Place(c, ringTail, k)] # NoItem <=> k < Held
  BY <1>1, RingParts DEF Ring
<1>5. \A k : Resizable!Masked(TheRing, ringTail + k) + 1 = Place(c, ringTail, k)
  BY RingParts DEF Resizable!Masked, Resizable!AllocatedCapacity, Place
<1> DEFINE Full == {i \in 1 .. c : storage[i] # NoItem}
           Between == {Place(c, ringTail, k) : k \in 0 .. Held - 1}
<1>6. Full = Between
  <2> HIDE DEF c
  <2>1. ASSUME NEW i \in 1 .. c, storage[i] # NoItem PROVE \E k \in 0 .. Held - 1 : i = Place(c, ringTail, k)
    <3>1. c \in Nat \ {0} /\ ringTail \in Nat
      BY <1>2
    <3>2. PICK k \in 0 .. c - 1 : i = Place(c, ringTail, k)
      BY <3>1, PlacesCover
    <3>3. k < Held
      BY <1>4, <2>1, <3>2
    <3>4. k \in 0 .. Held - 1
      BY <1>2, <3>3
    <3> QED
      BY <3>2, <3>4
  <2>2. ASSUME NEW k \in 0 .. Held - 1
        PROVE  Place(c, ringTail, k) \in 1 .. c /\ storage[Place(c, ringTail, k)] # NoItem
    <3>1. c \in Nat \ {0} /\ ringTail \in Nat /\ k \in 0 .. c /\ k \in 0 .. c - 1 /\ k < Held
      BY <1>2
    <3>2. Place(c, ringTail, k) \in 1 .. c
      BY <3>1, PlaceValue
    <3> QED
      BY <1>4, <3>1, <3>2
  <2> QED
    BY <2>1, <2>2
<1>7. Resizable!LiveSlots <=>
        {i \in DOMAIN storage : storage[i] # NoItem}
          = {Resizable!Masked(TheRing, ringTail + k) + 1 : k \in 0 .. Held - 1}
  BY DEF Resizable!LiveSlots, TheRing, Held
<1>8. {Resizable!Masked(TheRing, ringTail + k) + 1 : k \in 0 .. Held - 1} = Between
  BY <1>5
<1>9. Resizable!LiveSlots
  BY <1>2, <1>6, <1>7, <1>8
<1> QED
  BY <1>3, <1>9, <1>10 DEF Resizable!SlotsInv, Resizable!OnlyTrimStrays

LEMMA RingInductive ==
  ASSUME Widths, ResizableInv, [Resizable!Next]_(Resizable!vars)
  PROVE  ResizableInv'
<1>1. CASE Resizable!Next
  <2>1. PICK q, c, n : Resizable!Become(q) /\ Leaves(q, c, n)
    BY <1>1, RingNext
  <2>2. Ring(q, c, n)
    BY <2>1 DEF Leaves
  <2> QED
    BY <2>1, <2>2, Becomes
<1>2. CASE UNCHANGED Resizable!vars
  <2>1. storage' = storage /\ ringHead' = ringHead /\ ringTail' = ringTail /\ strays' = strays
    BY <1>2 DEF Resizable!vars
  <2>2. TheRing' = TheRing /\ Held' = Held
    BY <2>1 DEF TheRing, Held, Resizable!Queue, Resizable!Count
  <2> QED
    BY <2>1, <2>2 DEF ResizableInv
<1> QED
  BY <1>1, <1>2

\* The indices of a resizable ring fit their width, its capacity is zero or a power of two,
\* and exactly the slots between the indices hold an element, for indices of any width and
\* rings of any size: Enqueue never constructs an element on top of another one.  Pops and
\* the move assignment of a growing Enqueue destruct elements only; the move assignment of a
\* Trim that shrinks the ring also destructs slots without one.
THEOREM ResizableRingSafe ==
  ASSUME Widths
  PROVE  Resizable!Spec => []Resizable!SlotsInv
<1>1. Resizable!Init => ResizableInv
  BY RingInit
<1>2. ResizableInv /\ [Resizable!Next]_(Resizable!vars) => ResizableInv'
  BY RingInductive
<1>3. ResizableInv => Resizable!SlotsInv
  BY RingInvImplies
<1> QED
  BY <1>1, <1>2, <1>3, PTL DEF Resizable!Spec

-----------------------------------------------------------------------------
(* The resizable ring implements FifoQueue.                                *)

\* The queue that FifoQueue sees.
Seen ==
  [k \in 1 .. Resizable!Count(Resizable!Queue) |->
     storage[Resizable!Masked(Resizable!Queue, ringTail + k - 1) + 1]]

LEMMA MaskedElements ==
  ASSUME Widths, NEW q, NEW c, NEW n, Ring(q, c, n)
  PROVE  [k \in 1 .. n |-> q.storage[Resizable!Masked(q, q.tail + k - 1) + 1]] = Contents(q, n)
<1>1. q.tail \in Nat /\ n \in Nat
  BY RingTypes
<1>2. \A k \in 1 .. n : Resizable!Masked(q, q.tail + k - 1) + 1 = Place(Len(q.storage), q.tail, k - 1)
  <2> SUFFICES ASSUME NEW k \in 1 .. n
               PROVE  Resizable!Masked(q, q.tail + k - 1) + 1 = Place(Len(q.storage), q.tail, k - 1)
    OBVIOUS
  <2>1. q.tail + k - 1 = q.tail + (k - 1)
    BY <1>1
  <2> QED
    BY <2>1 DEF Resizable!Masked, Resizable!AllocatedCapacity, Place
<1> QED
  BY <1>2 DEF Contents

LEMMA SeenElements ==
  ASSUME Widths, ResizableInv
  PROVE  Seen = Contents(TheRing, Held) /\ Seen \in Seq(Item) /\ Len(Seen) = Held
<1>1. Ring(TheRing, Len(storage), Held)
  BY DEF ResizableInv
<1>2. Seen = [k \in 1 .. Held |-> TheRing.storage[Resizable!Masked(TheRing, TheRing.tail + k - 1) + 1]]
  BY RingParts DEF Seen, Held, TheRing
<1>3. Seen = Contents(TheRing, Held)
  BY <1>1, <1>2, MaskedElements
<1> QED
  BY <1>1, <1>3, ContentsSeq

LEMMA RingStepsImplement ==
  ASSUME Widths, ResizableInv, [Resizable!Next]_(Resizable!vars)
  PROVE  [Resizable!Fifo!Next]_(Resizable!Fifo!vars)
<1>1. Seen = Contents(TheRing, Held) /\ Seen \in Seq(Item) /\ Len(Seen) = Held
  BY SeenElements
<1>2. CASE Resizable!Next
  <2>1. PICK q, c, n : Resizable!Become(q) /\ Leaves(q, c, n)
    BY <1>2, RingNext
  <2>2. TheRing' = q /\ Held' = n
    BY <2>1, Becomes DEF Leaves
  <2>3. Seen' = Contents(q, n)
    <3>1. Ring(q, c, n)
      BY <2>1 DEF Leaves
    <3>2. storage' = q.storage /\ ringTail' = q.tail /\ Resizable!Queue' = q
      BY <2>1, <2>2 DEF Resizable!Become, TheRing
    <3>3. Resizable!Count(Resizable!Queue)' = n
      BY <2>2 DEF Held, TheRing
    <3>4. Seen' = [k \in 1 .. n |-> q.storage[Resizable!Masked(q, q.tail + k - 1) + 1]]
      BY <3>2, <3>3 DEF Seen, Resizable!Masked, Resizable!AllocatedCapacity
    <3> QED
      BY <3>1, <3>4, MaskedElements
  <2>4. \/ \E x \in Item : Seen' = Append(Seen, x)
        \/ \E m \in 1 .. Held : Seen' = SubSeq(Seen, m + 1, Held)
        \/ Seen' = Seen
    BY <1>1, <2>1, <2>3 DEF Leaves
  <2>5. CASE \E x \in Item : Seen' = Append(Seen, x)
    <3>1. Resizable!Fifo!Put
      BY <2>5 DEF Resizable!Fifo!Put, Seen
    <3> QED
      BY <3>1 DEF Resizable!Fifo!Next
  <2>6. CASE \E m \in 1 .. Held : Seen' = SubSeq(Seen, m + 1, Held)
    <3>1. \E m \in 1 .. Len(Seen) : Seen' = SubSeq(Seen, m + 1, Len(Seen))
      BY <1>1, <2>6
    <3>2. Resizable!Fifo!Drop
      BY <3>1 DEF Resizable!Fifo!Drop, Seen
    <3> QED
      BY <3>2 DEF Resizable!Fifo!Next
  <2>7. CASE Seen' = Seen
    BY <2>7 DEF Resizable!Fifo!vars, Seen
  <2> QED
    BY <2>4, <2>5, <2>6, <2>7
<1>3. CASE UNCHANGED Resizable!vars
  <2>1. storage' = storage /\ ringHead' = ringHead /\ ringTail' = ringTail /\ strays' = strays
    BY <1>3 DEF Resizable!vars
  <2>2. Seen' = Seen
    BY <2>1 DEF Seen, Resizable!Queue, Resizable!Count, Resizable!Masked, Resizable!AllocatedCapacity
  <2> QED
    BY <2>2 DEF Resizable!Fifo!vars, Seen
<1> QED
  BY <1>2, <1>3

\* A resizable ring of any size hands out its elements in the order in which they came,
\* each of them once, also while its indices wrap around and while Enqueue and Trim copy
\* it to a larger or smaller one.
THEOREM ResizableRefinement ==
  ASSUME Widths
  PROVE  Resizable!Spec => Resizable!ImplementsFifo
<1>1. Resizable!Init => ResizableInv
  BY RingInit
<1>2. ResizableInv /\ [Resizable!Next]_(Resizable!vars) => ResizableInv'
  BY RingInductive
<1>3. Resizable!Init => Resizable!Fifo!Init
  <2> SUFFICES ASSUME Resizable!Init PROVE Resizable!Fifo!Init
    OBVIOUS
  <2>1. Held = 0 /\ ResizableInv
    BY RingInit
  <2>2. Seen = <<>>
    BY <2>1, SeenElements
  <2> QED
    BY <2>2 DEF Resizable!Fifo!Init, Seen
<1>4. ResizableInv /\ [Resizable!Next]_(Resizable!vars)
        => [Resizable!Fifo!Next]_(Resizable!Fifo!vars)
  BY RingStepsImplement
<1> QED
  BY <1>1, <1>2, <1>3, <1>4, PTL DEF Resizable!Spec, Resizable!ImplementsFifo, Resizable!Fifo!Spec

-----------------------------------------------------------------------------
(* TripleBuffer.                                                           *)

CONSTANTS Value, Torn

VARIABLES buffers, flags, wpc, wflags, rpc, rflags, epoch

Triple == INSTANCE TripleBuffer

Distinct(f) == f.read # f.write /\ f.read # f.temp /\ f.write # f.temp

\* Only the buffer that is being written holds a part of a value.
WholeInv ==
  \A i \in Triple!Index : (wpc = "writing" => i # flags.write) => buffers[i] \in Value

\* Once the reader has seen the dirty bit, nobody else takes it away.
ReaderInv ==
  /\ rpc # "idle" => flags.dirty
  /\ rpc = "exchange" => rflags.dirty

\* What the writer compares with has its own index in it.
WriterInv == wpc = "exchange" => wflags.write = flags.write

TripleInv ==
  /\ Triple!TypeOK
  /\ Distinct(flags)
  /\ WholeInv
  /\ ReaderInv
  /\ WriterInv

LEMMA TripleInitial == Triple!Initial \in Triple!Flags /\ Distinct(Triple!Initial)
BY DEF Triple!Initial, Triple!Flags, Triple!Index, Distinct

\* A swap exchanges two of the indices, and so keeps them different.
LEMMA SwapsKeepFlags ==
  ASSUME NEW f \in Triple!Flags, Distinct(f)
  PROVE  /\ Triple!SwapWriteWithTempFlags(f) \in Triple!Flags
         /\ Distinct(Triple!SwapWriteWithTempFlags(f))
         /\ Triple!SwapReadWithTempFlags(f) \in Triple!Flags
         /\ Distinct(Triple!SwapReadWithTempFlags(f))
BY DEF Triple!Flags, Distinct, Triple!SwapWriteWithTempFlags, Triple!SwapReadWithTempFlags

LEMMA TripleInitInv == Triple!Init => TripleInv
<1> SUFFICES ASSUME Triple!Init PROVE TripleInv
  OBVIOUS
<1>1. flags \in Triple!Flags /\ Distinct(flags)
  BY TripleInitial DEF Triple!Init, Triple!Flags, Distinct
<1>2. Triple!TypeOK
  BY <1>1, TripleInitial DEF Triple!Init, Triple!TypeOK
<1> QED
  BY <1>1, <1>2 DEF Triple!Init, TripleInv, WholeInv, ReaderInv, WriterInv

LEMMA TripleNextInv == TripleInv /\ [Triple!Next]_(Triple!vars) => TripleInv'
<1> SUFFICES ASSUME TripleInv, [Triple!Next]_(Triple!vars) PROVE TripleInv'
  OBVIOUS
<1> USE DEF TripleInv
<1> flags.write \in Triple!Index /\ flags.temp \in Triple!Index /\ flags.read \in Triple!Index
  BY DEF Triple!TypeOK, Triple!Flags
<1>1. CASE Triple!BeginWrite
  BY <1>1 DEF Triple!BeginWrite, Triple!TypeOK, Distinct, WholeInv, ReaderInv, WriterInv
<1>2. CASE Triple!EndWrite
  BY <1>2 DEF Triple!EndWrite, Triple!TypeOK, Distinct, WholeInv, ReaderInv, WriterInv
<1>3. CASE Triple!LoadToSwapWrite
  BY <1>3 DEF Triple!LoadToSwapWrite, Triple!TypeOK, Distinct, WholeInv, ReaderInv, WriterInv
<1>4. CASE Triple!SwapWriteBuffers
  <2>1. CASE flags = wflags /\ flags' = Triple!SwapWriteWithTempFlags(wflags) /\ wpc' = "idle"
    <3>1. flags' \in Triple!Flags /\ Distinct(flags)'
      BY <2>1, SwapsKeepFlags DEF Distinct, Triple!TypeOK
    <3>2. flags'.dirty
      BY <2>1 DEF Triple!SwapWriteWithTempFlags
    <3> QED
      BY <1>4, <2>1, <3>1, <3>2
         DEF Triple!SwapWriteBuffers, Triple!TypeOK, WholeInv, ReaderInv, WriterInv
  <2>2. CASE wpc' = "load" /\ UNCHANGED flags
    BY <1>4, <2>2
         DEF Triple!SwapWriteBuffers, Triple!TypeOK, Distinct, WholeInv, ReaderInv, WriterInv
  <2> QED
    BY <1>4, <2>1, <2>2 DEF Triple!SwapWriteBuffers
<1>5. CASE Triple!TestDirty
  BY <1>5 DEF Triple!TestDirty, Triple!TypeOK, Distinct, WholeInv, ReaderInv, WriterInv
<1>6. CASE Triple!LoadToSwapRead
  BY <1>6 DEF Triple!LoadToSwapRead, Triple!TypeOK, Distinct, WholeInv, ReaderInv, WriterInv
<1>7. CASE Triple!SwapReadBuffers
  <2>1. CASE flags = rflags /\ flags' = Triple!SwapReadWithTempFlags(rflags) /\ rpc' = "idle"
    <3>1. flags' \in Triple!Flags /\ Distinct(flags)'
      BY <2>1, SwapsKeepFlags DEF Distinct, Triple!TypeOK
    <3>2. flags'.write = flags.write
      BY <2>1 DEF Triple!SwapReadWithTempFlags
    <3> QED
      BY <1>7, <2>1, <3>1, <3>2
         DEF Triple!SwapReadBuffers, Triple!TypeOK, WholeInv, ReaderInv, WriterInv
  <2>2. CASE rpc' = "load" /\ UNCHANGED flags
    BY <1>7, <2>2
         DEF Triple!SwapReadBuffers, Triple!TypeOK, Distinct, WholeInv, ReaderInv, WriterInv
  <2> QED
    BY <1>7, <2>1, <2>2 DEF Triple!SwapReadBuffers
<1>8. CASE Triple!Reset
  BY <1>8, TripleInitial DEF Triple!Reset, Triple!TypeOK, Distinct, WholeInv, ReaderInv, WriterInv
<1>9. CASE UNCHANGED Triple!vars
  BY <1>9 DEF Triple!vars, Triple!TypeOK, Distinct, WholeInv, ReaderInv, WriterInv
<1> QED
  BY <1>1, <1>2, <1>3, <1>4, <1>5, <1>6, <1>7, <1>8, <1>9 DEF Triple!Next

\* The invariant holds for any values, however the two threads interleave.
THEOREM TripleInvariance == Triple!Spec => []TripleInv
<1> QED
  BY TripleInitInv, TripleNextInv, PTL DEF Triple!Spec

\* The flags are always three indices, and only the writer's buffer is torn.
THEOREM TripleTypeCorrect == Triple!Spec => []Triple!TypeOK
<1>1. TripleInv => Triple!TypeOK
  BY DEF TripleInv
<1> QED
  BY <1>1, TripleInvariance, PTL

\* The two threads never own the same buffer.
THEOREM TripleOwnBuffers == Triple!Spec => []Triple!ThreeBuffers
<1>1. TripleInv => Triple!ThreeBuffers
  BY DEF TripleInv, Distinct, Triple!ThreeBuffers
<1> QED
  BY <1>1, TripleInvariance, PTL

-----------------------------------------------------------------------------

\* No step but Reset makes the reader see anything but what was published last, whole:
\* each step writes the draft, publishes it, fetches, resets, or cannot be seen.
LEMMA TripleStepsImplement ==
  TripleInv /\ TripleInv' /\ [Triple!Next]_(Triple!vars)
    => [Triple!Latest!Next]_(Triple!Latest!vars)
<1> SUFFICES ASSUME TripleInv, TripleInv', [Triple!Next]_(Triple!vars)
             PROVE  Triple!Latest!Next \/ UNCHANGED Triple!Latest!vars
  OBVIOUS
<1> USE DEF TripleInv
<1>0. /\ flags \in Triple!Flags
      /\ flags.write \in Triple!Index /\ flags.temp \in Triple!Index /\ flags.read \in Triple!Index
      /\ flags.dirty \in BOOLEAN
      /\ buffers \in [Triple!Index -> Value \cup {Torn}]
  BY DEF Triple!TypeOK, Triple!Flags
<1>w. buffers[flags.read] \in Value /\ buffers[flags.temp] \in Value
  BY <1>0 DEF WholeInv, Distinct
<1>1. ASSUME NEW x \in Value \cup {Torn}, buffers' = [buffers EXCEPT ![flags.write] = x],
             UNCHANGED <<flags, epoch>>
      PROVE  Triple!Latest!Next
  <2>1. /\ buffers'[flags.write] = x
        /\ buffers'[flags.read] = buffers[flags.read]
        /\ buffers'[flags.temp] = buffers[flags.temp]
    BY <1>1, <1>0 DEF Distinct
  <2> QED
    BY <1>1, <2>1 DEF Triple!Latest!Next, Triple!Latest!Write
<1>2. ASSUME UNCHANGED <<buffers, flags, epoch>> PROVE UNCHANGED Triple!Latest!vars
  BY <1>2 DEF Triple!Latest!vars
<1>3. CASE Triple!BeginWrite
  BY <1>3, <1>1 DEF Triple!BeginWrite
<1>4. CASE Triple!EndWrite
  BY <1>4, <1>1 DEF Triple!EndWrite
<1>5. CASE Triple!SwapWriteBuffers
  <2>1. CASE flags = wflags /\ flags' = Triple!SwapWriteWithTempFlags(wflags)
    <3>1. buffers[flags.write] \in Value
      BY <1>5, <1>0 DEF Triple!SwapWriteBuffers, WholeInv
    <3>2. /\ flags'.dirty /\ flags'.temp = flags.write /\ flags'.read = flags.read
          /\ flags'.write = flags.temp /\ UNCHANGED <<buffers, epoch>>
      BY <1>5, <2>1 DEF Triple!SwapWriteBuffers, Triple!SwapWriteWithTempFlags
    <3> QED
      BY <1>w, <3>1, <3>2 DEF Triple!Latest!Next, Triple!Latest!Publish
  <2>2. CASE UNCHANGED flags
    BY <1>5, <2>2, <1>2 DEF Triple!SwapWriteBuffers
  <2> QED
    BY <1>5, <2>1, <2>2 DEF Triple!SwapWriteBuffers
<1>6. CASE Triple!SwapReadBuffers
  <2>1. CASE flags = rflags /\ flags' = Triple!SwapReadWithTempFlags(rflags)
    <3>1. flags.dirty
      BY <1>6 DEF Triple!SwapReadBuffers, ReaderInv
    <3>2. /\ ~flags'.dirty /\ flags'.read = flags.temp
          /\ flags'.write = flags.write /\ UNCHANGED <<buffers, epoch>>
      BY <1>6, <2>1 DEF Triple!SwapReadBuffers, Triple!SwapReadWithTempFlags
    <3> QED
      BY <3>1, <3>2, <1>0 DEF Triple!Latest!Next, Triple!Latest!Fetch
  <2>2. CASE UNCHANGED flags
    BY <1>6, <2>2, <1>2 DEF Triple!SwapReadBuffers
  <2> QED
    BY <1>6, <2>1, <2>2 DEF Triple!SwapReadBuffers
<1>7. CASE Triple!Reset
  <2>1. /\ ~flags'.dirty /\ UNCHANGED buffers /\ epoch' = ~epoch
        /\ flags'.read \in Triple!Index /\ flags'.write \in Triple!Index
    BY <1>7 DEF Triple!Reset, Triple!Initial, Triple!Index
  <2>2. buffers[flags'.read] \in Value /\ buffers[flags'.write] \in Value
    BY <1>7, <2>1 DEF Triple!Reset, WholeInv
  <2> QED
    BY <2>1, <2>2 DEF Triple!Latest!Next, Triple!Latest!Forget
<1>8. CASE Triple!LoadToSwapWrite \/ Triple!TestDirty \/ Triple!LoadToSwapRead \/ UNCHANGED Triple!vars
  BY <1>8, <1>2 DEF Triple!LoadToSwapWrite, Triple!TestDirty, Triple!LoadToSwapRead, Triple!vars
<1> QED
  BY <1>3, <1>4, <1>5, <1>6, <1>7, <1>8 DEF Triple!Next

\* The triple buffer implements the exchange of a latest value: what the reader fetches is
\* what the writer published last, complete, and stays so until it fetches again; only a
\* Reset goes back to an older value.
THEOREM TripleRefinement == Triple!Spec => Triple!ImplementsLatestValue
<1>1. Triple!Init => Triple!Latest!Init
  <2> SUFFICES ASSUME Triple!Init PROVE Triple!Latest!Init
    OBVIOUS
  <2>1. flags \in Triple!Flags
    BY TripleInitial DEF Triple!Init, Triple!Flags
  <2>2. flags.write \in Triple!Index /\ flags.read \in Triple!Index /\ flags.temp \in Triple!Index
    BY <2>1 DEF Triple!Flags
  <2> QED
    BY <2>1, <2>2 DEF Triple!Init, Triple!Latest!Init, Triple!Flags
<1> QED
  BY <1>1, TripleStepsImplement, TripleInvariance, PTL
     DEF Triple!Spec, Triple!Latest!Spec, Triple!ImplementsLatestValue
=============================================================================
