-------------------------- MODULE AsyncTask_proofs ---------------------------
(***************************************************************************)
(* AsyncTask for any number of threads, tasks and owners, whether or not   *)
(* the pool is destroyed while others use it: every piece of work is at    *)
(* one place, and every thread does one job.                               *)
(***************************************************************************)
EXTENDS AsyncTask, SequenceTheorems, FiniteSetTheorems, TLAPS

-----------------------------------------------------------------------------
(* Queues without duplicates.                                              *)

Distinct(q) == \A i, j \in 1 .. Len(q) : q[i] = q[j] => i = j

LEMMA Appending ==
  ASSUME NEW S, NEW q \in Seq(S), NEW e \in S
  PROVE  /\ Append(q, e) \in Seq(S) /\ Append(q, e) # << >>
         /\ \A x : Contains(Append(q, e), x) <=> Contains(q, x) \/ x = e
         /\ Distinct(q) /\ ~Contains(q, e) => Distinct(Append(q, e))
<1>1. /\ Append(q, e) \in Seq(S) /\ Append(q, e) # << >>
      /\ Len(Append(q, e)) = Len(q) + 1 /\ Len(q) \in Nat
      /\ \A i \in 1 .. Len(q) : Append(q, e)[i] = q[i]
      /\ Append(q, e)[Len(q) + 1] = e
  BY AppendProperties, LenProperties
<1>2. \A i : i \in 1 .. Len(Append(q, e)) <=> i \in 1 .. Len(q) \/ i = Len(q) + 1
  BY <1>1
<1>3. \A x : Contains(Append(q, e), x) <=> Contains(q, x) \/ x = e
  BY <1>1, <1>2 DEF Contains
<1>4. ASSUME Distinct(q), ~Contains(q, e) PROVE Distinct(Append(q, e))
  <2> SUFFICES ASSUME NEW i \in 1 .. Len(Append(q, e)), NEW j \in 1 .. Len(Append(q, e)),
                      Append(q, e)[i] = Append(q, e)[j]
               PROVE  i = j
    BY DEF Distinct
  <2> QED
    BY <1>1, <1>2, <1>4 DEF Distinct, Contains
<1> QED
  BY <1>1, <1>3, <1>4

LEMMA TakingHead ==
  ASSUME NEW S, NEW q \in Seq(S), q # << >>, Distinct(q)
  PROVE  /\ Head(q) \in S /\ Contains(q, Head(q))
         /\ Tail(q) \in Seq(S) /\ Distinct(Tail(q))
         /\ \A x : Contains(Tail(q), x) <=> Contains(q, x) /\ x # Head(q)
<1>1. /\ Head(q) \in S /\ Tail(q) \in Seq(S) /\ Len(Tail(q)) = Len(q) - 1
      /\ Len(q) \in Nat \ {0} /\ Head(q) = q[1]
      /\ \A i \in 1 .. Len(q) - 1 : Tail(q)[i] = q[i + 1]
  BY HeadTailProperties, EmptySeq
<1>2. 1 \in 1 .. Len(q)
  BY <1>1
<1>3. /\ \A i \in 1 .. Len(q) - 1 : i + 1 \in 1 .. Len(q) /\ i + 1 # 1
      /\ \A i \in 1 .. Len(q) : i = 1 \/ (i - 1 \in 1 .. Len(q) - 1 /\ (i - 1) + 1 = i)
  BY <1>1
<1>4. ASSUME NEW x PROVE Contains(Tail(q), x) <=> Contains(q, x) /\ x # Head(q)
  <2>1. ASSUME Contains(Tail(q), x) PROVE Contains(q, x) /\ x # Head(q)
    <3>1. PICK i \in 1 .. Len(q) - 1 : Tail(q)[i] = x
      BY <1>1, <2>1 DEF Contains
    <3>2. q[i + 1] = x /\ i + 1 \in 1 .. Len(q) /\ i + 1 # 1
      BY <1>1, <1>3, <3>1
    <3> QED
      BY <1>1, <1>2, <3>2 DEF Contains, Distinct
  <2>2. ASSUME Contains(q, x), x # Head(q) PROVE Contains(Tail(q), x)
    <3>1. PICK i \in 1 .. Len(q) : q[i] = x
      BY <2>2 DEF Contains
    <3>2. PICK j \in 1 .. Len(q) - 1 : j + 1 = i
      BY <1>1, <1>3, <2>2, <3>1
    <3> QED
      BY <1>1, <3>1, <3>2 DEF Contains
  <2> QED
    BY <2>1, <2>2
<1>5. Distinct(Tail(q))
  <2> SUFFICES ASSUME NEW i \in 1 .. Len(q) - 1, NEW j \in 1 .. Len(q) - 1,
                      Tail(q)[i] = Tail(q)[j]
               PROVE  i = j
    BY <1>1 DEF Distinct
  <2>1. i + 1 = j + 1
    BY <1>1, <1>3 DEF Distinct
  <2> QED
    BY <2>1
<1> QED
  BY <1>1, <1>2, <1>4, <1>5 DEF Contains

LEMMA TakingLast ==
  ASSUME NEW S, NEW q \in Seq(S), q # << >>, Distinct(q)
  PROVE  /\ Last(q) \in S /\ Contains(q, Last(q))
         /\ Front(q) \in Seq(S) /\ Distinct(Front(q))
         /\ \A x : Contains(Front(q), x) <=> Contains(q, x) /\ x # Last(q)
<1>1. Len(q) \in Nat \ {0} /\ Last(q) = q[Len(q)]
  BY EmptySeq DEF Last
<1>2. Len(q) \in 1 .. Len(q) /\ Len(q) - 1 \in Int
  BY <1>1
<1>3. \A i \in 1 .. Len(q) - 1 : i \in 1 .. Len(q) /\ i # Len(q) /\ q[i] \in S
  BY <1>1, ElementOfSeq
<1>4. /\ Front(q) \in Seq(S) /\ Len(Front(q)) = Len(q) - 1
      /\ \A i \in 1 .. Len(q) - 1 : Front(q)[i] = q[i]
  <2>1. PICK m \in Int : m = Len(q) - 1
    BY <1>2
  <2>2. Front(q) = SubSeq(q, 1, m) /\ \A i \in 1 .. m : q[i] \in S
    BY <1>3, <2>1 DEF Front
  <2>3. /\ Front(q) \in Seq(S) /\ Len(Front(q)) = IF 1 <= m THEN m - 1 + 1 ELSE 0
        /\ \A i \in 1 .. m - 1 + 1 : Front(q)[i] = q[1 + i - 1]
    BY <2>2, SubSeqProperties
  <2>4. m - 1 + 1 = m /\ Len(Front(q)) = m /\ \A i \in 1 .. m : 1 + i - 1 = i
    BY <1>1, <2>1, <2>3
  <2>5. \A i \in 1 .. m : Front(q)[i] = q[i]
    BY <2>3, <2>4
  <2> QED
    BY <2>1, <2>3, <2>4, <2>5
<1>5. \A i \in 1 .. Len(q) : i = Len(q) \/ i \in 1 .. Len(q) - 1
  BY <1>1
<1>6. \A x : Contains(Front(q), x) <=> Contains(q, x) /\ x # Last(q)
  BY <1>1, <1>2, <1>3, <1>4, <1>5 DEF Contains, Distinct
<1>7. Distinct(Front(q))
  BY <1>3, <1>4 DEF Distinct
<1> QED
  BY <1>1, <1>2, <1>4, <1>6, <1>7, ElementOfSeq DEF Contains

\* Where x is, if it is there, is the first place where it is.
LEMMA Removing ==
  ASSUME NEW S, NEW q \in Seq(S), Distinct(q), NEW x
  PROVE  /\ RemoveFirst(q, x) \in Seq(S) /\ Distinct(RemoveFirst(q, x))
         /\ \A y : Contains(RemoveFirst(q, x), y) <=> Contains(q, y) /\ y # x
         /\ q = << >> => RemoveFirst(q, x) = << >>
<1>0. Len(q) \in Nat /\ (q = << >> <=> Len(q) = 0)
  BY LenProperties, EmptySeq
<1>1. CASE ~Contains(q, x)
  <2>1. RemoveFirst(q, x) = q
    BY <1>1 DEF RemoveFirst, Contains
  <2> QED
    BY <1>1, <2>1
<1>2. CASE Contains(q, x)
  <2>1. PICK k \in 1 .. Len(q) : q[k] = x
    BY <1>2 DEF Contains
  <2>2. {i \in 1 .. Len(q) : q[i] = x} = {k}
    BY <2>1 DEF Distinct
  <2>3. SelectInSeq(q, LAMBDA v : v = x) = k
    BY <2>2 DEF SelectInSeq, Min
  <2>4. RemoveFirst(q, x) = SubSeq(q, 1, k - 1) \o SubSeq(q, k + 1, Len(q))
    BY <1>2, <2>3 DEF RemoveFirst, RemoveAt, Contains
  <2>5. PICK n \in Nat, m \in Nat : n = k - 1 /\ m = Len(q) - k
    BY <1>0
  <2>6. \A i \in 1 .. Len(q) : q[i] \in S
    BY ElementOfSeq
  <2>7. /\ SubSeq(q, 1, n) \in Seq(S) /\ Len(SubSeq(q, 1, n)) = n
        /\ \A i \in 1 .. n : SubSeq(q, 1, n)[i] = q[i]
    <3>1. \A i \in 1 .. n : q[i] \in S /\ 1 + i - 1 = i
      BY <1>0, <2>5, <2>6
    <3>2. /\ SubSeq(q, 1, n) \in Seq(S)
          /\ Len(SubSeq(q, 1, n)) = IF 1 <= n THEN n - 1 + 1 ELSE 0
          /\ \A i \in 1 .. n - 1 + 1 : SubSeq(q, 1, n)[i] = q[1 + i - 1]
      BY <3>1, SubSeqProperties
    <3>3. n - 1 + 1 = n /\ Len(SubSeq(q, 1, n)) = n
      BY <3>2
    <3> QED
      BY <3>1, <3>2, <3>3
  <2>8. /\ SubSeq(q, k + 1, Len(q)) \in Seq(S) /\ Len(SubSeq(q, k + 1, Len(q))) = m
        /\ \A i \in 1 .. m : SubSeq(q, k + 1, Len(q))[i] = q[k + i]
    <3>1. \A i \in k + 1 .. Len(q) : q[i] \in S
      BY <1>0, <2>6
    <3>2. k + 1 \in Int /\ Len(q) \in Int
      BY <1>0
    <3>3. /\ SubSeq(q, k + 1, Len(q)) \in Seq(S)
          /\ Len(SubSeq(q, k + 1, Len(q))) =
               IF k + 1 <= Len(q) THEN Len(q) - (k + 1) + 1 ELSE 0
          /\ \A i \in 1 .. Len(q) - (k + 1) + 1 :
               SubSeq(q, k + 1, Len(q))[i] = q[k + 1 + i - 1]
      BY <3>1, <3>2, SubSeqProperties
    <3>4. Len(q) - (k + 1) + 1 = m /\ \A i \in 1 .. m : k + 1 + i - 1 = k + i
      BY <1>0, <2>5
    <3>5. Len(SubSeq(q, k + 1, Len(q))) = m
      BY <1>0, <2>5, <3>3
    <3> QED
      BY <3>3, <3>4, <3>5
  <2> DEFINE r == RemoveFirst(q, x)
  <2>9. /\ r \in Seq(S) /\ Len(r) = n + m
        /\ \A i \in 1 .. n + m : r[i] = IF i <= n THEN q[i] ELSE q[i + 1]
    <3>1. r = SubSeq(q, 1, n) \o SubSeq(q, k + 1, Len(q))
      BY <2>4, <2>5
    <3>2. /\ r \in Seq(S) /\ Len(r) = n + m
          /\ \A i \in 1 .. n + m :
               r[i] = IF i <= n THEN SubSeq(q, 1, n)[i] ELSE SubSeq(q, k + 1, Len(q))[i - n]
      <4> HIDE DEF r
      <4>1. PICK a \in Seq(S), b \in Seq(S) :
              a = SubSeq(q, 1, n) /\ b = SubSeq(q, k + 1, Len(q))
        BY <2>7, <2>8
      <4>2. r = a \o b
        BY <3>1, <4>1
      <4>3. /\ r \in Seq(S) /\ Len(r) = Len(a) + Len(b)
            /\ \A i \in 1 .. Len(a) + Len(b) :
                 r[i] = IF i <= Len(a) THEN a[i] ELSE b[i - Len(a)]
        BY <4>2, ConcatProperties
      <4>4. Len(a) = n /\ Len(b) = m
        BY <2>7, <2>8, <4>1
      <4> QED
        BY <4>1, <4>3, <4>4
    <3>3. ASSUME NEW i \in 1 .. n + m PROVE r[i] = IF i <= n THEN q[i] ELSE q[i + 1]
      <4>1. CASE i <= n
        BY <2>7, <3>2, <4>1
      <4>2. CASE ~(i <= n)
        <5>1. i - n \in 1 .. m /\ k + (i - n) = i + 1
          BY <1>0, <2>5, <4>2
        <5>2. r[i] = SubSeq(q, k + 1, Len(q))[i - n]
          BY <3>2, <4>2
        <5> QED
          BY <2>8, <4>2, <5>1, <5>2
      <4> QED
        BY <4>1, <4>2
    <3> QED
      BY <3>2, <3>3
  <2> HIDE DEF r
  <2>10. \A i \in 1 .. n + m :
           /\ i <= n => i \in 1 .. Len(q) /\ i # k
           /\ ~(i <= n) => i + 1 \in 1 .. Len(q) /\ i + 1 # k
    BY <1>0, <2>5
  <2>11. \A i \in 1 .. Len(q) :
           \/ i = k
           \/ i \in 1 .. n + m /\ i <= n
           \/ i - 1 \in 1 .. n + m /\ ~(i - 1 <= n) /\ (i - 1) + 1 = i
    BY <1>0, <2>5
  <2>12. ASSUME NEW y PROVE Contains(r, y) <=> Contains(q, y) /\ y # x
    <3>1. ASSUME Contains(r, y) PROVE Contains(q, y) /\ y # x
      <4>1. PICK i \in 1 .. n + m : r[i] = y
        BY <2>9, <3>1 DEF Contains
      <4>2. PICK j \in 1 .. Len(q) : q[j] = y /\ j # k
        BY <2>9, <2>10, <4>1
      <4> QED
        BY <2>1, <4>2 DEF Contains, Distinct
    <3>2. ASSUME Contains(q, y), y # x PROVE Contains(r, y)
      <4>1. PICK i \in 1 .. Len(q) : q[i] = y
        BY <3>2 DEF Contains
      <4>2. i # k
        BY <2>1, <3>2, <4>1
      <4>3. \E j \in 1 .. n + m : r[j] = y
        BY <2>9, <2>11, <4>1, <4>2
      <4> QED
        BY <2>9, <4>3 DEF Contains
    <3> QED
      BY <3>1, <3>2
  <2>13. Distinct(r)
    <3> SUFFICES ASSUME NEW i \in 1 .. n + m, NEW j \in 1 .. n + m, r[i] = r[j]
                 PROVE  i = j
      BY <2>9 DEF Distinct
    <3>1. CASE i <= n /\ j <= n
      BY <2>9, <2>10, <3>1 DEF Distinct
    <3>2. CASE i <= n /\ ~(j <= n)
      <4>1. q[i] = q[j + 1] /\ i \in 1 .. Len(q) /\ j + 1 \in 1 .. Len(q)
        BY <2>9, <2>10, <3>2
      <4>2. i = j + 1
        BY <4>1 DEF Distinct
      <4> QED
        BY <3>2, <4>2
    <3>3. CASE ~(i <= n) /\ j <= n
      <4>1. q[i + 1] = q[j] /\ i + 1 \in 1 .. Len(q) /\ j \in 1 .. Len(q)
        BY <2>9, <2>10, <3>3
      <4>2. i + 1 = j
        BY <4>1 DEF Distinct
      <4> QED
        BY <3>3, <4>2
    <3>4. CASE ~(i <= n) /\ ~(j <= n)
      <4>1. i + 1 = j + 1
        BY <2>9, <2>10, <3>4 DEF Distinct
      <4> QED
        BY <4>1
    <3> QED
      BY <3>1, <3>2, <3>3, <3>4
  <2>14. q # << >>
    BY <1>0
  <2> QED
    BY <2>9, <2>12, <2>13, <2>14 DEF r
<1> QED
  BY <1>1, <1>2

-----------------------------------------------------------------------------
(* Where work is.                                                          *)

InPool(w) == Contains(queuedThreads, w)

Kinds == {"queue", "handed", "job", "adder", "owner"}

Places == Work \cup Adders

\* The owner does or has done its own work, and nobody else.
Busy == {"abandon", "abandonFinish", "workHere", "finishHere", "workSync", "cancel"}

\* Something will be done with x there, if only that its event is triggered.
At(x, k, o) ==
  \/ k = "queue" /\ o = x /\ Contains(queuedWork, x)
  \/ k = "handed" /\ o \in PoolThreads /\ threadWork[o] = x
  \/ k = "job" /\ o \in PoolThreads /\ tpc[o] \in {"work", "finish"} /\ job[o] = x
  \/ k = "adder" /\ o \in Adders /\ adding[o] = x
  \/ k = "owner" /\ o = x /\ o \in Tasks /\ opc[o] \in Busy

\* The work is done, and only the event is still to be triggered.
Ending(x, k, o) ==
  \/ k = "queue" /\ dpc = "abandonFinish" /\ Head(queuedWork) = x
  \/ k = "job" /\ tpc[o] = "finish"
  \/ k = "owner" /\ opc[o] \in {"abandonFinish", "finishHere"}

\* Work is at one place, or at none; its counter tells whether it is still to be
\* done, and while it is somewhere its owner waits.
OnePlace(x) ==
  /\ \A k, j \in Kinds, o, p \in Places : At(x, k, o) /\ At(x, j, p) => k = j /\ o = p
  /\ workNotFinished[x] = 1 <=>
       \E k \in Kinds, o \in Places : At(x, k, o) /\ ~Ending(x, k, o)
  /\ x \in Tasks =>
       \A k \in Kinds, o \in Places : At(x, k, o) =>
         ~doneEvent[x] /\ (queuedPool[x] \/ opc[x] = "workSync")

PlaceInv == \A x \in Work : OnePlace(x)

QueueInv == Distinct(queuedWork) /\ Distinct(queuedThreads)

\* Only what somebody may wait for has an event.
EndingInv ==
  /\ \A w \in PoolThreads :
       /\ tpc[w] = "work" => job[w] \in Work
       /\ tpc[w] = "finish" => job[w] \in Tasks
  /\ dpc = "abandonFinish" => queuedWork # << >> /\ Head(queuedWork) \in Tasks

-----------------------------------------------------------------------------
(* Where threads and locks are.                                            *)

LockInv ==
  /\ synchQueue = "held" <=> dpc \in {"abandon", "abandonFinish", "killing"}
  /\ synchQueue = "deleted" <=> dpc = "destroyed"

\* A thread that is not told to die is in the pool, chosen for some work, woken up
\* for it, or at work; and at only one of them.
ThreadInv ==
  \A w \in PoolThreads :
    /\ threadTimeToDie[w] => dpc \in {"killing", "destroyed"}
    /\ InPool(w) =>
         /\ tpc[w] \in {"top", "wait", "take", "exited"}
         /\ threadWork[w] = NoWork
         /\ doWorkEvent[w] => threadTimeToDie[w]
    /\ tpc[w] \in {"work", "finish", "return"} => threadWork[w] = NoWork
    /\ doWorkEvent[w] /\ ~threadTimeToDie[w] =>
         threadWork[w] # NoWork /\ tpc[w] \in {"top", "wait"}
    /\ tpc[w] = "take" => threadWork[w] # NoWork \/ threadTimeToDie[w]
    /\ tpc[w] = "exited" => threadTimeToDie[w]

ChosenInv ==
  /\ \A c \in Adders :
       /\ adding[c] # NoWork <=> apc[c] \in {"lock", "give"}
       /\ chosen[c] # NoThread <=> apc[c] \in {"give", "trigger"}
       /\ chosen[c] # NoThread => ~InPool(chosen[c])
       /\ apc[c] = "give" =>
            /\ threadWork[chosen[c]] = NoWork
            /\ tpc[chosen[c]] \in {"top", "wait", "take", "exited"}
       /\ apc[c] = "trigger" /\ ~threadTimeToDie[chosen[c]] => threadWork[chosen[c]] # NoWork
       /\ chosen[c] # NoThread /\ ~threadTimeToDie[chosen[c]] =>
            tpc[chosen[c]] \in {"top", "wait"} /\ ~doWorkEvent[chosen[c]]
  /\ \A c, d \in Adders : chosen[c] = chosen[d] /\ chosen[c] # NoThread => c = d

\* What the owners alone cannot disturb.
PoolSide ==
  /\ QueueInv
  /\ EndingInv
  /\ LockInv
  /\ ThreadInv
  /\ ChosenInv
  /\ NoIdleThreadWhileWorkWaits

Inv == TypeOK /\ PlaceInv /\ PoolSide

-----------------------------------------------------------------------------
(* The invariant and the properties.                                       *)

LEMMA Names ==
  /\ Tasks = Callers /\ Tasks \cap AutoTasks = {} /\ Work = Tasks \cup AutoTasks
  /\ NoWork \notin Work /\ NoThread \notin PoolThreads
  /\ PoolThreads \cap Callers = {} /\ Adders = PoolThreads \cup Callers
  /\ Tasks \subseteq Work /\ AutoTasks \subseteq Work /\ Tasks \subseteq Adders
  /\ PoolThreads \subseteq Adders
BY AsyncTaskAssumption, ThreadPoolAssumption
DEF AsyncTaskAssumption, ThreadPoolAssumption, Adders

\* The name under which WorkHeldOnce counts a place.
Holder(x, k, o) ==
  <<k, IF k = "queue" THEN CHOOSE i \in 1 .. Len(queuedWork) : queuedWork[i] = x ELSE o>>

LEMMA HoldersArePlaces ==
  ASSUME Inv, NEW x \in Work
  PROVE  /\ \A h \in Holders(x) : \E k \in Kinds, o \in Places :
              At(x, k, o) /\ ~Ending(x, k, o) /\ h = Holder(x, k, o)
         /\ \A k \in Kinds, o \in Places :
              At(x, k, o) /\ ~Ending(x, k, o) => Holder(x, k, o) \in Holders(x)
<1> USE DEF Inv, PoolSide
<1>0. /\ queuedWork \in Seq(Work) /\ Len(queuedWork) \in Nat
      /\ DOMAIN queuedWork = 1 .. Len(queuedWork)
  BY LenProperties DEF TypeOK, PoolTypeOK
<1>1. ASSUME NEW i \in 1 .. Len(queuedWork), queuedWork[i] = x
      PROVE  /\ (CHOOSE j \in 1 .. Len(queuedWork) : queuedWork[j] = x) = i
             /\ i = 1 <=> Head(queuedWork) = x
  <2>1. \A j \in 1 .. Len(queuedWork) : queuedWork[j] = x <=> j = i
    BY <1>1 DEF QueueInv, Distinct
  <2>2. 1 \in 1 .. Len(queuedWork) /\ Head(queuedWork) = queuedWork[1]
    BY <1>0
  <2> QED
    BY <2>1, <2>2
<1>2. ASSUME NEW h \in Holders(x)
      PROVE  \E k \in Kinds, o \in Places :
               At(x, k, o) /\ ~Ending(x, k, o) /\ h = Holder(x, k, o)
  <2>1. CASE \E i \in DOMAIN queuedWork : /\ h = <<"queue", i>> /\ queuedWork[i] = x
                                          /\ ~(i = 1 /\ dpc = "abandonFinish")
    <3>1. PICK i \in 1 .. Len(queuedWork) :
            h = <<"queue", i>> /\ queuedWork[i] = x /\ ~(i = 1 /\ dpc = "abandonFinish")
      BY <1>0, <2>1
    <3>2. At(x, "queue", x) /\ ~Ending(x, "queue", x)
      BY <1>1, <3>1 DEF At, Ending, Contains
    <3>3. h = Holder(x, "queue", x)
      BY <1>1, <3>1 DEF Holder
    <3> QED
      BY <3>2, <3>3 DEF Kinds, Places
  <2>2. CASE \E w \in PoolThreads : h = <<"handed", w>> /\ threadWork[w] = x
    BY <2>2, Names DEF At, Ending, Kinds, Places, Holder
  <2>3. CASE \E w \in PoolThreads : h = <<"job", w>> /\ tpc[w] = "work" /\ job[w] = x
    BY <2>3, Names DEF At, Ending, Kinds, Places, Holder
  <2>4. CASE \E c \in Adders : h = <<"adder", c>> /\ adding[c] = x
    BY <2>4, Names DEF At, Ending, Kinds, Places, Holder
  <2>5. CASE \E t \in Tasks : /\ h = <<"owner", t>> /\ t = x
                              /\ opc[t] \in {"abandon", "workHere", "workSync", "cancel"}
    BY <2>5, Names DEF At, Ending, Kinds, Places, Holder, Busy
  <2> QED
    BY <2>1, <2>2, <2>3, <2>4, <2>5 DEF Holders
<1>3. ASSUME NEW k \in Kinds, NEW o \in Places, At(x, k, o), ~Ending(x, k, o)
      PROVE  Holder(x, k, o) \in Holders(x)
  <2>1. CASE k = "queue"
    <3>1. PICK i \in 1 .. Len(queuedWork) : queuedWork[i] = x
      BY <1>3, <2>1 DEF At, Contains
    <3>2. Holder(x, k, o) = <<"queue", i>> /\ ~(i = 1 /\ dpc = "abandonFinish")
      BY <1>1, <1>3, <2>1, <3>1 DEF Holder, Ending
    <3>3. i \in {j \in DOMAIN queuedWork :
                   queuedWork[j] = x /\ ~(j = 1 /\ dpc = "abandonFinish")}
      BY <1>0, <3>1, <3>2
    <3> QED
      BY <3>2, <3>3 DEF Holders
  <2>2. CASE k = "handed"
    BY <1>3, <2>2 DEF At, Holder, Holders
  <2>3. CASE k = "job"
    BY <1>3, <2>3 DEF At, Ending, Holder, Holders
  <2>4. CASE k = "adder"
    BY <1>3, <2>4 DEF At, Holder, Holders
  <2>5. CASE k = "owner"
    BY <1>3, <2>5 DEF At, Ending, Busy, Holder, Holders
  <2> QED
    BY <2>1, <2>2, <2>3, <2>4, <2>5 DEF Kinds
<1> QED
  BY <1>2, <1>3

LEMMA InvImplies == Inv => PoolInv /\ IdleMeansUntouched
<1> SUFFICES ASSUME Inv PROVE PoolInv /\ IdleMeansUntouched
  OBVIOUS
<1>1. ASSUME NEW x \in Work PROVE Cardinality(Holders(x)) = workNotFinished[x]
  <2>1. OnePlace(x) /\ workNotFinished[x] \in {0, 1}
    BY DEF Inv, PlaceInv, TypeOK
  <2>2. CASE workNotFinished[x] = 0
    <3>1. Holders(x) = {}
      BY <2>1, <2>2, HoldersArePlaces DEF OnePlace
    <3> QED
      BY <2>2, <3>1, FS_EmptySet
  <2>3. CASE workNotFinished[x] = 1
    <3>1. PICK k \in Kinds, o \in Places : At(x, k, o) /\ ~Ending(x, k, o)
      BY <2>1, <2>3 DEF OnePlace
    <3>2. \A h \in Holders(x) : h = Holder(x, k, o)
      BY <2>1, <3>1, HoldersArePlaces DEF OnePlace
    <3>3. Holders(x) = {Holder(x, k, o)}
      BY <3>1, <3>2, HoldersArePlaces
    <3> QED
      BY <2>3, <3>3, FS_Singleton
  <2> QED
    BY <2>1, <2>2, <2>3
<1>2. OneJobPerThread
  BY Names DEF Inv, PoolSide, ThreadInv, ChosenInv, OneJobPerThread
<1>3. ASSUME NEW x \in Tasks, Free(x), ~queuedPool[x]
      PROVE  /\ workNotFinished[x] = 0
             /\ \A w \in PoolThreads : ~(job[w] = x /\ tpc[w] \in {"work", "finish"})
             /\ ~Contains(queuedWork, x)
  <2>1. OnePlace(x) /\ workNotFinished[x] \in {0, 1} /\ x \in Work
    BY Names DEF Inv, PlaceInv, TypeOK
  <2>2. \A k \in Kinds, o \in Places : ~At(x, k, o)
    BY <1>3, <2>1 DEF Free, OnePlace
  <2> QED
    BY <2>1, <2>2, Names DEF OnePlace, At, Kinds, Places
<1> QED
  BY <1>1, <1>2, <1>3 DEF Inv, PoolInv, WorkHeldOnce, IdleMeansUntouched

LEMMA InitInv == Init => Inv
<1> SUFFICES ASSUME Init PROVE Inv
  OBVIOUS
<1> USE DEF Init, PoolInit
<1>1. queuedWork \in Seq(Work) /\ Len(queuedWork) = 0
  BY EmptySeq
<1>2. queuedThreads \in Seq(PoolThreads) /\ Distinct(queuedThreads)
  <2>1. Cardinality(PoolThreads) \in Nat
    BY FS_CardinalityType, ThreadPoolAssumption DEF ThreadPoolAssumption
  <2>2. /\ queuedThreads \in [1 .. Cardinality(PoolThreads) -> PoolThreads]
        /\ \A i, j \in 1 .. Cardinality(PoolThreads) : i # j => queuedThreads[i] # queuedThreads[j]
    BY DEF SetToSeqs
  <2>3. Len(queuedThreads) = Cardinality(PoolThreads)
    BY <2>1, <2>2
  <2> QED
    BY <2>1, <2>2, <2>3 DEF Distinct
<1>3. TypeOK
  <2>1. PoolTypeOK
    BY <1>1, <1>2 DEF PoolTypeOK
  <2> QED
    BY <2>1, Names DEF TypeOK, OwnerPC
<1>4. PlaceInv
  BY <1>1, Names DEF PlaceInv, OnePlace, At, Busy, Contains
<1>5. QueueInv /\ EndingInv /\ LockInv /\ ThreadInv /\ ChosenInv /\ NoIdleThreadWhileWorkWaits
  BY <1>1, <1>2, Names
  DEF QueueInv, EndingInv, LockInv, ThreadInv, ChosenInv, NoIdleThreadWhileWorkWaits, Distinct
<1> QED
  BY <1>3, <1>4, <1>5 DEF Inv, PoolSide

-----------------------------------------------------------------------------
(* Work that stays, moves or leaves.                                       *)

LEMMA PlaceTypes ==
  \A k, o : \A x \in Work : At(x, k, o) => k \in Kinds /\ o \in Places
BY Names DEF At, Kinds, Places

LEMMA Stays ==
  ASSUME NEW x \in Work, OnePlace(x),
         \A k \in Kinds, o \in Places :
           /\ At(x, k, o)' <=> At(x, k, o)
           /\ At(x, k, o) => (Ending(x, k, o)' <=> Ending(x, k, o)),
         workNotFinished'[x] = workNotFinished[x],
         x \in Tasks => /\ doneEvent'[x] = doneEvent[x] /\ queuedPool'[x] = queuedPool[x]
                        /\ (opc'[x] = "workSync" <=> opc[x] = "workSync")
  PROVE  OnePlace(x)'
BY DEF OnePlace

LEMMA Moves ==
  ASSUME NEW x \in Work, NEW k \in Kinds, NEW o \in Places,
         \A j \in Kinds, p \in Places : At(x, j, p)' <=> (j = k /\ p = o),
         (workNotFinished'[x] = 1 <=> ~Ending(x, k, o)'),
         x \in Tasks => ~doneEvent'[x] /\ (queuedPool'[x] \/ opc'[x] = "workSync")
  PROVE  OnePlace(x)'
BY DEF OnePlace

LEMMA Leaves ==
  ASSUME NEW x \in Work, \A k \in Kinds, o \in Places : ~At(x, k, o)',
         workNotFinished'[x] # 1
  PROVE  OnePlace(x)'
BY DEF OnePlace

\* Where work is when it is known to be at one place.
LEMMA Only ==
  ASSUME Inv, NEW x \in Work, NEW k, NEW o, At(x, k, o)
  PROVE  /\ \A j \in Kinds, p \in Places : At(x, j, p) <=> (j = k /\ p = o)
         /\ k \in Kinds /\ o \in Places
         /\ workNotFinished[x] = 1 <=> ~Ending(x, k, o)
         /\ workNotFinished[x] = 0 <=> Ending(x, k, o)
         /\ x \in Tasks => ~doneEvent[x] /\ (queuedPool[x] \/ opc[x] = "workSync")
<1>1. k \in Kinds /\ o \in Places
  BY PlaceTypes
<1>2. OnePlace(x)
  BY DEF Inv, PlaceInv
<1>3. \A j \in Kinds, p \in Places : At(x, j, p) <=> (j = k /\ p = o)
  BY <1>1, <1>2 DEF OnePlace
<1>4. workNotFinished[x] \in {0, 1}
  BY DEF Inv, TypeOK
<1> QED
  BY <1>1, <1>2, <1>3, <1>4 DEF OnePlace

\* A task that is idle, and not used by its owner, is nowhere.
LEMMA Nowhere ==
  ASSUME Inv, NEW x \in Work, workNotFinished[x] = 0,
         x \in Tasks => ~queuedPool[x] /\ opc[x] = "idle"
  PROVE  \A k \in Kinds, o \in Places : ~At(x, k, o)
<1> SUFFICES ASSUME NEW k \in Kinds, NEW o \in Places, At(x, k, o) PROVE FALSE
  OBVIOUS
<1>1. Ending(x, k, o) /\ (x \in Tasks => queuedPool[x] \/ opc[x] = "workSync")
  BY Only
<1>2. x \notin Tasks
  BY <1>1
<1> QED
  BY <1>1, <1>2 DEF Inv, PoolSide, EndingInv, At, Ending

-----------------------------------------------------------------------------
(* What owners do on their own.                                            *)

LEMMA PoolUnchanged == PoolSide /\ UNCHANGED poolVars => PoolSide'
BY DEF PoolSide, poolVars, queueVars, threadVars, addVars, QueueInv, EndingInv, LockInv,
       ThreadInv, ChosenInv, NoIdleThreadWhileWorkWaits, Distinct, InPool, Contains

LEMMA PoolTypeUnchanged == PoolTypeOK /\ UNCHANGED poolVars => PoolTypeOK'
BY DEF PoolTypeOK, poolVars, queueVars, threadVars, addVars

LEMMA OthersStay ==
  ASSUME Inv, NEW x \in Work, UNCHANGED poolVars,
         \A y \in Work : y # x =>
           /\ workNotFinished'[y] = workNotFinished[y]
           /\ y \in Tasks => /\ doneEvent'[y] = doneEvent[y] /\ queuedPool'[y] = queuedPool[y]
                             /\ opc'[y] = opc[y],
         OnePlace(x)'
  PROVE  PlaceInv'
<1> SUFFICES ASSUME NEW y \in Work, y # x PROVE OnePlace(y)'
  BY DEF PlaceInv
<1>1. \A k \in Kinds, o \in Places :
        /\ At(y, k, o)' <=> At(y, k, o)
        /\ At(y, k, o) => (Ending(y, k, o)' <=> Ending(y, k, o))
  BY DEF At, Ending, poolVars, queueVars, threadVars, addVars, Contains
<1> QED
  BY <1>1, Stays DEF Inv, PlaceInv

LEMMA OwnPlace ==
  ASSUME Inv, NEW x \in Tasks, opc[x] \in Busy
  PROVE  /\ x \in Work /\ At(x, "owner", x) /\ "owner" \in Kinds /\ x \in Places
         /\ \A j \in Kinds, p \in Places : At(x, j, p) <=> (j = "owner" /\ p = x)
         /\ workNotFinished[x] = 0 <=> opc[x] \in {"abandonFinish", "finishHere"}
         /\ workNotFinished[x] \in 0 .. 1
         /\ ~doneEvent[x] /\ (queuedPool[x] \/ opc[x] = "workSync")
<1>1. x \in Work /\ At(x, "owner", x)
  BY Names DEF At
<1> QED
  BY <1>1, Only DEF Ending, Inv, TypeOK

\* The work is done, or what remains of it; nobody else has it.
LEMMA OwnWorkInv ==
  ASSUME Inv, NEW x \in Tasks, DoWork(x) \/ FinishOwnWork(x) \/ CancelRetracted(x)
  PROVE  Inv'
<1>0. opc[x] \in Busy /\ UNCHANGED poolVars
  BY DEF DoWork, FinishOwnWork, CancelRetracted, Busy
<1>1. /\ x \in Work /\ "owner" \in Kinds /\ x \in Places
      /\ \A j \in Kinds, p \in Places : At(x, j, p) <=> (j = "owner" /\ p = x)
      /\ workNotFinished[x] = 0 <=> opc[x] \in {"abandonFinish", "finishHere"}
      /\ workNotFinished[x] \in 0 .. 1
      /\ ~doneEvent[x] /\ (queuedPool[x] \/ opc[x] = "workSync")
  BY <1>0, OwnPlace
<1>2. /\ \A y \in Work : y # x => workNotFinished'[y] = workNotFinished[y]
      /\ \A y \in Tasks : y # x => /\ doneEvent'[y] = doneEvent[y]
                                   /\ queuedPool'[y] = queuedPool[y] /\ opc'[y] = opc[y]
      /\ workNotFinished'[x] = 0
  BY <1>1 DEF DoWork, FinishOwnWork, CancelRetracted, Finish, OwnerGoto, Inv, TypeOK
<1>3. OnePlace(x)'
  <2>1. CASE opc'[x] = "idle"
    <3>1. \A j \in Kinds, p \in Places : ~At(x, j, p)'
      BY <1>0, <1>1, <2>1
      DEF At, Busy, poolVars, queueVars, threadVars, addVars, Contains
    <3> QED
      BY <1>1, <1>2, <3>1, Leaves
  <2>2. CASE opc'[x] \in {"abandonFinish", "finishHere"} /\ UNCHANGED <<doneEvent, queuedPool>>
             /\ opc[x] # "workSync"
    <3>1. \A j \in Kinds, p \in Places : At(x, j, p)' <=> (j = "owner" /\ p = x)
      BY <1>0, <1>1, <2>2
      DEF At, Busy, poolVars, queueVars, threadVars, addVars, Contains
    <3>2. Ending(x, "owner", x)'
      BY <2>2 DEF Ending
    <3> QED
      BY <1>1, <1>2, <2>2, <3>1, <3>2, Moves
  <2>3. opc \in [Tasks -> OwnerPC]
    BY DEF Inv, TypeOK
  <2> QED
    BY <2>1, <2>2, <2>3 DEF DoWork, FinishOwnWork, CancelRetracted, OwnerGoto
<1>4. /\ workNotFinished' \in [Work -> 0 .. 1] /\ doneEvent' \in [Tasks -> BOOLEAN]
      /\ queuedPool' \in [Tasks -> BOOLEAN] /\ opc' \in [Tasks -> OwnerPC]
  <2>1. workNotFinished' \in [Work -> 0 .. 1]
    BY <1>1, <1>2 DEF DoWork, FinishOwnWork, CancelRetracted, Finish, Inv, TypeOK
  <2>2. /\ doneEvent' \in [Tasks -> BOOLEAN] /\ queuedPool' \in [Tasks -> BOOLEAN]
        /\ opc' \in [Tasks -> OwnerPC]
    BY DEF DoWork, FinishOwnWork, CancelRetracted, OwnerGoto, OwnerPC, Inv, TypeOK
  <2> QED
    BY <2>1, <2>2
<1>5. TypeOK'
  BY <1>0, <1>4, PoolTypeUnchanged DEF Inv, TypeOK
<1> QED
  BY <1>0, <1>1, <1>2, <1>3, <1>5, OthersStay, PoolUnchanged DEF Inv

\* The event says that the work is done and that nobody will trigger it again.
LEMMA SynchronizedInv ==
  ASSUME Inv, NEW x \in Tasks, SyncCompletion(x) \/ WaitCompletionWithTimeout(x)
  PROVE  Inv'
<1>0. /\ UNCHANGED poolVars /\ UNCHANGED <<workNotFinished, doneEvent>>
      /\ doneEvent[x] /\ opc[x] \notin Busy /\ opc'[x] \notin Busy /\ x \in Work
      /\ opc' = [opc EXCEPT ![x] = "idle"]
      /\ queuedPool' = [queuedPool EXCEPT ![x] = FALSE]
  BY Names
  DEF SyncCompletion, WaitCompletionWithTimeout, Busy, Free, OwnerGoto, Inv, TypeOK
<1>1. OnePlace(x)
  BY <1>0 DEF Inv, PlaceInv
<1>2. \A j \in Kinds, p \in Places : ~At(x, j, p)
  BY <1>0, <1>1 DEF OnePlace
<1>3. \A j \in Kinds, p \in Places : ~At(x, j, p)'
  BY <1>0, <1>2 DEF At, poolVars, queueVars, threadVars, addVars, Contains
<1>4. workNotFinished'[x] # 1
  BY <1>0, <1>1, <1>2 DEF OnePlace
<1>5. OnePlace(x)'
  BY <1>0, <1>3, <1>4, Leaves
<1>6. \A y \in Tasks : y # x => queuedPool'[y] = queuedPool[y] /\ opc'[y] = opc[y]
  BY <1>0 DEF Inv, TypeOK
<1>7. PlaceInv'
  BY <1>0, <1>5, <1>6, OthersStay
<1>8. TypeOK'
  BY <1>0, PoolTypeUnchanged DEF Inv, TypeOK, OwnerPC
<1> QED
  BY <1>0, <1>7, <1>8, PoolUnchanged DEF Inv

\* The owner only looks; it has not the work and does not get it yet.
LEMMA LooksInv ==
  ASSUME Inv, NEW x \in Tasks, EnsureCompletion(x) \/ Cancel(x) \/ IsDone(x)
  PROVE  Inv'
<1>0. /\ UNCHANGED poolVars /\ UNCHANGED <<workNotFinished, doneEvent, queuedPool>>
      /\ opc[x] = "idle" /\ x \in Work
      /\ \E l \in {"retract", "retractToCancel", "sync"} : opc' = [opc EXCEPT ![x] = l]
  BY Names DEF EnsureCompletion, Cancel, IsDone, Free, OwnerGoto
<1>1. \A y \in Tasks : y # x => opc'[y] = opc[y]
  BY <1>0 DEF Inv, TypeOK
<1>2. opc'[x] \in {"retract", "retractToCancel", "sync"}
  BY <1>0 DEF Inv, TypeOK
<1>3. \A j \in Kinds, p \in Places :
        /\ At(x, j, p)' <=> At(x, j, p)
        /\ At(x, j, p) => (Ending(x, j, p)' <=> Ending(x, j, p))
  BY <1>0, <1>2 DEF At, Ending, Busy, poolVars, queueVars, threadVars, addVars, Contains
<1>4. OnePlace(x)'
  BY <1>0, <1>2, <1>3, Stays DEF Inv, PlaceInv
<1>5. PlaceInv'
  BY <1>0, <1>1, <1>4, OthersStay
<1>6. TypeOK'
  BY <1>0, PoolTypeUnchanged DEF Inv, TypeOK, OwnerPC
<1> QED
  BY <1>0, <1>5, <1>6, PoolUnchanged DEF Inv

\* A task that is started without a pool, or while the pool dies.
LEMMA StartHereInv ==
  ASSUME Inv, NEW x \in Tasks, UNCHANGED poolVars, Free(x), Idle(x),
         workNotFinished' = [workNotFinished EXCEPT ![x] = 1],
         doneEvent' = [doneEvent EXCEPT ![x] = FALSE],
         \/ opc' = [opc EXCEPT ![x] = "workSync"] /\ UNCHANGED queuedPool
         \/ /\ opc' = [opc EXCEPT ![x] = "abandon"]
            /\ queuedPool' = [queuedPool EXCEPT ![x] = TRUE]
  PROVE  Inv'
<1>0. x \in Work /\ workNotFinished[x] = 0 /\ ~queuedPool[x] /\ opc[x] = "idle"
  BY Names DEF Free, Idle
<1>1. \A j \in Kinds, p \in Places : ~At(x, j, p)
  BY <1>0, Nowhere
<1>2. /\ workNotFinished'[x] = 1 /\ ~doneEvent'[x] /\ opc'[x] \in {"workSync", "abandon"}
      /\ queuedPool'[x] \/ opc'[x] = "workSync"
      /\ \A y \in Work : y # x => workNotFinished'[y] = workNotFinished[y]
      /\ \A y \in Tasks : y # x => /\ doneEvent'[y] = doneEvent[y]
                                   /\ queuedPool'[y] = queuedPool[y] /\ opc'[y] = opc[y]
  BY <1>0 DEF Inv, TypeOK
<1>3. "owner" \in Kinds /\ x \in Places
  BY <1>0 DEF Kinds, Places
<1>4. \A j \in Kinds, p \in Places : At(x, j, p)' <=> (j = "owner" /\ p = x)
  BY <1>0, <1>1, <1>2 DEF At, Busy, poolVars, queueVars, threadVars, addVars, Contains
<1>5. ~Ending(x, "owner", x)'
  BY <1>2 DEF Ending
<1>6. OnePlace(x)'
  BY <1>0, <1>2, <1>3, <1>4, <1>5, Moves
<1>7. PlaceInv'
  BY <1>0, <1>2, <1>6, OthersStay
<1>8. TypeOK'
  <2>1. workNotFinished' \in [Work -> 0 .. 1]
    BY <1>0 DEF Inv, TypeOK
  <2>2. /\ doneEvent' \in [Tasks -> BOOLEAN] /\ queuedPool' \in [Tasks -> BOOLEAN]
        /\ opc' \in [Tasks -> OwnerPC]
    BY DEF Inv, TypeOK, OwnerPC
  <2> QED
    BY <2>1, <2>2, PoolTypeUnchanged DEF Inv, TypeOK
<1> QED
  BY <1>7, <1>8, PoolUnchanged DEF Inv

-----------------------------------------------------------------------------
(* Adding work.                                                            *)

LEMMA Kept ==
  ASSUME Inv, UNCHANGED taskVars, NEW y \in Work,
         \A k \in Kinds, o \in Places :
           /\ At(y, k, o)' <=> At(y, k, o)
           /\ At(y, k, o) => (Ending(y, k, o)' <=> Ending(y, k, o))
  PROVE  OnePlace(y)'
BY Stays DEF Inv, PlaceInv, taskVars

LEMMA PassedOn ==
  ASSUME Inv, UNCHANGED taskVars, NEW y \in Work, NEW j, NEW p, At(y, j, p),
         NEW k \in Kinds, NEW o \in Places, Ending(y, k, o)' <=> Ending(y, j, p),
         \A i \in Kinds, q \in Places : At(y, i, q)' <=> (i = k /\ q = o)
  PROVE  OnePlace(y)'
<1>1. /\ workNotFinished[y] = 1 <=> ~Ending(y, j, p)
      /\ y \in Tasks => ~doneEvent[y] /\ (queuedPool[y] \/ opc[y] = "workSync")
  BY Only
<1> QED
  BY <1>1, Moves DEF taskVars

LEMMA LockFree ==
  ASSUME Inv, synchQueue = "free"
  PROVE  /\ dpc \in {"none", "waitAll", "kill"}
         /\ \A w \in PoolThreads : ~threadTimeToDie[w]
BY DEF Inv, PoolSide, LockInv, ThreadInv, TypeOK, PoolTypeOK

\* Work that was nowhere is now at the thread that adds it.
LEMMA PassTimeToDieInv ==
  ASSUME Inv, NEW c \in Adders, NEW x \in Work, PassTimeToDie(c, x),
         workNotFinished[x] = 0, workNotFinished' = [workNotFinished EXCEPT ![x] = 1],
         \/ x \notin Tasks /\ UNCHANGED <<doneEvent, queuedPool>>
         \/ /\ x \in Tasks /\ ~queuedPool[x] /\ opc[x] = "idle"
            /\ doneEvent' = [doneEvent EXCEPT ![x] = FALSE]
            /\ queuedPool' = [queuedPool EXCEPT ![x] = TRUE],
         UNCHANGED opc
  PROVE  Inv'
<1>0. /\ apc[c] = "none" /\ apc' = [apc EXCEPT ![c] = "lock"]
      /\ adding' = [adding EXCEPT ![c] = x]
      /\ UNCHANGED <<timeToDie, queuedWork, queuedThreads, synchQueue>>
      /\ UNCHANGED <<threadWork, doWorkEvent, threadTimeToDie, tpc, job, chosen, dpc>>
  BY DEF PassTimeToDie, queueVars, threadVars
<1>1. \A k \in Kinds, o \in Places : ~At(x, k, o)
  BY Nowhere
<1>2. adding[c] = NoWork /\ chosen[c] = NoThread
  BY <1>0 DEF Inv, PoolSide, ChosenInv
<1>3. /\ adding'[c] = x /\ \A d \in Adders : d # c => adding'[d] = adding[d]
      /\ apc'[c] = "lock" /\ \A d \in Adders : d # c => apc'[d] = apc[d]
      /\ workNotFinished'[x] = 1
      /\ \A y \in Work : y # x => workNotFinished'[y] = workNotFinished[y]
      /\ x \in Tasks => ~doneEvent'[x] /\ queuedPool'[x]
      /\ \A y \in Tasks : y # x => doneEvent'[y] = doneEvent[y] /\ queuedPool'[y] = queuedPool[y]
  BY <1>0 DEF Inv, TypeOK, PoolTypeOK
<1>4. TypeOK'
  <2>1. PoolTypeOK'
    BY <1>0 DEF Inv, TypeOK, PoolTypeOK
  <2>2. workNotFinished' \in [Work -> 0 .. 1]
    BY DEF Inv, TypeOK
  <2>3. doneEvent' \in [Tasks -> BOOLEAN] /\ queuedPool' \in [Tasks -> BOOLEAN]
    BY DEF Inv, TypeOK
  <2> QED
    BY <2>1, <2>2, <2>3 DEF Inv, TypeOK
<1>5. PlaceInv'
  <2> SUFFICES ASSUME NEW y \in Work PROVE OnePlace(y)'
    BY DEF PlaceInv
  <2>1. CASE y = x
    <3>1. "adder" \in Kinds /\ c \in Places
      BY DEF Kinds, Places
    <3>2. \A k \in Kinds, o \in Places : At(x, k, o)' <=> (k = "adder" /\ o = c)
      BY <1>0, <1>1, <1>3 DEF At
    <3>3. ~Ending(x, "adder", c)'
      BY DEF Ending
    <3> QED
      BY <1>3, <2>1, <3>1, <3>2, <3>3, Moves
  <2>2. CASE y # x
    <3>1. \A k \in Kinds, o \in Places :
            /\ At(y, k, o)' <=> At(y, k, o)
            /\ At(y, k, o) => (Ending(y, k, o)' <=> Ending(y, k, o))
      BY <1>0, <1>2, <1>3, <2>2, Names DEF At, Ending
    <3> QED
      BY <1>3, <2>2, <3>1, Stays DEF Inv, PlaceInv
  <2> QED
    BY <2>1, <2>2
<1>6. PoolSide'
  <2>1. ChosenInv'
    BY <1>0, <1>2, <1>3, Names DEF Inv, PoolSide, ChosenInv, InPool
  <2> QED
    BY <1>0, <2>1
    DEF Inv, PoolSide, QueueInv, EndingInv, LockInv, ThreadInv, NoIdleThreadWhileWorkWaits,
        InPool
<1> QED
  BY <1>4, <1>5, <1>6 DEF Inv

LEMMA AddUnderLockInv ==
  ASSUME Inv, NEW c \in Adders, AddUnderLock(c), UNCHANGED taskVars PROVE Inv'
<1>0. /\ apc[c] = "lock" /\ synchQueue = "free" /\ dpc # "abandonFinish"
      /\ UNCHANGED <<timeToDie, synchQueue, threadWork, doWorkEvent, threadTimeToDie, tpc, job>>
      /\ UNCHANGED <<dpc, workNotFinished, doneEvent, queuedPool, opc>>
  BY LockFree DEF AddUnderLock, threadVars, taskVars
<1>1. PICK x \in Work : x = adding[c]
  BY <1>0 DEF Inv, PoolSide, ChosenInv, TypeOK, PoolTypeOK
<1>2. At(x, "adder", c) /\ chosen[c] = NoThread
  BY <1>0, <1>1 DEF At, Inv, PoolSide, ChosenInv
<1>3. /\ \A j \in Kinds, p \in Places : At(x, j, p) <=> (j = "adder" /\ p = c)
      /\ "queue" \in Kinds /\ x \in Places
  BY <1>2, Only DEF Kinds, Places
<1>4. queuedWork \in Seq(Work) /\ queuedThreads \in Seq(PoolThreads)
  BY DEF Inv, TypeOK, PoolTypeOK
<1>5. CASE /\ queuedThreads = << >>
           /\ queuedWork' = Append(queuedWork, adding[c])
           /\ apc' = [apc EXCEPT ![c] = "none"]
           /\ adding' = [adding EXCEPT ![c] = NoWork]
           /\ UNCHANGED <<queuedThreads, chosen>>
  <2>1. ~Contains(queuedWork, x)
    BY <1>3 DEF At
  <2>2. /\ queuedWork' \in Seq(Work) /\ Distinct(queuedWork')
        /\ \A y : Contains(queuedWork', y) <=> Contains(queuedWork, y) \/ y = x
    BY <1>1, <1>4, <1>5, <2>1, Appending DEF Inv, PoolSide, QueueInv
  <2>3. /\ adding'[c] = NoWork /\ \A d \in Adders : d # c => adding'[d] = adding[d]
        /\ apc'[c] = "none" /\ \A d \in Adders : d # c => apc'[d] = apc[d]
    BY <1>5 DEF Inv, TypeOK, PoolTypeOK
  <2>4. TypeOK'
    BY <1>0, <1>5, <2>2 DEF Inv, TypeOK, PoolTypeOK
  <2>5. PlaceInv'
    <3> SUFFICES ASSUME NEW y \in Work PROVE OnePlace(y)'
      BY DEF PlaceInv
    <3>1. CASE y = x
      <4>1. \A k \in Kinds, o \in Places : At(x, k, o)' <=> (k = "queue" /\ o = x)
        BY <1>0, <1>1, <1>3, <2>2, <2>3, Names DEF At
      <4>2. ~Ending(x, "queue", x)' /\ ~Ending(x, "adder", c)
        BY <1>0 DEF Ending
      <4> QED
        BY <1>2, <1>3, <3>1, <4>1, <4>2, PassedOn
    <3>2. CASE y # x
      <4>1. \A k \in Kinds, o \in Places :
              /\ At(y, k, o)' <=> At(y, k, o)
              /\ At(y, k, o) => (Ending(y, k, o)' <=> Ending(y, k, o))
        BY <1>0, <1>1, <2>2, <2>3, <3>2, Names DEF At, Ending
      <4> QED
        BY <4>1, Kept
    <3> QED
      BY <3>1, <3>2
  <2>6. ChosenInv'
    BY <1>0, <1>2, <1>5, <2>3 DEF Inv, PoolSide, ChosenInv, InPool
  <2>7. QueueInv' /\ NoIdleThreadWhileWorkWaits'
    BY <1>5, <2>2 DEF Inv, PoolSide, QueueInv, NoIdleThreadWhileWorkWaits
  <2>8. EndingInv' /\ LockInv' /\ ThreadInv'
    BY <1>0, <1>5 DEF Inv, PoolSide, EndingInv, LockInv, ThreadInv, InPool
  <2> QED
    BY <2>4, <2>5, <2>6, <2>7, <2>8 DEF Inv, PoolSide
<1>6. CASE /\ queuedThreads # << >>
           /\ chosen' = [chosen EXCEPT ![c] = Last(queuedThreads)]
           /\ queuedThreads' = Front(queuedThreads)
           /\ apc' = [apc EXCEPT ![c] = "give"]
           /\ UNCHANGED <<queuedWork, adding>>
  <2>1. PICK w \in PoolThreads : w = Last(queuedThreads)
    BY <1>4, <1>6, TakingLast DEF Inv, PoolSide, QueueInv
  <2>2. /\ InPool(w) /\ queuedThreads' \in Seq(PoolThreads) /\ Distinct(queuedThreads')
        /\ \A v : InPool(v)' <=> InPool(v) /\ v # w
    BY <1>4, <1>6, <2>1, TakingLast DEF Inv, PoolSide, QueueInv, InPool
  <2>3. /\ chosen'[c] = w /\ \A d \in Adders : d # c => chosen'[d] = chosen[d]
        /\ apc'[c] = "give" /\ \A d \in Adders : d # c => apc'[d] = apc[d]
    BY <1>6, <2>1 DEF Inv, TypeOK, PoolTypeOK
  <2>4. /\ tpc[w] \in {"top", "wait"} /\ ~doWorkEvent[w] /\ threadWork[w] = NoWork
        /\ \A d \in Adders : chosen[d] # w
    BY <1>0, <2>2, LockFree, Names DEF Inv, PoolSide, ThreadInv, ChosenInv
  <2>5. TypeOK'
    BY <1>0, <1>6, <2>1, <2>2 DEF Inv, TypeOK, PoolTypeOK
  <2>6. PlaceInv'
    <3>1. ASSUME NEW y \in Work, NEW k \in Kinds, NEW o \in Places
          PROVE  (At(y, k, o)' <=> At(y, k, o)) /\ (Ending(y, k, o)' <=> Ending(y, k, o))
      BY <1>0, <1>6 DEF At, Ending
    <3> QED
      BY <3>1, Kept DEF PlaceInv
  <2>7. ChosenInv'
    BY <1>0, <1>6, <2>2, <2>3, <2>4, Names DEF Inv, PoolSide, ChosenInv
  <2>8. ThreadInv'
    BY <1>0, <2>2 DEF Inv, PoolSide, ThreadInv
  <2>9. QueueInv' /\ NoIdleThreadWhileWorkWaits'
    BY <1>0, <1>6, <2>2 DEF Inv, PoolSide, QueueInv, NoIdleThreadWhileWorkWaits
  <2>10. EndingInv' /\ LockInv'
    BY <1>0, <1>6 DEF Inv, PoolSide, EndingInv, LockInv
  <2> QED
    BY <2>5, <2>6, <2>7, <2>8, <2>9, <2>10 DEF Inv, PoolSide
<1> QED
  BY <1>5, <1>6 DEF AddUnderLock

LEMMA GiveWorkInv ==
  ASSUME Inv, NEW c \in Adders, GiveWork(c), UNCHANGED taskVars PROVE Inv'
<1>0. /\ apc[c] = "give" /\ apc' = [apc EXCEPT ![c] = "trigger"]
      /\ threadWork' = [threadWork EXCEPT ![chosen[c]] = adding[c]]
      /\ adding' = [adding EXCEPT ![c] = NoWork]
      /\ UNCHANGED <<timeToDie, queuedWork, queuedThreads, synchQueue>>
      /\ UNCHANGED <<doWorkEvent, threadTimeToDie, tpc, job, chosen, dpc>>
      /\ UNCHANGED <<workNotFinished, doneEvent, queuedPool, opc>>
  BY DEF GiveWork, queueVars, taskVars
<1>1. PICK x \in Work, w \in PoolThreads : x = adding[c] /\ w = chosen[c]
  BY <1>0 DEF Inv, PoolSide, ChosenInv, TypeOK, PoolTypeOK
<1>2. /\ threadWork[w] = NoWork /\ ~InPool(w) /\ x # NoWork /\ w # NoThread
      /\ tpc[w] \in {"top", "wait", "take", "exited"}
      /\ \A d \in Adders : d # c => chosen[d] # w
      /\ ~threadTimeToDie[w] => tpc[w] \in {"top", "wait"} /\ ~doWorkEvent[w]
  BY <1>0, <1>1, Names DEF Inv, PoolSide, ChosenInv
<1>3. /\ \A j \in Kinds, p \in Places : At(x, j, p) <=> (j = "adder" /\ p = c)
      /\ At(x, "adder", c) /\ "handed" \in Kinds /\ w \in Places
  <2>1. At(x, "adder", c)
    BY <1>1 DEF At
  <2> QED
    BY <2>1, Only, Names DEF Kinds, Places
<1>4. /\ adding'[c] = NoWork /\ \A d \in Adders : d # c => adding'[d] = adding[d]
      /\ apc'[c] = "trigger" /\ \A d \in Adders : d # c => apc'[d] = apc[d]
      /\ threadWork'[w] = x /\ \A v \in PoolThreads : v # w => threadWork'[v] = threadWork[v]
  BY <1>0, <1>1 DEF Inv, TypeOK, PoolTypeOK
<1>5. TypeOK'
  BY <1>0, <1>1 DEF Inv, TypeOK, PoolTypeOK
<1>6. PlaceInv'
  <2> SUFFICES ASSUME NEW y \in Work PROVE OnePlace(y)'
    BY DEF PlaceInv
  <2>1. CASE y = x
    <3>1. \A k \in Kinds, o \in Places : At(x, k, o)' <=> (k = "handed" /\ o = w)
      BY <1>0, <1>3, <1>4, Names DEF At
    <3>2. ~Ending(x, "handed", w)' /\ ~Ending(x, "adder", c)
      BY DEF Ending
    <3> QED
      BY <1>3, <2>1, <3>1, <3>2, PassedOn
  <2>2. CASE y # x
    <3>1. \A k \in Kinds, o \in Places :
            /\ At(y, k, o)' <=> At(y, k, o)
            /\ At(y, k, o) => (Ending(y, k, o)' <=> Ending(y, k, o))
      BY <1>0, <1>1, <1>2, <1>4, <2>2, Names DEF At, Ending
    <3> QED
      BY <3>1, Kept
  <2> QED
    BY <2>1, <2>2
<1>7. ThreadInv'
  BY <1>0, <1>2, <1>4 DEF Inv, PoolSide, ThreadInv, InPool
<1>8. ChosenInv'
  BY <1>0, <1>1, <1>2, <1>4, Names DEF Inv, PoolSide, ChosenInv, InPool, TypeOK, PoolTypeOK
<1>9. QueueInv' /\ NoIdleThreadWhileWorkWaits' /\ EndingInv' /\ LockInv'
  BY <1>0 DEF Inv, PoolSide, QueueInv, NoIdleThreadWhileWorkWaits, EndingInv, LockInv
<1> QED
  BY <1>5, <1>6, <1>7, <1>8, <1>9 DEF Inv, PoolSide

LEMMA TriggerThreadInv ==
  ASSUME Inv, NEW c \in Adders, TriggerThread(c), UNCHANGED taskVars PROVE Inv'
<1>0. /\ apc[c] = "trigger" /\ apc' = [apc EXCEPT ![c] = "none"]
      /\ doWorkEvent' = [doWorkEvent EXCEPT ![chosen[c]] = TRUE]
      /\ chosen' = [chosen EXCEPT ![c] = NoThread]
      /\ UNCHANGED <<timeToDie, queuedWork, queuedThreads, synchQueue>>
      /\ UNCHANGED <<threadWork, threadTimeToDie, tpc, job, adding, dpc>>
      /\ UNCHANGED <<workNotFinished, doneEvent, queuedPool, opc>>
  BY DEF TriggerThread, queueVars, taskVars
<1>1. PICK w \in PoolThreads : w = chosen[c]
  BY <1>0 DEF Inv, PoolSide, ChosenInv, TypeOK, PoolTypeOK
<1>2. /\ ~InPool(w) /\ w # NoThread
      /\ \A d \in Adders : d # c => chosen[d] # w
      /\ ~threadTimeToDie[w] => threadWork[w] # NoWork /\ tpc[w] \in {"top", "wait"}
  BY <1>0, <1>1, Names DEF Inv, PoolSide, ChosenInv
<1>3. /\ chosen'[c] = NoThread /\ \A d \in Adders : d # c => chosen'[d] = chosen[d]
      /\ apc'[c] = "none" /\ \A d \in Adders : d # c => apc'[d] = apc[d]
      /\ doWorkEvent'[w] = TRUE
      /\ \A v \in PoolThreads : v # w => doWorkEvent'[v] = doWorkEvent[v]
  BY <1>0, <1>1 DEF Inv, TypeOK, PoolTypeOK
<1>4. TypeOK'
  BY <1>0, <1>1 DEF Inv, TypeOK, PoolTypeOK
<1>5. PlaceInv'
  <2>1. ASSUME NEW y \in Work, NEW k \in Kinds, NEW o \in Places
        PROVE  (At(y, k, o)' <=> At(y, k, o)) /\ (Ending(y, k, o)' <=> Ending(y, k, o))
    BY <1>0 DEF At, Ending
  <2> QED
    BY <2>1, Kept DEF PlaceInv
<1>6. ThreadInv'
  BY <1>0, <1>2, <1>3 DEF Inv, PoolSide, ThreadInv, InPool
<1>7. ChosenInv'
  BY <1>0, <1>1, <1>2, <1>3, Names DEF Inv, PoolSide, ChosenInv, InPool, TypeOK, PoolTypeOK
<1>8. QueueInv' /\ NoIdleThreadWhileWorkWaits' /\ EndingInv' /\ LockInv'
  BY <1>0 DEF Inv, PoolSide, QueueInv, NoIdleThreadWhileWorkWaits, EndingInv, LockInv
<1> QED
  BY <1>4, <1>5, <1>6, <1>7, <1>8 DEF Inv, PoolSide

-----------------------------------------------------------------------------
(* What the threads of the pool do.                                        *)

LEMMA WakeInv ==
  ASSUME Inv, NEW w \in PoolThreads, TestTimeToDie(w) \/ WaitForWork(w), UNCHANGED taskVars
  PROVE  Inv'
<1>0. /\ UNCHANGED <<timeToDie, queuedWork, queuedThreads, synchQueue>>
      /\ UNCHANGED <<threadWork, threadTimeToDie, job, apc, adding, chosen, dpc>>
      /\ UNCHANGED <<workNotFinished, doneEvent, queuedPool, opc>>
      /\ \A v \in PoolThreads : v # w => tpc'[v] = tpc[v] /\ doWorkEvent'[v] = doWorkEvent[v]
      /\ \/ /\ tpc[w] = "top" /\ tpc'[w] = IF threadTimeToDie[w] THEN "exited" ELSE "wait"
            /\ doWorkEvent'[w] = doWorkEvent[w]
         \/ /\ tpc[w] = "wait" /\ doWorkEvent[w] /\ tpc'[w] = "take"
            /\ doWorkEvent'[w] = FALSE
  BY DEF TestTimeToDie, WaitForWork, ThreadGoto, queueVars, addVars, taskVars,
         Inv, TypeOK, PoolTypeOK
<1>1. TypeOK'
  BY DEF TestTimeToDie, WaitForWork, ThreadGoto, queueVars, addVars, taskVars,
         Inv, TypeOK, PoolTypeOK
<1>2. PlaceInv'
  <2>1. ASSUME NEW y \in Work, NEW k \in Kinds, NEW o \in Places
        PROVE  /\ At(y, k, o)' <=> At(y, k, o)
               /\ At(y, k, o) => (Ending(y, k, o)' <=> Ending(y, k, o))
    BY <1>0 DEF At, Ending
  <2> QED
    BY <2>1, Kept DEF PlaceInv
<1>3. ThreadInv'
  BY <1>0 DEF Inv, PoolSide, ThreadInv, InPool
<1>4. ChosenInv'
  <2>1. \A d \in Adders : chosen[d] \in PoolThreads \cup {NoThread}
    BY DEF Inv, TypeOK, PoolTypeOK
  <2> QED
    BY <1>0, <2>1, Names DEF Inv, PoolSide, ChosenInv, InPool
<1>5. EndingInv'
  BY <1>0 DEF Inv, PoolSide, EndingInv
<1>6. QueueInv' /\ NoIdleThreadWhileWorkWaits' /\ LockInv'
  BY <1>0 DEF Inv, PoolSide, QueueInv, NoIdleThreadWhileWorkWaits, LockInv
<1> QED
  BY <1>1, <1>2, <1>3, <1>4, <1>5, <1>6 DEF Inv, PoolSide

LEMMA TakeWorkInv ==
  ASSUME Inv, NEW w \in PoolThreads, TakeWork(w), UNCHANGED taskVars PROVE Inv'
<1>0. /\ UNCHANGED <<timeToDie, queuedWork, queuedThreads, synchQueue>>
      /\ UNCHANGED <<doWorkEvent, threadTimeToDie, apc, adding, chosen, dpc>>
      /\ UNCHANGED <<workNotFinished, doneEvent, queuedPool, opc>>
      /\ \A v \in PoolThreads : v # w =>
           tpc'[v] = tpc[v] /\ threadWork'[v] = threadWork[v] /\ job'[v] = job[v]
      /\ tpc[w] = "take" /\ job'[w] = threadWork[w] /\ threadWork'[w] = NoWork
      /\ tpc'[w] = IF threadWork[w] = NoWork THEN "top" ELSE "work"
  BY DEF TakeWork, ThreadGoto, queueVars, addVars, taskVars, Inv, TypeOK, PoolTypeOK
<1>1. TypeOK'
  <2>1. threadWork[w] \in Work \cup {NoWork}
    BY DEF Inv, TypeOK, PoolTypeOK
  <2> QED
    BY <2>1 DEF TakeWork, ThreadGoto, queueVars, addVars, taskVars, Inv, TypeOK, PoolTypeOK
<1>2. PlaceInv'
  <2> SUFFICES ASSUME NEW y \in Work PROVE OnePlace(y)'
    BY DEF PlaceInv
  <2>1. CASE y = threadWork[w]
    <3>1. At(y, "handed", w) /\ tpc'[w] = "work"
      BY <1>0, <2>1, Names DEF At
    <3>2. /\ \A j \in Kinds, p \in Places : At(y, j, p) <=> (j = "handed" /\ p = w)
          /\ "job" \in Kinds /\ w \in Places
      BY <3>1, Only DEF Kinds, Places
    <3>3. \A k \in Kinds, o \in Places : At(y, k, o)' <=> (k = "job" /\ o = w)
      BY <1>0, <2>1, <3>1, <3>2, Names DEF At
    <3>4. ~Ending(y, "job", w)' /\ ~Ending(y, "handed", w)
      BY <3>1 DEF Ending
    <3> QED
      BY <3>1, <3>2, <3>3, <3>4, PassedOn
  <2>2. CASE y # threadWork[w]
    <3>1. \A k \in Kinds, o \in Places :
            /\ At(y, k, o)' <=> At(y, k, o)
            /\ At(y, k, o) => (Ending(y, k, o)' <=> Ending(y, k, o))
      BY <1>0, <2>2, Names DEF At, Ending
    <3> QED
      BY <3>1, Kept
  <2> QED
    BY <2>1, <2>2
<1>3. ThreadInv'
  BY <1>0 DEF Inv, PoolSide, ThreadInv, InPool
<1>4. ChosenInv'
  <2>1. \A d \in Adders : chosen[d] \in PoolThreads \cup {NoThread}
    BY DEF Inv, TypeOK, PoolTypeOK
  <2> QED
    BY <1>0, <2>1, Names DEF Inv, PoolSide, ChosenInv, InPool
<1>5. EndingInv'
  <2>1. threadWork[w] \in Work \cup {NoWork}
    BY DEF Inv, TypeOK, PoolTypeOK
  <2> QED
    BY <1>0, <2>1 DEF Inv, PoolSide, EndingInv
<1>6. QueueInv' /\ NoIdleThreadWhileWorkWaits' /\ LockInv'
  BY <1>0 DEF Inv, PoolSide, QueueInv, NoIdleThreadWhileWorkWaits, LockInv
<1> QED
  BY <1>1, <1>2, <1>3, <1>4, <1>5, <1>6 DEF Inv, PoolSide

LEMMA DoThreadedWorkInv ==
  ASSUME Inv, NEW w \in PoolThreads, DoThreadedWork(w) \/ FinishThreadedWork(w) PROVE Inv'
<1>0. /\ UNCHANGED <<timeToDie, queuedWork, queuedThreads, synchQueue>>
      /\ UNCHANGED <<threadWork, doWorkEvent, threadTimeToDie, job, apc, adding, chosen, dpc>>
      /\ UNCHANGED <<queuedPool, opc>>
      /\ tpc[w] \in {"work", "finish"}
      /\ \A v \in PoolThreads : v # w => tpc'[v] = tpc[v]
  BY DEF DoThreadedWork, FinishThreadedWork, ThreadGoto, queueVars, addVars,
         Inv, TypeOK, PoolTypeOK
<1>1. PICK x \in Work : x = job[w] /\ (tpc[w] = "finish" => x \in Tasks)
  BY <1>0, Names DEF Inv, PoolSide, EndingInv
<1>2. At(x, "job", w)
  BY <1>0, <1>1 DEF At
<1>3. /\ \A j \in Kinds, p \in Places : At(x, j, p) <=> (j = "job" /\ p = w)
      /\ "job" \in Kinds /\ w \in Places
      /\ workNotFinished[x] = 0 <=> Ending(x, "job", w)
      /\ workNotFinished[x] \in 0 .. 1
      /\ x \in Tasks => ~doneEvent[x] /\ (queuedPool[x] \/ opc[x] = "workSync")
  BY <1>2, Only DEF Inv, TypeOK
<1>4. /\ workNotFinished' \in [Work -> 0 .. 1] /\ workNotFinished'[x] = 0
      /\ \A y \in Work : y # x => workNotFinished'[y] = workNotFinished[y]
      /\ \A y \in Tasks : y # x => doneEvent'[y] = doneEvent[y]
  <2>1. CASE DoThreadedWork(w)
    <3>1. workNotFinished' = [workNotFinished EXCEPT ![x] = @ - 1] /\ UNCHANGED doneEvent
      BY <1>1, <2>1 DEF DoThreadedWork, Finish
    <3>2. workNotFinished[x] = 1
      BY <1>3, <2>1 DEF DoThreadedWork, Ending
    <3> QED
      BY <3>1, <3>2 DEF Inv, TypeOK
  <2>2. CASE FinishThreadedWork(w)
    <3>1. doneEvent' = [doneEvent EXCEPT ![x] = TRUE] /\ UNCHANGED workNotFinished
      BY <1>1, <2>2 DEF FinishThreadedWork
    <3>2. workNotFinished[x] = 0
      BY <1>3, <2>2 DEF FinishThreadedWork, Ending
    <3> QED
      BY <3>1, <3>2 DEF Inv, TypeOK
  <2> QED
    BY <2>1, <2>2
<1>5. \/ tpc'[w] = "return"
      \/ /\ tpc[w] = "work" /\ tpc'[w] = "finish" /\ x \in Tasks /\ UNCHANGED doneEvent
  BY <1>1, Names
  DEF DoThreadedWork, FinishThreadedWork, ThreadGoto, Inv, TypeOK, PoolTypeOK
<1>6. TypeOK'
  <2>1. PoolTypeOK'
    BY <1>0 DEF DoThreadedWork, FinishThreadedWork, ThreadGoto, Inv, TypeOK, PoolTypeOK
  <2>2. doneEvent' \in [Tasks -> BOOLEAN]
    BY DEF DoThreadedWork, FinishThreadedWork, Inv, TypeOK
  <2> QED
    BY <1>0, <1>4, <2>1, <2>2 DEF Inv, TypeOK
<1>7. PlaceInv'
  <2> SUFFICES ASSUME NEW y \in Work PROVE OnePlace(y)'
    BY DEF PlaceInv
  <2>1. CASE y = x /\ tpc'[w] = "return"
    <3>1. \A k \in Kinds, o \in Places : ~At(x, k, o)'
      BY <1>0, <1>1, <1>3, <2>1 DEF At
    <3> QED
      BY <1>4, <2>1, <3>1, Leaves
  <2>2. CASE y = x /\ tpc'[w] = "finish" /\ x \in Tasks /\ UNCHANGED doneEvent
    <3>1. \A k \in Kinds, o \in Places : At(x, k, o)' <=> (k = "job" /\ o = w)
      BY <1>0, <1>1, <1>3, <2>2 DEF At
    <3>2. Ending(x, "job", w)'
      BY <2>2 DEF Ending
    <3> QED
      BY <1>0, <1>3, <1>4, <2>2, <3>1, <3>2, Moves
  <2>3. CASE y # x
    <3>1. \A k \in Kinds, o \in Places :
            /\ At(y, k, o)' <=> At(y, k, o)
            /\ At(y, k, o) => (Ending(y, k, o)' <=> Ending(y, k, o))
      BY <1>0, <1>1, <2>3 DEF At, Ending
    <3> QED
      BY <1>0, <1>4, <2>3, <3>1, Stays DEF Inv, PlaceInv
  <2> QED
    BY <1>5, <2>1, <2>2, <2>3
<1>8. ThreadInv'
  BY <1>0, <1>5 DEF Inv, PoolSide, ThreadInv, InPool
<1>9. ChosenInv'
  <2>1. \A d \in Adders : chosen[d] \in PoolThreads \cup {NoThread}
    BY DEF Inv, TypeOK, PoolTypeOK
  <2> QED
    BY <1>0, <1>5, <2>1, Names DEF Inv, PoolSide, ChosenInv, InPool
<1>10. EndingInv'
  BY <1>0, <1>1, <1>5 DEF Inv, PoolSide, EndingInv
<1>11. QueueInv' /\ NoIdleThreadWhileWorkWaits' /\ LockInv'
  BY <1>0 DEF Inv, PoolSide, QueueInv, NoIdleThreadWhileWorkWaits, LockInv
<1> QED
  BY <1>6, <1>7, <1>8, <1>9, <1>10, <1>11 DEF Inv, PoolSide

LEMMA ReturnToPoolOrGetNextJobInv ==
  ASSUME Inv, NEW w \in PoolThreads, ReturnToPoolOrGetNextJob(w), UNCHANGED taskVars
  PROVE  Inv'
<1>0. /\ UNCHANGED <<timeToDie, synchQueue, threadWork, doWorkEvent, threadTimeToDie>>
      /\ UNCHANGED <<apc, adding, chosen, dpc, workNotFinished, doneEvent, queuedPool, opc>>
      /\ \A v \in PoolThreads : v # w => tpc'[v] = tpc[v] /\ job'[v] = job[v]
      /\ tpc[w] = "return" /\ synchQueue = "free" /\ dpc # "abandonFinish"
      /\ \A v \in PoolThreads : ~threadTimeToDie[v]
  BY LockFree
  DEF ReturnToPoolOrGetNextJob, ThreadGoto, addVars, taskVars, Inv, TypeOK, PoolTypeOK
<1>1. /\ queuedWork \in Seq(Work) /\ queuedThreads \in Seq(PoolThreads)
      /\ Distinct(queuedWork) /\ Distinct(queuedThreads)
      /\ \A d \in Adders : chosen[d] \in PoolThreads \cup {NoThread}
  BY DEF Inv, TypeOK, PoolTypeOK, PoolSide, QueueInv
<1>2. /\ ~InPool(w) /\ threadWork[w] = NoWork /\ ~doWorkEvent[w]
      /\ \A d \in Adders : chosen[d] # w
  BY <1>0, Names DEF Inv, PoolSide, ThreadInv, ChosenInv
<1>3. CASE queuedWork # << >>
  <2>1. PICK x \in Work : x = Head(queuedWork)
    BY <1>1, <1>3, TakingHead
  <2>2. /\ Contains(queuedWork, x) /\ queuedWork' \in Seq(Work) /\ Distinct(queuedWork')
        /\ \A y : Contains(queuedWork', y) <=> Contains(queuedWork, y) /\ y # x
    <3>1. queuedWork' = Tail(queuedWork)
      BY <1>3 DEF ReturnToPoolOrGetNextJob
    <3> QED
      BY <1>1, <1>3, <2>1, <3>1, TakingHead
  <2>3. /\ job'[w] = x /\ tpc'[w] = "work" /\ UNCHANGED queuedThreads
        /\ job' = [job EXCEPT ![w] = x] /\ tpc' = [tpc EXCEPT ![w] = "work"]
    BY <1>3, <2>1 DEF ReturnToPoolOrGetNextJob, ThreadGoto, Inv, TypeOK, PoolTypeOK
  <2>4. At(x, "queue", x)
    BY <2>2 DEF At
  <2>5. /\ \A j \in Kinds, p \in Places : At(x, j, p) <=> (j = "queue" /\ p = x)
        /\ "job" \in Kinds /\ w \in Places
    BY <2>4, Only, Names DEF Kinds, Places
  <2>6. TypeOK'
    BY <1>0, <2>2, <2>3 DEF Inv, TypeOK, PoolTypeOK
  <2>7. PlaceInv'
    <3> SUFFICES ASSUME NEW y \in Work PROVE OnePlace(y)'
      BY DEF PlaceInv
    <3>1. CASE y = x
      <4>1. \A k \in Kinds, o \in Places : At(x, k, o)' <=> (k = "job" /\ o = w)
        BY <1>0, <2>2, <2>3, <2>5, Names DEF At
      <4>2. ~Ending(x, "job", w)' /\ ~Ending(x, "queue", x)
        BY <1>0, <2>3 DEF Ending
      <4> QED
        BY <2>4, <2>5, <3>1, <4>1, <4>2, PassedOn
    <3>2. CASE y # x
      <4>1. \A k \in Kinds, o \in Places :
              /\ At(y, k, o)' <=> At(y, k, o)
              /\ At(y, k, o) => (Ending(y, k, o)' <=> Ending(y, k, o))
        BY <1>0, <2>2, <2>3, <3>2 DEF At, Ending
      <4> QED
        BY <4>1, Kept
    <3> QED
      BY <3>1, <3>2
  <2>8. QueueInv' /\ NoIdleThreadWhileWorkWaits'
    BY <1>0, <1>1, <1>3, <2>2, <2>3 DEF Inv, PoolSide, QueueInv, NoIdleThreadWhileWorkWaits
  <2>9. ThreadInv'
    BY <1>0, <1>2, <2>3 DEF Inv, PoolSide, ThreadInv, InPool
  <2>10. ChosenInv'
    BY <1>0, <1>1, <1>2, <2>3 DEF Inv, PoolSide, ChosenInv, InPool
  <2>11. EndingInv' /\ LockInv'
    BY <1>0, <2>3 DEF Inv, PoolSide, EndingInv, LockInv
  <2> QED
    BY <2>6, <2>7, <2>8, <2>9, <2>10, <2>11 DEF Inv, PoolSide
<1>4. CASE queuedWork = << >>
  <2>1. /\ job'[w] = NoWork /\ tpc'[w] = "top" /\ UNCHANGED queuedWork
        /\ job' = [job EXCEPT ![w] = NoWork] /\ tpc' = [tpc EXCEPT ![w] = "top"]
        /\ queuedThreads' = Append(queuedThreads, w)
    BY <1>4 DEF ReturnToPoolOrGetNextJob, ThreadGoto, Inv, TypeOK, PoolTypeOK
  <2>2. /\ queuedThreads' \in Seq(PoolThreads) /\ Distinct(queuedThreads')
        /\ \A v : InPool(v)' <=> InPool(v) \/ v = w
    BY <1>1, <1>2, <2>1, Appending DEF InPool
  <2>3. TypeOK'
    BY <1>0, <2>1, <2>2 DEF Inv, TypeOK, PoolTypeOK
  <2>4. PlaceInv'
    <3>1. ASSUME NEW y \in Work, NEW k \in Kinds, NEW o \in Places
          PROVE  /\ At(y, k, o)' <=> At(y, k, o)
                 /\ At(y, k, o) => (Ending(y, k, o)' <=> Ending(y, k, o))
      BY <1>0, <2>1 DEF At, Ending
    <3> QED
      BY <3>1, Kept DEF PlaceInv
  <2>5. QueueInv' /\ NoIdleThreadWhileWorkWaits'
    BY <1>1, <1>4, <2>1, <2>2 DEF QueueInv, NoIdleThreadWhileWorkWaits
  <2>6. ThreadInv'
    BY <1>0, <1>2, <2>1, <2>2 DEF Inv, PoolSide, ThreadInv
  <2>7. ChosenInv'
    BY <1>0, <1>1, <1>2, <2>1, <2>2 DEF Inv, PoolSide, ChosenInv
  <2>8. EndingInv' /\ LockInv'
    BY <1>0, <2>1 DEF Inv, PoolSide, EndingInv, LockInv
  <2> QED
    BY <2>3, <2>4, <2>5, <2>6, <2>7, <2>8 DEF Inv, PoolSide
<1> QED
  BY <1>3, <1>4

-----------------------------------------------------------------------------
(* Taking work back, and abandoning it.                                    *)

LEMMA RetractQueuedWorkInv ==
  ASSUME Inv, NEW x \in Tasks, RetractQueuedWork(x) PROVE Inv'
<1>0. /\ UNCHANGED <<timeToDie, queuedThreads, synchQueue, threadWork, doWorkEvent>>
      /\ UNCHANGED <<threadTimeToDie, tpc, job, apc, adding, chosen, dpc>>
      /\ UNCHANGED <<workNotFinished, doneEvent, queuedPool>>
      /\ opc[x] \in {"retract", "retractToCancel"} /\ dpc # "abandonFinish" /\ x \in Work
      /\ queuedWork' = RemoveFirst(queuedWork, x)
  BY LockFree, Names
  DEF RetractQueuedWork, RetractUnderLock, threadVars, addVars
<1>1. /\ queuedWork \in Seq(Work) /\ Distinct(queuedWork)
  BY DEF Inv, TypeOK, PoolTypeOK, PoolSide, QueueInv
<1>2. /\ queuedWork' \in Seq(Work) /\ Distinct(queuedWork')
      /\ \A y : Contains(queuedWork', y) <=> Contains(queuedWork, y) /\ y # x
      /\ queuedWork = << >> => queuedWork' = << >>
  BY <1>0, <1>1, Removing
<1>3. \A y \in Tasks : y # x => opc'[y] = opc[y]
  BY DEF RetractQueuedWork, OwnerGoto, Inv, TypeOK
<1>4. /\ opc' \in [Tasks -> OwnerPC]
      /\ \/ Contains(queuedWork, x) /\ opc'[x] \in {"workHere", "cancel"}
         \/ ~Contains(queuedWork, x) /\ opc'[x] \in {"sync", "idle"}
  BY DEF RetractQueuedWork, OwnerGoto, OwnerPC, Inv, TypeOK
<1>5. TypeOK'
  BY <1>0, <1>2, <1>4 DEF Inv, TypeOK, PoolTypeOK
<1>6. PlaceInv'
  <2> SUFFICES ASSUME NEW y \in Work PROVE OnePlace(y)'
    BY DEF PlaceInv
  <2>1. CASE y = x /\ Contains(queuedWork, x)
    <3>1. At(x, "queue", x)
      BY <2>1 DEF At
    <3>2. /\ \A j \in Kinds, p \in Places : At(x, j, p) <=> (j = "queue" /\ p = x)
          /\ workNotFinished[x] = 1 <=> ~Ending(x, "queue", x)
          /\ ~doneEvent[x] /\ queuedPool[x]
      BY <1>0, <3>1, Only
    <3>3. \A k \in Kinds, o \in Places : At(x, k, o)' <=> (k = "owner" /\ o = x)
      BY <1>0, <1>2, <1>4, <2>1, <3>2 DEF At, Busy
    <3>4. ~Ending(x, "owner", x)' /\ ~Ending(x, "queue", x)
      BY <1>0, <1>4, <2>1 DEF Ending
    <3>5. "owner" \in Kinds /\ x \in Places
      BY <1>0 DEF Kinds, Places
    <3> QED
      BY <1>0, <2>1, <3>2, <3>3, <3>4, <3>5, Moves
  <2>2. CASE y = x /\ ~Contains(queuedWork, x)
    <3>1. \A k \in Kinds, o \in Places :
            /\ At(x, k, o)' <=> At(x, k, o)
            /\ At(x, k, o) => (Ending(x, k, o)' <=> Ending(x, k, o))
      BY <1>0, <1>2, <1>4, <2>2 DEF At, Ending, Busy
    <3> QED
      BY <1>0, <1>4, <2>2, <3>1, Stays DEF Inv, PlaceInv
  <2>3. CASE y # x
    <3>1. \A k \in Kinds, o \in Places :
            /\ At(y, k, o)' <=> At(y, k, o)
            /\ At(y, k, o) => (Ending(y, k, o)' <=> Ending(y, k, o))
      BY <1>0, <1>2, <1>3, <2>3 DEF At, Ending
    <3> QED
      BY <1>0, <1>3, <2>3, <3>1, Stays DEF Inv, PlaceInv
  <2> QED
    BY <2>1, <2>2, <2>3
<1>7. QueueInv' /\ NoIdleThreadWhileWorkWaits'
  BY <1>0, <1>2 DEF Inv, PoolSide, QueueInv, NoIdleThreadWhileWorkWaits
<1>8. ThreadInv' /\ ChosenInv' /\ EndingInv' /\ LockInv'
  BY <1>0 DEF Inv, PoolSide, ThreadInv, ChosenInv, EndingInv, LockInv, InPool
<1> QED
  BY <1>5, <1>6, <1>7, <1>8 DEF Inv, PoolSide

LEMMA AbandonInv ==
  ASSUME Inv, AbandonQueuedWork \/ FinishAbandonedWork PROVE Inv'
<1>0. /\ UNCHANGED <<timeToDie, queuedThreads, synchQueue, threadWork, doWorkEvent>>
      /\ UNCHANGED <<threadTimeToDie, tpc, job, apc, adding, chosen, queuedPool, opc>>
      /\ queuedWork # << >> /\ synchQueue = "held" /\ dpc \in {"abandon", "abandonFinish"}
      /\ dpc = "abandonFinish" => Head(queuedWork) \in Tasks
  BY DEF AbandonQueuedWork, FinishAbandonedWork, threadVars, addVars, Inv, PoolSide,
         EndingInv, LockInv
<1>1. queuedWork \in Seq(Work) /\ Distinct(queuedWork)
  BY DEF Inv, TypeOK, PoolTypeOK, PoolSide, QueueInv
<1>2. PICK x \in Work : x = Head(queuedWork)
  BY <1>0, <1>1, TakingHead
<1>3. /\ Contains(queuedWork, x) /\ Tail(queuedWork) \in Seq(Work)
      /\ Distinct(Tail(queuedWork))
      /\ \A y : Contains(Tail(queuedWork), y) <=> Contains(queuedWork, y) /\ y # x
  BY <1>0, <1>1, <1>2, TakingHead
<1>4. At(x, "queue", x)
  BY <1>3 DEF At
<1>5. /\ \A j \in Kinds, p \in Places : At(x, j, p) <=> (j = "queue" /\ p = x)
      /\ "queue" \in Kinds /\ x \in Places
      /\ workNotFinished[x] = 0 <=> dpc = "abandonFinish"
      /\ workNotFinished[x] \in 0 .. 1
      /\ x \in Tasks => ~doneEvent[x] /\ (queuedPool[x] \/ opc[x] = "workSync")
  BY <1>2, <1>4, Only DEF Ending, Inv, TypeOK
<1>6. CASE AbandonQueuedWork
  <2>1. /\ dpc = "abandon" /\ UNCHANGED doneEvent
        /\ workNotFinished' = [workNotFinished EXCEPT ![x] = @ - 1]
        /\ \/ x \in AutoTasks /\ queuedWork' = Tail(queuedWork) /\ UNCHANGED dpc
           \/ x \in Tasks /\ dpc' = "abandonFinish" /\ UNCHANGED queuedWork
    BY <1>2, <1>6, Names DEF AbandonQueuedWork, Finish
  <2>2. /\ workNotFinished' \in [Work -> 0 .. 1] /\ workNotFinished'[x] = 0
        /\ \A y \in Work : y # x => workNotFinished'[y] = workNotFinished[y]
    BY <1>5, <2>1 DEF Inv, TypeOK
  <2>3. TypeOK'
    <3>1. queuedWork' \in Seq(Work)
          /\ dpc' \in {"none", "abandon", "abandonFinish", "waitAll", "kill", "killing",
                       "destroyed"}
      BY <1>1, <1>3, <2>1
    <3> QED
      BY <1>0, <2>1, <2>2, <3>1 DEF Inv, TypeOK, PoolTypeOK
  <2>4. PlaceInv'
    <3> SUFFICES ASSUME NEW y \in Work PROVE OnePlace(y)'
      BY DEF PlaceInv
    <3>1. CASE y = x /\ queuedWork' = Tail(queuedWork)
      <4>1. \A k \in Kinds, o \in Places : ~At(x, k, o)'
        BY <1>0, <1>3, <1>5, <3>1 DEF At
      <4> QED
        BY <2>2, <3>1, <4>1, Leaves
    <3>2. CASE y = x /\ x \in Tasks /\ dpc' = "abandonFinish" /\ UNCHANGED queuedWork
      <4>1. \A k \in Kinds, o \in Places : At(x, k, o)' <=> (k = "queue" /\ o = x)
        BY <1>0, <1>5, <3>2 DEF At
      <4>2. Ending(x, "queue", x)'
        BY <1>2, <3>2 DEF Ending
      <4> QED
        BY <1>0, <1>5, <2>1, <2>2, <3>2, <4>1, <4>2, Moves
    <3>3. CASE y # x
      <4>1. \A k \in Kinds, o \in Places : At(y, k, o)' <=> At(y, k, o)
        <5>1. Contains(queuedWork, y)' <=> Contains(queuedWork, y)
          <6>1. CASE queuedWork' = Tail(queuedWork)
            BY <1>3, <3>3, <6>1
          <6>2. CASE UNCHANGED queuedWork
            BY <6>2
          <6> QED
            BY <2>1, <6>1, <6>2
        <5> QED
          BY <1>0, <5>1 DEF At
      <4>2. \A k \in Kinds, o \in Places : Ending(y, k, o)' <=> Ending(y, k, o)
        BY <1>0, <1>2, <2>1, <3>3 DEF Ending
      <4> QED
        BY <1>0, <2>1, <2>2, <3>3, <4>1, <4>2, Stays DEF Inv, PlaceInv
    <3> QED
      BY <2>1, <3>1, <3>2, <3>3
  <2>5. QueueInv'
    BY <1>0, <1>1, <1>3, <2>1 DEF Inv, PoolSide, QueueInv
  <2>6. EndingInv' /\ LockInv' /\ NoIdleThreadWhileWorkWaits'
    BY <1>0, <1>2, <2>1 DEF Inv, PoolSide, EndingInv, LockInv, NoIdleThreadWhileWorkWaits
  <2>7. ThreadInv' /\ ChosenInv'
    BY <1>0, <2>1 DEF Inv, PoolSide, ThreadInv, ChosenInv, InPool
  <2> QED
    BY <2>3, <2>4, <2>5, <2>6, <2>7 DEF Inv, PoolSide
<1>7. CASE FinishAbandonedWork
  <2>1. /\ dpc = "abandonFinish" /\ dpc' = "abandon" /\ UNCHANGED workNotFinished
        /\ doneEvent' = [doneEvent EXCEPT ![x] = TRUE] /\ queuedWork' = Tail(queuedWork)
    BY <1>2, <1>7 DEF FinishAbandonedWork
  <2>2. TypeOK'
    BY <1>0, <1>3, <2>1 DEF Inv, TypeOK, PoolTypeOK
  <2>3. PlaceInv'
    <3> SUFFICES ASSUME NEW y \in Work PROVE OnePlace(y)'
      BY DEF PlaceInv
    <3>1. CASE y = x
      <4>1. \A k \in Kinds, o \in Places : ~At(x, k, o)'
        BY <1>0, <1>3, <1>5, <2>1 DEF At
      <4> QED
        BY <1>5, <2>1, <3>1, <4>1, Leaves
    <3>2. CASE y # x
      <4>1. \A k \in Kinds, o \in Places : At(y, k, o)' <=> At(y, k, o)
        BY <1>0, <1>3, <2>1, <3>2 DEF At
      <4>2. \A k \in Kinds, o \in Places : Ending(y, k, o)' <=> Ending(y, k, o)
        BY <1>0, <1>2, <2>1, <3>2 DEF Ending
      <4>3. y \in Tasks => doneEvent'[y] = doneEvent[y]
        BY <2>1, <3>2 DEF Inv, TypeOK
      <4> QED
        BY <1>0, <2>1, <4>1, <4>2, <4>3, Stays DEF Inv, PlaceInv
    <3> QED
      BY <3>1, <3>2
  <2>4. QueueInv'
    BY <1>0, <1>3, <2>1 DEF Inv, PoolSide, QueueInv
  <2>5. EndingInv' /\ LockInv' /\ NoIdleThreadWhileWorkWaits'
    BY <1>0, <2>1 DEF Inv, PoolSide, EndingInv, LockInv, NoIdleThreadWhileWorkWaits
  <2>6. ThreadInv' /\ ChosenInv'
    BY <1>0, <2>1 DEF Inv, PoolSide, ThreadInv, ChosenInv, InPool
  <2> QED
    BY <2>2, <2>3, <2>4, <2>5, <2>6 DEF Inv, PoolSide
<1> QED
  BY <1>6, <1>7

-----------------------------------------------------------------------------
(* Destroying the pool.                                                    *)

\* The steps of Destroy that concern threads and the lock only.
LEMMA DestroyInv ==
  ASSUME Inv, UNCHANGED taskVars,
         \/ BeginDestroy \/ EndAbandon \/ SeeAllThreadsBack \/ LockToKill \/ EndDestroy
         \/ \E w \in PoolThreads : KillThread(w)
  PROVE  Inv'
<1>0. /\ UNCHANGED <<queuedWork, threadWork, tpc, job, apc, adding, chosen>>
      /\ UNCHANGED <<workNotFinished, doneEvent, queuedPool, opc>>
      /\ dpc # "abandonFinish" /\ dpc' # "abandonFinish"
  BY DEF BeginDestroy, EndAbandon, SeeAllThreadsBack, LockToKill, EndDestroy, KillThread,
         queueVars, threadVars, addVars, taskVars
<1>1. PlaceInv'
  <2>1. ASSUME NEW y \in Work, NEW k \in Kinds, NEW o \in Places
        PROVE  (At(y, k, o)' <=> At(y, k, o)) /\ (Ending(y, k, o)' <=> Ending(y, k, o))
    BY <1>0 DEF At, Ending
  <2> QED
    BY <2>1, Kept DEF PlaceInv
<1>2. EndingInv'
  BY <1>0 DEF Inv, PoolSide, EndingInv
<1>3. CASE BeginDestroy \/ EndAbandon \/ SeeAllThreadsBack \/ LockToKill
  <2>1. /\ UNCHANGED <<queuedThreads, doWorkEvent, threadTimeToDie>>
        /\ dpc \in {"killing", "destroyed"} => dpc' \in {"killing", "destroyed"}
    BY <1>3 DEF BeginDestroy, EndAbandon, SeeAllThreadsBack, LockToKill, queueVars, threadVars
  <2>2. TypeOK'
    BY <1>0, <1>3, <2>1
    DEF BeginDestroy, EndAbandon, SeeAllThreadsBack, LockToKill, queueVars,
        Inv, TypeOK, PoolTypeOK
  <2>3. LockInv' /\ NoIdleThreadWhileWorkWaits'
    BY <1>0, <1>3, <2>1
    DEF BeginDestroy, EndAbandon, SeeAllThreadsBack, LockToKill, queueVars,
        Inv, PoolSide, LockInv, NoIdleThreadWhileWorkWaits
  <2>4. QueueInv' /\ ThreadInv' /\ ChosenInv'
    BY <1>0, <2>1 DEF Inv, PoolSide, QueueInv, ThreadInv, ChosenInv, InPool
  <2> QED
    BY <1>1, <1>2, <2>2, <2>3, <2>4 DEF Inv, PoolSide
<1>4. CASE EndDestroy
  <2>1. /\ queuedThreads' = << >> /\ synchQueue' = "deleted" /\ dpc' = "destroyed"
        /\ UNCHANGED <<timeToDie, doWorkEvent, threadTimeToDie>>
    BY <1>4 DEF EndDestroy, threadVars
  <2>2. queuedThreads' \in Seq(PoolThreads) /\ Len(queuedThreads') = 0
    BY <2>1, EmptySeq
  <2>3. \A v : ~InPool(v)'
    BY <2>2 DEF InPool, Contains
  <2>4. TypeOK'
    BY <1>0, <2>1, <2>2 DEF Inv, TypeOK, PoolTypeOK
  <2>5. LockInv' /\ NoIdleThreadWhileWorkWaits'
    BY <2>1 DEF LockInv, NoIdleThreadWhileWorkWaits
  <2>6. QueueInv'
    BY <1>0, <2>2 DEF Inv, PoolSide, QueueInv, Distinct
  <2>7. ThreadInv' /\ ChosenInv'
    BY <1>0, <2>1, <2>3 DEF Inv, PoolSide, ThreadInv, ChosenInv
  <2> QED
    BY <1>1, <1>2, <2>4, <2>5, <2>6, <2>7 DEF Inv, PoolSide
<1>5. ASSUME NEW w \in PoolThreads, KillThread(w) PROVE Inv'
  <2>1. /\ UNCHANGED <<timeToDie, queuedThreads, synchQueue, dpc>> /\ dpc = "killing"
        /\ threadTimeToDie'[w] = TRUE
        /\ \A v \in PoolThreads : v # w =>
             threadTimeToDie'[v] = threadTimeToDie[v] /\ doWorkEvent'[v] = doWorkEvent[v]
    BY <1>5 DEF KillThread, queueVars, Inv, TypeOK, PoolTypeOK
  <2>2. TypeOK'
    BY <1>0, <1>5, <2>1 DEF KillThread, Inv, TypeOK, PoolTypeOK
  <2>3. LockInv' /\ NoIdleThreadWhileWorkWaits' /\ QueueInv'
    BY <1>0, <2>1 DEF Inv, PoolSide, LockInv, NoIdleThreadWhileWorkWaits, QueueInv
  <2>4. ThreadInv'
    BY <1>0, <2>1 DEF Inv, PoolSide, ThreadInv, InPool
  <2>5. ChosenInv'
    <3>1. \A d \in Adders : chosen[d] \in PoolThreads \cup {NoThread}
      BY DEF Inv, TypeOK, PoolTypeOK
    <3> QED
      BY <1>0, <2>1, <3>1 DEF Inv, PoolSide, ChosenInv, InPool
  <2> QED
    BY <1>1, <1>2, <2>2, <2>3, <2>4, <2>5 DEF Inv, PoolSide
<1> QED
  BY <1>3, <1>4, <1>5

-----------------------------------------------------------------------------

LEMMA StartBackgroundTaskInv ==
  ASSUME Inv, NEW x \in Tasks, StartBackgroundTask(x) PROVE Inv'
<1>1. CASE PassTimeToDie(x, x) /\ UNCHANGED opc
  BY <1>1, PassTimeToDieInv, Names DEF StartBackgroundTask, Free, Idle
<1>2. CASE OwnerGoto(x, "abandon") /\ UNCHANGED poolVars
  BY <1>2, StartHereInv DEF StartBackgroundTask, OwnerGoto
<1> QED
  BY <1>1, <1>2 DEF StartBackgroundTask

LEMMA StartAutoTaskInv ==
  ASSUME Inv, NEW w \in PoolThreads, NEW y \in AutoTasks, StartAutoTask(w, y) PROVE Inv'
BY PassTimeToDieInv, Names DEF StartAutoTask

LEMMA StartSynchronousTaskInv ==
  ASSUME Inv, NEW x \in Tasks, StartSynchronousTask(x) PROVE Inv'
BY StartHereInv DEF StartSynchronousTask, OwnerGoto

LEMMA NextInv == Inv /\ [Next]_vars => Inv'
<1> SUFFICES ASSUME Inv, [Next]_vars PROVE Inv'
  OBVIOUS
<1>1. ASSUME NEW c \in Adders, AddStep(c) PROVE Inv'
  BY <1>1, AddUnderLockInv, GiveWorkInv, TriggerThreadInv DEF AddStep
<1>2. ASSUME NEW w \in PoolThreads,
             \/ ThreadStep(w) \/ DoThreadedWork(w)
             \/ \E y \in AutoTasks : StartAutoTask(w, y)
      PROVE  Inv'
  BY <1>2, WakeInv, TakeWorkInv, DoThreadedWorkInv, ReturnToPoolOrGetNextJobInv,
     StartAutoTaskInv
  DEF ThreadStep
<1>3. ASSUME NEW x \in Tasks,
             \/ OwnerStep(x) \/ StartBackgroundTask(x) \/ StartSynchronousTask(x)
             \/ EnsureCompletion(x) \/ Cancel(x) \/ IsDone(x) \/ WaitCompletionWithTimeout(x)
      PROVE  Inv'
  BY <1>3, OwnWorkInv, RetractQueuedWorkInv, SynchronizedInv, LooksInv,
     StartBackgroundTaskInv, StartSynchronousTaskInv
  DEF OwnerStep
<1>4. CASE Destroy \/ DestroyStep
  BY <1>4, AbandonInv, DestroyInv DEF Destroy, DestroyStep
<1>5. CASE UNCHANGED vars
  <2>1. UNCHANGED poolVars /\ UNCHANGED taskVars
    BY <1>5 DEF vars
  <2>2. TypeOK'
    BY <2>1, PoolTypeUnchanged DEF Inv, TypeOK, taskVars
  <2>3. PlaceInv'
    <3>1. ASSUME NEW y \in Work, NEW k \in Kinds, NEW o \in Places
          PROVE  (At(y, k, o)' <=> At(y, k, o)) /\ (Ending(y, k, o)' <=> Ending(y, k, o))
      BY <2>1 DEF At, Ending, poolVars, queueVars, threadVars, addVars, taskVars
    <3> QED
      BY <2>1, <3>1, Kept DEF PlaceInv
  <2> QED
    BY <2>1, <2>2, <2>3, PoolUnchanged DEF Inv
<1> QED
  BY <1>1, <1>2, <1>3, <1>4, <1>5 DEF Next

THEOREM Invariance == Spec => []Inv
BY InitInv, NextInv, PTL DEF Spec

\* Work is neither lost nor done twice, and a thread is handed work only when it
\* has none, for any number of threads and tasks and whenever Destroy is called.
THEOREM PoolSafe == Spec => []PoolInv
BY InvImplies, Invariance, PTL

\* Once an owner has synchronized, no thread touches its task any more.
THEOREM Synchronized == Spec => []IdleMeansUntouched
BY InvImplies, Invariance, PTL

\* With the lock free, work waits only while no thread does.
THEOREM NoWorkWaits == Spec => []NoIdleThreadWhileWorkWaits
<1>1. Inv => NoIdleThreadWhileWorkWaits
  BY DEF Inv, PoolSide
<1> QED
  BY <1>1, Invariance, PTL
=============================================================================
