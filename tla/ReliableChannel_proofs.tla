------------------------ MODULE ReliableChannel_proofs ------------------------
(***************************************************************************)
(* What an actor channel promises for any number of messages, bunches,     *)
(* packets and losses, for message sizes, windows and sequence numbers of  *)
(* any size.                                                               *)
(*                                                                         *)
(* Sequences of operations on the state of an end (a message of several    *)
(* bunches, the notifications of a header, ...) are unrolled into their    *)
(* steps, and every step is shown to preserve the invariant.               *)
(***************************************************************************)
EXTENDS ReliableChannel, FiniteSetTheorems, SequenceTheorems, TLAPS

-----------------------------------------------------------------------------
(* Induction over the natural numbers, for sets.                           *)

\* A set of natural numbers has a least element.
LEMMA LeastOf ==
  ASSUME NEW B \in SUBSET Nat, B # {}
  PROVE  \E m \in B : \A k \in B : m <= k
<1>1. PICK n \in B : TRUE
  OBVIOUS
<1> DEFINE R == StrictSubsetOrdering(0 .. n)
           T == {0 .. k : k \in {j \in B : j <= n}}
<1>2. IsFiniteSet(0 .. n)
  BY FS_Interval
<1>3. IsWellFoundedOn(R, FiniteSubsetsOf(0 .. n))
  BY <1>2, FS_StrictSubsetOrderingWellFounded
<1>4. T \subseteq FiniteSubsetsOf(0 .. n)
  <2>1. \A k \in Nat : IsFiniteSet(0 .. k)
    BY FS_Interval
  <2>2. \A k \in {j \in B : j <= n} : 0 .. k \subseteq 0 .. n
    OBVIOUS
  <2> QED
    BY <2>1, <2>2 DEF FiniteSubsetsOf
<1>5. T # {}
  BY <1>1
<1>6. ASSUME NEW x \in T, NEW y \in T, y \subseteq x, y # x PROVE <<y, x>> \in R
  BY <1>4, <1>6 DEF StrictSubsetOrdering, FiniteSubsetsOf
<1> HIDE DEF R
<1>7. PICK x \in T : \A y \in T : ~ (<<y, x>> \in R)
  <2> HIDE DEF T
  <2> QED
    BY <1>3, <1>4, <1>5, WFMin
<1>8. PICK m \in B : m <= n /\ x = 0 .. m
  BY <1>7
<1>9. ASSUME NEW k \in B, k < m PROVE FALSE
  <2>1. 0 .. k \in T
    BY <1>8, <1>9
  <2>2. 0 .. k \subseteq x /\ m \in x /\ m \notin 0 .. k
    BY <1>8, <1>9
  <2> QED
    BY <2>1, <2>2, <1>6, <1>7
<1> QED
  BY <1>9

LEMMA NatInd ==
  ASSUME NEW S, 0 \in S, \A n \in Nat : n \in S => n + 1 \in S
  PROVE  Nat \subseteq S
<1> SUFFICES ASSUME Nat \ S # {} PROVE FALSE
  OBVIOUS
<1>1. PICK x \in Nat \ S : \A y \in Nat \ S : x <= y
  BY LeastOf
<1> QED
  BY <1>1

-----------------------------------------------------------------------------
(* The steps of the operators that repeat an operation.                    *)


\* Notifications, one after the other.
Notifies(f, n, base, fates) ==
  f[0] = base /\ \A i \in 1 .. n : f[i] = Notified(f[i - 1], fates[i])

LEMMA NotifiedSteps ==
  ASSUME NEW n \in Nat, NEW base, NEW fates
  PROVE  \E R : \E f \in [0 .. n -> R] : Notifies(f, n, base, fates)
<1> DEFINE Good(f, m) == f = [i \in 0 .. m |-> IF i = 0 THEN base ELSE Notified(f[i - 1], fates[i])]
           S == {m \in Nat : \E f : Good(f, m)}
<1>1. 0 \in S
  <2>1. Good([i \in 0 .. 0 |-> base], 0)
    OBVIOUS
  <2> QED
    BY <2>1
<1>2. ASSUME NEW m \in Nat, NEW f, Good(f, m) PROVE \E g : Good(g, m + 1)
  <2> DEFINE g == [i \in 0 .. m + 1 |-> IF i <= m THEN f[i] ELSE Notified(f[m], fates[m + 1])]
  <2>1. ASSUME NEW i \in 0 .. m + 1 PROVE g[i] = IF i = 0 THEN base ELSE Notified(g[i - 1], fates[i])
    <3>1. CASE i = 0
      BY <3>1, <1>2
    <3>2. CASE i \in 1 .. m
      <4>1. g[i] = f[i] /\ g[i - 1] = f[i - 1]
        BY <3>2
      <4>2. f[i] = Notified(f[i - 1], fates[i])
        <5>1. i \in 0 .. m /\ i # 0
          BY <3>2
        <5> QED
          BY <5>1, <1>2
      <4> HIDE DEF g
      <4> QED
        BY <4>1, <4>2, <3>2
    <3>3. CASE i = m + 1
      BY <3>3
    <3> QED
      BY <3>1, <3>2, <3>3
  <2>2. Good(g, m + 1)
    <3>1. g = [i \in 0 .. m + 1 |-> g[i]]
      OBVIOUS
    <3> HIDE DEF g
    <3> QED
      BY <2>1, <3>1
  <2> HIDE DEF g, Good
  <2> QED
    BY <2>2
<1>3. n \in S
  <2>1. \A m \in Nat : m \in S => m + 1 \in S
    <3> HIDE DEF Good
    <3> QED
      BY <1>2
  <2> HIDE DEF S
  <2> QED
    BY <1>1, <2>1, NatInd
<1>4. PICK f : Good(f, n)
  <2> HIDE DEF Good
  <2> QED
    BY <1>3
<1>5. f \in [0 .. n -> {f[i] : i \in 0 .. n}]
  <2>1. f = [i \in 0 .. n |-> f[i]]
    BY <1>4
  <2> HIDE DEF Good
  <2> QED
    BY <2>1
<1>6. Notifies(f, n, base, fates)
  BY <1>4 DEF Notifies
<1> QED
  BY <1>5, <1>6

\* Empty bunches, one after the other.
Syncs(f, n, base) ==
  f[0] = base /\ \A i \in 1 .. n : f[i] = Sync(f[i - 1])

LEMMA SyncSteps ==
  ASSUME NEW n \in Nat, NEW base
  PROVE  \E R : \E f \in [0 .. n -> R] : Syncs(f, n, base)
<1> DEFINE Good(f, m) == f = [i \in 0 .. m |-> IF i = 0 THEN base ELSE Sync(f[i - 1])]
           S == {m \in Nat : \E f : Good(f, m)}
<1>1. 0 \in S
  <2>1. Good([i \in 0 .. 0 |-> base], 0)
    OBVIOUS
  <2> QED
    BY <2>1
<1>2. ASSUME NEW m \in Nat, NEW f, Good(f, m) PROVE \E g : Good(g, m + 1)
  <2> DEFINE g == [i \in 0 .. m + 1 |-> IF i <= m THEN f[i] ELSE Sync(f[m])]
  <2>1. ASSUME NEW i \in 0 .. m + 1 PROVE g[i] = IF i = 0 THEN base ELSE Sync(g[i - 1])
    <3>1. CASE i = 0
      BY <3>1, <1>2
    <3>2. CASE i \in 1 .. m
      <4>1. g[i] = f[i] /\ g[i - 1] = f[i - 1]
        BY <3>2
      <4>2. f[i] = Sync(f[i - 1])
        <5>1. i \in 0 .. m /\ i # 0
          BY <3>2
        <5> QED
          BY <5>1, <1>2
      <4> HIDE DEF g
      <4> QED
        BY <4>1, <4>2, <3>2
    <3>3. CASE i = m + 1
      BY <3>3
    <3> QED
      BY <3>1, <3>2, <3>3
  <2>2. Good(g, m + 1)
    <3>1. g = [i \in 0 .. m + 1 |-> g[i]]
      OBVIOUS
    <3> HIDE DEF g
    <3> QED
      BY <2>1, <3>1
  <2> HIDE DEF g, Good
  <2> QED
    BY <2>2
<1>3. n \in S
  <2>1. \A m \in Nat : m \in S => m + 1 \in S
    <3> HIDE DEF Good
    <3> QED
      BY <1>2
  <2> HIDE DEF S
  <2> QED
    BY <1>1, <2>1, NatInd
<1>4. PICK f : Good(f, n)
  <2> HIDE DEF Good
  <2> QED
    BY <1>3
<1>5. f \in [0 .. n -> {f[i] : i \in 0 .. n}]
  <2>1. f = [i \in 0 .. n |-> f[i]]
    BY <1>4
  <2> HIDE DEF Good
  <2> QED
    BY <2>1
<1>6. Syncs(f, n, base)
  BY <1>4 DEF Syncs
<1> QED
  BY <1>5, <1>6

\* Lost bunches, one after the other.
WritesLost(f, n, base, outRec) ==
  f[0] = base /\ \A i \in 1 .. n : f[i] = (IF Lost(outRec[i]) THEN WriteBunch(f[i - 1], outRec[i].bunch) ELSE f[i - 1])

LEMMA LostSteps ==
  ASSUME NEW n \in Nat, NEW base, NEW outRec
  PROVE  \E R : \E f \in [0 .. n -> R] : WritesLost(f, n, base, outRec)
<1> DEFINE Good(f, m) == f = [i \in 0 .. m |-> IF i = 0 THEN base ELSE (IF Lost(outRec[i]) THEN WriteBunch(f[i - 1], outRec[i].bunch) ELSE f[i - 1])]
           S == {m \in Nat : \E f : Good(f, m)}
<1>1. 0 \in S
  <2>1. Good([i \in 0 .. 0 |-> base], 0)
    OBVIOUS
  <2> QED
    BY <2>1
<1>2. ASSUME NEW m \in Nat, NEW f, Good(f, m) PROVE \E g : Good(g, m + 1)
  <2> DEFINE g == [i \in 0 .. m + 1 |-> IF i <= m THEN f[i] ELSE (IF Lost(outRec[m + 1]) THEN WriteBunch(f[m], outRec[m + 1].bunch) ELSE f[m])]
  <2>1. ASSUME NEW i \in 0 .. m + 1 PROVE g[i] = IF i = 0 THEN base ELSE (IF Lost(outRec[i]) THEN WriteBunch(g[i - 1], outRec[i].bunch) ELSE g[i - 1])
    <3>1. CASE i = 0
      BY <3>1, <1>2
    <3>2. CASE i \in 1 .. m
      <4>1. g[i] = f[i] /\ g[i - 1] = f[i - 1]
        BY <3>2
      <4>2. f[i] = (IF Lost(outRec[i]) THEN WriteBunch(f[i - 1], outRec[i].bunch) ELSE f[i - 1])
        <5>1. i \in 0 .. m /\ i # 0
          BY <3>2
        <5> QED
          BY <5>1, <1>2
      <4> HIDE DEF g
      <4> QED
        BY <4>1, <4>2, <3>2
    <3>3. CASE i = m + 1
      BY <3>3
    <3> QED
      BY <3>1, <3>2, <3>3
  <2>2. Good(g, m + 1)
    <3>1. g = [i \in 0 .. m + 1 |-> g[i]]
      OBVIOUS
    <3> HIDE DEF g
    <3> QED
      BY <2>1, <3>1
  <2> HIDE DEF g, Good
  <2> QED
    BY <2>2
<1>3. n \in S
  <2>1. \A m \in Nat : m \in S => m + 1 \in S
    <3> HIDE DEF Good
    <3> QED
      BY <1>2
  <2> HIDE DEF S
  <2> QED
    BY <1>1, <2>1, NatInd
<1>4. PICK f : Good(f, n)
  <2> HIDE DEF Good
  <2> QED
    BY <1>3
<1>5. f \in [0 .. n -> {f[i] : i \in 0 .. n}]
  <2>1. f = [i \in 0 .. n |-> f[i]]
    BY <1>4
  <2> HIDE DEF Good
  <2> QED
    BY <2>1
<1>6. WritesLost(f, n, base, outRec)
  BY <1>4 DEF WritesLost
<1> QED
  BY <1>5, <1>6

\* Parts of a message, one after the other.
Prepares(f, n, base, parts) ==
  f[0] = base /\ \A i \in 1 .. n : f[i] = PrepBunch(IF i = 1 THEN base ELSE Flushed(f[i - 1]), parts[i])

LEMMA PartSteps ==
  ASSUME NEW n \in Nat, NEW base, NEW parts
  PROVE  \E R : \E f \in [0 .. n -> R] : Prepares(f, n, base, parts)
<1> DEFINE Good(f, m) == f = [i \in 0 .. m |-> IF i = 0 THEN base ELSE PrepBunch(IF i = 1 THEN base ELSE Flushed(f[i - 1]), parts[i])]
           S == {m \in Nat : \E f : Good(f, m)}
<1>1. 0 \in S
  <2>1. Good([i \in 0 .. 0 |-> base], 0)
    OBVIOUS
  <2> QED
    BY <2>1
<1>2. ASSUME NEW m \in Nat, NEW f, Good(f, m) PROVE \E g : Good(g, m + 1)
  <2> DEFINE g == [i \in 0 .. m + 1 |-> IF i <= m THEN f[i] ELSE PrepBunch(IF m + 1 = 1 THEN base ELSE Flushed(f[m]), parts[m + 1])]
  <2>1. ASSUME NEW i \in 0 .. m + 1 PROVE g[i] = IF i = 0 THEN base ELSE PrepBunch(IF i = 1 THEN base ELSE Flushed(g[i - 1]), parts[i])
    <3>1. CASE i = 0
      BY <3>1, <1>2
    <3>2. CASE i \in 1 .. m
      <4>1. g[i] = f[i] /\ g[i - 1] = f[i - 1]
        BY <3>2
      <4>2. f[i] = PrepBunch(IF i = 1 THEN base ELSE Flushed(f[i - 1]), parts[i])
        <5>1. i \in 0 .. m /\ i # 0
          BY <3>2
        <5> QED
          BY <5>1, <1>2
      <4> HIDE DEF g
      <4> QED
        BY <4>1, <4>2, <3>2
    <3>3. CASE i = m + 1
      BY <3>3
    <3> QED
      BY <3>1, <3>2, <3>3
  <2>2. Good(g, m + 1)
    <3>1. g = [i \in 0 .. m + 1 |-> g[i]]
      OBVIOUS
    <3> HIDE DEF g
    <3> QED
      BY <2>1, <3>1
  <2> HIDE DEF g, Good
  <2> QED
    BY <2>2
<1>3. n \in S
  <2>1. \A m \in Nat : m \in S => m + 1 \in S
    <3> HIDE DEF Good
    <3> QED
      BY <1>2
  <2> HIDE DEF S
  <2> QED
    BY <1>1, <2>1, NatInd
<1>4. PICK f : Good(f, n)
  <2> HIDE DEF Good
  <2> QED
    BY <1>3
<1>5. f \in [0 .. n -> {f[i] : i \in 0 .. n}]
  <2>1. f = [i \in 0 .. n |-> f[i]]
    BY <1>4
  <2> HIDE DEF Good
  <2> QED
    BY <2>1
<1>6. Prepares(f, n, base, parts)
  BY <1>4 DEF Prepares
<1> QED
  BY <1>5, <1>6

LEMMA AllNotifiedIs ==
  ASSUME NEW s, NEW fates, Len(fates) \in Nat
  PROVE  \E f : /\ Notifies(f, Len(fates), s, fates)
                /\ AllNotified(s, fates) = f[Len(fates)]
<1> DEFINE P(f) == f = [i \in 0 .. Len(fates) |->
                      IF i = 0 THEN s ELSE Notified(f[i - 1], fates[i])]
           after == CHOOSE f : P(f)
<1>0. PICK g : (\E R : g \in [0 .. Len(fates) -> R]) /\ Notifies(g, Len(fates), s, fates)
  BY NotifiedSteps
<1>1. P(g)
  <2>1. ASSUME NEW i \in 0 .. Len(fates)
        PROVE  g[i] = IF i = 0 THEN s ELSE Notified(g[i - 1], fates[i])
    <3>1. CASE i = 0
      BY <1>0, <3>1 DEF Notifies
    <3>2. CASE i \in 1 .. Len(fates)
      BY <1>0, <3>2 DEF Notifies
    <3> QED
      BY <3>1, <3>2
  <2> QED
    BY <1>0, <2>1
<1>2. AllNotified(s, fates) = (CHOOSE f : P(f))[Len(fates)]
  BY DEF AllNotified
<1>3. P(after)
  <2> HIDE DEF P
  <2> QED
    BY <1>1
<1>4. Notifies(after, Len(fates), s, fates)
  <2> HIDE DEF after
  <2> QED
    BY <1>3 DEF Notifies
<1>5. AllNotified(s, fates) = after[Len(fates)]
  <2> HIDE DEF P
  <2> QED
    BY <1>2
<1> HIDE DEF P, after
<1> QED
  BY <1>4, <1>5

LEMMA WriteLostIs ==
  ASSUME NEW s, NEW outRec, Len(outRec) \in Nat
  PROVE  \E f : /\ WritesLost(f, Len(outRec), s, outRec)
                /\ WriteLost(s, outRec) = f[Len(outRec)]
<1> DEFINE P(f) == f = [i \in 0 .. Len(outRec) |->
                      IF i = 0 THEN s ELSE (IF Lost(outRec[i]) THEN WriteBunch(f[i - 1], outRec[i].bunch) ELSE f[i - 1])]
           after == CHOOSE f : P(f)
<1>0. PICK g : (\E R : g \in [0 .. Len(outRec) -> R]) /\ WritesLost(g, Len(outRec), s, outRec)
  BY LostSteps
<1>1. P(g)
  <2>1. ASSUME NEW i \in 0 .. Len(outRec)
        PROVE  g[i] = IF i = 0 THEN s ELSE (IF Lost(outRec[i]) THEN WriteBunch(g[i - 1], outRec[i].bunch) ELSE g[i - 1])
    <3>1. CASE i = 0
      BY <1>0, <3>1 DEF WritesLost
    <3>2. CASE i \in 1 .. Len(outRec)
      BY <1>0, <3>2 DEF WritesLost
    <3> QED
      BY <3>1, <3>2
  <2> QED
    BY <1>0, <2>1
<1>2. WriteLost(s, outRec) = (CHOOSE f : P(f))[Len(outRec)]
  BY DEF WriteLost
<1>3. P(after)
  <2> HIDE DEF P
  <2> QED
    BY <1>1
<1>4. WritesLost(after, Len(outRec), s, outRec)
  <2> HIDE DEF after
  <2> QED
    BY <1>3 DEF WritesLost
<1>5. WriteLost(s, outRec) = after[Len(outRec)]
  <2> HIDE DEF P
  <2> QED
    BY <1>2
<1> HIDE DEF P, after
<1> QED
  BY <1>4, <1>5

\* The k-th part of a message, before it has a number.
RawPart(s, rel, close, tag, size, k) ==
  [seq |-> 0, rel |-> rel, part |-> PartOf(k, size),
   open |-> s.channel.openedLocally /\ ~s.channel.opened /\ k = 1,
   close |-> close /\ k = size,
   tag |-> [tag EXCEPT !.k = k, !.of = size]]

LEMMA SendBunchIs ==
  ASSUME NEW s, NEW rel, NEW close, NEW tag, NEW size \in Nat \ {0},
         ~(rel /\ OverflowsReliable(s, size, close))
  PROVE  \E f : /\ f[0] = s
                /\ \A k \in 1 .. size :
                     f[k] = PrepBunch(IF k = 1 THEN s ELSE Flushed(f[k - 1]),
                                      RawPart(s, rel, close, tag, size, k))
                /\ SendBunch(s, rel, close, tag, size) = f[size]
<1> DEFINE parts == [k \in 1 .. size |->
                  [seq |-> 0, rel |-> rel, part |-> PartOf(k, size),
                   open |-> s.channel.openedLocally /\ ~s.channel.opened /\ k = 1,
                   close |-> close /\ k = size,
                   tag |-> [tag EXCEPT !.k = k, !.of = size]]]
           P(f) == f = [k \in 0 .. size |->
                      IF k = 0 THEN s ELSE PrepBunch(IF k = 1 THEN s ELSE Flushed(f[k - 1]), parts[k])]
           after == CHOOSE f : P(f)
<1> HIDE DEF parts
<1>0. PICK g : (\E R : g \in [0 .. size -> R]) /\ Prepares(g, size, s, parts)
  BY PartSteps
<1>1. P(g)
  <2>1. ASSUME NEW k \in 0 .. size
        PROVE  g[k] = IF k = 0 THEN s ELSE PrepBunch(IF k = 1 THEN s ELSE Flushed(g[k - 1]), parts[k])
    <3>1. CASE k = 0
      BY <1>0, <3>1 DEF Prepares
    <3>2. CASE k \in 1 .. size
      BY <1>0, <3>2 DEF Prepares
    <3> QED
      BY <3>1, <3>2
  <2> QED
    BY <1>0, <2>1
<1> USE DEF parts
<1>2. SendBunch(s, rel, close, tag, size) = (CHOOSE f : P(f))[size]
  BY DEF SendBunch
<1> HIDE DEF parts
<1>3. P(after)
  <2> HIDE DEF P
  <2> QED
    BY <1>1
<1>4. Prepares(after, size, s, parts)
  <2> HIDE DEF after
  <2> QED
    BY <1>3 DEF Prepares
<1>5. SendBunch(s, rel, close, tag, size) = after[size]
  <2> HIDE DEF P
  <2> QED
    BY <1>2
<1>6. \A k \in 1 .. size : parts[k] = RawPart(s, rel, close, tag, size, k)
  BY DEF RawPart, parts
<1> HIDE DEF parts, P, after
<1> QED
  BY <1>4, <1>5, <1>6 DEF Prepares

LEMMA SetChannelActorIs ==
  ASSUME NEW s, s.pendingOutRec # 0, NEW size \in Nat,
         size = s.outReliable - s.pendingOutRec + 1
  PROVE  \E f : /\ Syncs(f, size, [s EXCEPT !.outReliable = s.pendingOutRec - 1])
                /\ SetChannelActor(s) =
                     [f[size] EXCEPT !.outReliable = s.outReliable, !.pendingOutRec = 0]
<1> DEFINE base == [s EXCEPT !.outReliable = s.pendingOutRec - 1]
           P(f) == f = [i \in 0 .. size |->
                      IF i = 0 THEN base ELSE Sync(f[i - 1])]
           after == CHOOSE f : P(f)
<1>0. PICK g : (\E R : g \in [0 .. size -> R]) /\ Syncs(g, size, base)
  BY SyncSteps
<1>1. P(g)
  <2>1. ASSUME NEW i \in 0 .. size
        PROVE  g[i] = IF i = 0 THEN base ELSE Sync(g[i - 1])
    <3>1. CASE i = 0
      BY <1>0, <3>1 DEF Syncs
    <3>2. CASE i \in 1 .. size
      BY <1>0, <3>2 DEF Syncs
    <3> QED
      BY <3>1, <3>2
  <2> QED
    BY <1>0, <2>1
<1>2. SetChannelActor(s) =
        [(CHOOSE f : P(f))[size] EXCEPT !.outReliable = s.outReliable, !.pendingOutRec = 0]
  BY DEF SetChannelActor
<1>3. P(after)
  <2> HIDE DEF P
  <2> QED
    BY <1>1
<1>4. Syncs(after, size, base)
  <2> HIDE DEF after
  <2> QED
    BY <1>3 DEF Syncs
<1>5. SetChannelActor(s) =
        [after[size] EXCEPT !.outReliable = s.outReliable, !.pendingOutRec = 0]
  <2> HIDE DEF P
  <2> QED
    BY <1>2
<1> HIDE DEF P, after
<1> QED
  BY <1>4, <1>5

(* What the steps preserve, the whole preserves: D[i] holds the states that *)
(* may be reached after i of them.                                          *)

LEMMA AllNotifiedBy ==
  ASSUME NEW s, NEW fates, Len(fates) \in Nat, NEW D,
         s \in D[0],
         \A i \in 1 .. Len(fates) : \A x \in D[i - 1] : Notified(x, fates[i]) \in D[i]
  PROVE  AllNotified(s, fates) \in D[Len(fates)]
<1>1. PICK f : Notifies(f, Len(fates), s, fates) /\ AllNotified(s, fates) = f[Len(fates)]
  BY AllNotifiedIs
<1> DEFINE S == {i \in Nat : i <= Len(fates) => f[i] \in D[i]}
<1>2. 0 \in S
  BY <1>1 DEF Notifies
<1>3. ASSUME NEW i \in Nat, i \in S PROVE i + 1 \in S
  <2>1. CASE i + 1 <= Len(fates)
    <3>1. f[i] \in D[i] /\ i + 1 \in 1 .. Len(fates) /\ (i + 1) - 1 = i
      BY <1>3, <2>1
    <3>2. f[i + 1] = Notified(f[i], fates[i + 1])
      BY <1>1, <3>1 DEF Notifies
    <3>3. f[i + 1] \in D[i + 1]
      BY <3>1, <3>2
    <3> QED
      BY <3>3
  <2> QED
    BY <2>1
<1>4. Nat \subseteq S
  <2> HIDE DEF S
  <2> QED
    BY <1>2, <1>3, NatInd
<1> QED
  BY <1>1, <1>4

LEMMA WriteLostBy ==
  ASSUME NEW s, NEW outRec, Len(outRec) \in Nat, NEW D,
         s \in D[0],
         \A i \in 1 .. Len(outRec) : \A x \in D[i - 1] :
           (IF Lost(outRec[i]) THEN WriteBunch(x, outRec[i].bunch) ELSE x) \in D[i]
  PROVE  WriteLost(s, outRec) \in D[Len(outRec)]
<1>1. PICK f : WritesLost(f, Len(outRec), s, outRec) /\ WriteLost(s, outRec) = f[Len(outRec)]
  BY WriteLostIs
<1> DEFINE S == {i \in Nat : i <= Len(outRec) => f[i] \in D[i]}
<1>2. 0 \in S
  BY <1>1 DEF WritesLost
<1>3. ASSUME NEW i \in Nat, i \in S PROVE i + 1 \in S
  <2>1. CASE i + 1 <= Len(outRec)
    <3>1. f[i] \in D[i] /\ i + 1 \in 1 .. Len(outRec) /\ (i + 1) - 1 = i
      BY <1>3, <2>1
    <3>2. f[i + 1] = IF Lost(outRec[i + 1]) THEN WriteBunch(f[i], outRec[i + 1].bunch) ELSE f[i]
      BY <1>1, <3>1 DEF WritesLost
    <3>3. f[i + 1] \in D[i + 1]
      BY <3>1, <3>2
    <3> QED
      BY <3>3
  <2> QED
    BY <2>1
<1>4. Nat \subseteq S
  <2> HIDE DEF S
  <2> QED
    BY <1>2, <1>3, NatInd
<1> QED
  BY <1>1, <1>4

LEMMA SendBunchBy ==
  ASSUME NEW s, NEW rel, NEW close, NEW tag, NEW size \in Nat \ {0},
         ~(rel /\ OverflowsReliable(s, size, close)), NEW D,
         PrepBunch(s, RawPart(s, rel, close, tag, size, 1)) \in D[1],
         \A k \in 2 .. size : \A x \in D[k - 1] :
           PrepBunch(Flushed(x), RawPart(s, rel, close, tag, size, k)) \in D[k]
  PROVE  SendBunch(s, rel, close, tag, size) \in D[size]
<1>1. PICK f : /\ f[0] = s
               /\ \A k \in 1 .. size :
                     f[k] = PrepBunch(IF k = 1 THEN s ELSE Flushed(f[k - 1]),
                                      RawPart(s, rel, close, tag, size, k))
               /\ SendBunch(s, rel, close, tag, size) = f[size]
  BY SendBunchIs
<1> DEFINE S == {i \in Nat : i + 1 <= size => f[i + 1] \in D[i + 1]}
<1>2. 0 \in S
  BY <1>1
<1>3. ASSUME NEW i \in Nat, i \in S PROVE i + 1 \in S
  <2>1. CASE (i + 1) + 1 <= size
    <3>1. f[i + 1] \in D[i + 1] /\ i + 2 \in 2 .. size /\ (i + 2) - 1 = i + 1
      BY <1>3, <2>1
    <3>2. f[i + 2] = PrepBunch(Flushed(f[i + 1]), RawPart(s, rel, close, tag, size, i + 2))
      BY <1>1, <3>1
    <3>3. f[i + 2] \in D[i + 2]
      BY <3>1, <3>2
    <3>4. (i + 1) + 1 = i + 2
      OBVIOUS
    <3> QED
      BY <3>3, <3>4
  <2> QED
    BY <2>1
<1>4. Nat \subseteq S
  <2> HIDE DEF S
  <2> QED
    BY <1>2, <1>3, NatInd
<1>5. size - 1 \in S /\ (size - 1) + 1 = size
  BY <1>4
<1> QED
  BY <1>1, <1>5

LEMMA SyncBy ==
  ASSUME NEW s, s.pendingOutRec # 0, NEW size \in Nat,
         size = s.outReliable - s.pendingOutRec + 1, NEW D,
         [s EXCEPT !.outReliable = s.pendingOutRec - 1] \in D[0],
         \A i \in 1 .. size : \A x \in D[i - 1] : Sync(x) \in D[i]
  PROVE  \E x \in D[size] :
           SetChannelActor(s) = [x EXCEPT !.outReliable = s.outReliable, !.pendingOutRec = 0]
<1> DEFINE base == [s EXCEPT !.outReliable = s.pendingOutRec - 1]
<1>1. PICK f : /\ Syncs(f, size, base)
               /\ SetChannelActor(s) =
                    [f[size] EXCEPT !.outReliable = s.outReliable, !.pendingOutRec = 0]
  BY SetChannelActorIs
<1>a. base \in D[0]
  OBVIOUS
<1> HIDE DEF base
<1> DEFINE S == {i \in Nat : i <= size => f[i] \in D[i]}
<1>2. 0 \in S
  BY <1>1, <1>a DEF Syncs
<1>3. ASSUME NEW i \in Nat, i \in S PROVE i + 1 \in S
  <2>1. CASE i + 1 <= size
    <3>1. f[i] \in D[i] /\ i + 1 \in 1 .. size /\ (i + 1) - 1 = i
      BY <1>3, <2>1
    <3>2. f[i + 1] = Sync(f[i])
      BY <1>1, <3>1 DEF Syncs
    <3>3. f[i + 1] \in D[i + 1]
      BY <3>1, <3>2
    <3> QED
      BY <3>3
  <2> QED
    BY <2>1
<1>4. Nat \subseteq S
  <2> HIDE DEF S
  <2> QED
    BY <1>2, <1>3, NatInd
<1>5. f[size] \in D[size]
  BY <1>4
<1> QED
  BY <1>1, <1>5

-----------------------------------------------------------------------------
(* Types of the operators, and the fields they change.                     *)

Queue(s) == IF s.channel = NoChannel THEN <<>> ELSE s.channel.inRec
Records(s) == IF s.channel = NoChannel THEN <<>> ELSE s.channel.outRec

\* What the game was handed.
SameGame(s, t) == t.got = s.got /\ t.whole = s.whole /\ t.fresh = s.fresh

LEMMA ModulusPositive == MaxChSequence \in Nat \ {0}
  BY ChannelAssumption

LEMMA ChannelIn ==
  ASSUME NEW s \in End, s.channel # NoChannel
  PROVE  s.channel \in Channel
  BY DEF End

LEMMA WithChannel ==
  ASSUME NEW s \in End, NEW c \in Channel, NEW t, t = [s EXCEPT !.channel = c]
  PROVE  /\ t \in End /\ t.channel = c /\ c # NoChannel
         /\ t.state = s.state /\ t.wire = s.wire /\ t.sendBuffer = s.sendBuffer
         /\ t.unnotified = s.unnotified /\ t.outReliable = s.outReliable
         /\ t.inReliable = s.inReliable /\ t.pendingOutRec = s.pendingOutRec
         /\ t.fates = s.fates /\ t.receiving = s.receiving /\ SameGame(s, t)
<1>1. t \in End
  BY DEF End
<1>2. c # NoChannel
  BY NullAssumption
<1> QED
  BY <1>1, <1>2 DEF End, SameGame

LEMMA FlushedType ==
  ASSUME NEW s \in End, NEW t, t = Flushed(s)
  PROVE  /\ t \in End
         /\ t.wire = Append(s.wire, [bunches |-> s.sendBuffer, fates |-> s.fates])
         /\ t.sendBuffer = <<>> /\ t.unnotified = s.unnotified + 1
         /\ t.state = s.state /\ t.channel = s.channel /\ t.outReliable = s.outReliable
         /\ t.inReliable = s.inReliable /\ t.pendingOutRec = s.pendingOutRec
         /\ t.fates = s.fates /\ t.receiving = s.receiving /\ SameGame(s, t)
<1> DEFINE w == Append(s.wire, [bunches |-> s.sendBuffer, fates |-> s.fates])
           u == s.unnotified + 1
<1>1. w \in Seq(Packet) /\ u \in Nat /\ <<>> \in Seq(Bunch)
  BY DEF End, Packet
<1>2. Flushed(s) = [s EXCEPT !.wire = w, !.sendBuffer = <<>>, !.unnotified = u]
  BY DEF Flushed
<1> HIDE DEF w, u
<1>3. t \in End
  BY <1>1, <1>2 DEF End
<1>4. /\ t.wire = w /\ t.sendBuffer = <<>> /\ t.unnotified = u
      /\ t.state = s.state /\ t.channel = s.channel /\ t.outReliable = s.outReliable
      /\ t.inReliable = s.inReliable /\ t.pendingOutRec = s.pendingOutRec
      /\ t.fates = s.fates /\ t.receiving = s.receiving /\ SameGame(s, t)
  BY <1>2 DEF End, SameGame
<1> QED
  BY <1>3, <1>4 DEF w, u

\* A bunch as it is written into a packet.
OnWire(b) == [b EXCEPT !.seq = @ % MaxChSequence]

LEMMA OnWireType ==
  ASSUME NEW b \in Bunch
  PROVE  /\ OnWire(b) \in Bunch
         /\ OnWire(b).seq = b.seq % MaxChSequence /\ OnWire(b).rel = b.rel
         /\ OnWire(b).open = b.open /\ OnWire(b).close = b.close
         /\ OnWire(b).part = b.part /\ OnWire(b).tag = b.tag
<1> DEFINE q == b.seq % MaxChSequence
<1>1. q \in Nat
  BY ModulusPositive DEF Bunch
<1>2. OnWire(b) = [b EXCEPT !.seq = q]
  BY DEF OnWire
<1> HIDE DEF q
<1>3. /\ OnWire(b) \in Bunch
      /\ OnWire(b).seq = q /\ OnWire(b).rel = b.rel
      /\ OnWire(b).open = b.open /\ OnWire(b).close = b.close
      /\ OnWire(b).part = b.part /\ OnWire(b).tag = b.tag
  BY <1>1, <1>2 DEF Bunch
<1> QED
  BY <1>3 DEF q

LEMMA WriteBunchType ==
  ASSUME NEW s \in End, NEW b \in Bunch, NEW t, t = WriteBunch(s, b)
  PROVE  /\ t \in End
         /\ t.sendBuffer = Append(s.sendBuffer, OnWire(b))
         /\ t.wire = s.wire /\ t.unnotified = s.unnotified
         /\ t.state = s.state /\ t.channel = s.channel /\ t.outReliable = s.outReliable
         /\ t.inReliable = s.inReliable /\ t.pendingOutRec = s.pendingOutRec
         /\ t.fates = s.fates /\ t.receiving = s.receiving /\ SameGame(s, t)
<1> DEFINE w == Append(s.sendBuffer, OnWire(b))
<1>1. w \in Seq(Bunch)
  BY OnWireType DEF End
<1>2. t = [s EXCEPT !.sendBuffer = w]
  BY DEF WriteBunch, OnWire
<1> HIDE DEF w
<1>3. t \in End
  BY <1>1, <1>2 DEF End
<1>4. /\ t.sendBuffer = w
      /\ t.wire = s.wire /\ t.unnotified = s.unnotified
      /\ t.state = s.state /\ t.channel = s.channel /\ t.outReliable = s.outReliable
      /\ t.inReliable = s.inReliable /\ t.pendingOutRec = s.pendingOutRec
      /\ t.fates = s.fates /\ t.receiving = s.receiving /\ SameGame(s, t)
  BY <1>2 DEF End, SameGame
<1> QED
  BY <1>3, <1>4 DEF w

\* The bunch that PrepBunch makes of a part.
Stamped(s, bunch) ==
  LET seq == IF bunch.rel THEN s.outReliable + 1 ELSE 0
  IN  [bunch EXCEPT !.seq = seq, !.tag.seq = seq]

NewRecord(s, bunch) == [bunch |-> Stamped(s, bunch), packet |-> OutPacketId(s), acked |-> FALSE]

LEMMA StampedType ==
  ASSUME NEW s \in End, NEW bunch \in Bunch
  PROVE  /\ Stamped(s, bunch) \in Bunch
         /\ NewRecord(s, bunch) \in OutBunch
         /\ LET b == Stamped(s, bunch)
                q == IF bunch.rel THEN s.outReliable + 1 ELSE 0
            IN  /\ b.seq = q /\ b.rel = bunch.rel /\ b.open = bunch.open
                /\ b.close = bunch.close /\ b.part = bunch.part
                /\ b.tag = [bunch.tag EXCEPT !.seq = q]
<1> DEFINE q == IF bunch.rel THEN s.outReliable + 1 ELSE 0
           g == [bunch.tag EXCEPT !.seq = q]
<1>1. q \in Nat
  BY DEF End
<1>2. bunch.tag \in Tag
  BY DEF Bunch
<1> HIDE DEF q
<1>3. g \in Tag
  BY <1>1, <1>2 DEF Tag
<1>4. Stamped(s, bunch) = [bunch EXCEPT !.seq = q, !.tag = g]
  BY DEF Stamped, q, Bunch
<1> HIDE DEF g
<1>5. /\ Stamped(s, bunch) \in Bunch
      /\ LET b == Stamped(s, bunch)
         IN  /\ b.seq = q /\ b.rel = bunch.rel /\ b.open = bunch.open
             /\ b.close = bunch.close /\ b.part = bunch.part /\ b.tag = g
  BY <1>1, <1>3, <1>4 DEF Bunch
<1>6. OutPacketId(s) \in Nat
  BY DEF OutPacketId, End
<1>7. NewRecord(s, bunch) \in OutBunch
  BY <1>5, <1>6 DEF NewRecord, OutBunch
<1> QED
  BY <1>5, <1>7 DEF q, g

\* What PrepBunch does.
Prepared(s, bunch, t) ==
  /\ t \in End /\ t.channel \in Channel /\ t.channel # NoChannel
  /\ bunch.rel => /\ t.channel.outRec = Append(s.channel.outRec, NewRecord(s, bunch))
                  /\ t.outReliable = s.outReliable + 1
  /\ ~bunch.rel => /\ t.channel.outRec = s.channel.outRec
                   /\ t.outReliable = s.outReliable
  /\ t.channel.opened = TRUE /\ t.channel.closing = (s.channel.closing \/ bunch.close)
  /\ t.channel.openedLocally = s.channel.openedLocally
  /\ t.channel.openAcked = s.channel.openAcked
  /\ t.channel.inRec = s.channel.inRec /\ t.channel.inPartial = s.channel.inPartial
  /\ t.sendBuffer = Append(s.sendBuffer, OnWire(Stamped(s, bunch)))
  /\ t.wire = s.wire /\ t.unnotified = s.unnotified
  /\ t.state = s.state
  /\ t.inReliable = s.inReliable /\ t.pendingOutRec = s.pendingOutRec
  /\ t.fates = s.fates /\ t.receiving = s.receiving /\ SameGame(s, t)

LEMMA PrepBunchType ==
  ASSUME NEW s \in End, s.channel # NoChannel, NEW bunch \in Bunch,
         NEW t, t = PrepBunch(s, bunch)
  PROVE  Prepared(s, bunch, t)
<1> DEFINE b == Stamped(s, bunch)
           o == IF bunch.rel THEN Append(s.channel.outRec, NewRecord(s, bunch))
                ELSE s.channel.outRec
           cl == s.channel.closing \/ bunch.close
           c == [s.channel EXCEPT !.outRec = o, !.opened = TRUE, !.closing = cl]
           q == IF bunch.rel THEN s.outReliable + 1 ELSE s.outReliable
           u == [s EXCEPT !.outReliable = q, !.channel = c]
<1>1. s.channel \in Channel
  BY ChannelIn
<1>2. o \in Seq(OutBunch) /\ cl \in BOOLEAN /\ q \in Nat
  <2>1. s.channel.outRec \in Seq(OutBunch) /\ NewRecord(s, bunch) \in OutBunch
    BY <1>1, StampedType DEF Channel
  <2>2. o \in Seq(OutBunch)
    BY <2>1, AppendProperties
  <2>3. cl \in BOOLEAN
    OBVIOUS
  <2>4. q \in Nat
    BY DEF End
  <2> QED
    BY <2>2, <2>3, <2>4
<1>3. t = WriteBunch(u, b)
  <2>1. b.rel = bunch.rel /\ b.close = bunch.close
    BY StampedType
  <2>2. /\ q = IF b.rel THEN (IF bunch.rel THEN s.outReliable + 1 ELSE 0) ELSE s.outReliable
        /\ o = IF b.rel THEN Append(s.channel.outRec, NewRecord(s, bunch))
               ELSE s.channel.outRec
    BY <2>1
  <2>3. u = [s EXCEPT !.outReliable = IF b.rel THEN (IF bunch.rel THEN s.outReliable + 1 ELSE 0) ELSE @,
                      !.channel.outRec = IF b.rel THEN Append(@, NewRecord(s, bunch)) ELSE @,
                      !.channel.opened = TRUE,
                      !.channel.closing = @ \/ b.close]
    <3> HIDE DEF b
    <3> QED
      BY <1>1, <2>1, <2>2 DEF Channel, End
  <2> HIDE DEF u, q, o, cl, c
  <2> QED
    BY <2>3 DEF PrepBunch, Stamped, NewRecord
<1> HIDE DEF o, cl, q
<1>4. /\ c \in Channel
      /\ c.outRec = o /\ c.opened = TRUE /\ c.closing = cl
      /\ c.openedLocally = s.channel.openedLocally
      /\ c.openAcked = s.channel.openAcked
      /\ c.inRec = s.channel.inRec /\ c.inPartial = s.channel.inPartial
  BY <1>1, <1>2 DEF Channel
<1> HIDE DEF c
<1>5. /\ u \in End
      /\ u.channel = c /\ u.outReliable = q
      /\ u.sendBuffer = s.sendBuffer /\ u.wire = s.wire /\ u.unnotified = s.unnotified
      /\ u.state = s.state
      /\ u.inReliable = s.inReliable /\ u.pendingOutRec = s.pendingOutRec
      /\ u.fates = s.fates /\ u.receiving = s.receiving /\ SameGame(s, u)
  BY <1>2, <1>4 DEF End, SameGame
<1> HIDE DEF u
<1>6. c # NoChannel
  BY <1>4, NullAssumption
<1>7. b \in Bunch
  BY StampedType
<1> HIDE DEF b
<1>8. /\ t \in End /\ t.channel = c /\ t.outReliable = u.outReliable
      /\ t.sendBuffer = Append(u.sendBuffer, OnWire(b))
      /\ t.wire = u.wire /\ t.unnotified = u.unnotified /\ t.state = u.state
      /\ t.inReliable = u.inReliable /\ t.pendingOutRec = u.pendingOutRec
      /\ t.fates = u.fates /\ t.receiving = u.receiving /\ SameGame(u, t)
  BY <1>3, <1>5, <1>7, WriteBunchType
<1> QED
  BY <1>4, <1>5, <1>6, <1>8 DEF Prepared, o, cl, q, b, SameGame

LEMMA ErrorType ==
  ASSUME NEW s \in End, NEW x \in {"open", "closed", "error"},
         NEW t, t = [s EXCEPT !.state = x]
  PROVE  /\ t \in End /\ t.state = x
         /\ t.wire = s.wire /\ t.sendBuffer = s.sendBuffer /\ t.unnotified = s.unnotified
         /\ t.channel = s.channel /\ t.outReliable = s.outReliable
         /\ t.inReliable = s.inReliable /\ t.pendingOutRec = s.pendingOutRec
         /\ t.fates = s.fates /\ t.receiving = s.receiving /\ SameGame(s, t)
  BY DEF End, SameGame

LEMMA SkipAckType ==
  ASSUME NEW s \in End, NEW t, t = SkipAck(s)
  PROVE  /\ t \in End
         /\ t.receiving.busy = s.receiving.busy /\ t.receiving.bunches = s.receiving.bunches
         /\ t.receiving.lost = s.receiving.lost /\ t.receiving.skipAck = TRUE
         /\ t.state = s.state
         /\ t.wire = s.wire /\ t.sendBuffer = s.sendBuffer /\ t.unnotified = s.unnotified
         /\ t.channel = s.channel /\ t.outReliable = s.outReliable
         /\ t.inReliable = s.inReliable /\ t.pendingOutRec = s.pendingOutRec
         /\ t.fates = s.fates /\ SameGame(s, t)
<1> DEFINE r == [s.receiving EXCEPT !.skipAck = TRUE]
<1>1. /\ r \in Receiving
      /\ r.busy = s.receiving.busy /\ r.bunches = s.receiving.bunches
      /\ r.lost = s.receiving.lost /\ r.skipAck = TRUE
  BY DEF End, Receiving
<1>2. t = [s EXCEPT !.receiving = r]
  BY DEF SkipAck, End, Receiving
<1> HIDE DEF r
<1> QED
  BY <1>1, <1>2 DEF End, SameGame

LEMMA RawPartType ==
  ASSUME NEW s \in End, s.channel # NoChannel, NEW rel \in BOOLEAN, NEW close \in BOOLEAN,
         NEW tag \in Tag, NEW size \in Nat, NEW k \in Nat
  PROVE  /\ RawPart(s, rel, close, tag, size, k) \in Bunch
         /\ LET b == RawPart(s, rel, close, tag, size, k)
            IN  /\ b.rel = rel /\ b.part = PartOf(k, size)
                /\ b.open = (s.channel.openedLocally /\ ~s.channel.opened /\ k = 1)
                /\ b.close = (close /\ k = size)
                /\ b.tag = [tag EXCEPT !.k = k, !.of = size]
<1> DEFINE g == [tag EXCEPT !.k = k, !.of = size]
           o == s.channel.openedLocally /\ ~s.channel.opened /\ k = 1
           c == close /\ k = size
           p == PartOf(k, size)
<1>1. g \in Tag
  BY DEF Tag
<1>2. o \in BOOLEAN /\ c \in BOOLEAN
  OBVIOUS
<1>3. p \in Part
  BY DEF Part, PartOf
<1>4. RawPart(s, rel, close, tag, size, k) =
        [seq |-> 0, rel |-> rel, part |-> p, open |-> o, close |-> c, tag |-> g]
  BY DEF RawPart
<1> HIDE DEF g, o, c, p
<1>5. /\ RawPart(s, rel, close, tag, size, k) \in Bunch
      /\ LET b == RawPart(s, rel, close, tag, size, k)
         IN  b.rel = rel /\ b.part = p /\ b.open = o /\ b.close = c /\ b.tag = g
  BY <1>1, <1>2, <1>3, <1>4 DEF Bunch
<1> QED
  BY <1>5 DEF g, o, c, p

LEMMA MessageTagType ==
  ASSUME incarnation \in Nat, NEW n \in Nat,
         NEW kind \in {"reliable", "unreliable", "sync"}
  PROVE  /\ MessageTag(kind, n) \in Tag
         /\ MessageTag(kind, n).kind = kind /\ MessageTag(kind, n).inc = incarnation
         /\ MessageTag(kind, n).n = n
  BY DEF MessageTag, Tag

\* What sending through a channel leaves alone, and what it only adds to.
Writes(s, t) ==
  /\ t \in End /\ t.channel # NoChannel
  /\ t.inReliable = s.inReliable /\ t.fates = s.fates /\ t.receiving = s.receiving
  /\ t.pendingOutRec = s.pendingOutRec /\ SameGame(s, t)
  /\ t.channel.inRec = s.channel.inRec /\ t.channel.inPartial = s.channel.inPartial
  /\ t.channel.openedLocally = s.channel.openedLocally
  /\ t.channel.openAcked = s.channel.openAcked
  /\ t.outReliable >= s.outReliable
  /\ Len(t.channel.outRec) >= Len(s.channel.outRec)
  /\ \A i \in 1 .. Len(s.channel.outRec) : t.channel.outRec[i] = s.channel.outRec[i]
  /\ \A i \in Len(s.channel.outRec) + 1 .. Len(t.channel.outRec) :
       t.channel.outRec[i].bunch.seq <= t.outReliable
  /\ Len(t.wire) >= Len(s.wire)
  /\ t.unnotified - Len(t.wire) = s.unnotified - Len(s.wire)
  /\ \A i \in 1 .. Len(s.wire) : t.wire[i] = s.wire[i]
  /\ \A i \in Len(s.wire) + 1 .. Len(t.wire) : t.wire[i].fates = s.fates

LEMMA WritesTrans ==
  ASSUME NEW s \in End, s.channel # NoChannel, NEW t, Writes(s, t), NEW u, Writes(t, u)
  PROVE  Writes(s, u)
<1>1. s.channel \in Channel /\ t.channel \in Channel /\ u.channel \in Channel
  BY ChannelIn DEF Writes
<1>2. /\ s.channel.outRec \in Seq(OutBunch) /\ t.channel.outRec \in Seq(OutBunch)
      /\ u.channel.outRec \in Seq(OutBunch)
      /\ s.wire \in Seq(Packet) /\ t.wire \in Seq(Packet) /\ u.wire \in Seq(Packet)
      /\ s.outReliable \in Nat /\ t.outReliable \in Nat /\ u.outReliable \in Nat
      /\ s.unnotified \in Nat /\ t.unnotified \in Nat /\ u.unnotified \in Nat
  BY <1>1 DEF Writes, Channel, End
<1>3. \A i \in Len(s.channel.outRec) + 1 .. Len(u.channel.outRec) :
        u.channel.outRec[i].bunch.seq <= u.outReliable
  <2> TAKE i \in Len(s.channel.outRec) + 1 .. Len(u.channel.outRec)
  <2>1. CASE i <= Len(t.channel.outRec)
    <3>1. i \in 1 .. Len(t.channel.outRec) /\ i \in Len(s.channel.outRec) + 1 .. Len(t.channel.outRec)
      BY <1>2, <2>1
    <3>2. /\ u.channel.outRec[i] = t.channel.outRec[i]
          /\ t.channel.outRec[i].bunch.seq <= t.outReliable /\ t.outReliable <= u.outReliable
      BY <3>1 DEF Writes
    <3>3. t.channel.outRec[i] \in OutBunch
      BY <1>2, <3>1
    <3>4. t.channel.outRec[i].bunch.seq \in Nat
      BY <3>3 DEF OutBunch, Bunch
    <3>5. t.outReliable \in Nat /\ u.outReliable \in Nat
      BY <1>2
    <3>6. t.channel.outRec[i].bunch.seq <= u.outReliable
      BY <3>2, <3>4, <3>5
    <3> QED
      BY <3>2, <3>6
  <2>2. CASE i > Len(t.channel.outRec)
    BY <1>2, <2>2, SMTT(30) DEF Writes
  <2> QED
    BY <1>2, <2>1, <2>2, SMTT(30)
<1>4. \A i \in Len(s.wire) + 1 .. Len(u.wire) : u.wire[i].fates = s.fates
  <2> TAKE i \in Len(s.wire) + 1 .. Len(u.wire)
  <2>1. CASE i <= Len(t.wire)
    <3>1. i \in 1 .. Len(t.wire) /\ i \in Len(s.wire) + 1 .. Len(t.wire)
      BY <1>2, <2>1
    <3> QED
      BY <3>1 DEF Writes
  <2>2. CASE i > Len(t.wire)
    BY <1>2, <2>2 DEF Writes
  <2> QED
    BY <1>2, <2>1, <2>2
<1>5. \A i \in 1 .. Len(s.wire) : u.wire[i] = s.wire[i]
  BY <1>2 DEF Writes
<1>6. \A i \in 1 .. Len(s.channel.outRec) : u.channel.outRec[i] = s.channel.outRec[i]
  BY <1>2 DEF Writes
<1>7. /\ u.outReliable >= s.outReliable
      /\ Len(u.channel.outRec) >= Len(s.channel.outRec)
      /\ Len(u.wire) >= Len(s.wire)
      /\ u.unnotified - Len(u.wire) = s.unnotified - Len(s.wire)
  <2>1. /\ Len(s.channel.outRec) \in Nat /\ Len(t.channel.outRec) \in Nat
        /\ Len(u.channel.outRec) \in Nat
        /\ Len(s.wire) \in Nat /\ Len(t.wire) \in Nat /\ Len(u.wire) \in Nat
    BY <1>2, LenProperties
  <2>a. /\ s.outReliable \in Nat /\ t.outReliable \in Nat /\ u.outReliable \in Nat
        /\ s.unnotified \in Nat /\ t.unnotified \in Nat /\ u.unnotified \in Nat
    BY <1>2
  <2>2. /\ Len(u.wire) >= Len(t.wire) /\ Len(t.wire) >= Len(s.wire)
        /\ u.unnotified - Len(u.wire) = t.unnotified - Len(t.wire)
        /\ t.unnotified - Len(t.wire) = s.unnotified - Len(s.wire)
        /\ u.outReliable >= t.outReliable /\ t.outReliable >= s.outReliable
        /\ Len(u.channel.outRec) >= Len(t.channel.outRec)
        /\ Len(t.channel.outRec) >= Len(s.channel.outRec)
    BY DEF Writes
  <2> QED
    <3>1. u.outReliable >= s.outReliable
      BY <2>a, <2>2
    <3>2. Len(u.channel.outRec) >= Len(s.channel.outRec)
      BY <2>1, <2>2
    <3>3. Len(u.wire) >= Len(s.wire)
      BY <2>1, <2>2
    <3>4. u.unnotified - Len(u.wire) = s.unnotified - Len(s.wire)
      BY <2>2
    <3> QED
      BY <3>1, <3>2, <3>3, <3>4
<1> QED
  BY <1>3, <1>4, <1>5, <1>6, <1>7 DEF Writes, SameGame

LEMMA PrepBunchWrites ==
  ASSUME NEW s \in End, s.channel # NoChannel, NEW bunch \in Bunch
  PROVE  Writes(s, PrepBunch(s, bunch)) /\ PrepBunch(s, bunch).state = s.state
<1> SUFFICES ASSUME NEW t, t = PrepBunch(s, bunch) PROVE Writes(s, t) /\ t.state = s.state
  OBVIOUS
<1>0. s.channel \in Channel
  BY ChannelIn
<1>1. /\ s.channel.outRec \in Seq(OutBunch) /\ s.wire \in Seq(Packet)
      /\ s.outReliable \in Nat /\ s.unnotified \in Nat
  BY <1>0 DEF Channel, End
<1>2. NewRecord(s, bunch) \in OutBunch
      /\ (bunch.rel => NewRecord(s, bunch).bunch.seq = s.outReliable + 1)
  BY StampedType DEF NewRecord
<1>3. Prepared(s, bunch, t)
  BY PrepBunchType
<1>4. CASE bunch.rel
  <2>1. /\ Len(t.channel.outRec) = Len(s.channel.outRec) + 1
        /\ \A i \in 1 .. Len(s.channel.outRec) : t.channel.outRec[i] = s.channel.outRec[i]
        /\ t.channel.outRec[Len(s.channel.outRec) + 1] = NewRecord(s, bunch)
    <3>1. t.channel.outRec = Append(s.channel.outRec, NewRecord(s, bunch))
      BY <1>3, <1>4 DEF Prepared
    <3>2. s.channel.outRec \in Seq(OutBunch) /\ NewRecord(s, bunch) \in OutBunch
      BY <1>1, <1>2
    <3> QED
      BY <3>1, <3>2, AppendProperties
  <2>2. \A i \in Len(s.channel.outRec) + 1 .. Len(t.channel.outRec) :
          t.channel.outRec[i].bunch.seq <= t.outReliable
    <3>1. t.outReliable = s.outReliable + 1
      BY <1>3, <1>4 DEF Prepared
    <3>2. t.channel.outRec[Len(s.channel.outRec) + 1].bunch.seq = t.outReliable
      BY <1>2, <1>4, <2>1, <3>1
    <3>3. Len(s.channel.outRec) \in Nat
      BY <1>1
    <3> QED
      BY <1>1, <2>1, <3>1, <3>2, <3>3, SMTT(30)
  <2> QED
    BY <1>1, <1>3, <1>4, <2>1, <2>2 DEF Writes, Prepared
<1>5. CASE ~bunch.rel
  BY <1>1, <1>3, <1>5 DEF Writes, Prepared
<1> QED
  BY <1>4, <1>5

LEMMA FlushedWrites ==
  ASSUME NEW s \in End, s.channel # NoChannel
  PROVE  Writes(s, Flushed(s)) /\ Flushed(s).state = s.state
<1> SUFFICES ASSUME NEW t, t = Flushed(s) PROVE Writes(s, t) /\ t.state = s.state
  OBVIOUS
<1>0. s.channel \in Channel
  BY ChannelIn
<1>1. /\ s.channel.outRec \in Seq(OutBunch) /\ s.wire \in Seq(Packet)
      /\ s.outReliable \in Nat /\ s.unnotified \in Nat
      /\ [bunches |-> s.sendBuffer, fates |-> s.fates] \in Packet
  BY <1>0 DEF Channel, End, Packet
<1>2. /\ t \in End
      /\ t.wire = Append(s.wire, [bunches |-> s.sendBuffer, fates |-> s.fates])
      /\ t.unnotified = s.unnotified + 1
      /\ t.state = s.state /\ t.channel = s.channel /\ t.outReliable = s.outReliable
      /\ t.inReliable = s.inReliable /\ t.pendingOutRec = s.pendingOutRec
      /\ t.fates = s.fates /\ t.receiving = s.receiving /\ SameGame(s, t)
  BY FlushedType
<1>3. /\ Len(t.wire) = Len(s.wire) + 1
      /\ \A i \in 1 .. Len(s.wire) : t.wire[i] = s.wire[i]
      /\ t.wire[Len(s.wire) + 1] = [bunches |-> s.sendBuffer, fates |-> s.fates]
  BY <1>1, <1>2, AppendProperties
<1>4. \A i \in Len(s.wire) + 1 .. Len(t.wire) : t.wire[i].fates = s.fates
  BY <1>1, <1>3
<1> QED
  BY <1>1, <1>2, <1>3, <1>4, SMTT(30) DEF Writes

LEMMA SendBunchWrites ==
  ASSUME NEW s \in End, s.channel # NoChannel, NEW rel \in BOOLEAN, NEW close \in BOOLEAN,
         NEW tag \in Tag, NEW size \in Nat \ {0}
  PROVE  /\ Writes(s, SendBunch(s, rel, close, tag, size))
         /\ SendBunch(s, rel, close, tag, size).state \in {s.state, "closed"}
<1>1. CASE rel /\ OverflowsReliable(s, size, close)
  <2>1. SendBunch(s, rel, close, tag, size) = [s EXCEPT !.state = "closed"]
    BY <1>1 DEF SendBunch
  <2> DEFINE t == [s EXCEPT !.state = "closed"]
  <2>2. /\ t \in End /\ t.state = "closed"
        /\ t.wire = s.wire /\ t.unnotified = s.unnotified
        /\ t.channel = s.channel /\ t.outReliable = s.outReliable
        /\ t.inReliable = s.inReliable /\ t.pendingOutRec = s.pendingOutRec
        /\ t.fates = s.fates /\ t.receiving = s.receiving /\ SameGame(s, t)
    BY ErrorType
  <2>3. s.channel \in Channel
    BY ChannelIn
  <2>4. Len(s.channel.outRec) \in Nat /\ Len(s.wire) \in Nat /\ s.outReliable \in Nat
    BY <2>3 DEF Channel, End
  <2> HIDE DEF t
  <2>5. Writes(s, t)
    BY <2>2, <2>4 DEF Writes
  <2> QED
    BY <2>1, <2>2, <2>5 DEF t
<1>2. CASE ~(rel /\ OverflowsReliable(s, size, close))
  <2> DEFINE D == [k \in 1 .. size |-> {x \in End : Writes(s, x) /\ x.state = s.state}]
  <2>1. \A k \in 1 .. size : RawPart(s, rel, close, tag, size, k) \in Bunch
    <3> TAKE k \in 1 .. size
    <3>1. k \in Nat /\ size \in Nat
      OBVIOUS
    <3> QED
      BY <3>1, RawPartType
  <2>2. PrepBunch(s, RawPart(s, rel, close, tag, size, 1)) \in D[1]
    BY <2>1, PrepBunchWrites DEF Writes
  <2>3. ASSUME NEW k \in 2 .. size, NEW x \in D[k - 1]
        PROVE  PrepBunch(Flushed(x), RawPart(s, rel, close, tag, size, k)) \in D[k]
    <3> DEFINE b == RawPart(s, rel, close, tag, size, k)
    <3>1. x \in End /\ Writes(s, x) /\ x.state = s.state /\ b \in Bunch
      BY <2>1, <2>3
    <3> HIDE DEF D, b
    <3>2. x.channel # NoChannel
      BY <3>1 DEF Writes
    <3>3. Writes(x, Flushed(x)) /\ Flushed(x).state = s.state
      BY <3>1, <3>2, FlushedWrites
    <3>4. Flushed(x) \in End /\ Flushed(x).channel # NoChannel
      BY <3>3 DEF Writes
    <3>5. Writes(Flushed(x), PrepBunch(Flushed(x), b)) /\ PrepBunch(Flushed(x), b).state = s.state
      BY <3>1, <3>3, <3>4, PrepBunchWrites
    <3>6. Writes(s, Flushed(x))
      BY <3>1, <3>2, <3>3, WritesTrans
    <3>7. Writes(s, PrepBunch(Flushed(x), b))
      BY <3>4, <3>5, <3>6, WritesTrans
    <3>8. PrepBunch(Flushed(x), b) \in End
      BY <3>7 DEF Writes
    <3> QED
      BY <3>5, <3>7, <3>8 DEF D, b
  <2>4. SendBunch(s, rel, close, tag, size) \in D[size]
    <3> HIDE DEF D
    <3> QED
      BY <1>2, <2>2, <2>3, SendBunchBy
  <2> QED
    BY <2>4
<1> QED
  BY <1>1, <1>2

\* The empty bunch of SetChannelActor.
SyncPart(s) == RawPart(s, TRUE, FALSE, MessageTag("sync", 0), 1, 1)

LEMMA SyncIs ==
  ASSUME NEW s \in End, s.channel # NoChannel
  PROVE  /\ Len(s.channel.outRec) >= ReliableBuffer - 1 => Sync(s) = Error(s)
         /\ ~(Len(s.channel.outRec) >= ReliableBuffer - 1) => Sync(s) = PrepBunch(s, SyncPart(s))
<1>1. CASE Len(s.channel.outRec) >= ReliableBuffer - 1
  BY <1>1 DEF Sync
<1>2. CASE ~(Len(s.channel.outRec) >= ReliableBuffer - 1)
  <2>a. PICK rel, close : rel = TRUE /\ close = FALSE
    OBVIOUS
  <2> DEFINE D == [k \in 1 .. 1 |-> {PrepBunch(s, SyncPart(s))}]
             tag == MessageTag("sync", 0)
  <2>0. s.channel \in Channel
    BY ChannelIn
  <2>1. Len(s.channel.outRec) \in Nat /\ ReliableBuffer \in Nat
    BY <2>0, ChannelAssumption DEF Channel
  <2>2. ~(rel /\ OverflowsReliable(s, 1, close))
    BY <1>2, <2>a, <2>1 DEF OverflowsReliable
  <2>3. PrepBunch(s, RawPart(s, rel, close, tag, 1, 1)) \in D[1]
    <3>1. SyncPart(s) = RawPart(s, rel, close, tag, 1, 1)
      BY <2>a DEF SyncPart
    <3> HIDE DEF tag
    <3> QED
      BY <3>1
  <2> HIDE DEF D, tag
  <2>4. \A k \in 2 .. 1 : \A x \in D[k - 1] :
          PrepBunch(Flushed(x), RawPart(s, rel, close, tag, 1, k)) \in D[k]
    OBVIOUS
  <2>5. SendBunch(s, rel, close, tag, 1) \in D[1]
    BY <2>2, <2>3, <2>4, SendBunchBy
  <2>6. SendBunch(s, rel, close, tag, 1) = PrepBunch(s, SyncPart(s))
    BY <2>5 DEF D
  <2>7. Sync(s) = SendBunch(s, TRUE, FALSE, tag, 1)
    BY <1>2 DEF Sync, tag
  <2> QED
    BY <1>2, <2>a, <2>6, <2>7
<1> QED
  BY <1>1, <1>2

LEMMA SyncPartType ==
  ASSUME NEW s \in End, s.channel # NoChannel, incarnation \in Nat
  PROVE  /\ SyncPart(s) \in Bunch
         /\ SyncPart(s).rel = TRUE /\ SyncPart(s).part = "whole" /\ SyncPart(s).close = FALSE
         /\ SyncPart(s).open = (s.channel.openedLocally /\ ~s.channel.opened)
         /\ SyncPart(s).tag = [MessageTag("sync", 0) EXCEPT !.k = 1, !.of = 1]
<1> DEFINE tag == MessageTag("sync", 0)
           g == [tag EXCEPT !.k = 1, !.of = 1]
           o == s.channel.openedLocally /\ ~s.channel.opened
<1>1. tag \in Tag
  BY MessageTagType
<1>2. g \in Tag
  BY <1>1 DEF Tag
<1>3. SyncPart(s) =
        [seq |-> 0, rel |-> TRUE, part |-> "whole", open |-> o, close |-> FALSE, tag |-> g]
  BY DEF SyncPart, RawPart, PartOf
<1>4. o \in BOOLEAN
  OBVIOUS
<1>5. "whole" \in Part
  BY DEF Part
<1> HIDE DEF g, o, tag
<1>6. /\ SyncPart(s) \in Bunch
      /\ SyncPart(s).rel = TRUE /\ SyncPart(s).part = "whole" /\ SyncPart(s).close = FALSE
      /\ SyncPart(s).open = o /\ SyncPart(s).tag = g
  BY <1>2, <1>3, <1>4, <1>5 DEF Bunch
<1> QED
  BY <1>6 DEF g, o, tag

\* What the empty bunches of a new channel leave alone.
Synced(s, t) ==
  /\ t \in End /\ t.channel # NoChannel
  /\ t.inReliable = s.inReliable /\ t.fates = s.fates /\ t.receiving = s.receiving
  /\ SameGame(s, t) /\ t.wire = s.wire /\ t.unnotified = s.unnotified
  /\ t.channel.inRec = s.channel.inRec /\ t.channel.inPartial = s.channel.inPartial
  /\ t.channel.openedLocally = s.channel.openedLocally
  /\ t.channel.openAcked = s.channel.openAcked
  /\ t.state = s.state \/ t.state = "error"

Bounded(s) ==
  /\ s.pendingOutRec <= s.outReliable + 1
  /\ \A i \in DOMAIN Records(s) : Records(s)[i].bunch.seq <= s.outReliable

LEMMA SetChannelActorType ==
  ASSUME NEW s \in End, s.channel # NoChannel, Bounded(s), incarnation \in Nat
  PROVE  /\ Synced(s, SetChannelActor(s)) /\ Bounded(SetChannelActor(s))
         /\ SetChannelActor(s).outReliable = s.outReliable
         /\ SetChannelActor(s).pendingOutRec = 0
<1>0. s.channel \in Channel /\ s.outReliable \in Nat /\ s.pendingOutRec \in Nat
  BY ChannelIn DEF End
<1>1. CASE s.pendingOutRec = 0
  <2>1. SetChannelActor(s) = s
    BY <1>1 DEF SetChannelActor
  <2>2. Synced(s, s)
    BY DEF Synced, SameGame
  <2> QED
    BY <1>1, <2>1, <2>2
<1>2. CASE s.pendingOutRec # 0
  <2> DEFINE size == s.outReliable - s.pendingOutRec + 1
             base == [s EXCEPT !.outReliable = s.pendingOutRec - 1]
             D == [i \in 0 .. size |->
                     {x \in End :
                        /\ Synced(s, x)
                        /\ x.outReliable <= s.pendingOutRec - 1 + i
                        /\ \A j \in DOMAIN x.channel.outRec :
                             x.channel.outRec[j].bunch.seq <= s.outReliable}]
  <2>1. size \in Nat
    BY <1>0 DEF Bounded
  <2>2. s.pendingOutRec - 1 \in Nat
    BY <1>0, <1>2
  <2>3. /\ base \in End /\ base.outReliable = s.pendingOutRec - 1
        /\ base.channel = s.channel
        /\ Synced(s, base)
    BY <2>2 DEF End, Synced, SameGame
  <2> HIDE DEF base
  <2>4. base \in D[0]
    <3>1. \A j \in DOMAIN base.channel.outRec : base.channel.outRec[j].bunch.seq <= s.outReliable
      BY <2>3 DEF Bounded, Records
    <3> QED
      BY <2>1, <2>2, <2>3, <3>1
  <2> HIDE DEF size
  <2>5. ASSUME NEW i \in 1 .. size, NEW x \in D[i - 1] PROVE Sync(x) \in D[i]
    <3>1. /\ x \in End /\ Synced(s, x)
          /\ x.outReliable <= s.pendingOutRec - 1 + (i - 1)
          /\ \A j \in DOMAIN x.channel.outRec :
               x.channel.outRec[j].bunch.seq <= s.outReliable
      BY <2>1
    <3>2. x.channel # NoChannel /\ x.channel \in Channel /\ x.outReliable \in Nat
      BY <3>1, ChannelIn DEF Synced, End
    <3> SUFFICES /\ Sync(x) \in End /\ Synced(s, Sync(x))
                 /\ Sync(x).outReliable <= s.pendingOutRec - 1 + i
                 /\ \A j \in DOMAIN Sync(x).channel.outRec :
                      Sync(x).channel.outRec[j].bunch.seq <= s.outReliable
      BY <2>1
    <3> HIDE DEF D
    <3>3. CASE Len(x.channel.outRec) >= ReliableBuffer - 1
      <4>1. Sync(x) = Error(x)
        BY <3>1, <3>2, <3>3, SyncIs
      <4>2. PICK t : t = Error(x)
        OBVIOUS
      <4>3. /\ t \in End /\ t.state = "error"
            /\ t.wire = x.wire /\ t.sendBuffer = x.sendBuffer /\ t.unnotified = x.unnotified
            /\ t.channel = x.channel /\ t.outReliable = x.outReliable
            /\ t.inReliable = x.inReliable /\ t.pendingOutRec = x.pendingOutRec
            /\ t.fates = x.fates /\ t.receiving = x.receiving /\ SameGame(x, t)
        BY <3>1, <4>2, ErrorType DEF Error
      <4>4. Synced(s, t)
        BY <3>1, <4>3 DEF Synced, SameGame
      <4>5. t.outReliable <= s.pendingOutRec - 1 + i
        BY <1>0, <3>1, <3>2, <4>3
      <4> QED
        BY <3>1, <4>1, <4>2, <4>3, <4>4, <4>5
    <3>4. CASE ~(Len(x.channel.outRec) >= ReliableBuffer - 1)
      <4> DEFINE b == SyncPart(x)
      <4>1. Sync(x) = PrepBunch(x, b)
        BY <3>1, <3>2, <3>4, SyncIs
      <4>2. b \in Bunch /\ b.rel
        BY <3>1, <3>2, SyncPartType
      <4> HIDE DEF b
      <4>3. PICK t : t = PrepBunch(x, b)
        OBVIOUS
      <4>4. Prepared(x, b, t)
        BY <3>1, <3>2, <4>2, <4>3, PrepBunchType
      <4>5. Synced(s, t)
        BY <3>1, <4>4 DEF Synced, Prepared, SameGame
      <4>6. t.outReliable = x.outReliable + 1
        BY <4>2, <4>4 DEF Prepared
      <4>7. t.outReliable <= s.pendingOutRec - 1 + i /\ t.outReliable <= s.outReliable
        BY <1>0, <3>1, <3>2, <4>6 DEF size
      <4>8. /\ x.channel.outRec \in Seq(OutBunch)
            /\ NewRecord(x, b) \in OutBunch
            /\ NewRecord(x, b).bunch.seq = x.outReliable + 1
        BY <3>1, <3>2, <4>2, StampedType DEF NewRecord, Channel
      <4>9. t.channel.outRec = Append(x.channel.outRec, NewRecord(x, b))
        BY <4>2, <4>4 DEF Prepared
      <4>10. \A j \in DOMAIN t.channel.outRec : t.channel.outRec[j].bunch.seq <= s.outReliable
        <5> TAKE j \in DOMAIN t.channel.outRec
        <5>1. j \in 1 .. Len(x.channel.outRec) + 1
          BY <4>8, <4>9
        <5>2. CASE j \in 1 .. Len(x.channel.outRec)
          <6>1. t.channel.outRec[j] = x.channel.outRec[j] /\ j \in DOMAIN x.channel.outRec
            BY <4>8, <4>9, <5>2
          <6> QED
            BY <3>1, <6>1
        <5>3. CASE j = Len(x.channel.outRec) + 1
          <6>1. t.channel.outRec[j] = NewRecord(x, b)
            BY <4>8, <4>9, <5>3
          <6> QED
            BY <4>6, <4>7, <4>8, <6>1
        <5> QED
          BY <4>8, <5>1, <5>2, <5>3
      <4>11. t \in End
        BY <4>4 DEF Prepared
      <4> QED
        BY <4>1, <4>3, <4>5, <4>7, <4>10, <4>11
    <3> QED
      BY <3>3, <3>4
  <2>6. PICK x \in D[size] :
          SetChannelActor(s) = [x EXCEPT !.outReliable = s.outReliable, !.pendingOutRec = 0]
    <3> HIDE DEF D
    <3> QED
      BY <1>2, <2>1, <2>4, <2>5, SyncBy DEF base, size
  <2>7. /\ x \in End /\ Synced(s, x)
        /\ \A j \in DOMAIN x.channel.outRec : x.channel.outRec[j].bunch.seq <= s.outReliable
    BY <2>1
  <2> HIDE DEF D
  <2>8. PICK t : t = SetChannelActor(s)
    OBVIOUS
  <2>9. /\ t \in End /\ t.outReliable = s.outReliable /\ t.pendingOutRec = 0
        /\ t.wire = x.wire /\ t.unnotified = x.unnotified
        /\ t.channel = x.channel /\ t.state = x.state
        /\ t.inReliable = x.inReliable
        /\ t.fates = x.fates /\ t.receiving = x.receiving /\ SameGame(x, t)
    <3>1. PICK o \in Nat, p \in Nat : o = s.outReliable /\ p = 0
      BY <1>0
    <3>2. t = [x EXCEPT !.outReliable = o, !.pendingOutRec = p]
      BY <2>6, <2>8, <3>1
    <3>3. /\ t \in End /\ t.outReliable = o /\ t.pendingOutRec = p
          /\ t.wire = x.wire /\ t.unnotified = x.unnotified
          /\ t.channel = x.channel /\ t.state = x.state
          /\ t.inReliable = x.inReliable
          /\ t.fates = x.fates /\ t.receiving = x.receiving /\ SameGame(x, t)
      BY <2>7, <3>2 DEF End, SameGame
    <3> QED
      BY <3>1, <3>3
  <2>10. Synced(s, t)
    BY <2>7, <2>9 DEF Synced, SameGame
  <2>11. Bounded(t)
    BY <1>0, <2>7, <2>9 DEF Bounded, Records, Synced
  <2> QED
    BY <2>8, <2>9, <2>10, <2>11
<1> QED
  BY <1>1, <1>2

LEMMA CleanUpType ==
  ASSUME NEW s \in End, s.channel # NoChannel, NEW t, t = CleanUp(s)
  PROVE  /\ t \in End /\ t.channel = NoChannel /\ t.state = s.state
         /\ t.wire = s.wire /\ t.sendBuffer = s.sendBuffer /\ t.unnotified = s.unnotified
         /\ t.outReliable = s.outReliable /\ t.inReliable = s.inReliable
         /\ t.fates = s.fates /\ t.receiving = s.receiving /\ SameGame(s, t)
         /\ s.channel.outRec = <<>> => t.pendingOutRec = s.pendingOutRec
         /\ s.channel.outRec # <<>> => t.pendingOutRec = s.channel.outRec[1].bunch.seq
<1> DEFINE p == IF s.channel.outRec # <<>> THEN s.channel.outRec[1].bunch.seq
                ELSE s.pendingOutRec
<1>1. s.channel.outRec \in Seq(OutBunch) /\ s.pendingOutRec \in Nat
  BY ChannelIn DEF Channel, End
<1>2. p \in Nat
  <2>1. CASE s.channel.outRec # <<>>
    <3>1. s.channel.outRec[1] \in OutBunch
      BY <1>1, <2>1
    <3> QED
      BY <2>1, <3>1 DEF OutBunch, Bunch
  <2> QED
    BY <1>1, <2>1
<1>3. t = [s EXCEPT !.pendingOutRec = p, !.channel = NoChannel]
  BY DEF CleanUp
<1>4. s.channel.outRec = <<>> => p = s.pendingOutRec
  OBVIOUS
<1>5. s.channel.outRec # <<>> => p = s.channel.outRec[1].bunch.seq
  OBVIOUS
<1> HIDE DEF p
<1>6. t \in End /\ t.pendingOutRec = p /\ t.channel = NoChannel
  BY <1>2, <1>3 DEF End
<1>7. /\ t.state = s.state
      /\ t.wire = s.wire /\ t.sendBuffer = s.sendBuffer /\ t.unnotified = s.unnotified
      /\ t.outReliable = s.outReliable /\ t.inReliable = s.inReliable
      /\ t.fates = s.fates /\ t.receiving = s.receiving /\ SameGame(s, t)
  BY <1>3 DEF End, SameGame
<1> QED
  BY <1>4, <1>5, <1>6, <1>7

\* Acknowledged bunches are released from the front, and only they.
LEMMA ReleasedProps ==
  ASSUME NEW outRec \in Seq(OutBunch)
  PROVE  /\ Released(outRec) \in 0 .. Len(outRec)
         /\ \A i \in 1 .. Released(outRec) : outRec[i].acked
         /\ Released(outRec) # 0 /\ Released(outRec) < Len(outRec)
              => ~outRec[Released(outRec) + 1].acked
<1> DEFINE ackedTo(n) == \A i \in 1..n : outRec[i].acked
           Front(n) == ackedTo(n) /\ (n < Len(outRec) => ~outRec[n + 1].acked)
           openEnd == CHOOSE i \in 1..Len(outRec) :
                        /\ outRec[i].bunch.part \in {"whole", "final"}
                        /\ \A j \in 1 .. i - 1 : outRec[j].bunch.part \notin {"whole", "final"}
           B == {i \in Nat : i + 1 > Len(outRec) \/ ~outRec[i + 1].acked}
<1>1. Len(outRec) \in Nat
  OBVIOUS
<1>2. PICK n \in B : \A k \in B : n <= k
  <2>1. Len(outRec) \in B
    BY <1>1
  <2> HIDE DEF B
  <2> QED
    BY <2>1, LeastOf DEF B
<1>3. n \in 0 .. Len(outRec)
  <2>1. Len(outRec) \in B
    BY <1>1
  <2> QED
    BY <1>1, <1>2, <2>1
<1>4. ASSUME NEW i \in 1 .. n PROVE outRec[i].acked
  <2>1. i - 1 \in Nat /\ i - 1 < n
    BY <1>3
  <2>2. i - 1 \notin B
    <3>1. n \in Int /\ i - 1 \in Int /\ ~(n <= i - 1)
      BY <1>3, <2>1
    <3> HIDE DEF B
    <3> QED
      BY <1>2, <3>1
  <2>3. (i - 1) + 1 = i
    BY <2>1
  <2> QED
    BY <2>1, <2>2, <2>3
<1>5. Front(n)
  BY <1>1, <1>2, <1>3, <1>4
<1> DEFINE m == CHOOSE k \in 0 .. Len(outRec) : Front(k)
<1>6. m \in 0 .. Len(outRec) /\ Front(m)
  <2> HIDE DEF Front, ackedTo, B
  <2> QED
    BY <1>3, <1>5
<1>7. Released(outRec) = IF outRec # <<>> /\ outRec[1].bunch.open /\ ~ackedTo(openEnd) THEN 0 ELSE m
  BY DEF Released
<1> HIDE DEF m, openEnd
<1>8. CASE Released(outRec) = 0
  BY <1>1, <1>8
<1>9. CASE Released(outRec) # 0
  <2>1. Released(outRec) = m
    BY <1>7, <1>9
  <2> QED
    BY <1>6, <2>1
<1> QED
  BY <1>8, <1>9

\* A bunch after which the message goes on.
More(b) == b.part \in {"initial", "middle"}

\* An open is not released before its last part.
LEMMA ReleasedTogether ==
  ASSUME NEW outRec \in Seq(OutBunch), outRec # <<>>, outRec[1].bunch.open,
         NEW l \in 1 .. Len(outRec), ~More(outRec[l].bunch), NEW n, n = Released(outRec), n > 0
  PROVE  \E i \in 1 .. n : ~More(outRec[i].bunch)
<1> DEFINE ackedTo(k) == \A i \in 1..k : outRec[i].acked
           Ends(i) == outRec[i].bunch.part \in {"whole", "final"}
           First(i) == Ends(i) /\ \A j \in 1 .. i - 1 : ~Ends(j)
           openEnd == CHOOSE i \in 1..Len(outRec) : First(i)
           B == {i \in Nat : i \in 1 .. Len(outRec) /\ Ends(i)}
<1>1. Len(outRec) \in Nat /\ \A i \in 1 .. Len(outRec) : outRec[i] \in OutBunch
  BY ElementOfSeq
<1>2. \A i \in 1 .. Len(outRec) : Ends(i) <=> ~More(outRec[i].bunch)
  BY <1>1 DEF OutBunch, Bunch, Part, More
<1> HIDE DEF Ends
<1>3. PICK m \in B : \A k \in B : m <= k
  <2>1. l \in B
    BY <1>1, <1>2
  <2> HIDE DEF B
  <2> QED
    BY <2>1, LeastOf DEF B
<1>4. m \in 1 .. Len(outRec) /\ First(m)
  <2> SUFFICES ASSUME NEW j \in 1 .. m - 1, Ends(j) PROVE FALSE
    BY <1>3
  <2>1. j \in B
    BY <1>1, <1>3
  <2>2. m <= j
    BY <1>3, <2>1
  <2> QED
    BY <1>3, <2>2
<1> HIDE DEF First, B
<1>5. openEnd \in 1 .. Len(outRec) /\ First(openEnd)
  BY <1>4
<1>6. outRec # <<>> /\ outRec[1].bunch.open /\ ~ackedTo(openEnd) => Released(outRec) = 0
  BY DEF Released, First, Ends
<1> HIDE DEF openEnd
<1>7. ackedTo(openEnd)
  <2> HIDE DEF ackedTo
  <2> QED
    BY <1>6
<1>8. n \in 0 .. Len(outRec) /\ (n < Len(outRec) => ~outRec[n + 1].acked)
  BY ReleasedProps
<1>9. openEnd <= n
  <2> SUFFICES ASSUME ~(openEnd <= n) PROVE FALSE
    OBVIOUS
  <2>1. n + 1 \in 1 .. openEnd /\ n < Len(outRec)
    BY <1>1, <1>5, <1>8
  <2> QED
    BY <1>7, <1>8, <2>1
<1> QED
  BY <1>2, <1>5, <1>8, <1>9 DEF First

\* The records that ReceivedAcks leaves.
Rest(outRec) == SubSeq(outRec, Released(outRec) + 1, Len(outRec))

LEMMA RestProps ==
  ASSUME NEW outRec \in Seq(OutBunch), NEW n, n = Released(outRec)
  PROVE  /\ Rest(outRec) \in Seq(OutBunch)
         /\ Len(Rest(outRec)) = Len(outRec) - n
         /\ \A i \in 1 .. Len(outRec) - n : Rest(outRec)[i] = outRec[n + i]
<1>1. n \in 0 .. Len(outRec) /\ Len(outRec) \in Nat
  BY ReleasedProps
<1>2. \A i \in n + 1 .. Len(outRec) : outRec[i] \in OutBunch
  BY <1>1
<1>3. n + 1 \in Int /\ Len(outRec) \in Int
  BY <1>1
<1>4. /\ SubSeq(outRec, n + 1, Len(outRec)) \in Seq(OutBunch)
      /\ Len(SubSeq(outRec, n + 1, Len(outRec))) =
           IF n + 1 <= Len(outRec) THEN Len(outRec) - (n + 1) + 1 ELSE 0
      /\ \A i \in 1 .. Len(outRec) - (n + 1) + 1 :
           SubSeq(outRec, n + 1, Len(outRec))[i] = outRec[(n + 1) + i - 1]
  BY <1>2, <1>3, SubSeqProperties
<1>5. Len(SubSeq(outRec, n + 1, Len(outRec))) = Len(outRec) - n
  BY <1>1, <1>4
<1>6. \A i \in 1 .. Len(outRec) - n :
        SubSeq(outRec, n + 1, Len(outRec))[i] = outRec[n + i]
  <2> TAKE i \in 1 .. Len(outRec) - n
  <2>1. i \in 1 .. Len(outRec) - (n + 1) + 1 /\ (n + 1) + i - 1 = n + i
    BY <1>1
  <2> QED
    BY <1>4, <2>1
<1> QED
  BY <1>4, <1>5, <1>6 DEF Rest

\* What ReceivedAcks does.
AcksTaken(s, t) ==
  LET outRec == s.channel.outRec
      n      == Released(outRec)
      closed == \E i \in 1 .. n : outRec[i].bunch.close
  IN  /\ t \in End
      /\ t.wire = s.wire /\ t.sendBuffer = s.sendBuffer /\ t.unnotified = s.unnotified
      /\ t.outReliable = s.outReliable /\ t.inReliable = s.inReliable
      /\ t.fates = s.fates /\ t.receiving = s.receiving /\ SameGame(s, t)
      /\ t.pendingOutRec = s.pendingOutRec
      /\ ~(closed /\ Rest(outRec) = <<>>) =>
           /\ t.channel # NoChannel
           /\ t.channel.outRec = Rest(outRec)
           /\ t.channel.opened = s.channel.opened /\ t.channel.closing = s.channel.closing
           /\ t.channel.openedLocally = s.channel.openedLocally
           /\ t.channel.openAcked = (s.channel.openAcked \/ (n > 0 /\ outRec[1].bunch.open))
           /\ t.channel.inRec = s.channel.inRec /\ t.channel.inPartial = s.channel.inPartial
      /\ ~closed => t.state = s.state
      /\ closed /\ Rest(outRec) # <<>> => t.state = "error"
      /\ closed /\ Rest(outRec) = <<>> => t.channel = NoChannel /\ t.state = s.state

LEMMA ReceivedAcksType ==
  ASSUME NEW s \in End, s.channel # NoChannel, NEW t, t = ReceivedAcks(s)
  PROVE  AcksTaken(s, t)
<1> DEFINE outRec == s.channel.outRec
           n == Released(outRec)
           closed == \E i \in 1 .. n : outRec[i].bunch.close
           rest == Rest(outRec)
           oa == s.channel.openAcked \/ (n > 0 /\ outRec[1].bunch.open)
           c == [s.channel EXCEPT !.outRec = rest, !.openAcked = oa]
           u == [s EXCEPT !.channel = c]
<1>1. s.channel \in Channel
  BY ChannelIn
<1>2. outRec \in Seq(OutBunch)
  BY <1>1 DEF Channel
<1>3. rest \in Seq(OutBunch)
  BY <1>2, RestProps
<1>4. oa \in BOOLEAN
  OBVIOUS
<1>5. u = [s EXCEPT !.channel.outRec = rest, !.channel.openAcked = @ \/ (n > 0 /\ outRec[1].bunch.open)]
  <2> HIDE DEF n, outRec, rest
  <2> QED
    BY <1>1 DEF Channel, End
<1>6. t = IF closed THEN (IF rest # <<>> THEN Error(u) ELSE CleanUp(u)) ELSE u
  <2> HIDE DEF u
  <2> QED
    BY <1>5 DEF ReceivedAcks, Rest
<1> HIDE DEF oa, rest, closed, n, outRec
<1>7. /\ c \in Channel
      /\ c.outRec = rest /\ c.openAcked = oa
      /\ c.opened = s.channel.opened /\ c.closing = s.channel.closing
      /\ c.openedLocally = s.channel.openedLocally
      /\ c.inRec = s.channel.inRec /\ c.inPartial = s.channel.inPartial
  BY <1>1, <1>3, <1>4 DEF Channel
<1> HIDE DEF c
<1>8. /\ u \in End /\ u.channel = c /\ c # NoChannel
      /\ u.state = s.state /\ u.wire = s.wire /\ u.sendBuffer = s.sendBuffer
      /\ u.unnotified = s.unnotified /\ u.outReliable = s.outReliable
      /\ u.inReliable = s.inReliable /\ u.pendingOutRec = s.pendingOutRec
      /\ u.fates = s.fates /\ u.receiving = s.receiving /\ SameGame(s, u)
  BY <1>7, WithChannel
<1> HIDE DEF u
<1>9. CASE ~closed
  <2>1. t = u
    BY <1>6, <1>9
  <2> QED
    BY <1>7, <1>8, <1>9, <2>1 DEF AcksTaken, closed, n, outRec, rest, oa
<1>10. CASE closed /\ rest # <<>>
  <2>1. t = Error(u)
    BY <1>6, <1>10
  <2>2. /\ t \in End /\ t.state = "error"
        /\ t.wire = u.wire /\ t.sendBuffer = u.sendBuffer /\ t.unnotified = u.unnotified
        /\ t.channel = u.channel /\ t.outReliable = u.outReliable
        /\ t.inReliable = u.inReliable /\ t.pendingOutRec = u.pendingOutRec
        /\ t.fates = u.fates /\ t.receiving = u.receiving /\ SameGame(u, t)
    BY <1>8, <2>1, ErrorType DEF Error
  <2> QED
    BY <1>7, <1>8, <1>10, <2>2 DEF AcksTaken, closed, n, outRec, rest, oa, SameGame
<1>11. CASE closed /\ rest = <<>>
  <2>1. t = CleanUp(u)
    BY <1>6, <1>11
  <2>2. /\ t \in End /\ t.channel = NoChannel /\ t.state = u.state
        /\ t.wire = u.wire /\ t.sendBuffer = u.sendBuffer /\ t.unnotified = u.unnotified
        /\ t.outReliable = u.outReliable /\ t.inReliable = u.inReliable
        /\ t.fates = u.fates /\ t.receiving = u.receiving /\ SameGame(u, t)
        /\ u.channel.outRec = <<>> => t.pendingOutRec = u.pendingOutRec
    BY <1>8, <2>1, CleanUpType
  <2>3. t.pendingOutRec = s.pendingOutRec
    BY <1>7, <1>8, <1>11, <2>2
  <2> QED
    BY <1>8, <1>11, <2>2, <2>3 DEF AcksTaken, closed, n, outRec, rest, SameGame
<1> QED
  BY <1>9, <1>10, <1>11

\* A record after the oldest packet was acknowledged, and after it was lost.
AckedRecord(o) ==
  [bunch |-> o.bunch, packet |-> IF o.packet = 0 THEN 0 ELSE o.packet - 1,
   acked |-> o.acked \/ o.packet = 1]
NakedRecord(o, k) ==
  [bunch |-> o.bunch,
   packet |-> IF Lost(o) THEN k ELSE IF o.packet = 0 THEN 0 ELSE o.packet - 1,
   acked |-> o.acked]

LEMMA RecordType ==
  ASSUME NEW o \in OutBunch, NEW k \in Nat
  PROVE  /\ AckedRecord(o) \in OutBunch /\ NakedRecord(o, k) \in OutBunch
         /\ AckedRecord(o).bunch = o.bunch /\ NakedRecord(o, k).bunch = o.bunch
         /\ AckedRecord(o).acked = (o.acked \/ o.packet = 1) /\ NakedRecord(o, k).acked = o.acked
         /\ o.packet = 0 => AckedRecord(o).packet = 0 /\ NakedRecord(o, k).packet = 0
         /\ o.packet # 0 => AckedRecord(o).packet = o.packet - 1
         /\ o.packet # 0 /\ ~Lost(o) => NakedRecord(o, k).packet = o.packet - 1
         /\ Lost(o) => NakedRecord(o, k).packet = k
<1> DEFINE p == IF o.packet = 0 THEN 0 ELSE o.packet - 1
           q == IF Lost(o) THEN k ELSE p
           a == o.acked \/ o.packet = 1
<1>1. o.packet \in Nat /\ o.acked \in BOOLEAN /\ o.bunch \in Bunch
  BY DEF OutBunch
<1>2. p \in Nat /\ a \in BOOLEAN
  BY <1>1
<1>3. q \in Nat
  BY <1>2
<1>4. /\ o.packet = 0 => p = 0
      /\ o.packet # 0 => p = o.packet - 1
      /\ Lost(o) => q = k
      /\ ~Lost(o) => q = p
      /\ Lost(o) => o.packet # 0
  BY DEF Lost
<1>5. /\ AckedRecord(o) = [bunch |-> o.bunch, packet |-> p, acked |-> a]
      /\ NakedRecord(o, k) = [bunch |-> o.bunch, packet |-> q, acked |-> o.acked]
  BY DEF AckedRecord, NakedRecord
<1>a. a = (o.acked \/ o.packet = 1)
  OBVIOUS
<1> HIDE DEF p, q, a
<1>6. /\ AckedRecord(o) \in OutBunch /\ NakedRecord(o, k) \in OutBunch
      /\ AckedRecord(o).bunch = o.bunch /\ NakedRecord(o, k).bunch = o.bunch
      /\ AckedRecord(o).acked = a /\ NakedRecord(o, k).acked = o.acked
      /\ AckedRecord(o).packet = p /\ NakedRecord(o, k).packet = q
  BY <1>1, <1>2, <1>3, <1>5 DEF OutBunch
<1> QED
  BY <1>4, <1>6, <1>a

LEMMA WithPacket ==
  ASSUME NEW o \in OutBunch, NEW p \in Nat
  PROVE  [o EXCEPT !.packet = p] = [bunch |-> o.bunch, packet |-> p, acked |-> o.acked]
  BY DEF OutBunch

LEMMA ReceivedAckType ==
  ASSUME NEW s \in End, s.channel # NoChannel, NEW t, t = ReceivedAck(s)
  PROVE  \E u \in End :
           /\ AcksTaken(u, t)
           /\ u.channel \in Channel /\ u.channel # NoChannel
           /\ u.channel.outRec = [i \in 1 .. Len(s.channel.outRec) |-> AckedRecord(s.channel.outRec[i])]
           /\ u.channel.opened = s.channel.opened /\ u.channel.closing = s.channel.closing
           /\ u.channel.openedLocally = s.channel.openedLocally
           /\ u.channel.openAcked = s.channel.openAcked
           /\ u.channel.inRec = s.channel.inRec /\ u.channel.inPartial = s.channel.inPartial
           /\ u.state = s.state /\ u.wire = s.wire /\ u.sendBuffer = s.sendBuffer
           /\ u.unnotified = s.unnotified /\ u.outReliable = s.outReliable
           /\ u.inReliable = s.inReliable /\ u.pendingOutRec = s.pendingOutRec
           /\ u.fates = s.fates /\ u.receiving = s.receiving /\ SameGame(s, u)
<1> DEFINE outRec == s.channel.outRec
           marked == [i \in DOMAIN outRec |->
                   IF outRec[i].packet = 1 THEN [outRec[i] EXCEPT !.acked = TRUE]
                   ELSE outRec[i]]
           moved == [i \in 1 .. Len(outRec) |-> AckedRecord(outRec[i])]
           c == [s.channel EXCEPT !.outRec = moved]
           u == [s EXCEPT !.channel = c]
<1>1. s.channel \in Channel
  BY ChannelIn
<1>2. outRec \in Seq(OutBunch)
  BY <1>1 DEF Channel
<1>3. MoveUp(marked) = moved
  <2>1. DOMAIN outRec = 1 .. Len(outRec)
    BY <1>2
  <2>2. ASSUME NEW i \in 1 .. Len(outRec)
        PROVE  [marked[i] EXCEPT !.packet = IF @ = 0 THEN 0 ELSE @ - 1] = AckedRecord(outRec[i])
    <3>1. outRec[i] \in OutBunch
      BY <1>2
    <3>2. marked[i] = IF outRec[i].packet = 1 THEN [outRec[i] EXCEPT !.acked = TRUE] ELSE outRec[i]
      BY <2>1
    <3> HIDE DEF marked, outRec
    <3>3. CASE outRec[i].packet = 1
      <4>1. PICK o \in OutBunch : o = outRec[i]
        BY <3>1
      <4>2. PICK m \in OutBunch : m = [bunch |-> o.bunch, packet |-> o.packet, acked |-> TRUE]
        BY DEF OutBunch
      <4>3. marked[i] = m
        BY <3>2, <3>3, <4>1, <4>2 DEF OutBunch
      <4>4. m.packet = 1 /\ m.bunch = o.bunch /\ m.acked = TRUE
        BY <3>3, <4>1, <4>2
      <4>a. PICK z \in Nat : z = 0 /\ z = (IF m.packet = 0 THEN 0 ELSE m.packet - 1)
        BY <4>4
      <4>b. [m EXCEPT !.packet = z] = [bunch |-> o.bunch, packet |-> z, acked |-> TRUE]
        BY <4>4, WithPacket
      <4>5. [m EXCEPT !.packet = IF @ = 0 THEN 0 ELSE @ - 1] = [bunch |-> o.bunch, packet |-> 0, acked |-> TRUE]
        BY <4>a, <4>b
      <4>6. AckedRecord(o) = [bunch |-> o.bunch, packet |-> 0, acked |-> TRUE]
        <5>1. PICK y : y = TRUE /\ y = (o.acked \/ o.packet = 1)
          BY <3>3, <4>1
        <5>2. PICK w : w = 0 /\ w = (IF o.packet = 0 THEN 0 ELSE o.packet - 1)
          BY <3>3, <4>1
        <5>3. AckedRecord(o) = [bunch |-> o.bunch, packet |-> w, acked |-> y]
          BY <5>1, <5>2 DEF AckedRecord
        <5> QED
          BY <5>1, <5>2, <5>3
      <4> QED
        BY <4>1, <4>3, <4>5, <4>6
    <3>4. CASE outRec[i].packet # 1
      BY <3>1, <3>2, <3>4 DEF OutBunch, AckedRecord
    <3> QED
      BY <3>3, <3>4
  <2>3. DOMAIN marked = 1 .. Len(outRec)
    BY <2>1
  <2> HIDE DEF marked, outRec
  <2> QED
    BY <2>2, <2>3 DEF MoveUp
<1>4. moved \in Seq(OutBunch)
  <2>1. \A i \in 1 .. Len(outRec) : AckedRecord(outRec[i]) \in OutBunch
    <3> TAKE i \in 1 .. Len(outRec)
    <3>1. outRec[i] \in OutBunch /\ 0 \in Nat
      BY <1>2
    <3> QED
      BY <3>1, RecordType
  <2>2. Len(outRec) \in Nat
    BY <1>2
  <2> HIDE DEF outRec
  <2> QED
    BY <2>1, <2>2
<1>5. u = [s EXCEPT !.channel.outRec = moved]
  <2> HIDE DEF moved
  <2> QED
    BY <1>1 DEF Channel, End
<1>6. t = ReceivedAcks(u)
  <2> HIDE DEF u
  <2> QED
    BY <1>3, <1>5 DEF ReceivedAck
<1> HIDE DEF moved
<1>7. /\ c \in Channel
      /\ c.outRec = moved /\ c.openAcked = s.channel.openAcked
      /\ c.opened = s.channel.opened /\ c.closing = s.channel.closing
      /\ c.openedLocally = s.channel.openedLocally
      /\ c.inRec = s.channel.inRec /\ c.inPartial = s.channel.inPartial
  BY <1>1, <1>4 DEF Channel
<1> HIDE DEF c
<1>8. /\ u \in End /\ u.channel = c /\ c # NoChannel
      /\ u.state = s.state /\ u.wire = s.wire /\ u.sendBuffer = s.sendBuffer
      /\ u.unnotified = s.unnotified /\ u.outReliable = s.outReliable
      /\ u.inReliable = s.inReliable /\ u.pendingOutRec = s.pendingOutRec
      /\ u.fates = s.fates /\ u.receiving = s.receiving /\ SameGame(s, u)
  BY <1>7, WithChannel
<1> HIDE DEF u
<1>9. AcksTaken(u, t)
  BY <1>6, <1>8, ReceivedAcksType
<1> QED
  BY <1>7, <1>8, <1>9 DEF moved

\* What resending adds to the packet that is being filled: the lost bunches.
Resent(s, outRec, n, t) ==
  /\ t \in End
  /\ t.channel = s.channel /\ t.state = s.state /\ t.wire = s.wire
  /\ t.unnotified = s.unnotified /\ t.outReliable = s.outReliable
  /\ t.inReliable = s.inReliable /\ t.pendingOutRec = s.pendingOutRec
  /\ t.fates = s.fates /\ t.receiving = s.receiving /\ SameGame(s, t)
  /\ Len(t.sendBuffer) >= Len(s.sendBuffer)
  /\ \A j \in 1 .. Len(s.sendBuffer) : t.sendBuffer[j] = s.sendBuffer[j]
  /\ \A j \in Len(s.sendBuffer) + 1 .. Len(t.sendBuffer) :
       \E i \in 1 .. n : Lost(outRec[i]) /\ t.sendBuffer[j] = OnWire(outRec[i].bunch)
  /\ \A i \in 1 .. n : Lost(outRec[i]) =>
       \E j \in 1 .. Len(t.sendBuffer) : t.sendBuffer[j] = OnWire(outRec[i].bunch)

LEMMA WriteLostType ==
  ASSUME NEW s \in End, NEW outRec \in Seq(OutBunch), NEW t, t = WriteLost(s, outRec)
  PROVE  Resent(s, outRec, Len(outRec), t)
<1> DEFINE Done(x, n) == Resent(s, outRec, n, x)
           D == [n \in 0 .. Len(outRec) |-> {x \in End : Done(x, n)}]
<1>1. Len(outRec) \in Nat
  OBVIOUS
<1>2. s.sendBuffer \in Seq(Bunch)
  BY DEF End
<1>3. Done(s, 0)
  BY <1>2 DEF SameGame, Resent
<1>4. s \in D[0]
  BY <1>1, <1>3
<1>5. ASSUME NEW i \in 1 .. Len(outRec), NEW x \in End, Done(x, i - 1)
      PROVE  /\ (IF Lost(outRec[i]) THEN WriteBunch(x, outRec[i].bunch) ELSE x) \in End
             /\ Done(IF Lost(outRec[i]) THEN WriteBunch(x, outRec[i].bunch) ELSE x, i)
  <2>1. CASE ~Lost(outRec[i])
    <3>1. Done(x, i)
      <4>1. \A j \in Len(s.sendBuffer) + 1 .. Len(x.sendBuffer) :
              \E k \in 1 .. i : Lost(outRec[k]) /\ x.sendBuffer[j] = OnWire(outRec[k].bunch)
        <5> TAKE j \in Len(s.sendBuffer) + 1 .. Len(x.sendBuffer)
        <5>1. PICK k \in 1 .. i - 1 : Lost(outRec[k]) /\ x.sendBuffer[j] = OnWire(outRec[k].bunch)
          BY <1>5 DEF Resent
        <5>2. k \in 1 .. i
          OBVIOUS
        <5> QED
          BY <5>1, <5>2
      <4>2. \A k \in 1 .. i : Lost(outRec[k]) =>
              \E j \in 1 .. Len(x.sendBuffer) : x.sendBuffer[j] = OnWire(outRec[k].bunch)
        <5> TAKE k \in 1 .. i
        <5>1. CASE k = i
          BY <2>1, <5>1
        <5>2. CASE k # i
          <6>1. k \in 1 .. i - 1
            BY <5>2
          <6> QED
            BY <1>5, <6>1 DEF Resent
        <5> QED
          BY <5>1, <5>2
      <4> QED
        BY <1>5, <4>1, <4>2 DEF Resent
    <3> HIDE DEF Done
    <3> QED
      BY <2>1, <3>1
  <2>2. CASE Lost(outRec[i])
    <3>1. PICK y : y = WriteBunch(x, outRec[i].bunch)
      OBVIOUS
    <3>2. outRec[i].bunch \in Bunch
      <4>1. outRec[i] \in OutBunch
        BY <1>1
      <4> QED
        BY <4>1 DEF OutBunch
    <3> DEFINE w == OnWire(outRec[i].bunch)
    <3>3. /\ y \in End
          /\ y.sendBuffer = Append(x.sendBuffer, w)
          /\ y.wire = x.wire /\ y.unnotified = x.unnotified
          /\ y.state = x.state /\ y.channel = x.channel /\ y.outReliable = x.outReliable
          /\ y.inReliable = x.inReliable /\ y.pendingOutRec = x.pendingOutRec
          /\ y.fates = x.fates /\ y.receiving = x.receiving /\ SameGame(x, y)
      BY <3>1, <3>2, WriteBunchType
    <3>4. w \in Bunch
      BY <3>2, OnWireType
    <3> HIDE DEF w
    <3>5. x.sendBuffer \in Seq(Bunch)
      BY DEF End
    <3>6. /\ Len(y.sendBuffer) = Len(x.sendBuffer) + 1
          /\ \A j \in 1 .. Len(x.sendBuffer) : y.sendBuffer[j] = x.sendBuffer[j]
          /\ y.sendBuffer[Len(x.sendBuffer) + 1] = w
      BY <3>3, <3>4, <3>5, AppendProperties
    <3>7. Len(x.sendBuffer) \in Nat /\ Len(s.sendBuffer) \in Nat
      BY <1>2, <3>5
    <3>8. \A j \in 1 .. Len(s.sendBuffer) : y.sendBuffer[j] = s.sendBuffer[j]
      BY <1>5, <3>6, <3>7 DEF Resent
    <3>9. \A j \in Len(s.sendBuffer) + 1 .. Len(y.sendBuffer) :
            \E k \in 1 .. i : Lost(outRec[k]) /\ y.sendBuffer[j] = OnWire(outRec[k].bunch)
      <4> TAKE j \in Len(s.sendBuffer) + 1 .. Len(y.sendBuffer)
      <4>1. CASE j = Len(x.sendBuffer) + 1
        <5>1. Lost(outRec[i]) /\ y.sendBuffer[j] = OnWire(outRec[i].bunch) /\ i \in 1 .. i
          BY <2>2, <3>6, <4>1 DEF w
        <5> QED
          BY <5>1
      <4>2. CASE j # Len(x.sendBuffer) + 1
        <5>1. j \in Len(s.sendBuffer) + 1 .. Len(x.sendBuffer) /\ j \in 1 .. Len(x.sendBuffer)
          BY <3>6, <3>7, <4>2
        <5>2. PICK k \in 1 .. i - 1 : Lost(outRec[k]) /\ x.sendBuffer[j] = OnWire(outRec[k].bunch)
          BY <1>5, <5>1 DEF Resent
        <5>3. k \in 1 .. i /\ y.sendBuffer[j] = x.sendBuffer[j]
          BY <3>6, <5>1, <5>2
        <5> QED
          BY <5>2, <5>3
      <4> QED
        BY <4>1, <4>2
    <3>10. \A k \in 1 .. i : Lost(outRec[k]) =>
             \E j \in 1 .. Len(y.sendBuffer) : y.sendBuffer[j] = OnWire(outRec[k].bunch)
      <4> TAKE k \in 1 .. i
      <4> HAVE Lost(outRec[k])
      <4>1. CASE k = i
        <5>1. Len(x.sendBuffer) + 1 \in 1 .. Len(y.sendBuffer)
          BY <3>6, <3>7
        <5> QED
          BY <3>6, <4>1, <5>1 DEF w
      <4>2. CASE k # i
        <5>1. k \in 1 .. i - 1
          BY <4>2
        <5>2. PICK j \in 1 .. Len(x.sendBuffer) : x.sendBuffer[j] = OnWire(outRec[k].bunch)
          BY <1>5, <5>1 DEF Resent
        <5>3. j \in 1 .. Len(y.sendBuffer) /\ y.sendBuffer[j] = x.sendBuffer[j]
          BY <3>6, <3>7
        <5> QED
          BY <5>2, <5>3
      <4> QED
        BY <4>1, <4>2
    <3>11. Len(y.sendBuffer) >= Len(s.sendBuffer)
      BY <1>5, <3>6, <3>7 DEF Resent
    <3>12. Done(y, i)
      BY <1>5, <3>3, <3>8, <3>9, <3>10, <3>11 DEF SameGame, Resent
    <3> HIDE DEF Done
    <3> QED
      BY <2>2, <3>1, <3>3, <3>12
  <2> QED
    BY <2>1, <2>2
<1>6. t \in D[Len(outRec)]
  <2>1. \A i \in 1 .. Len(outRec) : \A x \in D[i - 1] :
           (IF Lost(outRec[i]) THEN WriteBunch(x, outRec[i].bunch) ELSE x) \in D[i]
    <3> HIDE DEF Done
    <3> TAKE i \in 1 .. Len(outRec)
    <3>1. i - 1 \in 0 .. Len(outRec) /\ i \in 0 .. Len(outRec)
      BY <1>1
    <3> QED
      BY <1>5, <3>1
  <2> HIDE DEF D
  <2> QED
    BY <1>1, <1>4, <2>1, WriteLostBy
<1>7. t \in End /\ Done(t, Len(outRec))
  <2> HIDE DEF Done
  <2> QED
    BY <1>1, <1>6
<1> QED
  BY <1>7

\* What ReceivedNak does.
Renaked(s, t) ==
  /\ t \in End
  /\ t.channel \in Channel /\ t.channel # NoChannel
  /\ t.channel.outRec = [i \in 1 .. Len(s.channel.outRec) |->
                           NakedRecord(s.channel.outRec[i], s.unnotified + 1)]
  /\ t.channel.opened = s.channel.opened /\ t.channel.closing = s.channel.closing
  /\ t.channel.openedLocally = s.channel.openedLocally
  /\ t.channel.openAcked = s.channel.openAcked
  /\ t.channel.inRec = s.channel.inRec /\ t.channel.inPartial = s.channel.inPartial
  /\ t.state = s.state /\ t.wire = s.wire
  /\ t.unnotified = s.unnotified /\ t.outReliable = s.outReliable
  /\ t.inReliable = s.inReliable /\ t.pendingOutRec = s.pendingOutRec
  /\ t.fates = s.fates /\ t.receiving = s.receiving /\ SameGame(s, t)
  /\ Len(t.sendBuffer) >= Len(s.sendBuffer)
  /\ \A j \in 1 .. Len(s.sendBuffer) : t.sendBuffer[j] = s.sendBuffer[j]
  /\ \A j \in Len(s.sendBuffer) + 1 .. Len(t.sendBuffer) :
       \E i \in 1 .. Len(s.channel.outRec) :
         Lost(s.channel.outRec[i]) /\ t.sendBuffer[j] = OnWire(s.channel.outRec[i].bunch)
  /\ \A i \in 1 .. Len(s.channel.outRec) : Lost(s.channel.outRec[i]) =>
       \E j \in 1 .. Len(t.sendBuffer) : t.sendBuffer[j] = OnWire(s.channel.outRec[i].bunch)

LEMMA ReceivedNakType ==
  ASSUME NEW s \in End, s.channel # NoChannel, NEW t, t = ReceivedNak(s)
  PROVE  Renaked(s, t)
<1> DEFINE outRec == s.channel.outRec
           k == s.unnotified + 1
           raw == [i \in DOMAIN outRec |->
                     IF Lost(outRec[i]) THEN [outRec[i] EXCEPT !.packet = OutPacketId(s)]
                     ELSE MoveUp(outRec)[i]]
           moved == [i \in 1 .. Len(outRec) |-> NakedRecord(outRec[i], k)]
           c == [s.channel EXCEPT !.outRec = moved]
           u == [s EXCEPT !.channel = c]
<1>1. s.channel \in Channel /\ k \in Nat
  BY ChannelIn DEF End
<1>2. outRec \in Seq(OutBunch)
  BY <1>1 DEF Channel
<1>3. raw = moved
  <2>1. DOMAIN outRec = 1 .. Len(outRec)
    BY <1>2
  <2>2. ASSUME NEW i \in 1 .. Len(outRec) PROVE raw[i] = NakedRecord(outRec[i], k)
    <3>1. outRec[i] \in OutBunch
      BY <1>2
    <3>2. raw[i] = IF Lost(outRec[i]) THEN [outRec[i] EXCEPT !.packet = k]
                   ELSE [outRec[i] EXCEPT !.packet = IF @ = 0 THEN 0 ELSE @ - 1]
      <4> HIDE DEF outRec
      <4> QED
        BY <2>1 DEF OutPacketId, MoveUp
    <3> HIDE DEF raw, outRec, k
    <3>3. CASE Lost(outRec[i])
      BY <3>1, <3>2, <3>3 DEF OutBunch, NakedRecord
    <3>4. CASE ~Lost(outRec[i])
      BY <3>1, <3>2, <3>4 DEF OutBunch, NakedRecord
    <3> QED
      BY <3>3, <3>4
  <2>3. raw = [i \in 1 .. Len(outRec) |-> raw[i]]
    <3> HIDE DEF outRec
    <3> QED
      BY <2>1
  <2> HIDE DEF raw, outRec, k
  <2> QED
    BY <2>2, <2>3
<1>4. moved \in Seq(OutBunch)
  <2>1. \A i \in 1 .. Len(outRec) : NakedRecord(outRec[i], k) \in OutBunch
    <3> TAKE i \in 1 .. Len(outRec)
    <3>1. outRec[i] \in OutBunch
      BY <1>2
    <3> QED
      BY <1>1, <3>1, RecordType
  <2>2. Len(outRec) \in Nat
    BY <1>2
  <2> HIDE DEF outRec
  <2> QED
    BY <2>1, <2>2
<1>5. u = [s EXCEPT !.channel.outRec = moved]
  <2> HIDE DEF moved
  <2> QED
    BY <1>1 DEF Channel, End
<1>6. t = WriteLost(u, outRec)
  <2> HIDE DEF u, moved, raw
  <2> QED
    BY <1>3, <1>5 DEF ReceivedNak, raw
<1> HIDE DEF moved
<1>7. /\ c \in Channel
      /\ c.outRec = moved /\ c.openAcked = s.channel.openAcked
      /\ c.opened = s.channel.opened /\ c.closing = s.channel.closing
      /\ c.openedLocally = s.channel.openedLocally
      /\ c.inRec = s.channel.inRec /\ c.inPartial = s.channel.inPartial
  BY <1>1, <1>4 DEF Channel
<1> HIDE DEF c
<1>8. /\ u \in End /\ u.channel = c /\ c # NoChannel
      /\ u.state = s.state /\ u.wire = s.wire /\ u.sendBuffer = s.sendBuffer
      /\ u.unnotified = s.unnotified /\ u.outReliable = s.outReliable
      /\ u.inReliable = s.inReliable /\ u.pendingOutRec = s.pendingOutRec
      /\ u.fates = s.fates /\ u.receiving = s.receiving /\ SameGame(s, u)
  BY <1>7, WithChannel
<1> HIDE DEF u
<1>9. Resent(u, outRec, Len(outRec), t)
  <2> HIDE DEF outRec
  <2> QED
    BY <1>2, <1>6, <1>8, WriteLostType
<1> QED
  BY <1>7, <1>8, <1>9 DEF moved, SameGame, Resent, Renaked

\* What notifications leave alone.
Noted(s, n, t) ==
  /\ t \in End /\ t.unnotified = s.unnotified - n
  /\ t.wire = s.wire /\ t.outReliable = s.outReliable /\ t.inReliable = s.inReliable
  /\ t.pendingOutRec = s.pendingOutRec
  /\ t.fates = s.fates /\ t.receiving = s.receiving /\ SameGame(s, t)
  /\ Bounded(t)

LEMMA UnnotifiedType ==
  ASSUME NEW s \in End, s.unnotified >= 1, NEW t, t = [s EXCEPT !.unnotified = @ - 1]
  PROVE  /\ t \in End /\ t.unnotified = s.unnotified - 1
         /\ t.wire = s.wire /\ t.sendBuffer = s.sendBuffer /\ t.state = s.state
         /\ t.channel = s.channel /\ t.outReliable = s.outReliable
         /\ t.inReliable = s.inReliable /\ t.pendingOutRec = s.pendingOutRec
         /\ t.fates = s.fates /\ t.receiving = s.receiving /\ SameGame(s, t)
<1>1. PICK n \in Nat : n = s.unnotified - 1
  BY DEF End
<1>2. t = [s EXCEPT !.unnotified = n]
  BY <1>1
<1> QED
  BY <1>1, <1>2 DEF End, SameGame

LEMMA NotifiedType ==
  ASSUME NEW s \in End, s.unnotified >= 1, Bounded(s), NEW delivered \in BOOLEAN,
         NEW t, t = Notified(s, delivered)
  PROVE  Noted(s, 1, t)
<1>1. PICK v : v = [s EXCEPT !.unnotified = @ - 1]
  OBVIOUS
<1>2. /\ v \in End /\ v.unnotified = s.unnotified - 1
      /\ v.wire = s.wire /\ v.sendBuffer = s.sendBuffer /\ v.state = s.state
      /\ v.channel = s.channel /\ v.outReliable = s.outReliable
      /\ v.inReliable = s.inReliable /\ v.pendingOutRec = s.pendingOutRec
      /\ v.fates = s.fates /\ v.receiving = s.receiving /\ SameGame(s, v)
  BY <1>1, UnnotifiedType
<1>3. CASE s.channel = NoChannel
  <2>1. t = v
    BY <1>1, <1>3 DEF Notified
  <2>2. Bounded(v)
    BY <1>2 DEF Bounded, Records
  <2> QED
    BY <1>2, <2>1, <2>2 DEF Noted
<1> DEFINE outRec == v.channel.outRec
<1>4. CASE s.channel # NoChannel /\ delivered
  <2>1. t = ReceivedAck(v)
    BY <1>1, <1>4 DEF Notified
  <2>2. PICK u \in End : 
           /\ AcksTaken(u, t)
           /\ u.channel \in Channel /\ u.channel # NoChannel
           /\ u.channel.outRec = [i \in 1 .. Len(v.channel.outRec) |-> AckedRecord(v.channel.outRec[i])]
           /\ u.channel.opened = v.channel.opened /\ u.channel.closing = v.channel.closing
           /\ u.channel.openedLocally = v.channel.openedLocally
           /\ u.channel.openAcked = v.channel.openAcked
           /\ u.channel.inRec = v.channel.inRec /\ u.channel.inPartial = v.channel.inPartial
           /\ u.state = v.state /\ u.wire = v.wire /\ u.sendBuffer = v.sendBuffer
           /\ u.unnotified = v.unnotified /\ u.outReliable = v.outReliable
           /\ u.inReliable = v.inReliable /\ u.pendingOutRec = v.pendingOutRec
           /\ u.fates = v.fates /\ u.receiving = v.receiving /\ SameGame(v, u)
    BY <1>2, <1>4, <2>1, ReceivedAckType
  <2>3. u.channel.outRec \in Seq(OutBunch) /\ v.channel.outRec \in Seq(OutBunch)
    BY <1>2, <1>4, <2>2, ChannelIn DEF Channel
  <2>4. \A i \in DOMAIN Records(t) : Records(t)[i].bunch.seq <= t.outReliable
    <3> TAKE i \in DOMAIN Records(t)
    <3>1. t.channel # NoChannel /\ t.channel.outRec = Rest(u.channel.outRec)
      <4>0. DOMAIN <<>> = {}
        OBVIOUS
      <4>1. t.channel # NoChannel
        BY <4>0 DEF Records
      <4> QED
        BY <2>2, <4>1 DEF AcksTaken
    <3>2. PICK n : n = Released(u.channel.outRec)
      OBVIOUS
    <3>3. /\ n \in 0 .. Len(u.channel.outRec)
          /\ Rest(u.channel.outRec) \in Seq(OutBunch)
          /\ Len(Rest(u.channel.outRec)) = Len(u.channel.outRec) - n
          /\ \A j \in 1 .. Len(u.channel.outRec) - n : Rest(u.channel.outRec)[j] = u.channel.outRec[n + j]
      <4>1. n \in 0 .. Len(u.channel.outRec)
        BY <2>3, <3>2, ReleasedProps
      <4>2. /\ Rest(u.channel.outRec) \in Seq(OutBunch)
            /\ Len(Rest(u.channel.outRec)) = Len(u.channel.outRec) - n
            /\ \A j \in 1 .. Len(u.channel.outRec) - n : Rest(u.channel.outRec)[j] = u.channel.outRec[n + j]
        BY <2>3, <3>2, RestProps
      <4> QED
        BY <4>1, <4>2
    <3>4. Records(t)[i] = u.channel.outRec[n + i] /\ n + i \in 1 .. Len(u.channel.outRec)
      BY <3>1, <3>3 DEF Records
    <3>5. Len(u.channel.outRec) = Len(v.channel.outRec) /\ Len(v.channel.outRec) \in Nat
      BY <2>2, <2>3
    <3>6. u.channel.outRec[n + i] = AckedRecord(v.channel.outRec[n + i])
      BY <2>2, <3>4, <3>5
    <3>7. v.channel.outRec[n + i] \in OutBunch /\ 0 \in Nat
      BY <2>3, <3>4, <3>5
    <3>8. u.channel.outRec[n + i].bunch = v.channel.outRec[n + i].bunch
      BY <3>6, <3>7, RecordType
    <3>9. v.channel.outRec[n + i].bunch.seq <= s.outReliable
      BY <1>2, <1>4, <2>3, <3>4, <3>5 DEF Bounded, Records
    <3> QED
      BY <1>2, <2>2, <3>4, <3>8, <3>9 DEF AcksTaken
  <2>5. Bounded(t)
    BY <1>2, <2>2, <2>4 DEF Bounded, AcksTaken
  <2> QED
    BY <1>2, <2>2, <2>5 DEF AcksTaken, Noted, SameGame
<1>5. CASE s.channel # NoChannel /\ ~delivered
  <2>1. t = ReceivedNak(v)
    BY <1>1, <1>5 DEF Notified
  <2>2. Renaked(v, t)
    BY <1>2, <1>5, <2>1, ReceivedNakType
  <2>3. t.channel.outRec = [i \in 1 .. Len(v.channel.outRec) |-> NakedRecord(v.channel.outRec[i], v.unnotified + 1)]
    BY <2>2 DEF Renaked
  <2>4. v.channel.outRec \in Seq(OutBunch) /\ v.unnotified + 1 \in Nat
    BY <1>2, <1>5, ChannelIn DEF Channel, End
  <2>5. \A i \in DOMAIN Records(t) : Records(t)[i].bunch.seq <= t.outReliable
    <3> TAKE i \in DOMAIN Records(t)
    <3>1. i \in 1 .. Len(v.channel.outRec) /\ Records(t)[i] = NakedRecord(v.channel.outRec[i], v.unnotified + 1)
      BY <2>2, <2>3 DEF Records, Renaked
    <3>2. v.channel.outRec[i] \in OutBunch
      BY <2>4, <3>1
    <3>3. Records(t)[i].bunch = v.channel.outRec[i].bunch
      <4>1. PICK k \in Nat : k = v.unnotified + 1
        BY <2>4
      <4>2. NakedRecord(v.channel.outRec[i], k).bunch = v.channel.outRec[i].bunch
        BY <3>2, RecordType
      <4> QED
        BY <3>1, <4>1, <4>2
    <3>4. v.channel.outRec[i].bunch.seq <= s.outReliable
      BY <1>2, <1>5, <2>4, <3>1 DEF Bounded, Records
    <3> QED
      BY <1>2, <2>2, <3>3, <3>4 DEF Renaked
  <2>6. Bounded(t)
    BY <1>2, <2>2, <2>5 DEF Bounded, Renaked
  <2> QED
    BY <1>2, <2>2, <2>6 DEF Renaked, Noted, SameGame
<1> QED
  BY <1>3, <1>4, <1>5

LEMMA AllNotifiedType ==
  ASSUME NEW s \in End, NEW fates \in Seq(BOOLEAN), Len(fates) <= s.unnotified, Bounded(s),
         NEW t, t = AllNotified(s, fates)
  PROVE  Noted(s, Len(fates), t)
<1> DEFINE D == [i \in 0 .. Len(fates) |-> {x \in End : Noted(s, i, x)}]
<1>1. Len(fates) \in Nat /\ s.unnotified \in Nat
  BY DEF End
<1>2. s \in D[0]
  BY <1>1 DEF Noted, SameGame
<1>3. ASSUME NEW i \in 1 .. Len(fates), NEW x \in D[i - 1] PROVE Notified(x, fates[i]) \in D[i]
  <2>1. i - 1 \in 0 .. Len(fates) /\ i \in 0 .. Len(fates)
    BY <1>1
  <2>2. x \in End /\ Noted(s, i - 1, x)
    BY <2>1
  <2>3. x.unnotified >= 1 /\ fates[i] \in BOOLEAN /\ Bounded(x) /\ x.unnotified = s.unnotified - (i - 1)
    BY <1>1, <2>2 DEF Noted
  <2>4. PICK y : y = Notified(x, fates[i])
    OBVIOUS
  <2>5. Noted(x, 1, y)
    BY <2>2, <2>3, <2>4, NotifiedType
  <2>6. y.unnotified = s.unnotified - i
    BY <1>1, <2>3, <2>5 DEF Noted
  <2>7. Noted(s, i, y)
    BY <2>2, <2>5, <2>6 DEF Noted, SameGame
  <2>8. y \in End
    BY <2>5 DEF Noted
  <2> QED
    BY <2>1, <2>4, <2>7, <2>8
<1> HIDE DEF D
<1>4. t \in D[Len(fates)]
  BY <1>1, <1>2, <1>3, AllNotifiedBy
<1> QED
  BY <1>1, <1>4 DEF D

-----------------------------------------------------------------------------
(* What receiving changes.                                                 *)

\* What handling a bunch leaves alone, whatever comes of it.
Rx(s, t) ==
  /\ t \in End /\ t.wire = s.wire /\ t.fates = s.fates /\ t.unnotified = s.unnotified
  /\ t.receiving.busy = s.receiving.busy /\ t.receiving.bunches = s.receiving.bunches
  /\ t.receiving.lost = s.receiving.lost /\ t.outReliable = s.outReliable
  /\ Bounded(t)

\* Nothing but what the game was handed, the partial message, bSkipAck and, for an
\* opening message, that the channel is open.
Quiet(s, open, t) ==
  /\ t \in End /\ t.state = s.state /\ t.wire = s.wire /\ t.fates = s.fates
  /\ t.unnotified = s.unnotified /\ t.sendBuffer = s.sendBuffer
  /\ t.receiving.busy = s.receiving.busy /\ t.receiving.bunches = s.receiving.bunches
  /\ t.receiving.lost = s.receiving.lost
  /\ s.receiving.skipAck => t.receiving.skipAck
  /\ t.outReliable = s.outReliable /\ t.inReliable = s.inReliable
  /\ t.pendingOutRec = s.pendingOutRec
  /\ s.channel # NoChannel /\ t.channel # NoChannel
  /\ t.channel.outRec = s.channel.outRec /\ t.channel.inRec = s.channel.inRec
  /\ t.channel.openedLocally = s.channel.openedLocally
  /\ t.channel.closing = s.channel.closing
  /\ open => t.channel.opened = TRUE /\ t.channel.openAcked = TRUE
  /\ ~open => t.channel.opened = s.channel.opened /\ t.channel.openAcked = s.channel.openAcked

LEMMA QuietRx ==
  ASSUME NEW s \in End, NEW open \in BOOLEAN, Bounded(s), NEW t, Quiet(s, open, t)
  PROVE  Rx(s, t)
  BY DEF Quiet, Rx, Bounded, Records

LEMMA QuietTrans ==
  ASSUME NEW s \in End, NEW open \in BOOLEAN, NEW t, Quiet(s, open, t), NEW u, Quiet(t, FALSE, u)
  PROVE  Quiet(s, open, u)
  BY DEF Quiet

LEMMA QuietTransOpen ==
  ASSUME NEW s \in End, NEW t, Quiet(s, FALSE, t), NEW open \in BOOLEAN, NEW u, Quiet(t, open, u)
  PROVE  Quiet(s, open, u)
  BY DEF Quiet

LEMMA QuietRefl ==
  ASSUME NEW s \in End, s.channel # NoChannel
  PROVE  Quiet(s, FALSE, s)
  BY DEF Quiet

LEMMA ErrorRx ==
  ASSUME NEW s \in End, Bounded(s), NEW t, t = Error(s)
  PROVE  /\ Rx(s, t) /\ t.state = "error" /\ t.inReliable = s.inReliable
<1>1. /\ t \in End /\ t.state = "error"
      /\ t.wire = s.wire /\ t.sendBuffer = s.sendBuffer /\ t.unnotified = s.unnotified
      /\ t.channel = s.channel /\ t.outReliable = s.outReliable
      /\ t.inReliable = s.inReliable /\ t.pendingOutRec = s.pendingOutRec
      /\ t.fates = s.fates /\ t.receiving = s.receiving /\ SameGame(s, t)
  BY ErrorType DEF Error
<1> QED
  BY <1>1 DEF Rx, Bounded, Records

LEMMA SkipAckQuiet ==
  ASSUME NEW s \in End, s.channel # NoChannel, NEW t, t = SkipAck(s)
  PROVE  Quiet(s, FALSE, t) /\ t.receiving.skipAck
<1>1. /\ t \in End
      /\ t.receiving.busy = s.receiving.busy /\ t.receiving.bunches = s.receiving.bunches
      /\ t.receiving.lost = s.receiving.lost /\ t.receiving.skipAck = TRUE
      /\ t.state = s.state
      /\ t.wire = s.wire /\ t.sendBuffer = s.sendBuffer /\ t.unnotified = s.unnotified
      /\ t.channel = s.channel /\ t.outReliable = s.outReliable
      /\ t.inReliable = s.inReliable /\ t.pendingOutRec = s.pendingOutRec
      /\ t.fates = s.fates /\ SameGame(s, t)
  BY SkipAckType, ZenonT(30)
<1> QED
  BY <1>1 DEF Quiet

LEMMA PartialQuiet ==
  ASSUME NEW s \in End, s.channel # NoChannel, NEW p \in {NoPartial} \cup Partial,
         NEW t, t = [s EXCEPT !.channel.inPartial = p]
  PROVE  Quiet(s, FALSE, t) /\ t.channel.inPartial = p
<1>1. s.channel \in Channel
  BY ChannelIn
<1>2. PICK c : c = [s.channel EXCEPT !.inPartial = p]
  OBVIOUS
<1>3. /\ c \in Channel /\ c.inPartial = p
      /\ c.outRec = s.channel.outRec /\ c.inRec = s.channel.inRec
      /\ c.openedLocally = s.channel.openedLocally /\ c.closing = s.channel.closing
      /\ c.opened = s.channel.opened /\ c.openAcked = s.channel.openAcked
  BY <1>1, <1>2 DEF Channel
<1>4. t = [s EXCEPT !.channel = c]
  BY <1>1, <1>2 DEF End, Channel
<1>5. /\ t \in End /\ t.channel = c /\ c # NoChannel
      /\ t.state = s.state /\ t.wire = s.wire /\ t.sendBuffer = s.sendBuffer
      /\ t.unnotified = s.unnotified /\ t.outReliable = s.outReliable
      /\ t.inReliable = s.inReliable /\ t.pendingOutRec = s.pendingOutRec
      /\ t.fates = s.fates /\ t.receiving = s.receiving /\ SameGame(s, t)
  BY <1>3, <1>4, WithChannel
<1> QED
  BY <1>3, <1>5 DEF Quiet

\* The end after the game took a message.
Shown(s, tags) ==
  [s EXCEPT !.whole = @ /\ WholeMessage(tags),
            !.fresh = @ /\ tags[1].inc = incarnation,
            !.got = IF tags[1].kind = "reliable"
                      THEN [inc |-> tags[1].inc, n |-> tags[1].n] ELSE @]

LEMMA GameQuiet ==
  ASSUME NEW s \in End, s.channel # NoChannel, NEW tags \in Seq(Tag), tags # <<>>,
         NEW t, t = Shown(s, tags)
  PROVE  Quiet(s, FALSE, t) /\ t.channel = s.channel /\ t.receiving = s.receiving
<1>1. tags[1] \in Tag
  <2>1. 1 \in 1 .. Len(tags)
    OBVIOUS
  <2> QED
    BY <2>1
<1>2. PICK w \in BOOLEAN : w = (s.whole /\ WholeMessage(tags))
  OBVIOUS
<1>3. PICK f \in BOOLEAN : f = (s.fresh /\ tags[1].inc = incarnation)
  OBVIOUS
<1>4. PICK g \in [inc : Nat, n : Nat] :
        g = IF tags[1].kind = "reliable" THEN [inc |-> tags[1].inc, n |-> tags[1].n] ELSE s.got
  <2>1. [inc |-> tags[1].inc, n |-> tags[1].n] \in [inc : Nat, n : Nat]
    BY <1>1 DEF Tag
  <2>2. s.got \in [inc : Nat, n : Nat]
    BY DEF End
  <2> QED
    BY <2>1, <2>2
<1>5. t = [s EXCEPT !.whole = w, !.fresh = f, !.got = g]
  BY <1>2, <1>3, <1>4 DEF Shown
<1>6. /\ t \in End
      /\ t.state = s.state /\ t.wire = s.wire /\ t.sendBuffer = s.sendBuffer
      /\ t.unnotified = s.unnotified /\ t.outReliable = s.outReliable
      /\ t.inReliable = s.inReliable /\ t.pendingOutRec = s.pendingOutRec
      /\ t.fates = s.fates /\ t.receiving = s.receiving /\ t.channel = s.channel
  BY <1>5, ZenonT(30) DEF End
<1> QED
  BY <1>6 DEF Quiet

LEMMA OpenQuiet ==
  ASSUME NEW s \in End, s.channel # NoChannel,
         NEW t, t = [s EXCEPT !.channel.opened = TRUE, !.channel.openAcked = TRUE]
  PROVE  /\ Quiet(s, TRUE, t)
         /\ t.channel.inPartial = s.channel.inPartial /\ t.receiving = s.receiving
<1>1. s.channel \in Channel
  BY ChannelIn
<1>2. PICK c : c = [s.channel EXCEPT !.opened = TRUE, !.openAcked = TRUE]
  OBVIOUS
<1>3. /\ c \in Channel
      /\ c.outRec = s.channel.outRec /\ c.inRec = s.channel.inRec
      /\ c.openedLocally = s.channel.openedLocally /\ c.closing = s.channel.closing
      /\ c.opened = TRUE /\ c.openAcked = TRUE /\ c.inPartial = s.channel.inPartial
  BY <1>1, <1>2 DEF Channel
<1>4. t = [s EXCEPT !.channel = c]
  BY <1>1, <1>2 DEF End, Channel
<1>5. /\ t \in End /\ t.channel = c /\ c # NoChannel
      /\ t.state = s.state /\ t.wire = s.wire /\ t.sendBuffer = s.sendBuffer
      /\ t.unnotified = s.unnotified /\ t.outReliable = s.outReliable
      /\ t.inReliable = s.inReliable /\ t.pendingOutRec = s.pendingOutRec
      /\ t.fates = s.fates /\ t.receiving = s.receiving /\ SameGame(s, t)
  BY <1>3, <1>4, WithChannel
<1> QED
  BY <1>3, <1>5 DEF Quiet

\* A whole message reaches its channel: it may give the channel its actor, and it
\* may close it.
Given(s, open, close, t) ==
  \E u \in End, v \in End :
    /\ Quiet(s, open, u)
    /\ open => ~s.channel.openedLocally /\ ~s.channel.opened
    /\ ~open => s.channel.openedLocally \/ s.channel.openAcked
    /\ open /\ ~s.channel.closing => v = SetChannelActor(u)
    /\ ~(open /\ ~s.channel.closing) => v = u
    /\ ~close => t = v
    /\ close => t = CleanUp(v) /\ s.channel.inRec = <<>>

\* Nothing comes of the message, it is handed on, or it is an error.
Handled(s, rel, open, close, t) ==
  /\ Rx(s, t) /\ t.inReliable = s.inReliable
  /\ s.state = "open" => t.state \in {"open", "error"}
  /\ t.state # "error" => (~rel /\ Quiet(s, FALSE, t)) \/ Given(s, open, close, t)

LEMMA CleanUpRx ==
  ASSUME NEW s \in End, s.channel # NoChannel, Bounded(s), NEW t, t = CleanUp(s)
  PROVE  Rx(s, t) /\ t.inReliable = s.inReliable /\ t.state = s.state
<1>1. /\ t \in End /\ t.channel = NoChannel /\ t.state = s.state
      /\ t.wire = s.wire /\ t.sendBuffer = s.sendBuffer /\ t.unnotified = s.unnotified
      /\ t.outReliable = s.outReliable /\ t.inReliable = s.inReliable
      /\ t.fates = s.fates /\ t.receiving = s.receiving /\ SameGame(s, t)
      /\ s.channel.outRec = <<>> => t.pendingOutRec = s.pendingOutRec
      /\ s.channel.outRec # <<>> => t.pendingOutRec = s.channel.outRec[1].bunch.seq
  BY CleanUpType
<1>2. t.pendingOutRec <= s.outReliable + 1
  <2>1. CASE s.channel.outRec = <<>>
    BY <1>1, <2>1 DEF Bounded
  <2>2. CASE s.channel.outRec # <<>>
    <3>1. s.channel.outRec \in Seq(OutBunch)
      BY ChannelIn DEF Channel
    <3>2. s.channel.outRec[1] \in OutBunch /\ 1 \in DOMAIN s.channel.outRec
      BY <2>2, <3>1
    <3>3. s.channel.outRec[1].bunch.seq <= s.outReliable
      BY <3>2 DEF Bounded, Records
    <3>4. s.channel.outRec[1].bunch.seq \in Nat /\ s.outReliable \in Nat
      BY <3>2 DEF OutBunch, Bunch, End
    <3> QED
      BY <1>1, <2>2, <3>3, <3>4
  <2> QED
    BY <2>1, <2>2
<1>3. Bounded(t)
  <2>1. DOMAIN Records(t) = {}
    BY <1>1 DEF Records
  <2> QED
    BY <1>1, <1>2, <2>1 DEF Bounded
<1> QED
  BY <1>1, <1>3 DEF Rx

\* The same, once the channel is open.
Sequenced(s, open, close, t) ==
  /\ Rx(s, t) /\ t.inReliable = s.inReliable
  /\ s.state = "open" => t.state \in {"open", "error"}
  /\ t.state # "error" =>
       \E u \in End, v \in End :
         /\ Quiet(s, FALSE, u)
         /\ open /\ ~s.channel.closing => v = SetChannelActor(u)
         /\ ~(open /\ ~s.channel.closing) => v = u
         /\ ~close => t = v
         /\ close => t = CleanUp(v) /\ s.channel.inRec = <<>>

LEMMA ReceivedSequencedBunchType ==
  ASSUME NEW s \in End, s.channel # NoChannel, Bounded(s), incarnation \in Nat,
         NEW open \in BOOLEAN, NEW close \in BOOLEAN, NEW tags \in Seq(Tag), tags # <<>>,
         NEW t, t = ReceivedSequencedBunch(s, open, close, tags)
  PROVE  Sequenced(s, open, close, t)
<1>1. PICK u \in End :
        /\ Quiet(s, FALSE, u)
        /\ s.channel.closing => u = s
        /\ ~s.channel.closing =>
             /\ open => ReceivedBunch(s, open, tags) = SetChannelActor(u)
             /\ ~open => ReceivedBunch(s, open, tags) = u
  <2>1. CASE s.channel.closing
    BY <2>1, QuietRefl
  <2>2. CASE ~s.channel.closing
    <3>1. PICK u : u = Shown(s, tags)
      OBVIOUS
    <3>2. Quiet(s, FALSE, u)
      BY <3>1, GameQuiet
    <3>3. u \in End
      BY <3>2 DEF Quiet
    <3>4. ReceivedBunch(s, open, tags) = IF open THEN SetChannelActor(u) ELSE u
      BY <3>1 DEF ReceivedBunch, Shown
    <3> QED
      BY <2>2, <3>2, <3>3, <3>4
  <2> QED
    BY <2>1, <2>2
<1>2. PICK v : v = IF s.channel.closing THEN s ELSE ReceivedBunch(s, open, tags)
  OBVIOUS
<1>3. /\ open /\ ~s.channel.closing => v = SetChannelActor(u)
      /\ ~(open /\ ~s.channel.closing) => v = u
  BY <1>1, <1>2
<1>4. Rx(s, u) /\ u.channel # NoChannel /\ Bounded(u) /\ u.inReliable = s.inReliable /\ u.state = s.state
  <2>1. Rx(s, u)
    <3>1. PICK o \in BOOLEAN : o = FALSE
      OBVIOUS
    <3>2. Quiet(s, o, u)
      BY <1>1, <3>1
    <3> QED
      BY <3>2, QuietRx
  <2> QED
    BY <1>1, <2>1 DEF Quiet, Rx
<1>5. /\ Rx(s, v) /\ v.channel # NoChannel /\ v.inReliable = s.inReliable
      /\ v.state = s.state \/ v.state = "error"
  <2>1. CASE open /\ ~s.channel.closing
    <3>1. Synced(u, v) /\ Bounded(v) /\ v.outReliable = u.outReliable
      BY <1>3, <1>4, <2>1, SetChannelActorType
    <3> QED
      BY <1>4, <3>1 DEF Synced, Rx
  <2>2. CASE ~(open /\ ~s.channel.closing)
    BY <1>3, <1>4, <2>2
  <2> QED
    BY <2>1, <2>2
<1>6. /\ ~close => t = v
      /\ close /\ s.channel.inRec # <<>> => t = Error(v)
      /\ close /\ s.channel.inRec = <<>> => t = CleanUp(v)
  <2> DEFINE w == IF s.channel.closing THEN s ELSE ReceivedBunch(s, open, tags)
  <2>1. t = IF ~close THEN w ELSE IF s.channel.inRec # <<>> THEN Error(w) ELSE CleanUp(w)
    BY DEF ReceivedSequencedBunch
  <2>2. v = w
    BY <1>2
  <2> HIDE DEF w
  <2> QED
    BY <2>1, <2>2
<1>7. v \in End /\ Bounded(v)
  BY <1>5 DEF Rx
<1>8. CASE ~close
  BY <1>1, <1>3, <1>5, <1>6, <1>7, <1>8 DEF Sequenced
<1>9. CASE close /\ s.channel.inRec # <<>>
  <2>1. Rx(v, t) /\ t.state = "error" /\ t.inReliable = v.inReliable
    BY <1>6, <1>7, <1>9, ErrorRx
  <2> QED
    BY <1>5, <2>1 DEF Rx, Sequenced
<1>10. CASE close /\ s.channel.inRec = <<>>
  <2>1. t = CleanUp(v)
    BY <1>6, <1>10
  <2>2. Rx(v, t) /\ t.state = v.state /\ t.inReliable = v.inReliable
    BY <1>5, <1>7, <2>1, CleanUpRx
  <2>3. Rx(s, t) /\ t.inReliable = s.inReliable /\ (t.state = s.state \/ t.state = "error")
    BY <1>5, <2>2 DEF Rx
  <2> QED
    BY <1>1, <1>3, <1>7, <1>10, <2>1, <2>3 DEF Sequenced
<1> QED
  BY <1>8, <1>9, <1>10

LEMMA HandleBunchType ==
  ASSUME NEW s \in End, s.channel # NoChannel, Bounded(s), incarnation \in Nat,
         NEW rel \in BOOLEAN, NEW open \in BOOLEAN, NEW close \in BOOLEAN,
         NEW tags \in Seq(Tag), tags # <<>>,
         NEW t, t = HandleBunch(s, rel, open, close, tags)
  PROVE  Handled(s, rel, open, close, t)
<1>1. PICK u : u = IF open THEN [s EXCEPT !.channel.opened = TRUE, !.channel.openAcked = TRUE] ELSE s
  OBVIOUS
<1>2. Quiet(s, open, u)
  <2>1. CASE open
    <3>1. Quiet(s, TRUE, u)
      BY <1>1, <2>1, OpenQuiet
    <3> QED
      BY <2>1, <3>1
  <2>2. CASE ~open
    <3>1. Quiet(s, FALSE, s)
      BY QuietRefl
    <3> QED
      BY <1>1, <2>2, <3>1
  <2> QED
    BY <2>1, <2>2
<1>3. /\ u \in End /\ u.channel # NoChannel /\ Bounded(u) /\ Rx(s, u) /\ u.inReliable = s.inReliable
      /\ u.state = s.state
  <2>1. Rx(s, u)
    BY <1>2, QuietRx
  <2> QED
    BY <1>2, <2>1 DEF Quiet, Rx
<1> DEFINE twice == open /\ (s.channel.openedLocally \/ s.channel.opened)
           early == ~u.channel.openedLocally /\ ~u.channel.openAcked
<1>4. /\ twice => t = Error(s)
      /\ ~twice /\ early /\ rel => t = Error(s)
      /\ ~twice /\ early /\ ~rel => t = SkipAck(s)
      /\ ~twice /\ ~early => t = Error(s) \/ t = ReceivedSequencedBunch(u, open, close, tags)
  <2> DEFINE w == IF open THEN [s EXCEPT !.channel.opened = TRUE, !.channel.openAcked = TRUE] ELSE s
  <2>1. t = IF twice THEN Error(s)
            ELSE IF ~w.channel.openedLocally /\ ~w.channel.openAcked
              THEN IF rel THEN Error(s) ELSE SkipAck(s)
            ELSE IF ~w.channel.opened THEN Error(s)
            ELSE ReceivedSequencedBunch(w, open, close, tags)
    BY DEF HandleBunch
  <2>2. u = w
    BY <1>1
  <2> HIDE DEF w, twice
  <2> QED
    BY <2>1, <2>2
<1>5. open => ~early
  BY <1>2 DEF Quiet
<1>6. CASE t = Error(s)
  <2>1. Rx(s, t) /\ t.state = "error" /\ t.inReliable = s.inReliable
    BY <1>6, ErrorRx
  <2> QED
    BY <2>1 DEF Handled
<1>7. CASE ~rel /\ t = SkipAck(s)
  <2>1. Quiet(s, FALSE, t)
    BY <1>7, SkipAckQuiet
  <2>2. PICK o \in BOOLEAN : o = FALSE
    OBVIOUS
  <2>3. Rx(s, t)
    BY <2>1, <2>2, QuietRx
  <2>4. t.inReliable = s.inReliable /\ t.state = s.state
    BY <2>1 DEF Quiet
  <2> QED
    BY <1>7, <2>1, <2>3, <2>4 DEF Handled
<1>8. CASE ~twice /\ ~early /\ t = ReceivedSequencedBunch(u, open, close, tags)
  <2>1. Sequenced(u, open, close, t)
    BY <1>3, <1>8, ReceivedSequencedBunchType
  <2>2. Rx(s, t) /\ t.inReliable = s.inReliable /\ (s.state = "open" => t.state \in {"open", "error"})
    BY <1>3, <2>1 DEF Rx, Sequenced
  <2>3. ASSUME t.state # "error" PROVE Given(s, open, close, t)
    <3>1. PICK x \in End, v \in End :
                /\ Quiet(u, FALSE, x)
                /\ open /\ ~u.channel.closing => v = SetChannelActor(x)
                /\ ~(open /\ ~u.channel.closing) => v = x
                /\ ~close => t = v
                /\ close => t = CleanUp(v) /\ u.channel.inRec = <<>>
      BY <2>1, <2>3 DEF Sequenced
    <3>2. Quiet(s, open, x)
      BY <1>2, <3>1, QuietTrans
    <3>3. u.channel.closing = s.channel.closing /\ u.channel.inRec = s.channel.inRec
      BY <1>2 DEF Quiet
    <3>4. ~open => s.channel.openedLocally \/ s.channel.openAcked
      BY <1>2, <1>8 DEF Quiet
    <3> QED
      BY <1>8, <3>1, <3>2, <3>3, <3>4 DEF Given
  <2> QED
    BY <2>2, <2>3 DEF Handled
<1> QED
  BY <1>4, <1>5, <1>6, <1>7, <1>8

LEMMA StartPartialType ==
  ASSUME NEW s \in End, s.channel # NoChannel, NEW b \in Bunch, NEW t, t = StartPartial(s, b)
  PROVE  t = Error(s) \/ Quiet(s, FALSE, t)
<1> DEFINE p == [rel |-> b.rel, seq |-> b.seq, age |-> 0, final |-> FALSE,
                 open |-> b.open, close |-> FALSE, tags |-> <<b.tag>>]
<1>1. p \in Partial
  <2>1. b.tag \in Tag
    BY DEF Bunch
  <2>2. <<b.tag>> \in Seq(Tag)
    BY <2>1
  <2>3. 0 \in 0 .. 2
    OBVIOUS
  <2> QED
    BY <2>2, <2>3 DEF Partial, Bunch
<1> DEFINE busy == s.channel.inPartial # NoPartial /\ s.channel.inPartial.rel
                     /\ ~s.channel.inPartial.final
<1>2. t = IF busy THEN (IF b.rel THEN Error(s) ELSE SkipAck(s))
          ELSE [s EXCEPT !.channel.inPartial = p]
  BY DEF StartPartial
<1> HIDE DEF p, busy
<1>3. CASE t = Error(s)
  BY <1>3
<1>4. CASE t = SkipAck(s)
  BY <1>4, SkipAckQuiet
<1>5. CASE t = [s EXCEPT !.channel.inPartial = p]
  BY <1>1, <1>5, PartialQuiet
<1> QED
  BY <1>2, <1>3, <1>4, <1>5

\* What is known of the message that a bunch completes.
Completes(b, open, close) ==
  /\ b.part = "whole" => (open <=> b.open) /\ (close <=> b.close)
  /\ close => b.close

\* The bunch was taken: it is part of a message, or completes one.
Took(w, b, t) ==
  /\ Rx(w, t) /\ t.inReliable = w.inReliable
  /\ w.state = "open" => t.state \in {"open", "error"}
  /\ t.state # "error" =>
       \/ Quiet(w, FALSE, t) /\ ~(b.rel /\ b.part = "whole")
       \/ \E u \in End, open \in BOOLEAN, close \in BOOLEAN :
            Quiet(w, FALSE, u) /\ Given(u, open, close, t) /\ Completes(b, open, close)

LEMMA TookError ==
  ASSUME NEW w \in End, Bounded(w), NEW b, NEW t, t = Error(w)
  PROVE  Took(w, b, t)
  BY ErrorRx DEF Took

LEMMA TookQuiet ==
  ASSUME NEW w \in End, Bounded(w), NEW b, NEW t, Quiet(w, FALSE, t), ~(b.rel /\ b.part = "whole")
  PROVE  Took(w, b, t)
<1>1. PICK o \in BOOLEAN : o = FALSE
  OBVIOUS
<1>2. Rx(w, t)
  BY <1>1, QuietRx
<1>3. t.inReliable = w.inReliable /\ t.state = w.state
  BY DEF Quiet
<1> QED
  BY <1>2, <1>3 DEF Took

LEMMA TookHandled ==
  ASSUME NEW w \in End, Bounded(w), NEW b \in Bunch, NEW u, Quiet(w, FALSE, u),
         NEW rel \in BOOLEAN, NEW open \in BOOLEAN, NEW close \in BOOLEAN,
         Completes(b, open, close), b.part = "whole" => rel = b.rel,
         NEW t, Handled(u, rel, open, close, t)
  PROVE  Took(w, b, t)
<1>1. PICK o \in BOOLEAN : o = FALSE
  OBVIOUS
<1>2. Rx(w, u) /\ u.inReliable = w.inReliable /\ u.state = w.state /\ u \in End
  BY <1>1, QuietRx DEF Quiet
<1>3. /\ Rx(u, t) /\ t.inReliable = u.inReliable
      /\ u.state = "open" => t.state \in {"open", "error"}
      /\ t.state # "error" => (~rel /\ Quiet(u, FALSE, t)) \/ Given(u, open, close, t)
  BY DEF Handled
<1>4. Rx(w, t) /\ t.inReliable = w.inReliable /\ (w.state = "open" => t.state \in {"open", "error"})
  BY <1>2, <1>3 DEF Rx
<1>5. ASSUME ~rel, Quiet(u, FALSE, t) PROVE Quiet(w, FALSE, t) /\ ~(b.rel /\ b.part = "whole")
  <2>1. Quiet(w, FALSE, t)
    <3>1. Quiet(w, o, u)
      BY <1>1
    <3>2. Quiet(w, o, t)
      BY <1>5, <3>1, QuietTrans
    <3> QED
      BY <1>1, <3>2
  <2> QED
    BY <1>5, <2>1
<1> QED
  BY <1>2, <1>3, <1>4, <1>5 DEF Took

LEMMA MergePartialType ==
  ASSUME NEW s \in End, s.channel # NoChannel, Bounded(s), incarnation \in Nat,
         NEW b \in Bunch, b.part # "whole", NEW t, t = MergePartial(s, b)
  PROVE  Took(s, b, t)
<1> DEFINE q == s.channel.inPartial
           tags == Append(q.tags, b.tag)
           p == [q EXCEPT !.seq = b.seq, !.age = 0, !.tags = tags,
                           !.final = b.part = "final",
                           !.close = b.part = "final" /\ b.close]
           u == [s EXCEPT !.channel.inPartial = p]
<1>0. q \in {NoPartial} \cup Partial
  BY ChannelIn DEF Channel
<1>1. t = IF Continues(q, b)
            THEN IF b.part = "final" THEN HandleBunch(u, q.rel, q.open, b.close, tags) ELSE u
          ELSE IF q # NoPartial /\ q.rel
            THEN IF b.rel THEN Error(s) ELSE SkipAck(s)
          ELSE SkipAck([s EXCEPT !.channel.inPartial = NoPartial])
  BY DEF MergePartial
<1> HIDE DEF u, q
<1>2. CASE Continues(q, b)
  <2>1. q \in Partial
    BY <1>0, <1>2 DEF Continues
  <2>2. tags \in Seq(Tag) /\ tags # <<>> /\ q.rel \in BOOLEAN /\ q.open \in BOOLEAN /\ b.close \in BOOLEAN
    <3>1. q.tags \in Seq(Tag) /\ b.tag \in Tag
      BY <2>1 DEF Partial, Bunch
    <3>2. tags \in Seq(Tag) /\ Len(tags) = Len(q.tags) + 1
      BY <3>1, AppendProperties
    <3>3. Len(q.tags) \in Nat
      BY <3>1
    <3>4. tags # <<>>
      BY <3>2, <3>3
    <3> QED
      BY <2>1, <3>2, <3>4 DEF Partial, Bunch
  <2> HIDE DEF tags
  <2>3. p \in Partial
    <3>1. PICK f \in BOOLEAN, c \in BOOLEAN, a \in 0 .. 2, e \in Nat :
            f = (b.part = "final") /\ c = (b.part = "final" /\ b.close) /\ a = 0 /\ e = b.seq
      <4>1. (b.part = "final") \in BOOLEAN /\ (b.part = "final" /\ b.close) \in BOOLEAN
        OBVIOUS
      <4>2. 0 \in 0 .. 2 /\ b.seq \in Nat
        BY DEF Bunch
      <4> QED
        BY <4>1, <4>2
    <3>2. p = [q EXCEPT !.seq = e, !.age = a, !.tags = tags, !.final = f, !.close = c]
      BY <3>1
    <3> QED
      BY <2>1, <2>2, <3>2 DEF Partial
  <2> HIDE DEF p
  <2>4. Quiet(s, FALSE, u)
    BY <2>3, PartialQuiet DEF u
  <2>5. u \in End /\ u.channel # NoChannel /\ Bounded(u)
    <3>1. PICK o \in BOOLEAN : o = FALSE
      OBVIOUS
    <3>2. Rx(s, u)
      BY <2>4, <3>1, QuietRx
    <3> QED
      BY <2>4, <3>2 DEF Quiet, Rx
  <2>6. CASE b.part = "final"
    <3>1. t = HandleBunch(u, q.rel, q.open, b.close, tags)
      BY <1>1, <1>2, <2>6
    <3>2. PICK rel \in BOOLEAN, open \in BOOLEAN, close \in BOOLEAN :
            rel = q.rel /\ open = q.open /\ close = b.close
      BY <2>2
    <3>3. t = HandleBunch(u, rel, open, close, tags)
      BY <3>1, <3>2
    <3>4. Handled(u, rel, open, close, t)
      BY <2>2, <2>5, <3>3, HandleBunchType
    <3>5. Completes(b, open, close)
      BY <2>6, <3>2 DEF Completes
    <3> QED
      BY <2>4, <2>6, <3>4, <3>5, TookHandled
  <2>7. CASE b.part # "final"
    <3>1. t = u
      BY <1>1, <1>2, <2>7
    <3> QED
      BY <2>4, <3>1, TookQuiet
  <2> QED
    BY <2>6, <2>7
<1> HIDE DEF p, tags
<1>3. CASE t = Error(s)
  BY <1>3, TookError
<1>4. CASE t = SkipAck(s)
  <2>1. Quiet(s, FALSE, t)
    BY <1>4, SkipAckQuiet
  <2> QED
    BY <2>1, TookQuiet
<1>5. CASE t = SkipAck([s EXCEPT !.channel.inPartial = NoPartial])
  <2>1. PICK n \in {NoPartial} \cup Partial : n = NoPartial
    OBVIOUS
  <2>2. PICK v : v = [s EXCEPT !.channel.inPartial = n]
    OBVIOUS
  <2>3. Quiet(s, FALSE, v)
    BY <2>2, PartialQuiet
  <2>4. v \in End /\ v.channel # NoChannel
    BY <2>3 DEF Quiet
  <2>5. t = SkipAck(v)
    BY <1>5, <2>1, <2>2
  <2>6. Quiet(v, FALSE, t)
    BY <2>4, <2>5, SkipAckQuiet
  <2>7. Quiet(s, FALSE, t)
    <3>1. PICK o \in BOOLEAN : o = FALSE
      OBVIOUS
    <3>2. Quiet(s, o, v)
      BY <2>3, <3>1
    <3>3. Quiet(s, o, t)
      BY <2>6, <3>2, QuietTrans
    <3> QED
      BY <3>1, <3>3
  <2> QED
    BY <2>7, TookQuiet
<1> QED
  BY <1>1, <1>2, <1>3, <1>4, <1>5

\* The end after it has gone on to a bunch.
Advanced(s, b) == [s EXCEPT !.inReliable = IF b.rel THEN b.seq ELSE @]

LEMMA AdvancedType ==
  ASSUME NEW s \in End, NEW b \in Bunch, NEW t, t = Advanced(s, b)
  PROVE  /\ t \in End
         /\ b.rel => t.inReliable = b.seq
         /\ ~b.rel => t.inReliable = s.inReliable
         /\ t.state = s.state /\ t.channel = s.channel
         /\ t.wire = s.wire /\ t.sendBuffer = s.sendBuffer /\ t.unnotified = s.unnotified
         /\ t.outReliable = s.outReliable /\ t.pendingOutRec = s.pendingOutRec
         /\ t.fates = s.fates /\ t.receiving = s.receiving /\ SameGame(s, t)
<1>1. PICK n \in Nat : n = IF b.rel THEN b.seq ELSE s.inReliable
  BY DEF Bunch, End
<1>2. t = [s EXCEPT !.inReliable = n]
  BY <1>1 DEF Advanced
<1> QED
  BY <1>1, <1>2 DEF End, SameGame

\* What the channel does with the bunch it has gone on to.
Handles(w, b) ==
  CASE b.part = "whole"   -> HandleBunch(w, b.rel, b.open, b.close, <<b.tag>>)
    [] b.part = "initial" -> StartPartial(w, b)
    [] OTHER              -> MergePartial(w, b)

LEMMA ReceivedNextBunchIs ==
  ASSUME NEW s, NEW b
  PROVE  ReceivedNextBunch(s, b) = Handles(Advanced(s, b), b)
BY DEF ReceivedNextBunch, Handles, Advanced

LEMMA ReceivedNextBunchType ==
  ASSUME NEW s \in End, s.channel # NoChannel, Bounded(s), incarnation \in Nat,
         NEW b \in Bunch, NEW t, t = ReceivedNextBunch(s, b)
  PROVE  Took(Advanced(s, b), b, t) /\ Rx(s, t)
<1>1. PICK w : w = Advanced(s, b)
  OBVIOUS
<1>2. /\ w \in End /\ w.channel # NoChannel /\ Bounded(w)
      /\ w.wire = s.wire /\ w.fates = s.fates /\ w.unnotified = s.unnotified
      /\ w.receiving = s.receiving /\ w.outReliable = s.outReliable
  BY <1>1, AdvancedType DEF Bounded, Records
<1>3. t = CASE b.part = "whole"   -> HandleBunch(w, b.rel, b.open, b.close, <<b.tag>>)
            [] b.part = "initial" -> StartPartial(w, b)
            [] OTHER              -> MergePartial(w, b)
  BY <1>1 DEF ReceivedNextBunch, Advanced
<1>4. b.rel \in BOOLEAN /\ b.open \in BOOLEAN /\ b.close \in BOOLEAN /\ <<b.tag>> \in Seq(Tag) /\ <<b.tag>> # <<>>
  <2>1. b.tag \in Tag
    BY DEF Bunch
  <2> QED
    BY <2>1 DEF Bunch
<1>5. CASE b.part = "whole"
  <2>1. PICK rel \in BOOLEAN, open \in BOOLEAN, close \in BOOLEAN, tags \in Seq(Tag) :
          rel = b.rel /\ open = b.open /\ close = b.close /\ tags = <<b.tag>>
    BY <1>4
  <2>2. t = HandleBunch(w, rel, open, close, tags) /\ tags # <<>>
    BY <1>3, <1>4, <1>5, <2>1
  <2>3. Handled(w, rel, open, close, t)
    BY <1>2, <2>2, HandleBunchType
  <2>4. Quiet(w, FALSE, w)
    BY <1>2, QuietRefl
  <2>5. Completes(b, open, close)
    BY <2>1 DEF Completes
  <2>6. Took(w, b, t)
    BY <1>2, <2>1, <2>3, <2>4, <2>5, TookHandled
  <2> QED
    BY <1>1, <1>2, <2>6 DEF Took, Rx
<1>6. CASE b.part = "initial"
  <2>1. t = StartPartial(w, b)
    BY <1>3, <1>6
  <2>2. t = Error(w) \/ Quiet(w, FALSE, t)
    BY <1>2, <2>1, StartPartialType
  <2>3. Took(w, b, t)
    BY <1>2, <1>6, <2>2, TookError, TookQuiet
  <2> QED
    BY <1>1, <1>2, <2>3 DEF Took, Rx
<1>7. CASE b.part # "whole" /\ b.part # "initial"
  <2>1. t = MergePartial(w, b)
    BY <1>3, <1>7
  <2>2. Took(w, b, t)
    BY <1>2, <1>7, <2>1, MergePartialType
  <2> QED
    BY <1>1, <1>2, <2>2 DEF Took, Rx
<1> QED
  BY <1>5, <1>6, <1>7

\* QueueBunch: the bunch is put behind those with smaller numbers.
Enqueued(s, b, t) ==
  LET inRec == s.channel.inRec
  IN  \E n \in 0 .. Len(inRec) :
        /\ \A i \in 1 .. n : inRec[i].seq < b.seq
        /\ n < Len(inRec) => inRec[n + 1].seq > b.seq
        /\ Len(inRec) + 1 < ReliableBuffer
        /\ t \in End /\ t.channel # NoChannel
        /\ t.channel.inRec = SubSeq(inRec, 1, n) \o <<b>> \o SubSeq(inRec, n + 1, Len(inRec))
        /\ t.channel.outRec = s.channel.outRec
        /\ t.channel.openedLocally = s.channel.openedLocally
        /\ t.channel.closing = s.channel.closing
        /\ t.channel.opened = s.channel.opened /\ t.channel.openAcked = s.channel.openAcked
        /\ t.channel.inPartial = s.channel.inPartial
        /\ t.state = s.state /\ t.wire = s.wire /\ t.sendBuffer = s.sendBuffer
        /\ t.unnotified = s.unnotified /\ t.outReliable = s.outReliable
        /\ t.inReliable = s.inReliable /\ t.pendingOutRec = s.pendingOutRec
        /\ t.fates = s.fates /\ t.receiving = s.receiving /\ SameGame(s, t)

\* There is no room for it.
Crowded(s, b) ==
  LET inRec == s.channel.inRec
  IN  \E n \in 0 .. Len(inRec) :
        /\ \A i \in 1 .. n : inRec[i].seq < b.seq
        /\ n < Len(inRec) => inRec[n + 1].seq > b.seq
        /\ Len(inRec) + 1 >= ReliableBuffer

LEMMA QueueBunchType ==
  ASSUME NEW s \in End, s.channel # NoChannel, NEW b \in Bunch, NEW t, t = QueueBunch(s, b)
  PROVE  \/ t = Error(s) /\ (b.open \/ Crowded(s, b))
         \/ ~b.open /\ t = s /\ \E i \in 1 .. Len(s.channel.inRec) : s.channel.inRec[i].seq = b.seq
         \/ ~b.open /\ Enqueued(s, b, t)
<1> DEFINE inRec == s.channel.inRec
           P(n) == /\ \A i \in 1..n : inRec[i].seq < b.seq
                   /\ n < Len(inRec) => inRec[n + 1].seq >= b.seq
           before == CHOOSE n \in 0..Len(inRec) : P(n)
           B == {n \in Nat : n + 1 > Len(inRec) \/ inRec[n + 1].seq >= b.seq}
<1>1. s.channel \in Channel /\ inRec \in Seq(Bunch)
  BY ChannelIn DEF Channel
<1>2. Len(inRec) \in Nat /\ (\A i \in 1 .. Len(inRec) : inRec[i] \in Bunch /\ inRec[i].seq \in Nat)
  <2>1. \A i \in 1 .. Len(inRec) : inRec[i] \in Bunch
    BY <1>1
  <2> HIDE DEF inRec
  <2>2. \A i \in 1 .. Len(inRec) : inRec[i].seq \in Nat
    BY <2>1 DEF Bunch
  <2> QED
    BY <1>1, <2>1, <2>2
<1> HIDE DEF inRec
<1>3. PICK m \in B : \A k \in B : m <= k
  <2>1. Len(inRec) \in B
    BY <1>2
  <2> HIDE DEF B
  <2> QED
    BY <2>1, LeastOf DEF B
<1>4. m \in 0 .. Len(inRec)
  <2>1. Len(inRec) \in B
    BY <1>2
  <2> QED
    BY <1>2, <1>3, <2>1
<1>5. P(m)
  <2>1. ASSUME NEW i \in 1 .. m PROVE inRec[i].seq < b.seq
    <3>1. i - 1 \in Nat /\ i - 1 < m /\ (i - 1) + 1 = i /\ i \in 1 .. Len(inRec)
      BY <1>2, <1>4
    <3>2. i - 1 \notin B
      <4>1. PICK k \in Int : k = i - 1 /\ ~(m <= k)
        BY <1>4, <3>1
      <4> HIDE DEF B
      <4> QED
        BY <1>3, <4>1, Zenon
    <3>3. ~(inRec[i].seq >= b.seq)
      BY <3>1, <3>2
    <3> QED
      BY <1>2, <3>1, <3>3 DEF Bunch
  <2> QED
    BY <1>2, <1>3, <1>4, <2>1
<1>6. before \in 0 .. Len(inRec) /\ P(before)
  <2> HIDE DEF P, B
  <2> QED
    BY <1>4, <1>5
<1>7. t = IF b.open THEN Error(s)
          ELSE IF before < Len(inRec) /\ inRec[before + 1].seq = b.seq THEN s
          ELSE IF Len(inRec) + 1 >= ReliableBuffer THEN Error(s)
          ELSE [s EXCEPT !.channel.inRec =
              SubSeq(inRec, 1, before) \o <<b>> \o SubSeq(inRec, before + 1, Len(inRec))]
  BY Zenon DEF QueueBunch, inRec
<1> HIDE DEF before
<1>8. CASE b.open
  BY <1>7, <1>8
<1>9. CASE ~b.open /\ before < Len(inRec) /\ inRec[before + 1].seq = b.seq
  <2>1. t = s
    BY <1>7, <1>9
  <2>2. before + 1 \in 1 .. Len(inRec)
    BY <1>2, <1>6, <1>9
  <2> QED
    BY <1>9, <2>1, <2>2 DEF inRec
<1>10. ASSUME ~(before < Len(inRec) /\ inRec[before + 1].seq = b.seq)
       PROVE  before < Len(inRec) => inRec[before + 1].seq > b.seq
  <2> SUFFICES ASSUME before < Len(inRec) PROVE inRec[before + 1].seq > b.seq
    OBVIOUS
  <2>1. before + 1 \in 1 .. Len(inRec)
    BY <1>2, <1>6
  <2>2. inRec[before + 1].seq \in Nat /\ b.seq \in Nat
    BY <1>2, <2>1 DEF Bunch
  <2> QED
    BY <1>6, <1>10, <2>2
<1>11. \A i \in 1 .. before : inRec[i].seq < b.seq
  BY <1>6
<1>12. CASE ~b.open /\ ~(before < Len(inRec) /\ inRec[before + 1].seq = b.seq) /\ Len(inRec) + 1 >= ReliableBuffer
  <2>1. t = Error(s)
    BY <1>7, <1>12
  <2>2. Crowded(s, b)
    BY <1>6, <1>10, <1>11, <1>12 DEF Crowded, inRec
  <2> QED
    BY <2>1, <2>2
<1>13. CASE ~b.open /\ ~(before < Len(inRec) /\ inRec[before + 1].seq = b.seq) /\ ~(Len(inRec) + 1 >= ReliableBuffer)
  <2> DEFINE q == SubSeq(inRec, 1, before) \o <<b>> \o SubSeq(inRec, before + 1, Len(inRec))
  <2>1. q \in Seq(Bunch)
    <3>1. SubSeq(inRec, 1, before) \in Seq(Bunch) /\ SubSeq(inRec, before + 1, Len(inRec)) \in Seq(Bunch)
      BY <1>1, <1>6 DEF inRec
    <3>2. <<b>> \in Seq(Bunch)
      OBVIOUS
    <3> QED
      BY <3>1, <3>2, ConcatProperties
  <2> HIDE DEF q
  <2>2. t = [s EXCEPT !.channel.inRec = q]
    BY <1>7, <1>13 DEF q
  <2>3. PICK c : c = [s.channel EXCEPT !.inRec = q]
    OBVIOUS
  <2>4. /\ c \in Channel /\ c.inRec = q /\ c.outRec = s.channel.outRec
        /\ c.openedLocally = s.channel.openedLocally /\ c.closing = s.channel.closing
        /\ c.opened = s.channel.opened /\ c.openAcked = s.channel.openAcked
        /\ c.inPartial = s.channel.inPartial
    BY <1>1, <2>1, <2>3 DEF Channel
  <2>5. t = [s EXCEPT !.channel = c]
    BY <1>1, <2>2, <2>3 DEF Channel, End
  <2>6. /\ t \in End /\ t.channel = c /\ c # NoChannel
        /\ t.state = s.state /\ t.wire = s.wire /\ t.sendBuffer = s.sendBuffer
        /\ t.unnotified = s.unnotified /\ t.outReliable = s.outReliable
        /\ t.inReliable = s.inReliable /\ t.pendingOutRec = s.pendingOutRec
        /\ t.fates = s.fates /\ t.receiving = s.receiving /\ SameGame(s, t)
    BY <2>4, <2>5, WithChannel
  <2>8. Len(inRec) + 1 < ReliableBuffer
    BY <1>2, <1>13, ChannelAssumption
  <2>10. Enqueued(s, b, t)
    BY <1>6, <1>10, <1>11, <1>13, <2>4, <2>6, <2>8 DEF Enqueued, q, inRec
  <2> QED
    BY <1>13, <2>10
<1> QED
  BY <1>7, <1>8, <1>9, <1>12, <1>13

LEMMA EnqueuedRx ==
  ASSUME NEW s \in End, s.channel # NoChannel, Bounded(s), NEW b \in Bunch, NEW t, Enqueued(s, b, t)
  PROVE  Rx(s, t)
  BY DEF Enqueued, Rx, Bounded, Records

LEMMA ReceivedRawBunchType ==
  ASSUME NEW s \in End, s.channel # NoChannel, Bounded(s), incarnation \in Nat,
         NEW b \in Bunch, NEW t, t = ReceivedRawBunch(s, b)
  PROVE  Rx(s, t)
<1>1. CASE b.rel /\ b.seq # s.inReliable + 1
  <2>1. t = QueueBunch(s, b)
    BY <1>1 DEF ReceivedRawBunch
  <2>2. t = Error(s) \/ t = s \/ Enqueued(s, b, t)
    BY <2>1, QueueBunchType
  <2>3. Rx(s, s)
    BY DEF Rx
  <2> QED
    BY <2>2, <2>3, ErrorRx, EnqueuedRx
<1>2. CASE ~(b.rel /\ b.seq # s.inReliable + 1)
  <2>1. t = ReceivedNextBunch(s, b)
    BY <1>2 DEF ReceivedRawBunch
  <2> QED
    BY <2>1, ReceivedNextBunchType
<1> QED
  BY <1>1, <1>2

\* A channel is created.
Created(s, local, t) ==
  /\ t \in End /\ t.channel # NoChannel /\ t.channel = NewChannel(local)
  /\ t.channel.openedLocally = local
  /\ t.channel.opened = FALSE /\ t.channel.openAcked = FALSE /\ t.channel.closing = FALSE
  /\ t.channel.outRec = <<>> /\ t.channel.inRec = <<>> /\ t.channel.inPartial = NoPartial
  /\ t.state = s.state /\ t.wire = s.wire /\ t.sendBuffer = s.sendBuffer
  /\ t.unnotified = s.unnotified /\ t.outReliable = s.outReliable
  /\ t.inReliable = s.inReliable /\ t.pendingOutRec = s.pendingOutRec
  /\ t.fates = s.fates /\ t.receiving = s.receiving /\ SameGame(s, t)

LEMMA CreatedType ==
  ASSUME NEW s \in End, NEW local \in BOOLEAN, NEW t, t = [s EXCEPT !.channel = NewChannel(local)]
  PROVE  Created(s, local, t)
<1>1. PICK c : c = NewChannel(local)
  OBVIOUS
<1>2. /\ c \in Channel /\ c.openedLocally = local
      /\ c.opened = FALSE /\ c.openAcked = FALSE /\ c.closing = FALSE
      /\ c.outRec = <<>> /\ c.inRec = <<>> /\ c.inPartial = NoPartial
  BY <1>1 DEF NewChannel, Channel
<1>3. /\ t \in End /\ t.channel = c /\ c # NoChannel
      /\ t.state = s.state /\ t.wire = s.wire /\ t.sendBuffer = s.sendBuffer
      /\ t.unnotified = s.unnotified /\ t.outReliable = s.outReliable
      /\ t.inReliable = s.inReliable /\ t.pendingOutRec = s.pendingOutRec
      /\ t.fates = s.fates /\ t.receiving = s.receiving /\ SameGame(s, t)
  BY <1>1, <1>2, WithChannel
<1> QED
  BY <1>1, <1>2, <1>3 DEF Created

LEMMA DispatchBunchType ==
  ASSUME NEW e \in Side, NEW s \in End, Bounded(s), incarnation \in Nat,
         NEW b, [b EXCEPT !.seq = 0] \in Bunch, b.seq \in Int, ~b.rel => b.seq = 0,
         b.rel /\ b.seq >= 0 => b \in Bunch, ~b.rel => b \in Bunch,
         NEW t, t = DispatchBunch(e, s, b)
  PROVE  Rx(s, t)
<1>0. Rx(s, s)
  BY DEF Rx
<1>1. CASE b.rel /\ b.seq <= s.inReliable
  BY <1>0, <1>1 DEF DispatchBunch
<1>2. CASE ~(b.rel /\ b.seq <= s.inReliable)
  <2>1. b \in Bunch
    BY <1>2 DEF End
  <2>2. CASE s.channel # NoChannel
    <3>1. t = ReceivedRawBunch(s, b)
      BY <1>2, <2>2 DEF DispatchBunch
    <3> QED
      BY <2>1, <2>2, <3>1, ReceivedRawBunchType
  <2>3. CASE s.channel = NoChannel /\ ~b.rel
    <3>1. t = SkipAck(s)
      BY <1>2, <2>3 DEF DispatchBunch
    <3>2. /\ t \in End
          /\ t.receiving.busy = s.receiving.busy /\ t.receiving.bunches = s.receiving.bunches
          /\ t.receiving.lost = s.receiving.lost
          /\ t.wire = s.wire /\ t.unnotified = s.unnotified
          /\ t.channel = s.channel /\ t.outReliable = s.outReliable
          /\ t.pendingOutRec = s.pendingOutRec /\ t.fates = s.fates
      BY <3>1, SkipAckType
    <3> QED
      BY <3>2 DEF Rx, Bounded, Records
  <2>4. CASE s.channel = NoChannel /\ b.rel /\ e = Server
    BY <1>0, <1>2, <2>4 DEF DispatchBunch
  <2>5. CASE s.channel = NoChannel /\ b.rel /\ e # Server
    <3>1. PICK u : u = [s EXCEPT !.channel = NewChannel(FALSE)]
      OBVIOUS
    <3>2. t = ReceivedRawBunch(u, b)
      BY <1>2, <2>5, <3>1 DEF DispatchBunch
    <3>3. PICK f \in BOOLEAN : f = FALSE
      OBVIOUS
    <3>4. /\ u \in End /\ u.channel # NoChannel /\ u.channel.outRec = <<>>
          /\ u.wire = s.wire /\ u.unnotified = s.unnotified /\ u.outReliable = s.outReliable
          /\ u.pendingOutRec = s.pendingOutRec /\ u.fates = s.fates /\ u.receiving = s.receiving
      <4>1. Created(s, f, u)
        BY <3>1, <3>3, CreatedType
      <4> QED
        BY <4>1 DEF Created
    <3>5. Bounded(u)
      BY <3>4 DEF Bounded, Records
    <3>6. Rx(u, t)
      BY <2>1, <3>2, <3>4, <3>5, ReceivedRawBunchType
    <3> QED
      BY <3>4, <3>6 DEF Rx
  <2> QED
    BY <2>2, <2>3, <2>4, <2>5
<1> QED
  BY <1>1, <1>2

-----------------------------------------------------------------------------
(* Types.                                                                  *)

\* The packets of its peer that an end has let in or given up.
Taken(r) == Len(r.fates) + (IF r.receiving.busy THEN r.receiving.lost + 1 ELSE 0)

\* Every packet of s is under way or dealt with, its fate not known to s.
Accounted(s, r) ==
  /\ s.unnotified = Taken(r) + Len(s.wire)
  /\ ~r.receiving.busy => r.receiving = NotReceiving

Begins(a, b) == Len(a) <= Len(b) /\ \A i \in 1 .. Len(a) : a[i] = b[i]

\* Later headers of r tell what earlier ones do, and nothing but what is so.
Told(r) ==
  /\ \A i \in 1 .. Len(r.wire) : Begins(r.wire[i].fates, r.fates)
  /\ \A i, j \in 1 .. Len(r.wire) : i <= j => Len(r.wire[i].fates) <= Len(r.wire[j].fates)

\* What the types rest on: no notification comes that nothing waits for, no number
\* is retired that was not used.
TypeInv ==
  /\ TypeOK
  /\ \A e \in Side : /\ Accounted(conn[e], conn[Other(e)])
                     /\ Told(conn[e])
                     /\ Bounded(conn[e])

LEMMA Sides ==
  ASSUME NEW e \in Side
  PROVE  Other(e) \in Side /\ Other(e) # e /\ Other(Other(e)) = e /\ Side = {e, Other(e)}
  BY ChannelAssumption DEF Side, Other

\* A step of one end.
Steps(s, t) ==
  /\ t \in End /\ Bounded(t) /\ Told(t)
  /\ t.unnotified - Len(t.wire) = s.unnotified - Len(s.wire)
  /\ Taken(t) = Taken(s)
  /\ ~t.receiving.busy => t.receiving = NotReceiving

TypeOKNext ==
  /\ incarnation' \in 0 .. MaxIncarnations /\ sent' \in [Side -> Nat]
  /\ loose' \in Nat /\ reused' \in BOOLEAN

LEMMA TakenType ==
  ASSUME NEW s \in End
  PROVE  Taken(s) \in Nat /\ Len(s.fates) <= Taken(s)
<1>1. Len(s.fates) \in Nat /\ s.receiving.lost \in Nat
  BY DEF End, Receiving
<1> QED
  BY <1>1 DEF Taken

LEMMA UpdateTypes ==
  ASSUME TypeInv, NEW e \in Side, NEW t, Steps(conn[e], t),
         conn' = [conn EXCEPT ![e] = t], TypeOKNext
  PROVE  TypeInv'
<1> DEFINE o == Other(e)
<1>1. o \in Side /\ o # e /\ Other(o) = e /\ Side = {e, o}
  BY Sides
<1> HIDE DEF o
<1>2. conn \in [Side -> End] /\ conn[e] \in End /\ conn[o] \in End
  BY <1>1 DEF TypeInv, TypeOK
<1>3. conn' \in [Side -> End] /\ conn'[e] = t /\ conn'[o] = conn[o]
  BY <1>1, <1>2 DEF Steps
<1>4. TypeOK'
  BY <1>3 DEF TypeOK, TypeOKNext
<1>5. /\ Accounted(conn[e], conn[o]) /\ Accounted(conn[o], conn[e])
      /\ Told(conn[o]) /\ Bounded(conn[o])
  BY <1>1 DEF TypeInv, o
<1>6. Accounted(t, conn[o])
  <2>1. /\ conn[e].unnotified \in Nat /\ t.unnotified \in Nat
        /\ Len(conn[e].wire) \in Nat /\ Len(t.wire) \in Nat /\ Taken(conn[o]) \in Nat
    <3>1. t \in End
      BY DEF Steps
    <3>2. /\ conn[e].unnotified \in Nat /\ t.unnotified \in Nat
          /\ conn[e].wire \in Seq(Packet) /\ t.wire \in Seq(Packet)
      BY <1>2, <3>1 DEF End
    <3>3. Taken(conn[o]) \in Nat
      BY <1>2, TakenType
    <3> QED
      BY <3>2, <3>3
  <2>2. conn[e].unnotified = Taken(conn[o]) + Len(conn[e].wire)
    BY <1>5 DEF Accounted
  <2>3. t.unnotified - Len(t.wire) = conn[e].unnotified - Len(conn[e].wire)
    BY DEF Steps
  <2>4. t.unnotified = Taken(conn[o]) + Len(t.wire)
    BY <2>1, <2>2, <2>3, SMTT(30)
  <2> QED
    BY <1>5, <2>4 DEF Accounted
<1>7. Accounted(conn[o], t)
  BY <1>5 DEF Accounted, Steps
<1>8. Told(t) /\ Bounded(t)
  BY DEF Steps
<1>9. \A x \in Side : /\ Accounted(conn'[x], conn'[Other(x)]) /\ Told(conn'[x]) /\ Bounded(conn'[x])
  BY <1>1, <1>3, <1>5, <1>6, <1>7, <1>8 DEF o
<1> QED
  BY <1>4, <1>9 DEF TypeInv

LEMMA EndFacts ==
  ASSUME TypeInv, NEW e \in Side
  PROVE  /\ conn[e] \in End /\ Bounded(conn[e]) /\ Told(conn[e])
         /\ ~conn[e].receiving.busy => conn[e].receiving = NotReceiving
         /\ incarnation \in Nat /\ sent[e] \in Nat
<1>1. Accounted(conn[Other(e)], conn[e])
  BY Sides DEF TypeInv
<1>2. MaxIncarnations \in Nat
  BY ChannelAssumption
<1> QED
  BY <1>1, <1>2 DEF TypeInv, TypeOK, Accounted

\* Everything but the packets under way and the counters of packets.
LEMMA QuietSteps ==
  ASSUME NEW s \in End, Told(s), ~s.receiving.busy => s.receiving = NotReceiving,
         NEW t \in End, t.wire = s.wire, t.unnotified = s.unnotified,
         t.fates = s.fates, t.receiving = s.receiving, Bounded(t)
  PROVE  Steps(s, t)
  BY DEF Steps, Told, Taken

LEMMA WritesSteps ==
  ASSUME NEW s \in End, s.channel # NoChannel, Told(s), Bounded(s),
         ~s.receiving.busy => s.receiving = NotReceiving, NEW t, Writes(s, t)
  PROVE  Steps(s, t)
<1>1. /\ t \in End /\ Len(s.wire) \in Nat /\ Len(t.wire) \in Nat
      /\ Len(s.fates) \in Nat /\ s.outReliable \in Nat /\ t.outReliable \in Nat
      /\ s.pendingOutRec \in Nat
  BY SMTT(30) DEF Writes, End
<1>2. /\ Len(t.wire) >= Len(s.wire) /\ t.fates = s.fates /\ t.receiving = s.receiving
      /\ \A i \in 1 .. Len(s.wire) : t.wire[i] = s.wire[i]
      /\ \A i \in Len(s.wire) + 1 .. Len(t.wire) : t.wire[i].fates = s.fates
      /\ t.unnotified - Len(t.wire) = s.unnotified - Len(s.wire)
  BY DEF Writes
<1>3. \A i \in 1 .. Len(t.wire) :
        i \in 1 .. Len(s.wire) \/ i \in Len(s.wire) + 1 .. Len(t.wire)
  BY <1>1
<1>4. Told(t)
  <2>0. \A i \in 1 .. Len(s.wire) : Len(s.wire[i].fates) <= Len(s.fates)
    BY DEF Told, Begins
  <2>1. \A i \in 1 .. Len(t.wire) : Begins(t.wire[i].fates, t.fates)
    <3> TAKE i \in 1 .. Len(t.wire)
    <3>1. Begins(s.fates, s.fates)
      BY <1>1 DEF Begins
    <3> QED
      BY <1>2, <1>3, <3>1 DEF Told
  <2>2. ASSUME NEW i \in 1 .. Len(t.wire), NEW j \in 1 .. Len(t.wire), i <= j
        PROVE  Len(t.wire[i].fates) <= Len(t.wire[j].fates)
    <3>1. CASE j \in 1 .. Len(s.wire)
      <4>1. i \in 1 .. Len(s.wire)
        BY <1>1, <2>2, <3>1
      <4> QED
        BY <1>2, <2>2, <3>1, <4>1 DEF Told
    <3>2. CASE j \in Len(s.wire) + 1 .. Len(t.wire)
      <4>1. t.wire[j].fates = s.fates
        BY <1>2, <3>2
      <4>2. CASE i \in 1 .. Len(s.wire)
        BY <1>2, <2>0, <4>1, <4>2
      <4>3. CASE i \in Len(s.wire) + 1 .. Len(t.wire)
        <5>1. t.wire[i].fates = s.fates
          BY <1>2, <4>3
        <5> QED
          BY <1>1, <4>1, <5>1
      <4> QED
        BY <1>3, <4>2, <4>3
    <3> QED
      BY <1>3, <3>1, <3>2
  <2> QED
    BY <2>1, <2>2 DEF Told
<1>5. Bounded(t)
  <2>1. s.channel.outRec \in Seq(OutBunch) /\ t.channel.outRec \in Seq(OutBunch)
    BY ChannelIn DEF Writes, Channel
  <2>2. ASSUME NEW i \in DOMAIN Records(t) PROVE Records(t)[i].bunch.seq <= t.outReliable
    <3>1. Records(t)[i] = t.channel.outRec[i] /\ i \in 1 .. Len(t.channel.outRec)
      BY <2>1 DEF Records, Writes
    <3>2. CASE i \in 1 .. Len(s.channel.outRec)
      <4>1. t.channel.outRec[i] = s.channel.outRec[i]
        BY <3>2 DEF Writes
      <4>2. s.channel.outRec[i] \in OutBunch
        BY <2>1, <3>2
      <4>3. s.channel.outRec[i].bunch.seq <= s.outReliable
        BY <2>1, <3>2 DEF Bounded, Records
      <4>4. s.channel.outRec[i].bunch.seq \in Nat /\ s.outReliable <= t.outReliable
        BY <4>2 DEF OutBunch, Bunch, Writes
      <4> QED
        BY <1>1, <3>1, <4>1, <4>3, <4>4
    <3>3. CASE i \in Len(s.channel.outRec) + 1 .. Len(t.channel.outRec)
      BY <3>1, <3>3 DEF Writes
    <3>4. Len(s.channel.outRec) \in Nat /\ Len(t.channel.outRec) \in Nat
      BY <2>1
    <3> QED
      BY <3>1, <3>2, <3>3, <3>4
  <2>3. t.pendingOutRec = s.pendingOutRec /\ s.pendingOutRec <= s.outReliable + 1 /\ s.outReliable <= t.outReliable
    BY DEF Writes, Bounded
  <2>4. t.pendingOutRec <= t.outReliable + 1
    BY <1>1, <2>3
  <2> QED
    BY <2>2, <2>4 DEF Bounded
<1> QED
  BY <1>1, <1>2, <1>4, <1>5 DEF Steps, Taken

LEMMA FlushedSteps ==
  ASSUME NEW s \in End, Told(s), Bounded(s),
         ~s.receiving.busy => s.receiving = NotReceiving, NEW t, t = Flushed(s)
  PROVE  Steps(s, t)
<1>1. /\ t \in End
      /\ t.wire = Append(s.wire, [bunches |-> s.sendBuffer, fates |-> s.fates])
      /\ t.unnotified = s.unnotified + 1
      /\ t.channel = s.channel /\ t.outReliable = s.outReliable
      /\ t.pendingOutRec = s.pendingOutRec
      /\ t.fates = s.fates /\ t.receiving = s.receiving
  BY FlushedType
<1>2. /\ s.wire \in Seq(Packet) /\ [bunches |-> s.sendBuffer, fates |-> s.fates] \in Packet
      /\ s.unnotified \in Nat /\ Len(s.fates) \in Nat
  BY DEF End, Packet
<1>3. /\ Len(t.wire) = Len(s.wire) + 1 /\ Len(s.wire) \in Nat
      /\ \A i \in 1 .. Len(s.wire) : t.wire[i] = s.wire[i]
      /\ t.wire[Len(s.wire) + 1].fates = s.fates
  BY <1>1, <1>2, AppendProperties
<1>4. Told(t)
  <2>0. \A i \in 1 .. Len(s.wire) : Len(s.wire[i].fates) <= Len(s.fates)
    BY DEF Told, Begins
  <2>1. \A i \in 1 .. Len(t.wire) : Begins(t.wire[i].fates, t.fates)
    <3> TAKE i \in 1 .. Len(t.wire)
    <3>1. Begins(s.fates, s.fates)
      BY <1>2 DEF Begins
    <3>2. i \in 1 .. Len(s.wire) \/ i = Len(s.wire) + 1
      BY <1>3
    <3> QED
      BY <1>1, <1>3, <3>1, <3>2 DEF Told
  <2>2. ASSUME NEW i \in 1 .. Len(t.wire), NEW j \in 1 .. Len(t.wire), i <= j
        PROVE  Len(t.wire[i].fates) <= Len(t.wire[j].fates)
    <3>1. CASE j \in 1 .. Len(s.wire)
      <4>1. i \in 1 .. Len(s.wire)
        BY <1>3, <2>2, <3>1
      <4> QED
        BY <1>3, <2>2, <3>1, <4>1 DEF Told
    <3>2. CASE j = Len(s.wire) + 1
      <4>2. CASE i \in 1 .. Len(s.wire)
        BY <1>3, <2>0, <3>2, <4>2
      <4>3. CASE i = Len(s.wire) + 1
        BY <1>2, <1>3, <3>2, <4>3
      <4> QED
        BY <1>3, <4>2, <4>3
    <3> QED
      BY <1>3, <3>1, <3>2
  <2> QED
    BY <2>1, <2>2 DEF Told
<1>5. Bounded(t)
  BY <1>1 DEF Bounded, Records
<1> QED
  BY <1>1, <1>2, <1>3, <1>4, <1>5, SMTT(30) DEF Steps, Taken

LEMMA RxSteps ==
  ASSUME NEW s \in End, Told(s), s.receiving.busy, NEW u \in End,
         u.wire = s.wire, u.fates = s.fates, u.unnotified = s.unnotified,
         u.receiving.busy = s.receiving.busy, u.receiving.lost = s.receiving.lost,
         NEW t, Rx(u, t)
  PROVE  Steps(s, t)
  BY DEF Steps, Told, Taken, Rx

LEMMA BoundsTypes == ServerSizes \cup ClientSizes \subseteq Nat \ {0}
  BY ChannelAssumption

LEMMA MakeRelativeType ==
  ASSUME NEW value \in Int, NEW reference \in Int
  PROVE  MakeRelative(value, reference, MaxChSequence) \in Int
<1>1. MaxChSequence \in Nat \ {0} /\ MaxChSequence \div 2 \in Int
  BY ModulusPositive
<1> QED
  BY <1>1 DEF MakeRelative, BestSignedDifference

LEMMA OpenChannelTypes ==
  ASSUME TypeInv, OpenChannel PROVE TypeInv'
<1>1. PICK s, t : s = conn[Server] /\ t = [s EXCEPT !.channel = NewChannel(TRUE)]
  OBVIOUS
<1>2. /\ s \in End /\ Bounded(s) /\ Told(s) /\ (~s.receiving.busy => s.receiving = NotReceiving)
      /\ Server \in Side /\ incarnation \in Nat
  BY <1>1, EndFacts DEF Side
<1>3. PICK f \in BOOLEAN : f = TRUE
  OBVIOUS
<1>4. /\ t \in End /\ t.channel # NoChannel /\ t.channel.outRec = <<>>
      /\ t.wire = s.wire /\ t.unnotified = s.unnotified /\ t.outReliable = s.outReliable
      /\ t.pendingOutRec = s.pendingOutRec /\ t.fates = s.fates /\ t.receiving = s.receiving
  <2>1. t = [s EXCEPT !.channel = NewChannel(f)]
    BY <1>1, <1>3
  <2>2. Created(s, f, t)
    BY <1>2, <2>1, CreatedType
  <2> QED
    BY <2>2 DEF Created
<1>5. Bounded(t)
  BY <1>2, <1>4 DEF Bounded, Records
<1>6. Steps(s, t)
  BY <1>2, <1>4, <1>5, QuietSteps
<1>7. TypeOKNext
  <2>1. MaxIncarnations \in Nat
    BY ChannelAssumption
  <2>2. incarnation' \in 0 .. MaxIncarnations
    BY <1>2, <2>1 DEF OpenChannel
  <2> QED
    BY <2>2 DEF OpenChannel, TypeOKNext
<1> QED
  BY <1>1, <1>2, <1>6, <1>7, UpdateTypes DEF OpenChannel, Update

\* A message goes out through a channel.
LEMMA MessageSteps ==
  ASSUME TypeInv, NEW e \in Side, conn[e].channel # NoChannel,
         NEW rel \in BOOLEAN, NEW close \in BOOLEAN,
         NEW kind \in {"reliable", "unreliable", "sync"},
         NEW n \in Nat, NEW size \in Nat \ {0},
         NEW t, t = SendBunch(conn[e], rel, close, MessageTag(kind, n), size)
  PROVE  Steps(conn[e], t)
<1>1. /\ conn[e] \in End /\ Bounded(conn[e]) /\ Told(conn[e])
      /\ ~conn[e].receiving.busy => conn[e].receiving = NotReceiving
      /\ incarnation \in Nat
  BY EndFacts
<1>2. PICK tag \in Tag : tag = MessageTag(kind, n)
  BY <1>1, MessageTagType
<1>3. t = SendBunch(conn[e], rel, close, tag, size)
  BY <1>2
<1>4. Writes(conn[e], t)
  BY <1>1, <1>3, SendBunchWrites
<1> QED
  BY <1>1, <1>4, WritesSteps

LEMMA SendReliableTypes ==
  ASSUME TypeInv, NEW e \in Side, SendReliable(e) PROVE TypeInv'
<1>1. PICK size \in Sizes(e) :
        conn' = [conn EXCEPT ![e] =
          SendBunch(conn[e], TRUE, FALSE, MessageTag("reliable", sent[e] + 1), size)]
  BY DEF SendReliable, Update
<1>2. size \in Nat \ {0}
  BY BoundsTypes DEF Sizes
<1>3. sent[e] + 1 \in Nat /\ conn[e].channel # NoChannel
  BY EndFacts DEF SendReliable
<1>4. PICK rel \in BOOLEAN, close \in BOOLEAN, kind \in {"reliable", "unreliable", "sync"}, n \in Nat :
        rel = TRUE /\ close = FALSE /\ kind = "reliable" /\ n = sent[e] + 1
  BY <1>3
<1>5. PICK t : t = SendBunch(conn[e], rel, close, MessageTag(kind, n), size)
  OBVIOUS
<1>6. Steps(conn[e], t)
  BY <1>2, <1>3, <1>5, MessageSteps
<1>7. TypeOKNext
  <2>1. sent \in [Side -> Nat]
    BY DEF TypeInv, TypeOK
  <2>2. sent' \in [Side -> Nat]
    BY <1>3, <2>1 DEF SendReliable
  <2> QED
    BY <2>2 DEF SendReliable, TypeOKNext, TypeInv, TypeOK
<1> QED
  BY <1>1, <1>4, <1>5, <1>6, <1>7, UpdateTypes

LEMMA SendUnreliableTypes ==
  ASSUME TypeInv, SendUnreliable PROVE TypeInv'
<1>0. Server \in Side
  BY DEF Side
<1>1. PICK size \in ServerSizes :
        conn' = [conn EXCEPT ![Server] =
          SendBunch(conn[Server], FALSE, FALSE, MessageTag("unreliable", loose + 1), size)]
  BY DEF SendUnreliable, Update
<1>2. size \in Nat \ {0}
  BY BoundsTypes
<1>3. loose + 1 \in Nat /\ conn[Server].channel # NoChannel
  BY DEF SendUnreliable, TypeInv, TypeOK
<1>4. PICK rel \in BOOLEAN, close \in BOOLEAN, kind \in {"reliable", "unreliable", "sync"}, n \in Nat :
        rel = FALSE /\ close = FALSE /\ kind = "unreliable" /\ n = loose + 1
  BY <1>3
<1>5. PICK t : t = SendBunch(conn[Server], rel, close, MessageTag(kind, n), size)
  OBVIOUS
<1>6. Steps(conn[Server], t)
  BY <1>0, <1>2, <1>3, <1>5, MessageSteps
<1>7. TypeOKNext
  BY <1>3 DEF SendUnreliable, TypeOKNext, TypeInv, TypeOK
<1> QED
  BY <1>0, <1>1, <1>4, <1>5, <1>6, <1>7, UpdateTypes

LEMMA CloseChannelTypes ==
  ASSUME TypeInv, CloseChannel PROVE TypeInv'
<1>0. Server \in Side
  BY DEF Side
<1>1. PICK s : s = conn[Server]
  OBVIOUS
<1>2. /\ s \in End /\ Bounded(s) /\ Told(s) /\ (~s.receiving.busy => s.receiving = NotReceiving)
      /\ sent[Server] \in Nat /\ s.channel # NoChannel
  BY <1>0, <1>1, EndFacts DEF CloseChannel
<1>3. PICK t : t = IF OverflowsReliable(s, 1, TRUE) THEN Error(s)
             ELSE SendBunch(s, TRUE, TRUE, MessageTag("reliable", sent[Server] + 1), 1)
  OBVIOUS
<1>4. PICK rel \in BOOLEAN, kind \in {"reliable", "unreliable", "sync"}, n \in Nat, size \in Nat \ {0} :
        rel = TRUE /\ kind = "reliable" /\ n = sent[Server] + 1 /\ size = 1
  <2>1. sent[Server] + 1 \in Nat /\ 1 \in Nat \ {0}
    BY <1>2
  <2> QED
    BY <2>1
<1>5. Steps(s, t)
  <2>1. CASE OverflowsReliable(s, 1, TRUE)
    <3>1. t = Error(s)
      BY <1>3, <2>1
    <3>2. PICK x \in {"open", "closed", "error"} : x = "error"
      OBVIOUS
    <3>3. t = [s EXCEPT !.state = x]
      BY <3>1, <3>2 DEF Error
    <3>4. /\ t \in End /\ t.wire = s.wire /\ t.unnotified = s.unnotified
          /\ t.channel = s.channel /\ t.outReliable = s.outReliable
          /\ t.pendingOutRec = s.pendingOutRec /\ t.fates = s.fates /\ t.receiving = s.receiving
      BY <1>2, <3>3, ErrorType
    <3>5. Bounded(t)
      BY <1>2, <3>4 DEF Bounded, Records
    <3> QED
      BY <1>2, <3>4, <3>5, QuietSteps
  <2>2. CASE ~OverflowsReliable(s, 1, TRUE)
    <3>1. t = SendBunch(s, rel, rel, MessageTag(kind, n), size)
      BY <1>3, <1>4, <2>2
    <3> QED
      BY <1>0, <1>1, <1>2, <3>1, MessageSteps
  <2> QED
    BY <2>1, <2>2
<1>6. conn' = [conn EXCEPT ![Server] = t]
  BY <1>1, <1>3 DEF CloseChannel, Update
<1>7. TypeOKNext
  <2>1. sent \in [Side -> Nat]
    BY DEF TypeInv, TypeOK
  <2>2. sent' \in [Side -> Nat]
    BY <1>0, <1>2, <2>1 DEF CloseChannel
  <2> QED
    BY <2>2 DEF CloseChannel, TypeOKNext, TypeInv, TypeOK
<1> QED
  BY <1>0, <1>1, <1>5, <1>6, <1>7, UpdateTypes

LEMMA FlushNetTypes ==
  ASSUME TypeInv, NEW e \in Side, FlushNet(e) PROVE TypeInv'
<1>1. PICK t : t = Flushed(conn[e])
  OBVIOUS
<1>2. Steps(conn[e], t)
  BY <1>1, EndFacts, FlushedSteps
<1>3. TypeOKNext
  BY DEF FlushNet, TypeOKNext, TypeInv, TypeOK
<1> QED
  BY <1>1, <1>2, <1>3, UpdateTypes DEF FlushNet, Update

LEMMA AcknowledgePacketTypes ==
  ASSUME TypeInv, NEW e \in Side, AcknowledgePacket(e) PROVE TypeInv'
<1> DEFINE s == conn[e]
           new == [i \in 1..s.receiving.lost |-> FALSE] \o <<~s.receiving.skipAck>>
           fates == s.fates \o [i \in 1..s.receiving.lost |-> FALSE] \o <<~s.receiving.skipAck>>
           t == [s EXCEPT !.fates = fates, !.receiving = NotReceiving]
<1>1. s \in End /\ Bounded(s) /\ Told(s)
  BY EndFacts
<1>2. s.receiving.lost \in Nat /\ s.fates \in Seq(BOOLEAN) /\ s.receiving.skipAck \in BOOLEAN
  BY <1>1 DEF End, Receiving
<1>3. /\ fates \in Seq(BOOLEAN)
      /\ Len(fates) = Len(s.fates) + s.receiving.lost + 1
      /\ \A i \in 1 .. Len(s.fates) : fates[i] = s.fates[i]
  <2>1. /\ [i \in 1..s.receiving.lost |-> FALSE] \in Seq(BOOLEAN)
        /\ Len([i \in 1..s.receiving.lost |-> FALSE]) = s.receiving.lost
    <3>1. PICK n \in Nat, f \in BOOLEAN : n = s.receiving.lost /\ f = FALSE
      BY <1>2
    <3>2. [i \in 1 .. n |-> f] \in Seq(BOOLEAN) /\ Len([i \in 1 .. n |-> f]) = n
      OBVIOUS
    <3>3. [i \in 1 .. n |-> f] = [i \in 1..s.receiving.lost |-> FALSE]
      BY <3>1
    <3> QED
      BY <3>1, <3>2, <3>3
  <2>2. <<~s.receiving.skipAck>> \in Seq(BOOLEAN) /\ Len(<<~s.receiving.skipAck>>) = 1
    BY <1>2
  <2> HIDE DEF s
  <2>3. PICK a \in Seq(BOOLEAN) : a = [i \in 1..s.receiving.lost |-> FALSE]
    BY <2>1
  <2>4. PICK z \in Seq(BOOLEAN) : z = <<~s.receiving.skipAck>>
    BY <2>2
  <2>5. PICK y \in Seq(BOOLEAN) : y = s.fates
    BY <1>2
  <2>6. /\ y \o a \in Seq(BOOLEAN) /\ Len(y \o a) = Len(y) + Len(a)
        /\ \A i \in 1 .. Len(y) : (y \o a)[i] = y[i]
    <3>1. /\ y \o a \in Seq(BOOLEAN) /\ Len(y \o a) = Len(y) + Len(a)
          /\ \A i \in 1 .. Len(y) + Len(a) : (y \o a)[i] = IF i <= Len(y) THEN y[i] ELSE a[i - Len(y)]
      BY ConcatProperties
    <3>2. Len(y) \in Nat /\ Len(a) \in Nat
      OBVIOUS
    <3> QED
      BY <3>1, <3>2
  <2>7. PICK w \in Seq(BOOLEAN) : w = y \o a
    BY <2>6
  <2>8. /\ w \o z \in Seq(BOOLEAN) /\ Len(w \o z) = Len(w) + Len(z)
        /\ \A i \in 1 .. Len(w) : (w \o z)[i] = w[i]
    <3>1. /\ w \o z \in Seq(BOOLEAN) /\ Len(w \o z) = Len(w) + Len(z)
          /\ \A i \in 1 .. Len(w) + Len(z) : (w \o z)[i] = IF i <= Len(w) THEN w[i] ELSE z[i - Len(w)]
      BY ConcatProperties
    <3>2. Len(w) \in Nat /\ Len(z) \in Nat
      OBVIOUS
    <3> QED
      BY <3>1, <3>2
  <2>9. fates = w \o z
    BY <2>3, <2>4, <2>5, <2>7
  <2>10. Len(a) = s.receiving.lost /\ Len(z) = 1 /\ Len(y) \in Nat
    <3>1. Len(a) = s.receiving.lost
      BY <2>1, <2>3
    <3>2. Len(z) = 1
      BY <2>2, <2>4
    <3>3. Len(y) \in Nat
      OBVIOUS
    <3> QED
      BY <3>1, <3>2, <3>3
  <2>11. \A i \in 1 .. Len(y) : (w \o z)[i] = y[i]
    BY <1>2, <2>6, <2>7, <2>8, <2>10
  <2>12. Len(fates) = Len(y) + s.receiving.lost + 1
    BY <1>2, <2>6, <2>7, <2>8, <2>9, <2>10
  <2> QED
    BY <2>5, <2>8, <2>9, <2>11, <2>12
<1>4. conn' = [conn EXCEPT ![e] = t]
  BY DEF AcknowledgePacket, Update
<1> HIDE DEF fates
<1>5. NotReceiving \in Receiving
  BY DEF NotReceiving, Receiving
<1>6. /\ t \in End /\ t.fates = fates /\ t.receiving = NotReceiving
      /\ t.wire = s.wire /\ t.unnotified = s.unnotified /\ t.channel = s.channel
      /\ t.outReliable = s.outReliable /\ t.pendingOutRec = s.pendingOutRec
  BY <1>1, <1>3, <1>5 DEF End
<1> HIDE DEF t
<1>7. Bounded(t)
  BY <1>1, <1>6 DEF Bounded, Records
<1>8. Told(t)
  <2>1. \A i \in 1 .. Len(t.wire) : Begins(t.wire[i].fates, t.fates)
    <3> TAKE i \in 1 .. Len(t.wire)
    <3>1. t.wire[i] = s.wire[i] /\ s.wire[i] \in Packet /\ i \in 1 .. Len(s.wire)
      BY <1>1, <1>6, SMTT(30) DEF End
    <3>2. PICK x \in Seq(BOOLEAN) : x = s.wire[i].fates
      BY <3>1 DEF Packet
    <3>3. Begins(x, s.fates)
      BY <1>1, <3>1, <3>2 DEF Told
    <3>4. Len(x) \in Nat /\ Len(s.fates) \in Nat
      BY <1>2
    <3>5. Begins(x, fates)
      BY <1>2, <1>3, <3>3, <3>4 DEF Begins
    <3> QED
      BY <1>6, <3>1, <3>2, <3>5
  <2> QED
    BY <1>1, <1>6, <2>1 DEF Told
<1>9. Taken(t) = Taken(s)
  <2>1. s.receiving.busy
    BY DEF AcknowledgePacket
  <2>2. Len(s.fates) \in Nat
    BY <1>2
  <2> QED
    BY <1>2, <1>3, <1>6, <2>1, <2>2 DEF Taken, NotReceiving
<1>10. Steps(s, t)
  BY <1>6, <1>7, <1>8, <1>9 DEF Steps
<1>11. TypeOKNext
  BY DEF AcknowledgePacket, TypeOKNext, TypeInv, TypeOK
<1> QED
  BY <1>4, <1>10, <1>11, UpdateTypes

LEMMA DispatchQueuedTypes ==
  ASSUME TypeInv, NEW e \in Side, DispatchQueued(e) PROVE TypeInv'
<1>a. PICK s : s = conn[e]
  OBVIOUS
<1>b. PICK q : q = Tail(s.channel.inRec)
  OBVIOUS
<1>c. PICK b : b = s.channel.inRec[1]
  OBVIOUS
<1>d. PICK u : u = [s EXCEPT !.channel.inRec = q]
  OBVIOUS
<1>e. PICK t : t = ReceivedNextBunch(u, b)
  OBVIOUS
<1>f. PICK x : x = IF t.receiving.skipAck /\ ~s.receiving.skipAck THEN Error(t) ELSE t
  OBVIOUS
<1>1. /\ s = conn[e] /\ q = Tail(s.channel.inRec) /\ u = [s EXCEPT !.channel.inRec = q]
      /\ b = s.channel.inRec[1] /\ t = ReceivedNextBunch(u, b)
      /\ x = Error(t) \/ x = t
  BY <1>a, <1>b, <1>c, <1>d, <1>e, <1>f
<1>2. /\ s \in End /\ Bounded(s) /\ Told(s) /\ incarnation \in Nat
      /\ s.receiving.busy /\ s.channel # NoChannel
  BY <1>1, EndFacts DEF DispatchQueued, QueueReady
<1>3. s.channel \in Channel /\ s.channel.inRec \in Seq(Bunch) /\ s.channel.inRec # <<>>
  BY <1>1, <1>2, ChannelIn DEF Channel, DispatchQueued, QueueReady
<1>4. q \in Seq(Bunch) /\ b \in Bunch
  BY <1>1, <1>3
<1>5. PICK c : c = [s.channel EXCEPT !.inRec = q]
  OBVIOUS
<1>6. c \in Channel /\ c.outRec = s.channel.outRec
  BY <1>3, <1>4, <1>5 DEF Channel
<1>7. u = [s EXCEPT !.channel = c]
  BY <1>1, <1>2, <1>3, <1>5 DEF Channel, End
<1>8. /\ u \in End /\ u.channel = c /\ c # NoChannel
      /\ u.wire = s.wire /\ u.unnotified = s.unnotified /\ u.outReliable = s.outReliable
      /\ u.pendingOutRec = s.pendingOutRec /\ u.fates = s.fates /\ u.receiving = s.receiving
  BY <1>2, <1>6, <1>7, WithChannel
<1>9. Bounded(u)
  BY <1>2, <1>6, <1>8 DEF Bounded, Records
<1>10. Rx(u, t)
  BY <1>1, <1>2, <1>4, <1>8, <1>9, ReceivedNextBunchType
<1>11. Rx(u, x)
  <2>1. CASE x = t
    BY <1>10, <2>1
  <2>2. CASE x = Error(t)
    <3>1. t \in End /\ Bounded(t)
      BY <1>10 DEF Rx
    <3>2. Rx(t, x)
      BY <2>2, <3>1, ErrorRx
    <3> QED
      BY <1>10, <3>2 DEF Rx
  <2> QED
    BY <1>1, <2>1, <2>2
<1>12. Steps(s, x)
  BY <1>2, <1>8, <1>11, RxSteps
<1>13. conn' = [conn EXCEPT ![e] = x]
  BY <1>a, <1>b, <1>c, <1>d, <1>e, <1>f DEF DispatchQueued, Update
<1>14. TypeOKNext
  BY DEF DispatchQueued, TypeOKNext, TypeInv, TypeOK
<1> QED
  BY <1>1, <1>12, <1>13, <1>14, UpdateTypes

\* The next bunch of the packet, with its full number.
Unpacked(s, u, a, b) ==
  /\ u \in End /\ u.state = s.state
  /\ u.wire = s.wire /\ u.sendBuffer = s.sendBuffer /\ u.unnotified = s.unnotified
  /\ u.outReliable = s.outReliable /\ u.inReliable = s.inReliable
  /\ u.pendingOutRec = s.pendingOutRec /\ u.fates = s.fates /\ u.channel = s.channel
  /\ SameGame(s, u) /\ u.receiving \in Receiving
  /\ u.receiving.busy = s.receiving.busy /\ u.receiving.lost = s.receiving.lost
  /\ u.receiving.bunches = Tail(s.receiving.bunches)
  /\ u.receiving.skipAck = s.receiving.skipAck
  /\ a \in Bunch /\ [b EXCEPT !.seq = 0] \in Bunch /\ b.seq \in Int
  /\ b.rel = a.rel /\ b.open = a.open /\ b.close = a.close /\ b.part = a.part /\ b.tag = a.tag
  /\ ~b.rel => b.seq = 0 /\ b \in Bunch
  /\ b.rel => b.seq = MakeRelative(a.seq, s.inReliable, MaxChSequence)
  /\ b.rel /\ b.seq >= 0 => b \in Bunch

LEMMA UnpackedType ==
  ASSUME NEW s \in End, s.receiving.bunches # <<>>,
         NEW u, u = [s EXCEPT !.receiving.bunches = Tail(@)],
         NEW a, a = s.receiving.bunches[1],
         NEW b, b = [a EXCEPT !.seq = IF a.rel THEN MakeRelative(@, s.inReliable, MaxChSequence)
                                      ELSE 0]
  PROVE  Unpacked(s, u, a, b)
<1>1. s.receiving \in Receiving /\ s.inReliable \in Nat
  BY DEF End
<1>2. s.receiving.bunches \in Seq(Bunch)
  BY <1>1 DEF Receiving
<1>3. Tail(s.receiving.bunches) \in Seq(Bunch) /\ a \in Bunch
  BY <1>2
<1>4. PICK r : r = [s.receiving EXCEPT !.bunches = Tail(s.receiving.bunches)]
  OBVIOUS
<1>5. /\ r \in Receiving /\ r.bunches = Tail(s.receiving.bunches)
      /\ r.busy = s.receiving.busy /\ r.lost = s.receiving.lost /\ r.skipAck = s.receiving.skipAck
  BY <1>1, <1>3, <1>4 DEF Receiving
<1>6. u = [s EXCEPT !.receiving = r]
  BY <1>1, <1>4 DEF End, Receiving
<1>7. /\ u \in End /\ u.receiving = r
      /\ u.state = s.state
      /\ u.wire = s.wire /\ u.sendBuffer = s.sendBuffer /\ u.unnotified = s.unnotified
      /\ u.outReliable = s.outReliable /\ u.inReliable = s.inReliable
      /\ u.pendingOutRec = s.pendingOutRec /\ u.fates = s.fates /\ u.channel = s.channel
      /\ SameGame(s, u)
  BY <1>5, <1>6 DEF End, SameGame
<1>8. PICK z \in Int : z = IF a.rel THEN MakeRelative(a.seq, s.inReliable, MaxChSequence) ELSE 0
  <2>1. a.seq \in Int /\ s.inReliable \in Int
    BY <1>1, <1>3 DEF Bunch
  <2>2. MakeRelative(a.seq, s.inReliable, MaxChSequence) \in Int
    BY <2>1, MakeRelativeType
  <2> QED
    BY <2>2
<1>9. b = [a EXCEPT !.seq = z]
  BY <1>8
<1>10. /\ b.seq = z /\ b.rel = a.rel /\ b.open = a.open /\ b.close = a.close /\ b.part = a.part
       /\ b.tag = a.tag /\ [b EXCEPT !.seq = 0] \in Bunch /\ (z >= 0 => b \in Bunch)
  <2>1. /\ b.seq = z /\ b.rel = a.rel /\ b.open = a.open /\ b.close = a.close /\ b.part = a.part
        /\ b.tag = a.tag
    BY <1>3, <1>9 DEF Bunch
  <2>2. z >= 0 => b \in Bunch
    <3> SUFFICES ASSUME z >= 0 PROVE b \in Bunch
      OBVIOUS
    <3>1. PICK y \in Nat : y = z
      BY <1>8
    <3>2. b = [a EXCEPT !.seq = y]
      BY <1>9, <3>1
    <3> QED
      BY <1>3, <3>2 DEF Bunch
  <2>3. [b EXCEPT !.seq = 0] \in Bunch
    <3>1. PICK y \in Nat : y = 0
      OBVIOUS
    <3>2. [b EXCEPT !.seq = y] = [a EXCEPT !.seq = y]
      BY <1>3, <1>9 DEF Bunch
    <3>3. [a EXCEPT !.seq = y] \in Bunch
      BY <1>3 DEF Bunch
    <3> QED
      BY <3>1, <3>2, <3>3
  <2> QED
    BY <2>1, <2>2, <2>3
<1> QED
  BY <1>3, <1>5, <1>7, <1>8, <1>10 DEF Unpacked

LEMMA ReceivedPacketBunchTypes ==
  ASSUME TypeInv, NEW e \in Side, ReceivedPacketBunch(e) PROVE TypeInv'
<1>a. PICK s : s = conn[e]
  OBVIOUS
<1>b. PICK u : u = [s EXCEPT !.receiving.bunches = Tail(@)]
  OBVIOUS
<1>c. PICK a : a = s.receiving.bunches[1]
  OBVIOUS
<1>d. PICK b : b = [a EXCEPT !.seq = IF a.rel THEN MakeRelative(@, s.inReliable, MaxChSequence)
                                     ELSE 0]
  OBVIOUS
<1>1. PICK t : t = DispatchBunch(e, u, b)
  OBVIOUS
<1>2. /\ s \in End /\ Bounded(s) /\ Told(s) /\ incarnation \in Nat
      /\ ~s.receiving.busy => s.receiving = NotReceiving
      /\ s.receiving.bunches # <<>>
  BY <1>a, EndFacts DEF ReceivedPacketBunch
<1>3. s.receiving.busy
  BY <1>2 DEF NotReceiving
<1>4. /\ u \in End
      /\ u.wire = s.wire /\ u.unnotified = s.unnotified
      /\ u.outReliable = s.outReliable
      /\ u.pendingOutRec = s.pendingOutRec /\ u.fates = s.fates /\ u.channel = s.channel
      /\ u.receiving.busy = s.receiving.busy /\ u.receiving.lost = s.receiving.lost
      /\ [b EXCEPT !.seq = 0] \in Bunch /\ b.seq \in Int
      /\ ~b.rel => b.seq = 0 /\ b \in Bunch
      /\ b.rel /\ b.seq >= 0 => b \in Bunch
  <2>1. Unpacked(s, u, a, b)
    BY <1>b, <1>c, <1>d, <1>2, UnpackedType
  <2> QED
    BY <2>1 DEF Unpacked
<1>5. Bounded(u)
  BY <1>2, <1>4 DEF Bounded, Records
<1>6. Rx(u, t)
  BY <1>1, <1>2, <1>4, <1>5, DispatchBunchType
<1>7. Steps(s, t)
  BY <1>2, <1>3, <1>4, <1>6, RxSteps
<1>8. conn' = [conn EXCEPT ![e] = t]
  BY <1>a, <1>b, <1>c, <1>d, <1>1 DEF ReceivedPacketBunch, Update
<1>9. TypeOKNext
  BY DEF ReceivedPacketBunch, TypeOKNext, TypeInv, TypeOK
<1> QED
  BY <1>a, <1>7, <1>8, <1>9, UpdateTypes

LEMMA DropFatesProps ==
  ASSUME NEW f \in Seq(BOOLEAN), NEW n \in Nat, n <= Len(f)
  PROVE  /\ DropFates(f, n) \in Seq(BOOLEAN)
         /\ Len(DropFates(f, n)) = Len(f) - n
         /\ \A i \in 1 .. Len(f) - n : DropFates(f, n)[i] = f[n + i]
<1>1. Len(f) \in Nat
  OBVIOUS
<1>2. \A i \in n + 1 .. Len(f) : f[i] \in BOOLEAN
  BY <1>1
<1>3. n + 1 \in Int /\ Len(f) \in Int
  BY <1>1
<1>4. /\ SubSeq(f, n + 1, Len(f)) \in Seq(BOOLEAN)
      /\ Len(SubSeq(f, n + 1, Len(f))) = IF n + 1 <= Len(f) THEN Len(f) - (n + 1) + 1 ELSE 0
      /\ \A i \in 1 .. Len(f) - (n + 1) + 1 :
           SubSeq(f, n + 1, Len(f))[i] = f[(n + 1) + i - 1]
  BY <1>2, <1>3, SubSeqProperties
<1>5. Len(SubSeq(f, n + 1, Len(f))) = Len(f) - n
  BY <1>1, <1>4
<1>6. \A i \in 1 .. Len(f) - n : SubSeq(f, n + 1, Len(f))[i] = f[n + i]
  <2> TAKE i \in 1 .. Len(f) - n
  <2>1. i \in 1 .. Len(f) - (n + 1) + 1 /\ (n + 1) + i - 1 = n + i
    BY <1>1
  <2> QED
    BY <1>4, <2>1
<1> QED
  BY <1>4, <1>5, <1>6 DEF DropFates

\* The sender of the i-th packet under way, whose header told n fates.
Heard(s, n, i, t) ==
  /\ t \in End /\ t.fates = DropFates(s.fates, n)
  /\ Len(t.wire) = Len(s.wire) - i
  /\ \A j \in 1 .. Len(s.wire) - i :
       /\ t.wire[j].bunches = s.wire[i + j].bunches
       /\ t.wire[j].fates = DropFates(s.wire[i + j].fates, n)
  /\ t.state = s.state /\ t.channel = s.channel /\ t.sendBuffer = s.sendBuffer
  /\ t.unnotified = s.unnotified /\ t.outReliable = s.outReliable
  /\ t.inReliable = s.inReliable /\ t.pendingOutRec = s.pendingOutRec
  /\ t.receiving = s.receiving /\ SameGame(s, t)

LEMMA HeardType ==
  ASSUME NEW s \in End, Told(s), NEW i \in 1 .. Len(s.wire), NEW n, n = Len(s.wire[i].fates),
         NEW t, t = Passed(s, i, n)
  PROVE  Heard(s, n, i, t) /\ Told(t) /\ n \in Nat /\ n <= Len(s.fates)
<1> DEFINE w == [j \in 1 .. Len(s.wire) - i |->
                   [bunches |-> s.wire[i + j].bunches,
                    fates |-> DropFates(s.wire[i + j].fates, n)]]
           f == DropFates(s.fates, n)
<1>1. s.wire \in Seq(Packet) /\ s.fates \in Seq(BOOLEAN) /\ Len(s.wire) \in Nat /\ Len(s.fates) \in Nat
  BY DEF End
<1>2. \A j \in 1 .. Len(s.wire) : s.wire[j] \in Packet
  BY <1>1
<1>3. \A j \in 1 .. Len(s.wire) : s.wire[j].fates \in Seq(BOOLEAN) /\ Len(s.wire[j].fates) \in Nat
  BY <1>2 DEF Packet
<1>4. n \in Nat /\ n <= Len(s.fates)
  BY <1>3 DEF Told, Begins
<1>5. \A j \in 1 .. Len(s.wire) - i : /\ i + j \in 1 .. Len(s.wire)
                                      /\ n <= Len(s.wire[i + j].fates)
  <2> TAKE j \in 1 .. Len(s.wire) - i
  <2>1. i + j \in 1 .. Len(s.wire) /\ i <= i + j
    BY <1>1
  <2> QED
    BY <2>1 DEF Told
<1>6. f \in Seq(BOOLEAN)
  BY <1>1, <1>4, DropFatesProps
<1>7. ASSUME NEW j \in 1 .. Len(s.wire) - i
      PROVE  [bunches |-> s.wire[i + j].bunches,
              fates |-> DropFates(s.wire[i + j].fates, n)] \in Packet
  <2>1. PICK x \in Packet : x = s.wire[i + j]
    BY <1>2, <1>5
  <2>2. x.fates \in Seq(BOOLEAN) /\ n <= Len(x.fates)
    BY <1>3, <1>5, <2>1
  <2>3. DropFates(x.fates, n) \in Seq(BOOLEAN)
    BY <1>4, <2>2, DropFatesProps
  <2> QED
    BY <2>1, <2>3 DEF Packet
<1>8. /\ w \in Seq(Packet) /\ Len(w) = Len(s.wire) - i
      /\ \A j \in 1 .. Len(s.wire) - i : /\ w[j].bunches = s.wire[i + j].bunches
                                         /\ w[j].fates = DropFates(s.wire[i + j].fates, n)
  <2>1. PICK k \in Nat : k = Len(s.wire) - i
    <3>1. PICK l \in Nat : l = Len(s.wire)
      BY <1>1
    <3>2. i \in 1 .. l /\ l - i \in Nat
      BY <3>1
    <3> QED
      BY <3>1, <3>2
  <2>2. \A j \in 1 .. k : w[j] = [bunches |-> s.wire[i + j].bunches,
                                  fates |-> DropFates(s.wire[i + j].fates, n)]
    BY <2>1
  <2>3. w = [j \in 1 .. k |-> w[j]]
    BY <2>1
  <2> HIDE DEF w
  <2>4. \A j \in 1 .. k : w[j] \in Packet
    BY <1>7, <2>1, <2>2
  <2>5. [j \in 1 .. k |-> w[j]] \in Seq(Packet) /\ Len([j \in 1 .. k |-> w[j]]) = k
    BY <2>4
  <2>6. w \in Seq(Packet) /\ Len(w) = k
    BY <2>3, <2>5
  <2> QED
    <3>1. \A j \in 1 .. k : /\ w[j].bunches = s.wire[i + j].bunches
                            /\ w[j].fates = DropFates(s.wire[i + j].fates, n)
      <4> TAKE j \in 1 .. k
      <4>1. PICK a, b : a = s.wire[i + j].bunches /\ b = DropFates(s.wire[i + j].fates, n)
        OBVIOUS
      <4>2. w[j] = [bunches |-> a, fates |-> b]
        BY <2>2, <4>1
      <4> QED
        BY <4>1, <4>2
    <3> QED
      BY <2>1, <2>6, <3>1
<1>9. t = [s EXCEPT !.fates = f, !.wire = w]
  BY DEF Passed
<1> HIDE DEF w, f
<1>10. /\ t \in End /\ t.fates = f /\ t.wire = w
       /\ t.state = s.state /\ t.channel = s.channel /\ t.sendBuffer = s.sendBuffer
       /\ t.unnotified = s.unnotified /\ t.outReliable = s.outReliable
       /\ t.inReliable = s.inReliable /\ t.pendingOutRec = s.pendingOutRec
       /\ t.receiving = s.receiving /\ SameGame(s, t)
  BY <1>6, <1>8, <1>9, ZenonT(30) DEF End, SameGame
<1>11. Heard(s, n, i, t)
  BY <1>8, <1>10 DEF Heard, f
<1>12. Told(t)
  <2>1. ASSUME NEW j \in 1 .. Len(t.wire) PROVE Begins(t.wire[j].fates, t.fates)
    <3>1. j \in 1 .. Len(s.wire) - i
      BY <1>8, <1>10
    <3>2. PICK x \in Seq(BOOLEAN) : x = s.wire[i + j].fates
      BY <1>3, <1>5, <3>1
    <3>3. t.wire[j].fates = DropFates(x, n) /\ n <= Len(x)
      BY <1>5, <1>8, <1>10, <3>1, <3>2
    <3>4. Begins(x, s.fates)
      BY <1>5, <3>1, <3>2 DEF Told
    <3>5. PICK d, g : d = DropFates(x, n) /\ g = DropFates(s.fates, n)
      OBVIOUS
    <3>6. /\ Len(d) = Len(x) - n /\ \A k \in 1 .. Len(x) - n : d[k] = x[n + k]
      BY <1>4, <3>3, <3>5, DropFatesProps
    <3>7. /\ Len(g) = Len(s.fates) - n /\ \A k \in 1 .. Len(s.fates) - n : g[k] = s.fates[n + k]
      BY <1>1, <1>4, <3>5, DropFatesProps
    <3>8. Len(x) <= Len(s.fates) /\ Len(x) \in Nat /\ \A k \in 1 .. Len(x) : x[k] = s.fates[k]
      BY <3>4 DEF Begins
    <3>9. \A k \in 1 .. Len(x) - n : d[k] = g[k]
      <4> TAKE k \in 1 .. Len(x) - n
      <4>1. n + k \in 1 .. Len(x) /\ k \in 1 .. Len(s.fates) - n
        <5>1. PICK l \in Nat, m \in Nat : l = Len(x) /\ m = Len(s.fates)
          BY <1>1, <3>8
        <5>2. l <= m /\ k \in 1 .. l - n
          BY <3>8, <5>1
        <5>3. n + k \in 1 .. l /\ k \in 1 .. m - n
          BY <1>4, <5>2, SMTT(30)
        <5> QED
          BY <5>1, <5>3
      <4> QED
        BY <3>6, <3>7, <3>8, <4>1
    <3>10. Len(d) <= Len(g)
      BY <1>1, <1>4, <3>6, <3>7, <3>8
    <3>11. Begins(d, g)
      BY <3>6, <3>9, <3>10 DEF Begins
    <3> QED
      BY <1>10, <3>3, <3>5, <3>11 DEF f
  <2>2. ASSUME NEW j \in 1 .. Len(t.wire), NEW k \in 1 .. Len(t.wire), j <= k
        PROVE  Len(t.wire[j].fates) <= Len(t.wire[k].fates)
    <3>1. j \in 1 .. Len(s.wire) - i /\ k \in 1 .. Len(s.wire) - i
      BY <1>8, <1>10
    <3>2. PICK x \in Seq(BOOLEAN), y \in Seq(BOOLEAN) : x = s.wire[i + j].fates /\ y = s.wire[i + k].fates
      BY <1>3, <1>5, <3>1
    <3>3. i + j <= i + k /\ i + j \in 1 .. Len(s.wire) /\ i + k \in 1 .. Len(s.wire)
      BY <1>5, <2>2, <3>1
    <3>4. Len(x) <= Len(y) /\ n <= Len(x) /\ n <= Len(y)
      BY <1>5, <3>1, <3>2, <3>3 DEF Told
    <3>5. Len(t.wire[j].fates) = Len(x) - n
      <4>1. t.wire[j].fates = DropFates(x, n)
        BY <1>8, <1>10, <3>1, <3>2
      <4>2. Len(DropFates(x, n)) = Len(x) - n
        BY <1>4, <3>4, DropFatesProps
      <4> QED
        BY <4>1, <4>2
    <3>6. Len(t.wire[k].fates) = Len(y) - n
      <4>1. t.wire[k].fates = DropFates(y, n)
        BY <1>8, <1>10, <3>1, <3>2
      <4>2. Len(DropFates(y, n)) = Len(y) - n
        BY <1>4, <3>4, DropFatesProps
      <4> QED
        BY <4>1, <4>2
    <3>7. Len(x) \in Nat /\ Len(y) \in Nat
      OBVIOUS
    <3> QED
      <4>1. PICK l \in Nat, m \in Nat : l = Len(x) /\ m = Len(y)
        BY <3>7
      <4>2. l <= m
        BY <3>4, <4>1
      <4>3. l - n <= m - n
        BY <1>4, <4>2
      <4> QED
        BY <3>5, <3>6, <4>1, <4>3
  <2> QED
    BY <2>1, <2>2 DEF Told
<1> QED
  BY <1>4, <1>11, <1>12

\* Partial messages age with the packets.
LEMMA AgedType ==
  ASSUME NEW s \in End, NEW n \in Nat, NEW t, t = Aged(s, n)
  PROVE  /\ t = s \/ Quiet(s, FALSE, t)
         /\ t \in End /\ t.receiving = s.receiving /\ SameGame(s, t)
<1>1. CASE s.channel = NoChannel \/ s.channel.inPartial = NoPartial
  BY <1>1 DEF Aged, SameGame
<1>2. CASE ~(s.channel = NoChannel \/ s.channel.inPartial = NoPartial)
  <2> DEFINE p == s.channel.inPartial
  <2>1. s.channel \in Channel /\ p \in Partial
    BY <1>2, ChannelIn DEF Channel
  <2>2. PICK a \in 0 .. 2 : a = IF p.age + n > 2 THEN 2 ELSE p.age + n
    <3>1. p.age \in 0 .. 2
      BY <2>1 DEF Partial
    <3> HIDE DEF p
    <3> QED
      BY <3>1
  <2>3. PICK q : q = [p EXCEPT !.age = a]
    OBVIOUS
  <2>4. q \in Partial
    <3> HIDE DEF p
    <3> QED
      BY <2>1, <2>3 DEF Partial
  <2>5. t = [s EXCEPT !.channel.inPartial.age = a]
    BY <1>2, <2>2 DEF Aged
  <2>6. PICK c : c = [s.channel EXCEPT !.inPartial = q]
    OBVIOUS
  <2>7. c = [s.channel EXCEPT !.inPartial.age = a]
    BY <2>1, <2>3, <2>6 DEF Channel
  <2>8. t = [s EXCEPT !.channel = c]
    BY <2>1, <2>5, <2>7 DEF End
  <2>9. t = [s EXCEPT !.channel.inPartial = q]
    BY <2>1, <2>6, <2>8 DEF End
  <2>10. Quiet(s, FALSE, t)
    <3>1. q \in {NoPartial} \cup Partial /\ s.channel # NoChannel
      BY <1>2, <2>4
    <3> QED
      BY <2>9, <3>1, PartialQuiet
  <2>11. t.receiving = s.receiving /\ SameGame(s, t)
    BY <2>8 DEF End, SameGame
  <2> QED
    BY <2>10, <2>11 DEF Quiet
<1> QED
  BY <1>1, <1>2

\* The receiver of the i-th packet under way of r.
LetIn(s, r, i, n, y) ==
  /\ y \in End /\ Bounded(y) /\ y.wire = s.wire /\ y.fates = s.fates
  /\ y.unnotified = s.unnotified - n
  /\ y.receiving = [busy |-> TRUE, bunches |-> r.wire[i].bunches, lost |-> i - 1,
                    skipAck |-> FALSE]

LEMMA LetInType ==
  ASSUME NEW s \in End, Bounded(s), NEW r \in End, NEW i \in 1 .. Len(r.wire),
         NEW n \in Nat, n = Len(r.wire[i].fates), n <= s.unnotified,
         NEW t, t = AllNotified(s, r.wire[i].fates),
         NEW y, y = Aged([t EXCEPT !.receiving =
                      [busy |-> TRUE, bunches |-> r.wire[i].bunches, lost |-> i - 1,
                       skipAck |-> FALSE]], i)
  PROVE  LetIn(s, r, i, n, y)
<1>1. r.wire \in Seq(Packet) /\ Len(r.wire) \in Nat
  BY DEF End
<1>2. PICK pk \in Packet : pk = r.wire[i]
  BY <1>1
<1>3. pk.fates \in Seq(BOOLEAN) /\ pk.bunches \in Seq(Bunch) /\ n = Len(pk.fates)
  BY <1>2 DEF Packet
<1>4. Noted(s, Len(pk.fates), t)
  <2>1. t = AllNotified(s, pk.fates) /\ Len(pk.fates) <= s.unnotified
    BY <1>2, <1>3
  <2> QED
    BY <1>3, <2>1, AllNotifiedType
<1>5. /\ t \in End /\ Bounded(t) /\ t.wire = s.wire /\ t.fates = s.fates
      /\ t.unnotified = s.unnotified - n
  BY <1>3, <1>4 DEF Noted
<1>6. PICK x : x = [busy |-> TRUE, bunches |-> r.wire[i].bunches, lost |-> i - 1,
                    skipAck |-> FALSE]
  OBVIOUS
<1>7. x \in Receiving
  <2>1. PICK k \in Nat : k = i - 1
    BY <1>1
  <2>2. PICK f \in BOOLEAN, g \in BOOLEAN : f = TRUE /\ g = FALSE
    OBVIOUS
  <2>3. x = [busy |-> f, bunches |-> pk.bunches, lost |-> k, skipAck |-> g]
    BY <1>2, <1>6, <2>1, <2>2
  <2> QED
    BY <1>3, <2>3 DEF Receiving
<1>8. PICK u : u = [t EXCEPT !.receiving = x]
  OBVIOUS
<1>9. /\ u \in End /\ u.receiving = x /\ u.wire = t.wire /\ u.fates = t.fates
      /\ u.unnotified = t.unnotified /\ u.channel = t.channel
      /\ u.outReliable = t.outReliable /\ u.pendingOutRec = t.pendingOutRec
  BY <1>5, <1>7, <1>8, ZenonT(30) DEF End
<1>10. Bounded(u)
  BY <1>5, <1>9 DEF Bounded, Records
<1>11. y = Aged(u, i) /\ i \in Nat
  BY <1>6, <1>8
<1>12. (y = u \/ Quiet(u, FALSE, y)) /\ y \in End /\ y.receiving = u.receiving
  BY <1>9, <1>11, AgedType
<1>13. /\ y.wire = u.wire /\ y.fates = u.fates /\ y.unnotified = u.unnotified
       /\ y.outReliable = u.outReliable /\ y.pendingOutRec = u.pendingOutRec
       /\ Records(y) = Records(u)
  BY <1>12 DEF Quiet, Records
<1>14. Bounded(y)
  BY <1>10, <1>13 DEF Bounded
<1> QED
  BY <1>5, <1>6, <1>9, <1>12, <1>13, <1>14 DEF LetIn

LEMMA ReceivedPacketTypes ==
  ASSUME TypeInv, NEW e \in Side, NEW i \in 1 .. MaxInFlight, ReceivedPacket(e, i)
  PROVE  TypeInv'
<1>a. PICK p : p = Other(e)
  OBVIOUS
<1>b. PICK s : s = conn[e]
  OBVIOUS
<1>c. PICK r : r = conn[p]
  OBVIOUS
<1>d. PICK n : n = Len(r.wire[i].fates)
  OBVIOUS
<1>e. PICK t : t = AllNotified(s, r.wire[i].fates)
  OBVIOUS
<1>f. PICK y : y = Aged([t EXCEPT !.receiving =
                      [busy |-> TRUE, bunches |-> r.wire[i].bunches, lost |-> i - 1,
                       skipAck |-> FALSE]], i)
  OBVIOUS
<1>g. PICK z : z = Passed(r, i, n)
  OBVIOUS
<1>1. p \in Side /\ p # e /\ Other(p) = e /\ Side = {e, p}
  BY <1>a, Sides
<1>2. /\ s \in End /\ Bounded(s) /\ Told(s) /\ r \in End /\ Bounded(r) /\ Told(r)
      /\ ~s.receiving.busy
      /\ s.receiving = NotReceiving
      /\ ~r.receiving.busy => r.receiving = NotReceiving
  <2>1. ~s.receiving.busy
    BY <1>b DEF ReceivedPacket
  <2> QED
    BY <1>b, <1>c, <1>1, <2>1, EndFacts
<1>3. i \in 1 .. Len(r.wire) /\ Len(r.wire) \in Nat /\ Len(s.wire) \in Nat
  <2>1. r.wire \in Seq(Packet) /\ s.wire \in Seq(Packet)
    BY <1>2 DEF End
  <2>2. i \in DOMAIN r.wire
    BY <1>a, <1>c DEF ReceivedPacket
  <2> QED
    BY <2>1, <2>2
<1>4. Heard(r, n, i, z) /\ Told(z) /\ n \in Nat /\ n <= Len(r.fates)
  BY <1>d, <1>g, <1>2, <1>3, HeardType
<1>5. Accounted(s, r) /\ Accounted(r, s)
  BY <1>a, <1>b, <1>c, <1>1 DEF TypeInv
<1>6. Taken(r) \in Nat /\ Len(r.fates) <= Taken(r) /\ Taken(s) \in Nat /\ Len(r.fates) \in Nat
  <2>1. r.fates \in Seq(BOOLEAN)
    BY <1>2 DEF End
  <2> QED
    BY <1>2, <2>1, TakenType
<1>7. s.unnotified \in Nat /\ r.unnotified \in Nat
  BY <1>2 DEF End
<1>8. s.unnotified = Taken(r) + Len(s.wire) /\ r.unnotified = Taken(s) + Len(r.wire)
  BY <1>5 DEF Accounted
<1>9. n <= s.unnotified
  BY <1>3, <1>4, <1>6, <1>7, <1>8
<1>10. LetIn(s, r, i, n, y)
  BY <1>d, <1>e, <1>f, <1>2, <1>3, <1>4, <1>9, LetInType
<1>11. /\ y \in End /\ Bounded(y) /\ y.wire = s.wire /\ y.fates = s.fates
       /\ y.unnotified = s.unnotified - n /\ y.receiving.busy /\ y.receiving.lost = i - 1
  BY <1>10 DEF LetIn
<1>12. /\ z \in End /\ z.fates = DropFates(r.fates, n) /\ Len(z.wire) = Len(r.wire) - i
       /\ z.channel = r.channel /\ z.unnotified = r.unnotified /\ z.outReliable = r.outReliable
       /\ z.pendingOutRec = r.pendingOutRec /\ z.receiving = r.receiving
  BY <1>4 DEF Heard
<1>13. Bounded(z)
  BY <1>2, <1>12 DEF Bounded, Records
<1>14. Told(y)
  BY <1>2, <1>11 DEF Told
<1>15. Taken(z) = Taken(r) - n
  <2>1. Len(z.fates) = Len(r.fates) - n
    <3>1. r.fates \in Seq(BOOLEAN)
      BY <1>2 DEF End
    <3> QED
      BY <1>4, <1>12, <3>1, DropFatesProps
  <2>2. PICK k \in Nat : k = IF r.receiving.busy THEN r.receiving.lost + 1 ELSE 0
    <3>1. r.receiving.lost \in Nat
      BY <1>2 DEF End, Receiving
    <3> QED
      BY <3>1
  <2>3. Taken(r) = Len(r.fates) + k
    BY <2>2 DEF Taken
  <2>4. Taken(z) = Len(z.fates) + k
    BY <1>12, <2>2 DEF Taken
  <2> QED
    BY <1>4, <1>6, <2>1, <2>3, <2>4
<1>16. Taken(y) = Taken(s) + i
  <2>1. Len(s.fates) \in Nat
    BY <1>2 DEF End
  <2>2. Taken(s) = Len(s.fates)
    BY <1>2, <2>1 DEF Taken
  <2>3. Taken(y) = Len(s.fates) + (i - 1 + 1)
    BY <1>11 DEF Taken
  <2> QED
    BY <2>1, <2>2, <2>3
<1>17. Accounted(y, z)
  <2>1. y.unnotified = Taken(z) + Len(y.wire)
    BY <1>3, <1>4, <1>6, <1>7, <1>8, <1>11, <1>15
  <2> QED
    BY <1>2, <1>12, <2>1 DEF Accounted
<1>18. Accounted(z, y)
  <2>1. z.unnotified = Taken(y) + Len(z.wire)
    BY <1>3, <1>6, <1>7, <1>8, <1>12, <1>16
  <2> QED
    BY <1>11, <2>1 DEF Accounted
<1>19. conn' = [conn EXCEPT ![e] = y, ![p] = z]
  <2>1. conn \in [Side -> End]
    BY DEF TypeInv, TypeOK
  <2>2. conn' = [conn EXCEPT ![e] = y, ![p] = Passed(conn[p], i, n)]
    BY <1>a, <1>b, <1>c, <1>d, <1>e, <1>f, <1>1, <2>1 DEF ReceivedPacket
  <2> QED
    BY <1>c, <1>g, <2>2
<1>20. conn' \in [Side -> End] /\ conn'[e] = y /\ conn'[p] = z
  <2>1. conn \in [Side -> End]
    BY DEF TypeInv, TypeOK
  <2> QED
    BY <1>1, <1>11, <1>12, <1>19, <2>1
<1>21. TypeOK'
  BY <1>20 DEF TypeOK, TypeInv, ReceivedPacket
<1>22. \A x \in Side : Accounted(conn'[x], conn'[Other(x)]) /\ Told(conn'[x]) /\ Bounded(conn'[x])
  BY <1>a, <1>1, <1>4, <1>11, <1>13, <1>14, <1>17, <1>18, <1>20
<1> QED
  BY <1>21, <1>22 DEF TypeInv

LEMMA InitTypes ==
  ASSUME Init PROVE TypeInv
<1>1. PICK x : x = [state |-> "open", channel |-> NoChannel,
        outReliable |-> FirstSequence, inReliable |-> FirstSequence, pendingOutRec |-> 0,
        sendBuffer |-> <<>>, wire |-> <<>>, unnotified |-> 0, fates |-> <<>>,
        receiving |-> NotReceiving,
        got |-> [inc |-> 0, n |-> 0], whole |-> TRUE, fresh |-> TRUE]
  OBVIOUS
<1>2. conn = [e \in Side |-> x]
  BY <1>1 DEF Init
<1>3. NotReceiving \in Receiving /\ ~NotReceiving.busy /\ NotReceiving.lost = 0
  BY DEF NotReceiving, Receiving
<1>4. x \in End
  <2>1. FirstSequence \in Nat
    BY ChannelAssumption
  <2>2. PICK r \in Receiving : r = NotReceiving
    BY <1>3
  <2>3. PICK a \in BOOLEAN, b \in {"open", "closed", "error"}, z \in Nat :
          a = TRUE /\ b = "open" /\ z = 0
    OBVIOUS
  <2>4. PICK g \in [inc : Nat, n : Nat] : g = [inc |-> 0, n |-> 0]
    OBVIOUS
  <2>5. PICK q \in Seq(Bunch) : q = <<>>
    <3>1. <<>> \in Seq(Bunch)
      BY EmptySeq
    <3> QED
      BY <3>1
  <2>7. PICK w \in Seq(Packet) : w = <<>>
    <3>1. <<>> \in Seq(Packet)
      BY EmptySeq
    <3> QED
      BY <3>1
  <2>8. PICK f \in Seq(BOOLEAN) : f = <<>>
    <3>1. <<>> \in Seq(BOOLEAN)
      BY EmptySeq
    <3> QED
      BY <3>1
  <2>6. x = [state |-> b, channel |-> NoChannel,
        outReliable |-> FirstSequence, inReliable |-> FirstSequence, pendingOutRec |-> z,
        sendBuffer |-> q, wire |-> w, unnotified |-> z, fates |-> f,
        receiving |-> r, got |-> g, whole |-> a, fresh |-> a]
    BY <1>1, <2>2, <2>3, <2>4, <2>5, <2>7, <2>8
  <2> QED
    BY <2>1, <2>6 DEF End
<1>5. /\ x.channel = NoChannel /\ x.wire = <<>> /\ x.fates = <<>> /\ x.unnotified = 0
      /\ x.receiving = NotReceiving /\ x.pendingOutRec = 0 /\ x.outReliable = FirstSequence
  BY <1>1
<1>6. Bounded(x)
  <2>1. FirstSequence \in Nat
    BY ChannelAssumption
  <2> QED
    BY <1>5, <2>1 DEF Bounded, Records
<1>7. Told(x)
  BY <1>5 DEF Told
<1>8. Accounted(x, x)
  BY <1>3, <1>5 DEF Accounted, Taken
<1>9. \A e \in Side : conn[e] = x /\ conn[Other(e)] = x
  BY <1>2, Sides
<1>10. TypeOK
  <2>1. MaxIncarnations \in Nat
    BY ChannelAssumption
  <2>2. conn \in [Side -> End]
    BY <1>2, <1>4
  <2>3. incarnation = 0 /\ sent = [e \in Side |-> 0] /\ loose = 0 /\ reused = FALSE
    BY DEF Init
  <2>4. incarnation \in 0 .. MaxIncarnations /\ sent \in [Side -> Nat] /\ loose \in Nat
    BY <2>1, <2>3
  <2>5. reused \in BOOLEAN
    BY <2>3, ZenonT(30)
  <2> QED
    BY <2>2, <2>4, <2>5 DEF TypeOK
<1> QED
  BY <1>6, <1>7, <1>8, <1>9, <1>10 DEF TypeInv

LEMMA NextTypes ==
  ASSUME TypeInv, [Next]_vars PROVE TypeInv'
<1>1. CASE UNCHANGED vars
  BY <1>1 DEF vars, TypeInv, TypeOK
<1>2. CASE Game
  BY <1>2, OpenChannelTypes, SendReliableTypes, SendUnreliableTypes, CloseChannelTypes DEF Game
<1>3. CASE Network
  BY <1>3, FlushNetTypes, ReceivedPacketTypes, DispatchQueuedTypes, ReceivedPacketBunchTypes,
     AcknowledgePacketTypes DEF Network
<1> QED
  BY <1>1, <1>2, <1>3 DEF Next

\* The state of both ends is what the code declares it to be; in particular a
\* notification finds the packet it is about (UNetConnection::ReceivedAck and
\* ReceivedNak never run for a packet that was not sent), and every number an end keeps
\* for a former channel is one it used.
THEOREM TypeCorrect == Spec => []TypeOK
<1>1. Init => TypeInv
  BY InitTypes
<1>2. TypeInv /\ [Next]_vars => TypeInv'
  BY NextTypes
<1>3. TypeInv => TypeOK
  BY DEF TypeInv
<1> QED
  BY <1>1, <1>2, <1>3, PTL DEF Spec

-----------------------------------------------------------------------------
(* A Line is what a sender s and its peer r agree on.  h is the history of *)
(* what s numbered: h[q] is the bunch that it last gave the number q.      *)

History == [Nat -> Bunch]

\* The first number that the peer may still need.
Low(s) == IF s.pendingOutRec # 0 THEN s.pendingOutRec ELSE s.outReliable + 1 - Len(Records(s))

\* The number is through or waits in InRec.
Has(r, q) == q <= r.inReliable \/ \E i \in DOMAIN Queue(r) : Queue(r)[i].seq = q

\* The bunches of packet k of s: the last of those that r has taken, those under way,
\* and the one that is being filled.
Carries(s, r, k) ==
  IF k = s.unnotified + 1 THEN s.sendBuffer
  ELSE IF k > Taken(r) THEN s.wire[k - Taken(r)].bunches
  ELSE r.receiving.bunches

Within(b, bs) == \E j \in DOMAIN bs : bs[j] = b

WellFormed(b, q) == b.seq = q /\ b.rel /\ b.tag.seq = q /\ (b.close => b.part = "whole")

\* r has taken everything below the first number that s still keeps.
Numbered(s, r, h) ==
  /\ s.pendingOutRec # 0 => Records(s) = <<>>
  /\ Low(s) >= 1 /\ Low(s) - 1 <= r.inReliable /\ r.inReliable <= s.outReliable
  /\ \A i \in DOMAIN Records(s) : Records(s)[i].bunch = h[Low(s) + i - 1]
  /\ \A q \in Low(s) .. s.outReliable : WellFormed(h[q], q)

\* Where a bunch is that is kept: with r if it is acknowledged or will be, else in the
\* packet it is recorded under, unless that one is lost.
RecordOK(s, r, o) ==
  /\ o.acked => o.packet = 0
  /\ ~o.acked => o.packet \in 1 .. s.unnotified + 1
  /\ o.acked \/ (o.packet \in 1 .. Len(r.fates) /\ r.fates[o.packet]) => Has(r, o.bunch.seq)
  /\ o.packet > Taken(r) => Within(OnWire(o.bunch), Carries(s, r, o.packet))
  /\ r.receiving.busy /\ o.packet = Taken(r) =>
       \/ Within(OnWire(o.bunch), r.receiving.bunches)
       \/ Has(r, o.bunch.seq)
       \/ r.receiving.skipAck

Recorded(s, r) == \A i \in DOMAIN Records(s) : RecordOK(s, r, Records(s)[i])

\* A reliable bunch in packet k is one that s still keeps, under k.
BunchOK(s, h, k, b) ==
  IF b.rel
    THEN /\ b.tag.seq \in Low(s) .. s.outReliable
         /\ b = OnWire(h[b.tag.seq])
         /\ s.pendingOutRec = 0 =>
              /\ ~Records(s)[b.tag.seq - Low(s) + 1].acked
              /\ Records(s)[b.tag.seq - Low(s) + 1].packet = k
    ELSE ~b.open /\ ~b.close

InFlight(s, r, h) ==
  \A k \in Taken(r) .. s.unnotified + 1 : \A j \in DOMAIN Carries(s, r, k) :
    BunchOK(s, h, k, Carries(s, r, k)[j])

Ready(r) == Queue(r) # <<>> /\ Queue(r)[1].seq = r.inReliable + 1

\* Records of s that keep the front of its numbers from being released while r works
\* through what it had queued.
Holding(s, r) ==
  \E i \in DOMAIN Records(s) :
    ~Records(s)[i].acked /\ Records(s)[i].packet = Taken(r) /\ Records(s)[i].bunch.seq <= r.inReliable

\* InRec holds later numbers, each once and in order.
Queued(s, r, h) ==
  /\ \A i \in DOMAIN Queue(r) :
       /\ Queue(r)[i].seq \in r.inReliable + 1 .. s.outReliable
       /\ Queue(r)[i] = h[Queue(r)[i].seq]
  /\ \A i, j \in DOMAIN Queue(r) : i < j => Queue(r)[i].seq < Queue(r)[j].seq
  /\ Ready(r) => r.receiving.busy /\ (s.pendingOutRec = 0 => Holding(s, r))

Span(s) == s.outReliable + 1 - Low(s)

\* OutRec, or what is to be sent again, is never full but for the close.
Room(s) ==
  /\ Span(s) <= ReliableBuffer
  /\ s.channel = NoChannel \/ ~s.channel.closing => Span(s) < ReliableBuffer

Line(s, r, h) ==
  /\ Accounted(s, r) /\ Numbered(s, r, h) /\ Recorded(s, r) /\ InFlight(s, r, h)
  /\ Queued(s, r, h) /\ Room(s)

\* No bunch is under way behind the first i packets.
SilentAfter(s, i) ==
  s.sendBuffer = <<>> /\ \A j \in DOMAIN s.wire : j > i => s.wire[j].bunches = <<>>

\* The fates say that each of them is through.
TellsAll(recs, fates) ==
  \A i \in DOMAIN recs :
    recs[i].acked \/ (recs[i].packet \in 1 .. Len(fates) /\ fates[recs[i].packet])

-----------------------------------------------------------------------------
(* Steps of a sender and its peer, one at a time.                          *)

LEMMA EndTypes ==
  ASSUME NEW s \in End
  PROVE  /\ s.unnotified \in Nat /\ s.outReliable \in Nat /\ s.inReliable \in Nat
         /\ s.pendingOutRec \in Nat
         /\ s.sendBuffer \in Seq(Bunch) /\ s.wire \in Seq(Packet) /\ s.fates \in Seq(BOOLEAN)
         /\ s.receiving.bunches \in Seq(Bunch) /\ s.receiving.lost \in Nat
         /\ s.receiving.busy \in BOOLEAN /\ s.receiving.skipAck \in BOOLEAN
         /\ Records(s) \in Seq(OutBunch) /\ Queue(s) \in Seq(Bunch)
<1>1. /\ s.unnotified \in Nat /\ s.outReliable \in Nat /\ s.inReliable \in Nat
      /\ s.pendingOutRec \in Nat
      /\ s.sendBuffer \in Seq(Bunch) /\ s.wire \in Seq(Packet) /\ s.fates \in Seq(BOOLEAN)
      /\ s.receiving \in Receiving
  BY DEF End
<1>2. /\ s.receiving.bunches \in Seq(Bunch) /\ s.receiving.lost \in Nat
      /\ s.receiving.busy \in BOOLEAN /\ s.receiving.skipAck \in BOOLEAN
  BY <1>1 DEF Receiving
<1>3. CASE s.channel = NoChannel
  <2>1. Records(s) = <<>> /\ Queue(s) = <<>>
    BY <1>3 DEF Records, Queue
  <2>2. <<>> \in Seq(OutBunch) /\ <<>> \in Seq(Bunch)
    BY EmptySeq
  <2> QED
    BY <1>1, <1>2, <2>1, <2>2
<1>4. CASE s.channel # NoChannel
  <2>1. s.channel.outRec \in Seq(OutBunch) /\ s.channel.inRec \in Seq(Bunch)
    BY <1>4, ChannelIn DEF Channel
  <2> QED
    BY <1>1, <1>2, <1>4, <2>1 DEF Records, Queue
<1> QED
  BY <1>3, <1>4

LEMMA Lengths ==
  ASSUME NEW s \in End
  PROVE  /\ Len(s.sendBuffer) \in Nat /\ Len(s.wire) \in Nat /\ Len(s.fates) \in Nat
         /\ Len(s.receiving.bunches) \in Nat /\ Len(Records(s)) \in Nat /\ Len(Queue(s)) \in Nat
         /\ DOMAIN s.sendBuffer = 1 .. Len(s.sendBuffer) /\ DOMAIN s.wire = 1 .. Len(s.wire)
         /\ DOMAIN s.receiving.bunches = 1 .. Len(s.receiving.bunches)
         /\ DOMAIN Records(s) = 1 .. Len(Records(s)) /\ DOMAIN Queue(s) = 1 .. Len(Queue(s))
         /\ Taken(s) \in Nat /\ Low(s) \in Int
         /\ s.pendingOutRec = 0 => Low(s) = s.outReliable + 1 - Len(Records(s))
         /\ s.pendingOutRec # 0 => Low(s) = s.pendingOutRec
<1>1. /\ Len(s.sendBuffer) \in Nat /\ DOMAIN s.sendBuffer = 1 .. Len(s.sendBuffer)
      /\ Len(s.wire) \in Nat /\ DOMAIN s.wire = 1 .. Len(s.wire)
      /\ Len(s.fates) \in Nat
  BY EndTypes
<1>2. /\ Len(s.receiving.bunches) \in Nat
      /\ DOMAIN s.receiving.bunches = 1 .. Len(s.receiving.bunches)
  BY EndTypes
<1>3. Len(Records(s)) \in Nat /\ DOMAIN Records(s) = 1 .. Len(Records(s))
  BY EndTypes
<1>4. Len(Queue(s)) \in Nat /\ DOMAIN Queue(s) = 1 .. Len(Queue(s))
  BY EndTypes
<1>5. Taken(s) \in Nat
  BY TakenType
<1>6. s.pendingOutRec \in Nat /\ s.outReliable \in Nat
  BY EndTypes
<1>7. /\ Low(s) \in Int
      /\ s.pendingOutRec = 0 => Low(s) = s.outReliable + 1 - Len(Records(s))
      /\ s.pendingOutRec # 0 => Low(s) = s.pendingOutRec
  BY <1>3, <1>6 DEF Low
<1> QED
  BY <1>1, <1>2, <1>3, <1>4, <1>5, <1>7

LEMMA RecordIn ==
  ASSUME NEW s \in End, NEW i \in DOMAIN Records(s)
  PROVE  /\ Records(s)[i] \in OutBunch /\ Records(s)[i].bunch \in Bunch
         /\ Records(s)[i].packet \in Nat /\ Records(s)[i].acked \in BOOLEAN
<1>1. Records(s)[i] \in OutBunch
  BY EndTypes
<1> QED
  BY <1>1 DEF OutBunch

\* The packets that are not dealt with, one by one.
LEMMA Carried ==
  ASSUME NEW s \in End, NEW r \in End, Accounted(s, r)
  PROVE  /\ Carries(s, r, s.unnotified + 1) = s.sendBuffer
         /\ \A k \in Taken(r) + 1 .. s.unnotified :
              /\ Carries(s, r, k) = s.wire[k - Taken(r)].bunches
              /\ k - Taken(r) \in DOMAIN s.wire
         /\ Carries(s, r, Taken(r)) = r.receiving.bunches
         /\ \A k \in Taken(r) .. s.unnotified + 1 :
              k = s.unnotified + 1 \/ k = Taken(r) \/ k \in Taken(r) + 1 .. s.unnotified
         /\ Taken(r) <= s.unnotified
         /\ s.unnotified = Taken(r) + Len(s.wire)
<1>1. /\ Len(s.wire) \in Nat /\ Taken(r) \in Nat /\ s.unnotified \in Nat
      /\ DOMAIN s.wire = 1 .. Len(s.wire)
  BY EndTypes, Lengths
<1>2. s.unnotified = Taken(r) + Len(s.wire)
  BY DEF Accounted
<1>3. \A k \in Taken(r) + 1 .. s.unnotified : k # s.unnotified + 1 /\ k > Taken(r) /\ k - Taken(r) \in 1 .. Len(s.wire)
  BY <1>1, <1>2
<1>4. Taken(r) # s.unnotified + 1 /\ ~(Taken(r) > Taken(r))
  BY <1>1, <1>2
<1>5. /\ Carries(s, r, s.unnotified + 1) = s.sendBuffer
      /\ \A k \in Taken(r) + 1 .. s.unnotified : Carries(s, r, k) = s.wire[k - Taken(r)].bunches
      /\ Carries(s, r, Taken(r)) = r.receiving.bunches
  BY <1>3, <1>4 DEF Carries
<1>6. \A k \in Taken(r) + 1 .. s.unnotified : k - Taken(r) \in DOMAIN s.wire
  BY <1>1, <1>3
<1>7. /\ \A k \in Taken(r) .. s.unnotified + 1 :
           k = s.unnotified + 1 \/ k = Taken(r) \/ k \in Taken(r) + 1 .. s.unnotified
      /\ Taken(r) <= s.unnotified
  BY <1>1, <1>2
<1> QED
  BY <1>2, <1>5, <1>6, <1>7

LEMMA CarriesType ==
  ASSUME NEW s \in End, NEW r \in End, Accounted(s, r), NEW k \in Taken(r) .. s.unnotified + 1
  PROVE  /\ Carries(s, r, k) \in Seq(Bunch)
         /\ Len(Carries(s, r, k)) \in Nat
         /\ DOMAIN Carries(s, r, k) = 1 .. Len(Carries(s, r, k))
         /\ \A j \in DOMAIN Carries(s, r, k) : Carries(s, r, k)[j] \in Bunch
<1>1. Carries(s, r, k) \in Seq(Bunch)
  <2>1. \A j \in DOMAIN s.wire : s.wire[j] \in Packet
    BY EndTypes
  <2>2. \A j \in DOMAIN s.wire : s.wire[j].bunches \in Seq(Bunch)
    BY <2>1 DEF Packet
  <2>3. CASE k = s.unnotified + 1
    BY <2>3, Carried, EndTypes
  <2>4. CASE k = Taken(r)
    BY <2>4, Carried, EndTypes
  <2>5. CASE k \in Taken(r) + 1 .. s.unnotified
    <3>1. Carries(s, r, k) = s.wire[k - Taken(r)].bunches /\ k - Taken(r) \in DOMAIN s.wire
      BY <2>5, Carried
    <3> QED
      BY <2>2, <3>1
  <2> QED
    BY <2>3, <2>4, <2>5, Carried
<1> QED
  BY <1>1

\* When neither queue nor sequence number of the receiver changes.
LEMMA HasSame ==
  ASSUME NEW r \in End, NEW u \in End, u.inReliable = r.inReliable, Queue(u) = Queue(r)
  PROVE  \A q : Has(u, q) <=> Has(r, q)
  BY DEF Has

\* What the agreement says about a sender.
SameSender(s, t) ==
  /\ t \in End /\ t.wire = s.wire /\ t.sendBuffer = s.sendBuffer
  /\ t.unnotified = s.unnotified /\ t.outReliable = s.outReliable
  /\ t.pendingOutRec = s.pendingOutRec /\ Records(t) = Records(s)

\* What it says about a receiver.
SameReceiver(r, u) ==
  /\ u \in End /\ u.inReliable = r.inReliable /\ Queue(u) = Queue(r) /\ u.fates = r.fates
  /\ u.receiving.busy = r.receiving.busy /\ u.receiving.bunches = r.receiving.bunches
  /\ u.receiving.lost = r.receiving.lost
  /\ r.receiving.skipAck => u.receiving.skipAck
  /\ r.receiving.busy \/ u.receiving = r.receiving

LEMMA LineFrame ==
  ASSUME NEW s \in End, NEW r \in End, NEW h \in History, Line(s, r, h),
         NEW t, SameSender(s, t), NEW u, SameReceiver(r, u), Room(t)
  PROVE  Line(t, u, h)
<1>1. Taken(u) = Taken(r) /\ Low(t) = Low(s) /\ t \in End /\ u \in End
  BY DEF Taken, Low, SameSender, SameReceiver
<1>2. Accounted(t, u)
  BY <1>1 DEF Line, Accounted, SameSender, SameReceiver
<1>3. Numbered(t, u, h)
  BY <1>1 DEF Line, Numbered, SameSender, SameReceiver
<1>4. \A k : Carries(t, u, k) = Carries(s, r, k)
  BY <1>1 DEF Carries, SameSender, SameReceiver
<1>5. \A q : Has(u, q) <=> Has(r, q)
  BY HasSame DEF SameReceiver
<1>6. Recorded(t, u)
  <2> SUFFICES ASSUME NEW i \in DOMAIN Records(t) PROVE RecordOK(t, u, Records(t)[i])
    BY DEF Recorded
  <2>1. PICK o : o = Records(t)[i]
    OBVIOUS
  <2>2. RecordOK(s, r, o)
    BY <2>1 DEF Line, Recorded, SameSender
  <2>3. RecordOK(t, u, o)
    BY <1>1, <1>4, <1>5, <2>2 DEF RecordOK, SameSender, SameReceiver
  <2> QED
    BY <2>1, <2>3
<1>7. InFlight(t, u, h)
  <2>1. \A k, b : BunchOK(s, h, k, b) => BunchOK(t, h, k, b)
    BY <1>1 DEF BunchOK, SameSender
  <2> QED
    BY <1>1, <1>4, <2>1 DEF Line, InFlight, SameSender
<1>8. Queued(t, u, h)
  <2>1. Ready(u) <=> Ready(r)
    BY DEF Ready, SameReceiver
  <2>2. Holding(s, r) => Holding(t, u)
    BY <1>1 DEF Holding, SameSender, SameReceiver
  <2> QED
    BY <2>1, <2>2 DEF Line, Queued, SameSender, SameReceiver
<1> QED
  BY <1>2, <1>3, <1>6, <1>7, <1>8 DEF Line

\* The room that a sender has depends on little else.
LEMMA RoomSame ==
  ASSUME NEW s \in End, NEW t, SameSender(s, t), Room(s),
         t.channel = NoChannel \/ ~t.channel.closing => s.channel = NoChannel \/ ~s.channel.closing
  PROVE  Room(t)
<1>1. Low(t) = Low(s)
  BY DEF Low, SameSender
<1> QED
  BY <1>1 DEF Room, Span, SameSender

LEMMA LineFlushed ==
  ASSUME NEW s \in End, NEW r \in End, NEW h \in History, Line(s, r, h), NEW t, t = Flushed(s)
  PROVE  Line(t, r, h)
<1>1. /\ t \in End
      /\ t.wire = Append(s.wire, [bunches |-> s.sendBuffer, fates |-> s.fates])
      /\ t.sendBuffer = <<>> /\ t.unnotified = s.unnotified + 1
      /\ t.channel = s.channel /\ t.outReliable = s.outReliable
      /\ t.pendingOutRec = s.pendingOutRec
  BY FlushedType
<1>2. Records(t) = Records(s) /\ Low(t) = Low(s)
  BY <1>1 DEF Records, Low
<1>3. /\ s.wire \in Seq(Packet) /\ [bunches |-> s.sendBuffer, fates |-> s.fates] \in Packet
      /\ s.unnotified \in Nat /\ Taken(r) \in Nat /\ Len(s.wire) \in Nat
  BY Lengths DEF End, Packet
<1>4. /\ Len(t.wire) = Len(s.wire) + 1
      /\ \A i \in 1 .. Len(s.wire) : t.wire[i] = s.wire[i]
      /\ t.wire[Len(s.wire) + 1].bunches = s.sendBuffer
  BY <1>1, <1>3, AppendProperties
<1>5. Accounted(s, r)
  BY DEF Line
<1>6. s.unnotified = Taken(r) + Len(s.wire)
  BY <1>5 DEF Accounted
<1>7. Accounted(t, r)
  <2>1. t.unnotified = Taken(r) + Len(t.wire)
    BY <1>1, <1>3, <1>4, <1>6
  <2> QED
    BY <1>5, <2>1 DEF Accounted
<1>8. \A k \in Taken(r) .. s.unnotified + 1 : Carries(t, r, k) = Carries(s, r, k)
  <2> TAKE k \in Taken(r) .. s.unnotified + 1
  <2>1. CASE k = s.unnotified + 1
    <3>1. k \in Taken(r) + 1 .. t.unnotified /\ k - Taken(r) = Len(s.wire) + 1
      BY <1>1, <1>3, <1>6, <2>1
    <3> QED
      BY <1>1, <1>4, <1>5, <1>7, <2>1, <3>1, Carried
  <2>2. CASE k = Taken(r)
    BY <1>1, <1>5, <1>7, <2>2, Carried
  <2>3. CASE k \in Taken(r) + 1 .. s.unnotified
    <3>1. k \in Taken(r) + 1 .. t.unnotified /\ k - Taken(r) \in 1 .. Len(s.wire)
      BY <1>1, <1>3, <1>6, <2>3
    <3> QED
      BY <1>1, <1>4, <1>5, <1>7, <2>3, <3>1, Carried
  <2> QED
    BY <1>5, <2>1, <2>2, <2>3, Carried
<1>9. Carries(t, r, t.unnotified + 1) = <<>>
  BY <1>1, <1>7, Carried
<1>10. Numbered(t, r, h)
  BY <1>1, <1>2 DEF Line, Numbered
<1>11. Recorded(t, r)
  <2> SUFFICES ASSUME NEW i \in DOMAIN Records(t) PROVE RecordOK(t, r, Records(t)[i])
    BY DEF Recorded
  <2>1. PICK o : o = Records(s)[i]
    OBVIOUS
  <2>2. RecordOK(s, r, o) /\ o.packet \in Nat
    BY <1>2, <2>1, RecordIn DEF Line, Recorded
  <2>3. ~o.acked => o.packet \in 1 .. t.unnotified + 1
    BY <1>1, <1>3, <2>2 DEF RecordOK
  <2>4. ASSUME o.packet > Taken(r) PROVE Within(OnWire(o.bunch), Carries(t, r, o.packet))
    <3>1. ~o.acked
      BY <1>3, <2>2, <2>4 DEF RecordOK
    <3>2. o.packet \in Taken(r) .. s.unnotified + 1
      BY <1>3, <2>2, <2>4, <3>1 DEF RecordOK
    <3> QED
      BY <1>8, <2>2, <2>4, <3>2 DEF RecordOK
  <2>5. RecordOK(t, r, o)
    BY <2>2, <2>3, <2>4 DEF RecordOK
  <2> QED
    BY <1>2, <2>1, <2>5
<1>12. InFlight(t, r, h)
  <2> SUFFICES ASSUME NEW k \in Taken(r) .. t.unnotified + 1, NEW j \in DOMAIN Carries(t, r, k)
               PROVE  BunchOK(t, h, k, Carries(t, r, k)[j])
    BY DEF InFlight
  <2>1. k \in Taken(r) .. s.unnotified + 1
    <3>1. k # t.unnotified + 1
      BY <1>9
    <3> QED
      BY <1>1, <1>3, <3>1
  <2>2. BunchOK(s, h, k, Carries(t, r, k)[j])
    BY <1>8, <2>1 DEF Line, InFlight
  <2> QED
    BY <1>1, <1>2, <2>2 DEF BunchOK
<1>13. Queued(t, r, h)
  <2>1. Holding(s, r) => Holding(t, r)
    BY <1>2 DEF Holding
  <2> QED
    BY <1>1, <2>1 DEF Line, Queued
<1>14. Room(t)
  BY <1>1, <1>2 DEF Line, Room, Span
<1> QED
  BY <1>7, <1>10, <1>11, <1>12, <1>13, <1>14 DEF Line

\* A bunch is written behind those in the send buffer.
LEMMA Buffered ==
  ASSUME NEW s \in End, NEW r \in End, Accounted(s, r), NEW x \in Bunch, NEW t \in End,
         t.sendBuffer = Append(s.sendBuffer, x), t.wire = s.wire, t.unnotified = s.unnotified
  PROVE  /\ Accounted(t, r)
         /\ \A k \in Taken(r) .. s.unnotified : Carries(t, r, k) = Carries(s, r, k)
         /\ Carries(t, r, s.unnotified + 1) = Append(s.sendBuffer, x)
         /\ Carries(s, r, s.unnotified + 1) = s.sendBuffer
         /\ \A k \in Taken(r) .. s.unnotified + 1 : \A y :
              Within(y, Carries(s, r, k)) => Within(y, Carries(t, r, k))
         /\ Within(x, Carries(t, r, s.unnotified + 1))
<1>1. Accounted(t, r)
  BY DEF Accounted
<1>2. /\ Carries(t, r, s.unnotified + 1) = Append(s.sendBuffer, x)
      /\ Carries(s, r, s.unnotified + 1) = s.sendBuffer
  BY <1>1, Carried
<1>3. \A k \in Taken(r) .. s.unnotified : Carries(t, r, k) = Carries(s, r, k)
  <2> TAKE k \in Taken(r) .. s.unnotified
  <2>1. k # s.unnotified + 1
    BY Lengths, EndTypes, SMTT(30)
  <2> QED
    BY <2>1 DEF Carries
<1>4. s.sendBuffer \in Seq(Bunch) /\ Len(s.sendBuffer) \in Nat
  BY EndTypes
<1>5. /\ DOMAIN Append(s.sendBuffer, x) = 1 .. Len(s.sendBuffer) + 1
      /\ \A j \in 1 .. Len(s.sendBuffer) : Append(s.sendBuffer, x)[j] = s.sendBuffer[j]
      /\ Append(s.sendBuffer, x)[Len(s.sendBuffer) + 1] = x
      /\ DOMAIN s.sendBuffer = 1 .. Len(s.sendBuffer)
  BY <1>4, AppendProperties
<1>6. \A y : Within(y, s.sendBuffer) => Within(y, Append(s.sendBuffer, x))
  BY <1>4, <1>5 DEF Within
<1>7. Within(x, Append(s.sendBuffer, x))
  BY <1>4, <1>5 DEF Within
<1>8. \A k \in Taken(r) .. s.unnotified + 1 : k \in Taken(r) .. s.unnotified \/ k = s.unnotified + 1
  BY Lengths, EndTypes, SMTT(30)
<1>9. \A k \in Taken(r) .. s.unnotified + 1 : \A y :
              Within(y, Carries(s, r, k)) => Within(y, Carries(t, r, k))
  BY <1>2, <1>3, <1>6, <1>8
<1> QED
  BY <1>1, <1>2, <1>3, <1>7, <1>9

Numbers(s, bunch, h) ==
  IF bunch.rel THEN [h EXCEPT ![s.outReliable + 1] = Stamped(s, bunch)] ELSE h

LEMMA NumbersType ==
  ASSUME NEW s \in End, NEW bunch \in Bunch, NEW h \in History, NEW g, g = Numbers(s, bunch, h)
  PROVE  /\ g \in History
         /\ bunch.rel => g[s.outReliable + 1] = Stamped(s, bunch)
         /\ \A q \in Nat : q # s.outReliable + 1 => g[q] = h[q]
         /\ ~bunch.rel => g = h
<1>1. Stamped(s, bunch) \in Bunch /\ s.outReliable \in Nat
  BY StampedType, EndTypes
<1>2. s.outReliable + 1 \in Nat
  BY <1>1
<1> QED
  BY <1>1, <1>2 DEF Numbers, History

\* A record whose packet and acknowledgement stay may see more bunches under way.
LEMMA RecordStays ==
  ASSUME NEW s \in End, NEW r \in End, Accounted(s, r), NEW o \in OutBunch, RecordOK(s, r, o),
         NEW t \in End, t.unnotified = s.unnotified,
         \A k \in Taken(r) .. s.unnotified + 1 : \A y :
           Within(y, Carries(s, r, k)) => Within(y, Carries(t, r, k))
  PROVE  RecordOK(t, r, o)
<1>1. o.packet \in Nat /\ Taken(r) \in Nat /\ s.unnotified \in Nat /\ o.acked \in BOOLEAN
  BY Lengths, EndTypes DEF OutBunch
<1>2. ASSUME o.packet > Taken(r) PROVE Within(OnWire(o.bunch), Carries(t, r, o.packet))
  <2>1. ~o.acked
    BY <1>1, <1>2 DEF RecordOK
  <2>2. o.packet \in Taken(r) .. s.unnotified + 1
    BY <1>1, <1>2, <2>1 DEF RecordOK
  <2> QED
    BY <1>2, <2>2 DEF RecordOK
<1> QED
  BY <1>2 DEF RecordOK

LEMMA LinePrepared ==
  ASSUME NEW s \in End, NEW r \in End, NEW h \in History, Line(s, r, h), s.channel # NoChannel,
         NEW bunch \in Bunch, NEW t, Prepared(s, bunch, t),
         bunch.rel => s.pendingOutRec = 0 /\ (bunch.close => bunch.part = "whole"),
         ~bunch.rel => ~bunch.open /\ ~bunch.close,
         Room(t),
         NEW g, g = Numbers(s, bunch, h)
  PROVE  Line(t, r, g)
<1> DEFINE b == Stamped(s, bunch)
           x == OnWire(b)
           l == Len(Records(s))
<1>1. /\ t \in End /\ t.channel # NoChannel
      /\ t.sendBuffer = Append(s.sendBuffer, x) /\ t.wire = s.wire
      /\ t.unnotified = s.unnotified /\ t.pendingOutRec = s.pendingOutRec
  BY DEF Prepared
<1>2. /\ b \in Bunch /\ NewRecord(s, bunch) \in OutBunch
      /\ b.rel = bunch.rel /\ b.open = bunch.open /\ b.close = bunch.close /\ b.part = bunch.part
      /\ bunch.rel => b.seq = s.outReliable + 1 /\ b.tag = [bunch.tag EXCEPT !.seq = s.outReliable + 1]
  BY StampedType
<1>3. bunch.rel => b.tag.seq = s.outReliable + 1
  <2>1. bunch.tag \in Tag
    BY DEF Bunch
  <2> QED
    BY <1>2, <2>1 DEF Tag
<1>4. /\ x \in Bunch /\ x.rel = bunch.rel /\ x.open = bunch.open /\ x.close = bunch.close
      /\ x.tag = b.tag
  BY <1>2, OnWireType
<1>5. /\ g \in History /\ (bunch.rel => g[s.outReliable + 1] = b)
      /\ \A q \in Nat : q # s.outReliable + 1 => g[q] = h[q]
  BY NumbersType
<1>6. /\ Accounted(s, r) /\ Numbered(s, r, h) /\ Recorded(s, r) /\ InFlight(s, r, h) /\ Queued(s, r, h)
  BY DEF Line
<1>7. /\ s.outReliable \in Nat /\ r.inReliable \in Nat /\ s.unnotified \in Nat /\ Taken(r) \in Nat
      /\ l \in Nat /\ DOMAIN Records(s) = 1 .. l
      /\ s.pendingOutRec \in Nat /\ Low(s) \in Int /\ Low(s) >= 1
      /\ Taken(r) <= s.unnotified /\ Len(r.fates) \in Nat /\ Len(r.fates) <= Taken(r)
      /\ s.pendingOutRec = 0 => Low(s) = s.outReliable + 1 - l
  <2>1. Taken(r) <= s.unnotified
    BY <1>6, Carried
  <2>2. /\ s.outReliable \in Nat /\ r.inReliable \in Nat /\ s.unnotified \in Nat /\ Taken(r) \in Nat
        /\ s.pendingOutRec \in Nat
    BY EndTypes, Lengths
  <2>3. /\ l \in Nat /\ DOMAIN Records(s) = 1 .. l /\ Low(s) \in Int
        /\ s.pendingOutRec = 0 => Low(s) = s.outReliable + 1 - l
    BY Lengths
  <2>4. Low(s) >= 1
    BY <1>6 DEF Numbered
  <2>5. Len(r.fates) \in Nat /\ Len(r.fates) <= Taken(r)
    BY TakenType, Lengths
  <2> QED
    BY <2>1, <2>2, <2>3, <2>4, <2>5
<1> HIDE DEF x, b, l
<1>8. /\ Accounted(t, r)
      /\ \A k \in Taken(r) .. s.unnotified : Carries(t, r, k) = Carries(s, r, k)
      /\ Carries(t, r, s.unnotified + 1) = Append(s.sendBuffer, x)
      /\ Carries(s, r, s.unnotified + 1) = s.sendBuffer
      /\ \A k \in Taken(r) .. s.unnotified + 1 : \A y :
           Within(y, Carries(s, r, k)) => Within(y, Carries(t, r, k))
      /\ Within(x, Carries(t, r, s.unnotified + 1))
  BY <1>1, <1>4, <1>6, Buffered
<1>9. CASE bunch.rel
  <2>1. /\ Records(t) = Append(Records(s), NewRecord(s, bunch))
        /\ t.outReliable = s.outReliable + 1
    BY <1>9 DEF Prepared, Records
  <2>2. /\ DOMAIN Records(t) = 1 .. l + 1 /\ Len(Records(t)) = l + 1
        /\ \A i \in 1 .. l : Records(t)[i] = Records(s)[i]
        /\ Records(t)[l + 1] = NewRecord(s, bunch)
    <3>1. Records(s) \in Seq(OutBunch)
      BY EndTypes
    <3>2. /\ Append(Records(s), NewRecord(s, bunch)) \in Seq(OutBunch)
          /\ Len(Append(Records(s), NewRecord(s, bunch))) = l + 1
          /\ \A i \in 1 .. l : Append(Records(s), NewRecord(s, bunch))[i] = Records(s)[i]
          /\ Append(Records(s), NewRecord(s, bunch))[l + 1] = NewRecord(s, bunch)
      BY <1>2, <3>1, AppendProperties DEF l
    <3>3. Records(t) \in Seq(OutBunch) /\ Len(Records(t)) = l + 1
      BY <2>1, <3>2
    <3>4. DOMAIN Records(t) = 1 .. l + 1
      BY <3>3
    <3> QED
      BY <2>1, <3>2, <3>3, <3>4
  <2>3. s.pendingOutRec = 0 /\ Low(s) = s.outReliable + 1 - l
    BY <1>7, <1>9
  <2>4. Low(t) = Low(s)
    <3>1. Low(t) = t.outReliable + 1 - Len(Records(t))
      BY <1>1, <2>3, Lengths
    <3> QED
      BY <1>7, <2>1, <2>2, <2>3, <3>1
  <2>5. /\ NewRecord(s, bunch).bunch = b /\ NewRecord(s, bunch).packet = s.unnotified + 1
        /\ NewRecord(s, bunch).acked = FALSE
    BY DEF NewRecord, OutPacketId, b
  <2>6. Numbered(t, r, g)
    <3>1. \A i \in DOMAIN Records(t) : Records(t)[i].bunch = g[Low(t) + i - 1]
      <4> TAKE i \in DOMAIN Records(t)
      <4>1. CASE i \in 1 .. l
        <5>1. Low(s) + i - 1 \in Nat /\ Low(s) + i - 1 # s.outReliable + 1
          BY <1>7, <2>3, <4>1
        <5> QED
          BY <1>5, <1>6, <1>7, <2>2, <2>4, <4>1, <5>1, ZenonT(30) DEF Numbered
      <4>2. CASE i = l + 1
        <5>1. Low(t) + i - 1 = s.outReliable + 1
          BY <1>7, <2>3, <2>4, <4>2
        <5> QED
          BY <1>5, <1>9, <2>2, <2>5, <4>2, <5>1
      <4> QED
        BY <1>7, <2>2, <4>1, <4>2
    <3>2. \A q \in Low(t) .. t.outReliable : WellFormed(g[q], q)
      <4> TAKE q \in Low(t) .. t.outReliable
      <4>1. CASE q \in Low(s) .. s.outReliable
        <5>1. q \in Nat /\ q # s.outReliable + 1
          BY <1>7, <4>1
        <5> QED
          BY <1>5, <1>6, <4>1, <5>1 DEF Numbered
      <4>2. CASE q = s.outReliable + 1
        BY <1>2, <1>3, <1>5, <1>9, <4>2 DEF WellFormed
      <4> QED
        BY <1>7, <2>1, <2>4, <4>1, <4>2
    <3>3. Low(t) >= 1 /\ Low(t) - 1 <= r.inReliable /\ r.inReliable <= t.outReliable
      BY <1>6, <1>7, <2>1, <2>4 DEF Numbered
    <3> QED
      BY <1>1, <2>3, <3>1, <3>2, <3>3 DEF Numbered
  <2>7. Recorded(t, r)
    <3> SUFFICES ASSUME NEW i \in DOMAIN Records(t) PROVE RecordOK(t, r, Records(t)[i])
      BY DEF Recorded
    <3>1. CASE i \in 1 .. l
      <4>1. Records(t)[i] \in OutBunch /\ RecordOK(s, r, Records(t)[i])
        BY <1>6, <1>7, <2>2, <3>1, RecordIn DEF Recorded
      <4> QED
        BY <1>1, <1>6, <1>8, <4>1, RecordStays
    <3>2. CASE i = l + 1
      <4>1. PICK o : o = NewRecord(s, bunch)
        OBVIOUS
      <4>2. o.packet = s.unnotified + 1 /\ o.acked = FALSE /\ o.bunch = b
        BY <2>5, <4>1
      <4>3. ~(o.packet \in 1 .. Len(r.fates)) /\ o.packet # Taken(r) /\ o.packet \in 1 .. t.unnotified + 1
        BY <1>1, <1>7, <4>2
      <4>4. RecordOK(t, r, o)
        BY <1>8, <4>2, <4>3 DEF RecordOK, x
      <4> QED
        BY <2>2, <3>2, <4>1, <4>4
    <3> QED
      BY <1>7, <2>2, <3>1, <3>2
  <2>8. InFlight(t, r, g)
    <3>1. ASSUME NEW k \in Taken(r) .. s.unnotified + 1, NEW y, BunchOK(s, h, k, y)
          PROVE  BunchOK(t, g, k, y)
      <4>1. CASE y.rel
        <5>1. PICK q : q = y.tag.seq
          OBVIOUS
        <5>2. q \in Low(s) .. s.outReliable
          BY <3>1, <4>1, <5>1 DEF BunchOK
        <5>3. /\ q \in Nat /\ q # s.outReliable + 1 /\ q - Low(s) + 1 \in 1 .. l
              /\ q \in Low(t) .. t.outReliable
          BY <1>7, <2>1, <2>3, <2>4, <5>2, SMTT(30)
        <5>4. g[q] = h[q] /\ Records(t)[q - Low(t) + 1] = Records(s)[q - Low(s) + 1]
          BY <1>5, <2>2, <2>4, <5>3
        <5> QED
          BY <2>3, <3>1, <4>1, <5>1, <5>3, <5>4 DEF BunchOK
      <4>2. CASE ~y.rel
        BY <3>1, <4>2 DEF BunchOK
      <4> QED
        BY <4>1, <4>2
    <3>2. BunchOK(t, g, s.unnotified + 1, x)
      <4>1. x.rel /\ x.tag.seq = s.outReliable + 1
        BY <1>3, <1>4, <1>9
      <4>2. /\ s.outReliable + 1 \in Low(t) .. t.outReliable
            /\ s.outReliable + 1 - Low(t) + 1 = l + 1
        BY <1>7, <2>1, <2>3, <2>4, SMTT(30)
      <4>3. x = OnWire(g[s.outReliable + 1])
        BY <1>5, <1>9 DEF x
      <4>5. PICK q, k : q = s.outReliable + 1 /\ k = s.unnotified + 1
        OBVIOUS
      <4>6. q \in Low(t) .. t.outReliable /\ x.tag.seq = q /\ x = OnWire(g[q])
        BY <4>1, <4>2, <4>3, <4>5
      <4>9. q - Low(t) + 1 = l + 1
        BY <1>7, <2>3, <2>4, <4>5
      <4>8. ~Records(t)[q - Low(t) + 1].acked /\ Records(t)[q - Low(t) + 1].packet = k
        BY <2>2, <2>5, <4>5, <4>9
      <4>7. BunchOK(t, g, k, x)
        BY <4>1, <4>6, <4>8 DEF BunchOK
      <4> QED
        BY <4>5, <4>7
    <3> SUFFICES ASSUME NEW k \in Taken(r) .. t.unnotified + 1, NEW j \in DOMAIN Carries(t, r, k)
                 PROVE  BunchOK(t, g, k, Carries(t, r, k)[j])
      BY DEF InFlight
    <3>3. CASE k \in Taken(r) .. s.unnotified
      <4>1. Carries(t, r, k) = Carries(s, r, k) /\ k \in Taken(r) .. s.unnotified + 1
        BY <1>7, <1>8, <3>3
      <4>2. BunchOK(s, h, k, Carries(t, r, k)[j])
        BY <1>6, <4>1 DEF InFlight
      <4> QED
        BY <3>1, <4>1, <4>2
    <3>4. CASE k = s.unnotified + 1
      <4>1. Carries(t, r, k) = Append(s.sendBuffer, x) /\ Carries(s, r, k) = s.sendBuffer
        BY <1>8, <3>4
      <4>2. k \in Taken(r) .. s.unnotified + 1
        BY <1>7, <3>4
      <4>3. s.sendBuffer \in Seq(Bunch) /\ DOMAIN s.sendBuffer = 1 .. Len(s.sendBuffer) /\ Len(s.sendBuffer) \in Nat
        BY EndTypes
      <4>4. /\ DOMAIN Append(s.sendBuffer, x) = 1 .. Len(s.sendBuffer) + 1
            /\ \A i \in 1 .. Len(s.sendBuffer) : Append(s.sendBuffer, x)[i] = s.sendBuffer[i]
            /\ Append(s.sendBuffer, x)[Len(s.sendBuffer) + 1] = x
        BY <1>4, <4>3, AppendProperties
      <4>5. CASE j \in 1 .. Len(s.sendBuffer)
        <5>1. Carries(t, r, k)[j] = Carries(s, r, k)[j] /\ j \in DOMAIN Carries(s, r, k)
          BY <4>1, <4>3, <4>4, <4>5
        <5>2. BunchOK(s, h, k, Carries(t, r, k)[j])
          BY <1>6, <4>2, <5>1 DEF InFlight
        <5> QED
          BY <3>1, <4>2, <5>2
      <4>6. CASE j = Len(s.sendBuffer) + 1
        BY <3>2, <3>4, <4>1, <4>4, <4>6
      <4> QED
        BY <4>1, <4>3, <4>4, <4>5, <4>6
    <3> QED
      BY <1>1, <1>7, <3>3, <3>4
  <2>9. Queued(t, r, g)
    <3>1. \A i \in DOMAIN Queue(r) :
            /\ Queue(r)[i].seq \in r.inReliable + 1 .. t.outReliable
            /\ Queue(r)[i] = g[Queue(r)[i].seq]
      <4> TAKE i \in DOMAIN Queue(r)
      <4>1. Queue(r)[i].seq \in r.inReliable + 1 .. s.outReliable /\ Queue(r)[i] = h[Queue(r)[i].seq]
        BY <1>6 DEF Queued
      <4>2. PICK q : q = Queue(r)[i].seq
        OBVIOUS
      <4>3. q \in Nat /\ q # s.outReliable + 1 /\ q \in r.inReliable + 1 .. t.outReliable
        BY <1>7, <2>1, <4>1, <4>2
      <4> QED
        BY <1>5, <4>1, <4>2, <4>3
    <3>2. Holding(s, r) => Holding(t, r)
      <4> SUFFICES ASSUME Holding(s, r) PROVE Holding(t, r)
        OBVIOUS
      <4>1. PICK i \in DOMAIN Records(s) :
              ~Records(s)[i].acked /\ Records(s)[i].packet = Taken(r) /\ Records(s)[i].bunch.seq <= r.inReliable
        BY DEF Holding
      <4>2. i \in DOMAIN Records(t) /\ Records(t)[i] = Records(s)[i]
        BY <1>7, <2>2, <4>1
      <4> QED
        BY <4>1, <4>2 DEF Holding
    <3> QED
      BY <1>1, <1>6, <3>1, <3>2 DEF Queued
  <2> QED
    BY <1>8, <2>6, <2>7, <2>8, <2>9 DEF Line
<1>10. CASE ~bunch.rel
  <2>1. Records(t) = Records(s) /\ t.outReliable = s.outReliable /\ g = h
    BY <1>10, NumbersType DEF Prepared, Records
  <2>2. Low(t) = Low(s)
    BY <1>1, <2>1 DEF Low
  <2>3. Numbered(t, r, g)
    BY <1>1, <1>6, <2>1, <2>2 DEF Numbered
  <2>4. Recorded(t, r)
    <3> SUFFICES ASSUME NEW i \in DOMAIN Records(t) PROVE RecordOK(t, r, Records(t)[i])
      BY DEF Recorded
    <3>1. Records(t)[i] \in OutBunch /\ RecordOK(s, r, Records(t)[i])
      BY <1>6, <2>1, RecordIn DEF Recorded
    <3> QED
      BY <1>1, <1>6, <1>8, <3>1, RecordStays
  <2>5. InFlight(t, r, g)
    <3>1. \A k, y : BunchOK(s, h, k, y) => BunchOK(t, g, k, y)
      BY <1>1, <2>1, <2>2 DEF BunchOK
    <3>2. \A k : BunchOK(t, g, k, x)
      BY <1>4, <1>10 DEF BunchOK
    <3> SUFFICES ASSUME NEW k \in Taken(r) .. t.unnotified + 1, NEW j \in DOMAIN Carries(t, r, k)
                 PROVE  BunchOK(t, g, k, Carries(t, r, k)[j])
      BY DEF InFlight
    <3>3. CASE k \in Taken(r) .. s.unnotified
      <4>1. Carries(t, r, k) = Carries(s, r, k) /\ k \in Taken(r) .. s.unnotified + 1
        BY <1>7, <1>8, <3>3
      <4> QED
        BY <1>6, <3>1, <4>1 DEF InFlight
    <3>4. CASE k = s.unnotified + 1
      <4>1. Carries(t, r, k) = Append(s.sendBuffer, x) /\ Carries(s, r, k) = s.sendBuffer
        BY <1>8, <3>4
      <4>2. k \in Taken(r) .. s.unnotified + 1
        BY <1>7, <3>4
      <4>3. s.sendBuffer \in Seq(Bunch) /\ DOMAIN s.sendBuffer = 1 .. Len(s.sendBuffer) /\ Len(s.sendBuffer) \in Nat
        BY EndTypes
      <4>4. /\ DOMAIN Append(s.sendBuffer, x) = 1 .. Len(s.sendBuffer) + 1
            /\ \A i \in 1 .. Len(s.sendBuffer) : Append(s.sendBuffer, x)[i] = s.sendBuffer[i]
            /\ Append(s.sendBuffer, x)[Len(s.sendBuffer) + 1] = x
        BY <1>4, <4>3, AppendProperties
      <4>5. CASE j \in 1 .. Len(s.sendBuffer)
        <5>1. Carries(t, r, k)[j] = Carries(s, r, k)[j] /\ j \in DOMAIN Carries(s, r, k)
          BY <4>1, <4>3, <4>4, <4>5
        <5> QED
          BY <1>6, <3>1, <4>2, <5>1 DEF InFlight
      <4>6. CASE j = Len(s.sendBuffer) + 1
        BY <3>2, <4>1, <4>4, <4>6
      <4> QED
        BY <4>1, <4>3, <4>4, <4>5, <4>6
    <3> QED
      BY <1>1, <1>7, <3>3, <3>4
  <2>6. Queued(t, r, g)
    <3>1. Holding(s, r) => Holding(t, r)
      BY <2>1 DEF Holding
    <3> QED
      BY <1>1, <1>6, <2>1, <3>1 DEF Queued
  <2> QED
    BY <1>8, <2>3, <2>4, <2>5, <2>6 DEF Line
<1> QED
  BY <1>9, <1>10

-----------------------------------------------------------------------------
(* Steps of a receiver.                                                    *)

\* The number of a bunch that is kept.
LEMMA RecordNumber ==
  ASSUME NEW s \in End, NEW r \in End, NEW h \in History, Numbered(s, r, h),
         NEW i \in DOMAIN Records(s), NEW q, q = Low(s) + i - 1
  PROVE  /\ q \in Low(s) .. s.outReliable /\ q \in Nat /\ s.pendingOutRec = 0
         /\ Records(s)[i].bunch = h[q] /\ WellFormed(h[q], q)
         /\ Records(s)[i].bunch.seq = q
<1>1. /\ Len(Records(s)) \in Nat /\ DOMAIN Records(s) = 1 .. Len(Records(s)) /\ Low(s) \in Int
      /\ s.outReliable \in Nat /\ s.pendingOutRec \in Nat
      /\ s.pendingOutRec = 0 => Low(s) = s.outReliable + 1 - Len(Records(s))
  BY Lengths, EndTypes
<1>2. s.pendingOutRec = 0
  <2>1. Records(s) # <<>>
    BY <1>1
  <2> QED
    BY <2>1 DEF Numbered
<1>3. Low(s) >= 1
  BY DEF Numbered
<1>4. q \in Low(s) .. s.outReliable /\ q \in Nat
  BY <1>1, <1>2, <1>3
<1>5. Records(s)[i].bunch = h[q] /\ WellFormed(h[q], q)
  BY <1>4 DEF Numbered
<1> QED
  BY <1>2, <1>4, <1>5 DEF WellFormed

\* The j-th bunch that is being received.
Flies(r, j, b, q) ==
  j \in DOMAIN r.receiving.bunches /\ b = r.receiving.bunches[j] /\ q = b.tag.seq

\* What a reliable one carries is the bunch of its number.
IsNumbered(s, h, b, q) ==
  /\ q \in Low(s) .. s.outReliable /\ q \in Nat
  /\ b = OnWire(h[q]) /\ WellFormed(h[q], q) /\ h[q] \in Bunch

LEMMA FliesNumber ==
  ASSUME NEW s \in End, NEW r \in End, NEW h \in History, Line(s, r, h),
         NEW j, NEW b, NEW q, Flies(r, j, b, q)
  PROVE  /\ b \in Bunch /\ BunchOK(s, h, Taken(r), b)
         /\ b.rel => IsNumbered(s, h, b, q)
<1>1. Accounted(s, r) /\ InFlight(s, r, h) /\ Numbered(s, r, h)
  BY DEF Line
<1>2. /\ Carries(s, r, Taken(r)) = r.receiving.bunches /\ Taken(r) <= s.unnotified
      /\ Taken(r) \in Nat /\ s.unnotified \in Nat
  BY <1>1, Carried, Lengths, EndTypes
<1>3. Taken(r) \in Taken(r) .. s.unnotified + 1
  BY <1>2
<1>4. BunchOK(s, h, Taken(r), b)
  BY <1>1, <1>2, <1>3 DEF InFlight, Flies
<1>5. b \in Bunch
  BY EndTypes DEF Flies
<1>6. ASSUME b.rel PROVE IsNumbered(s, h, b, q)
  <2>1. q \in Low(s) .. s.outReliable /\ b = OnWire(h[q])
    BY <1>4, <1>6 DEF BunchOK, Flies
  <2>2. Low(s) >= 1 /\ WellFormed(h[q], q)
    BY <1>1, <2>1 DEF Numbered
  <2>3. Low(s) \in Int /\ s.outReliable \in Nat
    BY Lengths, EndTypes
  <2>4. q \in Nat
    BY <2>1, <2>2, <2>3
  <2>5. h[q] \in Bunch
    BY <2>4 DEF History
  <2> QED
    BY <2>1, <2>2, <2>4, <2>5 DEF IsNumbered
<1> QED
  BY <1>4, <1>5, <1>6

\* What a receiver keeps while it works through a packet.
Receives(r, t) ==
  /\ t \in End /\ t.fates = r.fates
  /\ r.receiving.busy /\ t.receiving.busy /\ t.receiving.lost = r.receiving.lost
  /\ r.receiving.skipAck => t.receiving.skipAck
  /\ \A j \in DOMAIN t.receiving.bunches : Within(t.receiving.bunches[j], r.receiving.bunches)

\* What it takes out of the packet, it has.
TakesIn(s, r, t) ==
  \A i \in DOMAIN r.receiving.bunches :
    \/ Within(r.receiving.bunches[i], t.receiving.bunches)
    \/ r.receiving.bunches[i].rel => Has(t, r.receiving.bunches[i].tag.seq)
    \/ Records(s) = <<>>

LEMMA LineReceived ==
  ASSUME NEW s \in End, NEW r \in End, NEW h \in History, Line(s, r, h),
         NEW t, Receives(r, t), TakesIn(s, r, t),
         t.inReliable >= r.inReliable, t.inReliable <= s.outReliable,
         \A q \in Nat : Has(r, q) => Has(t, q),
         Queued(s, t, h)
  PROVE  Line(s, t, h)
<1>1. t \in End /\ Taken(t) = Taken(r)
  BY DEF Receives, Taken
<1>2. /\ Accounted(s, r) /\ Numbered(s, r, h) /\ Recorded(s, r) /\ InFlight(s, r, h)
      /\ Queued(s, r, h) /\ Room(s)
  BY DEF Line
<1>3. Accounted(s, t)
  BY <1>1, <1>2 DEF Accounted, Receives
<1>4. Numbered(s, t, h)
  <2>1. Low(s) - 1 <= r.inReliable /\ Low(s) \in Int /\ r.inReliable \in Nat /\ t.inReliable \in Nat
    BY <1>1, <1>2, Lengths, EndTypes DEF Numbered
  <2>2. Low(s) - 1 <= t.inReliable
    BY <2>1
  <2> QED
    BY <1>2, <2>2 DEF Numbered
<1>5. \A k \in Taken(r) + 1 .. s.unnotified + 1 : Carries(s, t, k) = Carries(s, r, k)
  <2>1. Taken(r) \in Nat /\ s.unnotified \in Nat
    BY Lengths, EndTypes
  <2>2. \A k \in Taken(r) + 1 .. s.unnotified + 1 : k > Taken(r)
    BY <2>1
  <2> QED
    BY <1>1, <2>2 DEF Carries
<1>6. Carries(s, t, Taken(r)) = t.receiving.bunches /\ Carries(s, r, Taken(r)) = r.receiving.bunches
  BY <1>1, <1>2, <1>3, Carried
<1>7. Recorded(s, t)
  <2> SUFFICES ASSUME NEW i \in DOMAIN Records(s) PROVE RecordOK(s, t, Records(s)[i])
    BY DEF Recorded
  <2>1. PICK o : o = Records(s)[i]
    OBVIOUS
  <2>2. /\ RecordOK(s, r, o) /\ o \in OutBunch /\ o.bunch \in Bunch /\ o.packet \in Nat /\ o.acked \in BOOLEAN
        /\ o.bunch.seq \in Nat
    BY <1>2, <2>1, RecordIn DEF Recorded, Bunch
  <2>3. /\ o.bunch.rel /\ o.bunch.tag.seq = o.bunch.seq
    <3>1. PICK q : q = Low(s) + i - 1
      OBVIOUS
    <3> QED
      BY <1>2, <2>1, <3>1, RecordNumber DEF WellFormed
  <2>4. o.acked \/ (o.packet \in 1 .. Len(t.fates) /\ t.fates[o.packet]) => Has(t, o.bunch.seq)
    BY <2>2 DEF RecordOK, Receives
  <2>5. ASSUME o.packet > Taken(t) PROVE Within(OnWire(o.bunch), Carries(s, t, o.packet))
    <3>1. Taken(r) \in Nat /\ s.unnotified \in Nat
      BY Lengths, EndTypes
    <3>2. ~o.acked /\ o.packet \in Taken(r) + 1 .. s.unnotified + 1
      BY <1>1, <2>2, <2>5, <3>1 DEF RecordOK
    <3> QED
      BY <1>1, <1>5, <2>2, <2>5, <3>2 DEF RecordOK
  <2>6. ASSUME o.packet = Taken(t)
        PROVE  \/ Within(OnWire(o.bunch), t.receiving.bunches)
               \/ Has(t, o.bunch.seq)
               \/ t.receiving.skipAck
    <3>1. CASE Within(OnWire(o.bunch), r.receiving.bunches)
      <4>1. PICK j \in DOMAIN r.receiving.bunches : r.receiving.bunches[j] = OnWire(o.bunch)
        BY <3>1 DEF Within
      <4>2. OnWire(o.bunch).rel /\ OnWire(o.bunch).tag.seq = o.bunch.seq
        BY <2>2, <2>3, OnWireType
      <4>3. Records(s) # <<>>
        BY Lengths
      <4> QED
        BY <4>1, <4>2, <4>3 DEF TakesIn
    <3>2. CASE Has(r, o.bunch.seq)
      BY <2>2, <3>2
    <3>3. CASE r.receiving.skipAck
      BY <3>3 DEF Receives
    <3> QED
      BY <1>1, <2>2, <2>6, <3>1, <3>2, <3>3 DEF RecordOK, Receives
  <2>7. RecordOK(s, t, o)
    BY <2>2, <2>4, <2>5, <2>6 DEF RecordOK
  <2> QED
    BY <2>1, <2>7
<1>8. InFlight(s, t, h)
  <2> SUFFICES ASSUME NEW k \in Taken(t) .. s.unnotified + 1, NEW j \in DOMAIN Carries(s, t, k)
               PROVE  BunchOK(s, h, k, Carries(s, t, k)[j])
    BY DEF InFlight
  <2>1. Taken(r) \in Nat /\ s.unnotified \in Nat
    BY Lengths, EndTypes
  <2>2. CASE k = Taken(r)
    <3>1. PICK i \in DOMAIN r.receiving.bunches : r.receiving.bunches[i] = Carries(s, t, k)[j]
      BY <1>6, <2>2 DEF Receives, Within
    <3> QED
      BY <1>1, <1>2, <1>6, <2>2, <3>1 DEF InFlight
  <2>3. CASE k \in Taken(r) + 1 .. s.unnotified + 1
    BY <1>1, <1>2, <1>5, <2>3 DEF InFlight
  <2> QED
    BY <1>1, <2>1, <2>2, <2>3
<1> QED
  BY <1>2, <1>3, <1>4, <1>7, <1>8 DEF Line

Inserted(a, x, n) == SubSeq(a, 1, n) \o <<x>> \o SubSeq(a, n + 1, Len(a))

LEMMA InsertProps ==
  ASSUME NEW S, NEW a \in Seq(S), NEW x \in S, NEW n \in 0 .. Len(a),
         NEW c, c = Inserted(a, x, n)
  PROVE  /\ Len(c) = Len(a) + 1
         /\ \A i \in 1 .. n : c[i] = a[i]
         /\ c[n + 1] = x
         /\ \A i \in n + 2 .. Len(a) + 1 : c[i] = a[i - 1]
<1>1. Len(a) \in Nat /\ n \in Nat /\ n <= Len(a)
  OBVIOUS
<1>2. PICK f : f = SubSeq(a, 1, n)
  OBVIOUS
<1>3. PICK g : g = SubSeq(a, n + 1, Len(a))
  OBVIOUS
<1>4. f \in Seq(S) /\ Len(f) = n /\ \A i \in 1 .. n : f[i] = a[i]
  <2>1. \A i \in 1 .. n : a[i] \in S
    BY <1>1
  <2>2. /\ SubSeq(a, 1, n) \in Seq(S)
        /\ Len(SubSeq(a, 1, n)) = IF 1 <= n THEN n - 1 + 1 ELSE 0
        /\ \A i \in 1 .. n - 1 + 1 : SubSeq(a, 1, n)[i] = a[1 + i - 1]
    BY <1>1, <2>1, SubSeqProperties
  <2>3. \A i \in 1 .. n : SubSeq(a, 1, n)[i] = a[i]
    <3> TAKE i \in 1 .. n
    <3>1. i \in 1 .. n - 1 + 1 /\ 1 + i - 1 = i
      BY <1>1
    <3> QED
      BY <2>2, <3>1
  <2> QED
    BY <1>1, <1>2, <2>2, <2>3
<1>5. g \in Seq(S) /\ Len(g) = Len(a) - n /\ \A i \in 1 .. Len(a) - n : g[i] = a[n + i]
  <2>1. \A i \in n + 1 .. Len(a) : a[i] \in S
    BY <1>1
  <2>2. n + 1 \in Int /\ Len(a) \in Int
    BY <1>1
  <2>3. /\ SubSeq(a, n + 1, Len(a)) \in Seq(S)
        /\ Len(SubSeq(a, n + 1, Len(a))) = IF n + 1 <= Len(a) THEN Len(a) - (n + 1) + 1 ELSE 0
        /\ \A i \in 1 .. Len(a) - (n + 1) + 1 : SubSeq(a, n + 1, Len(a))[i] = a[(n + 1) + i - 1]
    BY <2>1, <2>2, SubSeqProperties
  <2>4. \A i \in 1 .. Len(a) - n : SubSeq(a, n + 1, Len(a))[i] = a[n + i]
    <3> TAKE i \in 1 .. Len(a) - n
    <3>1. i \in 1 .. Len(a) - (n + 1) + 1 /\ (n + 1) + i - 1 = n + i
      BY <1>1
    <3> QED
      BY <2>3, <3>1
  <2>5. Len(SubSeq(a, n + 1, Len(a))) = Len(a) - n
    BY <1>1, <2>3
  <2> QED
    BY <1>3, <2>3, <2>4, <2>5
<1>6. <<x>> \in Seq(S) /\ Len(<<x>>) = 1 /\ <<x>>[1] = x
  OBVIOUS
<1>7. PICK d : d = f \o <<x>>
  OBVIOUS
<1>8. d \in Seq(S) /\ Len(d) = n + 1 /\ (\A i \in 1 .. n : d[i] = a[i]) /\ d[n + 1] = x
  <2>1. /\ f \o <<x>> \in Seq(S) /\ Len(f \o <<x>>) = Len(f) + Len(<<x>>)
        /\ \A i \in 1 .. Len(f) + Len(<<x>>) :
             (f \o <<x>>)[i] = IF i <= Len(f) THEN f[i] ELSE <<x>>[i - Len(f)]
    BY <1>4, <1>6, ConcatProperties
  <2>2. \A i \in 1 .. n : d[i] = a[i]
    BY <1>1, <1>4, <1>6, <1>7, <2>1
  <2>3. d[n + 1] = x
    <3>1. n + 1 \in 1 .. Len(f) + Len(<<x>>) /\ ~(n + 1 <= Len(f)) /\ n + 1 - Len(f) = 1
      BY <1>1, <1>4, <1>6
    <3> QED
      BY <1>6, <1>7, <2>1, <3>1
  <2> QED
    BY <1>4, <1>6, <1>7, <2>1, <2>2, <2>3
<1>9. c = d \o g
  BY <1>2, <1>3, <1>7 DEF Inserted
<1>10. /\ Len(c) = Len(d) + Len(g)
       /\ \A i \in 1 .. Len(d) + Len(g) : c[i] = IF i <= Len(d) THEN d[i] ELSE g[i - Len(d)]
  <2>1. /\ Len(d \o g) = Len(d) + Len(g)
        /\ \A i \in 1 .. Len(d) + Len(g) : (d \o g)[i] = IF i <= Len(d) THEN d[i] ELSE g[i - Len(d)]
    BY <1>5, <1>8, ConcatProperties
  <2> QED
    BY <1>9, <2>1
<1>11. Len(d) + Len(g) = Len(a) + 1
  BY <1>1, <1>5, <1>8
<1>12. \A i \in 1 .. n : c[i] = a[i]
  <2> TAKE i \in 1 .. n
  <2>1. i \in 1 .. Len(d) + Len(g) /\ i <= Len(d)
    BY <1>1, <1>8, <1>11
  <2> QED
    BY <1>8, <1>10, <2>1
<1>13. c[n + 1] = x
  <2>1. n + 1 \in 1 .. Len(d) + Len(g) /\ n + 1 <= Len(d)
    BY <1>1, <1>8, <1>11
  <2> QED
    BY <1>8, <1>10, <2>1
<1>14. \A i \in n + 2 .. Len(a) + 1 : c[i] = a[i - 1]
  <2> TAKE i \in n + 2 .. Len(a) + 1
  <2>1. /\ i \in 1 .. Len(d) + Len(g) /\ ~(i <= Len(d)) /\ i - Len(d) \in 1 .. Len(a) - n
        /\ n + (i - Len(d)) = i - 1
    BY <1>1, <1>8, <1>11
  <2> QED
    BY <1>5, <1>10, <2>1
<1> QED
  BY <1>10, <1>11, <1>12, <1>13, <1>14

\* The bunch that is next in turn is taken out of the packet.
LEMMA QueuedNext ==
  ASSUME NEW s \in End, NEW r \in End, NEW h \in History, Line(s, r, h),
         NEW t, t \in End, r.receiving.busy, t.receiving.busy, Taken(t) = Taken(r),
         Queue(t) = Queue(r), ~Ready(r), t.inReliable = r.inReliable + 1,
         NEW j \in DOMAIN r.receiving.bunches, NEW b, b = r.receiving.bunches[j], b.rel,
         b.tag.seq = t.inReliable
  PROVE  Queued(s, t, h) /\ t.inReliable <= s.outReliable
<1>1. r.inReliable \in Nat /\ s.outReliable \in Nat /\ Low(s) \in Int /\ t.inReliable \in Nat
  BY Lengths, EndTypes
<1>2. PICK q : q = t.inReliable
  OBVIOUS
<1>3. BunchOK(s, h, Taken(r), b) /\ q \in Low(s) .. s.outReliable
  <2>1. Flies(r, j, b, q)
    BY <1>2 DEF Flies
  <2>2. BunchOK(s, h, Taken(r), b) /\ IsNumbered(s, h, b, q)
    BY <2>1, FliesNumber
  <2> QED
    BY <2>2 DEF IsNumbered
<1>4. Len(Queue(r)) \in Nat /\ DOMAIN Queue(r) = 1 .. Len(Queue(r))
  BY Lengths
<1>5. \A i \in DOMAIN Queue(r) : /\ Queue(r)[i].seq \in r.inReliable + 1 .. s.outReliable
                                 /\ Queue(r)[i] = h[Queue(r)[i].seq]
  BY DEF Line, Queued
<1>6. \A i, k \in DOMAIN Queue(r) : i < k => Queue(r)[i].seq < Queue(r)[k].seq
  BY DEF Line, Queued
<1>7. \A i \in DOMAIN Queue(r) : Queue(r)[i].seq \in t.inReliable + 1 .. s.outReliable
  <2> TAKE i \in DOMAIN Queue(r)
  <2>1. 1 \in DOMAIN Queue(r) /\ Queue(r) # <<>>
    BY <1>4
  <2>2. Queue(r)[1].seq # r.inReliable + 1 /\ Queue(r)[1].seq \in r.inReliable + 1 .. s.outReliable
    BY <1>5, <2>1 DEF Ready
  <2>3. i = 1 \/ Queue(r)[1].seq < Queue(r)[i].seq
    BY <1>4, <1>6, <2>1
  <2>4. Queue(r)[i].seq \in r.inReliable + 1 .. s.outReliable
    BY <1>5
  <2> QED
    BY <1>1, <2>2, <2>3, <2>4
<1>8. ASSUME s.pendingOutRec = 0 PROVE Holding(s, t)
  <2>1. PICK i : i = q - Low(s) + 1
    OBVIOUS
  <2>2. ~Records(s)[i].acked /\ Records(s)[i].packet = Taken(r)
    BY <1>2, <1>3, <1>8, <2>1 DEF BunchOK
  <2>3. i \in DOMAIN Records(s) /\ q = Low(s) + i - 1
    <3>1. /\ Len(Records(s)) \in Nat /\ DOMAIN Records(s) = 1 .. Len(Records(s))
          /\ Low(s) = s.outReliable + 1 - Len(Records(s))
      BY <1>8, Lengths
    <3>2. q \in Low(s) .. s.outReliable
      BY <1>3
    <3>3. i \in 1 .. Len(Records(s)) /\ q = Low(s) + i - 1
      BY <1>1, <2>1, <3>1, <3>2, SMTT(30)
    <3> QED
      BY <3>1, <3>3
  <2>4. Records(s)[i].bunch.seq = q
    BY <2>3, RecordNumber DEF Line
  <2>5. Records(s)[i].bunch.seq <= t.inReliable
    BY <1>1, <1>2, <2>4
  <2> QED
    BY <2>2, <2>3, <2>5 DEF Holding
<1>9. t.inReliable <= s.outReliable
  BY <1>1, <1>2, <1>3
<1>10. Queued(s, t, h)
  BY <1>5, <1>6, <1>7, <1>8 DEF Queued
<1> QED
  BY <1>9, <1>10

\* The bunch that is next in turn is taken out of InRec.
LEMMA QueuedTail ==
  ASSUME NEW s \in End, NEW r \in End, NEW h \in History, Line(s, r, h),
         NEW t, t \in End, r.receiving.busy, t.receiving.busy, Taken(t) = Taken(r),
         Queue(t) = Tail(Queue(r)), Ready(r), t.inReliable = r.inReliable + 1
  PROVE  /\ Queued(s, t, h) /\ t.inReliable <= s.outReliable
         /\ \A q \in Nat : Has(r, q) => Has(t, q)
<1>1. r.inReliable \in Nat /\ s.outReliable \in Nat /\ t.inReliable \in Nat
  BY EndTypes
<1>2. Len(Queue(r)) \in Nat /\ DOMAIN Queue(r) = 1 .. Len(Queue(r)) /\ Queue(r) \in Seq(Bunch)
  BY Lengths, EndTypes
<1>3. Queue(r) # <<>> /\ Queue(r)[1].seq = r.inReliable + 1
  BY DEF Ready
<1>4. Len(Queue(r)) >= 1
  BY <1>2, <1>3
<1>5. /\ DOMAIN Queue(t) = 1 .. Len(Queue(r)) - 1
      /\ \A i \in 1 .. Len(Queue(r)) - 1 : Queue(t)[i] = Queue(r)[i + 1]
  <2>1. PICK a \in Seq(Bunch) : a = Queue(r)
    BY <1>2
  <2>2. PICK c : c = Tail(a)
    OBVIOUS
  <2>3. a # <<>>
    BY <1>3, <2>1
  <2>4. c \in Seq(Bunch) /\ Len(c) = Len(a) - 1 /\ \A i \in 1 .. Len(a) - 1 : c[i] = a[i + 1]
    BY <2>2, <2>3
  <2>5. DOMAIN c = 1 .. Len(a) - 1
    BY <2>4
  <2> QED
    BY <2>1, <2>2, <2>4, <2>5
<1>6. \A i \in DOMAIN Queue(r) : /\ Queue(r)[i].seq \in r.inReliable + 1 .. s.outReliable
                                 /\ Queue(r)[i] = h[Queue(r)[i].seq]
  BY DEF Line, Queued
<1>7. \A i, k \in DOMAIN Queue(r) : i < k => Queue(r)[i].seq < Queue(r)[k].seq
  BY DEF Line, Queued
<1>8. \A i \in DOMAIN Queue(t) : /\ Queue(t)[i].seq \in t.inReliable + 1 .. s.outReliable
                                 /\ Queue(t)[i] = h[Queue(t)[i].seq]
  <2> TAKE i \in DOMAIN Queue(t)
  <2>1. i + 1 \in DOMAIN Queue(r) /\ 1 \in DOMAIN Queue(r) /\ 1 < i + 1 /\ Queue(t)[i] = Queue(r)[i + 1]
    BY <1>2, <1>5
  <2>2. Queue(r)[1].seq < Queue(r)[i + 1].seq
    BY <1>7, <2>1
  <2>3. Queue(r)[i + 1].seq \in r.inReliable + 1 .. s.outReliable /\ Queue(r)[i + 1] = h[Queue(r)[i + 1].seq]
    BY <1>6, <2>1
  <2> QED
    BY <1>1, <1>3, <2>1, <2>2, <2>3
<1>9. \A i, k \in DOMAIN Queue(t) : i < k => Queue(t)[i].seq < Queue(t)[k].seq
  <2> TAKE i, k \in DOMAIN Queue(t)
  <2> HAVE i < k
  <2>1. i + 1 \in DOMAIN Queue(r) /\ k + 1 \in DOMAIN Queue(r) /\ i + 1 < k + 1
    BY <1>2, <1>5
  <2>2. Queue(r)[i + 1].seq < Queue(r)[k + 1].seq
    BY <1>7, <2>1
  <2> QED
    BY <1>5, <2>2
<1>10. t.inReliable <= s.outReliable
  BY <1>1, <1>2, <1>3, <1>4, <1>6
<1>11. ASSUME s.pendingOutRec = 0 PROVE Holding(s, t)
  <2>1. Holding(s, r)
    BY <1>11 DEF Line, Queued
  <2>2. PICK i \in DOMAIN Records(s) :
          ~Records(s)[i].acked /\ Records(s)[i].packet = Taken(r) /\ Records(s)[i].bunch.seq <= r.inReliable
    BY <2>1 DEF Holding
  <2>3. Records(s)[i].bunch.seq \in Nat
    BY RecordIn DEF Bunch
  <2>4. Records(s)[i].bunch.seq <= t.inReliable
    BY <1>1, <2>2, <2>3
  <2> QED
    BY <2>2, <2>4 DEF Holding
<1>12. ASSUME NEW q \in Nat, Has(r, q) PROVE Has(t, q)
  <2>1. CASE q <= r.inReliable
    <3>1. q <= t.inReliable
      BY <1>1, <2>1
    <3> QED
      BY <3>1 DEF Has
  <2>2. CASE \E i \in DOMAIN Queue(r) : Queue(r)[i].seq = q
    <3>1. PICK i \in DOMAIN Queue(r) : Queue(r)[i].seq = q
      BY <2>2
    <3>2. CASE i = 1
      <4>1. q <= t.inReliable
        BY <1>1, <1>3, <3>1, <3>2
      <4> QED
        BY <4>1 DEF Has
    <3>3. CASE i # 1
      <4>1. i - 1 \in DOMAIN Queue(t) /\ Queue(t)[i - 1] = Queue(r)[(i - 1) + 1] /\ (i - 1) + 1 = i
        BY <1>2, <1>5, <3>1, <3>3
      <4>2. Queue(t)[i - 1].seq = q
        BY <3>1, <4>1
      <4> QED
        BY <4>1, <4>2 DEF Has
    <3> QED
      BY <3>2, <3>3
  <2> QED
    BY <1>12, <2>1, <2>2 DEF Has
<1>13. Queued(s, t, h)
  BY <1>8, <1>9, <1>11 DEF Queued
<1> QED
  BY <1>10, <1>12, <1>13

\* Bunch b with number q is put behind the first n of InRec.
Waits(s, r, h, b, q, n, t) ==
  /\ t \in End /\ t.inReliable = r.inReliable /\ ~Ready(r) /\ b \in Bunch /\ q \in Nat
  /\ b = h[q] /\ b.seq = q /\ q > r.inReliable + 1 /\ q <= s.outReliable
  /\ n \in 0 .. Len(Queue(r))
  /\ \A i \in 1 .. n : Queue(r)[i].seq < q
  /\ n < Len(Queue(r)) => Queue(r)[n + 1].seq > q
  /\ Queue(t) = SubSeq(Queue(r), 1, n) \o <<b>> \o SubSeq(Queue(r), n + 1, Len(Queue(r)))

\* A bunch that is not in turn waits in InRec.
LEMMA QueuedInsert ==
  ASSUME NEW s \in End, NEW r \in End, NEW h \in History, Line(s, r, h),
         NEW b, NEW q, NEW n, NEW t, Waits(s, r, h, b, q, n, t)
  PROVE  /\ Queued(s, t, h)
         /\ \A k \in Nat : Has(r, k) => Has(t, k)
         /\ Has(t, q)
<1> t \in End /\ t.inReliable = r.inReliable /\ ~Ready(r)
  BY DEF Waits
<1> b \in Bunch
  BY DEF Waits
<1> q \in Nat
  BY DEF Waits
<1> n \in 0 .. Len(Queue(r))
  BY DEF Waits
<1> b = h[q] /\ b.seq = q /\ q > r.inReliable + 1 /\ q <= s.outReliable
  BY DEF Waits
<1> \A i \in 1 .. n : Queue(r)[i].seq < q
  BY DEF Waits
<1> n < Len(Queue(r)) => Queue(r)[n + 1].seq > q
  BY DEF Waits
<1> Queue(t) = SubSeq(Queue(r), 1, n) \o <<b>> \o SubSeq(Queue(r), n + 1, Len(Queue(r)))
  BY DEF Waits
<1>1. r.inReliable \in Nat /\ s.outReliable \in Nat
  BY EndTypes
<1>a. PICK a \in Seq(Bunch) : a = Queue(r)
  BY EndTypes
<1>b. PICK c : c = Queue(t)
  OBVIOUS
<1>2. PICK l \in Nat : l = Len(a)
  BY <1>a
<1>3. /\ DOMAIN a = 1 .. l /\ DOMAIN c = 1 .. l + 1
      /\ \A i \in 1 .. n : c[i] = a[i]
      /\ c[n + 1] = b
      /\ \A i \in n + 2 .. l + 1 : c[i] = a[i - 1]
      /\ n \in 0 .. l
  <2>1. /\ Len(c) = Len(a) + 1
        /\ \A i \in 1 .. n : c[i] = a[i]
        /\ c[n + 1] = b
        /\ \A i \in n + 2 .. Len(a) + 1 : c[i] = a[i - 1]
    <3>1. c = Inserted(a, b, n)
      BY <1>a, <1>b DEF Inserted
    <3>2. PICK m \in 0 .. Len(a), x \in Bunch : m = n /\ x = b
      BY <1>a
    <3>3. c = Inserted(a, x, m)
      BY <3>1, <3>2
    <3>4. /\ Len(c) = Len(a) + 1
          /\ \A i \in 1 .. m : c[i] = a[i]
          /\ c[m + 1] = x
          /\ \A i \in m + 2 .. Len(a) + 1 : c[i] = a[i - 1]
      BY ONLY <3>3, InsertProps
    <3> QED
      BY <3>2, <3>4
  <2>2. c \in Seq(Bunch)
    BY <1>b, EndTypes
  <2>3. DOMAIN a = 1 .. l /\ DOMAIN c = 1 .. l + 1 /\ n \in 0 .. l
    BY <1>a, <1>2, <2>1, <2>2
  <2> QED
    BY <1>2, <2>1, <2>3
<1>4. \A i \in 1 .. l : /\ a[i].seq \in r.inReliable + 1 .. s.outReliable
                        /\ a[i] = h[a[i].seq]
  BY <1>a, <1>3 DEF Line, Queued
<1>5. \A i, k \in 1 .. l : i < k => a[i].seq < a[k].seq
  BY <1>a, <1>3 DEF Line, Queued
<1>6. \A i \in n + 1 .. l : a[i].seq > q
  <2> TAKE i \in n + 1 .. l
  <2>1. n < l /\ n + 1 \in 1 .. l /\ i \in 1 .. l
    BY <1>2, <1>3
  <2>2. a[n + 1].seq > q
    BY <1>a, <1>2, <2>1
  <2>3. i = n + 1 \/ a[n + 1].seq < a[i].seq
    BY <1>3, <1>5, <2>1
  <2>4. a[n + 1].seq \in Int /\ a[i].seq \in Int
    <3>1. \A k \in 1 .. l : a[k].seq \in Int
      BY <1>1, <1>4
    <3> QED
      BY <2>1, <3>1
  <2> QED
    BY <2>2, <2>3, <2>4
<1>7. \A i \in 1 .. l + 1 : i \in 1 .. n \/ i = n + 1 \/ (i \in n + 2 .. l + 1 /\ i - 1 \in n + 1 .. l)
  BY <1>3
<1>8. \A i \in DOMAIN c : /\ c[i].seq \in r.inReliable + 1 .. s.outReliable
                                 /\ c[i] = h[c[i].seq]
  <2> TAKE i \in DOMAIN c
  <2>1. CASE i \in 1 .. n
    <3>1. i \in 1 .. l
      BY <1>3, <2>1
    <3> QED
      BY <1>3, <1>4, <2>1, <3>1
  <2>2. CASE i = n + 1
    BY <1>1, <1>3, <2>2, SMTT(30)
  <2>3. CASE i \in n + 2 .. l + 1
    <3>1. i - 1 \in 1 .. l
      BY <1>3, <2>3
    <3> QED
      BY <1>3, <1>4, <2>3, <3>1
  <2> QED
    BY <1>3, <1>7, <2>1, <2>2, <2>3
<1>9. \A i, k \in DOMAIN c : i < k => c[i].seq < c[k].seq
  <2> TAKE i, k \in DOMAIN c
  <2> HAVE i < k
  <2>1. i \in 1 .. l + 1 /\ k \in 1 .. l + 1
    BY <1>3
  <2>2. CASE i \in 1 .. n /\ k \in 1 .. n
    <3>1. i \in 1 .. l /\ k \in 1 .. l
      BY <1>3, <2>2
    <3> QED
      BY <1>3, <1>5, <2>2, <3>1
  <2>3. CASE i \in 1 .. n /\ k = n + 1
    BY <1>a, <1>3, <2>3
  <2>4. CASE i \in 1 .. n /\ k \in n + 2 .. l + 1
    <3>1. i \in 1 .. l /\ k - 1 \in n + 1 .. l /\ k - 1 \in 1 .. l
      BY <1>3, <2>4
    <3>2. a[i].seq < q /\ a[k - 1].seq > q
      BY <1>a, <1>6, <2>4, <3>1
    <3>3. a[i].seq \in Int /\ a[k - 1].seq \in Int
      BY <1>1, <1>4, <3>1
    <3>4. a[i].seq < a[k - 1].seq
      BY <3>2, <3>3
    <3> QED
      BY <1>3, <2>4, <3>4
  <2>5. CASE i = n + 1 /\ k \in n + 2 .. l + 1
    <3>1. k - 1 \in n + 1 .. l /\ k - 1 \in 1 .. l
      BY <1>3, <2>5
    <3>2. a[k - 1].seq > q /\ a[k - 1].seq \in Int
      BY <1>1, <1>4, <1>6, <3>1
    <3>3. q < a[k - 1].seq
      BY <3>2
    <3> QED
      BY <1>3, <2>5, <3>3
  <2>6. CASE i \in n + 2 .. l + 1 /\ k \in n + 2 .. l + 1
    <3>1. i - 1 \in 1 .. l /\ k - 1 \in 1 .. l /\ i - 1 < k - 1
      BY <1>3, <2>6
    <3>2. a[i - 1].seq < a[k - 1].seq
      BY <1>5, <3>1
    <3> QED
      BY <1>3, <2>6, <3>2
  <2>7. ~(i = n + 1 /\ k \in 1 .. n) /\ ~(i = n + 1 /\ k = n + 1) /\ ~(i \in n + 2 .. l + 1 /\ k \in 1 .. n + 1)
    BY <1>3
  <2>8. \/ i \in 1 .. n /\ k \in 1 .. n
        \/ i \in 1 .. n /\ k = n + 1
        \/ i \in 1 .. n /\ k \in n + 2 .. l + 1
        \/ i = n + 1 /\ k \in n + 2 .. l + 1
        \/ i \in n + 2 .. l + 1 /\ k \in n + 2 .. l + 1
    <3>1. i \in 1 .. n \/ i = n + 1 \/ i \in n + 2 .. l + 1
      BY <1>7, <2>1
    <3>2. k \in 1 .. n \/ k = n + 1 \/ k \in n + 2 .. l + 1
      BY <1>7, <2>1
    <3>3. k \in 1 .. n \/ k = n + 1 => k \in 1 .. n + 1
      BY <1>3
    <3> QED
      BY <2>7, <3>1, <3>2, <3>3
  <2> QED
    BY <2>2, <2>3, <2>4, <2>5, <2>6, <2>8
<1>10. ~Ready(t)
  <2> SUFFICES ASSUME c[1].seq = r.inReliable + 1 PROVE FALSE
    BY <1>b DEF Ready
  <2>1. CASE n = 0
    BY <1>1, <1>3, <2>1
  <2>2. CASE n # 0
    <3>1. 1 \in 1 .. n /\ 1 \in 1 .. l
      BY <1>3, <2>2
    <3>2. a[1].seq = r.inReliable + 1
      BY <1>3, <3>1
    <3>3. a # <<>>
      BY <1>2, <3>1
    <3> QED
      BY <1>a, <3>2, <3>3 DEF Ready
  <2> QED
    BY <2>1, <2>2
<1>11. ASSUME NEW k \in Nat, Has(r, k) PROVE Has(t, k)
  <2>1. CASE k <= r.inReliable
    BY <2>1 DEF Has
  <2>2. CASE \E i \in DOMAIN a : a[i].seq = k
    <3>1. PICK i \in 1 .. l : a[i].seq = k
      BY <1>3, <2>2
    <3>2. CASE i \in 1 .. n
      <4>1. i \in DOMAIN c /\ c[i].seq = k
        BY <1>3, <3>1, <3>2
      <4> QED
        BY <1>b, <4>1 DEF Has
    <3>3. CASE ~(i \in 1 .. n)
      <4>1. i + 1 \in n + 2 .. l + 1 /\ i + 1 \in 1 .. l + 1 /\ (i + 1) - 1 = i
        BY <1>3, <3>1, <3>3
      <4>2. c[i + 1] = a[i]
        BY <1>3, <4>1
      <4>3. i + 1 \in DOMAIN c /\ c[i + 1].seq = k
        BY <1>3, <3>1, <4>1, <4>2
      <4> QED
        BY <1>b, <4>3 DEF Has
    <3> QED
      BY <3>2, <3>3
  <2> QED
    BY <1>a, <1>11, <2>1, <2>2 DEF Has
<1>12. Has(t, q)
  <2>1. n + 1 \in DOMAIN c /\ c[n + 1].seq = q
    BY <1>3
  <2> QED
    BY <1>b, <2>1 DEF Has
<1>13. Queued(s, t, h)
  BY <1>b, <1>8, <1>9, <1>10 DEF Queued
<1> QED
  BY <1>11, <1>12, <1>13

-----------------------------------------------------------------------------
(* The low bits of a number are enough.                                    *)

LEMMA DivMod ==
  ASSUME NEW n \in Int, NEW C \in Nat \ {0}
  PROVE  /\ n \div C \in Int
         /\ n % C \in 0 .. C - 1
         /\ n = C * (n \div C) + (n % C)
<1>1. C > 0
  OBVIOUS
<1>2. n \div C \in Int
  BY <1>1
<1>3. n % C \in 0 .. C - 1
  BY <1>1
<1>4. n = C * (n \div C) + (n % C)
  BY <1>1
<1> QED
  BY <1>2, <1>3, <1>4

\* A representation with a remainder below C is the one that DivMod gives.
LEMMA RemainderIs ==
  ASSUME NEW C \in Nat \ {0}, NEW n \in Int, NEW q \in Int, NEW s \in 0 .. C - 1, n = C * q + s
  PROVE  n % C = s
<1>1. PICK p : p = n \div C
  OBVIOUS
<1>2. PICK r : r = n % C
  OBVIOUS
<1>3. p \in Int /\ r \in 0 .. C - 1 /\ n = C * p + r
  BY <1>1, <1>2, DivMod
<1>4. C * (q - p) = r - s
  BY <1>3
<1>5. r - s < C /\ s - r < C
  BY <1>3
<1>6. CASE q - p = 0
  BY <1>2, <1>3, <1>4, <1>6
<1>7. CASE q - p >= 1
  <2>1. C * (q - p) >= C * 1
    BY <1>3, <1>7
  <2> QED
    BY <1>3, <1>4, <1>5, <2>1
<1>8. CASE q - p <= -1
  <2>1. C * (q - p) <= C * (-1)
    BY <1>3, <1>8
  <2> QED
    BY <1>3, <1>4, <1>5, <2>1
<1> QED
  BY <1>3, <1>6, <1>7, <1>8

\* MakeRelative undoes SendRawBunch for every number within half of MAX_CHSEQUENCE.
LEMMA MakeRelativeIs ==
  ASSUME NEW q \in Nat, NEW n \in Nat, q - n <= ReliableBuffer, n - q <= ReliableBuffer
  PROVE  MakeRelative(q % MaxChSequence, n, MaxChSequence) = q
<1>1. PICK C \in Nat \ {0} : C = MaxChSequence
  BY ModulusPositive
<1>2. PICK k : k = q \div C
  OBVIOUS
<1>3. PICK v : v = q % C
  OBVIOUS
<1>4. k \in Int /\ v \in 0 .. C - 1 /\ q = C * k + v
  BY <1>2, <1>3, DivMod
<1>5. PICK b : b = C \div 2
  OBVIOUS
<1>6. b \in Int /\ C = 2 * b /\ ReliableBuffer \in Nat /\ ReliableBuffer < b
  <2>1. C % 2 = 0 /\ 2 * ReliableBuffer < C /\ ReliableBuffer \in Nat
    BY <1>1, ChannelAssumption
  <2>2. b \in Int /\ C = 2 * b + (C % 2)
    BY <1>5
  <2> QED
    BY <2>1, <2>2
<1>7. PICK x : x = v - n + b
  OBVIOUS
<1>8. x \in Int /\ x = C * (-k) + (q - n + b)
  <2>1. C * (-k) = -(C * k)
    BY <1>4
  <2> QED
    BY <1>4, <1>6, <1>7, <2>1
<1>9. q - n + b \in 0 .. C - 1 /\ -k \in Int
  BY <1>4, <1>6
<1>10. x % C = q - n + b
  BY <1>8, <1>9, RemainderIs
<1>11. MakeRelative(v, n, C) = n + (x % C) - b
  <2>1. MakeRelative(v, n, C) = n + ((x % C) - b)
    BY <1>5, <1>7 DEF MakeRelative, BestSignedDifference
  <2>2. x % C \in Int
    BY <1>6, <1>9, <1>10
  <2> QED
    BY <1>6, <2>1, <2>2
<1>12. n + (q - n + b) - b = q
  BY <1>6
<1> QED
  BY <1>1, <1>3, <1>10, <1>11, <1>12

\* A bunch is taken for the number it was sent with.
TakenFor(r, h, b, q) ==
  /\ MakeRelative(b.seq, r.inReliable, MaxChSequence) = q
  /\ [b EXCEPT !.seq = q] = h[q]

LEMMA OnWireNumber ==
  ASSUME NEW g \in Bunch, NEW q, g.seq = q
  PROVE  OnWire(g).seq = q % MaxChSequence /\ [OnWire(g) EXCEPT !.seq = q] = g
  BY Zenon DEF OnWire, Bunch

LEMMA FlightSequence ==
  ASSUME NEW s \in End, NEW r \in End, NEW h \in History, Line(s, r, h),
         NEW j, NEW b, NEW q, Flies(r, j, b, q), b.rel
  PROVE  TakenFor(r, h, b, q)
<1>1. IsNumbered(s, h, b, q)
  BY FliesNumber
<1>2. PICK g \in Bunch : g = h[q]
  BY <1>1 DEF IsNumbered
<1>3. g.seq = q /\ b = OnWire(g) /\ q \in Nat
  BY <1>1, <1>2 DEF IsNumbered, WellFormed
<1>4. b.seq = q % MaxChSequence /\ [b EXCEPT !.seq = q] = g
  BY <1>3, OnWireNumber, Zenon
<1>5. q - r.inReliable <= ReliableBuffer /\ r.inReliable - q <= ReliableBuffer
  <2>1. Low(s) \in Int /\ s.outReliable \in Nat /\ r.inReliable \in Nat /\ ReliableBuffer \in Nat
    BY Lengths, EndTypes, ChannelAssumption
  <2>2. Low(s) - 1 <= r.inReliable /\ r.inReliable <= s.outReliable
    BY DEF Line, Numbered
  <2>3. s.outReliable + 1 - Low(s) <= ReliableBuffer
    BY DEF Line, Room, Span
  <2>4. PICK a \in Int, n \in Int, l \in Int : a = s.outReliable /\ n = r.inReliable /\ l = Low(s)
    BY <2>1
  <2>5. q \in l .. a
    BY <1>1, <2>4 DEF IsNumbered
  <2>6. l - 1 <= n /\ n <= a /\ a + 1 - l <= ReliableBuffer
    BY <2>2, <2>3, <2>4
  <2>7. q - n <= ReliableBuffer /\ n - q <= ReliableBuffer
    BY <1>3, <2>1, <2>5, <2>6
  <2> QED
    BY <2>4, <2>7
<1>6. r.inReliable \in Nat
  BY EndTypes
<1>7. MakeRelative(q % MaxChSequence, r.inReliable, MaxChSequence) = q
  BY <1>3, <1>5, <1>6, MakeRelativeIs
<1> QED
  BY <1>2, <1>4, <1>7 DEF TakenFor

-----------------------------------------------------------------------------
(* Notifications.  The receiver's fates are counted from the next packet.  *)

\* The receiver, once the fate of the oldest packet is known.
Shifted(r, u) ==
  /\ u \in End /\ Len(r.fates) >= 1 /\ Len(u.fates) = Len(r.fates) - 1
  /\ \A i \in 1 .. Len(r.fates) - 1 : u.fates[i] = r.fates[i + 1]
  /\ u.receiving = r.receiving /\ u.inReliable = r.inReliable /\ Queue(u) = Queue(r)

LEMMA ShiftedTaken ==
  ASSUME NEW r \in End, NEW u, Shifted(r, u)
  PROVE  /\ Taken(u) \in Nat /\ Taken(r) = Taken(u) + 1
         /\ r.receiving.busy => Taken(u) >= 1
         /\ Len(u.fates) \in Nat /\ Len(r.fates) = Len(u.fates) + 1 /\ Len(u.fates) <= Taken(u)
         /\ \A i \in 1 .. Len(u.fates) : u.fates[i] = r.fates[i + 1]
<1>1. PICK n \in Nat : n = IF r.receiving.busy THEN r.receiving.lost + 1 ELSE 0
  BY EndTypes
<1>2. u \in End /\ Len(r.fates) \in Nat /\ Len(u.fates) \in Nat /\ Len(u.fates) = Len(r.fates) - 1
  BY Lengths DEF Shifted
<1>3. Taken(r) = Len(r.fates) + n /\ Taken(u) = Len(u.fates) + n
  BY <1>1 DEF Taken, Shifted
<1>4. r.receiving.busy => n >= 1
  BY <1>1, EndTypes
<1> QED
  BY <1>2, <1>3, <1>4 DEF Shifted

LEMMA ShiftedCarries ==
  ASSUME NEW s \in End, NEW r \in End, Accounted(s, r), NEW u, Shifted(r, u),
         NEW t \in End, t.wire = s.wire, t.unnotified = s.unnotified - 1
  PROVE  /\ Accounted(t, u)
         /\ \A k \in Taken(u) .. t.unnotified : Carries(t, u, k) = Carries(s, r, k + 1)
         /\ Carries(t, u, t.unnotified + 1) = t.sendBuffer
         /\ Carries(s, r, s.unnotified + 1) = s.sendBuffer
         /\ Taken(u) <= t.unnotified
<1>1. /\ Taken(u) \in Nat /\ Taken(r) = Taken(u) + 1 /\ u \in End
      /\ s.unnotified \in Nat /\ t.unnotified \in Nat /\ Len(s.wire) \in Nat
  BY ShiftedTaken, Lengths, EndTypes DEF Shifted
<1>2. s.unnotified = Taken(r) + Len(s.wire)
  BY DEF Accounted
<1>3. Accounted(t, u)
  <2>1. t.unnotified = Taken(u) + Len(t.wire)
    BY <1>1, <1>2
  <2> QED
    BY <2>1 DEF Accounted, Shifted
<1>4. Carries(t, u, t.unnotified + 1) = t.sendBuffer /\ Carries(s, r, s.unnotified + 1) = s.sendBuffer
  BY <1>1, <1>3, Carried
<1>5. ASSUME NEW k \in Taken(u) .. t.unnotified PROVE Carries(t, u, k) = Carries(s, r, k + 1)
  <2>1. CASE k = Taken(u)
    <3>1. Carries(t, u, k) = u.receiving.bunches
      BY <1>1, <1>3, <2>1, Carried
    <3>2. Carries(s, r, k + 1) = r.receiving.bunches
      BY <1>1, <2>1, Carried
    <3> QED
      BY <3>1, <3>2 DEF Shifted
  <2>2. CASE k # Taken(u)
    <3>1. k \in Taken(u) + 1 .. t.unnotified /\ k + 1 \in Taken(r) + 1 .. s.unnotified
          /\ (k + 1) - Taken(r) = k - Taken(u)
      BY <1>1, <2>2
    <3>2. Carries(t, u, k) = t.wire[k - Taken(u)].bunches
      BY <1>1, <1>3, <3>1, Carried
    <3>3. Carries(s, r, k + 1) = s.wire[(k + 1) - Taken(r)].bunches
      BY <3>1, Carried
    <3> QED
      BY <3>1, <3>2, <3>3
  <2> QED
    BY <2>1, <2>2
<1>6. Taken(u) <= t.unnotified
  BY <1>1, <1>2
<1> QED
  BY <1>3, <1>4, <1>5, <1>6

SameNumbers(s, t) ==
  t \in End /\ t.outReliable = s.outReliable /\ t.pendingOutRec = s.pendingOutRec

SameBunches(s, t) ==
  /\ Len(Records(t)) = Len(Records(s))
  /\ \A i \in DOMAIN Records(s) : Records(t)[i].bunch = Records(s)[i].bunch

StillHeld(s, r, t, u) == r.receiving.busy /\ Holding(s, r) => Holding(t, u)

\* What does not depend on the fates.
LEMMA ShiftedSame ==
  ASSUME NEW s \in End, NEW r \in End, NEW h \in History, Numbered(s, r, h), Queued(s, r, h),
         NEW u, Shifted(r, u),
         NEW t, SameNumbers(s, t), SameBunches(s, t), StillHeld(s, r, t, u)
  PROVE  /\ Low(t) = Low(s) /\ Numbered(t, u, h) /\ Queued(t, u, h)
         /\ \A q : Has(u, q) <=> Has(r, q)
<1> USE DEF SameNumbers, SameBunches, StillHeld
<1>1. DOMAIN Records(t) = DOMAIN Records(s)
  BY Lengths
<1>2. s.pendingOutRec # 0 => Records(t) = <<>>
  <2>1. s.pendingOutRec # 0 => Len(Records(s)) = 0
    BY DEF Numbered
  <2>2. Len(Records(t)) = 0 => Records(t) = <<>>
    BY EndTypes
  <2> QED
    BY <2>1, <2>2
<1>3. Low(t) = Low(s)
  BY DEF Low
<1>4. Numbered(t, u, h)
  BY <1>1, <1>2, <1>3 DEF Numbered, Shifted
<1>5. Queued(t, u, h)
  <2>1. Ready(u) <=> Ready(r)
    BY DEF Ready, Shifted
  <2>2. Ready(u) => u.receiving.busy /\ (t.pendingOutRec = 0 => Holding(t, u))
    BY <2>1 DEF Queued, Shifted
  <2> QED
    BY <2>2 DEF Queued, Shifted
<1>6. \A q : Has(u, q) <=> Has(r, q)
  BY DEF Has, Shifted
<1> QED
  BY <1>3, <1>4, <1>5, <1>6

\* ReceivedAck marks what was in the oldest packet.
LEMMA LineMarked ==
  ASSUME NEW s \in End, NEW r \in End, NEW h \in History, Line(s, r, h),
         NEW u, Shifted(r, u), r.fates[1],
         NEW t \in End, t.wire = s.wire, t.unnotified = s.unnotified - 1,
         t.outReliable = s.outReliable, t.pendingOutRec = s.pendingOutRec,
         t.sendBuffer = s.sendBuffer,
         Records(t) = [i \in 1 .. Len(Records(s)) |-> AckedRecord(Records(s)[i])],
         Room(t)
  PROVE  Line(t, u, h)
<1>1. /\ Taken(u) \in Nat /\ Taken(r) = Taken(u) + 1 /\ u \in End
      /\ r.receiving.busy => Taken(u) >= 1
      /\ Len(u.fates) \in Nat /\ Len(r.fates) = Len(u.fates) + 1
      /\ \A i \in 1 .. Len(u.fates) : u.fates[i] = r.fates[i + 1]
      /\ s.unnotified \in Nat /\ t.unnotified \in Nat
  BY ShiftedTaken, EndTypes, ZenonT(30) DEF Shifted
<1>2. Accounted(s, r) /\ Numbered(s, r, h) /\ Recorded(s, r) /\ InFlight(s, r, h) /\ Queued(s, r, h)
  BY DEF Line
<1>3. /\ Accounted(t, u)
      /\ \A k \in Taken(u) .. t.unnotified : Carries(t, u, k) = Carries(s, r, k + 1)
      /\ Carries(t, u, t.unnotified + 1) = t.sendBuffer
      /\ Carries(s, r, s.unnotified + 1) = s.sendBuffer
  BY <1>2, ShiftedCarries
<1>4. \A k \in Taken(u) .. t.unnotified + 1 : Carries(t, u, k) = Carries(s, r, k + 1)
  <2> TAKE k \in Taken(u) .. t.unnotified + 1
  <2>1. k \in Taken(u) .. t.unnotified \/ (k = t.unnotified + 1 /\ k + 1 = s.unnotified + 1)
    BY <1>1
  <2> QED
    BY <1>3, <2>1
<1>5. /\ DOMAIN Records(t) = DOMAIN Records(s) /\ Len(Records(t)) = Len(Records(s))
      /\ \A i \in DOMAIN Records(s) :
           /\ Records(s)[i] \in OutBunch /\ Records(t)[i] = AckedRecord(Records(s)[i])
           /\ Records(t)[i].bunch = Records(s)[i].bunch
           /\ Records(t)[i].acked = (Records(s)[i].acked \/ Records(s)[i].packet = 1)
           /\ Records(s)[i].packet = 0 => Records(t)[i].packet = 0
           /\ Records(s)[i].packet # 0 => Records(t)[i].packet = Records(s)[i].packet - 1
           /\ Records(s)[i].packet \in Nat /\ Records(s)[i].acked \in BOOLEAN
           /\ Records(s)[i].bunch.seq \in Nat
  <2>1. DOMAIN Records(s) = 1 .. Len(Records(s)) /\ DOMAIN Records(t) = 1 .. Len(Records(t))
        /\ Len(Records(s)) \in Nat /\ Len(Records(t)) \in Nat
    BY Lengths
  <2>2. DOMAIN Records(t) = 1 .. Len(Records(s))
    OBVIOUS
  <2>3. Len(Records(t)) = Len(Records(s))
    BY <2>1, <2>2
  <2>4. ASSUME NEW i \in DOMAIN Records(s)
        PROVE  /\ Records(s)[i] \in OutBunch /\ Records(t)[i] = AckedRecord(Records(s)[i])
               /\ Records(s)[i].bunch.seq \in Nat
               /\ Records(s)[i].packet \in Nat /\ Records(s)[i].acked \in BOOLEAN
    <3>1. Records(s)[i] \in OutBunch /\ Records(s)[i].bunch \in Bunch
          /\ Records(s)[i].packet \in Nat /\ Records(s)[i].acked \in BOOLEAN
      BY RecordIn
    <3>2. Records(t)[i] = AckedRecord(Records(s)[i])
      BY <2>1
    <3> QED
      BY <3>1, <3>2 DEF Bunch
  <2>5. \A o \in OutBunch :
           /\ AckedRecord(o).bunch = o.bunch
           /\ AckedRecord(o).acked = (o.acked \/ o.packet = 1)
           /\ o.packet = 0 => AckedRecord(o).packet = 0
           /\ o.packet # 0 => AckedRecord(o).packet = o.packet - 1
    <3> TAKE o \in OutBunch
    <3>1. PICK k \in Nat : k = 0
      OBVIOUS
    <3> QED
      BY <3>1, RecordType
  <2> QED
    BY <2>1, <2>3, <2>4, <2>5
<1>6. r.receiving.busy /\ Holding(s, r) => Holding(t, u)
  <2> SUFFICES ASSUME r.receiving.busy, Holding(s, r) PROVE Holding(t, u)
    OBVIOUS
  <2>1. PICK i \in DOMAIN Records(s) :
          ~Records(s)[i].acked /\ Records(s)[i].packet = Taken(r) /\ Records(s)[i].bunch.seq <= r.inReliable
    BY DEF Holding
  <2>2. Records(s)[i].packet # 0 /\ Records(s)[i].packet # 1 /\ Records(s)[i].packet - 1 = Taken(u)
    <3>1. PICK p : p = Records(s)[i].packet
      OBVIOUS
    <3>2. p = Taken(u) + 1 /\ Taken(u) \in Nat /\ Taken(u) >= 1
      BY <1>1, <2>1, <3>1
    <3>3. p # 0 /\ p # 1 /\ p - 1 = Taken(u)
      BY <3>2
    <3> QED
      BY <3>1, <3>3
  <2>3. ~Records(t)[i].acked /\ Records(t)[i].packet = Taken(u) /\ Records(t)[i].bunch.seq <= u.inReliable
    BY <1>5, <2>1, <2>2 DEF Shifted
  <2> QED
    BY <1>5, <2>3 DEF Holding
<1>7. Low(t) = Low(s) /\ Numbered(t, u, h) /\ Queued(t, u, h) /\ \A q : Has(u, q) <=> Has(r, q)
  <2>1. SameBunches(s, t)
    BY <1>5 DEF SameBunches
  <2>2. SameNumbers(s, t)
    BY DEF SameNumbers
  <2>3. StillHeld(s, r, t, u)
    BY <1>6 DEF StillHeld
  <2> QED
    BY <1>2, <2>1, <2>2, <2>3, ShiftedSame
<1>8. Recorded(t, u)
  <2> SUFFICES ASSUME NEW i \in DOMAIN Records(t) PROVE RecordOK(t, u, Records(t)[i])
    BY DEF Recorded
  <2>1. PICK o : o = Records(s)[i]
    OBVIOUS
  <2>2. PICK p : p = Records(t)[i]
    OBVIOUS
  <2>3. /\ RecordOK(s, r, o) /\ o.packet \in Nat /\ o.acked \in BOOLEAN /\ p.bunch = o.bunch
        /\ p.acked = (o.acked \/ o.packet = 1)
        /\ o.packet = 0 => p.packet = 0
        /\ o.packet # 0 => p.packet = o.packet - 1
    BY <1>2, <1>5, <2>1, <2>2 DEF Recorded
  <2>4. p.acked => p.packet = 0
    BY <2>3 DEF RecordOK
  <2>5. ~p.acked => p.packet \in 1 .. t.unnotified + 1
    <3> SUFFICES ASSUME ~p.acked PROVE p.packet \in 1 .. t.unnotified + 1
      OBVIOUS
    <3>1. o.packet \in 1 .. s.unnotified + 1 /\ o.packet # 1
      BY <2>3 DEF RecordOK
    <3>3. PICK a \in Nat, n \in Nat : a = o.packet /\ n = s.unnotified
      BY <1>1, <2>3
    <3>4. a \in 1 .. n + 1 /\ a # 1
      BY <3>1, <3>3
    <3>5. a # 0 /\ a - 1 \in 1 .. n - 1 + 1
      BY <3>4
    <3>6. p.packet = a - 1
      BY <2>3, <3>3, <3>5
    <3> QED
      BY <3>3, <3>5, <3>6
  <2>6. p.acked \/ (p.packet \in 1 .. Len(u.fates) /\ u.fates[p.packet]) => Has(u, p.bunch.seq)
    <3>1. o.acked \/ (o.packet \in 1 .. Len(r.fates) /\ r.fates[o.packet]) => Has(r, o.bunch.seq)
      BY <2>3 DEF RecordOK
    <3>2. o.packet = 1 => o.packet \in 1 .. Len(r.fates) /\ r.fates[o.packet]
      BY <1>1
    <3>3. ASSUME p.packet \in 1 .. Len(u.fates), u.fates[p.packet]
          PROVE  o.packet \in 1 .. Len(r.fates) /\ r.fates[o.packet]
      <4>1. o.packet # 0 /\ o.packet = p.packet + 1
        BY <1>1, <2>3, <3>3
      <4>x. PICK l \in Nat : l = Len(u.fates)
        BY <1>1
      <4>2. PICK a \in Nat : a = p.packet + 1 /\ a - 1 = p.packet /\ o.packet = a
        BY <3>3, <4>1, <4>x
      <4>3. a - 1 \in 1 .. Len(u.fates)
        BY <3>3, <4>2
      <4>4. a \in 1 .. Len(r.fates) /\ (a - 1) + 1 = a
        BY <1>1, <4>3
      <4>5. u.fates[a - 1] = r.fates[a]
        BY <1>1, <4>3, <4>4
      <4> QED
        BY <3>3, <4>2, <4>4, <4>5
    <3> QED
      BY <1>7, <2>3, <3>1, <3>2, <3>3
  <2>7. ASSUME p.packet > Taken(u) PROVE Within(OnWire(p.bunch), Carries(t, u, p.packet))
    <3>1. ~o.acked /\ o.packet # 0 /\ o.packet = p.packet + 1 /\ o.packet > Taken(r) /\ o.packet # 1
      BY <1>1, <2>3, <2>7 DEF RecordOK
    <3>2. p.packet \in Taken(u) .. t.unnotified + 1
      BY <1>1, <2>3, <2>5, <2>7, <3>1
    <3>3. Within(OnWire(o.bunch), Carries(s, r, o.packet))
      BY <2>3, <3>1 DEF RecordOK
    <3> QED
      BY <1>4, <2>3, <3>1, <3>2, <3>3
  <2>8. ASSUME u.receiving.busy, p.packet = Taken(u)
        PROVE  \/ Within(OnWire(p.bunch), u.receiving.bunches)
               \/ Has(u, p.bunch.seq)
               \/ u.receiving.skipAck
    <3>1. r.receiving = u.receiving
      BY DEF Shifted
    <3>2. o.packet = Taken(r)
      BY <1>1, <2>3, <2>8, <3>1
    <3> QED
      BY <1>7, <2>3, <2>8, <3>1, <3>2 DEF RecordOK
  <2>9. RecordOK(t, u, p)
    BY <2>4, <2>5, <2>6, <2>7, <2>8 DEF RecordOK
  <2> QED
    BY <2>2, <2>9
<1>9. InFlight(t, u, h)
  <2> SUFFICES ASSUME NEW k \in Taken(u) .. t.unnotified + 1, NEW j \in DOMAIN Carries(t, u, k)
               PROVE  BunchOK(t, h, k, Carries(t, u, k)[j])
    BY DEF InFlight
  <2>1. PICK b : b = Carries(t, u, k)[j]
    OBVIOUS
  <2>2. k + 1 \in Taken(r) .. s.unnotified + 1 /\ k \in Nat
    BY <1>1, SMTT(30)
  <2>3. BunchOK(s, h, k + 1, b)
    BY <1>2, <1>4, <2>1, <2>2 DEF InFlight
  <2>4. k # 0
    <3> SUFFICES ASSUME k = 0 PROVE FALSE
      OBVIOUS
    <3>1. Taken(u) = 0 /\ ~r.receiving.busy
      BY <1>1
    <3>2. r.receiving = NotReceiving
      BY <1>2, <3>1 DEF Accounted
    <3>3. Carries(t, u, k) = r.receiving.bunches
      BY <1>1, <1>3, <3>1, Carried DEF Shifted
    <3> QED
      BY <3>2, <3>3 DEF NotReceiving
  <2>5. ASSUME b.rel, s.pendingOutRec = 0
        PROVE  /\ ~Records(t)[b.tag.seq - Low(t) + 1].acked
               /\ Records(t)[b.tag.seq - Low(t) + 1].packet = k
    <3>1. PICK q : q = b.tag.seq
      OBVIOUS
    <3>2. PICK i : i = q - Low(s) + 1
      OBVIOUS
    <3>3. ~Records(s)[i].acked /\ Records(s)[i].packet = k + 1 /\ q \in Low(s) .. s.outReliable
      BY <2>3, <2>5, <3>1, <3>2 DEF BunchOK
    <3>4. i \in DOMAIN Records(s)
      <4>1. /\ Len(Records(s)) \in Nat /\ DOMAIN Records(s) = 1 .. Len(Records(s)) /\ Low(s) \in Int
            /\ Low(s) = s.outReliable + 1 - Len(Records(s)) /\ s.outReliable \in Nat
        BY <2>5, Lengths, EndTypes
      <4>2. i \in 1 .. Len(Records(s))
        BY <3>2, <3>3, <4>1
      <4> QED
        BY <4>1, <4>2
    <3>5. Records(s)[i].packet # 0 /\ Records(s)[i].packet # 1 /\ Records(s)[i].packet - 1 = k
      BY <2>2, <2>4, <3>3
    <3>6. ~Records(t)[i].acked /\ Records(t)[i].packet = k
      BY <1>5, <3>3, <3>4, <3>5
    <3> QED
      BY <1>7, <3>1, <3>2, <3>6
  <2>6. BunchOK(t, h, k, b)
    BY <1>7, <2>3, <2>5 DEF BunchOK
  <2> QED
    BY <2>1, <2>6
<1> QED
  BY <1>3, <1>7, <1>8, <1>9 DEF Line

\* What was in the oldest packet is written again.
Rewritten(s, t) ==
  /\ Len(t.sendBuffer) >= Len(s.sendBuffer)
  /\ \A j \in 1 .. Len(s.sendBuffer) : t.sendBuffer[j] = s.sendBuffer[j]
  /\ \A j \in Len(s.sendBuffer) + 1 .. Len(t.sendBuffer) :
       \E i \in DOMAIN Records(s) :
         Lost(Records(s)[i]) /\ t.sendBuffer[j] = OnWire(Records(s)[i].bunch)
  /\ \A i \in DOMAIN Records(s) :
       Lost(Records(s)[i]) => Within(OnWire(Records(s)[i].bunch), t.sendBuffer)

LEMMA LineNaked ==
  ASSUME NEW s \in End, NEW r \in End, NEW h \in History, Line(s, r, h),
         NEW u, Shifted(r, u),
         NEW t \in End, t.wire = s.wire, t.unnotified = s.unnotified - 1,
         t.outReliable = s.outReliable, t.pendingOutRec = s.pendingOutRec,
         Records(t) = [i \in 1 .. Len(Records(s)) |-> NakedRecord(Records(s)[i], s.unnotified)],
         Rewritten(s, t), Room(t)
  PROVE  Line(t, u, h)
<1>1. /\ Taken(u) \in Nat /\ Taken(r) = Taken(u) + 1 /\ u \in End
      /\ r.receiving.busy => Taken(u) >= 1
      /\ Len(u.fates) \in Nat /\ Len(r.fates) = Len(u.fates) + 1 /\ Len(u.fates) <= Taken(u)
      /\ \A i \in 1 .. Len(u.fates) : u.fates[i] = r.fates[i + 1]
      /\ s.unnotified \in Nat /\ t.unnotified \in Nat
  BY ShiftedTaken, EndTypes DEF Shifted
<1>2. Accounted(s, r) /\ Numbered(s, r, h) /\ Recorded(s, r) /\ InFlight(s, r, h) /\ Queued(s, r, h)
  BY DEF Line
<1>3. /\ Accounted(t, u)
      /\ \A k \in Taken(u) .. t.unnotified : Carries(t, u, k) = Carries(s, r, k + 1)
      /\ Carries(t, u, t.unnotified + 1) = t.sendBuffer
      /\ Carries(s, r, s.unnotified + 1) = s.sendBuffer
      /\ Taken(u) <= t.unnotified
  BY <1>2, ShiftedCarries
<1>4. PICK K \in Nat : K = s.unnotified /\ K = t.unnotified + 1 /\ K > Taken(u) /\ K >= 1
  BY <1>1, <1>3
<1>5. /\ DOMAIN Records(t) = DOMAIN Records(s) /\ Len(Records(t)) = Len(Records(s))
      /\ \A i \in DOMAIN Records(s) :
           /\ Records(s)[i] \in OutBunch /\ Records(t)[i] = NakedRecord(Records(s)[i], K)
           /\ Records(t)[i].bunch = Records(s)[i].bunch
           /\ Records(t)[i].acked = Records(s)[i].acked
           /\ Records(s)[i].packet = 0 => Records(t)[i].packet = 0
           /\ Lost(Records(s)[i]) => Records(t)[i].packet = K
           /\ Records(s)[i].packet # 0 /\ ~Lost(Records(s)[i]) => Records(t)[i].packet = Records(s)[i].packet - 1
           /\ Records(s)[i].packet \in Nat /\ Records(s)[i].acked \in BOOLEAN
           /\ Records(s)[i].bunch.seq \in Nat
  <2>1. DOMAIN Records(s) = 1 .. Len(Records(s)) /\ DOMAIN Records(t) = 1 .. Len(Records(t))
        /\ Len(Records(s)) \in Nat /\ Len(Records(t)) \in Nat
    BY Lengths
  <2>2. DOMAIN Records(t) = 1 .. Len(Records(s))
    OBVIOUS
  <2>3. Len(Records(t)) = Len(Records(s))
    BY <2>1, <2>2
  <2>4. ASSUME NEW i \in DOMAIN Records(s)
        PROVE  /\ Records(s)[i] \in OutBunch /\ Records(t)[i] = NakedRecord(Records(s)[i], K)
               /\ Records(s)[i].bunch.seq \in Nat
               /\ Records(s)[i].packet \in Nat /\ Records(s)[i].acked \in BOOLEAN
    <3>1. Records(s)[i] \in OutBunch /\ Records(s)[i].bunch \in Bunch
          /\ Records(s)[i].packet \in Nat /\ Records(s)[i].acked \in BOOLEAN
      BY RecordIn
    <3>2. Records(t)[i] = NakedRecord(Records(s)[i], K)
      BY <1>4, <2>1
    <3> QED
      BY <3>1, <3>2 DEF Bunch
  <2>5. \A o \in OutBunch :
           /\ NakedRecord(o, K).bunch = o.bunch
           /\ NakedRecord(o, K).acked = o.acked
           /\ o.packet = 0 => NakedRecord(o, K).packet = 0
           /\ Lost(o) => NakedRecord(o, K).packet = K
           /\ o.packet # 0 /\ ~Lost(o) => NakedRecord(o, K).packet = o.packet - 1
    BY <1>4, RecordType
  <2> QED
    BY <2>1, <2>3, <2>4, <2>5
<1>6. r.receiving.busy /\ Holding(s, r) => Holding(t, u)
  <2> SUFFICES ASSUME r.receiving.busy, Holding(s, r) PROVE Holding(t, u)
    OBVIOUS
  <2>1. PICK i \in DOMAIN Records(s) :
          ~Records(s)[i].acked /\ Records(s)[i].packet = Taken(r) /\ Records(s)[i].bunch.seq <= r.inReliable
    BY DEF Holding
  <2>2. Records(s)[i].packet # 0 /\ Records(s)[i].packet # 1 /\ Records(s)[i].packet - 1 = Taken(u)
    <3>1. PICK p : p = Records(s)[i].packet
      OBVIOUS
    <3>2. p = Taken(u) + 1 /\ Taken(u) \in Nat /\ Taken(u) >= 1
      BY <1>1, <2>1, <3>1
    <3>3. p # 0 /\ p # 1 /\ p - 1 = Taken(u)
      BY <3>2
    <3> QED
      BY <3>1, <3>3
  <2>3. ~Records(t)[i].acked /\ Records(t)[i].packet = Taken(u) /\ Records(t)[i].bunch.seq <= u.inReliable
    BY <1>5, <2>1, <2>2 DEF Shifted, Lost
  <2> QED
    BY <1>5, <2>3 DEF Holding
<1>7. Low(t) = Low(s) /\ Numbered(t, u, h) /\ Queued(t, u, h) /\ \A q : Has(u, q) <=> Has(r, q)
  <2>1. SameBunches(s, t)
    BY <1>5 DEF SameBunches
  <2>2. SameNumbers(s, t)
    BY DEF SameNumbers
  <2>3. StillHeld(s, r, t, u)
    BY <1>6 DEF StillHeld
  <2> QED
    BY <1>2, <2>1, <2>2, <2>3, ShiftedSame
<1>w. /\ s.sendBuffer \in Seq(Bunch) /\ DOMAIN s.sendBuffer = 1 .. Len(s.sendBuffer) /\ Len(s.sendBuffer) \in Nat
      /\ t.sendBuffer \in Seq(Bunch) /\ DOMAIN t.sendBuffer = 1 .. Len(t.sendBuffer) /\ Len(t.sendBuffer) \in Nat
  BY EndTypes, SMTT(30)
<1>x. \A y : Within(y, s.sendBuffer) => Within(y, t.sendBuffer)
  <2> TAKE y
  <2> HAVE Within(y, s.sendBuffer)
  <2>1. PICK j \in 1 .. Len(s.sendBuffer) : s.sendBuffer[j] = y
    BY <1>w DEF Within
  <2>2. j \in DOMAIN t.sendBuffer /\ t.sendBuffer[j] = y
    BY <1>w, <2>1 DEF Rewritten
  <2> QED
    BY <2>2 DEF Within
<1>8. Recorded(t, u)
  <2> SUFFICES ASSUME NEW i \in DOMAIN Records(t) PROVE RecordOK(t, u, Records(t)[i])
    BY DEF Recorded
  <2>1. PICK o : o = Records(s)[i]
    OBVIOUS
  <2>2. PICK p : p = Records(t)[i]
    OBVIOUS
  <2>3. /\ RecordOK(s, r, o) /\ o.packet \in Nat /\ o.acked \in BOOLEAN /\ p.bunch = o.bunch
        /\ p.acked = o.acked
        /\ o.packet = 0 => p.packet = 0
        /\ Lost(o) => p.packet = K
        /\ o.packet # 0 /\ ~Lost(o) => p.packet = o.packet - 1
    BY <1>2, <1>5, <2>1, <2>2 DEF Recorded
  <2>4. CASE Lost(o)
    <3>1. ~p.acked /\ p.packet = K
      BY <2>3, <2>4 DEF Lost
    <3>2. K \in 1 .. t.unnotified + 1 /\ ~(K \in 1 .. Len(u.fates)) /\ K # Taken(u)
      BY <1>1, <1>4
    <3>3. Within(OnWire(p.bunch), Carries(t, u, K))
      BY <1>3, <1>4, <1>5, <2>1, <2>3, <2>4 DEF Rewritten
    <3>4. RecordOK(t, u, p)
      BY <3>1, <3>2, <3>3 DEF RecordOK
    <3> QED
      BY <2>2, <3>4
  <2>5. CASE ~Lost(o)
    <3>1. p.acked => p.packet = 0
      BY <2>3 DEF RecordOK
    <3>2. ASSUME ~p.acked
          PROVE  o.packet \in 2 .. K + 1 /\ p.packet = o.packet - 1 /\ p.packet \in 1 .. K
      <4>1. PICK a \in Nat : a = o.packet
        BY <2>3
      <4>2. a \in 1 .. K + 1 /\ a # 1
        BY <1>4, <2>3, <2>5, <3>2, <4>1 DEF RecordOK, Lost
      <4>3. a # 0 /\ a \in 2 .. K + 1 /\ a - 1 \in 1 .. K
        BY <4>2
      <4>4. p.packet = a - 1
        BY <2>3, <2>5, <4>1, <4>3
      <4> QED
        BY <4>1, <4>3, <4>4
    <3>3. p.acked \/ (p.packet \in 1 .. Len(u.fates) /\ u.fates[p.packet]) => Has(u, p.bunch.seq)
      <4>1. o.acked \/ (o.packet \in 1 .. Len(r.fates) /\ r.fates[o.packet]) => Has(r, o.bunch.seq)
        BY <2>3 DEF RecordOK
      <4>2. ASSUME ~p.acked, p.packet \in 1 .. Len(u.fates), u.fates[p.packet]
            PROVE  o.packet \in 1 .. Len(r.fates) /\ r.fates[o.packet]
        <5>1. PICK a \in Nat : a = o.packet
          BY <2>3
        <5>2. a - 1 \in 1 .. Len(u.fates) /\ p.packet = a - 1
          BY <3>2, <4>2, <5>1
        <5>3. a \in 1 .. Len(r.fates) /\ (a - 1) + 1 = a
          BY <1>1, <5>2
        <5>4. u.fates[a - 1] = r.fates[a]
          BY <1>1, <5>2, <5>3
        <5> QED
          BY <4>2, <5>1, <5>2, <5>3, <5>4
      <4> QED
        BY <1>7, <2>3, <4>1, <4>2
    <3>4. ASSUME p.packet > Taken(u) PROVE Within(OnWire(p.bunch), Carries(t, u, p.packet))
      <4>1. ~p.acked
        BY <1>1, <3>1, <3>4
      <4>2. PICK a \in Nat : a = o.packet
        BY <2>3
      <4>3. a \in 2 .. K + 1 /\ p.packet = a - 1 /\ a - 1 > Taken(u)
        BY <3>2, <3>4, <4>1, <4>2
      <4>4. a > Taken(r)
        BY <1>1, <4>3
      <4>5. Within(OnWire(p.bunch), Carries(s, r, a))
        BY <2>3, <4>2, <4>4 DEF RecordOK
      <4>6. CASE a = K + 1
        <5>1. Carries(s, r, a) = s.sendBuffer /\ Carries(t, u, a - 1) = t.sendBuffer
          BY <1>3, <1>4, <4>6
        <5> QED
          BY <1>x, <4>3, <4>5, <5>1
      <4>7. CASE a # K + 1
        <5>0. PICK T \in Nat : T = Taken(u)
          BY <1>1
        <5>1. a - 1 \in Taken(u) .. t.unnotified /\ (a - 1) + 1 = a
          <6>1. a \in 2 .. K + 1 /\ a # K + 1 /\ a - 1 > T
            BY <4>3, <4>7, <5>0
          <6>2. a - 1 \in T .. K - 1 /\ (a - 1) + 1 = a
            BY <6>1
          <6>3. t.unnotified = K - 1
            BY <1>1, <1>4
          <6> QED
            BY <5>0, <6>2, <6>3
        <5>2. Carries(t, u, a - 1) = Carries(s, r, a)
          BY <1>3, <5>1
        <5> QED
          BY <4>3, <4>5, <5>2
      <4> QED
        BY <4>6, <4>7
    <3>5. ASSUME u.receiving.busy, p.packet = Taken(u)
          PROVE  \/ Within(OnWire(p.bunch), u.receiving.bunches)
                 \/ Has(u, p.bunch.seq)
                 \/ u.receiving.skipAck
      <4>1. r.receiving = u.receiving
        BY DEF Shifted
      <4>2. ~p.acked
        BY <1>1, <3>1, <3>5, <4>1
      <4>3. PICK a \in Nat : a = o.packet
        BY <2>3
      <4>4. a \in 2 .. K + 1 /\ a - 1 = Taken(u)
        BY <3>2, <3>5, <4>2, <4>3
      <4>5. o.packet = Taken(r)
        BY <1>1, <4>3, <4>4
      <4> QED
        BY <1>7, <2>3, <3>5, <4>1, <4>5 DEF RecordOK
    <3>6. ~p.acked => p.packet \in 1 .. t.unnotified + 1
      BY <1>4, <3>2
    <3>7. RecordOK(t, u, p)
      BY <3>1, <3>3, <3>4, <3>5, <3>6 DEF RecordOK
    <3> QED
      BY <2>2, <3>7
  <2> QED
    BY <2>4, <2>5
<1>9. InFlight(t, u, h)
  <2>1. ASSUME NEW k \in Nat, k # 0, NEW b, BunchOK(s, h, k + 1, b) PROVE BunchOK(t, h, k, b)
    <3>1. ASSUME b.rel, s.pendingOutRec = 0
          PROVE  /\ ~Records(t)[b.tag.seq - Low(t) + 1].acked
                 /\ Records(t)[b.tag.seq - Low(t) + 1].packet = k
      <4>1. PICK q : q = b.tag.seq
        OBVIOUS
      <4>2. PICK i : i = q - Low(s) + 1
        OBVIOUS
      <4>3. ~Records(s)[i].acked /\ Records(s)[i].packet = k + 1 /\ q \in Low(s) .. s.outReliable
        BY <2>1, <3>1, <4>1, <4>2 DEF BunchOK
      <4>4. i \in DOMAIN Records(s)
        <5>1. /\ Len(Records(s)) \in Nat /\ DOMAIN Records(s) = 1 .. Len(Records(s)) /\ Low(s) \in Int
              /\ Low(s) = s.outReliable + 1 - Len(Records(s)) /\ s.outReliable \in Nat
          BY <3>1, Lengths, EndTypes
        <5>2. i \in 1 .. Len(Records(s))
          BY <4>2, <4>3, <5>1
        <5> QED
          BY <5>1, <5>2
      <4>5. Records(s)[i].packet # 0 /\ Records(s)[i].packet # 1 /\ Records(s)[i].packet - 1 = k
        BY <2>1, <4>3
      <4>6. ~Records(t)[i].acked /\ Records(t)[i].packet = k
        BY <1>5, <4>3, <4>4, <4>5 DEF Lost
      <4> QED
        BY <1>7, <4>1, <4>2, <4>6
    <3> QED
      BY <1>7, <2>1, <3>1 DEF BunchOK
  <2>2. ASSUME NEW i \in DOMAIN Records(s), Lost(Records(s)[i]), NEW b, b = OnWire(Records(s)[i].bunch)
        PROVE  BunchOK(t, h, K, b)
    <3>1. PICK q : q = Low(s) + i - 1
      OBVIOUS
    <3>2. /\ q \in Low(s) .. s.outReliable /\ q \in Nat
          /\ Records(s)[i].bunch = h[q] /\ WellFormed(h[q], q)
      BY <1>2, <3>1, RecordNumber
    <3>3. h[q] \in Bunch
      BY <3>2 DEF History
    <3>4. b.rel /\ b.tag.seq = q /\ b = OnWire(h[q])
      BY <2>2, <3>2, <3>3, OnWireType DEF WellFormed
    <3>5. q - Low(s) + 1 = i
      <4>1. Low(s) \in Int /\ i \in Int
        BY Lengths
      <4> QED
        BY <3>1, <4>1
    <3>6. ~Records(t)[i].acked /\ Records(t)[i].packet = K
      BY <1>5, <2>2 DEF Lost
    <3> QED
      BY <1>7, <3>2, <3>4, <3>5, <3>6 DEF BunchOK
  <2> SUFFICES ASSUME NEW k \in Taken(u) .. t.unnotified + 1, NEW j \in DOMAIN Carries(t, u, k)
               PROVE  BunchOK(t, h, k, Carries(t, u, k)[j])
    BY DEF InFlight
  <2>3. CASE k = K
    <3>1. Carries(t, u, k) = t.sendBuffer /\ Carries(s, r, k + 1) = s.sendBuffer
      BY <1>3, <1>4, <2>3
    <3>2. CASE j \in 1 .. Len(s.sendBuffer)
      <4>1. j \in DOMAIN Carries(s, r, k + 1) /\ Carries(t, u, k)[j] = Carries(s, r, k + 1)[j]
        BY <1>w, <3>1, <3>2 DEF Rewritten
      <4>2. k + 1 \in Taken(r) .. s.unnotified + 1
        BY <1>1, <1>4, <2>3
      <4>3. BunchOK(s, h, k + 1, Carries(t, u, k)[j])
        BY <1>2, <4>1, <4>2 DEF InFlight
      <4>4. k \in Nat /\ k # 0
        BY <1>4, <2>3
      <4> QED
        BY <2>1, <4>3, <4>4
    <3>3. CASE ~(j \in 1 .. Len(s.sendBuffer))
      <4>1. j \in Len(s.sendBuffer) + 1 .. Len(t.sendBuffer)
        BY <1>w, <3>1, <3>3
      <4>2. PICK i \in DOMAIN Records(s) :
              Lost(Records(s)[i]) /\ t.sendBuffer[j] = OnWire(Records(s)[i].bunch)
        BY <4>1 DEF Rewritten
      <4> QED
        BY <2>2, <2>3, <3>1, <4>2
    <3> QED
      BY <3>2, <3>3
  <2>4. CASE k # K
    <3>1. k \in Taken(u) .. t.unnotified /\ k + 1 \in Taken(r) .. s.unnotified + 1 /\ k \in Nat
      BY <1>1, <1>4, <2>4
    <3>2. Carries(t, u, k) = Carries(s, r, k + 1)
      BY <1>3, <3>1
    <3>3. BunchOK(s, h, k + 1, Carries(t, u, k)[j])
      BY <1>2, <3>1, <3>2 DEF InFlight
    <3>4. k # 0
      <4> SUFFICES ASSUME k = 0 PROVE FALSE
        OBVIOUS
      <4>1. Taken(u) = 0 /\ ~r.receiving.busy
        BY <1>1, <3>1
      <4>2. r.receiving = NotReceiving
        BY <1>2, <4>1 DEF Accounted
      <4>3. Carries(t, u, k) = r.receiving.bunches
        BY <1>1, <1>3, <4>1, Carried DEF Shifted
      <4> QED
        BY <4>2, <4>3 DEF NotReceiving
    <3> QED
      BY <2>1, <3>1, <3>3, <3>4
  <2> QED
    BY <2>3, <2>4
<1> QED
  BY <1>3, <1>7, <1>8, <1>9 DEF Line

\* t keeps all that s keeps, but for the first n.
Trimmed(s, t, n) ==
  /\ n \in 0 .. Len(Records(s))
  /\ \A i \in 1 .. n : Records(s)[i].acked
  /\ Len(Records(t)) = Len(Records(s)) - n
  /\ \A i \in 1 .. Len(Records(s)) - n : Records(t)[i] = Records(s)[n + i]

\* ReceivedAcks: what is released has been let in.
LEMMA LineReleased ==
  ASSUME NEW s \in End, NEW r \in End, NEW h \in History, Line(s, r, h),
         NEW t \in End, t.wire = s.wire, t.unnotified = s.unnotified, t.sendBuffer = s.sendBuffer,
         t.outReliable = s.outReliable, t.pendingOutRec = s.pendingOutRec,
         NEW n \in Nat, Trimmed(s, t, n),
         \/ t.channel # NoChannel /\ t.channel.closing
         \/ s.channel = NoChannel \/ ~s.channel.closing
         \/ n = Len(Records(s)) /\ n > 0
  PROVE  Line(t, r, h) /\ Low(t) = Low(s) + n
<1>1. /\ Accounted(s, r) /\ Numbered(s, r, h) /\ Recorded(s, r) /\ InFlight(s, r, h)
      /\ Queued(s, r, h) /\ Room(s)
  BY DEF Line
<1>2. PICK l \in Nat : l = Len(Records(s))
  BY Lengths
<1>3. /\ DOMAIN Records(s) = 1 .. l /\ DOMAIN Records(t) = 1 .. l - n /\ n \in 0 .. l
      /\ Len(Records(t)) = l - n
      /\ \A i \in 1 .. n : Records(s)[i].acked
      /\ \A i \in 1 .. l - n : Records(t)[i] = Records(s)[n + i]
  BY <1>2, Lengths DEF Trimmed
<1>4. /\ s.outReliable \in Nat /\ r.inReliable \in Nat /\ s.pendingOutRec \in Nat
      /\ Low(s) \in Int /\ Low(t) \in Int /\ s.unnotified \in Nat /\ Taken(r) \in Nat
      /\ s.pendingOutRec = 0 => Low(s) = s.outReliable + 1 - l
      /\ s.pendingOutRec # 0 => Low(s) = s.pendingOutRec
      /\ s.pendingOutRec = 0 => Low(t) = s.outReliable + 1 - (l - n)
      /\ s.pendingOutRec # 0 => Low(t) = s.pendingOutRec
  BY <1>2, <1>3, Lengths, EndTypes
<1>5. s.pendingOutRec # 0 => l = 0 /\ n = 0
  <2>1. s.pendingOutRec # 0 => l = 0
    BY <1>1, <1>2 DEF Numbered
  <2> QED
    BY <1>3, <2>1
<1>6. Low(t) = Low(s) + n
  <2>1. CASE s.pendingOutRec = 0
    <3>1. PICK out \in Nat : out = s.outReliable
      BY <1>4
    <3>2. Low(s) = out + 1 - l /\ Low(t) = out + 1 - (l - n)
      BY <1>4, <2>1, <3>1
    <3> QED
      BY <3>1, <3>2
  <2>2. CASE s.pendingOutRec # 0
    BY <1>4, <1>5, <2>2
  <2> QED
    BY <2>1, <2>2
<1>7. Low(s) >= 1 /\ Low(s) - 1 <= r.inReliable /\ r.inReliable <= s.outReliable
  BY <1>1 DEF Numbered
<1>8. Low(t) - 1 <= r.inReliable
  <2> SUFFICES ASSUME ~(Low(s) + n - 1 <= r.inReliable) PROVE FALSE
    BY <1>4, <1>6
  <2>1. PICK q \in Nat : q = r.inReliable + 1
    BY <1>4
  <2>2. PICK i : i = q - Low(s) + 1
    OBVIOUS
  <2>3. i \in 1 .. n /\ i \in 1 .. l /\ q = Low(s) + i - 1
    <3>0. PICK L \in Int : L = Low(s)
      BY <1>4
    <3>1. q >= L /\ q <= L + n - 1 /\ i = q - L + 1 /\ n <= l
      <4>1. PICK m \in Nat : m = r.inReliable
        BY <1>4
      <4>2. q = m + 1 /\ L - 1 <= m /\ ~(L + n - 1 <= m) /\ i = q - L + 1 /\ n \in 0 .. l
        BY <1>3, <1>7, <2>1, <2>2, <3>0, <4>1
      <4> QED
        BY <4>2
    <3>2. i \in 1 .. n /\ i \in 1 .. l /\ q = L + i - 1
      BY <3>1
    <3> QED
      BY <3>0, <3>2
  <2>4. Records(s)[i].acked /\ Records(s)[i].bunch.seq = q /\ s.pendingOutRec = 0
    <3>1. i \in DOMAIN Records(s)
      BY <1>3, <2>3
    <3> QED
      BY <1>1, <1>3, <2>3, <3>1, RecordNumber
  <2>5. Has(r, q)
    <3>1. PICK o : o = Records(s)[i]
      OBVIOUS
    <3>2. RecordOK(s, r, o) /\ o.acked /\ o.bunch.seq = q
      BY <1>1, <1>3, <2>3, <2>4, <3>1 DEF Recorded
    <3> QED
      BY <3>2 DEF RecordOK
  <2>6. PICK j \in DOMAIN Queue(r) : Queue(r)[j].seq = q
    <3>1. ~(q <= r.inReliable)
      BY <1>4, <2>1
    <3> QED
      BY <2>5, <3>1 DEF Has
  <2>7. Ready(r)
    <3>1. DOMAIN Queue(r) = 1 .. Len(Queue(r)) /\ Len(Queue(r)) \in Nat
      BY Lengths
    <3>2. 1 \in DOMAIN Queue(r) /\ Queue(r) # <<>>
      BY <2>6, <3>1
    <3>3. Queue(r)[1].seq \in r.inReliable + 1 .. s.outReliable
      BY <1>1, <3>2 DEF Queued
    <3>4. j = 1 \/ Queue(r)[1].seq < Queue(r)[j].seq
      BY <1>1, <2>6, <3>1, <3>2 DEF Queued
    <3>5. Queue(r)[1].seq = r.inReliable + 1
      <4>1. PICK m \in Nat : m = r.inReliable
        BY <1>4
      <4>2. PICK c \in Int : c = Queue(r)[1].seq
        BY <3>3
      <4>3. q = m + 1 /\ c >= m + 1 /\ (c = q \/ c < q)
        <5>1. c >= m + 1
          BY <3>3, <4>1, <4>2
        <5> QED
          BY <2>1, <2>6, <3>4, <4>1, <4>2, <5>1
      <4> QED
        BY <4>1, <4>2, <4>3
    <3> QED
      BY <3>2, <3>5 DEF Ready
  <2>8. PICK k \in DOMAIN Records(s) : ~Records(s)[k].acked /\ Records(s)[k].bunch.seq <= r.inReliable
    BY <1>1, <2>4, <2>7 DEF Queued, Holding
  <2>9. Records(s)[k].bunch.seq = Low(s) + k - 1
    BY <1>1, RecordNumber
  <2>10. k \in 1 .. n
    <3>1. k \in 1 .. l /\ Low(s) + k - 1 <= r.inReliable
      BY <1>3, <2>8, <2>9
    <3> QED
      BY <1>3, <1>4, <2>1, <2>3, <3>1, SMTT(30)
  <2> QED
    BY <1>3, <2>8, <2>10
<1>9. Accounted(t, r)
  BY <1>1 DEF Accounted
<1>10. \A k : Carries(t, r, k) = Carries(s, r, k)
  BY DEF Carries
<1>11. Numbered(t, r, h)
  <2>1. \A i \in DOMAIN Records(t) : Records(t)[i].bunch = h[Low(t) + i - 1]
    <3> TAKE i \in DOMAIN Records(t)
    <3>1. n + i \in DOMAIN Records(s) /\ Records(t)[i] = Records(s)[n + i]
          /\ Low(s) + (n + i) - 1 = Low(t) + i - 1
      <4>1. i \in 1 .. l - n
        BY <1>3
      <4>2. n + i \in 1 .. l
        BY <1>3, <4>1
      <4>3. PICK L \in Int : L = Low(s) /\ Low(t) = L + n
        BY <1>4, <1>6
      <4>4. L + (n + i) - 1 = (L + n) + i - 1
        BY <4>1
      <4> QED
        BY <1>3, <4>1, <4>2, <4>3, <4>4
    <3> QED
      BY <1>1, <3>1 DEF Numbered
  <2>2. \A q \in Low(t) .. t.outReliable : WellFormed(h[q], q)
    <3> TAKE q \in Low(t) .. t.outReliable
    <3>1. q \in Low(s) .. s.outReliable
      BY <1>3, <1>4, <1>6
    <3> QED
      BY <1>1, <3>1 DEF Numbered
  <2>3. Low(t) >= 1
    BY <1>3, <1>4, <1>6, <1>7
  <2>4. t.pendingOutRec # 0 => Records(t) = <<>>
    <3>1. Len(Records(t)) = 0 => Records(t) = <<>>
      BY EndTypes
    <3> QED
      BY <1>3, <1>5, <3>1
  <2> QED
    BY <1>7, <1>8, <2>1, <2>2, <2>3, <2>4 DEF Numbered
<1>12. Recorded(t, r)
  <2> SUFFICES ASSUME NEW i \in DOMAIN Records(t) PROVE RecordOK(t, r, Records(t)[i])
    BY DEF Recorded
  <2>1. n + i \in DOMAIN Records(s) /\ Records(t)[i] = Records(s)[n + i]
    <3>1. i \in 1 .. l - n
      BY <1>3
    <3>2. n + i \in 1 .. l
      BY <1>3, <3>1
    <3> QED
      BY <1>3, <3>1, <3>2
  <2>2. PICK o : o = Records(t)[i]
    OBVIOUS
  <2>3. RecordOK(s, r, o)
    BY <1>1, <2>1, <2>2 DEF Recorded
  <2>4. RecordOK(t, r, o)
    BY <1>10, <2>3 DEF RecordOK
  <2> QED
    BY <2>2, <2>4
<1>13. InFlight(t, r, h)
  <2> SUFFICES ASSUME NEW k \in Taken(r) .. t.unnotified + 1, NEW j \in DOMAIN Carries(t, r, k)
               PROVE  BunchOK(t, h, k, Carries(t, r, k)[j])
    BY DEF InFlight
  <2>1. PICK b : b = Carries(t, r, k)[j]
    OBVIOUS
  <2>2. BunchOK(s, h, k, b)
    BY <1>1, <1>10, <2>1 DEF InFlight
  <2>3. CASE ~b.rel
    BY <2>1, <2>2, <2>3 DEF BunchOK
  <2>4. CASE b.rel /\ s.pendingOutRec # 0
    <3>1. n = 0 /\ Low(t) = Low(s)
      <4>1. n = 0
        BY <1>5, <2>4
      <4>2. Low(s) = s.pendingOutRec /\ Low(t) = s.pendingOutRec
        BY <1>4, <2>4
      <4> QED
        BY <4>1, <4>2
    <3> QED
      BY <2>1, <2>2, <2>4, <3>1 DEF BunchOK
  <2>5. CASE b.rel /\ s.pendingOutRec = 0
    <3>1. PICK q : q = b.tag.seq
      OBVIOUS
    <3>2. PICK i : i = q - Low(s) + 1
      OBVIOUS
    <3>3. /\ q \in Low(s) .. s.outReliable /\ b = OnWire(h[q])
          /\ ~Records(s)[i].acked /\ Records(s)[i].packet = k
      BY <2>2, <2>5, <3>1, <3>2 DEF BunchOK
    <3>4. i \in 1 .. l
      <4>1. PICK out \in Nat : out = s.outReliable
        BY <1>4
      <4>2. Low(s) = out + 1 - l
        BY <1>4, <2>5, <4>1
      <4>3. q \in out + 1 - l .. out /\ i = q - (out + 1 - l) + 1
        BY <3>2, <3>3, <4>1, <4>2
      <4> QED
        BY <4>3
    <3>5. ~(i \in 1 .. n)
      BY <1>3, <3>3
    <3>6. i - n \in 1 .. l - n /\ n + (i - n) = i /\ i - n = q - Low(t) + 1 /\ q \in Low(t) .. t.outReliable
      <4>1. PICK L \in Int : L = Low(s)
        BY <1>4
      <4>2. /\ q \in L .. s.outReliable /\ i = q - L + 1 /\ Low(t) = L + n /\ n \in 0 .. l /\ i \in 1 .. l
            /\ ~(i \in 1 .. n) /\ s.outReliable \in Nat
        BY <1>3, <1>4, <1>6, <3>2, <3>3, <3>4, <3>5, <4>1
      <4>3. i - n \in 1 .. l - n /\ n + (i - n) = i /\ i - n = q - (L + n) + 1 /\ q \in L + n .. s.outReliable
        BY <4>2
      <4> QED
        BY <4>2, <4>3
    <3>7. Records(t)[q - Low(t) + 1] = Records(s)[i]
      <4>1. Records(t)[i - n] = Records(s)[n + (i - n)]
        BY <1>3, <3>6
      <4> QED
        BY <3>6, <4>1
    <3> QED
      <4>1. BunchOK(t, h, k, b)
        BY <2>5, <3>1, <3>3, <3>6, <3>7, Zenon DEF BunchOK
      <4> QED
        BY <2>1, <4>1
  <2> QED
    BY <2>3, <2>4, <2>5
<1>14. Queued(t, r, h)
  <2>1. Holding(s, r) => Holding(t, r)
    <3> SUFFICES ASSUME Holding(s, r) PROVE Holding(t, r)
      OBVIOUS
    <3>1. PICK i \in DOMAIN Records(s) :
            ~Records(s)[i].acked /\ Records(s)[i].packet = Taken(r) /\ Records(s)[i].bunch.seq <= r.inReliable
      BY DEF Holding
    <3>2. ~(i \in 1 .. n)
      BY <1>3, <3>1
    <3>3. i - n \in 1 .. l - n /\ n + (i - n) = i
      BY <1>3, <3>1, <3>2
    <3>4. Records(t)[i - n] = Records(s)[i]
      BY <1>3, <3>3
    <3> QED
      BY <1>3, <3>1, <3>3, <3>4 DEF Holding
  <2> QED
    BY <1>1, <2>1 DEF Queued
<1>15. Room(t)
  <2>1. PICK L \in Int, out \in Nat, B \in Nat : L = Low(s) /\ out = s.outReliable /\ B = ReliableBuffer /\ B > 0
    BY <1>4, ChannelAssumption
  <2>2. /\ Span(s) = out + 1 - L /\ Span(t) = out + 1 - (L + n)
        /\ Span(s) <= B /\ (s.channel = NoChannel \/ ~s.channel.closing => Span(s) < B)
    BY <1>1, <1>6, <2>1 DEF Span, Room
  <2>3. Span(t) <= B
    BY <2>1, <2>2
  <2>4. CASE s.channel = NoChannel \/ ~s.channel.closing
    <3>1. Span(s) < B
      BY <2>2, <2>4
    <3>2. Span(t) < B
      BY <2>1, <2>2, <3>1
    <3> QED
      BY <2>1, <2>3, <3>2 DEF Room
  <2>5. CASE t.channel # NoChannel /\ t.channel.closing
    BY <2>1, <2>3, <2>5 DEF Room
  <2>6. CASE n = Len(Records(s)) /\ n > 0
    <3>1. s.pendingOutRec = 0
      BY <1>5, <2>6
    <3>2. L = out + 1 - l /\ n = l
      BY <1>2, <1>4, <2>1, <2>6, <3>1
    <3>3. Span(t) < B
      BY <2>1, <2>2, <3>2, SMTT(30)
    <3> QED
      BY <2>1, <2>3, <3>3 DEF Room
  <2> QED
    BY <2>4, <2>5, <2>6
<1> QED
  BY <1>6, <1>9, <1>11, <1>12, <1>13, <1>14, <1>15 DEF Line

-----------------------------------------------------------------------------
(* What a header tells of all that is kept.                                *)

\* g is f without the fate of the oldest packet.
Later(f, g) ==
  /\ f \in Seq(BOOLEAN) /\ g \in Seq(BOOLEAN) /\ Len(f) = Len(g) + 1
  /\ \A i \in 1 .. Len(g) : g[i] = f[i + 1]

LEMMA TellsDelivered ==
  ASSUME NEW s \in End, NEW t \in End,
         Records(t) = [i \in 1 .. Len(Records(s)) |-> AckedRecord(Records(s)[i])],
         NEW f, NEW g, Later(f, g), f[1], TellsAll(Records(t), g)
  PROVE  TellsAll(Records(s), f)
<1>1. DOMAIN Records(s) = 1 .. Len(Records(s)) /\ DOMAIN Records(t) = 1 .. Len(Records(s))
  BY Lengths
<1>2. ASSUME NEW i \in DOMAIN Records(s)
      PROVE  Records(s)[i].acked \/ (Records(s)[i].packet \in 1 .. Len(f) /\ f[Records(s)[i].packet])
  <2>1. PICK o \in OutBunch : o = Records(s)[i]
    BY RecordIn
  <2>2. PICK a \in Nat : a = o.packet
    BY <2>1 DEF OutBunch
  <2>3. Records(t)[i] = AckedRecord(o) /\ i \in DOMAIN Records(t)
    BY <1>1, <2>1
  <2>4. PICK k \in Nat : k = Len(g) /\ Len(f) = k + 1
    BY DEF Later
  <2>5. CASE a = 1
    <3>1. 1 \in 1 .. Len(f)
      BY <2>4
    <3> QED
      BY <2>1, <2>2, <2>5, <3>1
  <2>6. CASE a # 1 /\ ~o.acked
    <3>1. ~AckedRecord(o).acked
      BY <2>2, <2>6 DEF AckedRecord
    <3>2. AckedRecord(o).packet \in 1 .. k /\ g[AckedRecord(o).packet]
      BY <2>3, <2>4, <3>1 DEF TellsAll
    <3>3. AckedRecord(o).packet = (IF a = 0 THEN 0 ELSE a - 1)
      BY <2>2 DEF AckedRecord
    <3>4. a - 1 \in 1 .. k /\ AckedRecord(o).packet = a - 1
      BY <2>4, <3>2, <3>3
    <3>5. a \in 1 .. k + 1 /\ (a - 1) + 1 = a
      BY <2>4, <3>4
    <3>6. f[a] = g[a - 1]
      BY <2>4, <3>4, <3>5 DEF Later
    <3> QED
      BY <2>1, <2>2, <2>4, <3>2, <3>4, <3>5, <3>6
  <2> QED
    BY <2>1, <2>5, <2>6
<1> QED
  BY <1>2 DEF TellsAll

LEMMA TellsTrimmed ==
  ASSUME NEW s \in End, NEW t \in End, NEW n \in Nat, Trimmed(s, t, n), NEW f, TellsAll(Records(t), f)
  PROVE  TellsAll(Records(s), f)
<1>1. PICK l \in Nat : l = Len(Records(s))
  BY Lengths
<1>2. DOMAIN Records(s) = 1 .. l /\ DOMAIN Records(t) = 1 .. l - n /\ n \in 0 .. l
  BY <1>1, Lengths DEF Trimmed
<1>3. ASSUME NEW i \in DOMAIN Records(s)
      PROVE  Records(s)[i].acked \/ (Records(s)[i].packet \in 1 .. Len(f) /\ f[Records(s)[i].packet])
  <2>1. CASE i \in 1 .. n
    BY <2>1 DEF Trimmed
  <2>2. CASE ~(i \in 1 .. n)
    <3>1. i - n \in 1 .. l - n /\ n + (i - n) = i
      BY <1>2, <2>2
    <3>2. Records(t)[i - n] = Records(s)[i]
      <4>1. Records(t)[i - n] = Records(s)[n + (i - n)]
        BY <1>1, <3>1 DEF Trimmed
      <4> QED
        BY <3>1, <4>1
    <3> QED
      BY <1>2, <3>1, <3>2 DEF TellsAll
  <2> QED
    BY <2>1, <2>2
<1> QED
  BY <1>3 DEF TellsAll

LEMMA TellsLost ==
  ASSUME NEW s \in End, NEW t \in End,
         Records(t) = [i \in 1 .. Len(Records(s)) |-> NakedRecord(Records(s)[i], s.unnotified)],
         NEW f, NEW g, Later(f, g), Len(f) <= s.unnotified, TellsAll(Records(t), g)
  PROVE  TellsAll(Records(s), f)
<1>1. DOMAIN Records(s) = 1 .. Len(Records(s)) /\ DOMAIN Records(t) = 1 .. Len(Records(s))
  BY Lengths
<1>2. ASSUME NEW i \in DOMAIN Records(s)
      PROVE  Records(s)[i].acked \/ (Records(s)[i].packet \in 1 .. Len(f) /\ f[Records(s)[i].packet])
  <2>1. PICK o \in OutBunch : o = Records(s)[i]
    BY RecordIn
  <2>2. PICK a \in Nat : a = o.packet
    BY <2>1 DEF OutBunch
  <2>3. PICK K \in Nat : K = s.unnotified
    BY EndTypes
  <2>4. Records(t)[i] = NakedRecord(o, K) /\ i \in DOMAIN Records(t)
    BY <1>1, <2>1, <2>3
  <2>5. PICK k \in Nat : k = Len(g) /\ Len(f) = k + 1 /\ k + 1 <= K
    BY <2>3 DEF Later
  <2>6. CASE ~o.acked
    <3>1. NakedRecord(o, K).packet \in 1 .. k /\ g[NakedRecord(o, K).packet]
      BY <2>4, <2>5, <2>6 DEF TellsAll, NakedRecord
    <3>2. NakedRecord(o, K).packet = (IF a = 1 THEN K ELSE IF a = 0 THEN 0 ELSE a - 1)
      BY <2>2, <2>6 DEF NakedRecord, Lost
    <3>3. a - 1 \in 1 .. k /\ NakedRecord(o, K).packet = a - 1
      BY <2>3, <2>5, <3>1, <3>2
    <3>4. a \in 1 .. k + 1 /\ (a - 1) + 1 = a
      BY <2>5, <3>3
    <3>5. f[a] = g[a - 1]
      BY <2>5, <3>3, <3>4 DEF Later
    <3> QED
      BY <2>1, <2>2, <2>5, <3>1, <3>3, <3>4, <3>5
  <2> QED
    BY <2>1, <2>6
<1> QED
  BY <1>2 DEF TellsAll

-----------------------------------------------------------------------------
(* One notification.                                                       *)

Freed(s, t, h) ==
  /\ t.channel = NoChannel /\ Low(t) = s.outReliable + 1
  /\ \E q \in Low(s) .. s.outReliable : h[q].close

Kept(s, t, h) ==
  /\ t.channel # NoChannel /\ Queue(t) = Queue(s)
  /\ t.channel.inPartial = s.channel.inPartial
  /\ t.channel.opened = s.channel.opened /\ t.channel.closing = s.channel.closing
  /\ t.channel.openedLocally = s.channel.openedLocally
  /\ \/ t.channel.openAcked = s.channel.openAcked
     \/ \E q \in Low(s) .. s.outReliable : h[q].open
  /\ Low(s) <= s.outReliable /\ h[s.outReliable].close => Low(t) <= s.outReliable

\* The parts of an open are released only together.
Together(s, t, h) ==
  h[Low(s)].open /\ ~More(h[s.outReliable]) /\ Low(t) > Low(s)
    => \E q \in Low(s) .. Low(t) - 1 : ~More(h[q])

\* The close is the last bunch that is numbered.
LastCloses(s, h) == \A q \in Low(s) .. s.outReliable : h[q].close => q = s.outReliable

\* What becomes of a sender that is told the fate of packets.
Notes(s, t, h) ==
  /\ t \in End /\ t.state = s.state /\ t.wire = s.wire
  /\ t.outReliable = s.outReliable /\ t.inReliable = s.inReliable
  /\ t.pendingOutRec = s.pendingOutRec /\ t.fates = s.fates /\ t.receiving = s.receiving
  /\ Low(t) >= Low(s) /\ Together(s, t, h)
  /\ Records(s) = <<>> => Records(t) = <<>> /\ t.sendBuffer = s.sendBuffer
  /\ s.channel = NoChannel => t.channel = NoChannel /\ Low(t) = Low(s)
  /\ s.channel # NoChannel => Freed(s, t, h) \/ Kept(s, t, h)

LEMMA NotesTrans ==
  ASSUME NEW s \in End, NEW h \in History, NEW t, Notes(s, t, h), NEW u, Notes(t, u, h)
  PROVE  Notes(s, u, h)
<1>1. /\ t \in End /\ u \in End /\ u.state = s.state /\ u.wire = s.wire
      /\ u.outReliable = s.outReliable /\ u.inReliable = s.inReliable
      /\ u.pendingOutRec = s.pendingOutRec /\ u.fates = s.fates /\ u.receiving = s.receiving
      /\ t.outReliable = s.outReliable
      /\ Records(s) = <<>> => Records(u) = <<>> /\ u.sendBuffer = s.sendBuffer
      /\ s.channel = NoChannel => u.channel = NoChannel /\ Low(u) = Low(s)
  BY DEF Notes
<1>2. /\ Low(s) \in Int /\ Low(t) \in Int /\ Low(u) \in Int /\ s.outReliable \in Nat
  BY <1>1, Lengths, EndTypes
<1>3. Low(u) >= Low(s) /\ Low(t) >= Low(s)
  BY <1>2 DEF Notes
<1>4. \A q \in Low(t) .. s.outReliable : q \in Low(s) .. s.outReliable
  BY <1>2, <1>3
<1>5. ASSUME s.channel # NoChannel PROVE Freed(s, u, h) \/ Kept(s, u, h)
  <2>1. CASE Freed(s, t, h)
    BY <1>1, <2>1 DEF Freed, Notes
  <2>2. CASE Kept(s, t, h) /\ Freed(t, u, h)
    BY <1>1, <1>4, <2>2 DEF Freed
  <2>3. CASE Kept(s, t, h) /\ Kept(t, u, h)
    BY <1>1, <1>4, <2>3 DEF Kept
  <2> QED
    BY <1>5, <2>1, <2>2, <2>3 DEF Notes, Kept
<1>6. Together(s, u, h)
  <2> SUFFICES ASSUME h[Low(s)].open, ~More(h[s.outReliable]), Low(u) > Low(s)
               PROVE  \E q \in Low(s) .. Low(u) - 1 : ~More(h[q])
    BY DEF Together
  <2>1. Together(s, t, h) /\ Together(t, u, h) /\ Low(u) >= Low(t)
    BY DEF Notes
  <2>2. CASE Low(t) = Low(s)
    <3>1. \E q \in Low(t) .. Low(u) - 1 : ~More(h[q])
      BY <1>1, <2>1, <2>2 DEF Together
    <3> QED
      BY <2>2, <3>1
  <2>3. CASE Low(t) # Low(s)
    <3>1. Low(t) > Low(s)
      BY <1>2, <1>3, <2>3
    <3>2. PICK q \in Low(s) .. Low(t) - 1 : ~More(h[q])
      BY <2>1, <3>1 DEF Together
    <3>3. q \in Low(s) .. Low(u) - 1
      BY <1>2, <2>1
    <3> QED
      BY <3>2, <3>3
  <2> QED
    BY <2>2, <2>3
<1> QED
  BY <1>1, <1>3, <1>5, <1>6 DEF Notes

LEMMA NotesRefl ==
  ASSUME NEW s \in End, NEW h
  PROVE  Notes(s, s, h)
<1>1. Low(s) \in Int
  BY Lengths
<1>2. Low(s) >= Low(s) /\ Together(s, s, h)
  BY <1>1 DEF Together
<1> QED
  BY <1>2 DEF Notes, Kept

TellsBack(s, t, d) ==
  \A f, g : Later(f, g) /\ f[1] = d /\ Len(f) <= s.unnotified /\ TellsAll(Records(t), g)
              => TellsAll(Records(s), f)

LEMMA ReleasedLine ==
  ASSUME NEW s \in End, NEW r \in End, NEW h \in History, Line(s, r, h), s.channel # NoChannel,
         LastCloses(s, h), NEW t, AcksTaken(s, t)
  PROVE  /\ Line(t, r, h) /\ Notes(s, t, h) /\ t.unnotified = s.unnotified
         /\ \A f : TellsAll(Records(t), f) => TellsAll(Records(s), f)
<1>1. PICK recs \in Seq(OutBunch) : recs = Records(s) /\ recs = s.channel.outRec
  BY EndTypes DEF Records
<1>2. PICK n \in Nat : n = Released(recs)
  BY <1>1, ReleasedProps
<1>3. PICK l \in Nat : l = Len(recs)
  BY <1>1
<1>4. /\ n \in 0 .. l /\ \A i \in 1 .. n : recs[i].acked
      /\ Rest(recs) \in Seq(OutBunch) /\ Len(Rest(recs)) = l - n
      /\ \A i \in 1 .. l - n : Rest(recs)[i] = recs[n + i]
  <2>1. n \in 0 .. l /\ \A i \in 1 .. n : recs[i].acked
    BY <1>2, <1>3, ReleasedProps
  <2>2. /\ Rest(recs) \in Seq(OutBunch) /\ Len(Rest(recs)) = l - n
        /\ \A i \in 1 .. l - n : Rest(recs)[i] = recs[n + i]
    BY <1>2, <1>3, RestProps, SMTT(30)
  <2> QED
    BY <2>1, <2>2
<1> DEFINE closed == \E i \in 1 .. n : recs[i].bunch.close
<1>5. /\ t \in End
      /\ t.wire = s.wire /\ t.sendBuffer = s.sendBuffer /\ t.unnotified = s.unnotified
      /\ t.outReliable = s.outReliable /\ t.inReliable = s.inReliable
      /\ t.fates = s.fates /\ t.receiving = s.receiving
      /\ t.pendingOutRec = s.pendingOutRec
  BY DEF AcksTaken
<1>6. /\ Low(s) \in Int /\ Low(t) \in Int /\ s.outReliable \in Nat
       /\ Numbered(s, r, h) /\ DOMAIN Records(s) = 1 .. l
  BY <1>1, <1>3, <1>5, Lengths, EndTypes DEF Line
<1>7. ASSUME n > 0
       PROVE  /\ l > 0 /\ Low(s) = s.outReliable + 1 - l
              /\ Low(s) + l - 1 = s.outReliable /\ Low(s) \in Low(s) .. s.outReliable
              /\ recs[l].bunch = h[s.outReliable] /\ recs[1].bunch = h[Low(s)]
              /\ \A i \in 1 .. l : Low(s) + i - 1 \in Low(s) .. s.outReliable
                                   /\ recs[i].bunch = h[Low(s) + i - 1]
  <2>1. l > 0 /\ 1 \in DOMAIN Records(s)
    BY <1>4, <1>6, <1>7
  <2>2. s.pendingOutRec = 0
    BY <1>6, <2>1, RecordNumber
  <2>3. Low(s) = s.outReliable + 1 - l
    BY <1>1, <1>3, <2>2, Lengths
  <2>4. PICK out \in Nat : out = s.outReliable
    BY <1>6
  <2>5. PICK L \in Int : L = Low(s) /\ L = out + 1 - l
    BY <1>6, <2>3, <2>4
  <2>6. /\ L + l - 1 = out /\ L \in L .. out /\ L + 1 - 1 = L /\ 1 \in 1 .. l /\ l \in 1 .. l
        /\ \A i \in 1 .. l : L + i - 1 \in L .. out
    BY <2>1, <2>5
  <2>7. \A i \in 1 .. l : recs[i].bunch = h[L + i - 1]
    BY <1>1, <1>6, <2>5 DEF Numbered
  <2>8. recs[l].bunch = h[out] /\ recs[1].bunch = h[L]
    <3>1. recs[l].bunch = h[L + l - 1] /\ recs[1].bunch = h[L + 1 - 1]
      BY <2>6, <2>7
    <3> QED
      BY <2>6, <3>1
  <2> QED
    BY <2>1, <2>3, <2>4, <2>5, <2>6, <2>7, <2>8
<1>8. ASSUME closed PROVE Rest(recs) = <<>> /\ t.channel = NoChannel /\ t.state = s.state
  <2>1. PICK i \in 1 .. n : recs[i].bunch.close
    BY <1>8
  <2>2. n > 0 /\ i \in 1 .. l
    BY <1>4, <2>1
  <2>3. PICK L \in Int, out \in Nat : L = Low(s) /\ out = s.outReliable
    BY <1>6
  <2>4. L = out + 1 - l /\ L + i - 1 \in L .. out /\ recs[i].bunch = h[L + i - 1]
    BY <1>7, <2>2, <2>3
  <2>5. L + i - 1 = out
    BY <2>1, <2>3, <2>4 DEF LastCloses
  <2>6. l - n = 0
    BY <1>4, <2>1, <2>4, <2>5
  <2>7. Rest(recs) = <<>>
    BY <1>4, <2>6
  <2> QED
    BY <1>1, <1>2, <1>8, <2>7 DEF AcksTaken
<1>9. ASSUME ~closed
      PROVE  /\ t.channel # NoChannel /\ t.channel.outRec = Rest(recs) /\ t.state = s.state
             /\ t.channel.opened = s.channel.opened /\ t.channel.closing = s.channel.closing
             /\ t.channel.openedLocally = s.channel.openedLocally
             /\ t.channel.openAcked = (s.channel.openAcked \/ (n > 0 /\ recs[1].bunch.open))
             /\ t.channel.inRec = s.channel.inRec
             /\ t.channel.inPartial = s.channel.inPartial
  <2>1. ~(closed /\ Rest(recs) = <<>>)
    BY <1>9
  <2> QED
    BY <1>1, <1>2, <1>9, <2>1 DEF AcksTaken
<1>10. Records(t) = Rest(recs)
  <2>1. CASE closed
    BY <1>8, <2>1 DEF Records
  <2>2. CASE ~closed
    BY <1>9, <2>2 DEF Records
  <2> QED
    BY <2>1, <2>2
<1>11. Trimmed(s, t, n)
  BY <1>1, <1>3, <1>4, <1>10 DEF Trimmed
<1>12. closed => n = Len(Records(s)) /\ n > 0
  <2> SUFFICES ASSUME closed PROVE n = Len(Records(s)) /\ n > 0
    OBVIOUS
  <2>1. PICK i \in 1 .. n : recs[i].bunch.close
    OBVIOUS
  <2>2. Len(Rest(recs)) = 0
    BY <1>8
  <2>3. n = l /\ n > 0
    BY <1>4, <2>1, <2>2
  <2> QED
    BY <1>1, <1>3, <2>3
<1>13. \/ t.channel # NoChannel /\ t.channel.closing
       \/ s.channel = NoChannel \/ ~s.channel.closing
       \/ n = Len(Records(s)) /\ n > 0
  BY <1>9, <1>12
<1>14. Line(t, r, h) /\ Low(t) = Low(s) + n
  BY <1>5, <1>11, <1>13, LineReleased
<1>15. \A f : TellsAll(Records(t), f) => TellsAll(Records(s), f)
  BY <1>5, <1>11, TellsTrimmed
<1>16. Low(t) >= Low(s)
  BY <1>14, <1>6
<1>17. Together(s, t, h)
  <2> SUFFICES ASSUME h[Low(s)].open, ~More(h[s.outReliable]), Low(t) > Low(s)
               PROVE  \E q \in Low(s) .. Low(t) - 1 : ~More(h[q])
    BY DEF Together
  <2>1. n > 0
    <3>1. n = 0 => Low(t) = Low(s)
      BY <1>6, <1>14
    <3> QED
      BY <1>6, <3>1
  <2>2. l > 0 /\ recs # <<>> /\ recs[1].bunch.open /\ ~More(recs[l].bunch) /\ l \in 1 .. Len(recs)
    BY <1>3, <1>7, <2>1
  <2>3. PICK i \in 1 .. n : ~More(recs[i].bunch)
    BY <1>2, <2>1, <2>2, ReleasedTogether
  <2>4. i \in 1 .. l /\ Low(s) + i - 1 \in Low(s) .. Low(t) - 1
    BY <1>4, <1>6, <1>14
  <2>5. recs[i].bunch = h[Low(s) + i - 1]
    BY <1>7, <2>1, <2>4
  <2> QED
    BY <2>3, <2>4, <2>5
<1>18. CASE closed
  <2>1. PICK i \in 1 .. n : recs[i].bunch.close
    BY <1>18
  <2>2. n > 0 /\ i \in 1 .. l /\ n = l
    BY <1>1, <1>3, <1>4, <1>12, <1>18, <2>1
  <2>3. \E q \in Low(s) .. s.outReliable : h[q].close
    BY <1>7, <2>1, <2>2
  <2>4. Low(t) = s.outReliable + 1
    <3>1. Low(s) = s.outReliable + 1 - l /\ Low(t) = Low(s) + l
      BY <1>14, <1>7, <2>2
    <3> QED
      BY <1>6, <3>1
  <2>5. Freed(s, t, h)
    BY <1>8, <1>18, <2>3, <2>4 DEF Freed
  <2>6. Records(s) # <<>>
    BY <1>1, <1>3, <2>2
  <2>7. Notes(s, t, h)
    BY <1>5, <1>8, <1>16, <1>18, <1>17, <2>5, <2>6 DEF Notes
  <2> QED
    BY <1>5, <1>14, <1>15, <2>7
<1>19. CASE ~closed
  <2>1. \/ t.channel.openAcked = s.channel.openAcked
        \/ \E q \in Low(s) .. s.outReliable : h[q].open
    <3>1. CASE n > 0 /\ recs[1].bunch.open
      BY <1>7, <3>1
    <3>2. CASE ~(n > 0 /\ recs[1].bunch.open)
      <4>1. t.channel.openAcked = (s.channel.openAcked \/ FALSE)
        BY <1>9, <1>19, <3>2
      <4>2. s.channel.openAcked \in BOOLEAN
        BY ChannelIn DEF Channel
      <4> QED
        BY <4>1, <4>2
    <3> QED
      BY <3>1, <3>2
  <2>2. ASSUME Low(s) <= s.outReliable, h[s.outReliable].close
        PROVE  Low(t) <= s.outReliable
    <3> SUFFICES ASSUME ~(Low(t) <= s.outReliable) PROVE FALSE
      OBVIOUS
    <3>1. n > 0
      <4>1. n # 0
        <5>1. n = 0 => Low(t) = Low(s)
          BY <1>14, <1>6
        <5> QED
          BY <2>2, <5>1
      <4> QED
        BY <4>1
    <3>2. n = l
      <4>1. PICK L \in Int, out \in Nat : L = Low(s) /\ out = s.outReliable /\ L = out + 1 - l /\ ~(L + n <= out)
        BY <1>14, <1>6, <1>7, <3>1
      <4> QED
        BY <1>4, <4>1
    <3>3. recs[n].bunch.close /\ n \in 1 .. n
      <4>1. recs[l].bunch = h[s.outReliable]
        BY <1>7, <3>1
      <4> QED
        BY <2>2, <3>1, <3>2, <4>1
    <3> QED
      BY <1>19, <3>3
  <2>3. Kept(s, t, h)
    BY <1>9, <1>19, <2>1, <2>2 DEF Kept, Queue
  <2>4. Records(s) = <<>> => Records(t) = <<>>
    <3> SUFFICES ASSUME Records(s) = <<>> PROVE Records(t) = <<>>
      OBVIOUS
    <3>1. recs = <<>>
      BY <1>1
    <3>2. l = 0
      BY <1>3, <3>1
    <3>3. Len(Rest(recs)) = 0
      <4>1. n \in 0 .. l /\ l = 0
        BY <1>4, <3>2
      <4>2. l - n = 0
        BY <1>2, <1>3, <4>1
      <4> QED
        BY <1>4, <4>2
    <3> QED
      BY <1>4, <1>10, <3>3
  <2>5. Notes(s, t, h)
    BY <1>5, <1>9, <1>16, <1>19, <1>17, <2>3, <2>4 DEF Notes
  <2> QED
    BY <1>5, <1>14, <1>15, <2>5
<1> QED
  BY <1>18, <1>19

\* When bunches and numbers stay, but not the packets they are recorded under.
LEMMA NotesSame ==
  ASSUME NEW s \in End, NEW h \in History, NEW t \in End, s.channel # NoChannel, t.channel # NoChannel,
         t.state = s.state, t.wire = s.wire, t.outReliable = s.outReliable,
         t.inReliable = s.inReliable, t.pendingOutRec = s.pendingOutRec,
         t.fates = s.fates, t.receiving = s.receiving,
         t.channel.opened = s.channel.opened, t.channel.closing = s.channel.closing,
         t.channel.openedLocally = s.channel.openedLocally,
         t.channel.openAcked = s.channel.openAcked, t.channel.inRec = s.channel.inRec,
         t.channel.inPartial = s.channel.inPartial,
         Len(Records(t)) = Len(Records(s)), Records(s) = <<>> => t.sendBuffer = s.sendBuffer
  PROVE  Notes(s, t, h) /\ Low(t) = Low(s) /\ (Room(s) => Room(t))
<1>1. Low(t) = Low(s) /\ Low(s) \in Int
  BY Lengths DEF Low
<1>2. Low(t) >= Low(s) /\ Together(s, t, h)
  BY <1>1 DEF Together
<1>3. Kept(s, t, h)
  BY <1>1 DEF Kept, Queue
<1>4. Records(s) = <<>> => Records(t) = <<>>
  <2>1. Len(Records(t)) = 0 => Records(t) = <<>>
    BY EndTypes
  <2> QED
    BY <2>1
<1>5. Notes(s, t, h)
  BY <1>2, <1>3, <1>4 DEF Notes
<1>6. Room(s) => Room(t)
  BY <1>1 DEF Room, Span
<1> QED
  BY <1>1, <1>5, <1>6

LEMMA NotifiedLine ==
  ASSUME NEW s \in End, NEW r \in End, NEW h \in History, Line(s, r, h), NEW u, Shifted(r, u),
         LastCloses(s, h),
         NEW d \in BOOLEAN, d = r.fates[1], NEW t, t = Notified(s, d)
  PROVE  /\ Line(t, u, h) /\ Notes(s, t, h) /\ t.unnotified = s.unnotified - 1
         /\ TellsBack(s, t, d)
<1>1. /\ Taken(u) \in Nat /\ Taken(r) = Taken(u) + 1 /\ u \in End /\ Taken(r) <= s.unnotified
      /\ Accounted(s, r) /\ Room(s) /\ s.unnotified \in Nat
  <2>1. Accounted(s, r) /\ Room(s)
    BY DEF Line
  <2> QED
    BY <2>1, ShiftedTaken, Carried, EndTypes DEF Shifted
<1>2. s.unnotified >= 1
  BY <1>1
<1>3. PICK v : v = [s EXCEPT !.unnotified = @ - 1]
  OBVIOUS
<1>4. /\ v \in End /\ v.unnotified = s.unnotified - 1
      /\ v.wire = s.wire /\ v.sendBuffer = s.sendBuffer /\ v.state = s.state
      /\ v.channel = s.channel /\ v.outReliable = s.outReliable
      /\ v.inReliable = s.inReliable /\ v.pendingOutRec = s.pendingOutRec
      /\ v.fates = s.fates /\ v.receiving = s.receiving
  BY <1>2, <1>3, UnnotifiedType
<1>5. /\ s.channel = NoChannel => t = v
      /\ s.channel # NoChannel /\ d => t = ReceivedAck(v)
      /\ s.channel # NoChannel /\ ~d => t = ReceivedNak(v)
  BY <1>3 DEF Notified
<1>6. CASE s.channel = NoChannel
  <2>1. t = v /\ t \in End
    BY <1>4, <1>5, <1>6
  <2>2. Records(s) = <<>> /\ Records(t) = <<>> /\ Low(t) = Low(s)
    BY <1>4, <1>6, <2>1 DEF Records, Low
  <2>3. Len(Records(s)) = 0 /\ DOMAIN Records(s) = {}
    <3>1. Len(Records(s)) = 0
      BY <2>2
    <3>2. DOMAIN Records(s) = 1 .. 0
      BY <3>1, Lengths
    <3> QED
      BY <3>1, <3>2
  <2>4. Records(t) = [i \in 1 .. Len(Records(s)) |-> NakedRecord(Records(s)[i], s.unnotified)]
    <3>1. [i \in 1 .. 0 |-> NakedRecord(Records(s)[i], s.unnotified)] = <<>>
      OBVIOUS
    <3> QED
      BY <2>2, <2>3, <3>1
  <2>5. Rewritten(s, t)
    <3>1. PICK l \in Nat : l = Len(s.sendBuffer)
      BY Lengths
    <3>2. l >= l /\ l + 1 .. l = {}
      BY <3>1
    <3> QED
      BY <1>4, <2>1, <2>3, <3>1, <3>2 DEF Rewritten
  <2>6. Room(t)
    BY <1>1, <1>4, <2>1, <2>2 DEF Room, Span
  <2>7. Line(t, u, h)
    BY <1>4, <2>1, <2>4, <2>5, <2>6, LineNaked
  <2>8. Notes(s, t, h)
    <3>1. Low(s) \in Int
      BY Lengths
    <3>2. Low(t) >= Low(s) /\ Together(s, t, h)
      BY <2>2, <3>1 DEF Together
    <3> QED
      BY <1>4, <1>6, <2>1, <2>2, <3>2 DEF Notes
  <2>9. TellsBack(s, t, d)
    BY <2>3 DEF TellsBack, TellsAll
  <2> QED
    BY <1>4, <2>1, <2>7, <2>8, <2>9
<1>7. CASE s.channel # NoChannel /\ d
  <2>1. PICK m \in End :
           /\ AcksTaken(m, t)
           /\ m.channel \in Channel /\ m.channel # NoChannel
           /\ m.channel.outRec = [i \in 1 .. Len(v.channel.outRec) |-> AckedRecord(v.channel.outRec[i])]
           /\ m.channel.opened = v.channel.opened /\ m.channel.closing = v.channel.closing
           /\ m.channel.openedLocally = v.channel.openedLocally
           /\ m.channel.openAcked = v.channel.openAcked
           /\ m.channel.inRec = v.channel.inRec /\ m.channel.inPartial = v.channel.inPartial
           /\ m.state = v.state /\ m.wire = v.wire /\ m.sendBuffer = v.sendBuffer
           /\ m.unnotified = v.unnotified /\ m.outReliable = v.outReliable
           /\ m.inReliable = v.inReliable /\ m.pendingOutRec = v.pendingOutRec
           /\ m.fates = v.fates /\ m.receiving = v.receiving
    <3>1. t = ReceivedAck(v) /\ v.channel # NoChannel
      BY <1>4, <1>5, <1>7
    <3> QED
      BY <1>4, <3>1, ReceivedAckType, ZenonT(30)
  <2>2. Records(m) = [i \in 1 .. Len(Records(s)) |-> AckedRecord(Records(s)[i])]
    BY <1>4, <1>7, <2>1 DEF Records
  <2>3. Len(Records(m)) = Len(Records(s))
    <3>1. DOMAIN Records(m) = 1 .. Len(Records(m)) /\ Len(Records(m)) \in Nat /\ Len(Records(s)) \in Nat
      BY Lengths
    <3>2. DOMAIN Records(m) = 1 .. Len(Records(s))
      BY <2>2
    <3> QED
      BY <3>1, <3>2
  <2>4. Notes(s, m, h) /\ Room(m)
    BY <1>1, <1>4, <1>7, <2>1, <2>3, NotesSame
  <2>5. Line(m, u, h)
    <3>1. r.fates[1]
      BY <1>7
    <3>2. /\ m.wire = s.wire /\ m.unnotified = s.unnotified - 1 /\ m.outReliable = s.outReliable
          /\ m.pendingOutRec = s.pendingOutRec /\ m.sendBuffer = s.sendBuffer
      BY <1>4, <2>1
    <3> QED
      BY <2>2, <2>4, <3>1, <3>2, LineMarked
  <2>6. /\ Line(t, u, h) /\ Notes(m, t, h) /\ t.unnotified = m.unnotified
        /\ \A f : TellsAll(Records(t), f) => TellsAll(Records(m), f)
    <3>1. Low(m) = Low(s) /\ m.outReliable = s.outReliable
      BY <1>1, <1>4, <1>7, <2>1, <2>3, NotesSame
    <3>2. LastCloses(m, h)
      BY <3>1 DEF LastCloses
    <3> QED
      BY <1>1, <2>1, <2>5, <3>2, ReleasedLine
  <2>7. Notes(s, t, h)
    BY <2>4, <2>6, NotesTrans
  <2>8. TellsBack(s, t, d)
    <3> SUFFICES ASSUME NEW f, NEW g, Later(f, g), f[1] = d, Len(f) <= s.unnotified,
                        TellsAll(Records(t), g)
                 PROVE  TellsAll(Records(s), f)
      BY DEF TellsBack
    <3>1. TellsAll(Records(m), g) /\ f[1]
      BY <1>7, <2>6
    <3> QED
      BY <2>2, <3>1, TellsDelivered
  <2> QED
    BY <1>4, <2>1, <2>6, <2>7, <2>8
<1>8. CASE s.channel # NoChannel /\ ~d
  <2>1. Renaked(v, t)
    <3>1. t = ReceivedNak(v) /\ v.channel # NoChannel
      BY <1>4, <1>5, <1>8
    <3> QED
      BY <1>4, <3>1, ReceivedNakType
  <2>2. v.unnotified + 1 = s.unnotified
    BY <1>1, <1>4
  <2>3. Records(v) = Records(s) /\ Records(s) = v.channel.outRec
    BY <1>4, <1>8 DEF Records
  <2>4. Records(t) = [i \in 1 .. Len(Records(s)) |-> NakedRecord(Records(s)[i], s.unnotified)]
    BY <2>1, <2>2, <2>3 DEF Renaked, Records
  <2>5. t \in End
    BY <2>1 DEF Renaked
  <2>6. Len(Records(t)) = Len(Records(s)) /\ DOMAIN Records(s) = 1 .. Len(Records(s))
    <3>1. DOMAIN Records(t) = 1 .. Len(Records(t)) /\ Len(Records(t)) \in Nat /\ Len(Records(s)) \in Nat
      BY <2>5, Lengths
    <3>2. DOMAIN Records(t) = 1 .. Len(Records(s))
      BY <2>4
    <3> QED
      BY <3>1, <3>2, Lengths
  <2>7. Rewritten(s, t)
    <3>1. DOMAIN t.sendBuffer = 1 .. Len(t.sendBuffer)
      BY <2>5, Lengths
    <3>2. \A i \in DOMAIN Records(s) :
            Lost(Records(s)[i]) => Within(OnWire(Records(s)[i].bunch), t.sendBuffer)
      BY <2>1, <2>3, <2>6, <3>1 DEF Renaked, Within
    <3>3. /\ Len(t.sendBuffer) >= Len(s.sendBuffer)
          /\ \A j \in 1 .. Len(s.sendBuffer) : t.sendBuffer[j] = s.sendBuffer[j]
          /\ \A j \in Len(s.sendBuffer) + 1 .. Len(t.sendBuffer) :
               \E i \in DOMAIN Records(s) :
                 Lost(Records(s)[i]) /\ t.sendBuffer[j] = OnWire(Records(s)[i].bunch)
      BY <1>4, <2>1, <2>3, <2>6, SMTT(30) DEF Renaked
    <3> QED
      BY <3>2, <3>3 DEF Rewritten
  <2>8. Records(s) = <<>> => t.sendBuffer = s.sendBuffer
    <3> SUFFICES ASSUME Records(s) = <<>> PROVE t.sendBuffer = s.sendBuffer
      OBVIOUS
    <3>1. DOMAIN Records(s) = {}
      <4>1. Len(Records(s)) = 0
        OBVIOUS
      <4> QED
        BY <2>6, <4>1
    <3>2. PICK a \in Seq(Bunch) : a = s.sendBuffer
      BY EndTypes
    <3>3. PICK c \in Seq(Bunch) : c = t.sendBuffer
      BY <2>5, EndTypes
    <3>4. Len(c) >= Len(a) /\ (\A j \in 1 .. Len(a) : c[j] = a[j]) /\ ~(\E j \in Len(a) + 1 .. Len(c) : TRUE)
      BY <2>7, <3>1, <3>2, <3>3 DEF Rewritten
    <3>5. Len(c) = Len(a)
      BY <3>4
    <3>6. a = c
      BY <3>4, <3>5, SeqEqual
    <3> QED
      BY <3>2, <3>3, <3>6
  <2>9. Notes(s, t, h) /\ Room(t)
    <3>1. /\ t.channel # NoChannel
          /\ t.state = s.state /\ t.wire = s.wire /\ t.outReliable = s.outReliable
          /\ t.inReliable = s.inReliable /\ t.pendingOutRec = s.pendingOutRec
          /\ t.fates = s.fates /\ t.receiving = s.receiving
          /\ t.channel.opened = s.channel.opened /\ t.channel.closing = s.channel.closing
          /\ t.channel.openedLocally = s.channel.openedLocally
          /\ t.channel.openAcked = s.channel.openAcked /\ t.channel.inRec = s.channel.inRec
          /\ t.channel.inPartial = s.channel.inPartial
      BY <1>4, <2>1 DEF Renaked
    <3> QED
      BY <1>1, <1>8, <2>5, <2>6, <2>8, <3>1, NotesSame
  <2>10. /\ t.wire = s.wire /\ t.unnotified = s.unnotified - 1 /\ t.outReliable = s.outReliable
         /\ t.pendingOutRec = s.pendingOutRec
    BY <1>4, <2>1 DEF Renaked
  <2>11. Line(t, u, h)
    BY <2>4, <2>5, <2>7, <2>9, <2>10, LineNaked
  <2>12. TellsBack(s, t, d)
    <3> SUFFICES ASSUME NEW f, NEW g, Later(f, g), f[1] = d, Len(f) <= s.unnotified,
                        TellsAll(Records(t), g)
                 PROVE  TellsAll(Records(s), f)
      BY DEF TellsBack
    <3> QED
      BY <2>4, <2>5, TellsLost
  <2> QED
    BY <2>9, <2>10, <2>11, <2>12
<1> QED
  BY <1>6, <1>7, <1>8

-----------------------------------------------------------------------------
(* The notifications of a header.                                          *)

Dropped(r, k) == [r EXCEPT !.fates = DropFates(r.fates, k)]

LEMMA DroppedType ==
  ASSUME NEW r \in End, NEW k \in Nat, k <= Len(r.fates)
  PROVE  /\ Dropped(r, k) \in End /\ Dropped(r, k).fates = DropFates(r.fates, k)
         /\ Dropped(r, k).receiving = r.receiving /\ Dropped(r, k).inReliable = r.inReliable
         /\ Queue(Dropped(r, k)) = Queue(r)
         /\ Len(Dropped(r, k).fates) = Len(r.fates) - k
         /\ \A i \in 1 .. Len(r.fates) - k : Dropped(r, k).fates[i] = r.fates[k + i]
<1>1. /\ DropFates(r.fates, k) \in Seq(BOOLEAN) /\ Len(DropFates(r.fates, k)) = Len(r.fates) - k
      /\ \A i \in 1 .. Len(r.fates) - k : DropFates(r.fates, k)[i] = r.fates[k + i]
  BY EndTypes, DropFatesProps
<1>2. PICK f \in Seq(BOOLEAN) : f = DropFates(r.fates, k)
  BY <1>1
<1>3. PICK t : t = [r EXCEPT !.fates = f]
  OBVIOUS
<1>4. t \in End /\ t.fates = f /\ t.receiving = r.receiving /\ t.inReliable = r.inReliable
      /\ t.channel = r.channel
  BY <1>3 DEF End
<1>5. t = Dropped(r, k)
  BY <1>2, <1>3 DEF Dropped
<1> QED
  BY <1>1, <1>2, <1>4, <1>5 DEF Queue

TellsOver(s, x, fates, k) ==
  \A f \in Seq(BOOLEAN) :
    Begins(fates, f) /\ Len(f) <= s.unnotified /\ TellsAll(Records(x), DropFates(f, k))
      => TellsAll(Records(s), f)

\* What is so after k notifications.
SoFar(s, r, h, fates, k, x) ==
  /\ x \in End /\ Bounded(x) /\ x.unnotified = s.unnotified - k
  /\ Line(x, Dropped(r, k), h) /\ Notes(s, x, h) /\ TellsOver(s, x, fates, k)

LEMMA NotedNext ==
  ASSUME NEW s \in End, NEW r \in End, NEW h \in History, NEW fates \in Seq(BOOLEAN),
         Begins(fates, r.fates), Len(fates) <= s.unnotified, LastCloses(s, h),
         NEW i \in 1 .. Len(fates), NEW x, SoFar(s, r, h, fates, i - 1, x),
         NEW y, y = Notified(x, fates[i])
  PROVE  SoFar(s, r, h, fates, i, y)
<1>1. PICK n \in Nat, N \in Nat, F \in Nat : n = Len(fates) /\ N = s.unnotified /\ F = Len(r.fates)
  <2>1. Len(fates) \in Nat
    OBVIOUS
  <2>2. s.unnotified \in Nat /\ Len(r.fates) \in Nat
    BY EndTypes, Lengths
  <2> QED
    BY <2>1, <2>2
<1>2. n <= N /\ n <= F /\ i \in 1 .. n /\ i - 1 \in Nat /\ i \in Nat /\ fates[i] \in BOOLEAN
      /\ fates[i] = r.fates[i] /\ i - 1 <= F /\ i <= F
  BY <1>1 DEF Begins
<1>3. x \in End /\ Bounded(x) /\ x.unnotified = N - (i - 1) /\ x.unnotified >= 1
  BY <1>1, <1>2 DEF SoFar
<1>4. y \in End /\ Bounded(y) /\ y.unnotified = N - i
  <2>1. Noted(x, 1, y)
    BY <1>2, <1>3, NotifiedType
  <2>2. y \in End /\ Bounded(y) /\ y.unnotified = x.unnotified - 1
    BY <2>1 DEF Noted
  <2>3. N - (i - 1) - 1 = N - i
    BY <1>1, <1>2
  <2> QED
    BY <1>3, <2>2, <2>3
<1>5. Line(y, Dropped(r, i), h) /\ Notes(s, y, h) /\ TellsOver(s, y, fates, i)
  <2>1. LastCloses(x, h)
    <3>1. x.outReliable = s.outReliable /\ Low(x) >= Low(s)
      BY DEF SoFar, Notes
    <3>2. PICK L \in Int, M \in Int, O \in Nat : L = Low(s) /\ M = Low(x) /\ O = s.outReliable
      BY <1>3, Lengths, EndTypes
    <3>3. \A q \in M .. O : q \in L .. O
      BY <3>1, <3>2
    <3> QED
      BY <3>1, <3>2, <3>3 DEF LastCloses
  <2>2. Line(x, Dropped(r, i - 1), h) /\ Notes(s, x, h) /\ TellsOver(s, x, fates, i - 1)
    BY DEF SoFar
  <2>3. PICK a \in End : a = Dropped(r, i - 1)
    BY <1>1, <1>2, DroppedType
  <2>4. PICK c \in End : c = Dropped(r, i)
    BY <1>1, <1>2, DroppedType
  <2>5. /\ a.receiving = r.receiving /\ a.inReliable = r.inReliable /\ Queue(a) = Queue(r)
        /\ Len(a.fates) = F - (i - 1)
        /\ \A j \in 1 .. F - (i - 1) : a.fates[j] = r.fates[i - 1 + j]
    BY <1>1, <1>2, <2>3, DroppedType, ZenonT(30)
  <2>6. /\ c.receiving = r.receiving /\ c.inReliable = r.inReliable /\ Queue(c) = Queue(r)
        /\ Len(c.fates) = F - i
        /\ \A j \in 1 .. F - i : c.fates[j] = r.fates[i + j]
    BY <1>1, <1>2, <2>4, DroppedType, ZenonT(30)
  <2>7. Shifted(a, c)
    <3>1. Len(a.fates) >= 1 /\ Len(c.fates) = Len(a.fates) - 1 /\ Len(a.fates) - 1 = F - i
      BY <1>1, <1>2, <2>5, <2>6
    <3>2. \A j \in 1 .. F - i : c.fates[j] = a.fates[j + 1]
      <4> TAKE j \in 1 .. F - i
      <4>1. j + 1 \in 1 .. F - (i - 1) /\ i - 1 + (j + 1) = i + j
        BY <1>1, <1>2
      <4>2. a.fates[j + 1] = r.fates[i - 1 + (j + 1)]
        BY <2>5, <4>1
      <4> QED
        BY <2>6, <4>1, <4>2
    <3> QED
      BY <2>5, <2>6, <3>1, <3>2 DEF Shifted
  <2>8. fates[i] = a.fates[1]
    <3>1. 1 \in 1 .. F - (i - 1) /\ i - 1 + 1 = i
      BY <1>1, <1>2
    <3>2. a.fates[1] = r.fates[i - 1 + 1]
      BY <2>5, <3>1
    <3> QED
      BY <1>2, <3>1, <3>2
  <2>9. Line(y, c, h) /\ Notes(x, y, h) /\ TellsBack(x, y, fates[i])
    BY <1>2, <1>3, <2>1, <2>2, <2>3, <2>7, <2>8, NotifiedLine
  <2>10. Notes(s, y, h)
    BY <2>2, <2>9, NotesTrans
  <2>11. TellsOver(s, y, fates, i)
    <3> SUFFICES ASSUME NEW f \in Seq(BOOLEAN), Begins(fates, f), Len(f) <= s.unnotified,
                        TellsAll(Records(y), DropFates(f, i))
                 PROVE  TellsAll(Records(s), f)
      BY DEF TellsOver
    <3>1. PICK m \in Nat : m = Len(f)
      OBVIOUS
    <3>2. n <= m /\ m <= N /\ f[i] = fates[i] /\ i - 1 <= m /\ i <= m
      BY <1>1, <1>2, <3>1 DEF Begins
    <3>3. /\ DropFates(f, i - 1) \in Seq(BOOLEAN) /\ Len(DropFates(f, i - 1)) = m - (i - 1)
          /\ \A j \in 1 .. m - (i - 1) : DropFates(f, i - 1)[j] = f[i - 1 + j]
      BY <1>2, <3>1, <3>2, DropFatesProps
    <3>4. /\ DropFates(f, i) \in Seq(BOOLEAN) /\ Len(DropFates(f, i)) = m - i
          /\ \A j \in 1 .. m - i : DropFates(f, i)[j] = f[i + j]
      BY <1>2, <3>1, <3>2, DropFatesProps
    <3>5. Later(DropFates(f, i - 1), DropFates(f, i))
      <4>1. m - (i - 1) = m - i + 1
        BY <1>2, <3>1
      <4>2. \A j \in 1 .. m - i : DropFates(f, i)[j] = DropFates(f, i - 1)[j + 1]
        <5> TAKE j \in 1 .. m - i
        <5>1. j + 1 \in 1 .. m - (i - 1) /\ i - 1 + (j + 1) = i + j
          <6>1. PICK k \in Nat : k = i
            BY <1>2
          <6>2. j \in 1 .. m - k
            BY <6>1
          <6> QED
            BY <3>1, <6>1, <6>2
        <5>2. DropFates(f, i - 1)[j + 1] = f[i - 1 + (j + 1)]
          BY <3>3, <5>1
        <5> QED
          BY <3>4, <5>1, <5>2
      <4> QED
        BY <3>3, <3>4, <4>1, <4>2 DEF Later
    <3>6. DropFates(f, i - 1)[1] = fates[i] /\ Len(DropFates(f, i - 1)) <= x.unnotified
      <4>1. 1 \in 1 .. m - (i - 1) /\ i - 1 + 1 = i /\ m - (i - 1) <= N - (i - 1)
        BY <1>1, <1>2, <3>1, <3>2
      <4>2. DropFates(f, i - 1)[1] = f[i - 1 + 1]
        BY <3>3, <4>1
      <4> QED
        BY <1>3, <3>2, <3>3, <4>1, <4>2
    <3>7. TellsAll(Records(x), DropFates(f, i - 1))
      BY <2>9, <3>5, <3>6 DEF TellsBack
    <3> QED
      BY <2>2, <3>7 DEF TellsOver
  <2> QED
    BY <2>4, <2>9, <2>10, <2>11
<1> QED
  BY <1>1, <1>4, <1>5 DEF SoFar

LEMMA AllNotifiedLine ==
  ASSUME NEW s \in End, Bounded(s), NEW r \in End, NEW h \in History, Line(s, r, h),
         NEW fates \in Seq(BOOLEAN), Begins(fates, r.fates), NEW n, n = Len(fates),
         LastCloses(s, h), NEW t, t = AllNotified(s, fates)
  PROVE  /\ Line(t, Dropped(r, n), h) /\ Notes(s, t, h) /\ TellsOver(s, t, fates, n)
<1>1. n \in Nat /\ Len(r.fates) \in Nat /\ n <= Len(r.fates)
  BY Lengths DEF Begins
<1>2. n <= s.unnotified
  <2>1. Accounted(s, r)
    BY DEF Line
  <2>2. Taken(r) \in Nat /\ Taken(r) <= s.unnotified /\ Len(r.fates) <= Taken(r) /\ s.unnotified \in Nat
    BY <2>1, Carried, TakenType, EndTypes
  <2> QED
    BY <1>1, <2>2
<1>3. PICK D : D = [k \in 0 .. n |-> {x \in End : SoFar(s, r, h, fates, k, x)}]
  OBVIOUS
<1>4. \A k \in 0 .. n : \A x : x \in D[k] <=> SoFar(s, r, h, fates, k, x)
  BY <1>3 DEF SoFar
<1>5. SoFar(s, r, h, fates, 0, s)
  <2>1. /\ Dropped(r, 0) \in End
        /\ Dropped(r, 0).receiving = r.receiving /\ Dropped(r, 0).inReliable = r.inReliable
        /\ Queue(Dropped(r, 0)) = Queue(r) /\ Dropped(r, 0).fates = DropFates(r.fates, 0)
    BY <1>1, DroppedType
  <2>2. \A f \in Seq(BOOLEAN) : DropFates(f, 0) = f
    <3> TAKE f \in Seq(BOOLEAN)
    <3>1. /\ DropFates(f, 0) \in Seq(BOOLEAN) /\ Len(DropFates(f, 0)) = Len(f) - 0
          /\ \A i \in 1 .. Len(f) - 0 : DropFates(f, 0)[i] = f[0 + i]
      BY DropFatesProps
    <3>2. Len(f) - 0 = Len(f) /\ \A i \in 1 .. Len(f) : 0 + i = i
      OBVIOUS
    <3>3. PICK g \in Seq(BOOLEAN) : g = DropFates(f, 0)
      BY <3>1
    <3>4. Len(g) = Len(f) /\ \A i \in 1 .. Len(f) : g[i] = f[i]
      BY <3>1, <3>2, <3>3
    <3> QED
      BY <3>3, <3>4, SeqEqual
  <2>3. SameReceiver(r, Dropped(r, 0))
    BY <2>1, <2>2, EndTypes DEF SameReceiver
  <2>4. SameSender(s, s) /\ Room(s)
    BY DEF SameSender, Line
  <2>5. Line(s, Dropped(r, 0), h)
    BY <2>3, <2>4, LineFrame
  <2>6. TellsOver(s, s, fates, 0)
    BY <2>2 DEF TellsOver
  <2>7. s.unnotified = s.unnotified - 0
    BY EndTypes
  <2> QED
    BY <2>5, <2>6, <2>7, NotesRefl DEF SoFar
<1>6. ASSUME NEW i \in 1 .. n, NEW x \in D[i - 1] PROVE Notified(x, fates[i]) \in D[i]
  <2>1. i - 1 \in 0 .. n /\ i \in 0 .. n
    BY <1>1
  <2>2. SoFar(s, r, h, fates, i - 1, x)
    BY <1>4, <2>1
  <2>3. SoFar(s, r, h, fates, i, Notified(x, fates[i]))
    BY <1>2, <2>2, NotedNext
  <2> QED
    BY <1>4, <2>1, <2>3
<1>7. AllNotified(s, fates) \in D[Len(fates)]
  <2>1. s \in D[0]
    BY <1>1, <1>4, <1>5
  <2>2. \A i \in 1 .. Len(fates) : \A x \in D[i - 1] : Notified(x, fates[i]) \in D[i]
    BY <1>6
  <2> QED
    BY <1>1, <2>1, <2>2, AllNotifiedBy
<1>8. SoFar(s, r, h, fates, n, t)
  BY <1>1, <1>4, <1>7
<1> QED
  BY <1>8 DEF SoFar

-----------------------------------------------------------------------------
(* More steps of a receiver.                                               *)

\* A receiver that forgets its queue, when nothing is kept for it.
LEMMA LineEmptied ==
  ASSUME NEW s \in End, NEW r \in End, NEW h \in History, Line(s, r, h), Records(s) = <<>>,
         NEW u \in End, u.inReliable = r.inReliable, u.fates = r.fates,
         u.receiving = r.receiving, Queue(u) = <<>>
  PROVE  Line(s, u, h)
<1>1. Taken(u) = Taken(r)
  BY DEF Taken
<1>2. Accounted(s, u) /\ Numbered(s, u, h)
  BY <1>1 DEF Line, Accounted, Numbered
<1>3. \A k : Carries(s, u, k) = Carries(s, r, k)
  BY <1>1 DEF Carries
<1>4. Recorded(s, u)
  <2>1. DOMAIN Records(s) = 1 .. 0
    BY Lengths
  <2>2. \A i \in 1 .. 0 : FALSE
    OBVIOUS
  <2> QED
    BY <2>1, <2>2 DEF Recorded
<1>5. InFlight(s, u, h)
  BY <1>1, <1>3 DEF Line, InFlight
<1>6. Queued(s, u, h)
  <2>1. DOMAIN Queue(u) = 1 .. 0
    BY Lengths
  <2>2. \A i \in 1 .. 0 : FALSE
    OBVIOUS
  <2>3. ~Ready(u)
    BY DEF Ready
  <2> QED
    BY <2>1, <2>2, <2>3 DEF Queued
<1> QED
  BY <1>2, <1>4, <1>5, <1>6 DEF Line

\* The first i packets of s are out of the way, the last of them is worked through.
PassedOn(s, i, z) ==
  /\ z \in End /\ i \in 1 .. Len(s.wire) /\ Len(z.wire) = Len(s.wire) - i
  /\ \A j \in 1 .. Len(s.wire) - i : z.wire[j].bunches = s.wire[i + j].bunches
  /\ z.sendBuffer = s.sendBuffer /\ z.unnotified = s.unnotified
  /\ z.outReliable = s.outReliable /\ z.pendingOutRec = s.pendingOutRec
  /\ Records(z) = Records(s)

LetInto(s, r, i, y) ==
  /\ y \in End /\ ~r.receiving.busy /\ y.fates = r.fates /\ y.inReliable = r.inReliable
  /\ Queue(y) = Queue(r)
  /\ y.receiving.busy /\ y.receiving.bunches = s.wire[i].bunches
  /\ y.receiving.lost = i - 1

LEMMA LineLetIn ==
  ASSUME NEW s \in End, NEW r \in End, NEW h \in History, Line(s, r, h),
         NEW i, NEW z, PassedOn(s, i, z), NEW y, LetInto(s, r, i, y), Room(z)
  PROVE  Line(z, y, h)
<1>1. /\ Accounted(s, r) /\ Numbered(s, r, h) /\ Recorded(s, r) /\ InFlight(s, r, h)
      /\ Queued(s, r, h)
  BY DEF Line
<1>2. z \in End /\ y \in End /\ i \in 1 .. Len(s.wire) /\ Len(s.wire) \in Nat /\ Len(z.wire) = Len(s.wire) - i
  BY Lengths DEF PassedOn, LetInto
<1>3. PICK T \in Nat, F \in Nat, U \in Nat, L \in Nat :
        T = Taken(r) /\ F = Len(r.fates) /\ U = s.unnotified /\ L = Len(s.wire)
  BY Lengths, EndTypes
<1>4. T = F /\ U = T + L
  BY <1>1, <1>3 DEF Taken, Accounted, LetInto
<1>5. Taken(y) = T + i /\ i \in Nat /\ i \in 1 .. L
  <2>1. Taken(y) = F + (i - 1 + 1)
    BY <1>3 DEF Taken, LetInto
  <2> QED
    BY <1>2, <1>3, <1>4, <2>1
<1>a. PICK Y \in Nat, I \in Nat : Y = Taken(y) /\ I = i /\ Y = T + I /\ I >= 1 /\ I <= L
  <2>1. T + i \in Nat /\ i >= 1 /\ i <= L
    BY <1>5
  <2> QED
    BY <1>5, <2>1
<1>b. Y \in T + 1 .. U /\ Y - T = I
  <2>1. T \in Nat /\ L \in Nat /\ U \in Nat /\ Y \in Nat /\ I \in Nat
    BY <1>3, <1>a
  <2>2. U = T + L
    BY <1>4
  <2>3. Y = T + I /\ I >= 1 /\ I <= L
    BY <1>a
  <2> QED
    BY <2>1, <2>2, <2>3
<1>6. Accounted(z, y)
  <2>1. U = Y + (L - I)
    BY <1>4, <1>a
  <2>2. z.unnotified = Taken(y) + Len(z.wire)
    BY <1>2, <1>3, <1>a, <2>1 DEF PassedOn
  <2> QED
    BY <2>2 DEF Accounted, LetInto
<1>7. \A k \in Taken(y) .. U + 1 : Carries(z, y, k) = Carries(s, r, k)
  <2> TAKE k \in Taken(y) .. U + 1
  <2>1. CASE k = U + 1
    BY <1>3, <2>1 DEF Carries, PassedOn
  <2>2. CASE k = Taken(y)
    <3>1. Carries(z, y, k) = y.receiving.bunches
      BY <1>2, <1>6, <2>2, Carried
    <3>2. k \in T + 1 .. U /\ k - T = i
      BY <1>a, <1>b, <2>2
    <3>3. Carries(s, r, k) = s.wire[k - T].bunches
      BY <1>1, <1>3, <3>2, Carried
    <3> QED
      BY <3>1, <3>2, <3>3 DEF LetInto
  <2>3. CASE k \in Taken(y) + 1 .. U
    <3>1. Carries(z, y, k) = z.wire[k - Taken(y)].bunches
      BY <1>2, <1>3, <1>6, <2>3, Carried DEF PassedOn
    <3>2. k \in T + 1 .. U /\ k - Taken(y) \in 1 .. L - i /\ i + (k - Taken(y)) = k - T
      BY <1>4, <1>a, <2>3
    <3>3. Carries(s, r, k) = s.wire[k - T].bunches
      BY <1>1, <1>3, <3>2, Carried
    <3>4. z.wire[k - Taken(y)].bunches = s.wire[i + (k - Taken(y))].bunches
      BY <1>3, <3>2 DEF PassedOn
    <3> QED
      BY <3>1, <3>2, <3>3, <3>4
  <2>4. k = U + 1 \/ k = Taken(y) \/ k \in Taken(y) + 1 .. U
    BY <1>4, <1>a
  <2> QED
    BY <2>1, <2>2, <2>3, <2>4
<1>8. Low(z) = Low(s)
  BY DEF Low, PassedOn
<1>9. Numbered(z, y, h)
  BY <1>1, <1>8 DEF Numbered, PassedOn, LetInto
<1>10. \A q : Has(y, q) <=> Has(r, q)
  BY DEF Has, LetInto
<1>11. Recorded(z, y)
  <2> SUFFICES ASSUME NEW m \in DOMAIN Records(z) PROVE RecordOK(z, y, Records(z)[m])
    BY DEF Recorded
  <2>1. PICK o : o = Records(z)[m]
    OBVIOUS
  <2>2. RecordOK(s, r, o) /\ o \in OutBunch
    BY <1>1, <2>1, RecordIn DEF Recorded, PassedOn
  <2>3. o.packet \in Nat /\ o.acked \in BOOLEAN
    BY <2>2 DEF OutBunch
  <2>4. /\ o.acked => o.packet = 0
        /\ ~o.acked => o.packet \in 1 .. z.unnotified + 1
        /\ o.acked \/ (o.packet \in 1 .. Len(y.fates) /\ y.fates[o.packet]) => Has(y, o.bunch.seq)
    BY <1>10, <2>2 DEF RecordOK, PassedOn, LetInto
  <2>5. ASSUME o.packet >= Taken(y)
        PROVE  Within(OnWire(o.bunch), Carries(z, y, o.packet))
    <3>1. o.packet > T /\ o.packet # 0
      BY <1>3, <1>5, <2>3, <2>5
    <3>2. o.packet \in 1 .. U + 1
      BY <1>3, <2>4, <3>1 DEF PassedOn
    <3>3. o.packet \in Taken(y) .. U + 1
      BY <1>3, <1>5, <2>3, <2>5, <3>2
    <3> QED
      BY <1>3, <1>7, <2>2, <3>1, <3>3 DEF RecordOK
  <2>6. o.packet > Taken(y) => Within(OnWire(o.bunch), Carries(z, y, o.packet))
    <3>1. o.packet > Taken(y) => o.packet >= Taken(y)
      BY <1>3, <1>5, <2>3
    <3> QED
      BY <2>5, <3>1
  <2>7. ASSUME o.packet = Taken(y) PROVE Within(OnWire(o.bunch), y.receiving.bunches)
    <3>1. o.packet >= Taken(y)
      BY <1>3, <1>5, <2>3, <2>7
    <3> QED
      BY <1>2, <1>6, <2>5, <2>7, <3>1, Carried
  <2>8. RecordOK(z, y, o)
    BY <2>4, <2>6, <2>7 DEF RecordOK
  <2> QED
    BY <2>1, <2>8
<1>12. InFlight(z, y, h)
  <2> SUFFICES ASSUME NEW k \in Taken(y) .. z.unnotified + 1, NEW j \in DOMAIN Carries(z, y, k)
               PROVE  BunchOK(z, h, k, Carries(z, y, k)[j])
    BY DEF InFlight
  <2>1. k \in Taken(y) .. U + 1
    BY <1>3 DEF PassedOn
  <2>2. k \in Taken(r) .. s.unnotified + 1
    BY <1>3, <1>5, <2>1
  <2>3. Carries(z, y, k) = Carries(s, r, k)
    BY <1>7, <2>1
  <2>4. PICK b : b = Carries(z, y, k)[j]
    OBVIOUS
  <2>5. BunchOK(s, h, k, b)
    BY <1>1, <2>2, <2>3, <2>4 DEF InFlight
  <2>6. BunchOK(z, h, k, b)
    BY <1>8, <2>5 DEF BunchOK, PassedOn
  <2> QED
    BY <2>4, <2>6
<1>13. Queued(z, y, h)
  <2>1. ~Ready(r)
    BY <1>1 DEF Queued, LetInto
  <2>2. ~Ready(y)
    BY <2>1 DEF Ready, LetInto
  <2> QED
    BY <1>1, <2>2 DEF Queued, PassedOn, LetInto
<1> QED
  BY <1>6, <1>9, <1>11, <1>12, <1>13 DEF Line

\* The fates of the packets that were given up, and of the one that was let in.
Answers(r) ==
  r.fates \o [i \in 1..r.receiving.lost |-> FALSE] \o <<~r.receiving.skipAck>>

AnswersAre(r, f, F, l) ==
  /\ F \in Nat /\ l \in Nat /\ f \in Seq(BOOLEAN) /\ Len(f) = F + l + 1
  /\ \A i \in 1 .. F : f[i] = r.fates[i]
  /\ \A i \in F + 1 .. F + l : f[i] = FALSE
  /\ f[F + l + 1] = ~r.receiving.skipAck

LEMMA AnswersProps ==
  ASSUME NEW r \in End
  PROVE  AnswersAre(r, Answers(r), Len(r.fates), r.receiving.lost)
<1>0. PICK f, F, l : f = Answers(r) /\ F = Len(r.fates) /\ l = r.receiving.lost
  OBVIOUS
<1>1. F \in Nat /\ l \in Nat /\ r.fates \in Seq(BOOLEAN) /\ r.receiving.skipAck \in BOOLEAN
  BY <1>0, EndTypes
<1>2. PICK n \in Nat, c \in BOOLEAN : n = l /\ c = FALSE
  BY <1>1
<1>3. PICK a : a = [i \in 1 .. n |-> c]
  OBVIOUS
<1>4. a \in Seq(BOOLEAN) /\ Len(a) = n /\ \A i \in 1 .. n : a[i] = FALSE
  BY <1>2, <1>3
<1>5. PICK d \in BOOLEAN : d = ~r.receiving.skipAck
  OBVIOUS
<1>6. PICK z : z = <<d>>
  OBVIOUS
<1>7. z \in Seq(BOOLEAN) /\ Len(z) = 1 /\ z[1] = d
  BY <1>6
<1>8. PICK y \in Seq(BOOLEAN) : y = r.fates
  BY <1>1
<1>9. PICK w : w = y \o a
  OBVIOUS
<1>10. f = w \o z
  BY <1>0, <1>2, <1>3, <1>5, <1>6, <1>8, <1>9 DEF Answers
<1>11. /\ w \in Seq(BOOLEAN) /\ Len(w) = F + n
       /\ \A i \in 1 .. F + n : w[i] = IF i <= F THEN y[i] ELSE a[i - F]
  <2>1. /\ w \in Seq(BOOLEAN) /\ Len(w) = Len(y) + Len(a)
        /\ \A i \in 1 .. Len(y) + Len(a) : w[i] = IF i <= Len(y) THEN y[i] ELSE a[i - Len(y)]
    BY <1>4, <1>8, <1>9, ConcatProperties
  <2>2. Len(y) = F /\ Len(a) = n
    BY <1>0, <1>4, <1>8
  <2> QED
    BY <2>1, <2>2
<1>12. /\ f \in Seq(BOOLEAN) /\ Len(f) = F + n + 1
       /\ \A i \in 1 .. F + n + 1 : f[i] = IF i <= F + n THEN w[i] ELSE z[i - (F + n)]
  <2>1. /\ f \in Seq(BOOLEAN) /\ Len(f) = Len(w) + Len(z)
        /\ \A i \in 1 .. Len(w) + Len(z) : f[i] = IF i <= Len(w) THEN w[i] ELSE z[i - Len(w)]
    <3>1. w \in Seq(BOOLEAN) /\ z \in Seq(BOOLEAN)
      BY <1>7, <1>11
    <3> QED
      BY <1>10, <3>1, ConcatProperties
  <2>2. Len(w) = F + n /\ Len(z) = 1
    BY <1>7, <1>11
  <2> QED
    BY <2>1, <2>2
<1>13. \A i \in 1 .. F : f[i] = r.fates[i]
  <2> TAKE i \in 1 .. F
  <2>1. i \in 1 .. F + n /\ i \in 1 .. F + n + 1 /\ i <= F /\ i <= F + n
    BY <1>1, <1>2
  <2> QED
    BY <1>8, <1>11, <1>12, <2>1
<1>14. \A i \in F + 1 .. F + n : f[i] = FALSE
  <2> TAKE i \in F + 1 .. F + n
  <2>1. i \in 1 .. F + n /\ i \in 1 .. F + n + 1 /\ ~(i <= F) /\ i <= F + n /\ i - F \in 1 .. n
    BY <1>1, <1>2
  <2> QED
    BY <1>4, <1>11, <1>12, <2>1
<1>15. f[F + n + 1] = d
  <2>1. F + n + 1 \in 1 .. F + n + 1 /\ ~(F + n + 1 <= F + n) /\ F + n + 1 - (F + n) = 1
    BY <1>1, <1>2
  <2>a. PICK k \in Nat : k = F + n + 1
    BY <1>1
  <2>b. k \in 1 .. F + n + 1 /\ ~(k <= F + n)
    BY <2>1, <2>a
  <2>c. f[k] = IF k <= F + n THEN w[k] ELSE z[k - (F + n)]
    BY <1>12, <2>b, Zenon
  <2>d. f[k] = z[k - (F + n)]
    BY <2>b, <2>c, Zenon
  <2>e. k - (F + n) = 1
    BY <1>1, <2>a
  <2>f. f[k] = d
    BY <1>7, <2>d, <2>e, Zenon
  <2> QED
    BY <2>a, <2>f
<1> QED
  <2>1. AnswersAre(r, f, F, l)
    <3>1. f[F + l + 1] = ~r.receiving.skipAck
      BY <1>2, <1>5, <1>15, Zenon
    <3> QED
      BY <1>1, <1>2, <1>12, <1>13, <1>14, <3>1 DEF AnswersAre
  <2> QED
    BY <1>0, <2>1

LEMMA LineAnswered ==
  ASSUME NEW s \in End, NEW r \in End, NEW h \in History, Line(s, r, h),
         r.receiving.busy, r.receiving.bunches = <<>>, ~Ready(r),
         NEW u \in End, u.fates = Answers(r), u.receiving = NotReceiving,
         u.inReliable = r.inReliable, Queue(u) = Queue(r)
  PROVE  Line(s, u, h)
<1>1. /\ Accounted(s, r) /\ Numbered(s, r, h) /\ Recorded(s, r) /\ InFlight(s, r, h)
      /\ Queued(s, r, h) /\ Room(s)
  BY DEF Line
<1>2. PICK F, l : F = Len(r.fates) /\ l = r.receiving.lost
  OBVIOUS
<1>3. /\ F \in Nat /\ l \in Nat /\ Len(u.fates) = F + l + 1
      /\ \A i \in 1 .. F : u.fates[i] = r.fates[i]
      /\ \A i \in F + 1 .. F + l : u.fates[i] = FALSE
      /\ u.fates[F + l + 1] = ~r.receiving.skipAck
  <2>1. AnswersAre(r, u.fates, F, l)
    BY <1>2, AnswersProps
  <2> QED
    BY <2>1 DEF AnswersAre
<1>4. PICK T \in Nat : T = F + l + 1
  BY <1>3
<1>a. ~u.receiving.busy /\ u.receiving.bunches = <<>>
  BY DEF NotReceiving
<1>5. Taken(r) = T /\ Taken(u) = T
  <2>1. Taken(r) = F + (l + 1)
    BY <1>2 DEF Taken
  <2>2. Taken(u) = F + l + 1 + 0
    BY <1>3, <1>a DEF Taken
  <2> QED
    BY <1>3, <1>4, <2>1, <2>2
<1>6. Accounted(s, u)
  BY <1>1, <1>5 DEF Accounted
<1>7. Numbered(s, u, h)
  BY <1>1 DEF Numbered
<1>8. \A k : Carries(s, u, k) = Carries(s, r, k)
  BY <1>5, <1>a DEF Carries
<1>9. \A q : Has(u, q) <=> Has(r, q)
  BY DEF Has
<1>10. Recorded(s, u)
  <2> SUFFICES ASSUME NEW m \in DOMAIN Records(s) PROVE RecordOK(s, u, Records(s)[m])
    BY DEF Recorded
  <2>1. PICK o : o = Records(s)[m]
    OBVIOUS
  <2>2. RecordOK(s, r, o) /\ o \in OutBunch
    BY <1>1, <2>1, RecordIn DEF Recorded
  <2>3. o.packet \in Nat /\ o.acked \in BOOLEAN
    BY <2>2 DEF OutBunch
  <2>4. /\ o.acked => o.packet = 0
        /\ ~o.acked => o.packet \in 1 .. s.unnotified + 1
        /\ o.packet > Taken(u) => Within(OnWire(o.bunch), Carries(s, u, o.packet))
    BY <1>5, <1>8, <2>2 DEF RecordOK
  <2>5. ASSUME o.packet \in 1 .. Len(u.fates), u.fates[o.packet]
        PROVE  Has(r, o.bunch.seq)
    <3>1. CASE o.packet \in 1 .. F
      BY <1>2, <1>3, <2>2, <2>5, <3>1 DEF RecordOK
    <3>2. CASE o.packet \in F + 1 .. F + l
      BY <1>3, <2>5, <3>2
    <3>3. CASE o.packet = F + l + 1
      <4>1. ~r.receiving.skipAck
        <5>1. r.receiving.skipAck \in BOOLEAN
          BY EndTypes
        <5> QED
          BY <1>3, <2>5, <3>3, <5>1
      <4>2. o.packet = Taken(r)
        BY <1>4, <1>5, <3>3
      <4>3. ~Within(OnWire(o.bunch), r.receiving.bunches)
        BY Lengths DEF Within
      <4> QED
        BY <2>2, <4>1, <4>2, <4>3 DEF RecordOK
    <3> QED
      BY <1>3, <2>3, <2>5, <3>1, <3>2, <3>3
  <2>6. o.acked => Has(r, o.bunch.seq)
    BY <2>2 DEF RecordOK
  <2>7. RecordOK(s, u, o)
    BY <1>9, <1>a, <2>4, <2>5, <2>6 DEF RecordOK
  <2> QED
    BY <2>1, <2>7
<1>11. InFlight(s, u, h)
  BY <1>1, <1>5, <1>8 DEF InFlight
<1>12. Queued(s, u, h)
  <2>1. ~Ready(u)
    BY DEF Ready
  <2> QED
    BY <1>1, <2>1 DEF Queued
<1> QED
  BY <1>1, <1>6, <1>7, <1>10, <1>11, <1>12 DEF Line

-----------------------------------------------------------------------------
(* The channel of the client goes, and its numbers come back in the next.  *)

\* CleanUp: what was not acknowledged is to be sent again by the next channel.
LEMMA LineRetired ==
  ASSUME NEW s \in End, NEW r \in End, NEW h \in History, Line(s, r, h),
         s.channel = NoChannel \/ ~s.channel.closing,
         NEW t \in End, t.channel = NoChannel,
         t.wire = s.wire, t.sendBuffer = s.sendBuffer, t.unnotified = s.unnotified,
         t.outReliable = s.outReliable,
         Records(s) = <<>> => t.pendingOutRec = s.pendingOutRec,
         Records(s) # <<>> => t.pendingOutRec = Records(s)[1].bunch.seq
  PROVE  Line(t, r, h) /\ Low(t) = Low(s) /\ Records(t) = <<>>
<1>1. /\ Accounted(s, r) /\ Numbered(s, r, h) /\ Recorded(s, r) /\ InFlight(s, r, h)
      /\ Queued(s, r, h) /\ Room(s)
  BY DEF Line
<1>2. Records(t) = <<>>
  BY DEF Records
<1>3. DOMAIN Records(t) = 1 .. 0 /\ Len(Records(t)) = 0 /\ \A i \in 1 .. 0 : FALSE
  <2>1. DOMAIN Records(t) = 1 .. 0 /\ Len(Records(t)) = 0
    BY <1>2, Lengths
  <2> QED
    BY <2>1
<1>4. Low(t) = Low(s) /\ (t.pendingOutRec = 0 => s.pendingOutRec = 0 /\ Records(s) = <<>>)
  <2>1. CASE Records(s) = <<>>
    <3>1. t.pendingOutRec = s.pendingOutRec
      BY <2>1
    <3> QED
      BY <1>2, <2>1, <3>1 DEF Low
  <2>2. CASE Records(s) # <<>>
    <3>1. PICK p : p = Records(s)[1].bunch.seq
      OBVIOUS
    <3>2. 1 \in DOMAIN Records(s)
      <4>1. Records(s) \in Seq(OutBunch)
        BY EndTypes
      <4> QED
        BY <2>2, <4>1
    <3>3. PICK q : q = Low(s) + 1 - 1
      OBVIOUS
    <3>4. p = q /\ q \in Nat
      BY <1>1, <3>1, <3>2, <3>3, RecordNumber
    <3>5. Low(s) \in Int /\ Low(s) >= 1
      BY <1>1, Lengths DEF Numbered
    <3>6. p = Low(s) /\ p # 0
      BY <3>3, <3>4, <3>5
    <3>7. t.pendingOutRec = p
      BY <2>2, <3>1
    <3> QED
      BY <3>6, <3>7 DEF Low
  <2> QED
    BY <2>1, <2>2
<1>5. Accounted(t, r)
  BY <1>1 DEF Accounted
<1>6. Numbered(t, r, h)
  BY <1>1, <1>2, <1>3, <1>4 DEF Numbered
<1>7. Recorded(t, r)
  BY <1>3 DEF Recorded
<1>8. InFlight(t, r, h)
  <2>1. \A k : Carries(t, r, k) = Carries(s, r, k)
    BY DEF Carries
  <2> SUFFICES ASSUME NEW k \in Taken(r) .. t.unnotified + 1, NEW j \in DOMAIN Carries(t, r, k)
               PROVE  BunchOK(t, h, k, Carries(t, r, k)[j])
    BY DEF InFlight
  <2>2. PICK b : b = Carries(t, r, k)[j]
    OBVIOUS
  <2>3. BunchOK(s, h, k, b)
    BY <1>1, <2>1, <2>2 DEF InFlight
  <2>4. ASSUME b.rel, t.pendingOutRec = 0 PROVE FALSE
    <3>1. s.pendingOutRec = 0 /\ Records(s) = <<>>
      BY <1>4, <2>4
    <3>2. Low(s) = s.outReliable + 1 - 0
      BY <3>1 DEF Low
    <3>3. b.tag.seq \in Low(s) .. s.outReliable
      BY <2>3, <2>4 DEF BunchOK
    <3>4. s.outReliable \in Nat
      BY EndTypes
    <3> QED
      BY <3>2, <3>3, <3>4
  <2>5. BunchOK(t, h, k, b)
    BY <1>4, <2>3, <2>4 DEF BunchOK
  <2> QED
    BY <2>2, <2>5
<1>9. Queued(t, r, h)
  <2>1. ASSUME Ready(r), t.pendingOutRec = 0 PROVE FALSE
    <3>1. s.pendingOutRec = 0 /\ Records(s) = <<>>
      BY <1>4, <2>1
    <3>2. Holding(s, r)
      BY <1>1, <2>1, <3>1 DEF Queued
    <3>3. DOMAIN Records(s) = 1 .. 0
      BY <3>1, Lengths
    <3> QED
      BY <1>3, <3>2, <3>3 DEF Holding
  <2> QED
    BY <1>1, <2>1 DEF Queued
<1>10. Room(t)
  BY <1>1, <1>4 DEF Room, Span
<1> QED
  BY <1>2, <1>4, <1>5, <1>6, <1>7, <1>8, <1>9, <1>10 DEF Line
\* An empty bunch with number q that waits in the packet being filled.
SyncRecord(s, q, o) ==
  /\ o.packet = s.unnotified + 1 /\ o.acked = FALSE
  /\ WellFormed(o.bunch, q) /\ ~o.bunch.open /\ ~o.bunch.close /\ o.bunch.part = "whole"

\* After k empty bunches.
SyncedTo(s, k, x) ==
  /\ x \in End /\ x.channel # NoChannel
  /\ x.channel.openedLocally = s.channel.openedLocally
  /\ x.channel.openAcked = s.channel.openAcked
  /\ x.channel.opened = s.channel.opened /\ x.channel.closing = s.channel.closing
  /\ x.channel.inPartial = s.channel.inPartial
  /\ x.state = s.state /\ x.wire = s.wire /\ x.unnotified = s.unnotified
  /\ x.fates = s.fates /\ x.receiving = s.receiving /\ x.inReliable = s.inReliable
  /\ x.pendingOutRec = s.pendingOutRec /\ Queue(x) = Queue(s)
  /\ x.outReliable = s.pendingOutRec - 1 + k
  /\ Len(Records(x)) = k /\ Len(x.sendBuffer) = k
  /\ \A i \in 1 .. k : /\ SyncRecord(s, s.pendingOutRec + i - 1, Records(x)[i])
                       /\ x.sendBuffer[i] = OnWire(Records(x)[i].bunch)

LEMMA SyncedNext ==
  ASSUME NEW s \in End, s.channel # NoChannel, s.channel.opened = TRUE, s.pendingOutRec # 0,
         ~s.channel.openedLocally, incarnation \in Nat,
         NEW k \in Nat, k < ReliableBuffer - 1, NEW x, SyncedTo(s, k, x),
         NEW y, y = Sync(x)
  PROVE  SyncedTo(s, k + 1, y)
<1>1. PICK P \in Nat, U \in Nat : P = s.pendingOutRec /\ U = s.unnotified /\ P >= 1
  BY EndTypes
<1>2. /\ x \in End /\ x.channel # NoChannel
      /\ x.channel.openedLocally = s.channel.openedLocally
      /\ x.channel.openAcked = s.channel.openAcked
      /\ x.channel.opened = s.channel.opened /\ x.channel.closing = s.channel.closing
      /\ x.channel.inPartial = s.channel.inPartial
      /\ x.state = s.state /\ x.wire = s.wire /\ x.unnotified = s.unnotified
      /\ x.fates = s.fates /\ x.receiving = s.receiving /\ x.inReliable = s.inReliable
      /\ x.pendingOutRec = s.pendingOutRec /\ Queue(x) = Queue(s)
  BY DEF SyncedTo
<1>3. /\ x.outReliable = P - 1 + k /\ Len(Records(x)) = k /\ Len(x.sendBuffer) = k
      /\ \A i \in 1 .. k : /\ SyncRecord(s, P + i - 1, Records(x)[i])
                           /\ x.sendBuffer[i] = OnWire(Records(x)[i].bunch)
  BY <1>1 DEF SyncedTo
<1>4. Records(x) = x.channel.outRec /\ Records(x) \in Seq(OutBunch) /\ x.sendBuffer \in Seq(Bunch)
  BY <1>2, EndTypes DEF Records
<1>5. PICK b : b = SyncPart(x)
  OBVIOUS
<1>6. /\ b \in Bunch /\ b.rel = TRUE /\ b.close = FALSE /\ b.open = FALSE /\ b.part = "whole"
  BY <1>2, <1>5, SyncPartType
<1>7. y = PrepBunch(x, b)
  <2>1. ~(Len(x.channel.outRec) >= ReliableBuffer - 1)
    <3>1. ReliableBuffer \in Nat
      BY ChannelAssumption
    <3> QED
      BY <1>3, <1>4, <3>1
  <2> QED
    BY <1>2, <1>5, <2>1, SyncIs
<1>8. Prepared(x, b, y)
  BY <1>2, <1>6, <1>7, PrepBunchType
<1>9. PICK a : a = Stamped(x, b)
  OBVIOUS
<1>10. PICK o : o = NewRecord(x, b)
  OBVIOUS
<1>11. /\ a \in Bunch /\ o \in OutBunch /\ o = [bunch |-> a, packet |-> OutPacketId(x), acked |-> FALSE]
       /\ a.seq = x.outReliable + 1 /\ a.rel = TRUE /\ a.open = FALSE /\ a.close = FALSE
       /\ a.part = "whole"
       /\ a.tag = [b.tag EXCEPT !.seq = x.outReliable + 1]
  BY <1>2, <1>6, <1>9, <1>10, StampedType DEF NewRecord
<1>12. WellFormed(a, P + (k + 1) - 1)
  <2>1. x.outReliable + 1 = P + (k + 1) - 1
    BY <1>1, <1>3
  <2>2. b.tag \in Tag
    BY <1>6 DEF Bunch
  <2>3. a.tag.seq = x.outReliable + 1
    BY <1>11, <2>2 DEF Tag
  <2> QED
    BY <1>11, <2>1, <2>3 DEF WellFormed
<1>13. SyncRecord(s, P + (k + 1) - 1, o)
  <2>1. o.bunch = a /\ o.packet = s.unnotified + 1 /\ o.acked = FALSE
    BY <1>2, <1>11 DEF OutPacketId
  <2> QED
    BY <1>11, <1>12, <2>1 DEF SyncRecord
<1>14. /\ y \in End /\ y.channel # NoChannel
       /\ y.channel.outRec = Append(x.channel.outRec, o)
       /\ y.sendBuffer = Append(x.sendBuffer, OnWire(a))
       /\ y.outReliable = x.outReliable + 1
       /\ y.channel.openedLocally = s.channel.openedLocally
       /\ y.channel.openAcked = s.channel.openAcked
       /\ y.channel.opened = s.channel.opened /\ y.channel.inPartial = s.channel.inPartial
       /\ y.state = s.state /\ y.wire = s.wire /\ y.unnotified = s.unnotified
       /\ y.fates = s.fates /\ y.receiving = s.receiving /\ y.inReliable = s.inReliable
       /\ y.pendingOutRec = s.pendingOutRec
       /\ y.channel.inRec = x.channel.inRec
  BY <1>2, <1>6, <1>8, <1>9, <1>10 DEF Prepared
<1>15. y.channel.closing = s.channel.closing
  <2>1. s.channel.closing \in BOOLEAN
    BY ChannelIn DEF Channel
  <2>2. y.channel.closing = (x.channel.closing \/ b.close)
    BY <1>8 DEF Prepared
  <2> QED
    BY <1>2, <1>6, <2>1, <2>2, Zenon
<1>16. Queue(y) = Queue(s)
  BY <1>2, <1>14 DEF Queue
<1>17. PICK R \in Seq(OutBunch) : R = Records(y)
  BY <1>14, EndTypes
<1>18. PICK S \in Seq(OutBunch) : S = Records(x)
  BY <1>4
<1>19. R = Append(S, o)
  BY <1>4, <1>14, <1>17, <1>18 DEF Records
<1>20. Len(R) = k + 1 /\ (\A i \in 1 .. k : R[i] = S[i]) /\ R[k + 1] = o
  BY <1>3, <1>11, <1>18, <1>19
<1>21. PICK w \in Seq(Bunch), v \in Seq(Bunch), c \in Bunch : w = y.sendBuffer /\ v = x.sendBuffer /\ c = OnWire(a)
  <2>1. y.sendBuffer \in Seq(Bunch)
    BY <1>14, EndTypes
  <2>2. x.sendBuffer \in Seq(Bunch)
    BY <1>4
  <2>3. OnWire(a) \in Bunch
    BY <1>11, OnWireType
  <2> QED
    BY <2>1, <2>2, <2>3
<1>22. Len(w) = k + 1 /\ (\A i \in 1 .. k : w[i] = v[i]) /\ w[k + 1] = c
  <2>1. w = Append(v, c) /\ Len(v) = k
    BY <1>3, <1>14, <1>21
  <2> QED
    BY <2>1
<1>23. y.outReliable = P - 1 + (k + 1)
  <2>1. PICK O \in Nat : O = x.outReliable
    BY <1>2, EndTypes
  <2>2. O = P - 1 + k
    BY <1>3, <2>1
  <2>3. O + 1 = P - 1 + (k + 1)
    BY <2>2
  <2> QED
    BY <1>14, <2>1, <2>3
<1>24. ASSUME NEW i \in 1 .. k + 1
       PROVE  /\ SyncRecord(s, P + i - 1, Records(y)[i])
              /\ y.sendBuffer[i] = OnWire(Records(y)[i].bunch)
  <2>1. CASE i \in 1 .. k
    BY <1>3, <1>17, <1>18, <1>20, <1>21, <1>22, <2>1
  <2>2. CASE i = k + 1
    <3>1. o.bunch = a
      BY <1>11
    <3> QED
      BY <1>13, <1>17, <1>20, <1>21, <1>22, <2>2, <3>1
  <2> QED
    BY <2>1, <2>2
<1> QED
  BY <1>1, <1>14, <1>15, <1>16, <1>17, <1>20, <1>21, <1>22, <1>23, <1>24 DEF SyncedTo
\* What SetChannelActor makes of an end that has numbers to send again.
SyncedOut(s, t) ==
  /\ t \in End /\ t.channel # NoChannel
  /\ t.channel.openedLocally = s.channel.openedLocally
  /\ t.channel.openAcked = s.channel.openAcked
  /\ t.channel.opened = s.channel.opened /\ t.channel.closing = s.channel.closing
  /\ t.channel.inPartial = s.channel.inPartial
  /\ t.state = s.state /\ t.wire = s.wire /\ t.unnotified = s.unnotified
  /\ t.fates = s.fates /\ t.receiving = s.receiving /\ t.inReliable = s.inReliable
  /\ t.pendingOutRec = 0 /\ Queue(t) = Queue(s)
  /\ t.outReliable = s.outReliable /\ Low(t) = Low(s)

\* All the empty bunches.
SyncedAll(s, N, t) ==
  /\ Len(Records(t)) = N /\ Len(t.sendBuffer) = N
  /\ \A i \in 1 .. N : /\ SyncRecord(s, s.pendingOutRec + i - 1, Records(t)[i])
                       /\ t.sendBuffer[i] = OnWire(Records(t)[i].bunch)

LEMMA SyncedStart ==
  ASSUME NEW s \in End, s.channel # NoChannel, s.pendingOutRec # 0,
         Records(s) = <<>>, s.sendBuffer = <<>>
  PROVE  SyncedTo(s, 0, [s EXCEPT !.outReliable = s.pendingOutRec - 1])
<1>1. PICK p \in Nat : p = s.pendingOutRec - 1
  BY EndTypes
<1>2. PICK x : x = [s EXCEPT !.outReliable = p]
  OBVIOUS
<1>3. /\ x \in End /\ x.outReliable = p /\ x.channel = s.channel /\ x.state = s.state
      /\ x.wire = s.wire /\ x.unnotified = s.unnotified /\ x.fates = s.fates
      /\ x.receiving = s.receiving /\ x.inReliable = s.inReliable
      /\ x.pendingOutRec = s.pendingOutRec /\ x.sendBuffer = s.sendBuffer
  BY <1>2 DEF End
<1>4. Records(x) = <<>> /\ Queue(x) = Queue(s)
  BY <1>3 DEF Records, Queue
<1>5. Len(Records(x)) = 0 /\ Len(x.sendBuffer) = 0
  BY <1>3, <1>4
<1>6. x.outReliable = s.pendingOutRec - 1 + 0
  <2>1. PICK P \in Nat : P = s.pendingOutRec
    BY EndTypes
  <2> QED
    BY <1>1, <1>3, <2>1
<1>7. \A i \in 1 .. 0 : FALSE
  OBVIOUS
<1>8. SyncedTo(s, 0, x)
  BY <1>3, <1>4, <1>5, <1>6, <1>7 DEF SyncedTo
<1> QED
  BY <1>1, <1>2, <1>8

LEMMA SyncedProps ==
  ASSUME NEW s \in End, s.channel # NoChannel, s.channel.opened = TRUE,
         ~s.channel.openedLocally, incarnation \in Nat, s.pendingOutRec # 0,
         Records(s) = <<>>, s.sendBuffer = <<>>,
         NEW N \in Nat, N = s.outReliable - s.pendingOutRec + 1, N < ReliableBuffer,
         NEW t, t = SetChannelActor(s)
  PROVE  SyncedOut(s, t) /\ SyncedAll(s, N, t)
<1> DEFINE D == [k \in 0 .. N |-> {x \in End : SyncedTo(s, k, x)}]
<1>1. [s EXCEPT !.outReliable = s.pendingOutRec - 1] \in D[0]
  <2>1. PICK x : x = [s EXCEPT !.outReliable = s.pendingOutRec - 1]
    OBVIOUS
  <2>2. SyncedTo(s, 0, x)
    BY <2>1, SyncedStart
  <2>3. x \in End
    BY <2>2 DEF SyncedTo
  <2>4. 0 \in 0 .. N
    OBVIOUS
  <2> QED
    BY <2>1, <2>2, <2>3, <2>4
<1>2. ASSUME NEW i \in 1 .. N, NEW x \in D[i - 1] PROVE Sync(x) \in D[i]
  <2>1. PICK k \in Nat : k = i - 1 /\ k < N /\ i = k + 1 /\ k \in 0 .. N /\ i \in 0 .. N
    OBVIOUS
  <2>2. SyncedTo(s, k, x)
    BY <1>2, <2>1
  <2>3. k < ReliableBuffer - 1
    BY <2>1, ChannelAssumption
  <2>4. PICK y : y = Sync(x)
    OBVIOUS
  <2>5. SyncedTo(s, k + 1, y)
    BY <2>2, <2>3, <2>4, SyncedNext
  <2>6. y \in End
    BY <2>5 DEF SyncedTo
  <2>7. SyncedTo(s, i, y)
    BY <2>1, <2>5
  <2> QED
    BY <2>1, <2>4, <2>6, <2>7
<1> HIDE DEF D
<1>3. PICK x \in D[N] : SetChannelActor(s) = [x EXCEPT !.outReliable = s.outReliable, !.pendingOutRec = 0]
  BY <1>1, <1>2, SyncBy
<1>4. SyncedTo(s, N, x)
  <2>1. N \in 0 .. N
    OBVIOUS
  <2> QED
    BY <1>3, <2>1 DEF D
<1>5. /\ x \in End /\ x.channel # NoChannel
      /\ x.channel.openedLocally = s.channel.openedLocally
      /\ x.channel.openAcked = s.channel.openAcked
      /\ x.channel.opened = s.channel.opened /\ x.channel.closing = s.channel.closing
      /\ x.channel.inPartial = s.channel.inPartial
      /\ x.state = s.state /\ x.wire = s.wire /\ x.unnotified = s.unnotified
      /\ x.fates = s.fates /\ x.receiving = s.receiving /\ x.inReliable = s.inReliable
      /\ Queue(x) = Queue(s)
  BY <1>4 DEF SyncedTo
<1>6. s.outReliable \in Nat /\ s.pendingOutRec \in Nat
  BY EndTypes
<1>7. t = [x EXCEPT !.outReliable = s.outReliable, !.pendingOutRec = 0]
  BY <1>3
<1>8. /\ t \in End /\ t.channel = x.channel /\ t.state = x.state /\ t.wire = x.wire
      /\ t.unnotified = x.unnotified /\ t.fates = x.fates /\ t.receiving = x.receiving
      /\ t.inReliable = x.inReliable /\ t.pendingOutRec = 0 /\ t.outReliable = s.outReliable
      /\ t.sendBuffer = x.sendBuffer
  <2>1. PICK o \in Nat : o = s.outReliable
    BY <1>6
  <2>2. t = [x EXCEPT !.outReliable = o, !.pendingOutRec = 0]
    BY <1>7, <2>1
  <2>3. t \in End
    <3>1. PICK v : v = [x EXCEPT !.outReliable = o]
      OBVIOUS
    <3>2. v \in End
      BY <1>5, <3>1 DEF End
    <3>3. PICK z \in Nat : z = 0
      OBVIOUS
    <3>4. PICK y : y = [v EXCEPT !.pendingOutRec = z]
      OBVIOUS
    <3>5. y \in End
      BY <3>2, <3>4 DEF End
    <3>6. y = t
      BY <1>5, <2>2, <3>1, <3>3, <3>4 DEF End
    <3> QED
      BY <3>5, <3>6
  <2>4. /\ t.channel = x.channel /\ t.state = x.state /\ t.wire = x.wire
        /\ t.unnotified = x.unnotified /\ t.fates = x.fates /\ t.receiving = x.receiving
        /\ t.inReliable = x.inReliable /\ t.sendBuffer = x.sendBuffer
    BY <1>5, <2>2 DEF End
  <2>5. t.pendingOutRec = 0 /\ t.outReliable = o
    BY <1>5, <2>2 DEF End
  <2> QED
    BY <2>1, <2>3, <2>4, <2>5
<1>9. Records(t) = Records(x) /\ Queue(t) = Queue(x)
  BY <1>8 DEF Records, Queue
<1>10. SyncedAll(s, N, t)
  BY <1>4, <1>8, <1>9 DEF SyncedTo, SyncedAll
<1>11. Low(t) = Low(s)
  <2>1. Len(Records(t)) = N
    BY <1>10 DEF SyncedAll
  <2>2. Low(t) = s.outReliable + 1 - N
    BY <1>8, <2>1 DEF Low
  <2>3. Low(s) = s.pendingOutRec
    BY DEF Low
  <2> QED
    BY <1>6, <2>2, <2>3
<1>12. SyncedOut(s, t)
  BY <1>5, <1>8, <1>9, <1>11 DEF SyncedOut
<1> QED
  BY <1>10, <1>12
\* The numbers that the empty bunches take over.
Renumbered(s, t, h) ==
  [q \in Nat |-> IF q \in Low(s) .. s.outReliable THEN Records(t)[q - Low(s) + 1].bunch ELSE h[q]]

\* N numbers from P on are given to the records of t; g is the history it makes.
TakesOver(s, t, h, P, N, g) ==
  /\ P = Low(s) /\ N = s.outReliable - P + 1 /\ Len(Records(t)) = N
  /\ g = Renumbered(s, t, h)

Renames(s, t, P, N, g) ==
  /\ g \in History
  /\ \A i \in 1 .. N : P + i - 1 \in Nat /\ g[P + i - 1] = Records(t)[i].bunch
  /\ \A q \in P .. s.outReliable : q - P + 1 \in 1 .. N /\ q \in Nat
                                     /\ g[q] = Records(t)[q - P + 1].bunch

LEMMA RenumberedProps ==
  ASSUME NEW s \in End, NEW t \in End, NEW h \in History, NEW P \in Nat, NEW N \in Nat,
         NEW g, TakesOver(s, t, h, P, N, g)
  PROVE  Renames(s, t, P, N, g)
<1>0. /\ P = Low(s) /\ N = s.outReliable - P + 1 /\ Len(Records(t)) = N
      /\ g = Renumbered(s, t, h)
  BY DEF TakesOver
<1>1. PICK O \in Nat : O = s.outReliable
  BY EndTypes
<1>2. \A i \in 1 .. N : Records(t)[i].bunch \in Bunch
  BY <1>0, Lengths, RecordIn
<1>3. \A q \in P .. O : q - P + 1 \in 1 .. N /\ q \in Nat
  BY <1>0, <1>1
<1>4. g = [q \in Nat |-> IF q \in P .. O THEN Records(t)[q - P + 1].bunch ELSE h[q]]
  BY <1>0, <1>1 DEF Renumbered
<1>5. ASSUME NEW q \in Nat PROVE (IF q \in P .. O THEN Records(t)[q - P + 1].bunch ELSE h[q]) \in Bunch
  <2>1. CASE q \in P .. O
    <3>1. PICK j \in 1 .. N : j = q - P + 1
      BY <1>3, <2>1
    <3> QED
      BY <1>2, <2>1, <3>1
  <2>2. CASE q \notin P .. O
    BY <2>2 DEF History
  <2> QED
    BY <2>1, <2>2
<1>6. g \in History
  BY <1>4, <1>5 DEF History
<1>7. \A q \in P .. O : g[q] = Records(t)[q - P + 1].bunch
  BY <1>3, <1>4
<1>8. ASSUME NEW i \in 1 .. N
      PROVE  P + i - 1 \in Nat /\ g[P + i - 1] = Records(t)[i].bunch
  <2>1. PICK q \in P .. O : q = P + i - 1 /\ q - P + 1 = i /\ q \in Nat
    BY <1>0, <1>1, SMTT(30)
  <2>2. g[q] = Records(t)[q - P + 1].bunch
    BY <1>7
  <2> QED
    BY <2>1, <2>2
<1> QED
  BY <1>1, <1>3, <1>6, <1>7, <1>8 DEF Renames

\* SetChannelActor: the numbers are in use again, for empty bunches.
\* All that is sent again is empty and whole.
SentAgain(s, r, g) ==
  /\ Line(s, r, g)
  /\ \A q \in Low(s) .. s.outReliable : ~g[q].open /\ ~g[q].close /\ g[q].part = "whole"

LEMMA LineSynced ==
  ASSUME NEW s \in End, NEW r \in End, NEW h \in History, Line(s, r, h),
         s.channel # NoChannel, s.channel.opened = TRUE, ~s.channel.closing,
         ~s.channel.openedLocally, incarnation \in Nat, s.pendingOutRec # 0,
         SilentAfter(s, 0), r.receiving.bunches = <<>>, Queue(r) = <<>>,
         NEW t, t = SetChannelActor(s)
  PROVE  SyncedOut(s, t) /\ \E g \in History : SentAgain(t, r, g)
<1>1. PICK P \in Nat, O \in Nat, U \in Nat, K \in Nat :
        P = s.pendingOutRec /\ O = s.outReliable /\ U = s.unnotified /\ K = Taken(r)
  BY EndTypes, Lengths
<1>2. Low(s) = P /\ Records(s) = <<>> /\ s.sendBuffer = <<>>
  BY <1>1 DEF Low, Line, Numbered, SilentAfter
<1>3. /\ Low(s) - 1 <= r.inReliable /\ r.inReliable <= s.outReliable /\ Low(s) >= 1
      /\ Accounted(s, r)
  BY DEF Line, Numbered
<1>4. P - 1 <= O /\ P >= 1
  <2>1. PICK n \in Nat : n = r.inReliable
    BY EndTypes
  <2> QED
    BY <1>1, <1>2, <1>3, <2>1
<1>5. O + 1 - P < ReliableBuffer
  <2>1. Span(s) < ReliableBuffer
    BY DEF Line, Room
  <2> QED
    BY <1>1, <1>2, <2>1 DEF Span
<1>6. PICK N \in Nat : N = O - P + 1 /\ N = s.outReliable - s.pendingOutRec + 1 /\ N < ReliableBuffer
  <2>1. O - P + 1 \in Nat /\ O - P + 1 < ReliableBuffer
    BY <1>4, <1>5, ChannelAssumption
  <2> QED
    BY <1>1, <2>1
<1>7. SyncedOut(s, t) /\ SyncedAll(s, N, t)
  BY <1>2, <1>6, SyncedProps
<1>8. /\ t \in End /\ t.channel # NoChannel /\ t.channel.closing = s.channel.closing
      /\ t.wire = s.wire /\ t.unnotified = U /\ t.pendingOutRec = 0
      /\ t.outReliable = O /\ Low(t) = P
  BY <1>1, <1>2, <1>7 DEF SyncedOut
<1>9. /\ Len(Records(t)) = N /\ Len(t.sendBuffer) = N
      /\ \A i \in 1 .. N : /\ SyncRecord(s, P + i - 1, Records(t)[i])
                           /\ t.sendBuffer[i] = OnWire(Records(t)[i].bunch)
  BY <1>1, <1>7 DEF SyncedAll
<1>10. DOMAIN Records(t) = 1 .. N /\ DOMAIN t.sendBuffer = 1 .. N
  BY <1>8, <1>9, Lengths
<1>11. PICK g : g = Renumbered(s, t, h)
  OBVIOUS
<1>12. /\ g \in History
       /\ \A i \in 1 .. N : P + i - 1 \in Nat /\ g[P + i - 1] = Records(t)[i].bunch
       /\ \A q \in P .. O : q - P + 1 \in 1 .. N /\ q \in Nat
                            /\ g[q] = Records(t)[q - P + 1].bunch
  <2>1. P = Low(s) /\ N = s.outReliable - P + 1 /\ O = s.outReliable
    BY <1>1, <1>2, <1>6
  <2>2. t \in End /\ Len(Records(t)) = N
    BY <1>8, <1>9
  <2>3. TakesOver(s, t, h, P, N, g)
    BY <1>11, <2>1, <2>2 DEF TakesOver
  <2>4. Renames(s, t, P, N, g)
    BY <2>2, <2>3, RenumberedProps
  <2> QED
    BY <2>1, <2>4 DEF Renames
<1>13. ASSUME NEW q \in P .. O
       PROVE  WellFormed(g[q], q) /\ ~g[q].open /\ ~g[q].close /\ g[q].part = "whole"
  <2>1. PICK i \in 1 .. N : i = q - P + 1
    BY <1>12
  <2>2. P + i - 1 = q
    BY <2>1
  <2>3. SyncRecord(s, q, Records(t)[i])
    BY <1>9, <2>2
  <2>4. g[q] = Records(t)[i].bunch
    BY <1>12, <2>1
  <2> QED
    BY <2>3, <2>4 DEF SyncRecord
<1>14. Accounted(t, r)
  BY <1>1, <1>3, <1>8 DEF Accounted
<1>15. Numbered(t, r, g)
  <2>1. \A i \in DOMAIN Records(t) : Records(t)[i].bunch = g[Low(t) + i - 1]
    BY <1>8, <1>10, <1>12
  <2>2. \A q \in Low(t) .. t.outReliable : WellFormed(g[q], q)
    BY <1>8, <1>13
  <2>3. Low(t) >= 1 /\ Low(t) - 1 <= r.inReliable /\ r.inReliable <= t.outReliable
    BY <1>1, <1>2, <1>3, <1>8
  <2> QED
    BY <1>8, <2>1, <2>2, <2>3 DEF Numbered
<1>16. /\ Taken(r) <= U /\ Len(r.fates) <= Taken(r) /\ Len(r.fates) \in Nat
       /\ Carries(t, r, U + 1) = t.sendBuffer
  BY <1>8, <1>14, Carried, TakenType, Lengths
<1>17. Recorded(t, r)
  <2> SUFFICES ASSUME NEW i \in DOMAIN Records(t) PROVE RecordOK(t, r, Records(t)[i])
    BY DEF Recorded
  <2>1. i \in 1 .. N
    BY <1>10
  <2>2. PICK o : o = Records(t)[i]
    OBVIOUS
  <2>3. o.packet = U + 1 /\ o.acked = FALSE
    BY <1>1, <1>9, <2>1, <2>2 DEF SyncRecord
  <2>4. t.sendBuffer[i] = OnWire(o.bunch)
    BY <1>9, <2>1, <2>2
  <2>5. Within(OnWire(o.bunch), Carries(t, r, o.packet))
    BY <1>10, <1>16, <2>1, <2>3, <2>4 DEF Within
  <2>6. /\ o.packet \notin 1 .. Len(r.fates) /\ o.packet # Taken(r)
        /\ o.packet \in 1 .. t.unnotified + 1
    BY <1>1, <1>8, <1>16, <2>3
  <2>7. RecordOK(t, r, o)
    BY <2>3, <2>5, <2>6 DEF RecordOK
  <2> QED
    BY <2>2, <2>7
<1>18. InFlight(t, r, g)
  <2> SUFFICES ASSUME NEW k \in Taken(r) .. t.unnotified + 1,
                      NEW j \in DOMAIN Carries(t, r, k)
               PROVE  BunchOK(t, g, k, Carries(t, r, k)[j])
    BY DEF InFlight
  <2>1. CASE k = U + 1
    <3>1. j \in 1 .. N
      BY <1>10, <1>16, <2>1
    <3>2. PICK o, b : o = Records(t)[j] /\ b = Carries(t, r, k)[j]
      OBVIOUS
    <3>3. b = OnWire(o.bunch) /\ SyncRecord(s, P + j - 1, o)
      BY <1>9, <1>16, <2>1, <3>1, <3>2
    <3>4. PICK q \in P .. O : q = P + j - 1 /\ q - P + 1 = j /\ q \in Nat
      BY <1>6, <3>1
    <3>5. o.bunch = g[q] /\ o.bunch \in Bunch
      BY <1>8, <1>10, <1>12, <3>1, <3>2, <3>4, RecordIn
    <3>6. o.bunch.rel /\ o.bunch.tag.seq = q /\ o.acked = FALSE /\ o.packet = U + 1
      BY <1>1, <3>3, <3>4 DEF SyncRecord, WellFormed
    <3>7. b.rel /\ b.tag.seq = q
      BY <3>3, <3>5, <3>6, OnWireType
    <3>8. BunchOK(t, g, k, b)
      BY <1>8, <2>1, <3>2, <3>3, <3>4, <3>5, <3>6, <3>7 DEF BunchOK
    <3> QED
      BY <3>2, <3>8
  <2>2. CASE k # U + 1
    <3>1. k = Taken(r) \/ k \in Taken(r) + 1 .. t.unnotified
      BY <1>8, <1>14, <2>2, Carried
    <3>2. Carries(t, r, k) = <<>>
      <4>1. CASE k = Taken(r)
        <5>1. Carries(t, r, Taken(r)) = r.receiving.bunches
          BY <1>8, <1>14, Carried
        <5> QED
          BY <4>1, <5>1
      <4>2. CASE k \in Taken(r) + 1 .. t.unnotified
        <5>1. Carries(t, r, k) = t.wire[k - Taken(r)].bunches /\ k - Taken(r) \in DOMAIN t.wire
          BY <1>8, <1>14, <4>2, Carried
        <5>2. k - Taken(r) > 0
          BY <1>1, <1>8, <4>2
        <5> QED
          BY <1>8, <5>1, <5>2 DEF SilentAfter
      <4> QED
        BY <3>1, <4>1, <4>2
    <3>3. DOMAIN <<>> = {}
      OBVIOUS
    <3> QED
      BY <3>2, <3>3
  <2> QED
    BY <2>1, <2>2
<1>19. Queued(t, r, g)
  <2>1. DOMAIN Queue(r) = {}
    OBVIOUS
  <2>2. ~Ready(r)
    BY DEF Ready
  <2> QED
    BY <2>1, <2>2 DEF Queued
<1>20. Room(t)
  <2>1. Span(t) = O + 1 - P
    BY <1>8 DEF Span
  <2>2. Span(t) < ReliableBuffer /\ Span(t) <= ReliableBuffer
    BY <1>5, <2>1, ChannelAssumption
  <2> QED
    BY <2>2 DEF Room
<1>21. Line(t, r, g)
  BY <1>14, <1>15, <1>17, <1>18, <1>19, <1>20 DEF Line
<1>22. SentAgain(t, r, g)
  BY <1>8, <1>12, <1>13, <1>21 DEF SentAgain
<1> QED
  BY <1>7, <1>12, <1>22
-----------------------------------------------------------------------------
(* A message is sent.                                                      *)

\* The message fits, and the channel is in a state to send it.
Sendable(s, rel, close, size) ==
  /\ s.channel # NoChannel /\ ~s.channel.closing
  /\ rel => /\ s.pendingOutRec = 0
            /\ s.outReliable + size + 1 - Low(s) <= ReliableBuffer
            /\ ~close => s.outReliable + size + 1 - Low(s) < ReliableBuffer
  /\ ~rel => s.channel.opened /\ ~close
  /\ close => size = 1

\* The end after k of the bunches.
Sending(s, rel, close, size, k, x) ==
  /\ x \in End /\ x.channel # NoChannel
  /\ x.channel.openedLocally = s.channel.openedLocally
  /\ x.channel.openAcked = s.channel.openAcked /\ x.channel.inPartial = s.channel.inPartial
  /\ x.inReliable = s.inReliable /\ x.fates = s.fates /\ x.receiving = s.receiving
  /\ x.pendingOutRec = s.pendingOutRec /\ x.state = s.state /\ Queue(x) = Queue(s)
  /\ k >= 1 => x.channel.opened = TRUE
  /\ x.channel.closing <=> close /\ k = size
  /\ Low(x) = Low(s)
  /\ rel => x.outReliable = s.outReliable + k
  /\ ~rel => x.outReliable = s.outReliable

\* The numbers it has given them.
Numbering(s, rel, close, size, x, h, g) ==
  /\ \A q \in 0 .. s.outReliable : g[q] = h[q]
  /\ \A q \in s.outReliable + 1 .. x.outReliable :
       /\ g[q].close <=> close /\ q = s.outReliable + size
       /\ g[q].open <=> s.channel.openedLocally /\ ~s.channel.opened /\ q = s.outReliable + 1
       /\ g[q].part = PartOf(q - s.outReliable, size)

LineSending(s, r, h, rel, close, size, k, x) ==
  /\ Sending(s, rel, close, size, k, x)
  /\ \E g \in History : Line(x, r, g) /\ Numbering(s, rel, close, size, x, h, g)

\* Numbers, when a bunch is prepared.
LEMMA PreparedLow ==
  ASSUME NEW y \in End, y.channel # NoChannel, NEW b, b.rel \in BOOLEAN, b.rel => y.pendingOutRec = 0,
         NEW t, Prepared(y, b, t)
  PROVE  Low(t) = Low(y)
<1>1. /\ t \in End /\ t.pendingOutRec = y.pendingOutRec /\ t.channel # NoChannel
      /\ b.rel => /\ t.channel.outRec = Append(y.channel.outRec, NewRecord(y, b))
                  /\ t.outReliable = y.outReliable + 1
      /\ ~b.rel => /\ t.channel.outRec = y.channel.outRec
                   /\ t.outReliable = y.outReliable
  BY DEF Prepared
<1>2. CASE ~b.rel
  BY <1>1, <1>2 DEF Low, Records
<1>3. CASE b.rel
  <2>1. PICK S \in Seq(OutBunch), R \in Seq(OutBunch) : S = Records(y) /\ R = Records(t)
    BY <1>1, EndTypes
  <2>2. R = Append(S, NewRecord(y, b))
    BY <1>1, <1>3, <2>1 DEF Records
  <2>3. Len(R) = Len(S) + 1
    BY <2>1, <2>2
  <2>4. PICK o \in Nat : o = y.outReliable /\ t.outReliable = o + 1
    BY <1>1, <1>3, EndTypes
  <2>5. PICK l \in Nat : l = Len(S) /\ Len(R) = l + 1
    BY <2>1, <2>3
  <2>6. Low(y) = o + 1 - l /\ Low(t) = (o + 1) + 1 - (l + 1)
    BY <1>1, <1>3, <2>1, <2>4, <2>5 DEF Low
  <2> QED
    BY <2>6
<1> QED
  BY <1>2, <1>3
\* Part k of the message.
IsPart(s, rel, close, size, k, b) ==
  /\ b \in Bunch /\ (b.rel <=> rel) /\ (b.close <=> close /\ k = size)
  /\ b.open <=> s.channel.openedLocally /\ ~s.channel.opened /\ k = 1
  /\ b.part = PartOf(k, size)
  /\ b.close => b.part = "whole"
  /\ ~rel => ~b.open /\ ~b.close

LEMMA RawPartIs ==
  ASSUME NEW s \in End, NEW rel \in BOOLEAN, NEW close \in BOOLEAN,
         NEW tag \in Tag, NEW size \in Nat \ {0}, NEW k \in 1 .. size, Sendable(s, rel, close, size)
  PROVE  IsPart(s, rel, close, size, k, RawPart(s, rel, close, tag, size, k))
<1>1. PICK b : b = RawPart(s, rel, close, tag, size, k)
  OBVIOUS
<1>2. /\ b \in Bunch /\ b.rel = rel /\ b.part = PartOf(k, size)
      /\ b.open = (s.channel.openedLocally /\ ~s.channel.opened /\ k = 1)
      /\ b.close = (close /\ k = size)
  <2>1. s.channel # NoChannel /\ size \in Nat /\ k \in Nat
    BY DEF Sendable
  <2>2. RawPart(s, rel, close, tag, size, k) \in Bunch
    BY <2>1, RawPartType
  <2>3. /\ b.rel = rel /\ b.part = PartOf(k, size)
        /\ b.open = (s.channel.openedLocally /\ ~s.channel.opened /\ k = 1)
        /\ b.close = (close /\ k = size)
    BY <1>1 DEF RawPart
  <2> QED
    BY <1>1, <2>2, <2>3
<1>3. (b.rel <=> rel) /\ (b.close <=> close /\ k = size)
  BY <1>2, Zenon
<1>4. b.open <=> s.channel.openedLocally /\ ~s.channel.opened /\ k = 1
  BY <1>2, Zenon
<1>5. b.close => close
  BY <1>3, Zenon
<1>6. close => size = 1
  BY DEF Sendable
<1>7. b.close => b.part = "whole"
  BY <1>2, <1>5, <1>6 DEF PartOf
<1>8. ~rel => ~b.open /\ ~b.close
  BY <1>4, <1>5, Zenon DEF Sendable
<1>9. IsPart(s, rel, close, size, k, b)
  BY <1>2, <1>3, <1>4, <1>7, <1>8, Zenon DEF IsPart
<1> QED
  BY <1>1, <1>9

LEMMA PartSending ==
  ASSUME NEW s \in End, NEW rel \in BOOLEAN, NEW close \in BOOLEAN, NEW size \in Nat \ {0},
         Sendable(s, rel, close, size), NEW k \in 1 .. size,
         NEW y, Sending(s, rel, close, size, k - 1, y),
         NEW b, IsPart(s, rel, close, size, k, b), NEW t, t = PrepBunch(y, b)
  PROVE  Prepared(y, b, t) /\ Sending(s, rel, close, size, k, t)
<1>1. /\ y \in End /\ y.channel # NoChannel
      /\ y.channel.openedLocally = s.channel.openedLocally
      /\ y.channel.openAcked = s.channel.openAcked /\ y.channel.inPartial = s.channel.inPartial
      /\ y.inReliable = s.inReliable /\ y.fates = s.fates /\ y.receiving = s.receiving
      /\ y.pendingOutRec = s.pendingOutRec /\ y.state = s.state /\ Queue(y) = Queue(s)
      /\ Low(y) = Low(s)
      /\ y.channel.closing <=> close /\ k - 1 = size
      /\ rel => y.outReliable = s.outReliable + (k - 1)
      /\ ~rel => y.outReliable = s.outReliable
  BY DEF Sending
<1>2. b \in Bunch /\ b.rel \in BOOLEAN /\ (b.rel <=> rel) /\ (b.close <=> close /\ k = size)
  BY DEF IsPart, Bunch
<1>3. Prepared(y, b, t)
  BY <1>1, <1>2, PrepBunchType
<1>4. /\ t \in End /\ t.channel # NoChannel /\ t.channel.opened = TRUE
      /\ t.channel.openedLocally = y.channel.openedLocally
      /\ t.channel.openAcked = y.channel.openAcked
      /\ t.channel.inPartial = y.channel.inPartial
      /\ t.channel.inRec = y.channel.inRec /\ t.state = y.state
      /\ t.inReliable = y.inReliable /\ t.pendingOutRec = y.pendingOutRec
      /\ t.fates = y.fates /\ t.receiving = y.receiving
      /\ t.channel.closing = (y.channel.closing \/ b.close)
      /\ b.rel => t.outReliable = y.outReliable + 1
      /\ ~b.rel => t.outReliable = y.outReliable
  BY <1>3 DEF Prepared
<1>5. Queue(t) = Queue(s)
  BY <1>1, <1>4 DEF Queue
<1>6. t.channel.closing <=> close /\ k = size
  <2>1. ~(k - 1 = size)
    OBVIOUS
  <2>2. ~y.channel.closing
    BY <1>1, <2>1, Zenon
  <2> QED
    BY <1>2, <1>4, <2>2, Zenon
<1>7. Low(t) = Low(s)
  <2>1. b.rel => y.pendingOutRec = 0
    BY <1>1, <1>2 DEF Sendable
  <2> QED
    BY <1>1, <1>2, <1>3, <2>1, PreparedLow
<1>8. rel => t.outReliable = s.outReliable + k
  <2>1. PICK o \in Nat : o = s.outReliable
    BY EndTypes
  <2>2. CASE rel
    BY <1>1, <1>2, <1>4, <2>1, <2>2
  <2> QED
    BY <2>2
<1>9. ~rel => t.outReliable = s.outReliable
  BY <1>1, <1>2, <1>4
<1>10. /\ t.channel.openedLocally = s.channel.openedLocally
       /\ t.channel.openAcked = s.channel.openAcked /\ t.channel.inPartial = s.channel.inPartial
       /\ t.inReliable = s.inReliable /\ t.fates = s.fates /\ t.receiving = s.receiving
       /\ t.pendingOutRec = s.pendingOutRec /\ t.state = s.state
  BY <1>1, <1>4
<1> QED
  BY <1>3, <1>4, <1>5, <1>6, <1>7, <1>8, <1>9, <1>10 DEF Sending

LEMMA PartSent ==
  ASSUME NEW s \in End, NEW rel \in BOOLEAN, NEW close \in BOOLEAN, NEW size \in Nat \ {0},
         Sendable(s, rel, close, size), NEW r \in End, NEW h \in History, Room(s),
         NEW k \in 1 .. size, NEW y, LineSending(s, r, h, rel, close, size, k - 1, y),
         NEW b, IsPart(s, rel, close, size, k, b), NEW t, t = PrepBunch(y, b)
  PROVE  LineSending(s, r, h, rel, close, size, k, t)
<1>1. Sending(s, rel, close, size, k - 1, y)
  BY DEF LineSending
<1>2. PICK f \in History : Line(y, r, f) /\ Numbering(s, rel, close, size, y, h, f)
  BY DEF LineSending
<1>3. Prepared(y, b, t) /\ Sending(s, rel, close, size, k, t)
  BY <1>1, PartSending
<1>4. PICK g : g = Numbers(y, b, f)
  OBVIOUS
<1>5. y \in End /\ y.channel # NoChannel /\ y.pendingOutRec = s.pendingOutRec /\ t \in End
  BY <1>1, <1>3 DEF Sending
<1>6. b \in Bunch /\ (b.rel <=> rel) /\ b.rel \in BOOLEAN
  BY DEF IsPart, Bunch
<1>7. PICK O \in Nat : O = s.outReliable
  BY EndTypes
<1>8. PICK L \in Int : L = Low(s) /\ L = Low(t)
  BY <1>3, Lengths DEF Sending
<1>9. Room(t)
  <2>0. ReliableBuffer \in Nat
    BY ChannelAssumption
  <2>1. CASE rel
    <3>1. t.outReliable = O + k /\ Span(t) = O + k + 1 - L
      BY <1>3, <1>7, <1>8, <2>1 DEF Sending, Span
    <3>2. O + size + 1 - L <= ReliableBuffer /\ (~close => O + size + 1 - L < ReliableBuffer)
      BY <1>7, <1>8, <2>1 DEF Sendable
    <3>3. Span(t) <= ReliableBuffer /\ (~close => Span(t) < ReliableBuffer)
      BY <2>0, <3>1, <3>2
    <3>4. close => t.channel.closing
      BY <1>3 DEF Sending, Sendable
    <3>5. t.channel = NoChannel \/ ~t.channel.closing => ~close
      BY <1>3, <3>4 DEF Sending
    <3> QED
      BY <3>3, <3>5 DEF Room
  <2>2. CASE ~rel
    <3>1. Span(t) = Span(s)
      BY <1>3, <1>7, <1>8, <2>2 DEF Sending, Span
    <3>2. Span(s) <= ReliableBuffer /\ Span(s) < ReliableBuffer
      BY DEF Room, Sendable
    <3> QED
      BY <3>1, <3>2 DEF Room
  <2> QED
    BY <2>1, <2>2
<1>10. Line(t, r, g)
  <2>1. b.rel => y.pendingOutRec = 0 /\ (b.close => b.part = "whole")
    BY <1>5, <1>6 DEF Sendable, IsPart
  <2>2. ~b.rel => ~b.open /\ ~b.close
    BY <1>6 DEF IsPart
  <2> QED
    BY <1>2, <1>3, <1>4, <1>5, <1>6, <1>9, <2>1, <2>2, LinePrepared
<1>11. /\ g \in History
       /\ b.rel => g[y.outReliable + 1] = Stamped(y, b)
       /\ \A q \in Nat : q # y.outReliable + 1 => g[q] = f[q]
       /\ ~b.rel => g = f
  BY <1>4, <1>5, <1>6, NumbersType
<1>12. Numbering(s, rel, close, size, t, h, g)
  <2>1. CASE ~rel
    <3>1. g = f /\ t.outReliable = y.outReliable
      BY <1>1, <1>3, <1>6, <1>11, <2>1 DEF Sending
    <3> QED
      BY <1>2, <3>1 DEF Numbering
  <2>2. CASE rel
    <3>1. y.outReliable = O + (k - 1) /\ t.outReliable = O + k
      BY <1>1, <1>3, <1>7, <2>2 DEF Sending
    <3>2. PICK n \in Nat : n = O + k /\ y.outReliable + 1 = n /\ y.outReliable = n - 1 /\ t.outReliable = n /\ n > O
      BY <3>1
    <3>3. g[n] = Stamped(y, b) /\ \A q \in Nat : q # n => g[q] = f[q]
      BY <1>6, <1>11, <2>2, <3>2
    <3>4. /\ \A q \in 0 .. O : f[q] = h[q]
          /\ \A q \in O + 1 .. n - 1 :
               /\ f[q].close <=> close /\ q = O + size
               /\ f[q].open <=> s.channel.openedLocally /\ ~s.channel.opened /\ q = O + 1
               /\ f[q].part = PartOf(q - O, size)
      BY <1>2, <1>7, <3>2 DEF Numbering
    <3>5. \A q \in 0 .. O : g[q] = h[q]
      <4> TAKE q \in 0 .. O
      <4>1. q \in Nat /\ q # n
        BY <3>2
      <4> QED
        BY <3>3, <3>4, <4>1
    <3>6. g[n].close = b.close /\ g[n].open = b.open /\ g[n].part = b.part
      <4>1. /\ Stamped(y, b).close = b.close /\ Stamped(y, b).open = b.open
            /\ Stamped(y, b).part = b.part
        BY <1>5, <1>6, StampedType
      <4> QED
        BY <3>3, <4>1
    <3>7. (n = O + size <=> k = size) /\ (n = O + 1 <=> k = 1) /\ n - O = k
      BY <3>2
    <3>8. ASSUME NEW q \in O + 1 .. n
          PROVE  /\ g[q].close <=> close /\ q = O + size
                 /\ g[q].open <=> s.channel.openedLocally /\ ~s.channel.opened /\ q = O + 1
                 /\ g[q].part = PartOf(q - O, size)
      <4>1. CASE q = n
        <5>1. b.close <=> close /\ k = size
          BY DEF IsPart
        <5>2. /\ b.open <=> s.channel.openedLocally /\ ~s.channel.opened /\ k = 1
              /\ b.part = PartOf(k, size)
          BY DEF IsPart
        <5> QED
          BY <3>6, <3>7, <4>1, <5>1, <5>2
      <4>2. CASE q # n
        <5>1. q \in O + 1 .. n - 1 /\ q \in Nat
          BY <4>2
        <5> QED
          BY <3>3, <3>4, <4>2, <5>1
      <4> QED
        BY <4>1, <4>2
    <3> QED
      BY <1>7, <3>2, <3>5, <3>8 DEF Numbering
  <2> QED
    BY <2>1, <2>2
<1> QED
  BY <1>3, <1>10, <1>11, <1>12 DEF LineSending
LEMMA LineSendingFlushed ==
  ASSUME NEW s \in End, NEW r \in End, NEW h \in History, NEW rel, NEW close, NEW size, NEW k,
         NEW x, LineSending(s, r, h, rel, close, size, k, x), NEW t, t = Flushed(x)
  PROVE  LineSending(s, r, h, rel, close, size, k, t)
<1>1. Sending(s, rel, close, size, k, x) /\ x \in End
  BY DEF LineSending, Sending
<1>2. PICK g \in History : Line(x, r, g) /\ Numbering(s, rel, close, size, x, h, g)
  BY DEF LineSending
<1>3. Line(t, r, g)
  BY <1>1, <1>2, LineFlushed
<1>4. /\ t \in End /\ t.state = x.state /\ t.channel = x.channel /\ t.outReliable = x.outReliable
      /\ t.inReliable = x.inReliable /\ t.pendingOutRec = x.pendingOutRec
      /\ t.fates = x.fates /\ t.receiving = x.receiving
  BY <1>1, FlushedType
<1>5. Low(t) = Low(x) /\ Queue(t) = Queue(x)
  BY <1>4 DEF Low, Records, Queue
<1>6. Sending(s, rel, close, size, k, t)
  BY <1>1, <1>4, <1>5 DEF Sending
<1>7. Numbering(s, rel, close, size, t, h, g)
  BY <1>2, <1>4 DEF Numbering
<1> QED
  BY <1>2, <1>3, <1>6, <1>7 DEF LineSending

LEMMA LineSent ==
  ASSUME NEW s \in End, NEW rel \in BOOLEAN, NEW close \in BOOLEAN, NEW size \in Nat \ {0},
         Sendable(s, rel, close, size), NEW r \in End, NEW h \in History, Line(s, r, h),
         NEW tag \in Tag, ~(rel /\ OverflowsReliable(s, size, close)),
         NEW t, t = SendBunch(s, rel, close, tag, size)
  PROVE  LineSending(s, r, h, rel, close, size, size, t)
<1> DEFINE D == [k \in 0 .. size |-> {x \in End : LineSending(s, r, h, rel, close, size, k, x)}]
<1>0. Room(s) /\ s.channel # NoChannel /\ ~s.channel.closing
  BY DEF Line, Sendable
<1>1. LineSending(s, r, h, rel, close, size, 0, s)
  <2>1. PICK o \in Nat : o = s.outReliable
    BY EndTypes
  <2>2. ~(0 = size) /\ ~(0 >= 1) /\ o = o + 0 /\ \A q \in o + 1 .. o : FALSE
    BY <2>1
  <2>3. Sending(s, rel, close, size, 0, s)
    BY <1>0, <2>1, <2>2 DEF Sending
  <2>4. Numbering(s, rel, close, size, s, h, h)
    BY <2>1, <2>2 DEF Numbering
  <2> QED
    BY <2>3, <2>4 DEF LineSending
<1>2. ASSUME NEW k \in 1 .. size, NEW y, LineSending(s, r, h, rel, close, size, k - 1, y)
      PROVE  PrepBunch(y, RawPart(s, rel, close, tag, size, k)) \in D[k]
  <2>1. PICK b : b = RawPart(s, rel, close, tag, size, k)
    OBVIOUS
  <2>2. IsPart(s, rel, close, size, k, b)
    BY <2>1, RawPartIs
  <2>3. PICK x : x = PrepBunch(y, b)
    OBVIOUS
  <2>4. LineSending(s, r, h, rel, close, size, k, x)
    BY <1>0, <1>2, <2>2, <2>3, PartSent
  <2>5. x \in End
    BY <2>4 DEF LineSending, Sending
  <2>6. k \in 0 .. size
    OBVIOUS
  <2> QED
    BY <2>1, <2>3, <2>4, <2>5, <2>6
<1>3. PrepBunch(s, RawPart(s, rel, close, tag, size, 1)) \in D[1]
  <2>1. PICK k \in 1 .. size : k = 1 /\ k - 1 = 0
    OBVIOUS
  <2> QED
    BY <1>1, <1>2, <2>1
<1>4. ASSUME NEW k \in 2 .. size, NEW x \in D[k - 1]
      PROVE  PrepBunch(Flushed(x), RawPart(s, rel, close, tag, size, k)) \in D[k]
  <2>1. k - 1 \in 0 .. size /\ k \in 1 .. size
    OBVIOUS
  <2>2. LineSending(s, r, h, rel, close, size, k - 1, x)
    BY <1>4, <2>1
  <2>3. PICK y : y = Flushed(x)
    OBVIOUS
  <2>4. LineSending(s, r, h, rel, close, size, k - 1, y)
    BY <2>2, <2>3, LineSendingFlushed
  <2> QED
    BY <1>2, <2>1, <2>3, <2>4
<1> HIDE DEF D
<1>5. SendBunch(s, rel, close, tag, size) \in D[size]
  BY <1>3, <1>4, SendBunchBy
<1>6. size \in 0 .. size
  OBVIOUS
<1> QED
  BY <1>5, <1>6 DEF D
=============================================================================
