-------------------------- MODULE Connection_proofs --------------------------
(***************************************************************************)
(* What the packet layer promises for sequence numbers of any width, any   *)
(* length of the history and any number of packets, as long as less than   *)
(* half of the sequence numbers are in flight and no packet is delayed by  *)
(* more: the wrapped numbers always stand for the ids they were made from, *)
(* and the fates reported are true.  It begins with the arithmetic: while  *)
(* two ids are less than half of the number space apart, their sequence    *)
(* numbers compare and subtract as the ids do.                             *)
(***************************************************************************)
EXTENDS Connection, SequenceTheorems, TLAPS

-----------------------------------------------------------------------------
(* Remainders.                                                             *)

\* A number is its quotient and its remainder.
LEMMA DivMod ==
  ASSUME NEW n \in Int, NEW C \in Nat \ {0}
  PROVE  /\ n \div C \in Int
         /\ n % C \in 0 .. C - 1
         /\ n = C * (n \div C) + (n % C)
<1>1. C > 0
  OBVIOUS
<1>2. n \div C \in Int
  BY <1>1
<1>3. n % C \in 0 .. C - 1
  BY <1>1
<1>4. n = C * (n \div C) + (n % C)
  BY <1>1
<1> QED
  BY <1>2, <1>3, <1>4

\* Two representations with remainders below C have the same remainder.
LEMMA RemainderUnique ==
  ASSUME NEW C \in Nat \ {0},
         NEW q \in Int, NEW p \in Int,
         NEW r \in 0 .. C - 1, NEW s \in 0 .. C - 1,
         C * q + r = C * p + s
  PROVE  r = s
<1>1. C * (q - p) = s - r
  OBVIOUS
<1>2. s - r < C /\ r - s < C
  OBVIOUS
<1>3. CASE q - p = 0
  BY <1>1, <1>3
<1>4. CASE q - p >= 1
  <2>1. C * (q - p) >= C * 1
    BY <1>4
  <2> QED
    BY <2>1, <1>1, <1>2
<1>5. CASE q - p <= -1
  <2>1. C * (q - p) <= C * (-1)
    BY <1>5
  <2> QED
    BY <2>1, <1>1, <1>2
<1> QED
  BY <1>3, <1>4, <1>5

\* What differs by a multiple of C has the same remainder.
LEMMA SameRemainder ==
  ASSUME NEW C \in Nat \ {0}, NEW m \in Int, NEW n \in Int, NEW k \in Int,
         m = n + C * k
  PROVE  m % C = n % C
<1> DEFINE q == m \div C
           p == (n \div C) + k
           r == m % C
           s == n % C
<1>1. /\ q \in Int /\ p \in Int
      /\ r \in 0 .. C - 1 /\ s \in 0 .. C - 1
  BY DivMod
<1>2. m = C * q + r
  BY DivMod
<1>3. n = C * (n \div C) + s /\ n \div C \in Int
  BY DivMod
<1>4. C * p = C * (n \div C) + C * k
  BY <1>3
<1> HIDE DEF q, p, r, s
<1>5. C * q + r = C * p + s
  BY <1>1, <1>2, <1>3, <1>4
<1>6. r = s
  BY <1>1, <1>5, RemainderUnique
<1> QED
  BY <1>6 DEF r, s

\* A number below C is its own remainder.
LEMMA RemainderOfSmall ==
  ASSUME NEW C \in Nat \ {0}, NEW n \in 0 .. C - 1
  PROVE  n % C = n
  OBVIOUS

\* A negative number above -C gains C.
LEMMA RemainderOfNegative ==
  ASSUME NEW C \in Nat \ {0}, NEW n \in Int, -C <= n, n < 0
  PROVE  n % C = n + C
  OBVIOUS

-----------------------------------------------------------------------------
(* Sequence numbers.                                                       *)

LEMMA CountPositive == SeqNumberCount \in Nat \ {0} /\ SeqNumberCount = 2 * SeqNumberHalf
  BY SeqNumberAssumption DEF SeqNumberCount

\* The constructor yields a number of NumBits.
LEMMA SeqOfType == ASSUME NEW id \in Int PROVE SeqOf(id) \in SeqNumber
  BY CountPositive, DivMod DEF SeqOf, SeqNumber

\* Incrementing a sequence number follows the id, also where it wraps around.
THEOREM IncFollowsId ==
  ASSUME NEW id \in Int
  PROVE  Inc(SeqOf(id)) = SeqOf(id + 1)
<1> DEFINE C == SeqNumberCount
           m == (id % C) + 1
           n == id + 1
           k == -(id \div C)
<1>1. C \in Nat \ {0}
  BY CountPositive
<1> HIDE DEF C
<1>2. /\ m \in Int /\ n \in Int /\ k \in Int
      /\ id = C * (id \div C) + (id % C)
  BY <1>1, DivMod
<1>3. m = n + C * k
  BY <1>1, <1>2
<1> HIDE DEF m, n, k
<1>4. m % C = n % C
  BY <1>1, <1>2, <1>3, SameRemainder
<1> QED
  BY <1>4 DEF m, n, C, Inc, SeqOf

\* Stepping back from a sequence number follows the id, too.
LEMMA DecFollowsId ==
  ASSUME NEW id \in Int
  PROVE  SeqOf(SeqOf(id) - 1) = SeqOf(id - 1)
<1> DEFINE C == SeqNumberCount
           m == (id % C) - 1
           n == id - 1
           k == -(id \div C)
<1>1. C \in Nat \ {0}
  BY CountPositive
<1> HIDE DEF C
<1>2. /\ m \in Int /\ n \in Int /\ k \in Int
      /\ id = C * (id \div C) + (id % C)
  BY <1>1, DivMod
<1>3. m = n + C * k
  BY <1>1, <1>2
<1> HIDE DEF m, n, k
<1>4. m % C = n % C
  BY <1>1, <1>2, <1>3, SameRemainder
<1> QED
  BY <1>4 DEF m, n, C, SeqOf

\* The distance of two sequence numbers is that of the ids, up to wrap-arounds.
LEMMA SeqOfDistance ==
  ASSUME NEW a \in Int, NEW b \in Int
  PROVE  /\ SeqOf(a) - SeqOf(b) \in Int
         /\ \E k \in Int : SeqOf(a) - SeqOf(b) = a - b + SeqNumberCount * k
<1> DEFINE C == SeqNumberCount
           k == (b \div C) - (a \div C)
<1>1. C \in Nat \ {0}
  BY CountPositive
<1>2. SeqOf(a) - SeqOf(b) = (a % C) - (b % C)
  BY DEF SeqOf
<1> HIDE DEF C
<1>3. /\ a = C * (a \div C) + (a % C) /\ a \div C \in Int /\ a % C \in Int
      /\ b = C * (b \div C) + (b % C) /\ b \div C \in Int /\ b % C \in Int
  BY <1>1, DivMod
<1>4. C * k = C * (b \div C) - C * (a \div C) /\ k \in Int
  BY <1>1, <1>3
<1>5. SeqOf(a) - SeqOf(b) = a - b + C * k
  BY <1>1, <1>2, <1>3, <1>4
<1> QED
  BY <1>2, <1>3, <1>4, <1>5 DEF C

\* operator> and operator>= compare ids that are close enough.
THEOREM CompareByDistance ==
  ASSUME NEW a \in Int, NEW b \in Int,
         a - b < SeqNumberHalf, b - a < SeqNumberHalf
  PROVE  /\ Gt(SeqOf(a), SeqOf(b)) <=> a > b
         /\ Ge(SeqOf(a), SeqOf(b)) <=> a >= b
         /\ SeqOf(a) = SeqOf(b) <=> a = b
<1> DEFINE C == SeqNumberCount
           m == SeqOf(a) - SeqOf(b)
           n == a - b
<1>1. C \in Nat \ {0} /\ C = 2 * SeqNumberHalf /\ SeqNumberHalf \in Nat \ {0}
  BY CountPositive, SeqNumberAssumption
<1>2. m % C = n % C
  <2>1. PICK k \in Int : m = n + C * k
    BY SeqOfDistance
  <2>2. m \in Int /\ n \in Int
    BY SeqOfDistance
  <2> HIDE DEF C, m, n
  <2> QED
    BY <1>1, <2>1, <2>2, SameRemainder
<1>3. SeqOf(a) = SeqOf(b) => m = 0
  BY SeqOfType, CountPositive DEF SeqNumber
<1> HIDE DEF C, m
<1>4. ASSUME a >= b PROVE m % C = n
  BY <1>1, <1>2, <1>4, RemainderOfSmall
<1>5. ASSUME a < b PROVE m % C = n + C
  BY <1>1, <1>2, <1>5, RemainderOfNegative
<1>6. m = 0 => m % C = 0
  BY <1>1, RemainderOfSmall
<1>7. SeqOf(a) = SeqOf(b) <=> a = b
  BY <1>1, <1>3, <1>4, <1>5, <1>6
<1>8. m % C < SeqNumberHalf <=> a >= b
  BY <1>1, <1>4, <1>5
<1> QED
  BY <1>7, <1>8 DEF Gt, Ge, m, C

\* Of two ids in order, however far apart, operator>= tells whether they are close.
LEMMA CloseByDistance ==
  ASSUME NEW a \in Int, NEW b \in Int, b <= a, a - b < SeqNumberCount
  PROVE  Ge(SeqOf(a), SeqOf(b)) <=> a - b < SeqNumberHalf
<1> DEFINE C == SeqNumberCount
           m == SeqOf(a) - SeqOf(b)
           n == a - b
<1>1. C \in Nat \ {0}
  BY CountPositive
<1>2. m % C = n % C
  <2>1. PICK k \in Int : m = n + C * k
    BY SeqOfDistance
  <2>2. m \in Int /\ n \in Int
    BY SeqOfDistance
  <2> HIDE DEF C, m, n
  <2> QED
    BY <1>1, <2>1, <2>2, SameRemainder
<1>3. n % C = n
  BY <1>1, RemainderOfSmall
<1> QED
  BY <1>2, <1>3 DEF Ge

\* Diff measures the distance of ids that are close enough.
THEOREM DiffIsDistance ==
  ASSUME NEW a \in Int, NEW b \in Int,
         a - b < SeqNumberHalf, b - a <= SeqNumberHalf
  PROVE  Diff(SeqOf(a), SeqOf(b)) = a - b
<1> DEFINE C == SeqNumberCount
           m == SeqOf(a) - SeqOf(b) + SeqNumberHalf
           n == a - b + SeqNumberHalf
<1>1. C \in Nat \ {0} /\ C = 2 * SeqNumberHalf /\ SeqNumberHalf \in Nat \ {0}
  BY CountPositive, SeqNumberAssumption
<1>2. m % C = n % C
  <2>1. PICK k \in Int : SeqOf(a) - SeqOf(b) = a - b + C * k
    BY SeqOfDistance
  <2>2. SeqOf(a) - SeqOf(b) \in Int
    BY SeqOfDistance
  <2> HIDE DEF C
  <2>3. m \in Int /\ n \in Int
    BY <1>1, <2>2
  <2>4. C * k \in Int
    BY <1>1
  <2>5. m = n + C * k
    BY <1>1, <2>1, <2>2, <2>4
  <2> HIDE DEF m, n
  <2> QED
    BY <1>1, <2>3, <2>5, SameRemainder
<1>3. n \in 0 .. C - 1
  BY <1>1
<1>4. n % C = n
  BY <1>1, <1>3, RemainderOfSmall
<1> QED
  BY <1>1, <1>2, <1>4 DEF Diff

-----------------------------------------------------------------------------
\* The send window and the delay under which the code may work with wrapped numbers.
Window == MaxInFlight < SeqNumberHalf /\ MaxPacketAge <= SeqNumberHalf

-----------------------------------------------------------------------------
(* The inductive invariant, for an endpoint e and its peer.                *)

\* The id that an endpoint acknowledged in its packet k: before the first packet,
\* the id before the peer's first.
AckedBy(sent, first, peerFirst, k) == IF k < first THEN peerFirst - 1 ELSE sent[k].ackId

AckOf(e, k) == AckedBy(network[e], FirstId(e), FirstId(Peer(e)), k)

\* The last packet of its own that e knows to have reached its peer, once
\* UpdateInAckSeqAck has looked at the header.
Heard(e) == IF phase[e] = "notify" THEN pending[e].packet.ackId ELSE outAckId[e]

\* The packet up to whose notifications e has come.
Taken(e) == IF phase[e] = "bunches" THEN pending[e].id ELSE inAckId[e]

\* The wrapped numbers stand for ids.
NumbersInv(e) ==
  /\ notify[e].inSeq = SeqOf(IF phase[e] = "notify" THEN inAckId[e] ELSE inPacketId[e])
  /\ notify[e].inAckSeq = SeqOf(inAckId[e])
  /\ notify[e].inAckSeqAck = SeqOf(AckOf(e, Heard(e)))
  /\ notify[e].outSeq = SeqOf(outPacketId[e])
  /\ notify[e].outAckSeq = SeqOf(outAckId[e])

\* What e let in was sent, and what it was told to have arrived is what the last
\* packet it took said.
OrderInv(e) ==
  /\ FirstId(e) <= outPacketId[e]
  /\ FirstId(Peer(e)) - 1 <= inAckId[e] /\ inAckId[e] <= inPacketId[e]
  /\ inPacketId[e] < outPacketId[Peer(e)]
  /\ outAckId[e] = AckOf(Peer(e), Taken(e))
  /\ outPacketId[e] <= outAckId[e] + MaxInFlight + 1

\* The history that a packet of e carries tells the truth about every packet whose
\* fate the peer does not know yet.
Covers(e, packet) ==
  \A i \in HistoryIndex :
    i < packet.ackId - outAckId[Peer(e)] =>
      (packet.header.history[i] <=> packet.ackId - i \in delivered[e])

\* A packet of e with a given id, sent or in the send buffer.
PacketInv(e, id, packet) ==
  /\ packet.header.seq = SeqOf(id)
  /\ packet.header.ackedSeq = SeqOf(packet.ackId)
  /\ FirstId(Peer(e)) - 1 <= packet.ackId /\ packet.ackId <= inAckId[e]
  /\ \A k \in SentIds(e) : k < id => network[e][k].ackId <= packet.ackId
  /\ id <= AckOf(Peer(e), packet.ackId) + 2 * MaxInFlight + 1
  /\ Covers(e, packet)

SentInv(e) == \A id \in SentIds(e) : PacketInv(e, id, network[e][id])

BufferInv(e) ==
  sendBuffer[e] # NoHeader =>
    /\ PacketInv(e, outPacketId[e], sendBuffer[e])
    /\ notify[e].writtenInAckSeq = SeqOf(sendBuffer[e].ackId)
    /\ dirtyAcks[e] = 0 => sendBuffer[e].ackId = inAckId[e]

\* One record for each packet in flight.
RecordInv(e) ==
  /\ Len(notify[e].ackRecord) = outPacketId[e] - 1 - Heard(e)
  /\ \A i \in 1 .. Len(notify[e].ackRecord) :
       notify[e].ackRecord[i] = [outSeq |-> SeqOf(Heard(e) + i),
                                 inAckSeq |-> SeqOf(network[e][Heard(e) + i].ackId)]

HistoryInv(e) ==
  /\ \A id \in delivered[e] : id <= inAckId[e]
  /\ \A i \in HistoryIndex :
       FirstId(Peer(e)) <= inAckId[e] - i =>
         (notify[e].inSeqHistory[i] <=> inAckId[e] - i \in delivered[e])

\* The packet that ReceivedPacket processes.
PendingInv(e) ==
  /\ phase[e] \in {"notify", "bunches"} =>
       /\ pending[e].id = inPacketId[e] /\ inAckId[e] < pending[e].id
       /\ pending[e].packet = network[Peer(e)][pending[e].id]
       /\ pending[e].packet.ackId <= AckOf(Peer(e), inAckId[e]) + MaxInFlight
  /\ phase[e] \notin {"notify", "bunches"} => inPacketId[e] = inAckId[e]
  /\ phase[e] = "notify" =>
       /\ 0 <= pending[e].count
       /\ lastNotified[e] + pending[e].count = pending[e].packet.ackId
       /\ pending[e].currentAck = SeqOf(lastNotified[e] + 1)
       /\ outAckId[e] <= lastNotified[e]
  /\ phase[e] # "notify" => lastNotified[e] = outAckId[e]

DirtyInv(e) ==
  /\ dirtyAcks[e] = 0 /\ FirstId(Peer(e)) <= inAckId[e] =>
       /\ FirstId(e) < outPacketId[e]
       /\ network[e][outPacketId[e] - 1].ackId = inAckId[e]
  /\ phase[e] \notin {"flush", "reflush"} => dirtyAcks[e] < HistorySize
  /\ phase[e] = "reflush" => sendBuffer[e] = NoHeader

EndInv(e) ==
  /\ NumbersInv(e) /\ OrderInv(e) /\ SentInv(e) /\ BufferInv(e) /\ RecordInv(e)
  /\ HistoryInv(e) /\ PendingInv(e) /\ DirtyInv(e)
  /\ state[e] # "violation"

Inv == TypeOK /\ \A e \in Endpoint : EndInv(e)

-----------------------------------------------------------------------------
(* Endpoints and sizes.                                                    *)

LEMMA Endpoints ==
  ASSUME NEW e \in Endpoint
  PROVE  /\ Peer(e) \in Endpoint /\ Peer(e) # e /\ Peer(Peer(e)) = e
         /\ \A x \in Endpoint : x = e \/ x = Peer(e)
         /\ FirstId(e) \in Nat
BY ConnectionAssumption DEF ConnectionAssumption, Endpoint, Peer, FirstId

LEMMA Sizes ==
  /\ HistorySize \in Nat \ {0} /\ HistorySize = BitsPerWord * WordCount
  /\ BitsPerWord \in Nat \ {0} /\ WordCount \in Nat \ {0}
  /\ SeqNumberHalf \in Nat \ {0} /\ SeqNumberCount = 2 * SeqNumberHalf
  /\ MaxInFlight \in Nat /\ MaxPacketAge \in Nat
<1>1. BitsPerWord \in Nat \ {0} /\ WordCount \in Nat \ {0}
  BY HistoryAssumption DEF HistoryAssumption
<1>2. BitsPerWord * WordCount \in Nat \ {0}
  BY <1>1
<1> QED
  BY <1>1, <1>2, SeqNumberAssumption, CountPositive, ConnectionAssumption
  DEF HistorySize, ConnectionAssumption, SeqNumberAssumption

\* What TypeOK says of one endpoint.
LEMMA EndTypes ==
  ASSUME TypeOK, NEW e \in Endpoint
  PROVE  /\ notify[e] \in PacketNotifyState /\ pending[e] \in Pending
         /\ inPacketId[e] \in Int /\ outPacketId[e] \in Nat /\ inAckId[e] \in Int
         /\ outAckId[e] \in Int /\ lastNotified[e] \in Int /\ dirtyAcks[e] \in Nat
         /\ sendBuffer[e] \in Packet \cup {NoHeader}
         /\ phase[e] \in Phase
         /\ network[e] \in [SentIds(e) -> Packet]
         /\ \A id \in SentIds(e) : network[e][id].ackId \in Int
BY DEF TypeOK, Packet

\* What an endpoint acknowledged in a packet it sent is in order.
LEMMA AckedInOrder ==
  ASSUME Inv, NEW e \in Endpoint, NEW k \in Int, k < outPacketId[e]
  PROVE  /\ AckOf(e, k) \in Int
         /\ FirstId(Peer(e)) - 1 <= AckOf(e, k) /\ AckOf(e, k) <= inAckId[e]
         /\ \A j \in Int : j <= k => AckOf(e, j) <= AckOf(e, k)
<1> USE DEF AckOf, AckedBy
<1>1. /\ FirstId(Peer(e)) \in Nat /\ FirstId(e) \in Nat
      /\ outPacketId[e] \in Nat /\ inAckId[e] \in Int
      /\ \A id \in SentIds(e) : network[e][id].ackId \in Int
  BY EndTypes, Endpoints DEF Inv
<1>2. EndInv(e)
  BY DEF Inv
<1>3. /\ FirstId(Peer(e)) - 1 <= inAckId[e]
      /\ \A id \in SentIds(e) :
           /\ FirstId(Peer(e)) - 1 <= network[e][id].ackId
           /\ network[e][id].ackId <= inAckId[e]
           /\ \A j \in SentIds(e) : j < id => network[e][j].ackId <= network[e][id].ackId
  BY <1>2 DEF EndInv, OrderInv, SentInv, PacketInv
<1>4. k >= FirstId(e) => k \in SentIds(e)
  BY <1>1 DEF SentIds
<1>5. AckOf(e, k) \in Int /\ FirstId(Peer(e)) - 1 <= AckOf(e, k) /\ AckOf(e, k) <= inAckId[e]
  BY <1>1, <1>3, <1>4
<1>6. ASSUME NEW j \in Int, j <= k PROVE AckOf(e, j) <= AckOf(e, k)
  <2>1. j >= FirstId(e) => j \in SentIds(e)
    BY <1>1, <1>6 DEF SentIds
  <2>2. CASE j < FirstId(e)
    BY <1>1, <1>5, <2>2
  <2>3. CASE j >= FirstId(e)
    BY <1>1, <1>3, <1>4, <1>6, <2>1, <2>3
  <2> QED
    BY <1>1, <2>2, <2>3
<1> QED
  BY <1>5, <1>6

\* The ids of a packet on its way around: sent, let in, acknowledged, heard of.
LEMMA IdsInOrder ==
  ASSUME Inv, NEW e \in Endpoint
  PROVE  LET p == Peer(e)
         IN  /\ FirstId(e) - 1 <= outAckId[e] /\ outAckId[e] <= Heard(e)
             /\ Heard(e) \in Int /\ Heard(e) <= inAckId[p]
             /\ inAckId[p] <= Taken(p) /\ Taken(p) <= inPacketId[p] /\ Taken(p) \in Int
             /\ inPacketId[p] < outPacketId[e]
             /\ outPacketId[e] <= outAckId[e] + MaxInFlight + 1
<1> DEFINE p == Peer(e)
<1>1. p \in Endpoint /\ Peer(p) = e /\ FirstId(e) \in Nat /\ FirstId(p) \in Nat
  BY Endpoints
<1>2. EndInv(e) /\ EndInv(p)
  BY <1>1 DEF Inv
<1>3. /\ inAckId[e] \in Int /\ inAckId[p] \in Int /\ inPacketId[p] \in Int
      /\ inPacketId[e] \in Int
      /\ outPacketId[e] \in Nat /\ outPacketId[p] \in Nat /\ outAckId[e] \in Int
      /\ pending[e] \in Pending /\ pending[p] \in Pending
  BY <1>1, EndTypes DEF Inv
<1>4. /\ inAckId[e] <= Taken(e) /\ Taken(e) <= inPacketId[e] /\ Taken(e) \in Int
      /\ inAckId[p] <= Taken(p) /\ Taken(p) <= inPacketId[p] /\ Taken(p) \in Int
  BY <1>2, <1>3 DEF EndInv, OrderInv, PendingInv, Taken, Pending
<1>5. inPacketId[e] < outPacketId[p] /\ inPacketId[p] < outPacketId[e]
  BY <1>1, <1>2 DEF EndInv, OrderInv
<1>6. outAckId[e] = AckOf(p, Taken(e))
  BY <1>2 DEF EndInv, OrderInv
<1>7. FirstId(e) - 1 <= outAckId[e] /\ outAckId[e] <= inAckId[p]
  <2>1. Taken(e) < outPacketId[p]
    BY <1>3, <1>4, <1>5
  <2> HIDE DEF p
  <2>2. PICK k \in Int : k = Taken(e)
    BY <1>4
  <2> QED
    BY <1>1, <1>6, <2>1, <2>2, AckedInOrder
<1>8. outAckId[e] <= Heard(e) /\ Heard(e) \in Int /\ Heard(e) <= inAckId[p]
  <2>1. CASE phase[e] = "notify"
    <3>1. Heard(e) = network[p][pending[e].id].ackId /\ pending[e].id = inPacketId[e]
          /\ inAckId[e] < pending[e].id
      BY <1>2, <2>1 DEF Heard, EndInv, PendingInv
    <3>2. pending[e].id \in SentIds(p) /\ pending[e].id >= FirstId(p)
      BY <1>1, <1>2, <1>3, <1>5, <3>1 DEF SentIds, EndInv, OrderInv
    <3>3. Heard(e) = AckOf(p, inPacketId[e])
      BY <1>1, <1>3, <3>1, <3>2 DEF AckOf, AckedBy
    <3> HIDE DEF p
    <3>4. PICK k \in Int : k = inPacketId[e]
      BY <1>3
    <3>5. PICK j \in Int : j = Taken(e)
      BY <1>4
    <3>6. j <= k
      BY <1>4, <3>4, <3>5
    <3> QED
      BY <1>1, <1>5, <1>6, <3>3, <3>4, <3>5, <3>6, AckedInOrder
  <2>2. CASE phase[e] # "notify"
    BY <1>3, <1>7, <2>2 DEF Heard
  <2> QED
    BY <2>1, <2>2
<1>9. outPacketId[e] <= outAckId[e] + MaxInFlight + 1
  BY <1>2 DEF EndInv, OrderInv
<1> QED
  BY <1>4, <1>5, <1>7, <1>8, <1>9

-----------------------------------------------------------------------------
(* The history that is sent.                                               *)

LEMMA WordCountType ==
  ASSUME NEW n, SequenceHistoryLength(n) \in Int
  PROVE  CurrentHistoryWordCount(n) \in 0 .. WordCount
<1> DEFINE words == (SequenceHistoryLength(n) + BitsPerWord - 1) \div BitsPerWord
<1>1. words \in Int
  BY Sizes
<1> HIDE DEF words
<1>2. CurrentHistoryWordCount(n) = IF words < 1 THEN 1 ELSE IF words > WordCount THEN WordCount
                                   ELSE words
  BY DEF CurrentHistoryWordCount, words
<1> QED
  BY <1>1, <1>2, Sizes

\* Whole words round up, and no more than the history is needed.
LEMMA WordsSuffice ==
  ASSUME NEW n, NEW i \in HistoryIndex,
         SequenceHistoryLength(n) \in Int, i < SequenceHistoryLength(n)
  PROVE  i < CurrentHistoryWordCount(n) * BitsPerWord
<1> DEFINE len == SequenceHistoryLength(n)
           B == BitsPerWord
           m == len + B - 1
           words == m \div B
<1>1. /\ B \in Nat \ {0} /\ WordCount \in Nat \ {0} /\ i \in Nat
      /\ i < B * WordCount /\ m \in Int
  BY Sizes DEF HistoryIndex
<1>2. words \in Int /\ m % B \in 0 .. B - 1 /\ m = B * words + (m % B)
  <2> HIDE DEF m, B
  <2> QED
    BY <1>1, DivMod
<1>3. PICK r \in 0 .. B - 1 : m = B * words + r
  BY <1>2
<1>4. CurrentHistoryWordCount(n) = IF words < 1 THEN 1 ELSE IF words > WordCount THEN WordCount
                                   ELSE words
  BY DEF CurrentHistoryWordCount
<1>5. len = m - B + 1 /\ len \in Int
  BY <1>1
<1> HIDE DEF len, m, words, B
<1>6. B * words \in Int
  BY <1>1, <1>2
<1>7. B * words >= len
  BY <1>1, <1>3, <1>5, <1>6
<1>8. i < B * words
  BY <1>1, <1>5, <1>6, <1>7 DEF len
<1>9. words >= 1
  <2>1. ASSUME words <= 0 PROVE B * words <= 0
    BY <1>1, <1>2, <2>1
  <2> QED
    BY <1>1, <1>2, <1>6, <1>8, <2>1
<1>10. CurrentHistoryWordCount(n) = IF words > WordCount THEN WordCount ELSE words
  BY <1>2, <1>4, <1>9
<1>11. CASE words > WordCount
  BY <1>1, <1>10, <1>11 DEF B
<1>12. CASE ~(words > WordCount)
  BY <1>1, <1>2, <1>8, <1>10, <1>12 DEF B
<1> QED
  BY <1>11, <1>12

\* How far the peer knows what e acknowledged, as far as e knows: that is not more
\* than the peer knows, and not too far behind.
LEMMA AcksBehind ==
  ASSUME Inv, NEW e \in Endpoint
  PROVE  LET b == AckOf(e, Heard(e))
         IN  /\ b \in Int /\ b <= outAckId[Peer(e)] /\ b <= inAckId[e]
             /\ inAckId[e] <= b + 2 * MaxInFlight + 1
<1> DEFINE p == Peer(e)
<1>0. p \in Endpoint /\ Peer(p) = e /\ FirstId(e) \in Nat /\ FirstId(p) \in Nat
  BY Endpoints
<1>1. /\ Heard(e) \in Int /\ Heard(e) <= inAckId[p] /\ inAckId[p] <= Taken(p)
      /\ Taken(p) <= inPacketId[p] /\ inPacketId[p] < outPacketId[e] /\ Taken(p) \in Int
  BY IdsInOrder
<1>2. /\ inAckId[e] \in Int /\ inAckId[p] \in Int /\ inPacketId[p] \in Int
      /\ outPacketId[e] \in Nat /\ outPacketId[p] \in Nat /\ inPacketId[e] \in Int
      /\ pending[e] \in Pending /\ outAckId[e] \in Int /\ outAckId[p] \in Int
  BY <1>0, EndTypes DEF Inv
<1>3. EndInv(e) /\ EndInv(p)
  BY <1>0 DEF Inv
<1>4. outAckId[p] = AckOf(e, Taken(p))
  BY <1>0, <1>3 DEF EndInv, OrderInv
<1> DEFINE b == AckOf(e, Heard(e))
<1>5. b \in Int /\ b <= outAckId[p] /\ b <= inAckId[e] /\ FirstId(p) - 1 <= b
  <2>1. PICK h \in Int : h = Heard(e)
    BY <1>1
  <2>2. PICK t \in Int : t = Taken(p)
    BY <1>1
  <2>3. h <= t /\ t < outPacketId[e] /\ h < outPacketId[e]
    BY <1>1, <1>2, <2>1, <2>2
  <2>4. /\ AckOf(e, h) \in Int /\ AckOf(e, h) <= inAckId[e]
        /\ FirstId(p) - 1 <= AckOf(e, h)
    BY <2>3, AckedInOrder
  <2>5. AckOf(e, h) <= AckOf(e, t)
    BY <2>3, AckedInOrder
  <2> QED
    BY <1>4, <2>1, <2>2, <2>4, <2>5
\* The packet that told e.
<1> DEFINE t == IF phase[e] = "notify" THEN pending[e].id ELSE Taken(e)
<1>6. /\ t \in Int /\ inAckId[e] <= t /\ t < outPacketId[p]
      /\ Heard(e) = AckOf(p, t)
  <2>1. /\ Taken(e) \in Int /\ inAckId[e] <= Taken(e) /\ Taken(e) <= inPacketId[e]
        /\ inPacketId[e] < outPacketId[p]
    BY <1>0, IdsInOrder
  <2>2. CASE phase[e] = "notify"
    <3>1. /\ pending[e].id = inPacketId[e] /\ inAckId[e] < pending[e].id
          /\ Heard(e) = network[p][pending[e].id].ackId
      BY <1>3, <2>2 DEF EndInv, PendingInv, Heard
    <3>2. FirstId(p) <= pending[e].id
      BY <1>0, <1>2, <1>3, <3>1 DEF EndInv, OrderInv
    <3> QED
      BY <1>0, <1>2, <2>1, <2>2, <3>1, <3>2 DEF AckOf, AckedBy
  <2>3. CASE phase[e] # "notify"
    BY <1>2, <1>3, <2>1, <2>3 DEF Heard, EndInv, OrderInv
  <2> QED
    BY <2>2, <2>3
<1> HIDE DEF t
<1>7. inAckId[e] <= b + 2 * MaxInFlight + 1
  <2>1. CASE t < FirstId(p)
    BY <1>0, <1>2, <1>5, <1>6, <2>1, Sizes
  <2>2. CASE t >= FirstId(p)
    <3>1. t \in SentIds(p) /\ Heard(e) = network[p][t].ackId
      BY <1>0, <1>2, <1>6, <2>2 DEF SentIds, AckOf, AckedBy
    <3>2. t <= AckOf(e, network[p][t].ackId) + 2 * MaxInFlight + 1
      BY <1>0, <1>3, <3>1 DEF EndInv, SentInv, PacketInv
    <3>3. t <= b + 2 * MaxInFlight + 1
      BY <3>1, <3>2
    <3> HIDE DEF b
    <3> QED
      BY <1>2, <1>5, <1>6, <3>3, Sizes
  <2> QED
    BY <1>0, <1>6, <2>1, <2>2
<1> QED
  BY <1>5, <1>7

\* SequenceHistoryLength covers every acknowledgement the peer may not know yet.
LEMMA LengthCovers ==
  ASSUME Inv, Window, NEW e \in Endpoint
  PROVE  /\ SequenceHistoryLength(notify[e]) \in Nat
         /\ \A i \in HistoryIndex :
              i < inAckId[e] - outAckId[Peer(e)] => i < SequenceHistoryLength(notify[e])
<1> DEFINE b == AckOf(e, Heard(e))
           n == notify[e]
<1>1. /\ b \in Int /\ b <= outAckId[Peer(e)] /\ b <= inAckId[e]
      /\ inAckId[e] <= b + 2 * MaxInFlight + 1
  BY AcksBehind
<1>2. inAckId[e] \in Int /\ outAckId[Peer(e)] \in Int
  BY EndTypes, Endpoints DEF Inv
<1>3. n.inAckSeq = SeqOf(inAckId[e]) /\ n.inAckSeqAck = SeqOf(b)
  BY DEF Inv, EndInv, NumbersInv
<1> HIDE DEF b
<1>4. inAckId[e] - b < SeqNumberCount
  BY <1>1, <1>2, Sizes DEF Window
<1>5. PICK a \in Int : a = inAckId[e]
  BY <1>2
<1>6. /\ Ge(SeqOf(a), SeqOf(b)) <=> a - b < SeqNumberHalf
      /\ a - b < SeqNumberHalf => Diff(SeqOf(a), SeqOf(b)) = a - b
  BY <1>1, <1>4, <1>5, CloseByDistance, DiffIsDistance, Sizes
<1>7. SequenceHistoryLength(n) = IF a - b < SeqNumberHalf THEN a - b ELSE HistorySize
  BY <1>3, <1>5, <1>6 DEF SequenceHistoryLength
<1>8. \A i \in HistoryIndex : i \in Int /\ i < HistorySize
  BY Sizes DEF HistoryIndex
<1> QED
  BY <1>1, <1>2, <1>5, <1>7, <1>8, Sizes

\* The header that WriteHeader writes with enough words.
LEMMA FreshPacket ==
  ASSUME Inv, Window, NEW e \in Endpoint, NEW words \in Nat,
         CurrentHistoryWordCount(notify[e]) <= words
  PROVE  /\ PacketInv(e, outPacketId[e], PacketWith(e, words))
         /\ PacketWith(e, words).ackId = inAckId[e]
<1> DEFINE p == Peer(e)
           q == PacketWith(e, words)
<1>0. p \in Endpoint /\ Peer(p) = e /\ FirstId(e) \in Nat /\ FirstId(p) \in Nat
  BY Endpoints
<1>1. /\ inAckId[e] \in Int /\ outPacketId[e] \in Nat /\ outAckId[e] \in Int
      /\ outAckId[p] \in Int /\ pending[e] \in Pending /\ inPacketId[e] \in Int
      /\ outPacketId[p] \in Nat
  BY <1>0, EndTypes DEF Inv
<1>2. EndInv(e)
  BY DEF Inv
<1>3. /\ q.ackId = inAckId[e] /\ q.header.seq = notify[e].outSeq
      /\ q.header.ackedSeq = notify[e].inAckSeq
      /\ q.header.history = WriteRead(notify[e].inSeqHistory, words)
  BY DEF PacketWith, HeaderOf
<1>4. q.header.seq = SeqOf(outPacketId[e]) /\ q.header.ackedSeq = SeqOf(q.ackId)
  BY <1>2, <1>3 DEF EndInv, NumbersInv
<1>5. FirstId(p) - 1 <= inAckId[e]
  BY <1>2 DEF EndInv, OrderInv
<1>6. \A k \in SentIds(e) : network[e][k].ackId <= inAckId[e]
  BY <1>2 DEF EndInv, SentInv, PacketInv
<1>7. outPacketId[e] <= AckOf(p, inAckId[e]) + 2 * MaxInFlight + 1
  <2>1. PICK k \in Int : k = inAckId[e]
    BY <1>1
  <2>2. k < outPacketId[p]
    BY <1>0, <1>1, <2>1, IdsInOrder
  <2>3. AckOf(p, k) \in Int
    BY <1>0, <2>2, AckedInOrder
  <2>4. outPacketId[e] <= outAckId[e] + MaxInFlight + 1
    BY <1>2 DEF EndInv, OrderInv
  <2>5. outAckId[e] <= AckOf(p, k) + MaxInFlight
    <3>1. CASE phase[e] = "bunches"
      <4>1. /\ pending[e].id = inPacketId[e] /\ inAckId[e] < pending[e].id
            /\ pending[e].packet = network[p][pending[e].id]
            /\ pending[e].packet.ackId <= AckOf(p, inAckId[e]) + MaxInFlight
            /\ outAckId[e] = AckOf(p, pending[e].id)
        BY <1>2, <3>1 DEF EndInv, PendingInv, OrderInv, Taken
      <4>2. FirstId(p) <= pending[e].id
        BY <1>0, <1>1, <1>5, <4>1
      <4>3. outAckId[e] = pending[e].packet.ackId
        BY <1>0, <1>1, <4>1, <4>2 DEF AckOf, AckedBy
      <4> QED
        BY <2>1, <4>1, <4>3
    <3>2. CASE phase[e] # "bunches"
      <4>1. outAckId[e] = AckOf(p, k)
        BY <1>2, <2>1, <3>2 DEF EndInv, OrderInv, Taken
      <4> QED
        BY <2>3, <4>1, Sizes
    <3> QED
      BY <3>1, <3>2
  <2> HIDE DEF p
  <2> QED
    BY <1>1, <2>1, <2>3, <2>4, <2>5, Sizes
<1>8. Covers(e, q)
  <2> SUFFICES ASSUME NEW i \in HistoryIndex, i < inAckId[e] - outAckId[p]
               PROVE  q.header.history[i] <=> inAckId[e] - i \in delivered[e]
    BY <1>3 DEF Covers
  <2>1. i < CurrentHistoryWordCount(notify[e]) * BitsPerWord
    BY LengthCovers, WordsSuffice
  <2>2. CurrentHistoryWordCount(notify[e]) \in Nat
    BY LengthCovers, WordCountType, Sizes
  <2>3. CurrentHistoryWordCount(notify[e]) * BitsPerWord <= words * BitsPerWord
    BY <2>2, Sizes
  <2>4. i < words * BitsPerWord
    BY <2>1, <2>2, <2>3, Sizes DEF HistoryIndex
  <2>5. q.header.history[i] = notify[e].inSeqHistory[i]
    <3>1. notify[e].inSeqHistory \in [HistoryIndex -> BOOLEAN]
      BY EndTypes DEF Inv, PacketNotifyState, History
    <3> QED
      BY <1>3, <2>4, <3>1 DEF WriteRead
  <2>6. FirstId(p) <= inAckId[e] - i
    <3>1. FirstId(p) - 1 <= outAckId[p]
      BY <1>0, IdsInOrder
    <3>2. i \in Int
      BY Sizes DEF HistoryIndex
    <3> HIDE DEF p
    <3> QED
      BY <1>0, <1>1, <3>1, <3>2
  <2> QED
    BY <1>2, <2>5, <2>6 DEF EndInv, HistoryInv
<1>9. \A k \in SentIds(e) : k < outPacketId[e] => network[e][k].ackId <= q.ackId
  BY <1>3, <1>6
<1> HIDE DEF q
<1> QED
  BY <1>1, <1>3, <1>4, <1>5, <1>7, <1>8, <1>9 DEF PacketInv, q

-----------------------------------------------------------------------------
(* A step of the other endpoint.                                           *)

\* Nothing that e relies on is disturbed when its peer sends or hears more.
LEMMA PeerKeeps ==
  ASSUME Inv, TypeOK', NEW e \in Endpoint, NEW p \in Endpoint, p = Peer(e),
         notify'[e] = notify[e], inPacketId'[e] = inPacketId[e],
         outPacketId'[e] = outPacketId[e], lastNotified'[e] = lastNotified[e],
         dirtyAcks'[e] = dirtyAcks[e], sendBuffer'[e] = sendBuffer[e],
         state'[e] = state[e], phase'[e] = phase[e], pending'[e] = pending[e],
         network'[e] = network[e], inAckId'[e] = inAckId[e], outAckId'[e] = outAckId[e],
         delivered'[e] = delivered[e],
         outPacketId[p] <= outPacketId'[p], outAckId[p] <= outAckId'[p],
         \A k \in SentIds(p) : network'[p][k] = network[p][k]
  PROVE  EndInv(e)'
<1>0. Peer(p) = e /\ FirstId(e) \in Nat /\ FirstId(p) \in Nat
  BY Endpoints
<1>1. EndInv(e)
  BY DEF Inv
<1>2. /\ inAckId[e] \in Int /\ outPacketId[e] \in Nat /\ outAckId[e] \in Int
      /\ outAckId[p] \in Int /\ pending[e] \in Pending /\ inPacketId[e] \in Int
      /\ outPacketId[p] \in Nat /\ outPacketId'[p] \in Nat /\ outAckId'[p] \in Int
      /\ \A id \in SentIds(e) : network[e][id].ackId \in Int
      /\ sendBuffer[e] \in Packet \cup {NoHeader}
  BY <1>0, EndTypes DEF Inv, TypeOK
<1>3. ASSUME NEW k \in Int, k < outPacketId[p]
      PROVE  AckOf(p, k)' = AckOf(p, k)
  BY <1>0, <1>2, <1>3 DEF AckOf, AckedBy, SentIds
<1>4. /\ inAckId[e] <= Taken(e) /\ Taken(e) <= inPacketId[e] /\ Taken(e) \in Int
      /\ inPacketId[e] < outPacketId[p]
  BY <1>0, IdsInOrder
<1>5. /\ Taken(e)' = Taken(e) /\ Heard(e)' = Heard(e)
      /\ SentIds(e)' = SentIds(e)
  BY DEF Taken, Heard, SentIds
<1>6. NumbersInv(e)'
  BY <1>1, <1>5 DEF EndInv, NumbersInv, AckOf
<1>7. OrderInv(e)'
  <2>1. AckOf(p, Taken(e))' = AckOf(p, Taken(e))
    <3>1. PICK k \in Int : k = Taken(e)
      BY <1>4
    <3>2. AckOf(p, k)' = AckOf(p, k)
      BY <1>2, <1>3, <1>4, <3>1
    <3> QED
      BY <1>5, <3>1, <3>2 DEF AckOf
  <2> QED
    BY <1>1, <1>2, <1>4, <2>1 DEF EndInv, OrderInv
<1>8. ASSUME NEW id, NEW q, PacketInv(e, id, q), q.ackId \in Int
      PROVE  PacketInv(e, id, q)'
  <2>1. Covers(e, q)'
    BY <1>2, <1>8, Sizes DEF PacketInv, Covers, HistoryIndex
  <2>2. q.ackId < outPacketId[p]
    BY <1>2, <1>4, <1>8 DEF PacketInv
  <2>3. AckOf(p, q.ackId)' = AckOf(p, q.ackId)
    BY <1>3, <1>8, <2>2
  <2> QED
    BY <1>5, <1>8, <2>1, <2>3 DEF PacketInv
<1>9. SentInv(e)'
  BY <1>1, <1>2, <1>5, <1>8 DEF EndInv, SentInv
<1>10. BufferInv(e)'
  BY <1>1, <1>2, <1>8 DEF EndInv, BufferInv, Packet
<1>11. RecordInv(e)'
  BY <1>1, <1>5 DEF EndInv, RecordInv
<1>12. HistoryInv(e)'
  BY <1>1 DEF EndInv, HistoryInv
<1>13. PendingInv(e)'
  <2>1. AckOf(p, inAckId[e])' = AckOf(p, inAckId[e])
    <3>1. PICK k \in Int : k = inAckId[e]
      BY <1>2
    <3>2. AckOf(p, k)' = AckOf(p, k)
      BY <1>2, <1>3, <1>4, <3>1
    <3> QED
      BY <3>1, <3>2 DEF AckOf
  <2>2. phase[e] \in {"notify", "bunches"} =>
          network'[p][pending[e].id] = network[p][pending[e].id]
    <3> SUFFICES ASSUME phase[e] \in {"notify", "bunches"}
                 PROVE  pending[e].id \in SentIds(p)
      OBVIOUS
    <3>1. pending[e].id = inPacketId[e] /\ inAckId[e] < pending[e].id
      BY <1>1 DEF EndInv, PendingInv
    <3>2. FirstId(p) - 1 <= inAckId[e]
      BY <1>1 DEF EndInv, OrderInv
    <3> QED
      BY <1>0, <1>2, <1>4, <3>1, <3>2 DEF SentIds
  <2> QED
    BY <1>1, <2>1, <2>2 DEF EndInv, PendingInv
<1>14. DirtyInv(e)'
  BY <1>1 DEF EndInv, DirtyInv
<1>15. state'[e] # "violation"
  BY <1>1 DEF EndInv
<1> QED
  BY <1>6, <1>7, <1>9, <1>10, <1>11, <1>12, <1>13, <1>14, <1>15 DEF EndInv

-----------------------------------------------------------------------------
(* Types.                                                                  *)

LEMMA DiffType ==
  ASSUME NEW a \in SeqNumber, NEW b \in SeqNumber
  PROVE  Diff(a, b) \in Int
<1>1. a - b + SeqNumberHalf \in Int /\ SeqNumberCount \in Nat \ {0}
  BY Sizes, CountPositive DEF SeqNumber
<1>2. (a - b + SeqNumberHalf) % SeqNumberCount \in Int
  BY <1>1, DivMod
<1> QED
  BY <1>2, Sizes DEF Diff

LEMMA WordCountOfState ==
  ASSUME NEW n \in PacketNotifyState
  PROVE  CurrentHistoryWordCount(n) \in 0 .. WordCount
<1>1. SequenceHistoryLength(n) \in Int
  BY DiffType, Sizes DEF SequenceHistoryLength, PacketNotifyState
<1> QED
  BY <1>1, WordCountType

LEMMA PacketWithType ==
  ASSUME TypeOK, NEW e \in Endpoint, NEW words
  PROVE  PacketWith(e, words) \in Packet
<1>1. notify[e] \in PacketNotifyState /\ inAckId[e] \in Int
  BY EndTypes
<1>2. WriteRead(notify[e].inSeqHistory, words) \in History
  BY <1>1 DEF WriteRead, History, PacketNotifyState
<1> QED
  BY <1>1, <1>2 DEF PacketWith, Packet, HeaderOf, NotificationHeader, PacketNotifyState

-----------------------------------------------------------------------------
(* Sending.                                                                *)

\* Writing a header changes nothing that decides how long it has to be.
LEMMA WriteHeaderKeeps ==
  ASSUME NEW n \in PacketNotifyState, NEW words \in 0 .. WordCount
  PROVE  LET m == WriteHeader(n, words)
         IN  /\ m \in PacketNotifyState
             /\ m.writtenHistoryWordCount = words /\ m.writtenInAckSeq = n.inAckSeq
             /\ CurrentHistoryWordCount(m) = CurrentHistoryWordCount(n)
             /\ m.ackRecord = n.ackRecord /\ m.inSeqHistory = n.inSeqHistory
             /\ m.inSeq = n.inSeq /\ m.inAckSeq = n.inAckSeq
             /\ m.inAckSeqAck = n.inAckSeqAck /\ m.outSeq = n.outSeq
             /\ m.outAckSeq = n.outAckSeq
<1> DEFINE m == WriteHeader(n, words)
<1>1. /\ m \in PacketNotifyState
      /\ m.writtenHistoryWordCount = words /\ m.writtenInAckSeq = n.inAckSeq
      /\ m.ackRecord = n.ackRecord /\ m.inSeqHistory = n.inSeqHistory
      /\ m.inSeq = n.inSeq /\ m.inAckSeq = n.inAckSeq
      /\ m.inAckSeqAck = n.inAckSeqAck /\ m.outSeq = n.outSeq
      /\ m.outAckSeq = n.outAckSeq
  BY DEF WriteHeader, PacketNotifyState
<1> HIDE DEF m
<1>2. SequenceHistoryLength(m) = SequenceHistoryLength(n)
  BY <1>1 DEF SequenceHistoryLength
<1>3. CurrentHistoryWordCount(m) = CurrentHistoryWordCount(n)
  BY <1>2 DEF CurrentHistoryWordCount
<1> QED
  BY <1>1, <1>3 DEF m

LEMMA CommitKeeps ==
  ASSUME NEW n \in PacketNotifyState
  PROVE  LET m == CommitAndIncrementOutSeq(n)
         IN  /\ m \in PacketNotifyState
             /\ m.ackRecord = Append(n.ackRecord, [outSeq |-> n.outSeq,
                                                   inAckSeq |-> n.writtenInAckSeq])
             /\ m.outSeq = Inc(n.outSeq)
             /\ m.inSeqHistory = n.inSeqHistory
             /\ m.inSeq = n.inSeq /\ m.inAckSeq = n.inAckSeq
             /\ m.inAckSeqAck = n.inAckSeqAck /\ m.outAckSeq = n.outAckSeq
<1>0. n.outSeq \in Int /\ n.outSeq + 1 \in Int
  BY Sizes DEF PacketNotifyState, SeqNumber
<1>1. Inc(n.outSeq) \in SeqNumber
  BY <1>0, SeqOfType DEF Inc
<1>2. [outSeq |-> n.outSeq, inAckSeq |-> n.writtenInAckSeq] \in SentAckData
  BY DEF SentAckData, PacketNotifyState
<1>3. Append(n.ackRecord, [outSeq |-> n.outSeq, inAckSeq |-> n.writtenInAckSeq])
        \in Seq(SentAckData)
  BY <1>2 DEF PacketNotifyState
<1> DEFINE s == Inc(n.outSeq)
           r == Append(n.ackRecord, [outSeq |-> n.outSeq, inAckSeq |-> n.writtenInAckSeq])
<1>4. CommitAndIncrementOutSeq(n) =
        [n EXCEPT !.ackRecord = r, !.writtenHistoryWordCount = 0, !.outSeq = s]
  BY DEF CommitAndIncrementOutSeq, PacketNotifyState
<1>5. 0 \in 0 .. WordCount
  BY Sizes
<1> HIDE DEF s, r
<1>6. LET m == CommitAndIncrementOutSeq(n)
      IN  /\ m \in PacketNotifyState
          /\ m.ackRecord = r /\ m.outSeq = s
          /\ m.inSeqHistory = n.inSeqHistory
          /\ m.inSeq = n.inSeq /\ m.inAckSeq = n.inAckSeq
          /\ m.inAckSeqAck = n.inAckSeqAck /\ m.outAckSeq = n.outAckSeq
  BY <1>1, <1>3, <1>4, <1>5 DEF PacketNotifyState, r, s
<1> QED
  BY <1>6 DEF r, s

\* What SendPacket does: the packet it sends is in order, and the acknowledgements
\* stay dirty unless it carries them all.
Sends(e, q, refresh) ==
  /\ PacketInv(e, outPacketId[e], q) /\ q \in Packet
  /\ notify'[e] \in PacketNotifyState
  /\ notify'[e].ackRecord = Append(notify[e].ackRecord, [outSeq |-> SeqOf(outPacketId[e]),
                                                         inAckSeq |-> SeqOf(q.ackId)])
  /\ notify'[e].outSeq = SeqOf(outPacketId[e] + 1)
  /\ notify'[e].inSeqHistory = notify[e].inSeqHistory
  /\ notify'[e].inSeq = notify[e].inSeq /\ notify'[e].inAckSeq = notify[e].inAckSeq
  /\ notify'[e].inAckSeqAck = notify[e].inAckSeqAck
  /\ notify'[e].outAckSeq = notify[e].outAckSeq
  /\ network'[e] = [id \in SentIds(e) \cup {outPacketId[e]} |->
                      IF id = outPacketId[e] THEN q ELSE network[e][id]]
  /\ dirtyAcks'[e] = IF refresh THEN 0 ELSE dirtyAcks[e]
  /\ outPacketId'[e] = outPacketId[e] + 1
  /\ sendBuffer'[e] = NoHeader
  /\ IF refresh THEN q.ackId = inAckId[e]
                ELSE sendBuffer[e] # NoHeader /\ q = sendBuffer[e]

LEMMA SendPacketSends ==
  ASSUME Inv, Window, NEW e \in Endpoint, SendPacket(e)
  PROVE  \E q, refresh : refresh \in BOOLEAN /\ Sends(e, q, refresh)
<1> DEFINE n == IF sendBuffer[e] = NoHeader
                  THEN WriteHeader(notify[e], CurrentHistoryWordCount(notify[e]))
                  ELSE notify[e]
           words == n.writtenHistoryWordCount
           refresh == CanRefresh(n)
           m == IF refresh THEN WriteHeader(n, words) ELSE n
           q == IF refresh THEN PacketWith(e, words) ELSE sendBuffer[e]
<1>1. /\ notify[e] \in PacketNotifyState /\ sendBuffer[e] \in Packet \cup {NoHeader}
      /\ DOMAIN notify = Endpoint /\ DOMAIN network = Endpoint
      /\ DOMAIN dirtyAcks = Endpoint /\ DOMAIN outPacketId = Endpoint
      /\ DOMAIN sendBuffer = Endpoint /\ outPacketId[e] \in Int
      /\ TypeOK
  BY EndTypes DEF Inv, TypeOK
<1>2. CurrentHistoryWordCount(notify[e]) \in 0 .. WordCount
  BY <1>1, WordCountOfState
<1>3. /\ n \in PacketNotifyState
      /\ CurrentHistoryWordCount(n) = CurrentHistoryWordCount(notify[e])
      /\ n.ackRecord = notify[e].ackRecord /\ n.inSeqHistory = notify[e].inSeqHistory
      /\ n.inSeq = notify[e].inSeq /\ n.inAckSeq = notify[e].inAckSeq
      /\ n.inAckSeqAck = notify[e].inAckSeqAck /\ n.outSeq = notify[e].outSeq
      /\ n.outAckSeq = notify[e].outAckSeq
      /\ sendBuffer[e] = NoHeader => words = CurrentHistoryWordCount(notify[e])
      /\ sendBuffer[e] # NoHeader => n = notify[e]
  BY <1>1, <1>2, WriteHeaderKeeps
<1>4. /\ notify' = [notify EXCEPT ![e] = CommitAndIncrementOutSeq(m)]
      /\ network' = [network EXCEPT ![e] =
           [id \in SentIds(e) \cup {outPacketId[e]} |->
              IF id = outPacketId[e] THEN q ELSE network[e][id]]]
      /\ dirtyAcks' = [dirtyAcks EXCEPT ![e] = IF refresh THEN 0 ELSE dirtyAcks[e]]
      /\ outPacketId' = [outPacketId EXCEPT ![e] = outPacketId[e] + 1]
      /\ sendBuffer' = [sendBuffer EXCEPT ![e] = NoHeader]
  BY <1>1 DEF SendPacket
<1> HIDE DEF n
<1>5. /\ words \in 0 .. WordCount /\ words \in Nat
      /\ refresh <=> CurrentHistoryWordCount(notify[e]) <= words
      /\ sendBuffer[e] = NoHeader => refresh
  BY <1>2, <1>3, Sizes DEF CanRefresh, PacketNotifyState
<1> HIDE DEF words, refresh
<1>6. /\ m \in PacketNotifyState
      /\ m.ackRecord = n.ackRecord /\ m.inSeqHistory = n.inSeqHistory
      /\ m.inSeq = n.inSeq /\ m.inAckSeq = n.inAckSeq
      /\ m.inAckSeqAck = n.inAckSeqAck /\ m.outSeq = n.outSeq
      /\ m.outAckSeq = n.outAckSeq
      /\ refresh => m.writtenInAckSeq = n.inAckSeq
      /\ ~refresh => m = n
  BY <1>3, <1>5, WriteHeaderKeeps
<1>7. /\ PacketInv(e, outPacketId[e], q) /\ q \in Packet
      /\ m.writtenInAckSeq = SeqOf(q.ackId)
      /\ IF refresh THEN q.ackId = inAckId[e]
                    ELSE sendBuffer[e] # NoHeader /\ q = sendBuffer[e]
  <2>1. CASE refresh
    <3>1. q = PacketWith(e, words)
      BY <2>1
    <3>2. q.ackId = inAckId[e] /\ PacketInv(e, outPacketId[e], q)
      BY <1>5, <2>1, <3>1, FreshPacket
    <3>3. q \in Packet
      BY <1>1, <3>1, PacketWithType
    <3>4. m.writtenInAckSeq = SeqOf(inAckId[e])
      BY <1>3, <1>6, <2>1 DEF Inv, EndInv, NumbersInv
    <3> HIDE DEF q, m
    <3> QED
      BY <2>1, <3>2, <3>3, <3>4
  <2>2. CASE ~refresh
    <3>1. q = sendBuffer[e] /\ sendBuffer[e] # NoHeader
      BY <1>5, <2>2
    <3>2. /\ PacketInv(e, outPacketId[e], sendBuffer[e])
          /\ notify[e].writtenInAckSeq = SeqOf(sendBuffer[e].ackId)
      BY <3>1 DEF Inv, EndInv, BufferInv
    <3>3. m = notify[e]
      BY <1>3, <1>6, <2>2, <3>1
    <3> HIDE DEF q, m
    <3> QED
      BY <1>1, <2>2, <3>1, <3>2, <3>3
  <2> QED
    BY <2>1, <2>2
<1> HIDE DEF m, q
<1> DEFINE c == CommitAndIncrementOutSeq(m)
<1>8. /\ c \in PacketNotifyState
      /\ c.ackRecord = Append(m.ackRecord, [outSeq |-> m.outSeq,
                                            inAckSeq |-> m.writtenInAckSeq])
      /\ c.outSeq = Inc(m.outSeq)
      /\ c.inSeqHistory = m.inSeqHistory
      /\ c.inSeq = m.inSeq /\ c.inAckSeq = m.inAckSeq
      /\ c.inAckSeqAck = m.inAckSeqAck /\ c.outAckSeq = m.outAckSeq
  BY <1>6, CommitKeeps
<1>9. notify'[e] = c
  BY <1>1, <1>4
<1> HIDE DEF c
<1>10. notify[e].outSeq = SeqOf(outPacketId[e])
  BY DEF Inv, EndInv, NumbersInv
<1>11. c.outSeq = SeqOf(outPacketId[e] + 1)
  BY <1>1, <1>3, <1>6, <1>8, <1>10, IncFollowsId
<1>12. /\ network'[e] = [id \in SentIds(e) \cup {outPacketId[e]} |->
                           IF id = outPacketId[e] THEN q ELSE network[e][id]]
       /\ dirtyAcks'[e] = IF refresh THEN 0 ELSE dirtyAcks[e]
       /\ outPacketId'[e] = outPacketId[e] + 1
       /\ sendBuffer'[e] = NoHeader
  BY <1>1, <1>4
<1>13. refresh \in BOOLEAN
  BY <1>5 DEF refresh, CanRefresh
<1>14. Sends(e, q, refresh)
  BY <1>3, <1>6, <1>7, <1>8, <1>9, <1>10, <1>11, <1>12 DEF Sends
<1> QED
  BY <1>13, <1>14

\* What e relies on after it has sent a packet.
LEMMA SendKeeps ==
  ASSUME Inv, TypeOK', NEW e \in Endpoint, NEW p \in Endpoint, p = Peer(e),
         NEW q, NEW refresh \in BOOLEAN, Sends(e, q, refresh),
         outPacketId[e] <= outAckId[e] + MaxInFlight,
         inPacketId'[e] = inPacketId[e], lastNotified'[e] = lastNotified[e],
         state'[e] = state[e], pending'[e] = pending[e], inAckId'[e] = inAckId[e],
         outAckId'[e] = outAckId[e], delivered'[e] = delivered[e],
         network'[p] = network[p], outPacketId'[p] = outPacketId[p],
         outAckId'[p] = outAckId[p],
         IF phase[e] \in {"flush", "reflush"}
           THEN phase'[e] = IF phase[e] = "flush" /\ dirtyAcks'[e] # 0 THEN "reflush" ELSE "idle"
           ELSE phase'[e] = phase[e]
  PROVE  EndInv(e)'
<1>0. Peer(p) = e /\ FirstId(e) \in Nat /\ FirstId(p) \in Nat
  BY Endpoints
<1>1. EndInv(e)
  BY DEF Inv
<1>2. /\ inAckId[e] \in Int /\ outPacketId[e] \in Nat /\ outAckId[e] \in Int
      /\ outAckId[p] \in Int /\ pending[e] \in Pending /\ inPacketId[e] \in Int
      /\ outPacketId[p] \in Nat /\ dirtyAcks[e] \in Nat
      /\ \A id \in SentIds(e) : network[e][id].ackId \in Int
      /\ notify[e].ackRecord \in Seq(SentAckData)
  BY <1>0, EndTypes DEF Inv, PacketNotifyState
<1>3. /\ Taken(e)' = Taken(e) /\ Heard(e)' = Heard(e)
      /\ phase'[e] \in {"notify", "bunches"} <=> phase[e] \in {"notify", "bunches"}
      /\ phase'[e] = "notify" <=> phase[e] = "notify"
  BY DEF Taken, Heard
<1>4. /\ FirstId(e) <= outPacketId[e]
      /\ Heard(e) \in Int /\ FirstId(e) - 1 <= Heard(e) /\ Heard(e) < outPacketId[e]
  <2>1. FirstId(e) <= outPacketId[e]
    BY <1>1 DEF EndInv, OrderInv
  <2>2. /\ Heard(e) \in Int /\ FirstId(e) - 1 <= outAckId[e] /\ outAckId[e] <= Heard(e)
        /\ Heard(e) <= inAckId[p] /\ inAckId[p] <= Taken(p) /\ Taken(p) <= inPacketId[p]
        /\ inPacketId[p] < outPacketId[e] /\ Taken(p) \in Int
    BY IdsInOrder
  <2>3. inAckId[p] \in Int /\ inPacketId[p] \in Int
    BY EndTypes DEF Inv
  <2> QED
    BY <1>0, <1>2, <2>1, <2>2, <2>3
<1>5. /\ SentIds(e)' = SentIds(e) \cup {outPacketId[e]} /\ outPacketId[e] \notin SentIds(e)
      /\ network'[e][outPacketId[e]] = q
      /\ \A k \in SentIds(e) : network'[e][k] = network[e][k] /\ k < outPacketId[e]
  BY <1>0, <1>2, <1>4 DEF SentIds, Sends
<1>6. ASSUME NEW k \in Int, k < outPacketId[e]
      PROVE  AckOf(e, k)' = AckOf(e, k)
  BY <1>0, <1>2, <1>5, <1>6 DEF AckOf, AckedBy, SentIds
<1>7. NumbersInv(e)'
  <2>1. PICK h \in Int : h = Heard(e)
    BY <1>4
  <2>2. AckOf(e, h)' = AckOf(e, h)
    BY <1>4, <1>6, <2>1
  <2>3. AckOf(e, Heard(e))' = AckOf(e, Heard(e))
    BY <1>3, <2>1, <2>2 DEF AckOf
  <2> QED
    BY <1>1, <1>3, <2>3 DEF EndInv, NumbersInv, Sends
<1>8. OrderInv(e)'
  <2>1. outAckId'[e] = AckOf(Peer(e), Taken(e))'
    BY <1>1, <1>3 DEF EndInv, OrderInv, AckOf
  <2>2. /\ FirstId(e) <= outPacketId'[e]
        /\ outPacketId'[e] <= outAckId'[e] + MaxInFlight + 1
    BY <1>0, <1>2, <1>4, Sizes DEF Sends
  <2> QED
    BY <1>1, <2>1, <2>2 DEF EndInv, OrderInv
<1>9. ASSUME NEW id \in Int, NEW x, PacketInv(e, id, x), id <= outPacketId[e]
      PROVE  PacketInv(e, id, x)'
  <2>1. \A k \in SentIds(e)' : k < id => network'[e][k].ackId <= x.ackId
    BY <1>2, <1>5, <1>9 DEF PacketInv
  <2>2. Covers(e, x)'
    BY <1>9 DEF PacketInv, Covers
  <2> QED
    BY <1>9, <2>1, <2>2 DEF PacketInv, AckOf
<1>10. SentInv(e)'
  <2> SUFFICES ASSUME NEW id \in SentIds(e)', NEW x, x = network'[e][id]
               PROVE  PacketInv(e, id, x)'
    BY DEF SentInv, PacketInv, Covers, AckOf
  <2>1. CASE id = outPacketId[e]
    BY <1>2, <1>5, <1>9, <2>1 DEF Sends
  <2>2. CASE id \in SentIds(e)
    <3>1. PacketInv(e, id, network[e][id]) /\ id \in Int /\ id <= outPacketId[e]
      BY <1>1, <1>2, <1>5, <2>2 DEF EndInv, SentInv, SentIds
    <3>2. x = network[e][id]
      BY <1>5, <2>2
    <3> QED
      BY <1>9, <3>1, <3>2
  <2> QED
    BY <1>5, <2>1, <2>2
<1>11. BufferInv(e)'
  BY DEF BufferInv, Sends
<1>12. RecordInv(e)'
  <2> DEFINE r == notify[e].ackRecord
             s == notify'[e].ackRecord
             new == [outSeq |-> SeqOf(outPacketId[e]), inAckSeq |-> SeqOf(q.ackId)]
  <2>1. s = Append(r, new)
    BY DEF Sends
  <2>2. r \in Seq(SentAckData) /\ Len(r) \in Nat
    BY <1>2
  <2>3. PICK h \in Int : h = Heard(e)
    BY <1>4
  <2>4. /\ Len(r) = outPacketId[e] - 1 - h
        /\ \A i \in 1 .. Len(r) :
             r[i] = [outSeq |-> SeqOf(h + i), inAckSeq |-> SeqOf(network[e][h + i].ackId)]
    BY <1>1, <2>3 DEF EndInv, RecordInv
  <2> HIDE DEF r, s, new
  <2>5. /\ Len(s) = Len(r) + 1
        /\ \A i \in 1 .. Len(r) : s[i] = r[i]
        /\ s[Len(r) + 1] = new
    BY <2>1, <2>2
  <2>6. Len(s) = outPacketId'[e] - 1 - h
    BY <1>2, <2>2, <2>4, <2>5 DEF Sends
  <2>7. ASSUME NEW i \in 1 .. Len(s)
        PROVE  s[i] = [outSeq |-> SeqOf(h + i), inAckSeq |-> SeqOf(network'[e][h + i].ackId)]
    <3>1. CASE i \in 1 .. Len(r)
      <4>1. h + i \in SentIds(e)
        BY <1>0, <1>2, <1>4, <2>3, <2>4, <3>1 DEF SentIds
      <4> QED
        BY <1>5, <2>4, <2>5, <3>1, <4>1
    <3>2. CASE i = Len(r) + 1
      <4>1. h + i = outPacketId[e]
        BY <1>2, <2>2, <2>4, <3>2
      <4> QED
        BY <1>5, <2>5, <3>2, <4>1 DEF new
    <3> QED
      BY <2>2, <2>5, <3>1, <3>2
  <2>8. Heard(e)' = h
    BY <1>3, <2>3
  <2> QED
    BY <2>6, <2>7, <2>8 DEF RecordInv, s
<1>13. HistoryInv(e)'
  BY <1>1 DEF EndInv, HistoryInv, Sends
<1>14. PendingInv(e)'
  BY <1>1, <1>3 DEF EndInv, PendingInv, AckOf
<1>15. DirtyInv(e)'
  <2>1. dirtyAcks'[e] = 0 => q.ackId = inAckId[e]
    BY <1>1 DEF Sends, EndInv, BufferInv
  <2>2. dirtyAcks'[e] = 0 /\ FirstId(p) <= inAckId'[e] =>
          /\ FirstId(e) < outPacketId'[e]
          /\ network'[e][outPacketId'[e] - 1].ackId = inAckId'[e]
    <3>1. outPacketId'[e] = outPacketId[e] + 1 /\ outPacketId'[e] - 1 = outPacketId[e]
      BY <1>2 DEF Sends
    <3> QED
      BY <1>0, <1>2, <1>4, <1>5, <2>1, <3>1
  <2>3. phase'[e] \notin {"flush", "reflush"} => dirtyAcks'[e] < HistorySize
    <3>1. CASE phase[e] \in {"flush", "reflush"}
      <4>1. phase[e] = "reflush" => dirtyAcks'[e] = 0
        BY <1>1 DEF EndInv, DirtyInv, Sends
      <4> QED
        BY <3>1, <4>1, Sizes
    <3>2. CASE phase[e] \notin {"flush", "reflush"}
      BY <1>1, <1>2, <3>2, Sizes DEF EndInv, DirtyInv, Sends
    <3> QED
      BY <3>1, <3>2
  <2>4. sendBuffer'[e] = NoHeader
    BY DEF Sends
  <2> QED
    BY <2>2, <2>3, <2>4 DEF DirtyInv
<1>16. state'[e] # "violation"
  BY <1>1 DEF EndInv
<1> QED
  BY <1>7, <1>8, <1>10, <1>11, <1>12, <1>13, <1>14, <1>15, <1>16 DEF EndInv

-----------------------------------------------------------------------------
(* Every step keeps the types.                                             *)

LEMMA NoPendingType == NoPending \in Pending /\ NoPending.packet \in Packet
<1>1. 0 \in SeqNumber
  BY Sizes DEF SeqNumber
<1>2. NoHistory \in History
  BY DEF NoHistory, History
<1> QED
  BY <1>1, <1>2 DEF NoPending, Pending, Packet, NotificationHeader

LEMMA InitType == Init => TypeOK
<1> SUFFICES ASSUME Init PROVE TypeOK
  OBVIOUS
<1>1. ASSUME NEW e \in Endpoint
      PROVE  /\ FirstId(e) \in Nat /\ FirstId(Peer(e)) \in Nat
             /\ InitPacketNotify(FirstId(Peer(e)) - 1, FirstId(e)) \in PacketNotifyState
  <2>1. FirstId(e) \in Nat /\ FirstId(Peer(e)) \in Nat
    BY Endpoints
  <2>2. SeqOf(FirstId(Peer(e)) - 1) \in SeqNumber /\ SeqOf(FirstId(e)) \in SeqNumber
    BY <2>1, SeqOfType
  <2>3. SeqOf(FirstId(e)) - 1 \in Int
    BY <2>2, Sizes DEF SeqNumber
  <2>4. SeqOf(SeqOf(FirstId(e)) - 1) \in SeqNumber
    BY <2>3, SeqOfType
  <2>5. NoHistory \in History /\ 0 \in SeqNumber /\ 0 \in 0 .. WordCount
        /\ << >> \in Seq(SentAckData)
    BY Sizes DEF NoHistory, History, SeqNumber
  <2> QED
    BY <2>1, <2>2, <2>4, <2>5 DEF InitPacketNotify, PacketNotifyState
<1>2. notify \in [Endpoint -> PacketNotifyState]
  BY <1>1 DEF Init
<1>3. network \in [Endpoint -> [{} -> Packet]]
  BY DEF Init
<1>4. \A e \in Endpoint : SentIds(e) = {}
  BY <1>1 DEF Init, SentIds
<1>5. dirtyAcks \in [Endpoint -> Nat] /\ phase \in [Endpoint -> Phase]
  BY DEF Init, Phase
<1>6. /\ \A e \in Endpoint : network[e] \in [SentIds(e) -> Packet]
      /\ DOMAIN network = Endpoint
  BY <1>3, <1>4
<1>7. /\ inPacketId \in [Endpoint -> Int] /\ outPacketId \in [Endpoint -> Nat]
      /\ outAckPacketId \in [Endpoint -> Int] /\ lastNotified \in [Endpoint -> Int]
      /\ inAckId \in [Endpoint -> Int] /\ outAckId \in [Endpoint -> Int]
  BY <1>1 DEF Init
<1>8. /\ sendBuffer \in [Endpoint -> Packet \cup {NoHeader}]
      /\ state \in [Endpoint -> {"open", "closed", "violation"}]
      /\ heardClient \in BOOLEAN
      /\ delivered \in [Endpoint -> SUBSET Nat] /\ acked \in [Endpoint -> SUBSET Int]
  BY DEF Init
<1>9. pending \in [Endpoint -> Pending]
  BY NoPendingType DEF Init
<1> QED
  BY <1>2, <1>5, <1>6, <1>7, <1>8, <1>9 DEF TypeOK

\* What stays as it is keeps its type.
LEMMA SendType ==
  ASSUME Inv, NEW e \in Endpoint, NEW q, NEW refresh \in BOOLEAN, SendPacket(e),
         Sends(e, q, refresh)
  PROVE  /\ notify' \in [Endpoint -> PacketNotifyState]
         /\ outPacketId' \in [Endpoint -> Nat]
         /\ dirtyAcks' \in [Endpoint -> Nat]
         /\ sendBuffer' \in [Endpoint -> Packet \cup {NoHeader}]
         /\ \A x \in Endpoint : network'[x] \in [SentIds(x)' -> Packet]
         /\ DOMAIN network' = Endpoint
         /\ \A x \in Endpoint : x # e =>
              /\ notify'[x] = notify[x] /\ outPacketId'[x] = outPacketId[x]
              /\ dirtyAcks'[x] = dirtyAcks[x] /\ sendBuffer'[x] = sendBuffer[x]
              /\ network'[x] = network[x]
<1>1. TypeOK
  BY DEF Inv
<1>2. /\ notify' = [notify EXCEPT ![e] = notify'[e]]
      /\ network' = [network EXCEPT ![e] = network'[e]]
      /\ dirtyAcks' = [dirtyAcks EXCEPT ![e] = dirtyAcks'[e]]
      /\ outPacketId' = [outPacketId EXCEPT ![e] = outPacketId'[e]]
      /\ sendBuffer' = [sendBuffer EXCEPT ![e] = sendBuffer'[e]]
  BY <1>1 DEF SendPacket, TypeOK
<1>3. outPacketId[e] \in Nat /\ dirtyAcks[e] \in Nat /\ FirstId(e) \in Nat
      /\ FirstId(e) <= outPacketId[e]
      /\ network[e] \in [SentIds(e) -> Packet]
  BY <1>1, EndTypes, Endpoints DEF Inv, EndInv, OrderInv
<1>4. SentIds(e)' = SentIds(e) \cup {outPacketId[e]}
  BY <1>3 DEF SentIds, Sends
<1>5. network'[e] \in [SentIds(e)' -> Packet]
  <2>1. network'[e] = [id \in SentIds(e) \cup {outPacketId[e]} |->
                          IF id = outPacketId[e] THEN q ELSE network[e][id]]
    BY DEF Sends
  <2>2. q \in Packet
    BY DEF Sends
  <2> QED
    BY <1>3, <1>4, <2>1, <2>2
<1>6. outPacketId'[e] \in Nat /\ dirtyAcks'[e] \in Nat /\ notify'[e] \in PacketNotifyState
  BY <1>3 DEF Sends
<1>7. outPacketId' \in [Endpoint -> Nat] /\ dirtyAcks' \in [Endpoint -> Nat]
      /\ notify' \in [Endpoint -> PacketNotifyState]
  BY <1>1, <1>2, <1>6 DEF TypeOK
<1>8. sendBuffer' \in [Endpoint -> Packet \cup {NoHeader}]
  <2>1. sendBuffer'[e] = NoHeader
    BY DEF Sends
  <2> QED
    BY <1>1, <1>2, <2>1 DEF TypeOK
<1>9. \A x \in Endpoint : x # e => network'[x] = network[x] /\ outPacketId'[x] = outPacketId[x]
  BY <1>1, <1>2 DEF TypeOK
<1>10. \A x \in Endpoint : network'[x] \in [SentIds(x)' -> Packet]
  BY <1>1, <1>5, <1>9 DEF TypeOK, SentIds
<1>11. DOMAIN network' = Endpoint
  BY <1>1, <1>2 DEF TypeOK
<1>12. \A x \in Endpoint : x # e =>
         /\ notify'[x] = notify[x] /\ dirtyAcks'[x] = dirtyAcks[x]
         /\ sendBuffer'[x] = sendBuffer[x]
  BY <1>1, <1>2 DEF TypeOK
<1> QED
  BY <1>7, <1>8, <1>9, <1>10, <1>11, <1>12

-----------------------------------------------------------------------------
(* One lemma per action.                                                   *)

\* The invariant after a step of e.
LEMMA Together ==
  ASSUME TypeOK', NEW e \in Endpoint, EndInv(e)', NEW p \in Endpoint, p = Peer(e), EndInv(p)'
  PROVE  Inv'
<1>1. \A x \in Endpoint : x = e \/ x = p
  BY Endpoints
<1>2. ASSUME NEW x \in Endpoint PROVE EndInv(x)'
  BY <1>1
<1> QED
  BY <1>2 DEF Inv

LEMMA FlushKeeps ==
  ASSUME Inv, Window, NEW e \in Endpoint, FlushNet(e) \/ FlushDirtyAcks(e)
  PROVE  Inv'
<1> DEFINE p == Peer(e)
<1>0. p \in Endpoint /\ Peer(p) = e /\ p # e
  BY Endpoints
<1>1. /\ SendPacket(e) /\ WithinBounds(e)
      /\ UNCHANGED <<inPacketId, outAckPacketId, lastNotified, state, heardClient, pending,
                     auxVars>>
  BY DEF FlushNet, FlushDirtyAcks
<1>2. TypeOK /\ DOMAIN phase = Endpoint
  BY DEF Inv, TypeOK
<1>3. PICK q, refresh : refresh \in BOOLEAN /\ Sends(e, q, refresh)
  BY <1>1, SendPacketSends
<1>4. /\ phase' \in [Endpoint -> Phase] /\ phase'[p] = phase[p]
      /\ IF phase[e] \in {"flush", "reflush"}
           THEN phase'[e] = IF phase[e] = "flush" /\ dirtyAcks'[e] # 0
                              THEN "reflush" ELSE "idle"
           ELSE phase'[e] = phase[e]
  <2>1. CASE FlushNet(e)
    <3>1. phase' = phase /\ InCallback(e)
      BY <2>1 DEF FlushNet
    <3>2. phase[e] \notin {"flush", "reflush"}
      BY <3>1 DEF InCallback
    <3> QED
      BY <1>2, <3>1, <3>2 DEF TypeOK
  <2>2. CASE FlushDirtyAcks(e)
    <3>1. /\ phase[e] \in {"flush", "reflush"}
          /\ phase' = [phase EXCEPT ![e] =
               IF phase[e] = "flush" /\ dirtyAcks'[e] # 0 THEN "reflush" ELSE "idle"]
      BY <2>2 DEF FlushDirtyAcks
    <3> QED
      BY <1>0, <1>2, <3>1 DEF TypeOK, Phase
  <2> QED
    BY <2>1, <2>2
<1>5. /\ notify' \in [Endpoint -> PacketNotifyState]
      /\ outPacketId' \in [Endpoint -> Nat]
      /\ dirtyAcks' \in [Endpoint -> Nat]
      /\ sendBuffer' \in [Endpoint -> Packet \cup {NoHeader}]
      /\ \A x \in Endpoint : network'[x] \in [SentIds(x)' -> Packet]
      /\ DOMAIN network' = Endpoint
      /\ \A x \in Endpoint : x # e =>
           /\ notify'[x] = notify[x] /\ outPacketId'[x] = outPacketId[x]
           /\ dirtyAcks'[x] = dirtyAcks[x] /\ sendBuffer'[x] = sendBuffer[x]
           /\ network'[x] = network[x]
  BY <1>1, <1>3, SendType
<1>6. TypeOK'
  BY <1>1, <1>2, <1>4, <1>5 DEF TypeOK, auxVars
<1>7. outPacketId[e] <= outAckId[e] + MaxInFlight
  <2>1. outPacketId[e] \in Int /\ outAckId[e] \in Int
    BY <1>2, EndTypes
  <2> QED
    BY <1>1, <2>1, Sizes DEF WithinBounds
<1>8. EndInv(e)'
  BY <1>0, <1>1, <1>3, <1>4, <1>5, <1>6, <1>7, SendKeeps DEF auxVars
<1>9. EndInv(p)'
  <2>1. outPacketId[e] \in Nat /\ outPacketId'[e] = outPacketId[e] + 1 /\ outAckId[e] \in Int
    BY <1>2, <1>3, EndTypes DEF Sends
  <2>2. \A k \in SentIds(e) : network'[e][k] = network[e][k]
    <3>1. outPacketId[e] \notin SentIds(e)
      BY <2>1 DEF SentIds
    <3> QED
      BY <1>3, <3>1 DEF Sends
  <2>3. outPacketId[e] <= outPacketId'[e] /\ outAckId[e] <= outAckId'[e]
    BY <1>1, <2>1 DEF auxVars
  <2> HIDE DEF p
  <2>4. /\ notify'[p] = notify[p] /\ outPacketId'[p] = outPacketId[p]
        /\ dirtyAcks'[p] = dirtyAcks[p] /\ sendBuffer'[p] = sendBuffer[p]
        /\ network'[p] = network[p]
    BY <1>0, <1>5
  <2> QED
    BY <1>0, <1>1, <1>4, <1>6, <2>2, <2>3, <2>4, PeerKeeps DEF auxVars
<1> HIDE DEF p
<1> QED
  BY <1>0, <1>6, <1>8, <1>9, Together DEF p

LEMMA InitInv == Init => Inv
<1> SUFFICES ASSUME Init PROVE Inv
  OBVIOUS
<1>1. TypeOK
  BY InitType
<1>2. ASSUME NEW e \in Endpoint PROVE EndInv(e)
  <2> DEFINE p == Peer(e)
             f == FirstId(e)
             g == FirstId(p)
  <2>0. p \in Endpoint /\ Peer(p) = e /\ f \in Nat /\ g \in Nat
    BY Endpoints
  <2>1. /\ notify[e] = InitPacketNotify(g - 1, f)
        /\ inPacketId[e] = g - 1 /\ outPacketId[e] = f /\ lastNotified[e] = f - 1
        /\ dirtyAcks[e] = 0 /\ sendBuffer[e] = NoHeader /\ state[e] = "open"
        /\ phase[e] = "idle" /\ inAckId[e] = g - 1 /\ outAckId[e] = f - 1
        /\ delivered[e] = {} /\ outPacketId[p] = g
    BY <2>0 DEF Init
  <2>2. SentIds(e) = {}
    BY <2>0, <2>1 DEF SentIds
  <2>3. Heard(e) = f - 1 /\ Taken(e) = g - 1
    BY <2>1 DEF Heard, Taken
  <2>4. AckOf(e, f - 1) = g - 1 /\ AckOf(p, g - 1) = f - 1
    BY <2>0 DEF AckOf, AckedBy
  <2>5. /\ notify[e].inSeq = SeqOf(g - 1) /\ notify[e].inAckSeq = SeqOf(g - 1)
        /\ notify[e].inAckSeqAck = SeqOf(g - 1) /\ notify[e].outSeq = SeqOf(f)
        /\ notify[e].outAckSeq = SeqOf(SeqOf(f) - 1)
        /\ notify[e].ackRecord = << >> /\ notify[e].inSeqHistory = NoHistory
    BY <2>1 DEF InitPacketNotify
  <2>6. notify[e].outAckSeq = SeqOf(f - 1)
    BY <2>0, <2>5, DecFollowsId
  <2> HIDE DEF f, g, p
  <2>7. NumbersInv(e)
    BY <2>1, <2>3, <2>4, <2>5, <2>6 DEF NumbersInv
  <2>8. OrderInv(e)
    BY <2>0, <2>1, <2>3, <2>4, Sizes DEF OrderInv, p, f, g
  <2>9. SentInv(e) /\ BufferInv(e)
    BY <2>1, <2>2 DEF SentInv, BufferInv
  <2>10. RecordInv(e)
    BY <2>0, <2>1, <2>3, <2>5 DEF RecordInv
  <2>11. HistoryInv(e)
    BY <2>0, <2>1, <2>5, Sizes DEF HistoryInv, NoHistory, HistoryIndex, g, p
  <2>12. PendingInv(e)
    BY <2>1 DEF PendingInv
  <2>13. DirtyInv(e)
    BY <2>0, <2>1, Sizes DEF DirtyInv, g, p
  <2> QED
    BY <2>1, <2>7, <2>8, <2>9, <2>10, <2>11, <2>12, <2>13 DEF EndInv
<1> QED
  BY <1>1, <1>2 DEF Inv

\* What stays with the endpoint that does not act, if it is not sent anything.
LEMMA OtherKeeps ==
  ASSUME Inv, TypeOK', NEW e \in Endpoint, NEW p \in Endpoint, p = Peer(e),
         \A x \in Endpoint : x # e =>
           /\ notify'[x] = notify[x] /\ inPacketId'[x] = inPacketId[x]
           /\ lastNotified'[x] = lastNotified[x] /\ dirtyAcks'[x] = dirtyAcks[x]
           /\ sendBuffer'[x] = sendBuffer[x] /\ state'[x] = state[x]
           /\ phase'[x] = phase[x] /\ pending'[x] = pending[x]
           /\ inAckId'[x] = inAckId[x] /\ outAckId'[x] = outAckId[x]
           /\ delivered'[x] = delivered[x],
         UNCHANGED <<outPacketId, network>>, outAckId[e] <= outAckId'[e]
  PROVE  EndInv(p)'
<1>1. Peer(p) = e /\ p # e
  BY Endpoints
<1>2. outPacketId[e] <= outPacketId'[e]
  BY EndTypes DEF Inv
<1> QED
  BY <1>1, <1>2, PeerKeeps

LEMMA WriteBitsKeeps ==
  ASSUME Inv, Window, NEW e \in Endpoint, WriteBitsToSendBuffer(e)
  PROVE  Inv'
<1>0. PICK p \in Endpoint : p = Peer(e) /\ p # e
  BY Endpoints
<1> DEFINE words == CurrentHistoryWordCount(notify[e])
<1>1. TypeOK /\ EndInv(e) /\ notify[e] \in PacketNotifyState /\ outAckId[e] \in Int
  BY EndTypes DEF Inv
<1>2. words \in 0 .. WordCount /\ words \in Nat /\ words <= words
  BY <1>1, WordCountOfState, Sizes
<1>3. /\ sendBuffer' = [sendBuffer EXCEPT ![e] = PacketWith(e, words)]
      /\ notify' = [notify EXCEPT ![e] = WriteHeader(notify[e], words)]
      /\ UNCHANGED <<inPacketId, outPacketId, outAckPacketId, lastNotified, dirtyAcks,
                     state, heardClient, phase, pending, network, auxVars>>
      /\ phase[e] # "reflush"
  BY <1>1 DEF WriteBitsToSendBuffer, TypeOK, InCallback
<1> HIDE DEF words
<1>4. PacketInv(e, outPacketId[e], PacketWith(e, words)) /\ PacketWith(e, words).ackId = inAckId[e]
  BY <1>2, FreshPacket DEF words
<1>5. PacketWith(e, words) \in Packet
  BY <1>1, PacketWithType
<1> DEFINE m == WriteHeader(notify[e], words)
           q == PacketWith(e, words)
<1>6. /\ m \in PacketNotifyState
      /\ m.writtenInAckSeq = notify[e].inAckSeq
      /\ m.ackRecord = notify[e].ackRecord /\ m.inSeqHistory = notify[e].inSeqHistory
      /\ m.inSeq = notify[e].inSeq /\ m.inAckSeq = notify[e].inAckSeq
      /\ m.inAckSeqAck = notify[e].inAckSeqAck /\ m.outSeq = notify[e].outSeq
      /\ m.outAckSeq = notify[e].outAckSeq
  BY <1>1, <1>2, WriteHeaderKeeps
<1> HIDE DEF m, q
<1>7. /\ notify'[e] = m /\ sendBuffer'[e] = q
      /\ \A x \in Endpoint : x # e => notify'[x] = notify[x] /\ sendBuffer'[x] = sendBuffer[x]
      /\ notify' \in [Endpoint -> PacketNotifyState]
      /\ sendBuffer' \in [Endpoint -> Packet \cup {NoHeader}]
  BY <1>1, <1>3, <1>5, <1>6 DEF TypeOK, m, q
<1>8. TypeOK'
  BY <1>1, <1>3, <1>7 DEF TypeOK, auxVars, SentIds
<1>9. EndInv(p)'
  BY <1>0, <1>1, <1>3, <1>7, <1>8, OtherKeeps DEF auxVars
<1>10. EndInv(e)'
  <2>1. NumbersInv(e)'
    BY <1>1, <1>3, <1>6, <1>7 DEF auxVars, EndInv, NumbersInv, Heard, AckOf
  <2>2. OrderInv(e)'
    BY <1>1, <1>3 DEF auxVars, EndInv, OrderInv, Taken, AckOf
  <2>3. SentInv(e)'
    BY <1>1, <1>3 DEF auxVars, EndInv, SentInv, PacketInv, Covers, AckOf, SentIds
  <2>4. BufferInv(e)'
    <3>1. PacketInv(e, outPacketId[e], q)
      BY <1>4 DEF q
    <3>2. PacketInv(e, outPacketId[e], sendBuffer[e])'
      BY <1>3, <1>7, <3>1 DEF auxVars, PacketInv, Covers, AckOf, SentIds
    <3>3. notify[e].inAckSeq = SeqOf(q.ackId) /\ q.ackId = inAckId[e]
      BY <1>1, <1>4 DEF EndInv, NumbersInv, q
    <3> QED
      BY <1>3, <1>6, <1>7, <3>2, <3>3 DEF auxVars, BufferInv
  <2>5. RecordInv(e)'
    BY <1>1, <1>3, <1>6, <1>7 DEF auxVars, EndInv, RecordInv, Heard
  <2>6. HistoryInv(e)'
    BY <1>1, <1>3, <1>6, <1>7 DEF auxVars, EndInv, HistoryInv
  <2>7. PendingInv(e)'
    BY <1>1, <1>3 DEF auxVars, EndInv, PendingInv, AckOf
  <2>8. DirtyInv(e)'
    BY <1>1, <1>3 DEF auxVars, EndInv, DirtyInv
  <2> QED
    BY <1>1, <1>3, <2>1, <2>2, <2>3, <2>4, <2>5, <2>6, <2>7, <2>8 DEF EndInv
<1> QED
  BY <1>0, <1>8, <1>9, <1>10, Together

LEMMA TooEarlyKeeps ==
  ASSUME Inv, NEW e \in Endpoint, FlushNetTooEarly(e)
  PROVE  Inv'
<1>0. PICK p \in Endpoint : p = Peer(e) /\ p # e
  BY Endpoints
<1>1. TypeOK /\ EndInv(e) /\ outAckId[e] \in Int
  BY EndTypes DEF Inv
<1>2. /\ sendBuffer' = [sendBuffer EXCEPT ![e] = NoHeader]
      /\ state' = [state EXCEPT ![e] = "closed"]
      /\ UNCHANGED <<notify, inPacketId, outPacketId, outAckPacketId, lastNotified,
                     dirtyAcks, heardClient, phase, pending, network, auxVars>>
  BY DEF FlushNetTooEarly
<1>3. /\ sendBuffer'[e] = NoHeader /\ state'[e] = "closed"
      /\ \A x \in Endpoint : x # e => state'[x] = state[x] /\ sendBuffer'[x] = sendBuffer[x]
      /\ sendBuffer' \in [Endpoint -> Packet \cup {NoHeader}]
      /\ state' \in [Endpoint -> {"open", "closed", "violation"}]
  BY <1>1, <1>2 DEF TypeOK
<1>4. TypeOK'
  BY <1>1, <1>2, <1>3 DEF TypeOK, auxVars, SentIds
<1>5. EndInv(p)'
  BY <1>0, <1>1, <1>2, <1>3, <1>4, OtherKeeps DEF auxVars
<1>6. EndInv(e)'
  BY <1>1, <1>2, <1>3 DEF auxVars, EndInv, NumbersInv, OrderInv, SentInv, PacketInv, Covers,
     BufferInv, RecordInv, HistoryInv, PendingInv, DirtyInv, Heard, Taken, AckOf, SentIds
<1> QED
  BY <1>0, <1>4, <1>5, <1>6, Together

LEMMA ControlBunchKeeps ==
  ASSUME Inv, NEW e \in Endpoint, ReceivedControlBunch(e)
  PROVE  Inv'
<1>1. /\ UNCHANGED <<notify, inPacketId, outPacketId, outAckPacketId, lastNotified,
                     dirtyAcks, sendBuffer, state, phase, pending, network, auxVars>>
      /\ heardClient' = TRUE
  BY DEF ReceivedControlBunch
<1>2. TypeOK'
  BY <1>1 DEF Inv, TypeOK, auxVars, SentIds
<1>3. ASSUME NEW x \in Endpoint PROVE EndInv(x)'
  BY <1>1 DEF Inv, auxVars, EndInv, NumbersInv, OrderInv, SentInv, PacketInv, Covers,
     BufferInv, RecordInv, HistoryInv, PendingInv, DirtyInv, Heard, Taken, AckOf, SentIds
<1> QED
  BY <1>2, <1>3 DEF Inv

-----------------------------------------------------------------------------
(* Receiving.                                                              *)

\* What e makes of the wrapped numbers in a packet it lets in: they are the ids, and
\* the record of the packet they acknowledge is where it looks for it.
LEMMA HeaderUnderstood ==
  ASSUME Inv, Window, NEW e \in Endpoint, phase[e] = "idle", NEW id \in Deliverable(e),
         GetSequenceDelta(notify[e], network[Peer(e)][id].header) > 0
  PROVE  LET q     == network[Peer(e)][id]
             count == AckCount(notify[e], q.header)
         IN  /\ id \in Int /\ id \in SentIds(Peer(e)) /\ inPacketId[e] < id
             /\ GetSequenceDelta(notify[e], q.header) = id - inPacketId[e]
             /\ q = network[Peer(e)][id] /\ q.ackId = AckOf(Peer(e), id)
             /\ q \in Packet /\ q.ackId \in Int
             /\ outAckId[e] <= q.ackId /\ q.ackId <= inAckId[Peer(e)]
             /\ q.ackId < outPacketId[e] /\ q.ackId <= outAckId[e] + MaxInFlight
             /\ count = q.ackId - outAckId[e]
             /\ count <= Len(notify[e].ackRecord)
             /\ count > 0 => /\ AckRecordFound(notify[e], q.header)
                             /\ notify[e].ackRecord[count].inAckSeq = SeqOf(AckOf(e, q.ackId))
<1>0. PICK p \in Endpoint : p = Peer(e) /\ Peer(p) = e
  BY Endpoints
<1> DEFINE n == notify[e]
           q == network[p][id]
           count == AckCount(n, q.header)
<1>1. /\ inAckId[e] \in Int /\ outPacketId[e] \in Nat /\ outAckId[e] \in Int
      /\ outAckId[p] \in Int /\ inPacketId[e] \in Int /\ outPacketId[p] \in Nat
      /\ inAckId[p] \in Int /\ inPacketId[p] \in Int
      /\ network[p] \in [SentIds(p) -> Packet] /\ n \in PacketNotifyState
      /\ FirstId(e) \in Nat /\ FirstId(p) \in Nat
  BY <1>0, EndTypes, Endpoints DEF Inv
<1>2. EndInv(e) /\ EndInv(p)
  BY DEF Inv
<1>3. id \in SentIds(p) /\ id \in Int /\ outPacketId[p] <= id + MaxPacketAge
      /\ FirstId(p) <= id /\ id < outPacketId[p]
  BY <1>0, <1>1, Sizes DEF Deliverable, SentIds
<1>4. q \in Packet /\ q.ackId \in Int /\ q.ackId = AckOf(p, id)
  BY <1>1, <1>3 DEF Packet, AckOf, AckedBy
<1>5. inPacketId[e] = inAckId[e] /\ outAckId[e] = AckOf(p, inAckId[e])
  BY <1>0, <1>2 DEF EndInv, PendingInv, OrderInv, Taken
<1>6. id - inPacketId[e] <= MaxInFlight
  <2>1. outAckId[p] <= Heard(p) /\ Heard(p) \in Int /\ Heard(p) <= inAckId[e]
        /\ outPacketId[p] <= outAckId[p] + MaxInFlight + 1
    BY <1>0, IdsInOrder
  <2> QED
    BY <1>1, <1>3, <1>5, <2>1, Sizes
<1>7. inPacketId[e] - id < SeqNumberHalf
  <2>1. inPacketId[e] < outPacketId[p]
    BY <1>0, IdsInOrder
  <2> QED
    BY <1>1, <1>3, <2>1, Sizes DEF Window
<1>8. id - inPacketId[e] < SeqNumberHalf
  BY <1>1, <1>3, <1>6, Sizes DEF Window
<1>9. q.header.seq = SeqOf(id) /\ q.header.ackedSeq = SeqOf(q.ackId)
      /\ q.ackId <= inAckId[p]
  BY <1>2, <1>3 DEF EndInv, SentInv, PacketInv
<1>10. n.inSeq = SeqOf(inPacketId[e]) /\ n.outAckSeq = SeqOf(outAckId[e])
  BY <1>2 DEF EndInv, NumbersInv
<1>11. GetSequenceDelta(n, q.header) > 0
  BY <1>0
<1> HIDE DEF n, q, count
<1>12. Gt(q.header.seq, n.inSeq) /\ GetSequenceDelta(n, q.header) = Diff(q.header.seq, n.inSeq)
  BY <1>11 DEF GetSequenceDelta
<1>13. inPacketId[e] < id
  BY <1>1, <1>3, <1>7, <1>8, <1>9, <1>10, <1>12, CompareByDistance
<1>14. GetSequenceDelta(n, q.header) = id - inPacketId[e]
  <2>1. inPacketId[e] - id <= SeqNumberHalf
    BY <1>1, <1>3, <1>7, Sizes
  <2> QED
    BY <1>1, <1>3, <1>8, <1>9, <1>10, <1>12, <2>1, DiffIsDistance
<1>15. outAckId[e] <= q.ackId
  <2>1. PICK k \in Int : k = inAckId[e]
    BY <1>1
  <2> QED
    BY <1>0, <1>1, <1>3, <1>4, <1>5, <1>13, <2>1, AckedInOrder DEF AckOf
<1>16. q.ackId < outPacketId[e] /\ q.ackId <= outAckId[e] + MaxInFlight
  <2>1. inAckId[p] <= Taken(p) /\ Taken(p) <= inPacketId[p] /\ Taken(p) \in Int
        /\ inPacketId[p] < outPacketId[e]
        /\ outPacketId[e] <= outAckId[e] + MaxInFlight + 1
    BY <1>0, IdsInOrder
  <2> QED
    BY <1>1, <1>4, <1>9, <2>1, Sizes
<1>17. /\ Gt(q.header.ackedSeq, n.outAckSeq) <=> q.ackId > outAckId[e]
       /\ Diff(q.header.ackedSeq, n.outAckSeq) = q.ackId - outAckId[e]
  <2>1. /\ q.ackId - outAckId[e] < SeqNumberHalf /\ outAckId[e] - q.ackId < SeqNumberHalf
        /\ outAckId[e] - q.ackId <= SeqNumberHalf
    BY <1>1, <1>4, <1>15, <1>16, Sizes DEF Window
  <2> QED
    BY <1>1, <1>4, <1>9, <1>10, <2>1, CompareByDistance, DiffIsDistance
<1>18. /\ count = q.ackId - outAckId[e] /\ count \in Int
       /\ outAckId[e] \in Int /\ outPacketId[e] \in Int
  BY <1>1, <1>4, <1>15, <1>17 DEF AckCount, count
<1>19. /\ Len(n.ackRecord) = outPacketId[e] - 1 - outAckId[e]
       /\ \A i \in 1 .. Len(n.ackRecord) :
            n.ackRecord[i] = [outSeq |-> SeqOf(outAckId[e] + i),
                              inAckSeq |-> SeqOf(network[e][outAckId[e] + i].ackId)]
  BY <1>2 DEF EndInv, RecordInv, Heard, n
<1>20. count <= Len(n.ackRecord)
  <2>1. Len(n.ackRecord) = outPacketId[e] - 1 - outAckId[e]
    BY <1>19
  <2>2. q.ackId \in Int /\ q.ackId <= outPacketId[e] - 1
    BY <1>4, <1>16, <1>18
  <2> QED
    BY <1>18, <2>1, <2>2
<1>21. ASSUME count > 0
       PROVE  /\ n.ackRecord[count].outSeq = q.header.ackedSeq
              /\ n.ackRecord[count].inAckSeq = SeqOf(AckOf(e, q.ackId))
  <2>1. count \in 1 .. Len(n.ackRecord) /\ outAckId[e] + count = q.ackId
    <3>1. Len(n.ackRecord) \in Int
      BY <1>1, <1>19
    <3>2. count >= 1 /\ q.ackId \in Int
      BY <1>4, <1>18, <1>21
    <3> QED
      BY <1>18, <1>20, <3>1, <3>2
  <2>2. n.ackRecord[count] = [outSeq |-> SeqOf(q.ackId),
                              inAckSeq |-> SeqOf(network[e][q.ackId].ackId)]
    BY <1>19, <2>1
  <2>3. q.ackId >= FirstId(e)
    <3>1. FirstId(e) - 1 <= outAckId[e]
      BY IdsInOrder
    <3> QED
      BY <1>1, <1>4, <1>18, <1>21, <3>1
  <2>4. AckOf(e, q.ackId) = network[e][q.ackId].ackId
    BY <1>1, <1>4, <2>3 DEF AckOf, AckedBy
  <2> QED
    BY <1>9, <2>2, <2>4
<1>22. count > 0 => AckRecordFound(n, q.header)
  BY <1>20, <1>21 DEF AckRecordFound, count
<1> QED
  BY <1>0, <1>3, <1>4, <1>9, <1>13, <1>14, <1>15, <1>16, <1>18, <1>20, <1>21, <1>22 DEF n, q, count

\* UpdateInAckSeqAck drops the records of the packets that have been acknowledged.
LEMMA UpdateKeeps ==
  ASSUME NEW n \in PacketNotifyState, NEW h, AckCount(n, h) \in Nat \ {0},
         AckCount(n, h) <= Len(n.ackRecord), AckRecordFound(n, h)
  PROVE  LET m == UpdateInAckSeqAck(n, h)
             count == AckCount(n, h)
         IN  /\ m \in PacketNotifyState
             /\ m.inAckSeqAck = n.ackRecord[count].inAckSeq
             /\ Len(m.ackRecord) = Len(n.ackRecord) - count
             /\ \A i \in 1 .. Len(m.ackRecord) : m.ackRecord[i] = n.ackRecord[count + i]
             /\ m.inSeqHistory = n.inSeqHistory /\ m.writtenInAckSeq = n.writtenInAckSeq
             /\ m.inSeq = n.inSeq /\ m.inAckSeq = n.inAckSeq
             /\ m.outSeq = n.outSeq /\ m.outAckSeq = n.outAckSeq
<1> DEFINE count == AckCount(n, h)
           r == n.ackRecord
           s == SubSeq(r, count + 1, Len(r))
           k == r[count].inAckSeq
<1>1. r \in Seq(SentAckData) /\ Len(r) \in Nat
  BY DEF PacketNotifyState
<1>2. count \in 1 .. Len(r)
  BY <1>1
<1>3. k \in SeqNumber
  <2>1. r[count] \in SentAckData
    BY <1>1, <1>2
  <2> QED
    BY <2>1 DEF SentAckData
<1>4. /\ s \in Seq(SentAckData) /\ Len(s) = Len(r) - count
      /\ \A i \in 1 .. Len(s) : s[i] = r[count + i]
  BY <1>1, <1>2
<1>5. UpdateInAckSeqAck(n, h) = [n EXCEPT !.ackRecord = s, !.inAckSeqAck = k]
  BY <1>1, <1>2 DEF UpdateInAckSeqAck, PacketNotifyState
<1> HIDE DEF s, k, count
<1> DEFINE m == UpdateInAckSeqAck(n, h)
<1>6. /\ m \in PacketNotifyState
      /\ m.ackRecord = s /\ m.inAckSeqAck = k
      /\ m.inSeqHistory = n.inSeqHistory /\ m.writtenInAckSeq = n.writtenInAckSeq
      /\ m.inSeq = n.inSeq /\ m.inAckSeq = n.inAckSeq
      /\ m.outSeq = n.outSeq /\ m.outAckSeq = n.outAckSeq
  BY <1>3, <1>4, <1>5 DEF PacketNotifyState
<1> QED
  BY <1>4, <1>6 DEF k, r, count

LEMMA ReceivedPacketKeeps ==
  ASSUME Inv, Window, NEW e \in Endpoint, ReceivedPacket(e)
  PROVE  Inv'
<1>0. PICK p \in Endpoint : p = Peer(e) /\ p # e /\ Peer(p) = e
  BY Endpoints
<1>1. PICK id \in Deliverable(e) :
        LET n     == notify[e]
            q     == network[Peer(e)][id]
            count == AckCount(n, q.header)
        IN  /\ GetSequenceDelta(n, q.header) > 0
            /\ inPacketId' = [inPacketId EXCEPT ![e] = @ + GetSequenceDelta(n, q.header)]
            /\ notify' = [notify EXCEPT ![e] =
                 IF count > 0 THEN UpdateInAckSeqAck(@, q.header) ELSE @]
            /\ pending' = [pending EXCEPT ![e] =
                 [id |-> id, count |-> count, currentAck |-> Inc(n.outAckSeq),
                  packet |-> q]]
            /\ phase' = [phase EXCEPT ![e] = "notify"]
  BY DEF ReceivedPacket
<1>2. /\ phase[e] = "idle"
      /\ UNCHANGED <<outPacketId, outAckPacketId, lastNotified, dirtyAcks, sendBuffer,
                     state, heardClient, network, auxVars>>
  BY DEF ReceivedPacket
<1> DEFINE n     == notify[e]
           q     == network[p][id]
           count == AckCount(n, q.header)
           m     == IF count > 0 THEN UpdateInAckSeqAck(n, q.header) ELSE n
           d     == [id |-> id, count |-> count, currentAck |-> Inc(n.outAckSeq),
                     packet |-> q]
<1>3. TypeOK /\ EndInv(e) /\ n \in PacketNotifyState /\ outAckId[e] \in Int
      /\ inPacketId[e] \in Int /\ inAckId[e] \in Int /\ outPacketId[e] \in Nat
      /\ lastNotified[e] \in Int /\ outPacketId[p] \in Nat
      /\ FirstId(e) \in Nat
  BY EndTypes, Endpoints DEF Inv
<1>4. /\ id \in Int /\ id \in SentIds(p) /\ inPacketId[e] < id
      /\ GetSequenceDelta(n, q.header) = id - inPacketId[e]
      /\ q = network[p][id] /\ q.ackId = AckOf(p, id)
      /\ q \in Packet /\ q.ackId \in Int
      /\ outAckId[e] <= q.ackId /\ q.ackId <= inAckId[p]
      /\ q.ackId < outPacketId[e] /\ q.ackId <= outAckId[e] + MaxInFlight
      /\ count = q.ackId - outAckId[e]
      /\ count <= Len(n.ackRecord)
      /\ count > 0 => /\ AckRecordFound(n, q.header)
                      /\ n.ackRecord[count].inAckSeq = SeqOf(AckOf(e, q.ackId))
  <2>1. GetSequenceDelta(notify[e], network[Peer(e)][id].header) > 0
    BY <1>1
  <2> HIDE DEF q, count
  <2> QED
    BY <1>0, <1>2, <2>1, HeaderUnderstood DEF q, count
<1>5. /\ inPacketId' = [inPacketId EXCEPT ![e] = inPacketId[e] + (id - inPacketId[e])]
      /\ notify' = [notify EXCEPT ![e] = m]
      /\ pending' = [pending EXCEPT ![e] = d]
      /\ phase' = [phase EXCEPT ![e] = "notify"]
  BY <1>0, <1>1, <1>3, <1>4 DEF TypeOK
<1> HIDE DEF q, count
<1>6. count \in Nat /\ q.ackId = outAckId[e] + count
  BY <1>3, <1>4
<1>7. n.outAckSeq = SeqOf(outAckId[e]) /\ Inc(n.outAckSeq) = SeqOf(outAckId[e] + 1)
      /\ Inc(n.outAckSeq) \in SeqNumber
  <2>1. n.outAckSeq = SeqOf(outAckId[e]) /\ outAckId[e] + 1 \in Int
    BY <1>3 DEF EndInv, NumbersInv
  <2> QED
    BY <1>3, <2>1, IncFollowsId, SeqOfType
<1>8. d \in Pending
  BY <1>4, <1>6, <1>7 DEF Pending
<1>9. /\ m \in PacketNotifyState
      /\ m.inAckSeqAck = SeqOf(AckOf(e, q.ackId))
      /\ Len(m.ackRecord) = Len(n.ackRecord) - count
      /\ \A i \in 1 .. Len(m.ackRecord) : m.ackRecord[i] = n.ackRecord[count + i]
      /\ m.inSeqHistory = n.inSeqHistory /\ m.writtenInAckSeq = n.writtenInAckSeq
      /\ m.inSeq = n.inSeq /\ m.inAckSeq = n.inAckSeq
      /\ m.outSeq = n.outSeq /\ m.outAckSeq = n.outAckSeq
  <2>1. CASE count > 0
    <3>1. /\ n \in PacketNotifyState /\ count \in Nat /\ count <= Len(n.ackRecord)
          /\ AckRecordFound(n, q.header)
          /\ n.ackRecord[count].inAckSeq = SeqOf(AckOf(e, q.ackId))
      BY <1>3, <1>4, <1>6, <2>1
    <3>2. m = UpdateInAckSeqAck(n, q.header)
      BY <2>1
    <3>3. count = AckCount(n, q.header)
      BY DEF count
    <3> HIDE DEF n, m
    <3>4. LET u == UpdateInAckSeqAck(n, q.header)
          IN  /\ u \in PacketNotifyState
              /\ u.inAckSeqAck = n.ackRecord[count].inAckSeq
              /\ Len(u.ackRecord) = Len(n.ackRecord) - count
              /\ \A i \in 1 .. Len(u.ackRecord) : u.ackRecord[i] = n.ackRecord[count + i]
              /\ u.inSeqHistory = n.inSeqHistory /\ u.writtenInAckSeq = n.writtenInAckSeq
              /\ u.inSeq = n.inSeq /\ u.inAckSeq = n.inAckSeq
              /\ u.outSeq = n.outSeq /\ u.outAckSeq = n.outAckSeq
      BY <2>1, <3>1, <3>3, UpdateKeeps
    <3> QED
      BY <3>1, <3>2, <3>4
  <2>2. CASE count = 0
    <3>1. m = n /\ q.ackId = outAckId[e]
      BY <1>3, <1>4, <1>6, <2>2
    <3>2. n.inAckSeqAck = SeqOf(AckOf(e, outAckId[e]))
      BY <1>2, <1>3 DEF EndInv, NumbersInv, Heard
    <3>3. n.ackRecord \in Seq(SentAckData)
      BY <1>3 DEF PacketNotifyState
    <3>4. AckOf(e, q.ackId) = AckOf(e, outAckId[e])
      BY <3>1
    <3> HIDE DEF n, m
    <3> QED
      BY <1>3, <2>2, <3>1, <3>2, <3>3, <3>4
  <2> QED
    BY <1>6, <2>1, <2>2
<1> HIDE DEF m, d
<1>10. /\ notify'[e] = m /\ pending'[e] = d /\ phase'[e] = "notify"
       /\ inPacketId'[e] = id
       /\ \A x \in Endpoint : x # e =>
            /\ notify'[x] = notify[x] /\ pending'[x] = pending[x]
            /\ phase'[x] = phase[x] /\ inPacketId'[x] = inPacketId[x]
       /\ notify' \in [Endpoint -> PacketNotifyState]
       /\ pending' \in [Endpoint -> Pending]
       /\ phase' \in [Endpoint -> Phase]
       /\ inPacketId' \in [Endpoint -> Int]
  <2>1. /\ notify'[e] = m /\ pending'[e] = d /\ phase'[e] = "notify"
        /\ \A x \in Endpoint : x # e =>
             /\ notify'[x] = notify[x] /\ pending'[x] = pending[x]
             /\ phase'[x] = phase[x]
        /\ notify' \in [Endpoint -> PacketNotifyState]
        /\ pending' \in [Endpoint -> Pending]
        /\ phase' \in [Endpoint -> Phase]
    BY <1>3, <1>5, <1>8, <1>9 DEF TypeOK, Phase
  <2>2. inPacketId[e] + (id - inPacketId[e]) = id
    BY <1>3, <1>4
  <2>3. inPacketId' = [inPacketId EXCEPT ![e] = id]
    BY <1>5, <2>2
  <2>4. /\ inPacketId'[e] = id /\ inPacketId' \in [Endpoint -> Int]
        /\ \A x \in Endpoint : x # e => inPacketId'[x] = inPacketId[x]
    BY <1>3, <1>4, <2>3 DEF TypeOK
  <2> QED
    BY <2>1, <2>4
<1>11. TypeOK'
  BY <1>2, <1>3, <1>10 DEF TypeOK, auxVars, SentIds
<1>12. EndInv(p)'
  BY <1>0, <1>2, <1>3, <1>10, <1>11, OtherKeeps DEF auxVars
<1>13. EndInv(e)'
  <2>0. /\ d.id = id /\ d.count = count /\ d.packet = q
        /\ d.currentAck = SeqOf(outAckId[e] + 1)
        /\ Heard(e)' = q.ackId /\ Taken(e)' = inAckId[e] /\ Heard(e) = outAckId[e]
        /\ Taken(e) = inAckId[e]
        /\ inPacketId[e] = inAckId[e] /\ lastNotified[e] = outAckId[e]
    BY <1>2, <1>3, <1>7, <1>10 DEF d, Heard, Taken, auxVars, EndInv, PendingInv
  <2>1. NumbersInv(e)'
    <3>1. PICK k : k = q.ackId
      OBVIOUS
    <3>2. AckOf(e, k)' = AckOf(e, k)
      BY <1>2 DEF AckOf
    <3>3. AckOf(e, Heard(e))' = AckOf(e, k)
      BY <2>0, <3>1, <3>2 DEF AckOf
    <3>4. m.inAckSeqAck = SeqOf(AckOf(e, k))
      BY <1>9, <3>1
    <3>5. n.inSeq = SeqOf(inAckId[e]) /\ n.inAckSeq = SeqOf(inAckId[e])
          /\ n.outSeq = SeqOf(outPacketId[e]) /\ n.outAckSeq = SeqOf(outAckId[e])
      BY <1>2, <1>3, <2>0 DEF EndInv, NumbersInv
    <3> QED
      BY <1>2, <1>9, <1>10, <3>3, <3>4, <3>5 DEF auxVars, NumbersInv
  <2>2. OrderInv(e)'
    <3>1. id < outPacketId[p]
      BY <1>3, <1>4, Endpoints DEF SentIds
    <3>2. outAckId'[e] = AckOf(Peer(e), Taken(e))'
      BY <1>2, <1>3, <2>0 DEF auxVars, EndInv, OrderInv, AckOf
    <3>3. inAckId'[e] <= inPacketId'[e] /\ inPacketId'[e] < outPacketId'[Peer(e)]
      BY <1>0, <1>2, <1>3, <1>4, <1>10, <2>0, <3>1 DEF auxVars
    <3> QED
      BY <1>2, <1>3, <3>2, <3>3 DEF auxVars, EndInv, OrderInv
  <2>3. SentInv(e)'
    BY <1>2, <1>3 DEF auxVars, EndInv, SentInv, PacketInv, Covers, AckOf, SentIds
  <2>4. BufferInv(e)'
    BY <1>2, <1>3, <1>9, <1>10 DEF auxVars, EndInv, BufferInv, PacketInv, Covers, AckOf, SentIds
  <2>5. RecordInv(e)'
    <3>1. PICK a \in Int : a = outAckId[e]
      BY <1>3
    <3>2. PICK b \in Int : b = q.ackId
      BY <1>4
    <3>3. /\ Len(n.ackRecord) = outPacketId[e] - 1 - a
          /\ \A i \in 1 .. Len(n.ackRecord) :
               n.ackRecord[i] = [outSeq |-> SeqOf(a + i),
                                 inAckSeq |-> SeqOf(network[e][a + i].ackId)]
      BY <1>3, <2>0, <3>1 DEF EndInv, RecordInv
    <3>4. b = a + count
      BY <1>6, <3>1, <3>2
    <3>5. Len(m.ackRecord) = outPacketId[e] - 1 - b
      BY <1>3, <1>6, <1>9, <3>3, <3>4
    <3>6. ASSUME NEW i \in 1 .. Len(m.ackRecord)
          PROVE  m.ackRecord[i] = [outSeq |-> SeqOf(b + i),
                                   inAckSeq |-> SeqOf(network[e][b + i].ackId)]
      <4>1. Len(m.ackRecord) = Len(n.ackRecord) - count /\ Len(n.ackRecord) \in Int
        BY <1>3, <1>9, <3>3
      <4>2. count + i \in 1 .. Len(n.ackRecord) /\ a + (count + i) = b + i
        BY <1>6, <3>4, <4>1
      <4> QED
        BY <1>9, <3>3, <4>2
    <3>7. Heard(e)' = b
      BY <2>0, <3>2
    <3> QED
      BY <1>2, <1>10, <3>5, <3>6, <3>7 DEF RecordInv
  <2>6. HistoryInv(e)'
    BY <1>2, <1>3, <1>9, <1>10 DEF auxVars, EndInv, HistoryInv
  <2>7. PendingInv(e)'
    <3>1. q.ackId <= AckOf(p, inAckId[e]) + MaxInFlight
      BY <1>0, <1>3, <1>4, <2>0 DEF EndInv, OrderInv
    <3>2. pending'[e].packet.ackId <= AckOf(Peer(e), inAckId[e])' + MaxInFlight
      BY <1>0, <1>2, <1>10, <2>0, <3>1 DEF auxVars, AckOf
    <3>3. pending'[e].packet = network'[Peer(e)][pending'[e].id]
      BY <1>0, <1>2, <1>4, <1>10, <2>0
    <3>4. inAckId'[e] < pending'[e].id
      BY <1>2, <1>4, <1>10, <2>0 DEF auxVars
    <3>5. lastNotified'[e] + pending'[e].count = pending'[e].packet.ackId
          /\ 0 <= pending'[e].count /\ outAckId'[e] <= lastNotified'[e]
          /\ pending'[e].currentAck = SeqOf(lastNotified'[e] + 1)
      BY <1>2, <1>3, <1>6, <1>10, <2>0 DEF auxVars
    <3> QED
      BY <1>10, <2>0, <3>2, <3>3, <3>4, <3>5 DEF PendingInv
  <2>8. DirtyInv(e)'
    BY <1>2, <1>3, <1>10 DEF auxVars, EndInv, DirtyInv
  <2> QED
    BY <1>2, <1>3, <2>1, <2>2, <2>3, <2>4, <2>5, <2>6, <2>7, <2>8 DEF EndInv
<1> QED
  BY <1>0, <1>11, <1>12, <1>13, Together

LEMMA NotifyPacketKeeps ==
  ASSUME Inv, NEW e \in Endpoint, NotifyPacket(e)
  PROVE  Inv' /\ SeqOf(lastNotified[e] + 1) = pending[e].currentAck
<1>0. PICK p \in Endpoint : p = Peer(e) /\ p # e /\ Peer(p) = e
  BY Endpoints
<1>1. TypeOK /\ EndInv(e) /\ outAckId[e] \in Int /\ lastNotified[e] \in Int
      /\ pending[e] \in Pending
  BY EndTypes DEF Inv
<1> DEFINE id == lastNotified[e] + 1
           q  == pending[e]
           d  == [q EXCEPT !.count = q.count - 1, !.currentAck = Inc(q.currentAck)]
<1>2. /\ phase[e] = "notify" /\ q.count > 0
      /\ lastNotified' = [lastNotified EXCEPT ![e] = id]
      /\ pending' = [pending EXCEPT ![e] = d]
      /\ UNCHANGED <<notify, inPacketId, outPacketId, dirtyAcks, sendBuffer, heardClient,
                     phase, network, inAckId, outAckId, delivered>>
  BY <1>1 DEF NotifyPacket, Pending, TypeOK
<1>3. /\ 0 <= q.count /\ lastNotified[e] + q.count = q.packet.ackId
      /\ q.currentAck = SeqOf(id) /\ outAckId[e] <= lastNotified[e]
  BY <1>1, <1>2 DEF EndInv, PendingInv
<1>4. /\ state' = state
      /\ outAckPacketId' \in [Endpoint -> Int] /\ acked' \in [Endpoint -> SUBSET Int]
  <2>1. CASE outAckPacketId' = [outAckPacketId EXCEPT ![e] = id]
             /\ acked' = [acked EXCEPT ![e] = acked[e] \cup {id}] /\ UNCHANGED state
    BY <1>1, <2>1 DEF TypeOK
  <2>2. CASE UNCHANGED <<state, outAckPacketId, acked>>
    BY <1>1, <2>2 DEF TypeOK
  <2> QED
    BY <1>1, <1>3, <2>1, <2>2 DEF NotifyPacket, TypeOK
<1>5. id \in Int /\ q.currentAck \in SeqNumber /\ Inc(q.currentAck) = SeqOf(id + 1)
      /\ Inc(q.currentAck) \in SeqNumber /\ q.count \in Int /\ q.count - 1 \in Int
  <2>1. id \in Int /\ id + 1 \in Int /\ q.count \in Int
    BY <1>1 DEF Pending
  <2> HIDE DEF id
  <2> QED
    BY <1>3, <2>1, IncFollowsId, SeqOfType
<1>6. /\ d \in Pending /\ d.id = q.id /\ d.packet = q.packet /\ d.count = q.count - 1
      /\ d.currentAck = SeqOf(id + 1)
  BY <1>1, <1>5 DEF Pending
<1> HIDE DEF d
<1>7. /\ pending'[e] = d /\ lastNotified'[e] = id
      /\ \A x \in Endpoint : x # e =>
           pending'[x] = pending[x] /\ lastNotified'[x] = lastNotified[x]
      /\ pending' \in [Endpoint -> Pending] /\ lastNotified' \in [Endpoint -> Int]
  BY <1>1, <1>2, <1>5, <1>6 DEF TypeOK
<1>8. TypeOK'
  BY <1>1, <1>2, <1>4, <1>7 DEF TypeOK, SentIds
<1>9. EndInv(p)'
  BY <1>0, <1>1, <1>2, <1>4, <1>7, <1>8, OtherKeeps
<1>10. EndInv(e)'
  <2>1. Heard(e)' = Heard(e) /\ Taken(e)' = Taken(e)
    BY <1>2, <1>6, <1>7 DEF Heard, Taken
  <2>2. NumbersInv(e)' /\ OrderInv(e)' /\ RecordInv(e)'
    BY <1>1, <1>2, <2>1 DEF EndInv, NumbersInv, OrderInv, RecordInv, AckOf
  <2>3. SentInv(e)' /\ BufferInv(e)' /\ HistoryInv(e)' /\ DirtyInv(e)'
    BY <1>1, <1>2 DEF EndInv, SentInv, BufferInv, HistoryInv, DirtyInv, PacketInv, Covers,
       AckOf, SentIds
  <2>4. PendingInv(e)'
    <3>1. /\ lastNotified'[e] + pending'[e].count = pending'[e].packet.ackId
          /\ 0 <= pending'[e].count /\ outAckId'[e] <= lastNotified'[e]
          /\ pending'[e].currentAck = SeqOf(lastNotified'[e] + 1)
      BY <1>1, <1>2, <1>3, <1>5, <1>6, <1>7
    <3> QED
      BY <1>1, <1>2, <1>6, <1>7, <3>1 DEF EndInv, PendingInv, AckOf
  <2> QED
    BY <1>1, <1>4, <2>2, <2>3, <2>4 DEF EndInv
<1> QED
  BY <1>0, <1>3, <1>8, <1>9, <1>10, Together

LEMMA AcceptPacketKeeps ==
  ASSUME Inv, NEW e \in Endpoint, AcceptPacket(e)
  PROVE  Inv'
<1>0. PICK p \in Endpoint : p = Peer(e) /\ p # e /\ Peer(p) = e
  BY Endpoints
<1>1. /\ TypeOK /\ EndInv(e) /\ EndInv(p) /\ outAckId[e] \in Int /\ lastNotified[e] \in Int
      /\ inAckId[e] \in Int /\ inPacketId[e] \in Int /\ outPacketId[e] \in Nat
      /\ pending[e] \in Pending /\ notify[e] \in PacketNotifyState
      /\ FirstId(p) \in Nat /\ outPacketId[p] \in Nat
  BY EndTypes, Endpoints DEF Inv
<1> DEFINE id == pending[e].id
           q  == pending[e].packet
           m  == AcceptSequence(notify[e], q.header)
<1>2. /\ phase[e] = "notify" /\ pending[e].count = 0
      /\ notify' = [notify EXCEPT ![e] = m]
      /\ outAckId' = [outAckId EXCEPT ![e] = q.ackId]
      /\ phase' = [phase EXCEPT ![e] = "bunches"]
      /\ UNCHANGED <<inPacketId, outPacketId, outAckPacketId, lastNotified, dirtyAcks,
                     sendBuffer, state, heardClient, pending, network, inAckId, delivered,
                     acked>>
  BY <1>1 DEF AcceptPacket, TypeOK
<1>3. /\ id = inPacketId[e] /\ inAckId[e] < id /\ q = network[p][id]
      /\ q.ackId <= AckOf(p, inAckId[e]) + MaxInFlight
      /\ lastNotified[e] = q.ackId /\ outAckId[e] <= q.ackId
  <2>1. lastNotified[e] + 0 = q.ackId
    BY <1>0, <1>1, <1>2 DEF EndInv, PendingInv
  <2> QED
    BY <1>0, <1>1, <1>2, <2>1 DEF EndInv, PendingInv
<1>4. id \in Int /\ id \in SentIds(p) /\ FirstId(p) <= id
  BY <1>0, <1>1, <1>3 DEF SentIds, EndInv, OrderInv, Pending
<1>5. q.header.seq = SeqOf(id) /\ q.header.ackedSeq = SeqOf(q.ackId)
  BY <1>1, <1>3, <1>4 DEF EndInv, SentInv, PacketInv
<1>6. /\ m \in PacketNotifyState /\ m.outAckSeq = q.header.ackedSeq
      /\ m.inSeq = q.header.seq
      /\ m.inAckSeq = notify[e].inAckSeq /\ m.inAckSeqAck = notify[e].inAckSeqAck
      /\ m.outSeq = notify[e].outSeq /\ m.ackRecord = notify[e].ackRecord
      /\ m.inSeqHistory = notify[e].inSeqHistory
      /\ m.writtenInAckSeq = notify[e].writtenInAckSeq
  <2>1. q.header.seq \in SeqNumber /\ q.header.ackedSeq \in SeqNumber
    BY <1>1 DEF Pending, Packet, NotificationHeader
  <2> QED
    BY <1>1, <2>1 DEF AcceptSequence, PacketNotifyState
<1> HIDE DEF m
<1>7. /\ notify'[e] = m /\ outAckId'[e] = q.ackId /\ phase'[e] = "bunches"
      /\ \A x \in Endpoint : x # e =>
           /\ notify'[x] = notify[x] /\ outAckId'[x] = outAckId[x] /\ phase'[x] = phase[x]
      /\ notify' \in [Endpoint -> PacketNotifyState]
      /\ outAckId' \in [Endpoint -> Int] /\ phase' \in [Endpoint -> Phase]
      /\ q.ackId \in Int
  <2>1. q.ackId \in Int
    BY <1>1 DEF Pending, Packet
  <2> QED
    BY <1>1, <1>2, <1>6, <2>1 DEF TypeOK, Phase
<1>8. TypeOK'
  BY <1>1, <1>2, <1>7 DEF TypeOK, SentIds
<1>9. EndInv(p)'
  <2>1. outAckId[e] <= outAckId'[e]
    BY <1>3, <1>7
  <2> QED
    BY <1>0, <1>1, <1>2, <1>7, <1>8, <2>1, OtherKeeps
<1>10. EndInv(e)'
  <2>1. Heard(e)' = Heard(e) /\ Taken(e)' = id
    BY <1>2, <1>7 DEF Heard, Taken
  <2>2. NumbersInv(e)'
    <3>1. AckOf(e, Heard(e))' = AckOf(e, Heard(e))
      BY <1>2, <2>1 DEF AckOf
    <3> QED
      BY <1>1, <1>2, <1>3, <1>5, <1>6, <1>7, <3>1 DEF EndInv, NumbersInv
  <2>3. OrderInv(e)'
    <3>1. AckOf(p, Taken(e))' = q.ackId
      BY <1>1, <1>2, <1>3, <1>4, <2>1 DEF AckOf, AckedBy
    <3>2. outPacketId[e] <= outAckId'[e] + MaxInFlight + 1
      <4>1. outPacketId[e] <= outAckId[e] + MaxInFlight + 1
        BY <1>1 DEF EndInv, OrderInv
      <4> QED
        BY <1>1, <1>3, <1>7, <4>1, Sizes
    <3> QED
      BY <1>0, <1>1, <1>2, <1>7, <3>1, <3>2 DEF EndInv, OrderInv
  <2>4. SentInv(e)'
    BY <1>0, <1>1, <1>2, <1>7 DEF EndInv, SentInv, PacketInv, Covers, AckOf, SentIds
  <2>5. BufferInv(e)'
    BY <1>0, <1>1, <1>2, <1>6, <1>7 DEF EndInv, BufferInv, PacketInv, Covers, AckOf, SentIds
  <2>6. RecordInv(e)'
    BY <1>1, <1>2, <1>6, <1>7, <2>1 DEF EndInv, RecordInv
  <2>7. HistoryInv(e)'
    BY <1>1, <1>2, <1>6, <1>7 DEF EndInv, HistoryInv
  <2>8. PendingInv(e)'
    BY <1>0, <1>1, <1>2, <1>3, <1>7 DEF EndInv, PendingInv, AckOf
  <2>9. DirtyInv(e)'
    BY <1>1, <1>2, <1>7 DEF EndInv, DirtyInv
  <2> QED
    BY <1>1, <1>2, <2>2, <2>3, <2>4, <2>5, <2>6, <2>7, <2>8, <2>9 DEF EndInv
<1> QED
  BY <1>0, <1>8, <1>9, <1>10, Together

LEMMA AcknowledgePacketKeeps ==
  ASSUME Inv, Window, NEW e \in Endpoint, AcknowledgePacket(e)
  PROVE  Inv'
<1>0. PICK p \in Endpoint : p = Peer(e) /\ p # e /\ Peer(p) = e
  BY Endpoints
<1>1. /\ TypeOK /\ EndInv(e) /\ EndInv(p) /\ outAckId[e] \in Int /\ dirtyAcks[e] \in Nat
      /\ inAckId[e] \in Int /\ inPacketId[e] \in Int /\ outPacketId[e] \in Nat
      /\ pending[e] \in Pending /\ notify[e] \in PacketNotifyState
      /\ FirstId(p) \in Nat /\ outPacketId[p] \in Nat
      /\ \A k \in SentIds(e) : network[e][k].ackId \in Int
      /\ sendBuffer[e] \in Packet \cup {NoHeader}
  BY EndTypes, Endpoints DEF Inv
<1>2. PICK isAck \in BOOLEAN :
        /\ notify' = [notify EXCEPT ![e] = AckSeq(@, SeqOf(inPacketId[e]), isAck)]
        /\ delivered' = [delivered EXCEPT ![e] = IF isAck THEN @ \cup {pending[e].id} ELSE @]
  BY DEF AcknowledgePacket
<1> DEFINE id == pending[e].id
           n  == notify[e]
           k  == id - inAckId[e]
           h  == AddDeliveryStatus(n.inSeqHistory, k, isAck)
           m  == [n EXCEPT !.inAckSeq = SeqOf(id), !.inSeqHistory = h]
           s  == IF isAck THEN delivered[e] \cup {id} ELSE delivered[e]
<1>3. /\ phase[e] = "bunches"
      /\ inAckId' = [inAckId EXCEPT ![e] = id]
      /\ dirtyAcks' = [dirtyAcks EXCEPT ![e] = dirtyAcks[e] + 1]
      /\ phase' = [phase EXCEPT ![e] =
           IF dirtyAcks[e] + 1 >= HistorySize THEN "flush" ELSE "idle"]
      /\ pending' = [pending EXCEPT ![e] = NoPending]
      /\ UNCHANGED <<inPacketId, outPacketId, outAckPacketId, lastNotified, sendBuffer,
                     state, heardClient, network, outAckId, acked>>
  BY <1>1 DEF AcknowledgePacket, TypeOK
<1>4. /\ id = inPacketId[e] /\ inAckId[e] < id /\ id \in Int /\ id < outPacketId[p]
      /\ FirstId(p) - 1 <= inAckId[e] /\ outAckId[e] = AckOf(p, id)
      /\ lastNotified[e] = outAckId[e] /\ id \in Nat /\ k \in Nat /\ k > 0
  BY <1>0, <1>1, <1>3 DEF EndInv, PendingInv, OrderInv, Taken, Pending
\* The step is shorter than half of the sequence numbers.
<1>5. k < SeqNumberHalf
  <2>1. outAckId[p] <= Heard(p) /\ Heard(p) \in Int /\ Heard(p) <= inAckId[e]
        /\ outPacketId[p] <= outAckId[p] + MaxInFlight + 1 /\ outAckId[p] \in Int
    BY <1>0, IdsInOrder, EndTypes DEF Inv
  <2> QED
    BY <1>1, <1>4, <2>1, Sizes DEF Window
<1>6. n.inAckSeq = SeqOf(inAckId[e]) /\ n.inSeq = SeqOf(id)
  BY <1>1, <1>3, <1>4 DEF EndInv, NumbersInv
<1>7. Gt(SeqOf(id), n.inAckSeq) /\ Diff(SeqOf(id), n.inAckSeq) = k
  <2>1. inAckId[e] - id < SeqNumberHalf /\ inAckId[e] - id <= SeqNumberHalf
    BY <1>1, <1>4, Sizes
  <2>2. id - inAckId[e] < SeqNumberHalf
    BY <1>5
  <2> HIDE DEF id
  <2> QED
    BY <1>1, <1>4, <1>6, <2>1, <2>2, CompareByDistance, DiffIsDistance
<1>8. notify' = [notify EXCEPT ![e] = m] /\ delivered' = [delivered EXCEPT ![e] = s]
  BY <1>1, <1>2, <1>4, <1>7 DEF TypeOK, AckSeq
<1> HIDE DEF id, k
<1>9. /\ n.inSeqHistory \in History /\ h \in History /\ SeqOf(id) \in SeqNumber
      /\ \A i \in HistoryIndex :
           h[i] = IF i = 0 THEN isAck ELSE i >= k /\ n.inSeqHistory[i - k]
  <2>1. n.inSeqHistory \in History
    BY <1>1 DEF PacketNotifyState
  <2>2. \A i \in HistoryIndex :
          (IF i = 0 THEN isAck ELSE i >= k /\ n.inSeqHistory[i - k]) \in BOOLEAN
    <3> SUFFICES ASSUME NEW i \in HistoryIndex
                 PROVE  (IF i = 0 THEN isAck ELSE i >= k /\ n.inSeqHistory[i - k]) \in BOOLEAN
      OBVIOUS
    <3>1. CASE i = 0
      BY <3>1
    <3>2. CASE i # 0
      BY <3>2
    <3> QED
      BY <3>1, <3>2
  <2>3. h \in History
    BY <2>2 DEF AddDeliveryStatus, History
  <2> QED
    BY <1>4, <2>1, <2>3, SeqOfType DEF AddDeliveryStatus
<1> HIDE DEF h
<1>10. /\ m \in PacketNotifyState /\ m.inAckSeq = SeqOf(id) /\ m.inSeqHistory = h
       /\ m.inSeq = n.inSeq /\ m.inAckSeqAck = n.inAckSeqAck
       /\ m.outSeq = n.outSeq /\ m.outAckSeq = n.outAckSeq
       /\ m.ackRecord = n.ackRecord /\ m.writtenInAckSeq = n.writtenInAckSeq
  BY <1>1, <1>9 DEF PacketNotifyState
<1>11. s \in SUBSET Nat
  BY <1>1, <1>4 DEF TypeOK
<1> HIDE DEF m, s
<1>12. /\ notify'[e] = m /\ delivered'[e] = s /\ inAckId'[e] = id
       /\ dirtyAcks'[e] = dirtyAcks[e] + 1 /\ pending'[e] = NoPending
       /\ phase'[e] = IF dirtyAcks[e] + 1 >= HistorySize THEN "flush" ELSE "idle"
       /\ \A x \in Endpoint : x # e =>
            /\ notify'[x] = notify[x] /\ delivered'[x] = delivered[x]
            /\ inAckId'[x] = inAckId[x] /\ dirtyAcks'[x] = dirtyAcks[x]
            /\ pending'[x] = pending[x] /\ phase'[x] = phase[x]
  BY <1>1, <1>3, <1>8 DEF TypeOK
<1>13. /\ notify' \in [Endpoint -> PacketNotifyState] /\ delivered' \in [Endpoint -> SUBSET Nat]
       /\ inAckId' \in [Endpoint -> Int] /\ dirtyAcks' \in [Endpoint -> Nat]
       /\ pending' \in [Endpoint -> Pending] /\ phase' \in [Endpoint -> Phase]
  BY <1>1, <1>3, <1>4, <1>8, <1>10, <1>11, NoPendingType DEF TypeOK, Phase
<1>14. TypeOK'
  BY <1>1, <1>3, <1>13 DEF TypeOK, SentIds
<1>15. EndInv(p)'
  BY <1>0, <1>1, <1>3, <1>12, <1>14, OtherKeeps
\* What becomes known does not change the fate of any earlier packet.
<1>16. /\ \A j \in Int : j <= inAckId[e] => (j \in s <=> j \in delivered[e])
       /\ \A j \in s : j <= id
       /\ id \in s <=> isAck
       /\ \A j \in Int : inAckId[e] < j /\ j < id => j \notin s
  <2>1. \A j \in delivered[e] : j <= inAckId[e]
    BY <1>1 DEF EndInv, HistoryInv
  <2>2. delivered[e] \in SUBSET Nat
    BY <1>1 DEF TypeOK
  <2> QED
    BY <1>1, <1>4, <2>1, <2>2 DEF s
<1>17. EndInv(e)'
  <2>0. Heard(e)' = Heard(e) /\ Taken(e)' = id
    BY <1>3, <1>12 DEF Heard, Taken
  <2>1. NumbersInv(e)'
    <3>1. AckOf(e, Heard(e))' = AckOf(e, Heard(e))
      BY <1>3, <2>0 DEF AckOf
    <3> QED
      BY <1>1, <1>3, <1>4, <1>6, <1>10, <1>12, <3>1 DEF EndInv, NumbersInv
  <2>2. OrderInv(e)'
    <3>1. AckOf(p, Taken(e))' = AckOf(p, id)
      BY <1>3, <2>0 DEF AckOf
    <3>2. FirstId(p) - 1 <= inAckId'[e] /\ inAckId'[e] <= inPacketId'[e]
      BY <1>1, <1>3, <1>4, <1>12
    <3> QED
      BY <1>0, <1>1, <1>3, <1>4, <3>1, <3>2 DEF EndInv, OrderInv
  <2>3. ASSUME NEW j, NEW x, PacketInv(e, j, x), x.ackId \in Int
        PROVE  PacketInv(e, j, x)'
    <3>1. x.ackId <= inAckId[e]
      BY <2>3 DEF PacketInv
    <3>2. \A i \in HistoryIndex : x.ackId - i \in s <=> x.ackId - i \in delivered[e]
      BY <1>1, <1>16, <2>3, <3>1, Sizes DEF HistoryIndex
    <3>3. outAckId'[Peer(e)] = outAckId[Peer(e)] /\ delivered'[e] = s
      BY <1>3, <1>12
    <3>4. Covers(e, x)'
      BY <2>3, <3>2, <3>3 DEF PacketInv, Covers
    <3>5. x.ackId <= inAckId'[e]
      BY <1>1, <1>4, <1>12, <2>3, <3>1
    <3> QED
      BY <1>3, <2>3, <3>4, <3>5 DEF PacketInv, AckOf, SentIds
  <2>4. SentInv(e)'
    <3> SUFFICES ASSUME NEW j \in SentIds(e)', NEW x, x = network'[e][j]
                 PROVE  PacketInv(e, j, x)'
      BY DEF SentInv, PacketInv, Covers, AckOf
    <3>1. j \in SentIds(e) /\ x = network[e][j]
      BY <1>3 DEF SentIds
    <3>2. PacketInv(e, j, x) /\ x.ackId \in Int
      BY <1>1, <3>1 DEF EndInv, SentInv
    <3> QED
      BY <2>3, <3>2
  <2>5. BufferInv(e)'
    <3> SUFFICES ASSUME sendBuffer[e] # NoHeader
                 PROVE  /\ PacketInv(e, outPacketId[e], sendBuffer[e])'
                        /\ notify'[e].writtenInAckSeq = SeqOf(sendBuffer[e].ackId)
                        /\ dirtyAcks'[e] # 0
      BY <1>3 DEF BufferInv
    <3>1. /\ PacketInv(e, outPacketId[e], sendBuffer[e])
          /\ notify[e].writtenInAckSeq = SeqOf(sendBuffer[e].ackId)
      BY <1>1 DEF EndInv, BufferInv
    <3>2. PICK j, x : j = outPacketId[e] /\ x = sendBuffer[e]
      OBVIOUS
    <3>3. x.ackId \in Int
      BY <1>1, <3>2 DEF Packet
    <3>4. PacketInv(e, j, x)'
      BY <2>3, <3>1, <3>2, <3>3
    <3>5. j = outPacketId'[e] /\ x = sendBuffer'[e]
      BY <1>3, <3>2
    <3>6. PacketInv(e, outPacketId[e], sendBuffer[e])'
      BY <3>4, <3>5 DEF PacketInv, Covers, AckOf
    <3> QED
      BY <1>1, <1>10, <1>12, <3>1, <3>6
  <2>6. RecordInv(e)'
    BY <1>1, <1>3, <1>10, <1>12, <2>0 DEF EndInv, RecordInv
  <2>7. HistoryInv(e)'
    <3>1. ASSUME NEW i \in HistoryIndex, FirstId(p) <= id - i
          PROVE  h[i] <=> id - i \in s
      <4>0. i \in Int /\ 0 <= i /\ i < HistorySize /\ HistorySize \in Int
        BY Sizes DEF HistoryIndex
      <4>1. CASE i = 0
        BY <1>4, <1>9, <1>16, <4>1
      <4>2. CASE 0 < i /\ i < k
        <5>1. inAckId[e] < id - i /\ id - i < id /\ id - i \in Int
          BY <1>1, <1>4, <4>0, <4>2 DEF k
        <5>2. id - i \notin s
          BY <1>16, <5>1
        <5>3. ~(i >= k) /\ i # 0
          BY <1>4, <4>0, <4>2
        <5>4. ~h[i]
          BY <1>9, <5>3
        <5> QED
          BY <5>2, <5>4
      <4>3. CASE i >= k
        <5>1. i - k \in HistoryIndex /\ id - i = inAckId[e] - (i - k)
              /\ id - i \in Int /\ id - i <= inAckId[e] /\ i # 0
          BY <1>1, <1>4, <4>0, <4>3, Sizes DEF k, HistoryIndex
        <5>2. n.inSeqHistory[i - k] <=> id - i \in delivered[e]
          BY <1>0, <1>1, <3>1, <5>1 DEF EndInv, HistoryInv
        <5>3. h[i] = n.inSeqHistory[i - k]
          <6>1. h[i] = (i >= k /\ n.inSeqHistory[i - k])
            BY <1>9, <5>1
          <6>2. n.inSeqHistory[i - k] \in BOOLEAN
            BY <1>9, <5>1 DEF History
          <6> QED
            BY <4>3, <6>1, <6>2
        <5> QED
          BY <1>16, <5>1, <5>2, <5>3
      <4> QED
        BY <1>4, <4>0, <4>1, <4>2, <4>3
    <3> QED
      BY <1>0, <1>10, <1>12, <1>16, <3>1 DEF HistoryInv
  <2>8. PendingInv(e)'
    <3>1. phase'[e] \notin {"notify", "bunches"}
      BY <1>12
    <3>2. inPacketId'[e] = inAckId'[e] /\ lastNotified'[e] = outAckId'[e]
      BY <1>3, <1>4, <1>12
    <3> QED
      BY <3>1, <3>2 DEF PendingInv
  <2>9. DirtyInv(e)'
    <3>1. dirtyAcks'[e] # 0 /\ phase'[e] # "reflush"
      BY <1>1, <1>12
    <3>2. phase'[e] \notin {"flush", "reflush"} => dirtyAcks'[e] < HistorySize
      BY <1>1, <1>12, Sizes
    <3> QED
      BY <3>1, <3>2 DEF DirtyInv
  <2> QED
    BY <1>1, <1>3, <2>1, <2>2, <2>4, <2>5, <2>6, <2>7, <2>8, <2>9 DEF EndInv
<1> QED
  BY <1>0, <1>14, <1>15, <1>17, Together

-----------------------------------------------------------------------------
(* Theorems.                                                               *)

LEMMA InvNext == Inv /\ Window /\ [Next]_vars => Inv'
<1> SUFFICES ASSUME Inv, Window, [Next]_vars PROVE Inv'
  OBVIOUS
<1>1. CASE UNCHANGED vars
  BY <1>1 DEF vars, auxVars, Inv, TypeOK, EndInv, NumbersInv, OrderInv, SentInv, PacketInv,
     Covers, BufferInv, RecordInv, HistoryInv, PendingInv, DirtyInv, Heard, Taken, AckOf, SentIds
<1>2. ASSUME NEW e \in Endpoint, EndpointNext(e) PROVE Inv'
  BY <1>2, WriteBitsKeeps, FlushKeeps, TooEarlyKeeps, ReceivedPacketKeeps, NotifyPacketKeeps,
     AcceptPacketKeeps, ControlBunchKeeps, AcknowledgePacketKeeps DEF EndpointNext
<1> QED
  BY <1>1, <1>2 DEF Next

\* What a connection needs to know holds in every reachable state: with less than half
\* of the sequence numbers in flight, the wrapped numbers on the wire stand for ids.
THEOREM Invariance ==
  ASSUME Window
  PROVE  Spec => []Inv
<1>1. Init => Inv
  BY InitInv
<1>2. Inv /\ [Next]_vars => Inv'
  BY InvNext
<1> QED
  BY <1>1, <1>2, PTL DEF Spec

LEMMA InvEndpoint ==
  ASSUME Inv, Window
  PROVE  EndpointInv
<1>1. NotificationsInStep
  BY DEF Inv, EndInv, NotificationsInStep
<1>2. AckRecordsMatch
  <2> SUFFICES ASSUME NEW e \in Endpoint, phase[e] = "idle", NEW id \in Deliverable(e),
                      GetSequenceDelta(notify[e], network[Peer(e)][id].header) > 0,
                      AckCount(notify[e], network[Peer(e)][id].header) > 0
               PROVE  AckRecordFound(notify[e], network[Peer(e)][id].header)
    BY DEF AckRecordsMatch
  <2> QED
    BY HeaderUnderstood
<1>3. PacketIdsAgree
  BY DEF Inv, EndInv, NumbersInv, PendingInv, PacketIdsAgree
<1>4. DirtyAcksFitHistory
  BY DEF Inv, EndInv, DirtyInv, DirtyAcksFitHistory
<1> QED
  BY <1>1, <1>2, <1>3, <1>4 DEF Inv, EndpointInv

\* The two endpoints' records of each other are in order: no sanity check closes the
\* connection (HandlePacketNotification), no ensure fires (UpdateInAckSeqAck), a packet
\* gets the id its sender gave it, and acknowledgements fit in the history.
THEOREM RecordsInOrder ==
  ASSUME Window
  PROVE  Spec => []EndpointInv
<1>1. Inv => EndpointInv
  BY InvEndpoint
<1> QED
  BY <1>1, Invariance, PTL

\* When HasDirtyAcks is zero between packets, the last packet sent has told the peer
\* all that there is to acknowledge.
THEOREM NothingUntold ==
  ASSUME Window
  PROVE  Spec => []CleanMeansTold
<1>1. ASSUME Inv PROVE CleanMeansTold
  <2> SUFFICES ASSUME NEW e \in Endpoint, dirtyAcks[e] = 0, phase[e] = "idle",
                      inPacketId[e] >= FirstId(Peer(e))
               PROVE  /\ outPacketId[e] > FirstId(e)
                      /\ network[e][outPacketId[e] - 1].ackId = inAckId[e]
    BY DEF CleanMeansTold
  <2>1. EndInv(e) /\ outPacketId[e] \in Int /\ inAckId[e] \in Int
        /\ FirstId(e) \in Int /\ FirstId(Peer(e)) \in Int
    BY <1>1, EndTypes, Endpoints DEF Inv
  <2>2. inPacketId[e] = inAckId[e]
    BY <2>1 DEF EndInv, PendingInv
  <2> QED
    BY <2>1, <2>2 DEF EndInv, DirtyInv
<1> QED
  BY <1>1, Invariance, PTL

\* The fate that ProcessReceivedAcks reads off a header is the fate of the packet.
LEMMA FateIsTrue ==
  ASSUME Inv, NEW e \in Endpoint, phase[e] = "notify", pending[e].count > 0
  PROVE  LET id    == lastNotified[e] + 1
             q     == pending[e].packet
             count == pending[e].count
         IN  /\ id \in Int /\ q.ackId \in Int /\ count \in Nat
             /\ q.ackId - id = count - 1 /\ id <= q.ackId /\ q.ackId <= inAckId[Peer(e)]
             /\ count <= HistorySize =>
                  (q.header.history[count - 1] <=> id \in delivered[Peer(e)])
<1>0. PICK p \in Endpoint : p = Peer(e) /\ p # e /\ Peer(p) = e
  BY Endpoints
<1>1. /\ EndInv(e) /\ EndInv(p) /\ outAckId[e] \in Int /\ lastNotified[e] \in Int
      /\ inAckId[e] \in Int /\ inPacketId[e] \in Int /\ pending[e] \in Pending
      /\ FirstId(p) \in Nat /\ outPacketId[p] \in Nat
  BY EndTypes, Endpoints DEF Inv
<1> DEFINE id    == lastNotified[e] + 1
           q     == pending[e].packet
           count == pending[e].count
<1>2. /\ q = network[p][pending[e].id] /\ pending[e].id = inPacketId[e]
      /\ inAckId[e] < pending[e].id
      /\ lastNotified[e] + count = q.ackId /\ outAckId[e] <= lastNotified[e]
      /\ 0 <= count
  BY <1>0, <1>1 DEF EndInv, PendingInv
<1>3. count \in Nat /\ q.ackId \in Int /\ count >= 1
  BY <1>1, <1>2 DEF Pending, Packet
<1>4. q.ackId <= inAckId[p]
  <2>1. Heard(e) = q.ackId
    BY DEF Heard
  <2> HIDE DEF q
  <2> QED
    BY <1>0, <2>1, IdsInOrder
<1>5. pending[e].id \in SentIds(p)
  BY <1>0, <1>1, <1>2 DEF SentIds, EndInv, OrderInv
<1>6. Covers(p, q)
  BY <1>1, <1>2, <1>5 DEF EndInv, SentInv, PacketInv
<1>7. ASSUME count <= HistorySize
      PROVE  q.header.history[count - 1] <=> id \in delivered[p]
  <2>1. count - 1 \in HistoryIndex
    BY <1>3, <1>7, Sizes DEF HistoryIndex
  <2>2. count - 1 < q.ackId - outAckId[e] /\ q.ackId - (count - 1) = id
    BY <1>1, <1>2, <1>3
  <2> HIDE DEF q, count, id
  <2>3. q.header.history[count - 1] <=> q.ackId - (count - 1) \in delivered[p]
    BY <1>0, <1>6, <2>1, <2>2 DEF Covers
  <2> QED
    BY <2>2, <2>3
<1>8. id \in Int /\ q.ackId - id = count - 1 /\ id <= q.ackId
  BY <1>1, <1>2, <1>3
<1> QED
  BY <1>0, <1>3, <1>4, <1>7, <1>8

\* A packet that arrived is reported as lost only if the acknowledgement is at least
\* HistorySize packets older than the last one: WriteHeader sends enough of the history.
THEOREM NoFalseLoss ==
  ASSUME Window
  PROVE  Spec => NoFalseNak
<1> DEFINE Step == \A e \in Endpoint :
             (/\ lastNotified'[e] # lastNotified[e]
              /\ lastNotified'[e] \in delivered[Peer(e)]
              /\ lastNotified'[e] \notin acked'[e])
               => pending[e].packet.ackId - lastNotified'[e] >= HistorySize
<1>1. ASSUME Inv, [Next]_vars PROVE [Step]_vars
  <2> SUFFICES ASSUME NEW e \in Endpoint,
                      lastNotified'[e] # lastNotified[e],
                      lastNotified'[e] \in delivered[Peer(e)],
                      lastNotified'[e] \notin acked'[e]
               PROVE  pending[e].packet.ackId - lastNotified'[e] >= HistorySize
    OBVIOUS
  <2>1. TypeOK
    BY <1>1 DEF Inv
  <2>2. NotifyPacket(e)
    <3>1. PICK x \in Endpoint : EndpointNext(x)
      BY <1>1 DEF Next, vars
    <3>2. NotifyPacket(x)
      BY <3>1 DEF EndpointNext, WriteBitsToSendBuffer, FlushNet, FlushNetTooEarly,
         ReceivedPacket, AcceptPacket, ReceivedControlBunch, AcknowledgePacket, FlushDirtyAcks
    <3>3. x = e
      BY <2>1, <3>2 DEF NotifyPacket, TypeOK
    <3> QED
      BY <3>2, <3>3
  <2> DEFINE id    == lastNotified[e] + 1
             q     == pending[e].packet
             count == pending[e].count
  <2>3. lastNotified'[e] = id /\ phase[e] = "notify" /\ count > 0
    BY <2>1, <2>2 DEF NotifyPacket, TypeOK
  <2>4. ~IsDelivered(q.header, count)
    <3>1. SeqOf(id) = pending[e].currentAck
      BY <1>1, <2>2, NotifyPacketKeeps
    <3>2. ASSUME IsDelivered(q.header, count) PROVE id \in acked'[e]
      <4>1. acked' = [acked EXCEPT ![e] = @ \cup {id}]
        BY <2>2, <3>1, <3>2 DEF NotifyPacket
      <4> QED
        BY <2>1, <4>1 DEF TypeOK
    <3> QED
      BY <2>3, <3>2
  <2>5. /\ id \in Int /\ q.ackId \in Int /\ count \in Nat
        /\ q.ackId - id = count - 1
        /\ count <= HistorySize => (q.header.history[count - 1] <=> id \in delivered[Peer(e)])
    BY <1>1, <2>3, FateIsTrue
  <2>6. count > HistorySize
    BY <2>3, <2>4, <2>5, Sizes DEF IsDelivered
  <2> HIDE DEF id, q, count
  <2> QED
    BY <2>3, <2>5, <2>6, Sizes DEF q
<1>2. Spec => [][Step]_vars
  BY <1>1, Invariance, PTL DEF Spec
<1> QED
  BY <1>2, PTL DEF NoFalseNak

\* What each step does to the promise of DeliveryNotification.
LEMMA SendRefines ==
  ASSUME Inv, NEW e \in Endpoint, SendPacket(e),
         UNCHANGED <<inAckId, delivered, lastNotified, acked>>
  PROVE  Delivery!Send(e)
<1>1. TypeOK
  BY DEF Inv
<1>2. outPacketId' = [outPacketId EXCEPT ![e] = outPacketId[e] + 1]
  BY <1>1 DEF SendPacket, TypeOK
<1>3. [x \in Endpoint |-> outPacketId'[x] - 1]
        = [[x \in Endpoint |-> outPacketId[x] - 1] EXCEPT ![e] = outPacketId[e] - 1 + 1]
  <2>1. outPacketId[e] \in Int
    BY <1>1, EndTypes
  <2>2. outPacketId'[e] = outPacketId[e] + 1
    BY <1>1, <1>2 DEF TypeOK
  <2>3. \A x \in Endpoint : x # e => outPacketId'[x] = outPacketId[x]
    BY <1>1, <1>2 DEF TypeOK
  <2>4. \A x \in Endpoint :
          outPacketId'[x] - 1 = IF x = e THEN outPacketId[e] - 1 + 1 ELSE outPacketId[x] - 1
    <3>1. outPacketId'[e] - 1 = outPacketId[e] - 1 + 1
      BY <2>1, <2>2
    <3> QED
      BY <2>3, <3>1
  <2> QED
    BY <2>4
<1> QED
  BY <1>1, <1>3 DEF Delivery!Send

LEMMA SettleRefines ==
  ASSUME Inv, NEW e \in Endpoint, AcknowledgePacket(e)
  PROVE  Delivery!Settle(e)
<1>0. PICK p \in Endpoint : p = Peer(e) /\ p # e /\ Peer(p) = e
  BY Endpoints
<1>1. /\ TypeOK /\ EndInv(e) /\ inAckId[e] \in Int /\ inPacketId[e] \in Int
      /\ outPacketId[p] \in Nat
  BY EndTypes DEF Inv
<1>2. PICK isAck \in BOOLEAN :
        delivered' = [delivered EXCEPT ![e] = IF isAck THEN @ \cup {pending[e].id} ELSE @]
  BY DEF AcknowledgePacket
<1> DEFINE id == pending[e].id
<1>3. /\ phase[e] = "bunches" /\ inAckId' = [inAckId EXCEPT ![e] = id]
      /\ UNCHANGED <<outPacketId, lastNotified, acked>>
  BY DEF AcknowledgePacket
<1>4. id \in inAckId[e] + 1 .. outPacketId[p] - 1
  BY <1>0, <1>1, <1>3 DEF EndInv, PendingInv, OrderInv
<1>5. delivered' = [delivered EXCEPT ![e] = @ \cup {id}] \/ delivered' = delivered
  <2>1. CASE isAck
    BY <1>2, <2>1
  <2>2. CASE ~isAck
    BY <1>1, <1>2, <2>2 DEF TypeOK
  <2> QED
    BY <2>1, <2>2
<1> HIDE DEF id
<1>6. id \in inAckId[e] + 1 .. [x \in Endpoint |-> outPacketId[x] - 1][Peer(e)]
  BY <1>0, <1>4
<1> QED
  BY <1>3, <1>5, <1>6 DEF Delivery!Settle

LEMMA NotifyRefines ==
  ASSUME Inv, NEW e \in Endpoint, NotifyPacket(e)
  PROVE  Delivery!Notify(e)
<1>0. PICK p \in Endpoint : p = Peer(e) /\ p # e /\ Peer(p) = e
  BY Endpoints
<1> DEFINE id    == lastNotified[e] + 1
           q     == pending[e].packet
           count == pending[e].count
<1>1. /\ TypeOK /\ inAckId[p] \in Int /\ lastNotified[e] \in Int
  BY EndTypes DEF Inv
<1>2. /\ phase[e] = "notify" /\ count > 0 /\ SeqOf(id) = pending[e].currentAck
      /\ lastNotified' = [lastNotified EXCEPT ![e] = id]
      /\ UNCHANGED <<outPacketId, inAckId, delivered>>
  BY NotifyPacketKeeps DEF NotifyPacket
<1>3. /\ id \in Int /\ q.ackId \in Int /\ count \in Nat
      /\ q.ackId - id = count - 1 /\ id <= q.ackId /\ q.ackId <= inAckId[p]
      /\ count <= HistorySize => (q.header.history[count - 1] <=> id \in delivered[p])
  BY <1>0, <1>2, FateIsTrue
<1>4. lastNotified[e] < inAckId[p]
  BY <1>1, <1>3
<1>5. \/ id \in delivered[p] /\ acked' = [acked EXCEPT ![e] = @ \cup {id}]
      \/ /\ id \notin delivered[p] \/ inAckId[p] - id >= HistorySize
         /\ acked' = acked
  <2>1. CASE IsDelivered(q.header, count)
    BY <1>2, <1>3, <2>1 DEF NotifyPacket, IsDelivered
  <2>2. CASE ~IsDelivered(q.header, count)
    <3>1. acked' = acked
      BY <1>2, <2>2 DEF NotifyPacket
    <3>2. CASE count <= HistorySize
      BY <1>3, <2>2, <3>1, <3>2 DEF IsDelivered
    <3>3. CASE count > HistorySize
      <4>1. inAckId[p] - id >= HistorySize
        <5> HIDE DEF id, q, count
        <5> QED
          BY <1>1, <1>3, <3>3, Sizes
      <4> QED
        BY <3>1, <4>1
    <3> QED
      BY <1>3, <3>2, <3>3, Sizes
  <2> QED
    BY <2>1, <2>2
<1> HIDE DEF q, count
<1> QED
  BY <1>0, <1>2, <1>4, <1>5 DEF Delivery!Notify

\* The packet layer implements DeliveryNotification: every packet is reported once, in
\* order and truthfully, although each header carries only what fits.
THEOREM Refinement ==
  ASSUME Window
  PROVE  Spec => ImplementsDelivery
<1>1. ASSUME Init PROVE Delivery!Init
  <2>1. [e \in Endpoint |-> outPacketId[e] - 1] = [e \in Endpoint |-> FirstId(e) - 1]
    BY <1>1 DEF Init
  <2> QED
    BY <1>1, <2>1 DEF Init, Delivery!Init
<1>2. ASSUME Inv, [Next]_vars PROVE [Delivery!Next]_(Delivery!vars)
  <2>1. CASE UNCHANGED vars
    BY <2>1 DEF vars, auxVars, Delivery!vars
  <2>2. ASSUME NEW e \in Endpoint, EndpointNext(e) PROVE [Delivery!Next]_(Delivery!vars)
    <3>1. CASE UNCHANGED <<outPacketId, inAckId, delivered, lastNotified, acked>>
      BY <3>1 DEF Delivery!vars
    <3>2. CASE FlushNet(e) \/ FlushDirtyAcks(e)
      <4>1. Delivery!Send(e)
        BY <1>2, <3>2, SendRefines DEF FlushNet, FlushDirtyAcks, auxVars
      <4> QED
        BY <4>1 DEF Delivery!Next
    <3>3. CASE AcknowledgePacket(e)
      <4>1. Delivery!Settle(e)
        BY <1>2, <3>3, SettleRefines
      <4> QED
        BY <4>1 DEF Delivery!Next
    <3>4. CASE NotifyPacket(e)
      <4>1. Delivery!Notify(e)
        BY <1>2, <3>4, NotifyRefines
      <4> QED
        BY <4>1 DEF Delivery!Next
    <3> QED
      BY <2>2, <3>1, <3>2, <3>3, <3>4 DEF EndpointNext, WriteBitsToSendBuffer, FlushNetTooEarly,
         ReceivedPacket, AcceptPacket, ReceivedControlBunch, auxVars
  <2> QED
    BY <1>2, <2>1, <2>2 DEF Next
<1> QED
  BY <1>1, <1>2, Invariance, PTL DEF Spec, ImplementsDelivery, Delivery!Spec
=============================================================================
