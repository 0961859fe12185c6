----------------------------- MODULE Connection -----------------------------
(***************************************************************************)
(* The packet layer of UNetConnection (Engine/Private/NetConnection.cpp):  *)
(* a client and a server exchange packets over UDP, each packet carries a  *)
(* header of FNetPacketNotify, and each side tells the layers above, once  *)
(* and in order, which of its packets arrived.                             *)
(*                                                                         *)
(* A connection is driven by one thread, but ReceivedPacket calls back     *)
(* into the game and the channels, and those call FlushNet: an endpoint    *)
(* can send in the middle of a packet it receives.  ReceivedPacket is      *)
(* therefore a sequence of actions, with `phase' for where it is.          *)
(*                                                                         *)
(* UDP may lose, duplicate, delay and reorder: an endpoint receives any    *)
(* packet its peer ever sent, any number of times, in any order, up to an  *)
(* age.  A lost packet is one that is never received.                      *)
(***************************************************************************)
EXTENDS PacketNotify

CONSTANTS
  Client, Server,
  ClientFirstId, ServerFirstId,   \* packet ids agreed on by the handshake
  NoHeader,                       \* the send buffer is empty
  ClientMaxPackets,               \* bound: packets the client sends
  ServerMaxPackets,               \* bound: packets the server sends
  MaxInFlight,                    \* bound: packets sent and not yet acknowledged
  MaxPacketAge                    \* bound: age of a packet that is still delivered

ASSUME ConnectionAssumption ==
  /\ Client # Server
  /\ ClientFirstId \in Nat
  /\ ServerFirstId \in Nat
  /\ ClientMaxPackets \in Nat
  /\ ServerMaxPackets \in Nat
  /\ MaxInFlight \in Nat
  /\ MaxPacketAge \in Nat

Endpoint == {Client, Server}
Peer(e) == IF e = Client THEN Server ELSE Client
FirstId(e) == IF e = Client THEN ClientFirstId ELSE ServerFirstId
MaxPackets(e) == IF e = Client THEN ClientMaxPackets ELSE ServerMaxPackets

VARIABLES
  notify,          \* PacketNotify
  inPacketId,      \* InPacketId: full-width id of the last packet let in
  outPacketId,     \* OutPacketId: full-width id of the next packet to send
  outAckPacketId,  \* OutAckPacketId: the last packet known to have arrived
  lastNotified,    \* LastNotifiedPacketId
  dirtyAcks,       \* HasDirtyAcks
  sendBuffer,      \* the header in SendBuffer, NoHeader when that is empty
  state,           \* open, or why it was closed
  heardClient,     \* InReliable[0] # InitInReliable at the server
  phase,           \* where ReceivedPacket is
  pending,         \* the packet it is processing and its local variables
  network,         \* the packets an endpoint has sent, by their id
  \* Auxiliary variables, which no guard of the code's control reads:
  inAckId,         \* full-width id behind InAckSeq
  outAckId,        \* full-width id behind OutAckSeq
  delivered,       \* packets of the peer that an endpoint acknowledged
  acked            \* packets an endpoint was told have arrived

auxVars == <<inAckId, outAckId, delivered, acked>>
vars == <<notify, inPacketId, outPacketId, outAckPacketId, lastNotified, dirtyAcks,
          sendBuffer, state, heardClient, phase, pending, network, auxVars>>

Phase == {"idle", "notify", "bunches", "flush", "reflush"}

\* A packet: its header, and the id that its ackedSeq stands for (auxiliary).
Packet == [header : NotificationHeader, ackId : Int]

\* No packet is being processed.
NoPending ==
  [id |-> 0, count |-> 0, currentAck |-> 0,
   packet |-> [header |-> [seq |-> 0, ackedSeq |-> 0, history |-> NoHistory], ackId |-> 0]]

Pending == [id : Int, count : Int, currentAck : SeqNumber, packet : Packet]

SentIds(e) == FirstId(e) .. outPacketId[e] - 1

TypeOK ==
  /\ notify \in [Endpoint -> PacketNotifyState]
  /\ inPacketId \in [Endpoint -> Int]
  /\ outPacketId \in [Endpoint -> Nat]
  /\ outAckPacketId \in [Endpoint -> Int]
  /\ lastNotified \in [Endpoint -> Int]
  /\ dirtyAcks \in [Endpoint -> Nat]
  /\ sendBuffer \in [Endpoint -> Packet \cup {NoHeader}]
  /\ state \in [Endpoint -> {"open", "closed", "violation"}]
  /\ heardClient \in BOOLEAN
  /\ phase \in [Endpoint -> Phase]
  /\ pending \in [Endpoint -> Pending]
  /\ \A e \in Endpoint : network[e] \in [SentIds(e) -> Packet]
  /\ DOMAIN network = Endpoint
  /\ inAckId \in [Endpoint -> Int]
  /\ outAckId \in [Endpoint -> Int]
  /\ delivered \in [Endpoint -> SUBSET Nat]
  /\ acked \in [Endpoint -> SUBSET Int]

\* InitSequence, once the handshake has agreed on the first ids.
Init ==
  /\ notify = [e \in Endpoint |-> InitPacketNotify(FirstId(Peer(e)) - 1, FirstId(e))]
  /\ inPacketId = [e \in Endpoint |-> FirstId(Peer(e)) - 1]
  /\ outPacketId = [e \in Endpoint |-> FirstId(e)]
  /\ outAckPacketId = [e \in Endpoint |-> FirstId(e) - 1]
  /\ lastNotified = [e \in Endpoint |-> FirstId(e) - 1]
  /\ dirtyAcks = [e \in Endpoint |-> 0]
  /\ sendBuffer = [e \in Endpoint |-> NoHeader]
  /\ state = [e \in Endpoint |-> "open"]
  /\ heardClient = FALSE
  /\ phase = [e \in Endpoint |-> "idle"]
  /\ pending = [e \in Endpoint |-> NoPending]
  /\ network = [e \in Endpoint |-> [id \in {} |-> NoPending.packet]]
  /\ inAckId = [e \in Endpoint |-> FirstId(Peer(e)) - 1]
  /\ outAckId = [e \in Endpoint |-> FirstId(e) - 1]
  /\ delivered = [e \in Endpoint |-> {}]
  /\ acked = [e \in Endpoint |-> {}]

-----------------------------------------------------------------------------
(* Sending.                                                                *)

\* The game, a channel or the driver may write or flush between packets, while
\* the bunches of one are dispatched, and from a delivery notification.
InCallback(e) ==
  \/ phase[e] \in {"idle", "bunches"}
  \/ phase[e] = "notify" /\ lastNotified[e] > outAckId[e]

PacketWith(e, words) == [header |-> HeaderOf(notify[e], words), ackId |-> inAckId[e]]

\* Mutant: writing a header counts as sending the acknowledgements in it.
WriteBitsToSendBuffer_Clean(e) ==
  /\ state[e] = "open"
  /\ InCallback(e)
  /\ sendBuffer[e] = NoHeader
  /\ LET words == CurrentHistoryWordCount(notify[e])
     IN  /\ notify' = [notify EXCEPT ![e] = WriteHeader(@, words)]
         /\ sendBuffer' = [sendBuffer EXCEPT ![e] = PacketWith(e, words)]
  /\ dirtyAcks' = [dirtyAcks EXCEPT ![e] = 0]
  /\ UNCHANGED <<inPacketId, outPacketId, outAckPacketId, lastNotified,
                 state, heardClient, phase, pending, network, auxVars>>

\* PrepareWriteBitsToSendBuffer: the first write to an empty buffer puts the
\* packet header there.
WriteBitsToSendBuffer(e) ==
  /\ state[e] = "open"
  /\ InCallback(e)
  /\ sendBuffer[e] = NoHeader
  /\ LET words == CurrentHistoryWordCount(notify[e])
     IN  /\ notify' = [notify EXCEPT ![e] = WriteHeader(@, words)]
         /\ sendBuffer' = [sendBuffer EXCEPT ![e] = PacketWith(e, words)]
  /\ UNCHANGED <<inPacketId, outPacketId, outAckPacketId, lastNotified, dirtyAcks,
                 state, heardClient, phase, pending, network, auxVars>>

\* A server has heard from the client once a reliable bunch of the control
\* channel was let in.
HasReceivedClientPacket(e) == e = Server => heardClient

\* What stands for the time a connection may go on sending without an answer
\* before it times out, and the bound on the length of a behaviour.
WithinBounds(e) ==
  /\ outPacketId[e] < FirstId(e) + MaxPackets(e)
  /\ outPacketId[e] - outAckId[e] <= MaxInFlight

\* FlushNet: write a header if there is none, refresh it if it is still large
\* enough, send and commit.  Only a refreshed header clears HasDirtyAcks.
SendPacket(e) ==
  LET n       == IF sendBuffer[e] = NoHeader
                   THEN WriteHeader(notify[e], CurrentHistoryWordCount(notify[e]))
                   ELSE notify[e]
      words   == n.writtenHistoryWordCount
      refresh == CanRefresh(n)
  IN  /\ notify' = [notify EXCEPT ![e] =
           CommitAndIncrementOutSeq(IF refresh THEN WriteHeader(n, words) ELSE n)]
      /\ network' = [network EXCEPT ![e] =
           [id \in SentIds(e) \cup {outPacketId[e]} |->
              IF id = outPacketId[e]
                THEN IF refresh THEN PacketWith(e, words) ELSE sendBuffer[e]
                ELSE @[id]]]
      /\ dirtyAcks' = [dirtyAcks EXCEPT ![e] = IF refresh THEN 0 ELSE @]
      /\ outPacketId' = [outPacketId EXCEPT ![e] = @ + 1]
      /\ sendBuffer' = [sendBuffer EXCEPT ![e] = NoHeader]

FlushNet(e) ==
  /\ state[e] = "open"
  /\ InCallback(e)
  /\ HasReceivedClientPacket(e)
  /\ WithinBounds(e)
  /\ SendPacket(e)
  /\ UNCHANGED <<inPacketId, outAckPacketId, lastNotified, state, heardClient, phase,
                 pending, auxVars>>

\* A server that flushes before that closes the connection instead.
FlushNetTooEarly(e) ==
  /\ state[e] = "open"
  /\ InCallback(e) \/ phase[e] = "flush"
  /\ ~HasReceivedClientPacket(e)
  /\ state' = [state EXCEPT ![e] = "closed"]
  /\ sendBuffer' = [sendBuffer EXCEPT ![e] = NoHeader]
  /\ UNCHANGED <<notify, inPacketId, outPacketId, outAckPacketId, lastNotified,
                 dirtyAcks, heardClient, phase, pending, network, auxVars>>

-----------------------------------------------------------------------------
(* Receiving.                                                              *)

\* A packet of the peer that is still on its way, or once more on its way.
Deliverable(e) ==
  {id \in SentIds(Peer(e)) : id + MaxPacketAge >= outPacketId[Peer(e)]}

\* ReceivedPacket up to the notifications.  A packet that GetSequenceDelta
\* rejects changes nothing.
ReceivedPacket(e) ==
  /\ state[e] = "open"
  /\ phase[e] = "idle"
  /\ \E id \in Deliverable(e) :
       LET n     == notify[e]
           p     == network[Peer(e)][id]
           count == AckCount(n, p.header)
       IN  /\ GetSequenceDelta(n, p.header) > 0
           /\ inPacketId' = [inPacketId EXCEPT ![e] = @ + GetSequenceDelta(n, p.header)]
           /\ notify' = [notify EXCEPT ![e] =
                IF count > 0 THEN UpdateInAckSeqAck(@, p.header) ELSE @]
           /\ pending' = [pending EXCEPT ![e] =
                [id |-> id, count |-> count, currentAck |-> Inc(n.outAckSeq),
                 packet |-> p]]
           /\ phase' = [phase EXCEPT ![e] = "notify"]
  /\ UNCHANGED <<outPacketId, outAckPacketId, lastNotified, dirtyAcks, sendBuffer,
                 state, heardClient, network, auxVars>>

\* One turn of the loops of ProcessReceivedAcks, and HandlePacketNotification:
\* ReceivedAck or ReceivedNak, unless the ids have come apart.
NotifyPacket(e) ==
  /\ state[e] = "open"
  /\ phase[e] = "notify"
  /\ pending[e].count > 0
  /\ LET id == lastNotified[e] + 1
     IN  /\ lastNotified' = [lastNotified EXCEPT ![e] = id]
         /\ \/ /\ SeqOf(id) # pending[e].currentAck
               /\ state' = [state EXCEPT ![e] = "violation"]
               /\ UNCHANGED <<outAckPacketId, acked>>
            \/ /\ SeqOf(id) = pending[e].currentAck
               /\ IsDelivered(pending[e].packet.header, pending[e].count)
               /\ outAckPacketId' = [outAckPacketId EXCEPT ![e] = id]
               /\ acked' = [acked EXCEPT ![e] = @ \cup {id}]
               /\ UNCHANGED state
            \/ /\ SeqOf(id) = pending[e].currentAck
               /\ ~IsDelivered(pending[e].packet.header, pending[e].count)
               /\ UNCHANGED <<state, outAckPacketId, acked>>
  /\ pending' = [pending EXCEPT ![e].count = @ - 1, ![e].currentAck = Inc(@)]
  /\ UNCHANGED <<notify, inPacketId, outPacketId, dirtyAcks, sendBuffer, heardClient,
                 phase, network, inAckId, outAckId, delivered>>

\* The end of PacketNotify.Update: the sequence number is accepted.
AcceptPacket(e) ==
  /\ state[e] = "open"
  /\ phase[e] = "notify"
  /\ pending[e].count = 0
  /\ notify' = [notify EXCEPT ![e] = AcceptSequence(@, pending[e].packet.header)]
  /\ outAckId' = [outAckId EXCEPT ![e] = pending[e].packet.ackId]
  /\ phase' = [phase EXCEPT ![e] = "bunches"]
  /\ UNCHANGED <<inPacketId, outPacketId, outAckPacketId, lastNotified, dirtyAcks,
                 sendBuffer, state, heardClient, pending, network, inAckId, delivered,
                 acked>>

\* A bunch of the packet is the first reliable one of the control channel.
ReceivedControlBunch(e) ==
  /\ state[e] = "open"
  /\ phase[e] = "bunches"
  /\ e = Server
  /\ ~heardClient
  /\ heardClient' = TRUE
  /\ UNCHANGED <<notify, inPacketId, outPacketId, outAckPacketId, lastNotified,
                 dirtyAcks, sendBuffer, state, phase, pending, network, auxVars>>

\* The end of ReceivedPacket: the packet is acknowledged, or explicitly not
\* (bSkipAck, which the bunches decide).  Too many acknowledgements that no
\* packet has carried yet force a flush.
AcknowledgePacket(e) ==
  /\ state[e] = "open"
  /\ phase[e] = "bunches"
  /\ \E isAck \in BOOLEAN :
       /\ notify' = [notify EXCEPT ![e] = AckSeq(@, SeqOf(inPacketId[e]), isAck)]
       /\ delivered' = [delivered EXCEPT ![e] =
            IF isAck THEN @ \cup {pending[e].id} ELSE @]
  /\ inAckId' = [inAckId EXCEPT ![e] = pending[e].id]
  /\ dirtyAcks' = [dirtyAcks EXCEPT ![e] = @ + 1]
  /\ phase' = [phase EXCEPT ![e] =
       IF dirtyAcks[e] + 1 >= HistorySize THEN "flush" ELSE "idle"]
  /\ pending' = [pending EXCEPT ![e] = NoPending]
  /\ UNCHANGED <<inPacketId, outPacketId, outAckPacketId, lastNotified, sendBuffer,
                 state, heardClient, network, outAckId, acked>>

\* Mutant: one flush is taken to be enough.
FlushDirtyAcks_Once(e) ==
  /\ state[e] = "open"
  /\ phase[e] \in {"flush", "reflush"}
  /\ HasReceivedClientPacket(e)
  /\ WithinBounds(e)
  /\ SendPacket(e)
  /\ phase' = [phase EXCEPT ![e] = "idle"]
  /\ UNCHANGED <<inPacketId, outAckPacketId, lastNotified, state, heardClient, pending,
                 auxVars>>

\* The flush it forces, and a second one if the first could not refresh its
\* header and left the acknowledgements behind.
FlushDirtyAcks(e) ==
  /\ state[e] = "open"
  /\ phase[e] \in {"flush", "reflush"}
  /\ HasReceivedClientPacket(e)
  /\ WithinBounds(e)
  /\ SendPacket(e)
  /\ phase' = [phase EXCEPT ![e] =
       IF phase[e] = "flush" /\ dirtyAcks'[e] # 0 THEN "reflush" ELSE "idle"]
  /\ UNCHANGED <<inPacketId, outAckPacketId, lastNotified, state, heardClient, pending,
                 auxVars>>

-----------------------------------------------------------------------------

EndpointNext(e) ==
  \/ WriteBitsToSendBuffer(e)
  \/ FlushNet(e)
  \/ FlushNetTooEarly(e)
  \/ ReceivedPacket(e)
  \/ NotifyPacket(e)
  \/ AcceptPacket(e)
  \/ ReceivedControlBunch(e)
  \/ AcknowledgePacket(e)
  \/ FlushDirtyAcks(e)

Next == \E e \in Endpoint : EndpointNext(e)

Spec == Init /\ [][Next]_vars

-----------------------------------------------------------------------------
(* Properties.                                                             *)

\* The sanity check of HandlePacketNotification never closes a connection: the
\* notifications count every packet id exactly once, in order and in step with
\* the wrapped sequence numbers.
NotificationsInStep == \A e \in Endpoint : state[e] # "violation"

\* The ensure of UpdateInAckSeqAck never fires: whatever deliverable header
\* acknowledges packets, the record of the last of them is in AckRecord.
AckRecordsMatch ==
  \A e \in Endpoint : phase[e] = "idle" =>
    \A id \in Deliverable(e) :
      LET h == network[Peer(e)][id].header
      IN  GetSequenceDelta(notify[e], h) > 0 /\ AckCount(notify[e], h) > 0
            => AckRecordFound(notify[e], h)

\* The id an endpoint gives to a packet is the id its sender gave it, in spite
\* of the wrap-around of the 14 bits on the wire; so no packet is let in twice,
\* and check(AckedSeq == InSeq) in AckSeq holds.
PacketIdsAgree ==
  \A e \in Endpoint :
    /\ phase[e] \in {"notify", "bunches"} => inPacketId[e] = pending[e].id
    /\ phase[e] # "notify" => notify[e].inSeq = SeqOf(inPacketId[e])

\* A packet that did arrive is reported as lost only if the acknowledgement
\* that reports it came at least HistorySize packets later: the words of
\* history that WriteHeader chooses to send always suffice.
NoFalseNak ==
  [][\A e \in Endpoint :
       (/\ lastNotified'[e] # lastNotified[e]
        /\ lastNotified'[e] \in delivered[Peer(e)]
        /\ lastNotified'[e] \notin acked'[e])
         => pending[e].packet.ackId - lastNotified'[e] >= HistorySize]_vars

\* When no acknowledgement is dirty, the last packet sent has told the peer
\* everything: HasDirtyAcks is cleared only by a header that was refreshed.
CleanMeansTold ==
  \A e \in Endpoint :
    dirtyAcks[e] = 0 /\ inPacketId[e] >= FirstId(Peer(e)) /\ phase[e] = "idle" =>
      /\ outPacketId[e] > FirstId(e)
      /\ network[e][outPacketId[e] - 1].ackId = inAckId[e]

\* Between packets there is room in the history for one more status before an
\* acknowledgement that was never sent drops out of it.
DirtyAcksFitHistory ==
  \A e \in Endpoint : phase[e] = "idle" => dirtyAcks[e] < HistorySize

\* The two endpoints' records of each other are in order, although ids wrap
\* around on the wire and each header carries only what fits.
EndpointInv ==
  TypeOK /\ NotificationsInStep /\ AckRecordsMatch /\ PacketIdsAgree /\ DirtyAcksFitHistory

\* The packet layer keeps the promise of DeliveryNotification: every packet is
\* reported once, in order, and truthfully.
Delivery == INSTANCE DeliveryNotification WITH
              sent     <- [e \in Endpoint |-> outPacketId[e] - 1],
              settled  <- inAckId,
              notified <- lastNotified

ImplementsDelivery == Delivery!Spec

\* NetPacketNotify.h 113: with more packets in flight than the send window
\* "we should not send more".
SendWindowRespected ==
  [][\A e \in Endpoint : outPacketId'[e] # outPacketId[e] => CanSend(notify[e])]_vars
=============================================================================
