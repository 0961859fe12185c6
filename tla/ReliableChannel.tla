--------------------------- MODULE ReliableChannel ---------------------------
(***************************************************************************)
(* An actor channel of a network connection (UChannel in Engine/Private/   *)
(* DataChannel.cpp and the bunches of UNetConnection): the server opens    *)
(* channel number ChIndex, both sides send bunches through it, the server  *)
(* closes it and may then open the same number again for another actor.    *)
(*                                                                         *)
(* Reliable bunches carry a sequence number of the channel index, which    *)
(* goes on from one incarnation of the channel to the next; they are kept  *)
(* until the packet they travelled in is acknowledged and are written into *)
(* a new packet when it is reported lost.  Large bunches are split.        *)
(*                                                                         *)
(* Packets are what Connection.tla shows them to be: let in in the order   *)
(* of their numbers, or lost for good; and each header tells the fate of   *)
(* every packet up to the last one let in.  Packet numbers are counted     *)
(* here from the oldest packet whose fate its sender does not know, so     *)
(* that they stay small: a header under way drops the fates that became    *)
(* known in the meantime, which its receiver would skip.                   *)
(*                                                                         *)
(* One thread drives an end.  ReceivedPacket calls the game with every     *)
(* bunch, and the game may send or flush from there, so each bunch of a    *)
(* packet is an action of its own.                                         *)
(***************************************************************************)
EXTENDS Integers, Sequences

CONSTANTS
  Server, Client,
  NoChannel, NoPartial,
  MaxChSequence,     \* MAX_CHSEQUENCE
  ReliableBuffer,    \* RELIABLE_BUFFER
  FirstSequence,     \* InitOutReliable and InitInReliable
  ServerSizes,       \* bounds: into how many bunches a message is split
  ClientSizes,
  MaxIncarnations,   \* bound: how often the channel is opened
  ServerMessages,    \* bounds: reliable messages of each side in an incarnation
  ClientMessages,
  LooseMessages,     \* bound: unreliable messages of the server in an incarnation
  MaxInFlight,       \* bound: packets whose fate is not known to their sender
  MaxBuffered        \* bound: bunches in the send buffer when the game writes

ASSUME ChannelAssumption ==
  /\ Server # Client
  /\ MaxChSequence \in Nat /\ MaxChSequence % 2 = 0
  /\ ReliableBuffer \in Nat \ {0}
  /\ 2 * ReliableBuffer < MaxChSequence
  /\ FirstSequence \in Nat
  /\ ServerSizes \cup ClientSizes \subseteq Nat \ {0}
  /\ MaxIncarnations \in Nat

Side == {Server, Client}
Other(e) == IF e = Server THEN Client ELSE Server
Sizes(e) == IF e = Server THEN ServerSizes ELSE ClientSizes
MaxMessages(e) == IF e = Server THEN ServerMessages ELSE ClientMessages

VARIABLES
  conn,          \* the state of each end
  \* Auxiliary variables, which no guard of the code's control reads:
  incarnation,   \* how often the channel was opened
  sent,          \* reliable messages each side sent in this incarnation
  loose,         \* unreliable messages the server sent in it
  reused         \* the channel was opened before bunches that had come already
                 \* were processed

vars == <<conn, incarnation, sent, loose, reused>>

\* What a bunch holds: part k of `of' of message n (auxiliary but for its kind:
\* a "sync" bunch is empty).
Tag == [kind : {"reliable", "unreliable", "sync"}, inc : Nat, n : Nat, k : Nat, of : Nat,
        seq : Nat]

Part == {"whole", "initial", "middle", "final"}

Bunch == [seq : Nat, rel : BOOLEAN, open : BOOLEAN, close : BOOLEAN, part : Part, tag : Tag]

Packet == [bunches : Seq(Bunch), fates : Seq(BOOLEAN)]

\* FOutBunch in OutRec: `packet' is its PacketId.
OutBunch == [bunch : Bunch, packet : Nat, acked : BOOLEAN]

\* InPartialBunch, with the tags of the parts it was put together from.
Partial ==
  [rel : BOOLEAN, seq : Nat, age : 0..2, final : BOOLEAN, open : BOOLEAN,
   close : BOOLEAN, tags : Seq(Tag)]

\* UChannel.  `opened' says that OpenPacketId is set.
Channel ==
  [openedLocally : BOOLEAN, opened : BOOLEAN, openAcked : BOOLEAN, closing : BOOLEAN,
   outRec : Seq(OutBunch), inRec : Seq(Bunch), inPartial : {NoPartial} \cup Partial]

ASSUME NullAssumption == NoChannel \notin Channel /\ NoPartial \notin Partial

\* The packet being processed: bunches to go, packets lost just before it, bSkipAck.
Receiving == [busy : BOOLEAN, bunches : Seq(Bunch), lost : Nat, skipAck : BOOLEAN]

NotReceiving == [busy |-> FALSE, bunches |-> <<>>, lost |-> 0, skipAck |-> FALSE]

End ==
  [state : {"open", "closed", "error"},
   channel : {NoChannel} \cup Channel,
   outReliable : Nat, inReliable : Nat, pendingOutRec : Nat,
   sendBuffer : Seq(Bunch),
   wire : Seq(Packet),          \* its packets that are still under way
   unnotified : Nat,            \* its packets whose fate it does not know
   fates : Seq(BOOLEAN),        \* fates of the peer's packets, as its headers tell them
   receiving : Receiving,
   \* Auxiliary: the last reliable message handed to the game; whether all that it
   \* was handed were whole messages, and for the actor that the channel is for.
   got : [inc : Nat, n : Nat], whole : BOOLEAN, fresh : BOOLEAN]

TypeOK ==
  /\ conn \in [Side -> End]
  /\ incarnation \in 0..MaxIncarnations
  /\ sent \in [Side -> Nat]
  /\ loose \in Nat
  /\ reused \in BOOLEAN

Init ==
  /\ conn = [e \in Side |->
       [state |-> "open", channel |-> NoChannel,
        outReliable |-> FirstSequence, inReliable |-> FirstSequence, pendingOutRec |-> 0,
        sendBuffer |-> <<>>, wire |-> <<>>, unnotified |-> 0, fates |-> <<>>,
        receiving |-> NotReceiving,
        got |-> [inc |-> 0, n |-> 0], whole |-> TRUE, fresh |-> TRUE]]
  /\ incarnation = 0
  /\ sent = [e \in Side |-> 0]
  /\ loose = 0
  /\ reused = FALSE

NewChannel(openedLocally) ==
  [openedLocally |-> openedLocally, opened |-> FALSE, openAcked |-> FALSE,
   closing |-> FALSE, outRec |-> <<>>, inRec |-> <<>>, inPartial |-> NoPartial]

Error(s) == [s EXCEPT !.state = "error"]
SkipAck(s) == [s EXCEPT !.receiving.skipAck = TRUE]

-----------------------------------------------------------------------------
(* Sending.  The operators take the state of an end and return its next.   *)

\* UNetConnection::FlushNet: the packet leaves with the acknowledgements so far.
Flushed(s) ==
  [s EXCEPT !.wire = Append(@, [bunches |-> s.sendBuffer, fates |-> s.fates]),
            !.sendBuffer = <<>>,
            !.unnotified = @ + 1]

\* UNetConnection::SendRawBunch: only the low bits of the sequence are written.
WriteBunch(s, b) ==
  [s EXCEPT !.sendBuffer = Append(@, [b EXCEPT !.seq = @ % MaxChSequence])]

\* The packet that is being filled.
OutPacketId(s) == s.unnotified + 1

\* PrepBunch and UChannel::SendRawBunch.
PrepBunch(s, bunch) ==
  LET seq == IF bunch.rel THEN s.outReliable + 1 ELSE 0
      b   == [bunch EXCEPT !.seq = seq, !.tag.seq = seq]
      rec == [bunch |-> b, packet |-> OutPacketId(s), acked |-> FALSE]
  IN  WriteBunch(
        [s EXCEPT !.outReliable = IF b.rel THEN seq ELSE @,
                  !.channel.outRec = IF b.rel THEN Append(@, rec) ELSE @,
                  !.channel.opened = TRUE,
                  !.channel.closing = @ \/ b.close], b)

PartOf(k, size) ==
  IF size = 1 THEN "whole"
  ELSE IF k = 1 THEN "initial" ELSE IF k = size THEN "final" ELSE "middle"

\* Mutant: no place is kept for the close.
OverflowsReliable_NoPlaceForClose(s, size, close) ==
  Len(s.channel.outRec) + size > ReliableBuffer

\* bOverflowsReliable; the close has one more place.
OverflowsReliable(s, size, close) ==
  Len(s.channel.outRec) + size >= ReliableBuffer + (IF close THEN 1 ELSE 0)

\* UChannel::SendBunch of a message that takes `size' bunches: one that is followed
\* by another has filled its packet (PrepareWriteBitsToSendBuffer).
SendBunch(s, rel, close, tag, size) ==
  LET c     == s.channel
      parts == [k \in 1..size |->
                  [seq |-> 0, rel |-> rel, part |-> PartOf(k, size),
                   open |-> c.openedLocally /\ ~c.opened /\ k = 1,
                   close |-> close /\ k = size,
                   tag |-> [tag EXCEPT !.k = k, !.of = size]]]
      after[k \in 0..size] ==
        IF k = 0 THEN s
        ELSE PrepBunch(IF k = 1 THEN s ELSE Flushed(after[k - 1]), parts[k])
  IN  IF rel /\ OverflowsReliable(s, size, close)
        THEN [s EXCEPT !.state = "closed"]
        ELSE after[size]

MessageTag(kind, n) ==
  [kind |-> kind, inc |-> incarnation, n |-> n, k |-> 0, of |-> 0, seq |-> 0]

\* An empty bunch for a number of a former channel; it must fit.
Sync(s) ==
  IF Len(s.channel.outRec) >= ReliableBuffer - 1 THEN Error(s)
  ELSE SendBunch(s, TRUE, FALSE, MessageTag("sync", 0), 1)

\* UActorChannel::SetChannelActor: the bunches of a former channel that were
\* never acknowledged are sent again, empty, under their old numbers.
SetChannelActor(s) ==
  IF s.pendingOutRec = 0 THEN s
  ELSE LET size == s.outReliable - s.pendingOutRec + 1
           after[i \in 0..size] ==
             IF i = 0 THEN [s EXCEPT !.outReliable = s.pendingOutRec - 1]
             ELSE Sync(after[i - 1])
       IN  [after[size] EXCEPT !.outReliable = s.outReliable, !.pendingOutRec = 0]

\* Mutant: what was not acknowledged is forgotten.
CleanUp_Forgets(s) == [s EXCEPT !.channel = NoChannel]

\* UChannel::CleanUp.
CleanUp(s) ==
  [s EXCEPT !.pendingOutRec =
              IF s.channel.outRec # <<>> THEN s.channel.outRec[1].bunch.seq ELSE @,
            !.channel = NoChannel]

-----------------------------------------------------------------------------
(* Notifications.                                                          *)

\* The reliable bunches that ReceivedAcks releases: those acknowledged at the
\* front, but the parts of an open only together.
Released(outRec) ==
  LET ackedTo(n) == \A i \in 1..n : outRec[i].acked
      openEnd    == CHOOSE i \in 1..Len(outRec) : outRec[i].bunch.part \in {"whole", "final"}
                      /\ \A j \in 1 .. i - 1 : outRec[j].bunch.part \notin {"whole", "final"}
      front      == CHOOSE n \in 0..Len(outRec) :
                      /\ ackedTo(n)
                      /\ n < Len(outRec) => ~outRec[n + 1].acked
  IN  IF outRec # <<>> /\ outRec[1].bunch.open /\ ~ackedTo(openEnd) THEN 0 ELSE front

\* UChannel::ReceivedAcks; check(!OutRec) when the close was among them.
ReceivedAcks(s) ==
  LET outRec == s.channel.outRec
      n      == Released(outRec)
      rest   == SubSeq(outRec, n + 1, Len(outRec))
      t      == [s EXCEPT !.channel.outRec = rest,
                          !.channel.openAcked = @ \/ (n > 0 /\ outRec[1].bunch.open)]
  IN  IF \E i \in 1..n : outRec[i].bunch.close
        THEN IF rest # <<>> THEN Error(t) ELSE CleanUp(t)
        ELSE t

\* The oldest packet is out of the way: the others move up.
MoveUp(outRec) ==
  [i \in DOMAIN outRec |-> [outRec[i] EXCEPT !.packet = IF @ = 0 THEN 0 ELSE @ - 1]]

\* UNetConnection::ReceivedAck.
ReceivedAck(s) ==
  LET outRec == s.channel.outRec
      marked == [i \in DOMAIN outRec |->
                   IF outRec[i].packet = 1 THEN [outRec[i] EXCEPT !.acked = TRUE]
                   ELSE outRec[i]]
  IN  ReceivedAcks([s EXCEPT !.channel.outRec = MoveUp(marked)])

\* Travelled in the oldest packet, and in no other that was delivered.
Lost(o) == o.packet = 1 /\ ~o.acked

WriteLost(s, outRec) ==
  LET after[i \in 0..Len(outRec)] ==
        IF i = 0 THEN s
        ELSE IF Lost(outRec[i]) THEN WriteBunch(after[i - 1], outRec[i].bunch)
        ELSE after[i - 1]
  IN  after[Len(outRec)]

\* Mutants: the resent bunches stay recorded under the lost packet, or are not sent.
ReceivedNak_OldPacketId(s) ==
  WriteLost([s EXCEPT !.channel.outRec = MoveUp(@)], s.channel.outRec)

ReceivedNak_NoResend(s) == [s EXCEPT !.channel.outRec = MoveUp(@)]

\* UChannel::ReceivedNak: what was in the packet is written into the present one.
ReceivedNak(s) ==
  LET outRec == s.channel.outRec
      moved  == [i \in DOMAIN outRec |->
                   IF Lost(outRec[i]) THEN [outRec[i] EXCEPT !.packet = OutPacketId(s)]
                   ELSE MoveUp(outRec)[i]]
  IN  WriteLost([s EXCEPT !.channel.outRec = moved], outRec)

\* HandlePacketNotification, for the oldest packet.
Notified(s, delivered) ==
  LET t == [s EXCEPT !.unnotified = @ - 1]
  IN  IF s.channel = NoChannel THEN t
      ELSE IF delivered THEN ReceivedAck(t) ELSE ReceivedNak(t)

\* One notification for each fate that a header tells, the oldest first.
AllNotified(s, fates) ==
  LET after[i \in 0..Len(fates)] ==
        IF i = 0 THEN s ELSE Notified(after[i - 1], fates[i])
  IN  after[Len(fates)]

-----------------------------------------------------------------------------
(* Receiving.                                                              *)

BestSignedDifference(value, reference, max) ==
  ((value - reference + max \div 2) % max) - max \div 2

\* Mutant: the upper bits of the last number are taken over.
MakeRelative_SameUpperBits(value, reference, max) ==
  reference - (reference % max) + value

MakeRelative(value, reference, max) ==
  reference + BestSignedDifference(value, reference, max)

\* All the parts of one message, in their order.
WholeMessage(tags) ==
  \A k \in DOMAIN tags :
    tags[k] = [tags[1] EXCEPT !.k = k, !.of = Len(tags), !.seq = tags[k].seq]

\* ReceivedBunch of the game; the opening one gives the client's channel its actor.
ReceivedBunch(s, open, tags) ==
  LET t == [s EXCEPT !.whole = @ /\ WholeMessage(tags),
                     !.fresh = @ /\ tags[1].inc = incarnation,
                     !.got = IF tags[1].kind = "reliable"
                               THEN [inc |-> tags[1].inc, n |-> tags[1].n] ELSE @]
  IN  IF open THEN SetChannelActor(t) ELSE t

\* UChannel::ReceivedSequencedBunch; the ensure is that nothing is queued
\* behind a close.
ReceivedSequencedBunch(s, open, close, tags) ==
  LET t == IF s.channel.closing THEN s ELSE ReceivedBunch(s, open, tags)
  IN  IF ~close THEN t
      ELSE IF s.channel.inRec # <<>> THEN Error(t) ELSE CleanUp(t)

\* The end of ReceivedNextBunch: a whole message is handled, once the channel
\* is open; check(OpenPacketId.First != INDEX_NONE) is that one opened locally has
\* sent its opening bunch by then.
HandleBunch(s, rel, open, close, tags) ==
  LET c == s.channel
      t == IF open THEN [s EXCEPT !.channel.opened = TRUE, !.channel.openAcked = TRUE]
           ELSE s
  IN  IF open /\ (c.openedLocally \/ c.opened) THEN Error(s)
      ELSE IF ~t.channel.openedLocally /\ ~t.channel.openAcked
        THEN IF rel THEN Error(s) ELSE SkipAck(s)
      ELSE IF ~t.channel.opened THEN Error(s)
      ELSE ReceivedSequencedBunch(t, open, close, tags)

\* The first part of a message replaces an unreliable one that was not completed.
StartPartial(s, b) ==
  LET q == s.channel.inPartial
  IN  IF q # NoPartial /\ q.rel /\ ~q.final
        THEN IF b.rel THEN Error(s) ELSE SkipAck(s)
        ELSE [s EXCEPT !.channel.inPartial =
               [rel |-> b.rel, seq |-> b.seq, age |-> 0, final |-> FALSE,
                open |-> b.open, close |-> FALSE, tags |-> <<b.tag>>]]

\* Mutant: whatever part comes next is taken for the one that follows.
Continues_AnySequence(q, b) == q # NoPartial /\ ~q.final /\ q.rel = b.rel

\* A further part: unreliable ones count packets instead of bunches.
Continues(q, b) ==
  /\ q # NoPartial
  /\ ~q.final
  /\ q.rel = b.rel
  /\ IF q.rel THEN b.seq = q.seq + 1 ELSE q.age <= 1

MergePartial(s, b) ==
  LET q    == s.channel.inPartial
      tags == Append(q.tags, b.tag)
      t    == [s EXCEPT !.channel.inPartial =
                 [q EXCEPT !.seq = b.seq, !.age = 0, !.tags = tags,
                           !.final = b.part = "final",
                           !.close = b.part = "final" /\ b.close]]
  IN  IF Continues(q, b)
        THEN IF b.part = "final" THEN HandleBunch(t, q.rel, q.open, b.close, tags) ELSE t
      ELSE IF q # NoPartial /\ q.rel
        THEN IF b.rel THEN Error(s) ELSE SkipAck(s)
      ELSE SkipAck([s EXCEPT !.channel.inPartial = NoPartial])

\* UChannel::ReceivedNextBunch; b.seq is the full sequence number.
ReceivedNextBunch(s, b) ==
  LET t == [s EXCEPT !.inReliable = IF b.rel THEN b.seq ELSE @]
  IN  CASE b.part = "whole"   -> HandleBunch(t, b.rel, b.open, b.close, <<b.tag>>)
        [] b.part = "initial" -> StartPartial(t, b)
        [] OTHER              -> MergePartial(t, b)

\* The bunch waits in InRec for those before it; twice is once.
QueueBunch(s, b) ==
  LET inRec  == s.channel.inRec
      before == CHOOSE n \in 0..Len(inRec) :
                  /\ \A i \in 1..n : inRec[i].seq < b.seq
                  /\ n < Len(inRec) => inRec[n + 1].seq >= b.seq
  IN  IF b.open THEN Error(s)
      ELSE IF before < Len(inRec) /\ inRec[before + 1].seq = b.seq THEN s
      ELSE IF Len(inRec) + 1 >= ReliableBuffer THEN Error(s)
      ELSE [s EXCEPT !.channel.inRec =
              SubSeq(inRec, 1, before) \o <<b>> \o SubSeq(inRec, before + 1, Len(inRec))]

\* Mutant: nothing waits for the bunches before it.
ReceivedRawBunch_AsItComes(s, b) == ReceivedNextBunch(s, b)

\* UChannel::ReceivedRawBunch, but for the bunches it then takes from InRec.
ReceivedRawBunch(s, b) ==
  IF b.rel /\ b.seq # s.inReliable + 1 THEN QueueBunch(s, b) ELSE ReceivedNextBunch(s, b)

\* One turn of the loop over the bunches of a packet: the client creates the
\* channel for whatever reliable bunch comes first, the server never does.
DispatchBunch(e, s, b) ==
  IF b.rel /\ b.seq <= s.inReliable THEN s
  ELSE IF s.channel # NoChannel THEN ReceivedRawBunch(s, b)
  ELSE IF ~b.rel THEN SkipAck(s)
  ELSE IF e = Server THEN s
  ELSE ReceivedRawBunch([s EXCEPT !.channel = NewChannel(FALSE)], b)

-----------------------------------------------------------------------------
(* Actions of the game.                                                    *)

Update(e, s) == conn' = [conn EXCEPT ![e] = s]

\* Room for the message and the packets it fills.
CanWrite(s, size) ==
  /\ Len(s.sendBuffer) < MaxBuffered
  /\ s.unnotified + size - 1 <= MaxInFlight

\* UNetConnection::CreateChannelByName: the index is free once the former
\* channel is gone.  Replication opens channels between packets, a remote
\* function called from the handler of a bunch may do so at once, while the rest
\* of the packet is yet to be processed.
OpenChannel ==
  /\ conn[Server].state = "open"
  /\ conn[Server].channel = NoChannel
  /\ incarnation < MaxIncarnations
  /\ Update(Server, [conn[Server] EXCEPT !.channel = NewChannel(TRUE)])
  /\ incarnation' = incarnation + 1
  /\ sent' = [e \in Side |-> 0]
  /\ loose' = 0
  /\ reused' = (reused \/ conn[Server].receiving.bunches # <<>>)

\* The constructor of FOutBunch refuses when the reliable buffer is full.
SendReliable(e) ==
  LET s == conn[e]
  IN  /\ s.state = "open"
      /\ s.channel # NoChannel
      /\ ~s.channel.closing
      /\ e = Client => s.channel.opened
      /\ Len(s.channel.outRec) < ReliableBuffer - 1
      /\ sent[e] < MaxMessages(e)[incarnation]
      /\ \E size \in Sizes(e) :
           /\ CanWrite(s, size)
           /\ Update(e, SendBunch(s, TRUE, FALSE, MessageTag("reliable", sent[e] + 1), size))
      /\ sent' = [sent EXCEPT ![e] = @ + 1]
      /\ UNCHANGED <<incarnation, loose, reused>>

\* Property updates, on a channel whose first bunch was reliable.
SendUnreliable ==
  LET s == conn[Server]
  IN  /\ s.state = "open"
      /\ s.channel # NoChannel
      /\ s.channel.opened
      /\ ~s.channel.closing
      /\ loose < LooseMessages[incarnation]
      /\ \E size \in ServerSizes :
           /\ CanWrite(s, size)
           /\ Update(Server, SendBunch(s, FALSE, FALSE, MessageTag("unreliable", loose + 1), size))
      /\ loose' = loose + 1
      /\ UNCHANGED <<incarnation, sent, reused>>

\* Mutant: the index is free as soon as the close was written.
CloseChannel_AtOnce ==
  LET s == conn[Server]
  IN  /\ s.state = "open"
      /\ s.channel # NoChannel
      /\ ~s.channel.closing
      /\ CanWrite(s, 1)
      /\ Update(Server, CleanUp(SendBunch(s, TRUE, TRUE,
                                   MessageTag("reliable", sent[Server] + 1), 1)))
      /\ sent' = [sent EXCEPT ![Server] = @ + 1]
      /\ UNCHANGED <<incarnation, loose, reused>>

\* UChannel::Close; check(!CloseBunch.IsError()) is that there is room for it.
CloseChannel ==
  LET s == conn[Server]
  IN  /\ s.state = "open"
      /\ s.channel # NoChannel
      /\ ~s.channel.closing
      /\ CanWrite(s, 1)
      /\ Update(Server,
           IF OverflowsReliable(s, 1, TRUE) THEN Error(s)
           ELSE SendBunch(s, TRUE, TRUE, MessageTag("reliable", sent[Server] + 1), 1))
      /\ sent' = [sent EXCEPT ![Server] = @ + 1]
      /\ UNCHANGED <<incarnation, loose, reused>>

-----------------------------------------------------------------------------
(* Actions of the connection.                                              *)

\* The bound on packets; with one more when both ends have reached it and nothing
\* is under way, where the code would just go on.
MayFlush(e) ==
  \/ conn[e].unnotified < MaxInFlight
  \/ /\ e = Client
     /\ \A p \in Side : /\ conn[p].wire = <<>>
                       /\ ~conn[p].receiving.busy
                       /\ conn[p].unnotified >= MaxInFlight

\* With an empty buffer for the acknowledgements or to keep alive; the latter is
\* left out while nothing waits for an answer.
FlushNet(e) ==
  /\ conn[e].state = "open"
  /\ MayFlush(e)
  /\ conn[e].sendBuffer # <<>> \/ conn[e].fates # <<>> \/ conn[e].unnotified > 0
  /\ Update(e, Flushed(conn[e]))
  /\ UNCHANGED <<incarnation, sent, loose, reused>>

\* Mutant: what a former header told is read again.
DropFates_None(fates, n) == fates

DropFates(fates, n) == SubSeq(fates, n + 1, Len(fates))

\* The first i packets under way of an end are through or lost, and n fates are known
\* that the others tell again.
Passed(s, i, n) ==
  [s EXCEPT !.fates = DropFates(@, n),
            !.wire = [j \in 1 .. Len(s.wire) - i |->
                        [bunches |-> s.wire[i + j].bunches,
                         fates |-> DropFates(s.wire[i + j].fates, n)]]]

Aged(s, packets) ==
  IF s.channel = NoChannel \/ s.channel.inPartial = NoPartial THEN s
  ELSE [s EXCEPT !.channel.inPartial.age = IF @ + packets > 2 THEN 2 ELSE @ + packets]

\* UNetConnection::ReceivedPacket up to its bunches: the i-th packet under way
\* comes, those before it never will.
ReceivedPacket(e, i) ==
  LET p  == Other(e)
      s  == conn[e]
      pk == conn[p].wire[i]
      n  == Len(pk.fates)
      t  == AllNotified(s, pk.fates)
  IN  /\ s.state = "open"
      /\ ~s.receiving.busy
      /\ i \in DOMAIN conn[p].wire
      /\ conn' = [conn EXCEPT
           ![e] = Aged([t EXCEPT !.receiving =
                    [busy |-> TRUE, bunches |-> pk.bunches, lost |-> i - 1,
                     skipAck |-> FALSE]], i),
           ![p] = Passed(@, i, n)]
      /\ UNCHANGED <<incarnation, sent, loose, reused>>

\* There is a bunch in InRec whose turn has come.
QueueReady(s) ==
  /\ s.channel # NoChannel
  /\ s.channel.inRec # <<>>
  /\ s.channel.inRec[1].seq = s.inReliable + 1

\* Dispatch of a waiting bunch: its packet has long been acknowledged, so it
\* must not ask to skip that.
DispatchQueued(e) ==
  LET s == conn[e]
      t == ReceivedNextBunch([s EXCEPT !.channel.inRec = Tail(@)], s.channel.inRec[1])
  IN  /\ s.state = "open"
      /\ s.receiving.busy
      /\ QueueReady(s)
      /\ Update(e, IF t.receiving.skipAck /\ ~s.receiving.skipAck THEN Error(t) ELSE t)
      /\ UNCHANGED <<incarnation, sent, loose, reused>>

ReceivedPacketBunch(e) ==
  LET s == conn[e]
      b == s.receiving.bunches[1]
  IN  /\ s.state = "open"
      /\ s.receiving.bunches # <<>>
      /\ ~QueueReady(s)
      /\ Update(e, DispatchBunch(e, [s EXCEPT !.receiving.bunches = Tail(@)],
           [b EXCEPT !.seq = IF b.rel THEN MakeRelative(@, s.inReliable, MaxChSequence)
                             ELSE 0]))
      /\ UNCHANGED <<incarnation, sent, loose, reused>>

\* The end of ReceivedPacket: AckSeq or NakSeq, after the lost ones before it.
AcknowledgePacket(e) ==
  LET s == conn[e]
  IN  /\ s.state = "open"
      /\ s.receiving.busy
      /\ s.receiving.bunches = <<>>
      /\ ~QueueReady(s)
      /\ Update(e, [s EXCEPT
           !.fates = @ \o [i \in 1..s.receiving.lost |-> FALSE]
                       \o <<~s.receiving.skipAck>>,
           !.receiving = NotReceiving])
      /\ UNCHANGED <<incarnation, sent, loose, reused>>

Game ==
  \/ OpenChannel
  \/ SendUnreliable
  \/ CloseChannel
  \/ \E e \in Side : SendReliable(e)

Network ==
  \E e \in Side :
    \/ FlushNet(e)
    \/ \E i \in 1..MaxInFlight : ReceivedPacket(e, i)
    \/ DispatchQueued(e)
    \/ ReceivedPacketBunch(e)
    \/ AcknowledgePacket(e)

Next == Game \/ Network

Spec == Init /\ [][Next]_vars

\* In the end no packet is lost any more.
LossEnds == <>[][\A e \in Side, i \in 2..MaxInFlight : ~ReceivedPacket(e, i)]_vars

\* The driver ticks both ends for ever: each works through what it received, takes
\* the next packet that came, and flushes.  The game need not do anything.
FairSpec ==
  /\ Spec
  /\ \A e \in Side :
       /\ WF_vars(FlushNet(e))
       /\ WF_vars(\E i \in 1..MaxInFlight : ReceivedPacket(e, i))
       /\ WF_vars(DispatchQueued(e) \/ ReceivedPacketBunch(e) \/ AcknowledgePacket(e))
  /\ LossEnds

-----------------------------------------------------------------------------
(* Properties.                                                             *)

Errorless == \A e \in Side : conn[e].state # "error"

\* No legal use of a channel gets an end into a state the code does not expect:
\* a part that does not continue the message before it, a queued opening bunch,
\* a full InRec, bunches queued behind a close or left in OutRec when the close
\* is acknowledged, data before the opening (SetError, check and ensure of
\* DataChannel.cpp).  This is claimed as long as no channel was opened in the
\* middle of a packet, whose other bunches are for the former channel.
NoBunchError == reused \/ Errorless

\* A bunch is kept until its peer has it: whatever OutRec holds as acknowledged,
\* and whatever it no longer holds, the peer has processed or keeps in InRec.
AckedMeansLetIn ==
  \A e \in Side :
    LET s == conn[e]
        p == conn[Other(e)]
        Has(seq) == \/ seq <= p.inReliable
                    \/ /\ p.channel # NoChannel
                       /\ \E i \in DOMAIN p.channel.inRec : p.channel.inRec[i].seq = seq
        Kept == IF s.channel = NoChannel THEN <<>> ELSE s.channel.outRec
        first == IF s.pendingOutRec # 0 THEN s.pendingOutRec
                 ELSE IF Kept # <<>> THEN Kept[1].bunch.seq ELSE s.outReliable + 1
    IN  /\ \A seq \in FirstSequence + 1 .. first - 1 : Has(seq)
        /\ \A i \in DOMAIN Kept : Kept[i].acked => Has(Kept[i].bunch.seq)

\* The few bits of a sequence number on the wire are enough: what a packet brings
\* is taken for the number it was sent with, however long it was delayed.
SequencesAgree ==
  \A e \in Side : \A i \in DOMAIN conn[e].receiving.bunches :
    LET b == conn[e].receiving.bunches[i]
    IN  b.rel => MakeRelative(b.seq, conn[e].inReliable, MaxChSequence) = b.tag.seq

\* Whatever is lost or sent again, the game is handed whole messages: all the parts
\* of one, in their order, and of no other.
HandedWhole == \A e \in Side : conn[e].whole

\* What was sent through a channel never reaches an actor that uses its number
\* later: "in-flight data when server is closing a channel" is ignored
\* (NetConnection.cpp:2602).
NeverStale == \A e \in Side : conn[e].fresh

\* It does so only if the server opened the number again while bunches of a
\* packet that it had begun to process were left: acknowledging the close means
\* that nothing older is under way.
StaleOnlyIfReused == reused \/ NeverStale

\* What the game sees is an actor channel with no packets at all, as long as no
\* channel is opened in the middle of a packet.
Service == INSTANCE ChannelService WITH
  phase  <- LET c == conn[Server].channel
            IN  IF c = NoChannel THEN "free" ELSE IF c.closing THEN "closing" ELSE "open",
  joined <- conn[Client].channel # NoChannel /\ conn[Client].channel.openAcked,
  got    <- [e \in Side |-> conn[e].got],
  void   <- reused

ImplementsChannelService == Service!Spec

\* Once packets get through, a channel that the server closes is done with on both
\* sides: the close reaches the client behind all that was sent before, and its
\* acknowledgement frees the channel number.
ClosingIsFreed ==
  (conn[Server].channel # NoChannel /\ conn[Server].channel.closing)
    ~> (conn[Server].channel = NoChannel \/ conn[Server].state # "open")

\* Once packets get through and while the game pauses, what the server sent
\* reliably has arrived, behind any number of losses and resends.
MessagesArrive ==
  []<>(\/ conn[Server].state # "open"
       \/ sent[Server] = 0
       \/ conn[Client].got = [inc |-> incarnation, n |-> sent[Server]])
=============================================================================
