---------------------------- MODULE PacketNotify ----------------------------
(***************************************************************************)
(* FNetPacketNotify (Engine/Public/Net/NetPacketNotify.h and               *)
(* Engine/Private/Net/NetPacketNotify.cpp): one endpoint's sequence        *)
(* numbers and acknowledgements.  The object is a record, its methods are  *)
(* operators on that record; Connection.tla calls them.                    *)
(***************************************************************************)
EXTENDS SequenceNumber, SequenceHistory, Sequences

SentAckData == [outSeq : SeqNumber, inAckSeq : SeqNumber]

PacketNotifyState ==
  [ackRecord               : Seq(SentAckData),
   writtenHistoryWordCount : 0 .. WordCount,
   writtenInAckSeq         : SeqNumber,
   inSeqHistory            : History,
   inSeq                   : SeqNumber,
   inAckSeq                : SeqNumber,
   inAckSeqAck             : SeqNumber,
   outSeq                  : SeqNumber,
   outAckSeq               : SeqNumber]

\* FNotificationHeader.  The number of history words needs no field of its own:
\* the words that were not sent read as zeroes.
NotificationHeader == [seq : SeqNumber, ackedSeq : SeqNumber, history : History]

\* The constructor followed by Init.
InitPacketNotify(initialIn, initialOut) ==
  [ackRecord               |-> << >>,
   writtenHistoryWordCount |-> 0,
   writtenInAckSeq         |-> 0,
   inSeqHistory            |-> NoHistory,
   inSeq                   |-> SeqOf(initialIn),
   inAckSeq                |-> SeqOf(initialIn),
   inAckSeqAck             |-> SeqOf(initialIn),
   outSeq                  |-> SeqOf(initialOut),
   outAckSeq               |-> SeqOf(SeqOf(initialOut) - 1)]

-----------------------------------------------------------------------------
(* Writing a header.                                                       *)

SequenceHistoryLength(n) ==
  IF Ge(n.inAckSeq, n.inAckSeqAck) THEN Diff(n.inAckSeq, n.inAckSeqAck) ELSE HistorySize

\* Mutant: no upper limit.
CurrentHistoryWordCount_Unlimited(n) ==
  LET words == (SequenceHistoryLength(n) + BitsPerWord - 1) \div BitsPerWord
  IN  IF words < 1 THEN 1 ELSE words

\* The words that hold the history the other side may not know yet: at least one.
CurrentHistoryWordCount(n) ==
  LET words == (SequenceHistoryLength(n) + BitsPerWord - 1) \div BitsPerWord
  IN  IF words < 1 THEN 1 ELSE IF words > WordCount THEN WordCount ELSE words

\* Mutant: any header is refreshed.
CanRefresh_Always(n) == TRUE

\* WriteHeader refuses to refresh a header that has become too short.
CanRefresh(n) == CurrentHistoryWordCount(n) <= n.writtenHistoryWordCount

\* WriteHeader: the bookkeeping, and the header written.
WriteHeader(n, words) ==
  [n EXCEPT !.writtenHistoryWordCount = words, !.writtenInAckSeq = n.inAckSeq]

HeaderOf(n, words) ==
  [seq |-> n.outSeq, ackedSeq |-> n.inAckSeq, history |-> WriteRead(n.inSeqHistory, words)]

CommitAndIncrementOutSeq(n) ==
  [n EXCEPT !.ackRecord = Append(@, [outSeq |-> n.outSeq, inAckSeq |-> n.writtenInAckSeq]),
            !.writtenHistoryWordCount = 0,
            !.outSeq = Inc(@)]

\* More packets than this in flight and the receiver cannot tell a wrap-around.
CanSend(n) == Ge(Inc(n.outSeq), n.outAckSeq)

-----------------------------------------------------------------------------
(* Receiving a header.                                                     *)

GetSequenceDelta(n, h) ==
  IF Gt(h.seq, n.inSeq) /\ Ge(h.ackedSeq, n.outAckSeq) /\ Gt(n.outSeq, h.ackedSeq)
    THEN Diff(h.seq, n.inSeq)
    ELSE 0

\* The number of packets the header acknowledges.
AckCount(n, h) ==
  IF Gt(h.ackedSeq, n.outAckSeq) THEN Diff(h.ackedSeq, n.outAckSeq) ELSE 0

\* The condition under which UpdateInAckSeqAck finds its record; otherwise its
\* ensure fires.
AckRecordFound(n, h) ==
  LET count == AckCount(n, h)
  IN  count <= Len(n.ackRecord) /\ n.ackRecord[count].outSeq = h.ackedSeq

\* Mutant: the record of the acknowledged packet is peeked at and left there.
UpdateInAckSeqAck_LeavesLast(n, h) ==
  LET count == AckCount(n, h)
  IN  [n EXCEPT
        !.ackRecord = IF count <= Len(@) THEN SubSeq(@, count, Len(@)) ELSE @,
        !.inAckSeqAck = IF AckRecordFound(n, h)
                          THEN n.ackRecord[count].inAckSeq
                          ELSE SeqOf(h.ackedSeq - HistorySize)]

\* UpdateInAckSeqAck: pop the records up to the acknowledged packet, and learn
\* from its record how far the other side has heard our acknowledgements.
UpdateInAckSeqAck(n, h) ==
  LET count == AckCount(n, h)
  IN  [n EXCEPT
        !.ackRecord = IF count <= Len(@) THEN SubSeq(@, count + 1, Len(@)) ELSE @,
        !.inAckSeqAck = IF AckRecordFound(n, h)
                          THEN n.ackRecord[count].inAckSeq
                          ELSE SeqOf(h.ackedSeq - HistorySize)]

\* Mutant: off by one.
IsDelivered_OffByOne(h, count) == count < HistorySize /\ h.history[count]

\* ProcessReceivedAcks: the fate of the packet that is `count' packets before
\* the end.  What lies beyond the history is taken for lost.
IsDelivered(h, count) == count <= HistorySize /\ h.history[count - 1]

\* Mutants: one of the two is forgotten.
AcceptSequence_KeepsOutAckSeq(n, h) == [n EXCEPT !.inSeq = h.seq]
AcceptSequence_KeepsInSeq(n, h) == [n EXCEPT !.outAckSeq = h.ackedSeq]

\* The end of ProcessReceivedAcks and of Update.
AcceptSequence(n, h) == [n EXCEPT !.outAckSeq = h.ackedSeq, !.inSeq = h.seq]

\* AckSeq and NakSeq: sequence numbers that were skipped count as lost.
AckSeq(n, seq, isAck) ==
  IF Gt(seq, n.inAckSeq)
    THEN [n EXCEPT !.inAckSeq = seq,
                   !.inSeqHistory = AddDeliveryStatus(@, Diff(seq, n.inAckSeq), isAck)]
    ELSE n
=============================================================================
