--------------------- MODULE ChannelAgreement_proofs --------------------------
(***************************************************************************)
(* The two ends of an actor channel agree on every number, record, packet  *)
(* under way and queued bunch: what each sends is a Line to the other, and *)
(* they take turns in opening and closing the channel (Agree). They agree  *)
(* on the parts of every message too: what is numbered are the parts of    *)
(* whole messages, and the one being read goes on with the next (Parts).   *)
(* Every step keeps both and errs nowhere (Agreement), but for a server    *)
(* that opens the channel before bunches that have come are processed      *)
(* (reused).  The theorems at the end rest on that.                        *)
(***************************************************************************)
EXTENDS ReliableChannel_proofs

-----------------------------------------------------------------------------
(* How the channel is opened and closed.                                   *)

Joined(cl) == cl.channel # NoChannel /\ cl.channel.openAcked

Closing(sv) == sv.channel # NoChannel /\ sv.channel.closing

\* The client is through with the channel, the server not yet.
Left(sv, cl) == cl.channel = NoChannel /\ Closing(sv) /\ cl.inReliable = sv.outReliable

Joining(sv, cl) == sv.channel # NoChannel /\ ~Joined(cl) /\ ~Left(sv, cl)

ServerTurn(sv, cl) ==
  /\ sv.pendingOutRec = 0
  /\ sv.channel = NoChannel => cl.channel = NoChannel /\ SilentAfter(cl, 0)
  /\ sv.channel # NoChannel => sv.channel.openedLocally

\* The close is the last bunch that the server numbers, and the end of the client's
\* channel.
CloseTurn(sv, cl, hs) ==
  /\ Closing(sv) => /\ Low(sv) <= sv.outReliable /\ hs[sv.outReliable].close
                    /\ cl.inReliable = sv.outReliable => cl.channel = NoChannel
  /\ \A q \in Low(sv) .. sv.outReliable : hs[q].close => q = sv.outReliable /\ Closing(sv)

ClientTurn(cl, hc) ==
  /\ \A q \in Low(cl) .. cl.outReliable : ~hc[q].close /\ ~hc[q].open
  /\ cl.channel # NoChannel =>
       /\ ~cl.channel.openedLocally /\ ~cl.channel.closing
       /\ cl.channel.opened = cl.channel.openAcked
  /\ Joined(cl) => cl.pendingOutRec = 0

\* The client says nothing before it has joined, ...
JoinTurn(sv, cl) ==
  Joining(sv, cl) => /\ SilentAfter(cl, 0) /\ sv.receiving.bunches = <<>>
                     /\ Queue(sv) = <<>> /\ Records(cl) = <<>>

\* ... and nothing any more once the server may know that it has left.
LeaveTurn(sv, cl) ==
  Left(sv, cl) =>
    \A i \in DOMAIN cl.wire : TellsAll(Records(sv), cl.wire[i].fates) => SilentAfter(cl, i)

Turns(sv, cl, hs, hc) ==
  /\ ServerTurn(sv, cl) /\ CloseTurn(sv, cl, hs) /\ ClientTurn(cl, hc)
  /\ JoinTurn(sv, cl) /\ LeaveTurn(sv, cl)

\* The ends agree, for some history.
Agree(sv, cl, hs, hc) ==
  /\ hs \in History /\ hc \in History
  /\ Line(sv, cl, hs) /\ Line(cl, sv, hc) /\ Turns(sv, cl, hs, hc)

-----------------------------------------------------------------------------
(* Steps that leave the opening and the closing of the channel alone.      *)

\* What Turns says about a server.
ServerSame(s, t) ==
  /\ t.pendingOutRec = s.pendingOutRec /\ t.outReliable = s.outReliable /\ Low(t) = Low(s)
  /\ t.channel = NoChannel <=> s.channel = NoChannel
  /\ s.channel # NoChannel => /\ t.channel.openedLocally = s.channel.openedLocally
                              /\ t.channel.closing = s.channel.closing
  /\ s.receiving.bunches = <<>> /\ Queue(s) = <<>>
       => t.receiving.bunches = <<>> /\ Queue(t) = <<>>
  /\ Records(t) = Records(s)

\* A client that was silent stays so.
Silences(c, d) ==
  /\ SilentAfter(c, 0) => SilentAfter(d, 0)
  /\ \A i \in DOMAIN d.wire :
       \/ /\ i \in DOMAIN c.wire /\ d.wire[i].fates = c.wire[i].fates
          /\ SilentAfter(c, i) => SilentAfter(d, i)
       \/ SilentAfter(d, i)

\* What it says about a client.
ClientSame(c, d) ==
  /\ d.outReliable = c.outReliable /\ Low(d) >= Low(c) /\ d.inReliable = c.inReliable
  /\ d.pendingOutRec = c.pendingOutRec
  /\ d.channel = NoChannel <=> c.channel = NoChannel
  /\ c.channel # NoChannel => /\ d.channel.openedLocally = c.channel.openedLocally
                              /\ d.channel.closing = c.channel.closing
                              /\ d.channel.opened = c.channel.opened
                              /\ d.channel.openAcked = c.channel.openAcked
  /\ Records(c) = <<>> => Records(d) = <<>> /\ Silences(c, d)

LEMMA ServerRefl ==
  ASSUME NEW s PROVE ServerSame(s, s)
BY DEF ServerSame

LEMMA TurnsSame ==
  ASSUME NEW sv \in End, NEW cl \in End, NEW hs, NEW hc, Turns(sv, cl, hs, hc),
         NEW sw \in End, ServerSame(sv, sw), NEW cm \in End, ClientSame(cl, cm)
  PROVE  Turns(sw, cm, hs, hc)
<1>1. /\ sw.pendingOutRec = sv.pendingOutRec /\ sw.outReliable = sv.outReliable
      /\ Low(sw) = Low(sv)
      /\ sw.channel = NoChannel <=> sv.channel = NoChannel
      /\ sv.channel # NoChannel => /\ sw.channel.openedLocally = sv.channel.openedLocally
                                   /\ sw.channel.closing = sv.channel.closing
      /\ sv.receiving.bunches = <<>> /\ Queue(sv) = <<>>
           => sw.receiving.bunches = <<>> /\ Queue(sw) = <<>>
      /\ Records(sw) = Records(sv)
  BY DEF ServerSame
<1>2. /\ cm.outReliable = cl.outReliable /\ Low(cm) >= Low(cl) /\ cm.inReliable = cl.inReliable
      /\ cm.pendingOutRec = cl.pendingOutRec
      /\ cm.channel = NoChannel <=> cl.channel = NoChannel
      /\ cl.channel # NoChannel => /\ cm.channel.openedLocally = cl.channel.openedLocally
                                   /\ cm.channel.closing = cl.channel.closing
                                   /\ cm.channel.opened = cl.channel.opened
                                   /\ cm.channel.openAcked = cl.channel.openAcked
      /\ Records(cl) = <<>> => Records(cm) = <<>> /\ Silences(cl, cm)
  BY DEF ClientSame
<1>3. (Joined(cm) <=> Joined(cl)) /\ (Closing(sw) <=> Closing(sv))
  BY <1>1, <1>2 DEF Joined, Closing
<1>4. Left(sw, cm) <=> Left(sv, cl)
  BY <1>1, <1>2, <1>3 DEF Left
<1>5. Joining(sw, cm) <=> Joining(sv, cl)
  BY <1>1, <1>3, <1>4 DEF Joining
<1>6. cl.channel = NoChannel => Records(cl) = <<>>
  BY DEF Records
<1>7. ServerTurn(sw, cm)
  <2>1. ServerTurn(sv, cl)
    BY DEF Turns
  <2>2. sw.channel = NoChannel => cm.channel = NoChannel /\ SilentAfter(cm, 0)
    BY <1>1, <1>2, <1>6, <2>1 DEF ServerTurn, Silences
  <2>3. sw.pendingOutRec = 0
    BY <1>1, <2>1 DEF ServerTurn
  <2>4. sw.channel # NoChannel => sw.channel.openedLocally
    BY <1>1, <2>1 DEF ServerTurn
  <2> QED
    BY <2>2, <2>3, <2>4 DEF ServerTurn
<1>8. CloseTurn(sw, cm, hs)
  <2>1. CloseTurn(sv, cl, hs)
    BY DEF Turns
  <2> QED
    BY <1>1, <1>2, <1>3, <2>1 DEF CloseTurn
<1>9. ClientTurn(cm, hc)
  <2>1. ClientTurn(cl, hc)
    BY DEF Turns
  <2>2. PICK L \in Int, M \in Int, O \in Nat : L = Low(cl) /\ M = Low(cm) /\ O = cl.outReliable /\ M >= L
    BY <1>2, EndTypes, Lengths
  <2>3. \A q \in M .. O : q \in L .. O
    BY <2>2
  <2>4. \A q \in Low(cm) .. cm.outReliable : ~hc[q].close /\ ~hc[q].open
    BY <1>2, <2>1, <2>2, <2>3 DEF ClientTurn
  <2>5. cm.channel # NoChannel =>
          /\ ~cm.channel.openedLocally /\ ~cm.channel.closing
          /\ cm.channel.opened = cm.channel.openAcked
    BY <1>2, <2>1 DEF ClientTurn
  <2>6. Joined(cm) => cm.pendingOutRec = 0
    BY <1>2, <1>3, <2>1 DEF ClientTurn
  <2> QED
    BY <2>4, <2>5, <2>6 DEF ClientTurn
<1>10. JoinTurn(sw, cm)
  <2>1. JoinTurn(sv, cl)
    BY DEF Turns
  <2> QED
    BY <1>1, <1>2, <1>5, <2>1 DEF JoinTurn, Silences
<1>11. LeaveTurn(sw, cm)
  <2>1. LeaveTurn(sv, cl)
    BY DEF Turns
  <2> SUFFICES ASSUME Left(sw, cm), NEW i \in DOMAIN cm.wire,
                      TellsAll(Records(sw), cm.wire[i].fates)
               PROVE  SilentAfter(cm, i)
    BY DEF LeaveTurn
  <2>2. Left(sv, cl) /\ Records(cl) = <<>>
    BY <1>4, <1>6 DEF Left
  <2>3. Silences(cl, cm)
    BY <1>2, <2>2
  <2>4. CASE i \in DOMAIN cl.wire /\ cm.wire[i].fates = cl.wire[i].fates
             /\ (SilentAfter(cl, i) => SilentAfter(cm, i))
    BY <1>1, <2>1, <2>2, <2>4 DEF LeaveTurn
  <2>5. CASE SilentAfter(cm, i)
    BY <2>5
  <2> QED
    BY <2>3, <2>4, <2>5 DEF Silences
<1> QED
  BY <1>7, <1>8, <1>9, <1>10, <1>11 DEF Turns

LEMMA SilencesSame ==
  ASSUME NEW c, NEW d, d.wire = c.wire, d.sendBuffer = c.sendBuffer
  PROVE  Silences(c, d)
BY DEF Silences, SilentAfter

LEMMA ClientRefl ==
  ASSUME NEW c \in End PROVE ClientSame(c, c)
<1>1. Silences(c, c)
  BY SilencesSame
<1>2. Low(c) >= Low(c)
  BY Lengths
<1> QED
  BY <1>1, <1>2 DEF ClientSame

\* A new packet comes behind the silent ones.
LEMMA SilencesFlushed ==
  ASSUME NEW c \in End, NEW d, d = Flushed(c)
  PROVE  Silences(c, d)
<1>1. /\ d \in End /\ d.wire = Append(c.wire, [bunches |-> c.sendBuffer, fates |-> c.fates])
      /\ d.sendBuffer = <<>>
  BY FlushedType
<1>2. PICK l \in Nat : l = Len(c.wire) /\ DOMAIN c.wire = 1 .. l
  BY Lengths
<1>3. PICK w \in Seq(Packet) : w = c.wire
  BY EndTypes
<1>4. /\ DOMAIN d.wire = 1 .. l + 1
      /\ \A i \in 1 .. l : d.wire[i] = c.wire[i]
      /\ d.wire[l + 1].bunches = c.sendBuffer
  <2>1. PICK v \in Seq(Packet) : v = d.wire
    BY <1>1, EndTypes
  <2>2. PICK p : p = [bunches |-> c.sendBuffer, fates |-> c.fates]
    OBVIOUS
  <2>3. v = Append(w, p) /\ Len(w) = l
    BY <1>1, <1>2, <1>3, <2>1, <2>2
  <2>4. Len(v) = l + 1 /\ (\A i \in 1 .. l : v[i] = w[i]) /\ v[l + 1] = p
    BY <2>3
  <2>5. DOMAIN v = 1 .. l + 1
    BY <2>4
  <2> QED
    BY <1>3, <2>1, <2>2, <2>4, <2>5
<1>5. ASSUME NEW i \in 0 .. l, SilentAfter(c, i) PROVE SilentAfter(d, i)
  <2>1. c.sendBuffer = <<>> /\ \A j \in 1 .. l : j > i => c.wire[j].bunches = <<>>
    BY <1>2, <1>5 DEF SilentAfter
  <2>2. ASSUME NEW j \in 1 .. l + 1, j > i PROVE d.wire[j].bunches = <<>>
    <3>1. CASE j = l + 1
      BY <1>4, <2>1, <3>1
    <3>2. CASE j # l + 1
      <4>1. j \in 1 .. l
        BY <3>2
      <4> QED
        BY <1>4, <2>1, <2>2, <4>1
    <3> QED
      BY <3>1, <3>2
  <2> QED
    BY <1>1, <1>4, <2>2 DEF SilentAfter
<1>6. SilentAfter(d, l + 1)
  <2>1. ASSUME NEW j \in 1 .. l + 1 PROVE ~(j > l + 1)
    OBVIOUS
  <2> QED
    BY <1>1, <1>4, <2>1 DEF SilentAfter
<1>7. SilentAfter(c, 0) => SilentAfter(d, 0)
  BY <1>5
<1>8. ASSUME NEW i \in DOMAIN d.wire
      PROVE  \/ /\ i \in DOMAIN c.wire /\ d.wire[i].fates = c.wire[i].fates
                /\ SilentAfter(c, i) => SilentAfter(d, i)
             \/ SilentAfter(d, i)
  <2>1. CASE i = l + 1
    BY <1>6, <2>1
  <2>2. CASE i # l + 1
    <3>1. i \in 1 .. l /\ i \in 0 .. l
      BY <1>4, <2>2
    <3> QED
      BY <1>2, <1>4, <1>5, <3>1
  <2> QED
    BY <2>1, <2>2
<1> QED
  BY <1>7, <1>8 DEF Silences
-----------------------------------------------------------------------------
(* The agreement, step by step: the game.                                  *)

LEMMA AgreeParts ==
  ASSUME NEW sv, NEW cl, NEW hs, NEW hc, Agree(sv, cl, hs, hc)
  PROVE  /\ hs \in History /\ hc \in History
         /\ Line(sv, cl, hs) /\ Line(cl, sv, hc)
         /\ Turns(sv, cl, hs, hc) /\ ServerTurn(sv, cl) /\ CloseTurn(sv, cl, hs)
         /\ ClientTurn(cl, hc) /\ JoinTurn(sv, cl) /\ LeaveTurn(sv, cl)
         /\ Room(sv) /\ Room(cl) /\ Accounted(sv, cl) /\ Accounted(cl, sv)
         /\ Numbered(sv, cl, hs) /\ Numbered(cl, sv, hc)
BY DEF Agree, Turns, Line

LEMMA SenderRefl ==
  ASSUME NEW s \in End PROVE SameSender(s, s)
BY DEF SameSender

LEMMA ReceiverRefl ==
  ASSUME NEW s \in End PROVE SameReceiver(s, s)
BY DEF SameReceiver

LEMMA AgreeFrame ==
  ASSUME NEW sv \in End, NEW cl \in End, NEW hs, NEW hc, Agree(sv, cl, hs, hc),
         NEW sw, SameSender(sv, sw), SameReceiver(sv, sw), ServerSame(sv, sw), Room(sw),
         NEW cm, SameSender(cl, cm), SameReceiver(cl, cm), ClientSame(cl, cm), Room(cm)
  PROVE  Agree(sw, cm, hs, hc)
<1>1. /\ hs \in History /\ hc \in History
      /\ Line(sv, cl, hs) /\ Line(cl, sv, hc) /\ Turns(sv, cl, hs, hc)
  BY AgreeParts
<1>2. sw \in End /\ cm \in End
  BY DEF SameSender
<1>3. Line(sw, cm, hs) /\ Line(cm, sw, hc)
  BY <1>1, LineFrame
<1>4. Turns(sw, cm, hs, hc)
  BY <1>1, <1>2, TurnsSame
<1> QED
  BY <1>1, <1>3, <1>4 DEF Agree

\* Nothing changes but the state of the connection.
LEMMA AgreeState ==
  ASSUME NEW sv \in End, NEW cl \in End, NEW hs, NEW hc, Agree(sv, cl, hs, hc),
         NEW x \in {"open", "closed", "error"}
  PROVE  /\ Agree([sv EXCEPT !.state = x], cl, hs, hc)
         /\ Agree(sv, [cl EXCEPT !.state = x], hs, hc)
<1>0. Room(sv) /\ Room(cl)
  BY AgreeParts
<1>1. ASSUME NEW s \in End, Room(s), NEW t, t = [s EXCEPT !.state = x]
      PROVE  /\ SameSender(s, t) /\ SameReceiver(s, t) /\ ServerSame(s, t) /\ ClientSame(s, t)
             /\ Room(t)
  <2>1. /\ t \in End
        /\ t.wire = s.wire /\ t.sendBuffer = s.sendBuffer /\ t.unnotified = s.unnotified
        /\ t.channel = s.channel /\ t.outReliable = s.outReliable
        /\ t.inReliable = s.inReliable /\ t.pendingOutRec = s.pendingOutRec
        /\ t.fates = s.fates /\ t.receiving = s.receiving
    BY <1>1, ErrorType
  <2>2. Records(t) = Records(s) /\ Queue(t) = Queue(s) /\ Low(t) = Low(s)
    BY <2>1 DEF Records, Queue, Low
  <2>3. Low(t) >= Low(s)
    BY <2>2, Lengths
  <2>4. SameSender(s, t)
    BY <2>1, <2>2 DEF SameSender
  <2>5. SameReceiver(s, t)
    BY <2>1, <2>2 DEF SameReceiver
  <2>6. ServerSame(s, t)
    BY <2>1, <2>2 DEF ServerSame
  <2>7. Silences(s, t)
    BY <2>1, SilencesSame
  <2>8. ClientSame(s, t)
    BY <2>1, <2>2, <2>3, <2>7 DEF ClientSame
  <2>9. Room(t)
    BY <1>1, <2>1, <2>4, RoomSame
  <2> QED
    BY <2>4, <2>5, <2>6, <2>8, <2>9
<1>2. SameSender(sv, sv) /\ SameReceiver(sv, sv) /\ ServerSame(sv, sv)
  BY SenderRefl, ReceiverRefl, ServerRefl
<1>3. SameSender(cl, cl) /\ SameReceiver(cl, cl) /\ ClientSame(cl, cl)
  BY SenderRefl, ReceiverRefl, ClientRefl
<1>4. PICK sw : sw = [sv EXCEPT !.state = x]
  OBVIOUS
<1>5. PICK cm : cm = [cl EXCEPT !.state = x]
  OBVIOUS
<1>6. Agree(sw, cl, hs, hc)
  <2>1. /\ SameSender(sv, sw) /\ SameReceiver(sv, sw) /\ ServerSame(sv, sw) /\ Room(sw)
    BY <1>0, <1>1, <1>4
  <2> QED
    BY <1>0, <1>3, <2>1, AgreeFrame
<1>7. Agree(sv, cm, hs, hc)
  <2>1. SameSender(cl, cm) /\ SameReceiver(cl, cm) /\ ClientSame(cl, cm) /\ Room(cm)
    BY <1>0, <1>1, <1>5
  <2> QED
    BY <1>0, <1>2, <2>1, AgreeFrame
<1> QED
  BY <1>4, <1>5, <1>6, <1>7

\* FlushNet.
LEMMA FlushedSame ==
  ASSUME NEW s \in End, NEW t, t = Flushed(s)
  PROVE  SameReceiver(s, t) /\ ServerSame(s, t) /\ ClientSame(s, t)
<1>1. /\ t \in End
      /\ t.channel = s.channel /\ t.outReliable = s.outReliable
      /\ t.inReliable = s.inReliable /\ t.pendingOutRec = s.pendingOutRec
      /\ t.fates = s.fates /\ t.receiving = s.receiving
  BY FlushedType
<1>2. Records(t) = Records(s) /\ Queue(t) = Queue(s) /\ Low(t) = Low(s)
  BY <1>1 DEF Records, Queue, Low
<1>3. Low(t) >= Low(s)
  BY <1>2, Lengths
<1>4. SameReceiver(s, t)
  BY <1>1, <1>2 DEF SameReceiver
<1>5. ServerSame(s, t)
  BY <1>1, <1>2 DEF ServerSame
<1>6. Silences(s, t)
  BY SilencesFlushed
<1>7. ClientSame(s, t)
  BY <1>1, <1>2, <1>3, <1>6 DEF ClientSame
<1> QED
  BY <1>4, <1>5, <1>7

LEMMA AgreeFlushed ==
  ASSUME NEW sv \in End, NEW cl \in End, NEW hs, NEW hc, Agree(sv, cl, hs, hc)
  PROVE  Agree(Flushed(sv), cl, hs, hc) /\ Agree(sv, Flushed(cl), hs, hc)
<1>1. /\ hs \in History /\ hc \in History
      /\ Line(sv, cl, hs) /\ Line(cl, sv, hc) /\ Turns(sv, cl, hs, hc) /\ Room(sv) /\ Room(cl)
  BY AgreeParts
<1>2. PICK sw : sw = Flushed(sv)
  OBVIOUS
<1>3. PICK cm : cm = Flushed(cl)
  OBVIOUS
<1>4. SameReceiver(sv, sw) /\ ServerSame(sv, sw) /\ SameReceiver(cl, cm) /\ ClientSame(cl, cm)
  BY <1>2, <1>3, FlushedSame
<1>5. sw \in End /\ cm \in End
  BY <1>4 DEF SameReceiver
<1>6. Line(sw, cl, hs) /\ Line(cm, sv, hc)
  BY <1>1, <1>2, <1>3, LineFlushed
<1>7. Line(cl, sw, hc) /\ Line(sv, cm, hs)
  BY <1>1, <1>4, SenderRefl, LineFrame
<1>8. Turns(sw, cl, hs, hc)
  BY <1>1, <1>4, <1>5, ClientRefl, TurnsSame
<1>9. Turns(sv, cm, hs, hc)
  BY <1>1, <1>4, <1>5, ServerRefl, TurnsSame
<1>10. Agree(sw, cl, hs, hc) /\ Agree(sv, cm, hs, hc)
  BY <1>1, <1>6, <1>7, <1>8, <1>9 DEF Agree
<1> QED
  BY <1>2, <1>3, <1>10
LEMMA SendingReceiver ==
  ASSUME NEW s \in End, NEW rel, NEW close, NEW size, NEW k, NEW x, Sending(s, rel, close, size, k, x)
  PROVE  SameReceiver(s, x)
BY DEF Sending, SameReceiver

\* The server sends a message.
LEMMA AgreeServerSends ==
  ASSUME NEW sv \in End, NEW cl \in End, NEW hs, NEW hc, Agree(sv, cl, hs, hc),
         NEW rel \in BOOLEAN, NEW close \in BOOLEAN, NEW size \in Nat \ {0},
         Sendable(sv, rel, close, size), close => rel,
         NEW tag \in Tag, ~(rel /\ OverflowsReliable(sv, size, close)),
         NEW sw, sw = SendBunch(sv, rel, close, tag, size)
  PROVE  \E gs : /\ Agree(sw, cl, gs, hc)
                 /\ Sending(sv, rel, close, size, size, sw)
                 /\ Numbering(sv, rel, close, size, sw, hs, gs)
<1>1. /\ hs \in History /\ hc \in History
      /\ Line(sv, cl, hs) /\ Line(cl, sv, hc)
      /\ ServerTurn(sv, cl) /\ CloseTurn(sv, cl, hs) /\ ClientTurn(cl, hc)
      /\ JoinTurn(sv, cl) /\ LeaveTurn(sv, cl) /\ Room(cl) /\ Numbered(sv, cl, hs)
  BY AgreeParts
<1>2. LineSending(sv, cl, hs, rel, close, size, size, sw)
  BY <1>1, LineSent
<1>3. Sending(sv, rel, close, size, size, sw)
  BY <1>2 DEF LineSending
<1>4. PICK gs \in History : Line(sw, cl, gs) /\ Numbering(sv, rel, close, size, sw, hs, gs)
  BY <1>2 DEF LineSending
<1>5. /\ sw \in End /\ sw.channel # NoChannel /\ sv.channel # NoChannel /\ ~sv.channel.closing
      /\ sw.channel.openedLocally = sv.channel.openedLocally
      /\ sw.receiving = sv.receiving /\ sw.pendingOutRec = sv.pendingOutRec
      /\ Queue(sw) = Queue(sv) /\ Low(sw) = Low(sv)
      /\ sw.channel.closing <=> close
      /\ rel => sw.outReliable = sv.outReliable + size
      /\ ~rel => sw.outReliable = sv.outReliable
  BY <1>3 DEF Sending, Sendable
<1>6. PICK O \in Nat, L \in Int, n \in Nat, P \in Nat :
        O = sv.outReliable /\ L = Low(sv) /\ n = cl.inReliable /\ P = sw.outReliable
  BY <1>5, EndTypes, Lengths
<1>7. L >= 1 /\ L - 1 <= n /\ n <= O
  BY <1>1, <1>6 DEF Numbered
<1>8. Line(cl, sw, hc)
  BY <1>1, <1>3, SendingReceiver, SenderRefl, LineFrame
<1>9. ~Closing(sv) /\ (Closing(sw) <=> close) /\ (rel => P = O + size) /\ (~rel => P = O)
  BY <1>5, <1>6 DEF Closing
<1>10. close => size = 1 /\ rel /\ P = O + 1
  BY <1>9 DEF Sendable
<1>11. ~Left(sw, cl)
  <2> SUFFICES ASSUME Left(sw, cl) PROVE FALSE
    OBVIOUS
  <2>1. close
    BY <1>9 DEF Left
  <2>2. n = P
    BY <1>6 DEF Left
  <2> QED
    BY <1>7, <1>10, <2>1, <2>2
<1>12. ServerTurn(sw, cl)
  BY <1>1, <1>5 DEF ServerTurn
<1>13. CloseTurn(sw, cl, gs)
  <2>1. /\ \A q \in 0 .. O : gs[q] = hs[q]
        /\ \A q \in O + 1 .. P : gs[q].close <=> close /\ q = O + size
    BY <1>4, <1>6 DEF Numbering
  <2>2. \A q \in L .. O : ~hs[q].close
    BY <1>1, <1>6, <1>9 DEF CloseTurn
  <2>3. ASSUME close PROVE L <= P /\ gs[P].close /\ n # P
    <3>1. P = O + 1 /\ size = 1
      BY <1>10, <2>3
    <3>2. P \in O + 1 .. P /\ P = O + size
      BY <3>1
    <3> QED
      BY <1>7, <2>1, <2>3, <3>1, <3>2
  <2>4. ASSUME NEW q \in L .. P, gs[q].close PROVE q = P /\ close
    <3>1. CASE q <= O
      <4>1. q \in 0 .. O /\ q \in L .. O
        BY <1>7, <3>1
      <4> QED
        BY <2>1, <2>2, <2>4, <4>1
    <3>2. CASE ~(q <= O)
      <4>1. q \in O + 1 .. P
        BY <3>2
      <4>2. close /\ q = O + size
        BY <2>1, <2>4, <4>1
      <4>3. P = O + size
        BY <1>10, <4>2
      <4> QED
        BY <4>2, <4>3
    <3> QED
      BY <3>1, <3>2
  <2>5. Closing(sw) => /\ Low(sw) <= sw.outReliable /\ gs[sw.outReliable].close
                       /\ cl.inReliable = sw.outReliable => cl.channel = NoChannel
    BY <1>5, <1>6, <1>9, <2>3
  <2>6. \A q \in Low(sw) .. sw.outReliable : gs[q].close => q = sw.outReliable /\ Closing(sw)
    BY <1>5, <1>6, <1>9, <2>4
  <2> QED
    BY <2>5, <2>6 DEF CloseTurn
<1>14. JoinTurn(sw, cl)
  <2>1. ~Left(sv, cl)
    BY <1>9 DEF Left
  <2>2. Joining(sw, cl) => Joining(sv, cl)
    BY <1>5, <2>1 DEF Joining
  <2> QED
    BY <1>1, <1>5, <2>2 DEF JoinTurn
<1>15. LeaveTurn(sw, cl)
  BY <1>11 DEF LeaveTurn
<1>16. Turns(sw, cl, gs, hc)
  BY <1>1, <1>12, <1>13, <1>14, <1>15 DEF Turns
<1>17. Agree(sw, cl, gs, hc)
  BY <1>1, <1>4, <1>8, <1>16 DEF Agree
<1> QED
  BY <1>3, <1>4, <1>17

\* The client does, once it has joined.
LEMMA AgreeClientSends ==
  ASSUME NEW sv \in End, NEW cl \in End, NEW hs, NEW hc, Agree(sv, cl, hs, hc),
         NEW rel, rel = TRUE, NEW close, close = FALSE, NEW size \in Nat \ {0},
         Sendable(cl, rel, close, size), cl.channel.opened,
         NEW tag \in Tag, ~(rel /\ OverflowsReliable(cl, size, close)),
         NEW cm, cm = SendBunch(cl, rel, close, tag, size)
  PROVE  \E gc : /\ Agree(sv, cm, hs, gc)
                 /\ Sending(cl, rel, close, size, size, cm)
                 /\ Numbering(cl, rel, close, size, cm, hc, gc)
<1>1. /\ hs \in History /\ hc \in History
      /\ Line(sv, cl, hs) /\ Line(cl, sv, hc)
      /\ ServerTurn(sv, cl) /\ CloseTurn(sv, cl, hs) /\ ClientTurn(cl, hc)
      /\ JoinTurn(sv, cl) /\ LeaveTurn(sv, cl) /\ Room(sv) /\ Numbered(cl, sv, hc)
  BY AgreeParts
<1>2. LineSending(cl, sv, hc, rel, close, size, size, cm)
  <2>1. rel \in BOOLEAN /\ close \in BOOLEAN
    OBVIOUS
  <2> QED
    BY <1>1, <2>1, LineSent
<1>3. Sending(cl, rel, close, size, size, cm)
  BY <1>2 DEF LineSending
<1>4. PICK gc \in History : Line(cm, sv, gc) /\ Numbering(cl, rel, close, size, cm, hc, gc)
  BY <1>2 DEF LineSending
<1>5. /\ cm \in End /\ cm.channel # NoChannel /\ cl.channel # NoChannel /\ ~cl.channel.closing
      /\ cm.channel.openedLocally = cl.channel.openedLocally
      /\ cm.channel.openAcked = cl.channel.openAcked
      /\ cm.receiving = cl.receiving /\ cm.pendingOutRec = cl.pendingOutRec
      /\ cm.inReliable = cl.inReliable /\ Low(cm) = Low(cl) /\ ~cm.channel.closing
      /\ cm.channel.opened = TRUE
  <2>1. size >= 1
    OBVIOUS
  <2> QED
    BY <1>3, <2>1 DEF Sending, Sendable
<1>6. /\ ~cl.channel.openedLocally /\ cl.channel.opened = cl.channel.openAcked
      /\ cl.channel.opened = TRUE
  <2>1. cl.channel.opened \in BOOLEAN
    BY <1>5, ChannelIn DEF Channel
  <2> QED
    BY <1>1, <1>5, <2>1 DEF ClientTurn
<1>7. Joined(cl) /\ Joined(cm) /\ cl.pendingOutRec = 0
  BY <1>1, <1>5, <1>6 DEF Joined, ClientTurn
<1>8. sv.channel # NoChannel
  BY <1>1, <1>5 DEF ServerTurn
<1>9. Line(sv, cm, hs)
  BY <1>1, <1>3, SendingReceiver, SenderRefl, LineFrame
<1>10. ServerTurn(sv, cm)
  BY <1>1, <1>8 DEF ServerTurn
<1>11. CloseTurn(sv, cm, hs)
  BY <1>1, <1>5 DEF CloseTurn
<1>12. ClientTurn(cm, gc)
  <2>1. PICK O \in Nat, L \in Int, P \in Nat :
          O = cl.outReliable /\ L = Low(cl) /\ P = cm.outReliable
    BY <1>5, EndTypes, Lengths
  <2>2. L >= 1
    BY <1>1, <2>1 DEF Numbered
  <2>3. /\ \A q \in 0 .. O : gc[q] = hc[q]
        /\ \A q \in O + 1 .. P : ~gc[q].close /\ ~gc[q].open
    BY <1>4, <1>6, <2>1 DEF Numbering
  <2>4. \A q \in L .. O : ~hc[q].close /\ ~hc[q].open
    BY <1>1, <2>1 DEF ClientTurn
  <2>5. ASSUME NEW q \in L .. P PROVE ~gc[q].close /\ ~gc[q].open
    <3>1. CASE q <= O
      <4>1. q \in 0 .. O /\ q \in L .. O
        BY <2>2, <3>1
      <4> QED
        BY <2>3, <2>4, <4>1
    <3>2. CASE ~(q <= O)
      <4>1. q \in O + 1 .. P
        BY <3>2
      <4> QED
        BY <2>3, <4>1
    <3> QED
      BY <3>1, <3>2
  <2>6. \A q \in Low(cm) .. cm.outReliable : ~gc[q].close /\ ~gc[q].open
    BY <1>5, <2>1, <2>5
  <2> QED
    BY <1>5, <1>6, <1>7, <2>6 DEF ClientTurn
<1>13. JoinTurn(sv, cm)
  BY <1>7 DEF JoinTurn, Joining
<1>14. LeaveTurn(sv, cm)
  BY <1>5 DEF LeaveTurn, Left
<1>15. Turns(sv, cm, hs, gc)
  BY <1>10, <1>11, <1>12, <1>13, <1>14 DEF Turns
<1>16. Agree(sv, cm, hs, gc)
  BY <1>1, <1>4, <1>9, <1>15 DEF Agree
<1> QED
  BY <1>3, <1>4, <1>16
\* The server opens a channel while no bunch waits to be processed.
LEMMA AgreeOpened ==
  ASSUME NEW sv \in End, NEW cl \in End, NEW hs, NEW hc, Agree(sv, cl, hs, hc),
         sv.channel = NoChannel, sv.receiving.bunches = <<>>,
         NEW sw, sw = [sv EXCEPT !.channel = NewChannel(TRUE)]
  PROVE  Agree(sw, cl, hs, hc)
<1>1. /\ hs \in History /\ hc \in History
      /\ Line(sv, cl, hs) /\ Line(cl, sv, hc)
      /\ ServerTurn(sv, cl) /\ ClientTurn(cl, hc)
      /\ Room(sv) /\ Room(cl) /\ Accounted(cl, sv)
  BY AgreeParts
<1>2. /\ sw \in End /\ sw.channel # NoChannel /\ sw.channel.openedLocally = TRUE
      /\ sw.channel.closing = FALSE
      /\ sw.channel.outRec = <<>> /\ sw.channel.inRec = <<>>
      /\ sw.wire = sv.wire /\ sw.sendBuffer = sv.sendBuffer
      /\ sw.unnotified = sv.unnotified /\ sw.outReliable = sv.outReliable
      /\ sw.inReliable = sv.inReliable /\ sw.pendingOutRec = sv.pendingOutRec
      /\ sw.fates = sv.fates /\ sw.receiving = sv.receiving
  <2>1. PICK local \in BOOLEAN : local = TRUE
    OBVIOUS
  <2>2. Created(sv, local, sw)
    BY <2>1, CreatedType
  <2> QED
    BY <2>1, <2>2 DEF Created
<1>3. Records(sv) = <<>> /\ Records(sw) = <<>> /\ Queue(sv) = <<>> /\ Queue(sw) = <<>>
  BY <1>2 DEF Records, Queue
<1>4. SameSender(sv, sw) /\ SameReceiver(sv, sw)
  BY <1>2, <1>3 DEF SameSender, SameReceiver
<1>5. Room(sw)
  BY <1>1, <1>2, <1>4, RoomSame
<1>6. Line(sw, cl, hs)
  BY <1>1, <1>4, <1>5, ReceiverRefl, LineFrame
<1>7. Line(cl, sw, hc)
  BY <1>1, <1>4, SenderRefl, LineFrame
<1>8. ~Closing(sw)
  BY <1>2 DEF Closing
<1>9. ServerTurn(sw, cl)
  BY <1>1, <1>2 DEF ServerTurn
<1>10. CloseTurn(sw, cl, hs)
  <2>1. PICK O \in Nat : O = sw.outReliable
    BY <1>2, EndTypes
  <2>2. Len(Records(sw)) = 0 /\ sw.pendingOutRec = 0
    BY <1>1, <1>2, <1>3 DEF ServerTurn
  <2>3. Low(sw) = O + 1 - 0
    BY <2>1, <2>2 DEF Low
  <2>4. \A q \in Low(sw) .. sw.outReliable : FALSE
    BY <2>1, <2>3
  <2> QED
    BY <1>8, <2>4 DEF CloseTurn
<1>11. JoinTurn(sw, cl)
  <2>1. cl.channel = NoChannel /\ SilentAfter(cl, 0)
    BY <1>1 DEF ServerTurn
  <2>2. Records(cl) = <<>>
    BY <2>1 DEF Records
  <2>3. sw.receiving.bunches = <<>>
    BY <1>2
  <2> QED
    BY <1>3, <2>1, <2>2, <2>3 DEF JoinTurn
<1>12. LeaveTurn(sw, cl)
  BY <1>8 DEF LeaveTurn, Left
<1> QED
  BY <1>1, <1>6, <1>7, <1>9, <1>10, <1>11, <1>12 DEF Agree, Turns

-----------------------------------------------------------------------------
(* The network.                                                            *)

\* The end of a packet.
Answered(r) == [r EXCEPT !.fates = Answers(r), !.receiving = NotReceiving]

LEMMA AnsweredSame ==
  ASSUME NEW r \in End, r.receiving.bunches = <<>>, NEW u, u = Answered(r)
  PROVE  /\ u \in End /\ u.fates = Answers(r) /\ u.receiving = NotReceiving
         /\ u.inReliable = r.inReliable /\ Queue(u) = Queue(r)
         /\ SameSender(r, u) /\ ServerSame(r, u) /\ ClientSame(r, u)
         /\ (Room(r) => Room(u))
<1>1. Answers(r) \in Seq(BOOLEAN)
  BY AnswersProps DEF AnswersAre
<1>2. NotReceiving \in Receiving /\ NotReceiving.bunches = <<>>
  BY DEF NotReceiving, Receiving
<1>3. PICK f \in Seq(BOOLEAN), x \in Receiving : f = Answers(r) /\ x = NotReceiving
  BY <1>1, <1>2
<1>4. u = [r EXCEPT !.fates = f, !.receiving = x]
  BY <1>3 DEF Answered
<1>5. u \in End
  BY <1>4 DEF End
<1>6. /\ u.fates = f /\ u.receiving = x
      /\ u.wire = r.wire /\ u.sendBuffer = r.sendBuffer
      /\ u.unnotified = r.unnotified /\ u.outReliable = r.outReliable
      /\ u.inReliable = r.inReliable /\ u.pendingOutRec = r.pendingOutRec
      /\ u.channel = r.channel
  BY <1>4 DEF End
<1>7. Records(u) = Records(r) /\ Queue(u) = Queue(r) /\ Low(u) = Low(r)
  BY <1>6 DEF Records, Queue, Low
<1>8. Low(u) >= Low(r)
  BY <1>7, Lengths
<1>9. SameSender(r, u)
  BY <1>5, <1>6, <1>7 DEF SameSender
<1>10. ServerSame(r, u)
  BY <1>2, <1>3, <1>6, <1>7 DEF ServerSame
<1>11. Silences(r, u)
  BY <1>6, SilencesSame
<1>12. ClientSame(r, u)
  BY <1>6, <1>7, <1>8, <1>11 DEF ClientSame
<1>13. Room(r) => Room(u)
  BY <1>5, <1>6, <1>9, RoomSame
<1> QED
  BY <1>3, <1>5, <1>6, <1>7, <1>9, <1>10, <1>12, <1>13

LEMMA AgreeAnswered ==
  ASSUME NEW sv \in End, NEW cl \in End, NEW hs, NEW hc, Agree(sv, cl, hs, hc)
  PROVE  /\ sv.receiving.busy /\ sv.receiving.bunches = <<>> /\ ~Ready(sv)
              => Agree(Answered(sv), cl, hs, hc)
         /\ cl.receiving.busy /\ cl.receiving.bunches = <<>> /\ ~Ready(cl)
              => Agree(sv, Answered(cl), hs, hc)
<1>1. /\ hs \in History /\ hc \in History
      /\ Line(sv, cl, hs) /\ Line(cl, sv, hc) /\ Turns(sv, cl, hs, hc) /\ Room(sv) /\ Room(cl)
  BY AgreeParts
<1>2. ASSUME sv.receiving.busy, sv.receiving.bunches = <<>>, ~Ready(sv)
      PROVE  Agree(Answered(sv), cl, hs, hc)
  <2>1. PICK sw : sw = Answered(sv)
    OBVIOUS
  <2>2. /\ sw \in End /\ sw.fates = Answers(sv) /\ sw.receiving = NotReceiving
        /\ sw.inReliable = sv.inReliable /\ Queue(sw) = Queue(sv)
        /\ SameSender(sv, sw) /\ ServerSame(sv, sw) /\ Room(sw)
    BY <1>1, <1>2, <2>1, AnsweredSame
  <2>3. Line(cl, sw, hc)
    BY <1>1, <1>2, <2>2, LineAnswered
  <2>4. Line(sw, cl, hs)
    BY <1>1, <2>2, ReceiverRefl, LineFrame
  <2>5. Turns(sw, cl, hs, hc)
    BY <1>1, <2>2, ClientRefl, TurnsSame
  <2> QED
    BY <1>1, <2>1, <2>3, <2>4, <2>5 DEF Agree
<1>3. ASSUME cl.receiving.busy, cl.receiving.bunches = <<>>, ~Ready(cl)
      PROVE  Agree(sv, Answered(cl), hs, hc)
  <2>1. PICK cm : cm = Answered(cl)
    OBVIOUS
  <2>2. /\ cm \in End /\ cm.fates = Answers(cl) /\ cm.receiving = NotReceiving
        /\ cm.inReliable = cl.inReliable /\ Queue(cm) = Queue(cl)
        /\ SameSender(cl, cm) /\ ClientSame(cl, cm) /\ Room(cm)
    BY <1>1, <1>3, <2>1, AnsweredSame
  <2>3. Line(sv, cm, hs)
    BY <1>1, <1>3, <2>2, LineAnswered
  <2>4. Line(cm, sv, hc)
    BY <1>1, <2>2, ReceiverRefl, LineFrame
  <2>5. Turns(sv, cm, hs, hc)
    BY <1>1, <2>2, ServerRefl, TurnsSame
  <2> QED
    BY <1>1, <2>1, <2>3, <2>4, <2>5 DEF Agree
<1> QED
  BY <1>2, <1>3
-----------------------------------------------------------------------------
(* The message that an end is putting together.                            *)

\* A reliable one of which a part is still to come, ...
Midway(r) ==
  /\ r.channel # NoChannel /\ r.channel.inPartial # NoPartial
  /\ r.channel.inPartial.rel /\ ~r.channel.inPartial.final

\* ... the one that opens the channel.
Opening(r) ==
  r.channel # NoChannel /\ r.channel.inPartial # NoPartial /\ r.channel.inPartial.open

\* It is the same, but for its age.
SamePartial(r, t) ==
  /\ Midway(t) <=> Midway(r)
  /\ Opening(t) <=> Opening(r)
  /\ Midway(r) => t.channel.inPartial.seq = r.channel.inPartial.seq
  /\ Opening(r) => t.channel.inPartial.rel = r.channel.inPartial.rel

LEMMA ChannelPartial ==
  ASSUME NEW r, NEW t, t.channel = NoChannel <=> r.channel = NoChannel,
         r.channel # NoChannel => t.channel.inPartial = r.channel.inPartial
  PROVE  SamePartial(r, t)
BY DEF SamePartial, Midway, Opening

LEMMA AgedPartial ==
  ASSUME NEW s \in End, NEW n \in Nat, NEW t, t = Aged(s, n)
  PROVE  SamePartial(s, t)
<1>1. CASE s.channel = NoChannel \/ s.channel.inPartial = NoPartial
  BY <1>1 DEF Aged, SamePartial
<1>2. CASE ~(s.channel = NoChannel \/ s.channel.inPartial = NoPartial)
  <2> DEFINE p == s.channel.inPartial
  <2>1. s.channel \in Channel /\ p \in Partial
    BY <1>2, ChannelIn DEF Channel
  <2>2. PICK a \in 0 .. 2 : a = IF p.age + n > 2 THEN 2 ELSE p.age + n
    <3>1. p.age \in 0 .. 2
      BY <2>1 DEF Partial
    <3> HIDE DEF p
    <3> QED
      BY <3>1
  <2>3. PICK q : q = [p EXCEPT !.age = a]
    OBVIOUS
  <2>4. /\ q \in Partial /\ q.rel = p.rel /\ q.final = p.final /\ q.open = p.open
        /\ q.seq = p.seq
    <3> HIDE DEF p
    <3> QED
      BY <2>1, <2>3 DEF Partial
  <2>5. t = [s EXCEPT !.channel.inPartial.age = a]
    BY <1>2, <2>2 DEF Aged
  <2>6. PICK c : c = [s.channel EXCEPT !.inPartial = q]
    OBVIOUS
  <2>7. c = [s.channel EXCEPT !.inPartial.age = a]
    BY <2>1, <2>3, <2>6 DEF Channel
  <2>8. t = [s EXCEPT !.channel = c]
    BY <2>1, <2>5, <2>7 DEF End
  <2>9. c \in Channel /\ c.inPartial = q
    BY <2>1, <2>4, <2>6 DEF Channel
  <2>10. t.channel = c
    BY <2>8 DEF End
  <2>11. c # NoChannel /\ q # NoPartial
    BY <2>4, <2>9, NullAssumption
  <2> QED
    BY <1>2, <2>4, <2>9, <2>10, <2>11 DEF SamePartial, Midway, Opening
<1> QED
  BY <1>1, <1>2

-----------------------------------------------------------------------------
(* A packet comes in.                                                      *)

\* What becomes of the end once the fates are told: it begins with the packet.
Entered(t, r, i, y) ==
  /\ y \in End /\ y.state = t.state /\ SameSender(t, y)
  /\ y.inReliable = t.inReliable /\ y.fates = t.fates /\ Queue(y) = Queue(t)
  /\ y.channel = NoChannel <=> t.channel = NoChannel
  /\ t.channel # NoChannel => /\ y.channel.openedLocally = t.channel.openedLocally
                              /\ y.channel.closing = t.channel.closing
                              /\ y.channel.opened = t.channel.opened
                              /\ y.channel.openAcked = t.channel.openAcked
  /\ y.receiving.busy = TRUE /\ y.receiving.bunches = r.wire[i].bunches
  /\ y.receiving.lost = i - 1
  /\ SamePartial(t, y)

LEMMA EnteredType ==
  ASSUME NEW t \in End, NEW r \in End, NEW i \in 1 .. Len(r.wire),
         NEW y, y = Aged([t EXCEPT !.receiving =
                      [busy |-> TRUE, bunches |-> r.wire[i].bunches, lost |-> i - 1,
                       skipAck |-> FALSE]], i)
  PROVE  Entered(t, r, i, y)
<1>1. PICK x : x = [busy |-> TRUE, bunches |-> r.wire[i].bunches, lost |-> i - 1,
                    skipAck |-> FALSE]
  OBVIOUS
<1>2. x \in Receiving
  <2>1. r.wire \in Seq(Packet)
    BY EndTypes
  <2>2. r.wire[i] \in Packet
    BY <2>1
  <2>3. r.wire[i].bunches \in Seq(Bunch)
    BY <2>2 DEF Packet
  <2>4. i - 1 \in Nat
    BY Lengths
  <2> QED
    BY <1>1, <2>3, <2>4 DEF Receiving
<1>3. PICK u : u = [t EXCEPT !.receiving = x]
  OBVIOUS
<1>4. /\ u \in End /\ u.receiving = x /\ u.wire = t.wire /\ u.fates = t.fates
      /\ u.unnotified = t.unnotified /\ u.channel = t.channel /\ u.state = t.state
      /\ u.outReliable = t.outReliable /\ u.pendingOutRec = t.pendingOutRec
      /\ u.sendBuffer = t.sendBuffer /\ u.inReliable = t.inReliable
  BY <1>2, <1>3 DEF End
<1>5. y = Aged(u, i) /\ i \in Nat
  BY <1>1, <1>3, Lengths
<1>6. (y = u \/ Quiet(u, FALSE, y)) /\ y \in End /\ y.receiving = u.receiving
  BY <1>4, <1>5, AgedType
<1>9. SamePartial(t, y)
  <2>1. SamePartial(u, y)
    BY <1>4, <1>5, AgedPartial
  <2> QED
    BY <1>4, <2>1 DEF SamePartial, Midway, Opening
<1>7. CASE y = u
  <2>1. Records(y) = Records(t) /\ Queue(y) = Queue(t)
    BY <1>4, <1>7 DEF Records, Queue
  <2>2. SameSender(t, y)
    BY <1>4, <1>7, <2>1 DEF SameSender
  <2> QED
    BY <1>1, <1>4, <1>7, <1>9, <2>1, <2>2 DEF Entered
<1>8. CASE Quiet(u, FALSE, y)
  <2>1. /\ y.state = u.state /\ y.wire = u.wire /\ y.fates = u.fates
        /\ y.unnotified = u.unnotified /\ y.sendBuffer = u.sendBuffer
        /\ y.outReliable = u.outReliable /\ y.inReliable = u.inReliable
        /\ y.pendingOutRec = u.pendingOutRec
        /\ u.channel # NoChannel /\ y.channel # NoChannel
        /\ y.channel.outRec = u.channel.outRec /\ y.channel.inRec = u.channel.inRec
        /\ y.channel.openedLocally = u.channel.openedLocally
        /\ y.channel.closing = u.channel.closing
        /\ y.channel.opened = u.channel.opened /\ y.channel.openAcked = u.channel.openAcked
    BY <1>8 DEF Quiet
  <2>2. Records(y) = Records(t) /\ Queue(y) = Queue(t)
    BY <1>4, <2>1 DEF Records, Queue
  <2>3. SameSender(t, y)
    BY <1>4, <1>6, <2>1, <2>2 DEF SameSender
  <2> QED
    BY <1>1, <1>4, <1>6, <1>9, <2>1, <2>2, <2>3 DEF Entered
<1> QED
  BY <1>6, <1>7, <1>8

LEMMA HeardPassed ==
  ASSUME NEW r \in End, NEW i \in 1 .. Len(r.wire), NEW n \in Nat, n <= Len(r.fates),
         NEW z, Heard(r, n, i, z), Room(r)
  PROVE  /\ PassedOn(r, i, z) /\ SameReceiver(Dropped(r, n), z) /\ Room(z)
         /\ Low(z) = Low(r) /\ Records(z) = Records(r)
<1>1. /\ z \in End /\ z.fates = DropFates(r.fates, n)
      /\ Len(z.wire) = Len(r.wire) - i
      /\ \A j \in 1 .. Len(r.wire) - i : z.wire[j].bunches = r.wire[i + j].bunches
      /\ z.channel = r.channel /\ z.sendBuffer = r.sendBuffer
      /\ z.unnotified = r.unnotified /\ z.outReliable = r.outReliable
      /\ z.inReliable = r.inReliable /\ z.pendingOutRec = r.pendingOutRec
      /\ z.receiving = r.receiving
  BY DEF Heard
<1>2. Records(z) = Records(r) /\ Queue(z) = Queue(r)
  BY <1>1 DEF Records, Queue
<1>3. PassedOn(r, i, z)
  BY <1>1, <1>2 DEF PassedOn
<1>4. /\ Dropped(r, n) \in End /\ Dropped(r, n).fates = DropFates(r.fates, n)
      /\ Dropped(r, n).receiving = r.receiving /\ Dropped(r, n).inReliable = r.inReliable
      /\ Queue(Dropped(r, n)) = Queue(r)
  BY DroppedType
<1>5. SameReceiver(Dropped(r, n), z)
  BY <1>1, <1>2, <1>4 DEF SameReceiver
<1>6. Low(z) = Low(r)
  BY <1>1, <1>2 DEF Low
<1>7. Span(z) = Span(r)
  BY <1>1, <1>6 DEF Span
<1>8. Room(z)
  BY <1>1, <1>7 DEF Room
<1> QED
  BY <1>2, <1>3, <1>5, <1>6, <1>8

\* s receives the i-th packet under way of r: t is s once it was told n fates, y and z
\* are the two ends then.
Comes(s, r, i, n, t, y, z) ==
  /\ i \in 1 .. Len(r.wire) /\ n = Len(r.wire[i].fates)
  /\ t = AllNotified(s, r.wire[i].fates)
  /\ Entered(t, r, i, y) /\ z = Passed(r, i, n)

\* What is known then of s as a sender.
PacketCame(s, r, h, i, n, t, y, z) ==
  /\ t \in End /\ n \in Nat /\ n <= Len(r.fates) /\ n <= s.unnotified
  /\ Notes(s, t, h) /\ TellsOver(s, t, r.wire[i].fates, n)
  /\ Heard(r, n, i, z) /\ PassedOn(r, i, z) /\ Room(z)
  /\ Low(z) = Low(r) /\ Records(z) = Records(r)
  /\ Line(y, z, h)

LEMMA PacketNoted ==
  ASSUME NEW s \in End, Bounded(s), NEW r \in End, Told(r), NEW h \in History, Line(s, r, h),
         Room(r), LastCloses(s, h),
         NEW i, NEW n, NEW t, NEW y, NEW z, Comes(s, r, i, n, t, y, z)
  PROVE  PacketCame(s, r, h, i, n, t, y, z)
<1>0. /\ i \in 1 .. Len(r.wire) /\ n = Len(r.wire[i].fates)
      /\ t = AllNotified(s, r.wire[i].fates)
      /\ Entered(t, r, i, y) /\ z = Passed(r, i, n)
  BY DEF Comes
<1>1. Heard(r, n, i, z) /\ n \in Nat /\ n <= Len(r.fates)
  BY <1>0, HeardType
<1>2. PICK f \in Seq(BOOLEAN) : f = r.wire[i].fates
  <2>1. r.wire \in Seq(Packet)
    BY EndTypes
  <2>2. r.wire[i] \in Packet
    BY <1>0, <2>1
  <2> QED
    BY <2>2 DEF Packet
<1>3. Begins(f, r.fates)
  BY <1>0, <1>2 DEF Told
<1>4. /\ Line(t, Dropped(r, n), h) /\ Notes(s, t, h) /\ TellsOver(s, t, f, n)
  BY <1>0, <1>2, <1>3, AllNotifiedLine
<1>5. t \in End
  BY <1>4 DEF Notes
<1>6. /\ PassedOn(r, i, z) /\ SameReceiver(Dropped(r, n), z) /\ Room(z)
      /\ Low(z) = Low(r) /\ Records(z) = Records(r)
  BY <1>0, <1>1, HeardPassed
<1>7. SameSender(t, y) /\ y \in End
      /\ (y.channel = NoChannel \/ ~y.channel.closing => t.channel = NoChannel \/ ~t.channel.closing)
  BY <1>0 DEF Entered
<1>8. Room(y)
  <2>1. Room(t)
    BY <1>4 DEF Line
  <2> QED
    BY <1>5, <1>7, <2>1, RoomSame
<1>9. Line(y, z, h)
  <2>1. Dropped(r, n) \in End
    BY <1>1, DroppedType
  <2> QED
    BY <1>4, <1>5, <1>6, <1>7, <1>8, <2>1, LineFrame
<1>10. n <= s.unnotified
  <2>1. Accounted(s, r)
    BY DEF Line
  <2>2. Len(r.fates) <= Taken(r) /\ Taken(r) <= s.unnotified
    BY <2>1, Carried, TakenType
  <2>3. s.unnotified \in Nat /\ Taken(r) \in Nat /\ Len(r.fates) \in Nat
    BY EndTypes, Lengths
  <2> QED
    BY <1>1, <2>2, <2>3
<1> QED
  BY <1>1, <1>2, <1>4, <1>5, <1>6, <1>9, <1>10 DEF PacketCame

\* The same end as a receiver.
LEMMA PacketLetIn ==
  ASSUME NEW s \in End, NEW r \in End, NEW g \in History, Line(r, s, g), ~s.receiving.busy,
         NEW i \in 1 .. Len(r.wire), NEW h, NEW t, Notes(s, t, h),
         NEW y, Entered(t, r, i, y), NEW z, PassedOn(r, i, z), Room(z),
         Queue(t) = Queue(s) \/ (Queue(t) = <<>> /\ Records(r) = <<>>)
  PROVE  Line(z, y, g)
<1>1. /\ t \in End /\ t.inReliable = s.inReliable /\ t.fates = s.fates
      /\ t.receiving = s.receiving
  BY DEF Notes
<1>2. Line(r, t, g)
  <2>1. CASE Queue(t) = Queue(s)
    <3>1. SameReceiver(s, t)
      BY <1>1, <2>1 DEF SameReceiver
    <3>2. Room(r)
      BY DEF Line
    <3> QED
      BY <3>1, <3>2, SenderRefl, LineFrame
  <2>2. CASE Queue(t) = <<>> /\ Records(r) = <<>>
    BY <1>1, <2>2, LineEmptied
  <2> QED
    BY <2>1, <2>2
<1>3. LetInto(r, t, i, y)
  <2>1. /\ y \in End /\ y.inReliable = t.inReliable /\ y.fates = t.fates /\ Queue(y) = Queue(t)
        /\ y.receiving.busy = TRUE /\ y.receiving.bunches = r.wire[i].bunches
        /\ y.receiving.lost = i - 1
    BY DEF Entered
  <2> QED
    BY <1>1, <2>1 DEF LetInto
<1> QED
  BY <1>1, <1>2, <1>3, LineLetIn
\* The client receives a packet.
LEMMA AgreeClientPacket ==
  ASSUME NEW sv \in End, NEW cl \in End, NEW hs, NEW hc, Agree(sv, cl, hs, hc),
         Bounded(cl), Told(sv), ~cl.receiving.busy,
         NEW i, NEW n, NEW t, NEW y, NEW z, Comes(cl, sv, i, n, t, y, z)
  PROVE  Agree(z, y, hs, hc)
<1>0. i \in 1 .. Len(sv.wire) /\ Entered(t, sv, i, y)
  BY DEF Comes
<1>1. /\ hs \in History /\ hc \in History
      /\ Line(sv, cl, hs) /\ Line(cl, sv, hc) /\ Turns(sv, cl, hs, hc)
      /\ ClientTurn(cl, hc) /\ Room(sv)
  BY AgreeParts
<1>2. /\ t \in End /\ n \in Nat /\ n <= Len(sv.fates)
      /\ Notes(cl, t, hc)
      /\ Heard(sv, n, i, z) /\ PassedOn(sv, i, z) /\ Room(z)
      /\ Low(z) = Low(sv) /\ Records(z) = Records(sv)
      /\ Line(y, z, hc)
  <2>2. LastCloses(cl, hc)
    BY <1>1 DEF ClientTurn, LastCloses
  <2>1. PacketCame(cl, sv, hc, i, n, t, y, z)
    BY <1>1, <2>2, PacketNoted
  <2> QED
    BY <2>1 DEF PacketCame
<1>3. /\ t.wire = cl.wire /\ t.outReliable = cl.outReliable /\ t.inReliable = cl.inReliable
      /\ t.pendingOutRec = cl.pendingOutRec /\ Low(t) >= Low(cl)
      /\ Records(cl) = <<>> => Records(t) = <<>> /\ t.sendBuffer = cl.sendBuffer
      /\ cl.channel = NoChannel => t.channel = NoChannel
      /\ cl.channel # NoChannel => Freed(cl, t, hc) \/ Kept(cl, t, hc)
  BY <1>2 DEF Notes
<1>4. \A q \in Low(cl) .. cl.outReliable : ~hc[q].close /\ ~hc[q].open
  BY <1>1 DEF ClientTurn
<1>5. cl.channel # NoChannel =>
        /\ t.channel # NoChannel /\ Queue(t) = Queue(cl)
        /\ t.channel.opened = cl.channel.opened /\ t.channel.closing = cl.channel.closing
        /\ t.channel.openedLocally = cl.channel.openedLocally
        /\ t.channel.openAcked = cl.channel.openAcked
  BY <1>3, <1>4 DEF Freed, Kept
<1>6. Queue(t) = Queue(cl)
  BY <1>3, <1>5 DEF Queue
<1>7. Line(z, y, hs)
  BY <1>0, <1>1, <1>2, <1>6, PacketLetIn
<1>8. /\ y \in End /\ SameSender(t, y) /\ y.inReliable = t.inReliable
      /\ y.channel = NoChannel <=> t.channel = NoChannel
      /\ t.channel # NoChannel => /\ y.channel.openedLocally = t.channel.openedLocally
                                  /\ y.channel.closing = t.channel.closing
                                  /\ y.channel.opened = t.channel.opened
                                  /\ y.channel.openAcked = t.channel.openAcked
  BY <1>0 DEF Entered
<1>9. /\ y.wire = t.wire /\ y.sendBuffer = t.sendBuffer /\ y.outReliable = t.outReliable
      /\ y.pendingOutRec = t.pendingOutRec /\ Records(y) = Records(t)
  BY <1>8 DEF SameSender
<1>10. Low(y) = Low(t)
  BY <1>9 DEF Low
<1>11. ClientSame(cl, y)
  <2>1. Records(cl) = <<>> => Records(y) = <<>> /\ Silences(cl, y)
    BY <1>3, <1>9, SilencesSame
  <2> QED
    BY <1>3, <1>5, <1>8, <1>9, <1>10, <2>1 DEF ClientSame
<1>12. ServerSame(sv, z)
  <2>1. /\ z.channel = sv.channel /\ z.outReliable = sv.outReliable
        /\ z.pendingOutRec = sv.pendingOutRec /\ z.receiving = sv.receiving
    BY <1>2 DEF Heard
  <2>2. Queue(z) = Queue(sv)
    BY <2>1 DEF Queue
  <2> QED
    BY <1>2, <2>1, <2>2 DEF ServerSame
<1>13. Turns(z, y, hs, hc)
  <2>1. z \in End
    BY <1>2 DEF Heard
  <2> QED
    BY <1>1, <1>8, <1>11, <1>12, <2>1, TurnsSame
<1> QED
  BY <1>1, <1>2, <1>7, <1>13 DEF Agree

LEMMA SilentPassed ==
  ASSUME NEW s \in End, NEW i, NEW z, PassedOn(s, i, z)
  PROVE  /\ SilentAfter(s, 0) => SilentAfter(z, 0) /\ s.wire[i].bunches = <<>>
         /\ \A j \in Nat : SilentAfter(s, i + j) => SilentAfter(z, j)
<1>1. /\ z \in End /\ i \in 1 .. Len(s.wire) /\ Len(z.wire) = Len(s.wire) - i
      /\ \A j \in 1 .. Len(s.wire) - i : z.wire[j].bunches = s.wire[i + j].bunches
      /\ z.sendBuffer = s.sendBuffer
  BY DEF PassedOn
<1>2. PICK l \in Nat : l = Len(s.wire) /\ DOMAIN s.wire = 1 .. l
  BY Lengths
<1>3. DOMAIN z.wire = 1 .. l - i
  BY <1>1, <1>2, Lengths
<1>4. ASSUME NEW j \in Nat, SilentAfter(s, i + j) PROVE SilentAfter(z, j)
  <2>1. s.sendBuffer = <<>> /\ \A k \in 1 .. l : k > i + j => s.wire[k].bunches = <<>>
    BY <1>2, <1>4 DEF SilentAfter
  <2>2. ASSUME NEW k \in 1 .. l - i, k > j PROVE z.wire[k].bunches = <<>>
    <3>1. PICK m \in 1 .. l : m = i + k /\ m > i + j
      BY <1>1, <1>2, <2>2
    <3>2. z.wire[k].bunches = s.wire[i + k].bunches
      BY <1>1, <1>2
    <3> QED
      BY <2>1, <3>1, <3>2
  <2> QED
    BY <1>1, <1>3, <2>1, <2>2 DEF SilentAfter
<1>5. ASSUME SilentAfter(s, 0) PROVE SilentAfter(z, 0) /\ s.wire[i].bunches = <<>>
  <2>1. s.sendBuffer = <<>> /\ \A k \in 1 .. l : k > 0 => s.wire[k].bunches = <<>>
    BY <1>2, <1>5 DEF SilentAfter
  <2>2. \A k \in 1 .. l : s.wire[k].bunches = <<>>
    BY <2>1
  <2>3. SilentAfter(s, i + 0)
    BY <1>2, <2>1, <2>2 DEF SilentAfter
  <2>4. SilentAfter(z, 0)
    BY <1>4, <2>3
  <2> QED
    BY <1>1, <1>2, <2>2, <2>4
<1> QED
  BY <1>4, <1>5
LEMMA BeginsRefl ==
  ASSUME NEW f \in Seq(BOOLEAN) PROVE Begins(f, f)
BY DEF Begins

\* The server receives a packet.
LEMMA AgreeServerPacket ==
  ASSUME NEW sv \in End, NEW cl \in End, NEW hs, NEW hc, Agree(sv, cl, hs, hc),
         Bounded(sv), Told(cl), ~sv.receiving.busy,
         NEW i, NEW n, NEW t, NEW y, NEW z, Comes(sv, cl, i, n, t, y, z)
  PROVE  Agree(y, z, hs, hc)
<1>0. i \in 1 .. Len(cl.wire) /\ Entered(t, cl, i, y)
  BY DEF Comes
<1>1. /\ hs \in History /\ hc \in History
      /\ Line(sv, cl, hs) /\ Line(cl, sv, hc) /\ Turns(sv, cl, hs, hc)
      /\ ServerTurn(sv, cl) /\ CloseTurn(sv, cl, hs) /\ ClientTurn(cl, hc)
      /\ JoinTurn(sv, cl) /\ LeaveTurn(sv, cl) /\ Room(cl)
  BY AgreeParts
<1>2. /\ t \in End /\ n \in Nat /\ n <= Len(cl.fates) /\ n <= sv.unnotified
      /\ Notes(sv, t, hs) /\ TellsOver(sv, t, cl.wire[i].fates, n)
      /\ Heard(cl, n, i, z) /\ PassedOn(cl, i, z) /\ Room(z)
      /\ Low(z) = Low(cl) /\ Records(z) = Records(cl)
      /\ Line(y, z, hs)
  <2>2. LastCloses(sv, hs)
    BY <1>1 DEF CloseTurn, LastCloses
  <2>1. PacketCame(sv, cl, hs, i, n, t, y, z)
    BY <1>1, <2>2, PacketNoted
  <2> QED
    BY <2>1 DEF PacketCame
<1>3. /\ t.outReliable = sv.outReliable /\ t.pendingOutRec = sv.pendingOutRec
      /\ Low(t) >= Low(sv)
      /\ sv.channel = NoChannel => t.channel = NoChannel /\ Low(t) = Low(sv)
      /\ sv.channel # NoChannel => Freed(sv, t, hs) \/ Kept(sv, t, hs)
  BY <1>2 DEF Notes
<1>4. /\ y \in End /\ SameSender(t, y) /\ Queue(y) = Queue(t)
      /\ y.channel = NoChannel <=> t.channel = NoChannel
      /\ t.channel # NoChannel => /\ y.channel.openedLocally = t.channel.openedLocally
                                  /\ y.channel.closing = t.channel.closing
      /\ y.receiving.bunches = cl.wire[i].bunches
  BY <1>0 DEF Entered
<1>5. /\ y.outReliable = sv.outReliable /\ y.pendingOutRec = sv.pendingOutRec
      /\ Records(y) = Records(t) /\ Low(y) = Low(t)
  BY <1>3, <1>4 DEF SameSender, Low
<1>6. /\ z \in End /\ z.channel = cl.channel /\ z.outReliable = cl.outReliable
      /\ z.inReliable = cl.inReliable /\ z.pendingOutRec = cl.pendingOutRec
      /\ Len(z.wire) = Len(cl.wire) - i
      /\ \A j \in 1 .. Len(cl.wire) - i : z.wire[j].fates = DropFates(cl.wire[i + j].fates, n)
  BY <1>2 DEF Heard
<1>7. /\ SilentAfter(cl, 0) => SilentAfter(z, 0) /\ cl.wire[i].bunches = <<>>
      /\ \A j \in Nat : SilentAfter(cl, i + j) => SilentAfter(z, j)
  BY <1>2, SilentPassed
<1>8. ClientTurn(z, hc) /\ (Joined(z) <=> Joined(cl))
  BY <1>1, <1>2, <1>6 DEF ClientTurn, Joined
<1>9. PICK O \in Nat, L \in Int, M \in Int, m \in Nat :
        O = sv.outReliable /\ L = Low(sv) /\ M = Low(t) /\ m = cl.inReliable /\ M >= L
  BY <1>2, <1>3, EndTypes, Lengths
\* A later packet told more.
<1>10. ASSUME NEW j \in 0 .. Len(cl.wire) - i,
              TellsAll(Records(t), DropFates(cl.wire[i + j].fates, n))
       PROVE  TellsAll(Records(sv), cl.wire[i + j].fates)
  <2>1. PICK k \in 1 .. Len(cl.wire) : k = i + j /\ i <= k
    BY <1>0, Lengths
  <2>2. cl.wire \in Seq(Packet) /\ cl.fates \in Seq(BOOLEAN)
    BY EndTypes
  <2>3. cl.wire[k] \in Packet /\ cl.wire[i] \in Packet
    BY <1>0, <2>1, <2>2
  <2>4. PICK f \in Seq(BOOLEAN), e \in Seq(BOOLEAN), F \in Seq(BOOLEAN) :
          f = cl.wire[k].fates /\ e = cl.wire[i].fates /\ F = cl.fates
    BY <2>2, <2>3 DEF Packet
  <2>5. Begins(f, F) /\ Begins(e, F) /\ Len(e) <= Len(f)
    BY <1>0, <2>1, <2>4 DEF Told
  <2>6. Begins(e, f)
    BY <2>4, <2>5, SMTT(30) DEF Begins
  <2>7. Len(f) <= sv.unnotified
    <3>1. Len(f) <= Len(F)
      BY <2>5 DEF Begins
    <3>2. Accounted(sv, cl)
      BY <1>1 DEF Line
    <3>3. Len(cl.fates) <= Taken(cl) /\ Taken(cl) <= sv.unnotified
      BY <3>2, Carried, TakenType
    <3>4. sv.unnotified \in Nat /\ Taken(cl) \in Nat /\ Len(f) \in Nat /\ Len(F) \in Nat
      BY <2>4, EndTypes, Lengths, SMTT(30)
    <3> QED
      BY <2>4, <3>1, <3>3, <3>4
  <2>8. TellsAll(Records(t), DropFates(f, n))
    BY <1>10, <2>1, <2>4
  <2>9. TellsAll(Records(sv), f)
    BY <1>2, <2>4, <2>6, <2>7, <2>8 DEF TellsOver
  <2> QED
    BY <2>1, <2>4, <2>9
\* Nothing changes for the channel.
<1>11. ASSUME Queue(t) = Queue(sv), Closing(y) <=> Closing(sv),
              y.channel = NoChannel <=> sv.channel = NoChannel,
              y.channel # NoChannel => y.channel.openedLocally = sv.channel.openedLocally,
              Closing(sv) => M <= O
       PROVE  Agree(y, z, hs, hc)
  <2>1. Line(z, y, hc)
    BY <1>0, <1>1, <1>2, <1>11, PacketLetIn
  <2>2. Left(y, z) <=> Left(sv, cl)
    BY <1>5, <1>6, <1>11 DEF Left
  <2>3. Joining(y, z) <=> Joining(sv, cl)
    BY <1>8, <1>11, <2>2 DEF Joining
  <2>4. ServerTurn(y, z)
    BY <1>1, <1>5, <1>6, <1>7, <1>11 DEF ServerTurn
  <2>5. CloseTurn(y, z, hs)
    <3>1. \A q \in M .. O : q \in L .. O
      BY <1>9
    <3>2. \A q \in Low(y) .. y.outReliable : hs[q].close => q = y.outReliable /\ Closing(y)
      BY <1>1, <1>5, <1>9, <1>11, <3>1 DEF CloseTurn
    <3>3. Closing(y) => /\ Low(y) <= y.outReliable /\ hs[y.outReliable].close
                        /\ z.inReliable = y.outReliable => z.channel = NoChannel
      BY <1>1, <1>5, <1>6, <1>9, <1>11 DEF CloseTurn
    <3> QED
      BY <3>2, <3>3 DEF CloseTurn
  <2>6. JoinTurn(y, z)
    BY <1>1, <1>2, <1>4, <1>7, <1>11, <2>3 DEF JoinTurn
  <2>7. LeaveTurn(y, z)
    <3> SUFFICES ASSUME Left(y, z), NEW j \in DOMAIN z.wire, TellsAll(Records(y), z.wire[j].fates)
                 PROVE  SilentAfter(z, j)
      BY DEF LeaveTurn
    <3>1. PICK l \in Nat : l = Len(cl.wire) /\ DOMAIN cl.wire = 1 .. l /\ DOMAIN z.wire = 1 .. l - i
      BY <1>6, Lengths
    <3>2. j \in 1 .. l - i /\ j \in 0 .. l - i /\ j \in Nat /\ i + j \in 1 .. l
      BY <1>0, <3>1
    <3>3. TellsAll(Records(t), DropFates(cl.wire[i + j].fates, n))
      BY <1>5, <1>6, <3>1, <3>2
    <3>4. TellsAll(Records(sv), cl.wire[i + j].fates)
      BY <1>10, <3>1, <3>2, <3>3
    <3>5. SilentAfter(cl, i + j)
      BY <1>1, <2>2, <3>1, <3>2, <3>4 DEF LeaveTurn
    <3> QED
      BY <1>7, <3>2, <3>5
  <2>8. Turns(y, z, hs, hc)
    BY <1>8, <2>4, <2>5, <2>6, <2>7 DEF Turns
  <2> QED
    BY <1>1, <1>2, <2>1, <2>8 DEF Agree
<1>12. CASE sv.channel = NoChannel
  <2>1. t.channel = NoChannel /\ y.channel = NoChannel
    BY <1>3, <1>4, <1>12
  <2>2. Queue(t) = Queue(sv) /\ ~Closing(y) /\ ~Closing(sv)
    BY <1>12, <2>1 DEF Queue, Closing
  <2> QED
    BY <1>11, <1>12, <2>1, <2>2
<1>13. CASE sv.channel # NoChannel /\ Kept(sv, t, hs)
  <2>1. /\ t.channel # NoChannel /\ Queue(t) = Queue(sv)
        /\ t.channel.closing = sv.channel.closing
        /\ t.channel.openedLocally = sv.channel.openedLocally
        /\ Low(sv) <= sv.outReliable /\ hs[sv.outReliable].close => Low(t) <= sv.outReliable
    BY <1>13 DEF Kept
  <2>2. Closing(y) <=> Closing(sv)
    BY <1>4, <1>13, <2>1 DEF Closing
  <2>3. Closing(sv) => M <= O
    BY <1>1, <1>9, <2>1 DEF CloseTurn
  <2> QED
    BY <1>4, <1>11, <1>13, <2>1, <2>2, <2>3
<1>14. CASE sv.channel # NoChannel /\ Freed(sv, t, hs)
  <2>1. t.channel = NoChannel /\ M = O + 1 /\ \E q \in L .. O : hs[q].close
    BY <1>9, <1>14 DEF Freed
  <2>2. Closing(sv)
    BY <1>1, <1>9, <2>1 DEF CloseTurn
  <2>3. m = O
    <3>1. Low(y) - 1 <= z.inReliable /\ z.inReliable <= y.outReliable
      BY <1>2 DEF Line, Numbered
    <3>2. M - 1 <= m /\ m <= O
      BY <1>5, <1>6, <1>9, <3>1
    <3> QED
      BY <2>1, <3>2
  <2>4. cl.channel = NoChannel
    BY <1>1, <1>9, <2>2, <2>3 DEF CloseTurn
  <2>5. Left(sv, cl)
    BY <1>9, <2>2, <2>3, <2>4 DEF Left
  <2>6. Records(t) = <<>> /\ Queue(t) = <<>> /\ Records(cl) = <<>>
    BY <2>1, <2>4 DEF Records, Queue
  <2>7. SilentAfter(cl, i)
    <3>1. TellsAll(Records(t), DropFates(cl.wire[i + 0].fates, n))
      BY <2>6 DEF TellsAll
    <3>2. 0 \in 0 .. Len(cl.wire) - i /\ i + 0 = i /\ i \in DOMAIN cl.wire
      BY <1>0, Lengths
    <3>3. TellsAll(Records(sv), cl.wire[i].fates)
      BY <1>10, <3>1, <3>2
    <3> QED
      BY <1>1, <2>5, <3>2, <3>3 DEF LeaveTurn
  <2>8. SilentAfter(z, 0)
    <3>1. i + 0 = i
      BY <1>0, Lengths
    <3> QED
      BY <1>7, <2>7, <3>1
  <2>9. y.channel = NoChannel /\ ~Closing(y)
    BY <1>4, <2>1 DEF Closing
  <2>10. Line(z, y, hc)
    BY <1>0, <1>1, <1>2, <2>6, PacketLetIn
  <2>11. ServerTurn(y, z)
    BY <1>1, <1>5, <1>6, <2>4, <2>8, <2>9 DEF ServerTurn
  <2>12. CloseTurn(y, z, hs)
    <3>1. \A q \in M .. O : FALSE
      BY <2>1
    <3> QED
      BY <1>5, <1>9, <2>9, <3>1 DEF CloseTurn
  <2>13. JoinTurn(y, z) /\ LeaveTurn(y, z)
    BY <2>9 DEF JoinTurn, Joining, LeaveTurn, Left
  <2>14. Turns(y, z, hs, hc)
    BY <1>8, <2>11, <2>12, <2>13 DEF Turns
  <2> QED
    BY <1>1, <1>2, <2>10, <2>14 DEF Agree
<1> QED
  BY <1>3, <1>12, <1>13, <1>14
-----------------------------------------------------------------------------
(* A bunch of the packet, or of InRec, is taken.                           *)

LEMMA TailWithin ==
  ASSUME NEW bs \in Seq(Bunch), bs # <<>>, NEW c, c = Tail(bs)
  PROVE  /\ c \in Seq(Bunch) /\ 1 \in DOMAIN bs /\ bs[1] \in Bunch
         /\ \A j \in DOMAIN c : Within(c[j], bs)
         /\ \A i \in DOMAIN bs : bs[i] = bs[1] \/ Within(bs[i], c)
<1>1. PICK l \in Nat : l = Len(bs) /\ l >= 1 /\ DOMAIN bs = 1 .. l
  <2>1. PICK l \in Nat : l = Len(bs) /\ DOMAIN bs = 1 .. l
    OBVIOUS
  <2>2. l # 0
    <3>1. SUFFICES ASSUME l = 0 PROVE FALSE
      OBVIOUS
    <3>2. Len(bs) = 0
      BY <2>1, <3>1
    <3>3. bs = <<>>
      BY <3>2
    <3> QED
      BY <3>3
  <2> QED
    BY <2>1, <2>2
<1>2. c \in Seq(Bunch) /\ Len(c) = l - 1 /\ \A j \in 1 .. l - 1 : c[j] = bs[j + 1]
  BY <1>1
<1>3. DOMAIN c = 1 .. l - 1
  BY <1>1, <1>2
<1>4. ASSUME NEW j \in DOMAIN c PROVE Within(c[j], bs)
  <2>1. j + 1 \in 1 .. l /\ c[j] = bs[j + 1]
    BY <1>1, <1>2, <1>3
  <2> QED
    BY <1>1, <2>1 DEF Within
<1>5. ASSUME NEW i \in DOMAIN bs, i # 1 PROVE Within(bs[i], c)
  <2>1. PICK j \in 1 .. l - 1 : i = j + 1
    BY <1>1, <1>5
  <2>2. c[j] = bs[i]
    BY <1>2, <2>1
  <2> QED
    BY <1>3, <2>2 DEF Within
<1>6. 1 \in 1 .. l
  BY <1>1
<1> QED
  BY <1>1, <1>2, <1>4, <1>5, <1>6

\* What is taken was sent, under its number, in a packet that is not acknowledged yet.
Sent(s, r, h, b) ==
  /\ b \in Bunch
  /\ b.rel => /\ b.seq \in Low(s) .. s.outReliable /\ b = h[b.seq]
              /\ b.close => b.part = "whole"
              /\ s.pendingOutRec = 0 =>
                   \E i \in DOMAIN Records(s) :
                     ~Records(s)[i].acked /\ Records(s)[i].packet = Taken(r)
  /\ ~b.rel => ~b.open /\ ~b.close

\* The first bunch of the packet is taken out, with its full number.
Unpacks(r, u, a, b) ==
  r.receiving.bunches # <<>> /\ Unpacked(r, u, a, b) /\ a = r.receiving.bunches[1]

LEMMA UnpackedSent ==
  ASSUME NEW s \in End, NEW r \in End, NEW h \in History, Line(s, r, h),
         NEW u, NEW a, NEW b, Unpacks(r, u, a, b)
  PROVE  Sent(s, r, h, b) /\ (b.rel => a.tag.seq = b.seq)
<1>0. PICK q : q = a.tag.seq
  OBVIOUS
<1>1. Flies(r, 1, a, q)
  <2>1. 1 \in DOMAIN r.receiving.bunches
    BY EndTypes, TailWithin DEF Unpacks
  <2> QED
    BY <1>0, <2>1 DEF Flies, Unpacks
<1>2. a \in Bunch /\ BunchOK(s, h, Taken(r), a)
  BY <1>1, FliesNumber
<1>3. /\ [b EXCEPT !.seq = 0] \in Bunch
      /\ b.rel = a.rel /\ b.open = a.open /\ b.close = a.close /\ b.part = a.part
      /\ b.tag = a.tag
      /\ ~b.rel => b.seq = 0 /\ b \in Bunch
      /\ b.rel => b.seq = MakeRelative(a.seq, r.inReliable, MaxChSequence)
      /\ b.rel /\ b.seq >= 0 => b \in Bunch
  BY DEF Unpacked, Unpacks
<1>4. CASE ~b.rel
  BY <1>2, <1>3, <1>4 DEF Sent, BunchOK
<1>5. CASE b.rel
  <2>1. q = a.tag.seq
    BY <1>0
  <2>2. a.rel
    BY <1>3, <1>5
  <2>3. /\ q \in Low(s) .. s.outReliable /\ q \in Nat
        /\ WellFormed(h[q], q) /\ h[q] \in Bunch
    BY <1>1, <2>2, FliesNumber DEF IsNumbered
  <2>4. MakeRelative(a.seq, r.inReliable, MaxChSequence) = q /\ [a EXCEPT !.seq = q] = h[q]
    BY <1>1, <2>2, FlightSequence DEF TakenFor
  <2>5. b.seq = q
    BY <1>3, <1>5, <2>4
  <2>6. b \in Bunch
    BY <1>3, <1>5, <2>3, <2>5
  <2>7. b = h[q]
    <3>1. h[q].seq = q /\ h[q].rel = a.rel /\ h[q].open = a.open /\ h[q].close = a.close
          /\ h[q].part = a.part /\ h[q].tag = a.tag
      BY <1>2, <2>3, <2>4 DEF Bunch
    <3> QED
      BY <1>3, <2>3, <2>5, <2>6, <3>1 DEF Bunch
  <2>8. b.close => b.part = "whole"
    BY <2>3, <2>7 DEF WellFormed
  <2>9. ASSUME s.pendingOutRec = 0
        PROVE  \E i \in DOMAIN Records(s) :
                 ~Records(s)[i].acked /\ Records(s)[i].packet = Taken(r)
    <3>1. /\ ~Records(s)[q - Low(s) + 1].acked
          /\ Records(s)[q - Low(s) + 1].packet = Taken(r)
      BY <1>2, <2>1, <2>2, <2>9 DEF BunchOK
    <3>2. PICK l \in Nat, O \in Nat, L \in Int :
            l = Len(Records(s)) /\ O = s.outReliable /\ L = Low(s) /\ L = O + 1 - l
            /\ DOMAIN Records(s) = 1 .. l
      BY <2>9, EndTypes, Lengths
    <3>3. q - L + 1 \in 1 .. l
      BY <2>3, <3>2
    <3> QED
      BY <3>1, <3>2, <3>3
  <2> QED
    BY <1>5, <2>1, <2>3, <2>5, <2>6, <2>7, <2>8, <2>9 DEF Sent
<1> QED
  BY <1>4, <1>5

\* The first bunch of InRec is taken out.
LEMMA QueuedSent ==
  ASSUME NEW s \in End, NEW r \in End, NEW h \in History, Line(s, r, h), Ready(r),
         NEW b, b = Queue(r)[1]
  PROVE  Sent(s, r, h, b) /\ b.rel /\ b.seq = r.inReliable + 1
<1>1. Queue(r) \in Seq(Bunch) /\ Queue(r) # <<>>
  BY EndTypes DEF Ready
<1>2. 1 \in DOMAIN Queue(r) /\ b \in Bunch
  BY <1>1, TailWithin
<1>3. PICK q \in Nat : q = b.seq
  BY <1>2 DEF Bunch
<1>4. /\ q \in r.inReliable + 1 .. s.outReliable /\ b = h[q] /\ q = r.inReliable + 1
      /\ s.pendingOutRec = 0 => Holding(s, r)
  BY <1>2, <1>3 DEF Line, Queued, Ready
<1>5. /\ Low(s) - 1 <= r.inReliable
      /\ \A k \in Low(s) .. s.outReliable : WellFormed(h[k], k)
  BY DEF Line, Numbered
<1>6. q \in Low(s) .. s.outReliable
  <2>1. Low(s) \in Int /\ r.inReliable \in Nat /\ s.outReliable \in Nat
    BY EndTypes, Lengths
  <2> QED
    BY <1>4, <1>5, <2>1
<1>7. WellFormed(b, q)
  BY <1>4, <1>5, <1>6
<1>8. s.pendingOutRec = 0 =>
        \E i \in DOMAIN Records(s) : ~Records(s)[i].acked /\ Records(s)[i].packet = Taken(r)
  BY <1>4 DEF Holding
<1> QED
  BY <1>2, <1>3, <1>4, <1>6, <1>7, <1>8 DEF Sent, WellFormed
-----------------------------------------------------------------------------
(* Where a receiver stands once it has gone on.                            *)

\* It has bunches bs of the packet to go, qs waits in InRec, n is the last number.
Moves(r, bs, qs, n, t) ==
  /\ t \in End /\ t.fates = r.fates
  /\ t.receiving.busy = r.receiving.busy /\ t.receiving.lost = r.receiving.lost
  /\ r.receiving.skipAck => t.receiving.skipAck
  /\ t.receiving.bunches = bs /\ Queue(t) = qs /\ t.inReliable = n

LEMMA BusyWith ==
  ASSUME NEW s \in End, NEW r \in End, NEW h, Line(s, r, h), r.receiving.bunches # <<>>
  PROVE  r.receiving.busy = TRUE
<1>1. ~r.receiving.busy => r.receiving = NotReceiving
  BY DEF Line, Accounted
<1>2. r.receiving.busy \in BOOLEAN
  BY EndTypes
<1>3. NotReceiving.bunches = <<>>
  BY DEF NotReceiving
<1> QED
  BY <1>1, <1>2, <1>3

\* The first bunch of the packet is gone.
LEMMA MovesReceives ==
  ASSUME NEW s \in End, NEW r \in End, NEW h \in History, Line(s, r, h),
         r.receiving.bunches # <<>>, NEW qs, NEW n,
         NEW t, Moves(r, Tail(r.receiving.bunches), qs, n, t)
  PROVE  /\ Receives(r, t) /\ Taken(t) = Taken(r) /\ r.receiving.busy = TRUE
         /\ t.receiving.busy = TRUE
         /\ 1 \in DOMAIN r.receiving.bunches
         /\ \A i \in DOMAIN r.receiving.bunches :
              \/ r.receiving.bunches[i] = r.receiving.bunches[1]
              \/ Within(r.receiving.bunches[i], t.receiving.bunches)
<1>1. r.receiving.busy = TRUE
  BY BusyWith
<1>2. r.receiving.bunches \in Seq(Bunch)
  BY EndTypes
<1>3. /\ t \in End /\ t.fates = r.fates /\ t.receiving.bunches = Tail(r.receiving.bunches)
      /\ t.receiving.busy = r.receiving.busy /\ t.receiving.lost = r.receiving.lost
      /\ r.receiving.skipAck => t.receiving.skipAck
  BY DEF Moves
<1>4. /\ 1 \in DOMAIN r.receiving.bunches
      /\ \A j \in DOMAIN t.receiving.bunches : Within(t.receiving.bunches[j], r.receiving.bunches)
      /\ \A i \in DOMAIN r.receiving.bunches :
           \/ r.receiving.bunches[i] = r.receiving.bunches[1]
           \/ Within(r.receiving.bunches[i], t.receiving.bunches)
  BY <1>2, <1>3, TailWithin
<1>5. Receives(r, t)
  BY <1>1, <1>3, <1>4 DEF Receives
<1>6. Taken(t) = Taken(r)
  BY <1>3 DEF Taken
<1> QED
  BY <1>1, <1>3, <1>4, <1>5, <1>6

\* An old bunch, one that waits already, and one that asks for nothing.
LEMMA LineSkipped ==
  ASSUME NEW s \in End, NEW r \in End, NEW h \in History, Line(s, r, h),
         r.receiving.bunches # <<>>, NEW a, a = r.receiving.bunches[1],
         ~a.rel \/ Has(r, a.tag.seq) \/ Records(s) = <<>>,
         NEW t, Moves(r, Tail(r.receiving.bunches), Queue(r), r.inReliable, t)
  PROVE  Line(s, t, h)
<1>1. /\ Receives(r, t) /\ Taken(t) = Taken(r) /\ r.receiving.busy = TRUE
      /\ t.receiving.busy = TRUE
      /\ \A i \in DOMAIN r.receiving.bunches :
           \/ r.receiving.bunches[i] = a
           \/ Within(r.receiving.bunches[i], t.receiving.bunches)
  BY MovesReceives
<1>2. t \in End /\ t.inReliable = r.inReliable /\ Queue(t) = Queue(r)
  BY DEF Moves
<1>3. \A q : Has(t, q) <=> Has(r, q)
  BY <1>2, HasSame
<1>4. TakesIn(s, r, t)
  BY <1>1, <1>3 DEF TakesIn
<1>5. Queued(s, t, h)
  <2>1. Queued(s, r, h)
    BY DEF Line
  <2>2. Holding(s, r) => Holding(s, t)
    BY <1>1, <1>2 DEF Holding
  <2> QED
    BY <1>1, <1>2, <2>1, <2>2 DEF Queued, Ready
<1>6. t.inReliable >= r.inReliable /\ t.inReliable <= s.outReliable
  BY <1>2, EndTypes DEF Line, Numbered
<1> QED
  BY <1>1, <1>2, <1>3, <1>4, <1>5, <1>6, LineReceived

\* The next in turn, or an unreliable one.
LEMMA LineTaken ==
  ASSUME NEW s \in End, NEW r \in End, NEW h \in History, Line(s, r, h), ~Ready(r),
         r.receiving.bunches # <<>>, NEW a, a = r.receiving.bunches[1], NEW n,
         a.rel => n = a.tag.seq /\ n = r.inReliable + 1,
         ~a.rel => n = r.inReliable,
         NEW t, Moves(r, Tail(r.receiving.bunches), Queue(r), n, t)
  PROVE  Line(s, t, h)
<1>1. CASE ~a.rel
  BY <1>1, LineSkipped
<1>2. CASE a.rel
  <2>1. /\ Receives(r, t) /\ Taken(t) = Taken(r) /\ r.receiving.busy = TRUE
        /\ t.receiving.busy = TRUE /\ 1 \in DOMAIN r.receiving.bunches
        /\ \A i \in DOMAIN r.receiving.bunches :
             \/ r.receiving.bunches[i] = a
             \/ Within(r.receiving.bunches[i], t.receiving.bunches)
    BY MovesReceives
  <2>2. t \in End /\ t.inReliable = r.inReliable + 1 /\ Queue(t) = Queue(r)
        /\ a.tag.seq = t.inReliable
    BY <1>2 DEF Moves
  <2>3. Queued(s, t, h) /\ t.inReliable <= s.outReliable
    BY <1>2, <2>1, <2>2, QueuedNext
  <2>4. r.inReliable \in Nat
    BY EndTypes
  <2>5. ASSUME NEW q \in Nat, Has(r, q) PROVE Has(t, q)
    BY <2>2, <2>4, <2>5 DEF Has
  <2>6. Has(t, a.tag.seq)
    BY <2>2, <2>4 DEF Has
  <2>7. TakesIn(s, r, t)
    BY <2>1, <2>6 DEF TakesIn
  <2>8. t.inReliable >= r.inReliable
    BY <2>2, <2>4
  <2> QED
    BY <2>1, <2>3, <2>5, <2>7, <2>8, LineReceived
<1> QED
  BY <1>1, <1>2

\* One that waits for others.
LEMMA LineQueued ==
  ASSUME NEW s \in End, NEW r \in End, NEW h \in History, Line(s, r, h), ~Ready(r),
         r.receiving.bunches # <<>>, NEW a, a = r.receiving.bunches[1], a.rel,
         NEW b, b \in Bunch, b.seq \in Low(s) .. s.outReliable, b = h[b.seq], a.tag.seq = b.seq,
         b.seq > r.inReliable + 1,
         NEW n \in 0 .. Len(Queue(r)),
         \A i \in 1 .. n : Queue(r)[i].seq < b.seq,
         n < Len(Queue(r)) => Queue(r)[n + 1].seq > b.seq,
         NEW t, Moves(r, Tail(r.receiving.bunches),
                      SubSeq(Queue(r), 1, n) \o <<b>> \o SubSeq(Queue(r), n + 1, Len(Queue(r))),
                      r.inReliable, t)
  PROVE  Line(s, t, h)
<1>1. /\ Receives(r, t) /\ Taken(t) = Taken(r)
      /\ \A i \in DOMAIN r.receiving.bunches :
           \/ r.receiving.bunches[i] = a
           \/ Within(r.receiving.bunches[i], t.receiving.bunches)
  BY MovesReceives
<1>2. /\ t \in End /\ t.inReliable = r.inReliable
      /\ Queue(t) = SubSeq(Queue(r), 1, n) \o <<b>> \o SubSeq(Queue(r), n + 1, Len(Queue(r)))
  BY DEF Moves
<1>3. PICK q \in Nat : q = b.seq
  BY DEF Bunch
<1>4. q <= s.outReliable
  BY <1>3, EndTypes, Lengths
<1>5. b = h[q] /\ b.seq = q /\ q > r.inReliable + 1
      /\ (\A i \in 1 .. n : Queue(r)[i].seq < q)
      /\ (n < Len(Queue(r)) => Queue(r)[n + 1].seq > q)
  BY <1>3
<1>6. Queued(s, t, h) /\ (\A k \in Nat : Has(r, k) => Has(t, k)) /\ Has(t, q)
  <2>1. Waits(s, r, h, b, q, n, t)
    BY <1>2, <1>4, <1>5 DEF Waits
  <2> QED
    BY <2>1, QueuedInsert
<1>7. TakesIn(s, r, t)
  BY <1>1, <1>3, <1>6 DEF TakesIn
<1>8. t.inReliable >= r.inReliable /\ t.inReliable <= s.outReliable
  BY <1>2, EndTypes DEF Line, Numbered
<1> QED
  BY <1>1, <1>6, <1>7, <1>8, LineReceived

\* One that had waited.
LEMMA LineDequeued ==
  ASSUME NEW s \in End, NEW r \in End, NEW h \in History, Line(s, r, h), Ready(r),
         NEW t, Moves(r, r.receiving.bunches, Tail(Queue(r)), r.inReliable + 1, t)
  PROVE  Line(s, t, h)
<1>1. r.receiving.busy
  BY DEF Line, Queued
<1>2. /\ t \in End /\ t.fates = r.fates /\ t.receiving.bunches = r.receiving.bunches
      /\ t.receiving.busy = r.receiving.busy /\ t.receiving.lost = r.receiving.lost
      /\ r.receiving.skipAck => t.receiving.skipAck
      /\ t.inReliable = r.inReliable + 1 /\ Queue(t) = Tail(Queue(r))
  BY DEF Moves
<1>3. \A j \in DOMAIN r.receiving.bunches : Within(r.receiving.bunches[j], r.receiving.bunches)
  BY DEF Within
<1>4. Receives(r, t)
  BY <1>1, <1>2, <1>3 DEF Receives
<1>5. TakesIn(s, r, t)
  BY <1>2, <1>3 DEF TakesIn
<1>6. Taken(t) = Taken(r)
  BY <1>2 DEF Taken
<1>7. Queued(s, t, h) /\ t.inReliable <= s.outReliable
      /\ \A q \in Nat : Has(r, q) => Has(t, q)
  BY <1>1, <1>2, <1>6, QueuedTail
<1>8. t.inReliable >= r.inReliable
  BY <1>2, EndTypes
<1> QED
  BY <1>4, <1>5, <1>7, <1>8, LineReceived

-----------------------------------------------------------------------------
(* A bunch is handed to its channel.                                       *)

\* The end has gone on to it.
Gone(r, w) ==
  /\ SameSender(r, w) /\ w.receiving.busy = TRUE
  /\ w.fates = r.fates /\ w.receiving.lost = r.receiving.lost
  /\ r.channel # NoChannel /\ w.channel # NoChannel
  /\ w.channel.openedLocally = r.channel.openedLocally
  /\ w.channel.closing = r.channel.closing
  /\ w.channel.opened = r.channel.opened /\ w.channel.openAcked = r.channel.openAcked

LEMMA QuietSame ==
  ASSUME NEW w \in End, w.receiving.busy = TRUE, NEW open, NEW t, Quiet(w, open, t)
  PROVE  /\ SameSender(w, t) /\ SameReceiver(w, t)
         /\ w.channel # NoChannel /\ t.channel # NoChannel
         /\ t.channel.openedLocally = w.channel.openedLocally
         /\ t.channel.closing = w.channel.closing
<1>1. /\ t \in End /\ t.wire = w.wire /\ t.fates = w.fates
      /\ t.unnotified = w.unnotified /\ t.sendBuffer = w.sendBuffer
      /\ t.receiving.busy = w.receiving.busy /\ t.receiving.bunches = w.receiving.bunches
      /\ t.receiving.lost = w.receiving.lost
      /\ w.receiving.skipAck => t.receiving.skipAck
      /\ t.outReliable = w.outReliable /\ t.inReliable = w.inReliable
      /\ t.pendingOutRec = w.pendingOutRec
      /\ w.channel # NoChannel /\ t.channel # NoChannel
      /\ t.channel.outRec = w.channel.outRec /\ t.channel.inRec = w.channel.inRec
      /\ t.channel.openedLocally = w.channel.openedLocally
      /\ t.channel.closing = w.channel.closing
  BY DEF Quiet
<1>2. Records(t) = Records(w) /\ Queue(t) = Queue(w)
  BY <1>1 DEF Records, Queue
<1> QED
  BY <1>1, <1>2 DEF SameSender, SameReceiver

\* The client never sends an opening or a closing bunch.
LEMMA SentByClient ==
  ASSUME NEW cl \in End, NEW sv \in End, NEW hc \in History, ClientTurn(cl, hc),
         NEW b, Sent(cl, sv, hc, b)
  PROVE  b \in Bunch /\ ~b.open /\ ~b.close
<1>1. CASE ~b.rel
  BY <1>1 DEF Sent
<1>2. CASE b.rel
  BY <1>2 DEF Sent, ClientTurn
<1> QED
  BY <1>1, <1>2

\* The end that opened the channel itself has nothing to do for a bunch but hand it on.
LEMMA LocalTakes ==
  ASSUME NEW w \in End, w.channel.openedLocally = TRUE, w.receiving.busy = TRUE,
         NEW b, ~b.close, NEW t, Took(w, b, t), t.state # "error"
  PROVE  Quiet(w, FALSE, t)
<1>1. SUFFICES ASSUME ~Quiet(w, FALSE, t) PROVE FALSE
  OBVIOUS
<1>2. PICK u \in End, open \in BOOLEAN, close \in BOOLEAN :
        Quiet(w, FALSE, u) /\ Given(u, open, close, t) /\ Completes(b, open, close)
  BY <1>1 DEF Took
<1>3. ~close
  BY <1>2 DEF Completes
<1>4. u.channel.openedLocally = TRUE
  BY <1>2, QuietSame
<1>5. PICK x \in End, v \in End :
        /\ Quiet(u, open, x)
        /\ open => ~u.channel.openedLocally /\ ~u.channel.opened
        /\ ~(open /\ ~u.channel.closing) => v = x
        /\ ~close => t = v
  BY <1>2 DEF Given
<1>6. ~open
  BY <1>4, <1>5
<1>7. t = x /\ open = FALSE
  BY <1>3, <1>5, <1>6
<1>8. Quiet(u, FALSE, t)
  BY <1>5, <1>7
<1>9. Quiet(w, FALSE, t)
  <2>1. PICK o \in BOOLEAN : o = FALSE
    OBVIOUS
  <2> QED
    BY <1>2, <1>8, <2>1, QuietTrans
<1> QED
  BY <1>1, <1>9

LEMMA ServerTakes ==
  ASSUME NEW sv \in End, NEW cl \in End, NEW hs, NEW hc, Agree(sv, cl, hs, hc),
         sv.receiving.bunches # <<>> \/ Queue(sv) # <<>>,
         NEW w, Gone(sv, w), Line(cl, w, hc), NEW b, Sent(cl, sv, hc, b),
         NEW t, Took(w, b, t), t.state # "error"
  PROVE  Agree(t, cl, hs, hc)
<1>1. /\ hs \in History /\ hc \in History
      /\ Line(sv, cl, hs) /\ Turns(sv, cl, hs, hc)
      /\ ServerTurn(sv, cl) /\ ClientTurn(cl, hc) /\ Room(sv) /\ Room(cl)
  BY AgreeParts
<1>2. b \in Bunch /\ ~b.open /\ ~b.close
  BY <1>1, SentByClient
<1>3. /\ SameSender(sv, w) /\ w.receiving.busy = TRUE /\ w \in End
      /\ sv.channel # NoChannel /\ w.channel # NoChannel
      /\ w.channel.openedLocally = sv.channel.openedLocally
      /\ w.channel.closing = sv.channel.closing
  BY DEF Gone, SameSender
<1>4. w.channel.openedLocally = TRUE
  <2>1. sv.channel.openedLocally /\ w.channel \in Channel
    BY <1>1, <1>3 DEF ServerTurn, End
  <2>2. w.channel.openedLocally \in BOOLEAN
    BY <2>1 DEF Channel
  <2> QED
    BY <1>3, <2>1, <2>2
<1>5. Quiet(w, FALSE, t)
  BY <1>2, <1>3, <1>4, LocalTakes
<1>6. /\ SameSender(w, t) /\ SameReceiver(w, t) /\ t.channel # NoChannel
      /\ t.channel.openedLocally = w.channel.openedLocally
      /\ t.channel.closing = w.channel.closing
  BY <1>3, <1>5, QuietSame
<1>7. SameSender(sv, t) /\ t \in End
  BY <1>3, <1>6 DEF SameSender
<1>8. Line(cl, t, hc)
  BY <1>1, <1>3, <1>6, SenderRefl, LineFrame
<1>9. Room(t)
  BY <1>1, <1>3, <1>6, <1>7, RoomSame
<1>10. Line(t, cl, hs)
  BY <1>1, <1>7, <1>9, ReceiverRefl, LineFrame
<1>11. ServerSame(sv, t)
  <2>1. Low(t) = Low(sv)
    BY <1>7 DEF SameSender, Low
  <2> QED
    BY <1>3, <1>6, <1>7, <2>1 DEF SameSender, ServerSame
<1>12. Turns(t, cl, hs, hc)
  BY <1>1, <1>7, <1>11, ClientRefl, TurnsSame
<1> QED
  BY <1>1, <1>8, <1>10, <1>12 DEF Agree

\* All that an end still keeps are whole messages.
Plain(s, g) == \A q \in Low(s) .. s.outReliable : g[q].part = "whole"

\* The client has joined: t goes on with its numbers, which it may have sent again.
Resumed(sv, cl, hc, t, g) ==
  /\ Low(t) = Low(cl) /\ t.outReliable = cl.outReliable
  /\ \/ g = hc /\ cl.pendingOutRec = 0
     \/ Joining(sv, cl) /\ Plain(t, g)

\* It has, or it goes on as it was.
Renewed(sv, cl, hc, t, g) ==
  \/ Resumed(sv, cl, hc, t, g)
  \/ /\ Low(t) = Low(cl) /\ t.outReliable = cl.outReliable /\ g = hc
     /\ Joining(sv, cl) => Joining(sv, t)

\* The client in the middle of a bunch: what holds until it may leave.
Settled(sv, cl, hs, g, x) ==
  /\ x \in End /\ g \in History /\ Line(sv, x, hs) /\ Line(x, sv, g)
  /\ \A q \in Low(x) .. x.outReliable : ~g[q].close /\ ~g[q].open
  /\ x.channel # NoChannel /\ ~x.channel.openedLocally /\ ~x.channel.closing
  /\ x.channel.opened = x.channel.openAcked
  /\ x.receiving.busy = TRUE /\ x.fates = cl.fates /\ x.wire = cl.wire
  /\ Joined(x) => x.pendingOutRec = 0
  /\ ~Joined(x) => ~Joined(cl) /\ SameSender(cl, x)

LEMMA SettledGone ==
  ASSUME NEW sv \in End, NEW cl \in End, NEW hs, NEW hc, Agree(sv, cl, hs, hc),
         NEW w, Gone(cl, w), Line(sv, w, hs)
  PROVE  Settled(sv, cl, hs, hc, w)
<1>1. /\ hs \in History /\ hc \in History
      /\ Line(cl, sv, hc) /\ ClientTurn(cl, hc) /\ Room(cl)
  BY AgreeParts
<1>2. /\ SameSender(cl, w) /\ w.receiving.busy = TRUE /\ w \in End
      /\ w.fates = cl.fates /\ w.wire = cl.wire
      /\ cl.channel # NoChannel /\ w.channel # NoChannel
      /\ w.channel.openedLocally = cl.channel.openedLocally
      /\ w.channel.closing = cl.channel.closing
      /\ w.channel.opened = cl.channel.opened /\ w.channel.openAcked = cl.channel.openAcked
  BY DEF Gone, SameSender
<1>3. Room(w)
  BY <1>1, <1>2, RoomSame
<1>4. Line(w, sv, hc)
  BY <1>1, <1>2, <1>3, ReceiverRefl, LineFrame
<1>5. Low(w) = Low(cl) /\ w.outReliable = cl.outReliable /\ w.pendingOutRec = cl.pendingOutRec
  BY <1>2 DEF SameSender, Low
<1>6. Joined(w) <=> Joined(cl)
  BY <1>2 DEF Joined
<1>7. \A q \in Low(w) .. w.outReliable : ~hc[q].close /\ ~hc[q].open
  BY <1>1, <1>5 DEF ClientTurn
<1>8. /\ ~w.channel.openedLocally /\ ~w.channel.closing
      /\ w.channel.opened = w.channel.openAcked
      /\ Joined(w) => w.pendingOutRec = 0
  BY <1>1, <1>2, <1>5, <1>6 DEF ClientTurn
<1> QED
  BY <1>1, <1>2, <1>4, <1>6, <1>7, <1>8 DEF Settled

\* Part of a message, or a message of a channel that is open.
LEMMA SettledQuiet ==
  ASSUME NEW sv \in End, NEW cl \in End, NEW hs \in History, NEW g, NEW w,
         Settled(sv, cl, hs, g, w), NEW open \in BOOLEAN, NEW t, Quiet(w, open, t),
         open => w.pendingOutRec = 0
  PROVE  Settled(sv, cl, hs, g, t)
<1>1. /\ w \in End /\ g \in History /\ Line(sv, w, hs) /\ Line(w, sv, g)
      /\ \A q \in Low(w) .. w.outReliable : ~g[q].close /\ ~g[q].open
      /\ w.channel # NoChannel /\ ~w.channel.openedLocally /\ ~w.channel.closing
      /\ w.channel.opened = w.channel.openAcked
      /\ w.receiving.busy = TRUE /\ w.fates = cl.fates /\ w.wire = cl.wire
      /\ Joined(w) => w.pendingOutRec = 0
      /\ ~Joined(w) => ~Joined(cl) /\ SameSender(cl, w)
  BY DEF Settled
<1>2. /\ SameSender(w, t) /\ SameReceiver(w, t)
      /\ t.channel # NoChannel
      /\ t.channel.openedLocally = w.channel.openedLocally
      /\ t.channel.closing = w.channel.closing
  BY <1>1, QuietSame
<1>3. Room(t) /\ Room(sv)
  <2>1. Room(w) /\ Room(sv)
    BY <1>1 DEF Line
  <2> QED
    BY <1>1, <1>2, <2>1, RoomSame
<1>4. Line(sv, t, hs)
  BY <1>1, <1>2, <1>3, SenderRefl, LineFrame
<1>5. Line(t, sv, g)
  BY <1>1, <1>2, <1>3, ReceiverRefl, LineFrame
<1>6. /\ Low(t) = Low(w) /\ t.outReliable = w.outReliable /\ t.pendingOutRec = w.pendingOutRec
      /\ t.wire = w.wire /\ t \in End
  BY <1>2 DEF SameSender, Low
<1>7. t.fates = w.fates /\ t.receiving.busy = TRUE
  BY <1>1, <1>2 DEF SameReceiver
<1>8. /\ open => t.channel.opened = TRUE /\ t.channel.openAcked = TRUE
      /\ ~open => t.channel.opened = w.channel.opened
                  /\ t.channel.openAcked = w.channel.openAcked
  BY DEF Quiet
<1>9. t.channel.opened = t.channel.openAcked
  BY <1>1, <1>8
<1>10. Joined(t) => t.pendingOutRec = 0
  BY <1>1, <1>2, <1>6, <1>8 DEF Joined
<1>11. ~Joined(t) => ~Joined(cl) /\ SameSender(cl, t)
  <2>1. ~Joined(t) => ~Joined(w)
    BY <1>1, <1>2, <1>8 DEF Joined
  <2>2. SameSender(cl, w) => SameSender(cl, t)
    BY <1>2 DEF SameSender
  <2> QED
    BY <1>1, <2>1, <2>2
<1>12. ~t.channel.openedLocally /\ ~t.channel.closing
  BY <1>1, <1>2
<1>13. \A q \in Low(t) .. t.outReliable : ~g[q].close /\ ~g[q].open
  BY <1>1, <1>6
<1> QED
  BY <1>1, <1>2, <1>4, <1>5, <1>6, <1>7, <1>9, <1>10, <1>11, <1>12, <1>13 DEF Settled

\* The opening message: the numbers of the former channel are sent again.
Opens(sv, cl, hs, hc, w, u, v) ==
  /\ Settled(sv, cl, hs, hc, w) /\ ~w.channel.opened
  /\ Quiet(w, TRUE, u) /\ v = SetChannelActor(u)

LEMMA SettledOpen ==
  ASSUME NEW sv \in End, NEW cl \in End, NEW hs, NEW hc, Agree(sv, cl, hs, hc),
         cl.channel # NoChannel, incarnation \in Nat,
         NEW w, NEW u, NEW v, Opens(sv, cl, hs, hc, w, u, v)
  PROVE  \E g \in History : Settled(sv, cl, hs, g, v) /\ Queue(v) = Queue(u)
                            /\ v.inReliable = u.inReliable /\ Resumed(sv, cl, hc, v, g)
                            /\ v.state = u.state /\ SamePartial(u, v)
<1> Settled(sv, cl, hs, hc, w) /\ ~w.channel.opened
  BY DEF Opens
<1> Quiet(w, TRUE, u) /\ v = SetChannelActor(u)
  BY DEF Opens
<1>1. PICK open \in BOOLEAN : open = TRUE
  OBVIOUS
<1>2. /\ w \in End /\ hc \in History /\ hs \in History
      /\ ~Joined(cl) /\ SameSender(cl, w) /\ w.receiving.busy = TRUE
  <2>1. ~Joined(w)
    BY DEF Settled, Joined
  <2> QED
    BY <2>1 DEF Settled, Agree
<1>3. u.pendingOutRec = w.pendingOutRec /\ u.inReliable = w.inReliable /\ u \in End
  BY DEF Quiet
<1>4. CASE w.pendingOutRec = 0
  <2>1. Settled(sv, cl, hs, hc, u)
    BY <1>1, <1>2, <1>4, SettledQuiet
  <2>2. v = u
    BY <1>3, <1>4 DEF SetChannelActor
  <2>3. SameSender(w, u)
    BY <1>2, QuietSame
  <2>4. Resumed(sv, cl, hc, v, hc)
    BY <1>2, <1>4, <2>2, <2>3 DEF Resumed, SameSender, Low
  <2> QED
    BY <1>2, <2>1, <2>2, <2>4 DEF SamePartial
<1>5. CASE w.pendingOutRec # 0
  <2>1. /\ Line(sv, w, hs) /\ Line(w, sv, hc)
        /\ w.channel # NoChannel /\ ~w.channel.openedLocally /\ ~w.channel.closing
        /\ w.fates = cl.fates /\ w.wire = cl.wire
    BY DEF Settled
  <2>2. /\ SilentAfter(cl, 0) /\ sv.receiving.bunches = <<>> /\ Queue(sv) = <<>>
        /\ Joining(sv, cl)
    <3>1. ServerTurn(sv, cl) /\ JoinTurn(sv, cl)
      BY AgreeParts
    <3>2. Joining(sv, cl)
      BY <1>2, <3>1 DEF ServerTurn, Joining, Left
    <3> QED
      BY <3>1, <3>2 DEF JoinTurn
  <2>3. /\ SameSender(w, u) /\ SameReceiver(w, u)
        /\ u.channel # NoChannel
        /\ u.channel.openedLocally = w.channel.openedLocally
        /\ u.channel.closing = w.channel.closing
    BY <1>2, QuietSame
  <2>4. Room(u) /\ Room(sv)
    <3>1. Room(w) /\ Room(sv)
      BY <2>1 DEF Line
    <3> QED
      BY <1>2, <2>1, <2>3, <3>1, RoomSame
  <2>5. Line(sv, u, hs) /\ Line(u, sv, hc)
    BY <1>2, <2>1, <2>3, <2>4, SenderRefl, ReceiverRefl, LineFrame
  <2>6. u.channel.opened = TRUE /\ u.channel.openAcked = TRUE
    BY DEF Quiet
  <2>7. SilentAfter(u, 0) /\ u.wire = w.wire /\ u.fates = w.fates /\ u.receiving.busy = TRUE
    <3>1. u.wire = cl.wire /\ u.sendBuffer = cl.sendBuffer
      BY <1>2, <2>3 DEF SameSender
    <3> QED
      BY <1>2, <2>2, <2>1, <2>3, <3>1 DEF SilentAfter, SameReceiver
  <2>8. SyncedOut(u, v) /\ \E g \in History : SentAgain(v, sv, g)
    <3>1. /\ Line(u, sv, hc) /\ u.channel # NoChannel /\ u.channel.opened = TRUE
          /\ ~u.channel.closing /\ ~u.channel.openedLocally /\ u.pendingOutRec # 0
          /\ SilentAfter(u, 0) /\ sv.receiving.bunches = <<>> /\ Queue(sv) = <<>>
      BY <1>3, <1>5, <2>1, <2>2, <2>3, <2>5, <2>6, <2>7
    <3> QED
      BY <1>2, <1>3, <3>1, LineSynced
  <2>9. PICK g \in History :
             /\ Line(v, sv, g)
             /\ \A q \in Low(v) .. v.outReliable :
                  ~g[q].open /\ ~g[q].close /\ g[q].part = "whole"
    BY <2>8 DEF SentAgain
  <2>10. /\ v \in End /\ v.channel # NoChannel
         /\ v.channel.openedLocally = u.channel.openedLocally
         /\ v.channel.openAcked = u.channel.openAcked
         /\ v.channel.opened = u.channel.opened /\ v.channel.closing = u.channel.closing
         /\ v.wire = u.wire /\ v.unnotified = u.unnotified
         /\ v.fates = u.fates /\ v.receiving = u.receiving /\ v.inReliable = u.inReliable
         /\ v.pendingOutRec = 0 /\ Queue(v) = Queue(u) /\ v.state = u.state
         /\ v.channel.inPartial = u.channel.inPartial
         /\ v.outReliable = u.outReliable /\ Low(v) = Low(u)
    BY <2>8 DEF SyncedOut
  <2>11. SameReceiver(u, v)
    BY <2>10 DEF SameReceiver
  <2>12. Line(sv, v, hs)
    BY <1>2, <1>3, <2>4, <2>5, <2>11, SenderRefl, LineFrame
  <2>13. Joined(v)
    BY <2>6, <2>10 DEF Joined
  <2>14. Settled(sv, cl, hs, g, v)
    BY <2>1, <2>3, <2>6, <2>7, <2>9, <2>10, <2>12, <2>13 DEF Settled
  <2>15. Resumed(sv, cl, hc, v, g)
    <3>1. Low(u) = Low(cl) /\ u.outReliable = cl.outReliable
      BY <1>2, <2>3 DEF SameSender, Low
    <3>2. Plain(v, g)
      BY <2>9 DEF Plain
    <3> QED
      BY <2>2, <2>10, <3>1, <3>2 DEF Resumed
  <2>16. SamePartial(u, v)
    BY <2>3, <2>10 DEF SamePartial, Midway, Opening
  <2> QED
    BY <2>10, <2>14, <2>15, <2>16
<1> QED
  BY <1>4, <1>5

\* The client goes on with the channel.
LEMMA SettledStays ==
  ASSUME NEW sv \in End, NEW cl \in End, NEW hs, NEW hc, Agree(sv, cl, hs, hc),
         cl.channel # NoChannel, NEW g, NEW x, Settled(sv, cl, hs, g, x),
         Closing(sv) => x.inReliable # sv.outReliable
  PROVE  Agree(sv, x, hs, g)
<1>1. /\ hs \in History /\ ServerTurn(sv, cl) /\ CloseTurn(sv, cl, hs) /\ JoinTurn(sv, cl)
  BY AgreeParts
<1>2. /\ x \in End /\ g \in History /\ Line(sv, x, hs) /\ Line(x, sv, g)
      /\ \A q \in Low(x) .. x.outReliable : ~g[q].close /\ ~g[q].open
      /\ x.channel # NoChannel /\ ~x.channel.openedLocally /\ ~x.channel.closing
      /\ x.channel.opened = x.channel.openAcked
      /\ Joined(x) => x.pendingOutRec = 0
      /\ ~Joined(x) => ~Joined(cl) /\ SameSender(cl, x)
  BY DEF Settled
<1>3. ServerTurn(sv, x)
  BY <1>1 DEF ServerTurn
<1>4. CloseTurn(sv, x, hs)
  BY <1>1 DEF CloseTurn
<1>5. ClientTurn(x, g)
  BY <1>2 DEF ClientTurn
<1>6. JoinTurn(sv, x)
  <2>1. SUFFICES ASSUME Joining(sv, x)
                 PROVE  /\ SilentAfter(x, 0) /\ sv.receiving.bunches = <<>>
                        /\ Queue(sv) = <<>> /\ Records(x) = <<>>
    BY DEF JoinTurn
  <2>2. ~Joined(cl) /\ SameSender(cl, x) /\ sv.channel # NoChannel
    BY <1>2, <2>1 DEF Joining
  <2>3. Joining(sv, cl)
    BY <2>2 DEF Joining, Left
  <2>4. /\ SilentAfter(cl, 0) /\ sv.receiving.bunches = <<>>
        /\ Queue(sv) = <<>> /\ Records(cl) = <<>>
    BY <1>1, <2>3 DEF JoinTurn
  <2> QED
    BY <2>2, <2>4 DEF SameSender, SilentAfter
<1>7. LeaveTurn(sv, x)
  BY <1>2 DEF LeaveTurn, Left
<1> QED
  BY <1>1, <1>2, <1>3, <1>4, <1>5, <1>6, <1>7 DEF Agree, Turns

\* The client leaves, before the server may know.
LEMMA SettledLeaves ==
  ASSUME NEW sv \in End, NEW cl \in End, NEW hs, NEW hc, Agree(sv, cl, hs, hc), Told(cl),
         cl.channel # NoChannel, cl.receiving.busy,
         NEW g, NEW x, Settled(sv, cl, hs, g, x), Closing(sv), x.inReliable = sv.outReliable,
         Queue(x) = <<>>, NEW t, t = CleanUp(x),
         \E i \in DOMAIN Records(sv) :
           ~Records(sv)[i].acked /\ Records(sv)[i].packet = Taken(cl)
  PROVE  Agree(sv, t, hs, g) /\ Low(t) = Low(x) /\ t.outReliable = x.outReliable
<1>1. /\ hs \in History /\ ServerTurn(sv, cl) /\ CloseTurn(sv, cl, hs)
      /\ JoinTurn(sv, cl) /\ Room(sv)
  BY AgreeParts
<1>2. /\ x \in End /\ g \in History /\ Line(sv, x, hs) /\ Line(x, sv, g)
      /\ \A q \in Low(x) .. x.outReliable : ~g[q].close /\ ~g[q].open
      /\ x.channel # NoChannel /\ ~x.channel.openedLocally /\ ~x.channel.closing
      /\ x.receiving.busy = TRUE /\ x.fates = cl.fates /\ x.wire = cl.wire
  BY DEF Settled
<1>3. /\ t \in End /\ t.channel = NoChannel
      /\ t.wire = x.wire /\ t.sendBuffer = x.sendBuffer /\ t.unnotified = x.unnotified
      /\ t.outReliable = x.outReliable /\ t.inReliable = x.inReliable
      /\ t.fates = x.fates /\ t.receiving = x.receiving
      /\ x.channel.outRec = <<>> => t.pendingOutRec = x.pendingOutRec
      /\ x.channel.outRec # <<>> => t.pendingOutRec = x.channel.outRec[1].bunch.seq
  BY <1>2, CleanUpType
<1>4. Queue(t) = <<>> /\ Records(x) = x.channel.outRec
  BY <1>2, <1>3 DEF Queue, Records
<1>5. Line(t, sv, g) /\ Low(t) = Low(x)
  BY <1>2, <1>3, <1>4, LineRetired
<1>6. SameReceiver(x, t)
  BY <1>3, <1>4 DEF SameReceiver
<1>7. Line(sv, t, hs)
  BY <1>1, <1>2, <1>6, SenderRefl, LineFrame
<1>8. ServerTurn(sv, t)
  BY <1>1, <1>3 DEF ServerTurn, Closing
<1>9. CloseTurn(sv, t, hs)
  BY <1>1, <1>3 DEF CloseTurn
<1>10. ClientTurn(t, g)
  BY <1>2, <1>3, <1>5 DEF ClientTurn, Joined
<1>11. JoinTurn(sv, t)
  BY <1>3 DEF JoinTurn, Joining, Left
<1>12. LeaveTurn(sv, t)
  <2>1. SUFFICES ASSUME NEW i \in DOMAIN t.wire, TellsAll(Records(sv), t.wire[i].fates)
                 PROVE  FALSE
    BY DEF LeaveTurn
  <2>2. PICK k \in DOMAIN Records(sv) :
          ~Records(sv)[k].acked /\ Records(sv)[k].packet = Taken(cl)
    OBVIOUS
  <2>3. Taken(cl) \in 1 .. Len(t.wire[i].fates)
    BY <2>1, <2>2 DEF TellsAll
  <2>4. i \in 1 .. Len(cl.wire) /\ t.wire[i] = cl.wire[i]
    BY <1>2, <1>3, <2>1, Lengths
  <2>5. Len(cl.wire[i].fates) <= Len(cl.fates)
    BY <2>4 DEF Told, Begins
  <2>6. Taken(cl) = Len(cl.fates) + cl.receiving.lost + 1
    <3>1. Len(cl.fates) \in Nat /\ cl.receiving.lost \in Nat
      BY EndTypes, Lengths
    <3> QED
      BY <3>1 DEF Taken
  <2>7. PICK f \in Nat, l \in Nat : f = Len(cl.fates) /\ l = cl.receiving.lost
    BY EndTypes, Lengths
  <2>8. PICK m \in Nat : m = Len(cl.wire[i].fates)
    <3>1. cl.wire[i] \in Packet
      BY <2>4, EndTypes, Lengths
    <3>2. cl.wire[i].fates \in Seq(BOOLEAN)
      BY <3>1 DEF Packet
    <3> QED
      BY <3>2
  <2>9. f + l + 1 \in 1 .. m /\ m <= f
    BY <2>3, <2>4, <2>5, <2>6, <2>7, <2>8
  <2> QED
    BY <2>9
<1> QED
  BY <1>1, <1>2, <1>3, <1>5, <1>7, <1>8, <1>9, <1>10, <1>11, <1>12 DEF Agree, Turns

LEMMA QuietRenewed ==
  ASSUME NEW sv, NEW cl, NEW hc, NEW w \in End, Gone(cl, w), NEW t, Quiet(w, FALSE, t)
  PROVE  /\ Renewed(sv, cl, hc, t, hc)
         /\ Low(t) = Low(cl) /\ t.outReliable = cl.outReliable /\ (Joined(t) <=> Joined(cl))
<1>1. /\ SameSender(cl, w) /\ cl.channel # NoChannel /\ w.channel # NoChannel
      /\ w.channel.openAcked = cl.channel.openAcked /\ w.receiving.busy = TRUE
  BY DEF Gone
<1>2. t.channel # NoChannel /\ t.channel.openAcked = w.channel.openAcked
  BY DEF Quiet
<1>3. SameSender(w, t)
  BY <1>1, QuietSame
<1>4. Low(t) = Low(cl) /\ t.outReliable = cl.outReliable
  BY <1>1, <1>3 DEF SameSender, Low
<1>5. Joined(t) <=> Joined(cl)
  BY <1>1, <1>2 DEF Joined
<1>6. Joining(sv, cl) => Joining(sv, t)
  BY <1>2, <1>5 DEF Joining, Left
<1> QED
  BY <1>4, <1>5, <1>6 DEF Renewed

LEMMA ClientTakes ==
  ASSUME NEW sv \in End, NEW cl \in End, NEW hs, NEW hc, Agree(sv, cl, hs, hc), Told(cl),
         incarnation \in Nat, cl.receiving.busy,
         NEW w, Gone(cl, w), Line(sv, w, hs), NEW b, Sent(sv, cl, hs, b),
         b.rel => w.inReliable = b.seq, ~b.rel => w.inReliable = cl.inReliable,
         NEW t, Took(w, b, t), t.state # "error"
  PROVE  \E g \in History : Agree(sv, t, hs, g) /\ Renewed(sv, cl, hc, t, g)
<1>1. /\ hs \in History /\ hc \in History /\ ServerTurn(sv, cl) /\ CloseTurn(sv, cl, hs)
  BY AgreeParts
<1>2. /\ Settled(sv, cl, hs, hc, w) /\ cl.channel # NoChannel /\ w \in End
  <2>1. cl.channel # NoChannel
    BY DEF Gone
  <2>2. Settled(sv, cl, hs, hc, w)
    BY SettledGone
  <2> QED
    BY <2>1, <2>2 DEF Settled
<1>3. Closing(sv) /\ w.inReliable = sv.outReliable => b.rel /\ b.close /\ b.part = "whole"
  BY <1>1, <1>2 DEF CloseTurn, Sent
<1>4. b.close => /\ Closing(sv) /\ w.inReliable = sv.outReliable
                 /\ \E i \in DOMAIN Records(sv) :
                      ~Records(sv)[i].acked /\ Records(sv)[i].packet = Taken(cl)
  <2>1. SUFFICES ASSUME b.close
                 PROVE  /\ Closing(sv) /\ w.inReliable = sv.outReliable
                        /\ \E i \in DOMAIN Records(sv) :
                             ~Records(sv)[i].acked /\ Records(sv)[i].packet = Taken(cl)
    OBVIOUS
  <2>2. b.rel
    BY <2>1 DEF Sent
  <2>3. /\ b.seq \in Low(sv) .. sv.outReliable /\ hs[b.seq].close /\ w.inReliable = b.seq
    BY <2>1, <2>2 DEF Sent
  <2>4. b.seq = sv.outReliable /\ Closing(sv)
    BY <1>1, <2>3 DEF CloseTurn
  <2>5. sv.pendingOutRec = 0
    BY <1>1 DEF ServerTurn
  <2> QED
    BY <2>2, <2>3, <2>4, <2>5 DEF Sent
<1>f. PICK no \in BOOLEAN : no = FALSE
  OBVIOUS
<1>5. CASE Quiet(w, FALSE, t) /\ ~(b.rel /\ b.part = "whole")
  <2>1. Settled(sv, cl, hs, hc, t)
    BY <1>1, <1>2, <1>5, <1>f, SettledQuiet
  <2>2. t.inReliable = w.inReliable
    BY <1>5 DEF Quiet
  <2>3. Closing(sv) => t.inReliable # sv.outReliable
    BY <1>3, <1>5, <2>2
  <2>4. Agree(sv, t, hs, hc)
    BY <1>1, <1>2, <2>1, <2>3, SettledStays
  <2>5. Renewed(sv, cl, hc, t, hc)
    BY <1>2, <1>5, QuietRenewed
  <2> QED
    BY <1>1, <2>4, <2>5
<1>6. ASSUME NEW u \in End, NEW open \in BOOLEAN, NEW close \in BOOLEAN,
             Quiet(w, FALSE, u), Given(u, open, close, t), Completes(b, open, close)
      PROVE  \E g \in History : Agree(sv, t, hs, g) /\ Renewed(sv, cl, hc, t, g)
  <2>1. Settled(sv, cl, hs, hc, u) /\ u.inReliable = w.inReliable
    <3>1. u.inReliable = w.inReliable
      BY <1>6 DEF Quiet
    <3> QED
      BY <1>1, <1>2, <1>6, <1>f, <3>1, SettledQuiet
  <2>2. PICK x \in End, v \in End :
          /\ Quiet(u, open, x)
          /\ open => ~u.channel.openedLocally /\ ~u.channel.opened
          /\ ~open => u.channel.openedLocally \/ u.channel.openAcked
          /\ open /\ ~u.channel.closing => v = SetChannelActor(x)
          /\ ~(open /\ ~u.channel.closing) => v = x
          /\ ~close => t = v
          /\ close => t = CleanUp(v) /\ u.channel.inRec = <<>>
    BY <1>6 DEF Given
  <2>3. x.inReliable = w.inReliable /\ Queue(x) = Queue(u) /\ u.channel # NoChannel
        /\ ~u.channel.closing
    <3>1. x.inReliable = u.inReliable /\ u.channel # NoChannel /\ x.channel # NoChannel
          /\ x.channel.inRec = u.channel.inRec
      BY <2>2 DEF Quiet
    <3>2. ~u.channel.closing
      BY <2>1 DEF Settled
    <3> QED
      BY <2>1, <3>1, <3>2 DEF Queue
  <2>4. \E g \in History :
          /\ Settled(sv, cl, hs, g, v) /\ Queue(v) = Queue(u) /\ v.inReliable = w.inReliable
          /\ Renewed(sv, cl, hc, v, g) /\ (close => Resumed(sv, cl, hc, v, g) \/ ~Joining(sv, cl))
    <3>1. CASE open
      <4>1. v = SetChannelActor(x) /\ ~u.channel.opened /\ Quiet(u, TRUE, x)
        BY <2>2, <2>3, <3>1
      <4>3. Opens(sv, cl, hs, hc, u, x, v)
        BY <2>1, <4>1 DEF Opens
      <4>2. \E g \in History : Settled(sv, cl, hs, g, v) /\ Queue(v) = Queue(x)
                               /\ v.inReliable = x.inReliable /\ Resumed(sv, cl, hc, v, g)
        BY <1>2, <4>3, SettledOpen
      <4> QED
        BY <2>3, <4>2 DEF Renewed
    <3>2. CASE ~open
      <4>1. v = x
        BY <2>2, <3>2
      <4>2. Settled(sv, cl, hs, hc, x)
        BY <1>1, <2>1, <2>2, <3>2, SettledQuiet
      <4>3. Quiet(w, FALSE, x)
        <5>1. Quiet(u, FALSE, x) /\ Quiet(w, FALSE, u)
          BY <1>6, <2>2, <3>2
        <5> QED
          BY <1>2, <1>f, <5>1, QuietTrans
      <4>4. Renewed(sv, cl, hc, x, hc) /\ (Joined(u) <=> Joined(cl))
        BY <1>2, <1>6, <4>3, QuietRenewed
      <4>5. Joined(cl)
        BY <2>1, <2>2, <2>3, <3>2, <4>4 DEF Settled, Joined
      <4> QED
        BY <1>1, <2>3, <4>1, <4>2, <4>4, <4>5 DEF Joining
    <3> QED
      BY <3>1, <3>2
  <2>5. PICK g \in History :
          /\ Settled(sv, cl, hs, g, v) /\ Queue(v) = Queue(u) /\ v.inReliable = w.inReliable
          /\ Renewed(sv, cl, hc, v, g) /\ (close => Resumed(sv, cl, hc, v, g) \/ ~Joining(sv, cl))
    BY <2>4
  <2>6. CASE ~close
    <3>1. Closing(sv) => v.inReliable # sv.outReliable
      BY <1>3, <1>6, <2>5, <2>6 DEF Completes
    <3>2. Agree(sv, v, hs, g)
      BY <1>2, <2>5, <3>1, SettledStays
    <3> QED
      BY <2>2, <2>5, <2>6, <3>2
  <2>7. CASE close
    <3>1. b.close
      BY <1>6, <2>7 DEF Completes
    <3>2. /\ Closing(sv) /\ v.inReliable = sv.outReliable
          /\ \E i \in DOMAIN Records(sv) :
               ~Records(sv)[i].acked /\ Records(sv)[i].packet = Taken(cl)
      BY <1>4, <2>5, <3>1
    <3>3. t = CleanUp(v) /\ Queue(v) = <<>>
      BY <2>2, <2>3, <2>5, <2>7 DEF Queue
    <3>4. Agree(sv, t, hs, g) /\ Low(t) = Low(v) /\ t.outReliable = v.outReliable
      BY <1>2, <2>5, <3>2, <3>3, SettledLeaves
    <3>5. Renewed(sv, cl, hc, t, g)
      BY <2>5, <2>7, <3>4 DEF Renewed, Resumed, Plain
    <3> QED
      BY <3>4, <3>5
  <2> QED
    BY <2>6, <2>7
<1>7. \/ Quiet(w, FALSE, t) /\ ~(b.rel /\ b.part = "whole")
      \/ \E u \in End, open \in BOOLEAN, close \in BOOLEAN :
           Quiet(w, FALSE, u) /\ Given(u, open, close, t) /\ Completes(b, open, close)
  BY DEF Took
<1> QED
  BY <1>5, <1>6, <1>7

\* The client creates its channel for a bunch that it does not have.
LEMMA ClientCreates ==
  ASSUME NEW sv \in End, NEW cl \in End, NEW hs, NEW hc, Agree(sv, cl, hs, hc),
         cl.channel = NoChannel, NEW q \in Low(sv) .. sv.outReliable, q > cl.inReliable,
         NEW cm, Created(cl, FALSE, cm)
  PROVE  Agree(sv, cm, hs, hc) /\ cm \in End
<1>1. /\ hs \in History /\ hc \in History
      /\ Line(sv, cl, hs) /\ Line(cl, sv, hc)
      /\ ServerTurn(sv, cl) /\ CloseTurn(sv, cl, hs) /\ ClientTurn(cl, hc)
      /\ JoinTurn(sv, cl) /\ Room(sv) /\ Room(cl)
  BY AgreeParts
<1>2. /\ cm \in End /\ cm.channel # NoChannel
      /\ cm.channel.openedLocally = FALSE
      /\ cm.channel.opened = FALSE /\ cm.channel.openAcked = FALSE /\ cm.channel.closing = FALSE
      /\ cm.channel.outRec = <<>> /\ cm.channel.inRec = <<>>
      /\ cm.wire = cl.wire /\ cm.sendBuffer = cl.sendBuffer
      /\ cm.unnotified = cl.unnotified /\ cm.outReliable = cl.outReliable
      /\ cm.inReliable = cl.inReliable /\ cm.pendingOutRec = cl.pendingOutRec
      /\ cm.fates = cl.fates /\ cm.receiving = cl.receiving
  BY DEF Created
<1>3. Records(cl) = <<>> /\ Queue(cl) = <<>> /\ Records(cm) = <<>> /\ Queue(cm) = <<>>
  BY <1>2 DEF Records, Queue
<1>4. SameSender(cl, cm) /\ SameReceiver(cl, cm)
  BY <1>2, <1>3 DEF SameSender, SameReceiver
<1>5. Room(cm)
  BY <1>1, <1>4, RoomSame
<1>6. Line(sv, cm, hs) /\ Line(cm, sv, hc)
  BY <1>1, <1>4, <1>5, SenderRefl, ReceiverRefl, LineFrame
<1>7. sv.channel # NoChannel
  <2>1. SUFFICES ASSUME sv.channel = NoChannel PROVE FALSE
    OBVIOUS
  <2>2. Records(sv) = <<>> /\ sv.pendingOutRec = 0
    BY <1>1, <2>1 DEF Records, ServerTurn
  <2>3. Low(sv) = sv.outReliable + 1
    <3>1. Len(Records(sv)) = 0
      BY <2>2
    <3>2. sv.outReliable \in Nat
      BY EndTypes
    <3> QED
      BY <2>2, <3>1, <3>2, Lengths
  <2> QED
    BY <2>3, EndTypes
<1>8. cl.inReliable # sv.outReliable
  <2>1. Low(sv) \in Int /\ sv.outReliable \in Nat /\ cl.inReliable \in Nat
    BY EndTypes, Lengths
  <2> QED
    BY <2>1
<1>9. Joining(sv, cl)
  BY <1>7, <1>8 DEF Joining, Joined, Left
<1>10. Low(cm) = Low(cl)
  BY <1>4 DEF SameSender, Low
<1>11. ServerTurn(sv, cm)
  BY <1>1, <1>7 DEF ServerTurn
<1>12. CloseTurn(sv, cm, hs)
  BY <1>1, <1>2, <1>8 DEF CloseTurn
<1>13. ClientTurn(cm, hc)
  BY <1>1, <1>2, <1>10 DEF ClientTurn, Joined
<1>14. JoinTurn(sv, cm)
  BY <1>1, <1>2, <1>3, <1>9 DEF JoinTurn, SilentAfter
<1>15. LeaveTurn(sv, cm)
  BY <1>2 DEF LeaveTurn, Left
<1> QED
  BY <1>1, <1>2, <1>6, <1>11, <1>12, <1>13, <1>14, <1>15 DEF Agree, Turns
-----------------------------------------------------------------------------
(* One turn of the loop over the bunches of a packet.                      *)

\* For the agreement nothing has happened but that the receiver has gone on.
Stays(r, t) ==
  SameSender(r, t) /\ ServerSame(r, t) /\ ClientSame(r, t) /\ (Room(r) => Room(t))

LEMMA StaysProps ==
  ASSUME NEW r \in End, r.receiving.bunches # <<>> \/ Queue(r) # <<>>,
         NEW t, SameSender(r, t), t.inReliable = r.inReliable,
         t.channel = NoChannel <=> r.channel = NoChannel,
         r.channel # NoChannel => /\ t.channel.openedLocally = r.channel.openedLocally
                                  /\ t.channel.closing = r.channel.closing
                                  /\ t.channel.opened = r.channel.opened
                                  /\ t.channel.openAcked = r.channel.openAcked
  PROVE  Stays(r, t)
<1>1. /\ t.wire = r.wire /\ t.sendBuffer = r.sendBuffer
      /\ t.outReliable = r.outReliable
      /\ t.pendingOutRec = r.pendingOutRec /\ Records(t) = Records(r)
  BY DEF SameSender
<1>2. Low(t) = Low(r)
  BY <1>1 DEF Low
<1>3. ServerSame(r, t)
  BY <1>1, <1>2 DEF ServerSame
<1>4. ClientSame(r, t)
  <2>1. Silences(r, t)
    BY <1>1, SilencesSame
  <2>2. Low(t) >= Low(r)
    BY <1>2, Lengths
  <2> QED
    BY <1>1, <2>1, <2>2 DEF ClientSame
<1>5. Room(r) => Room(t)
  BY RoomSame
<1> QED
  BY <1>3, <1>4, <1>5 DEF Stays

LEMMA AgreeStays ==
  ASSUME NEW sv \in End, NEW cl \in End, NEW hs, NEW hc, Agree(sv, cl, hs, hc)
  PROVE  /\ \A t : Stays(sv, t) /\ Line(cl, t, hc) => Agree(t, cl, hs, hc)
         /\ \A t : Stays(cl, t) /\ Line(sv, t, hs) => Agree(sv, t, hs, hc)
<1>1. /\ hs \in History /\ hc \in History
      /\ Line(sv, cl, hs) /\ Line(cl, sv, hc) /\ Turns(sv, cl, hs, hc)
      /\ Room(sv) /\ Room(cl)
  BY AgreeParts
<1>2. ASSUME NEW t, Stays(sv, t), Line(cl, t, hc) PROVE Agree(t, cl, hs, hc)
  <2>1. SameSender(sv, t) /\ ServerSame(sv, t) /\ Room(t) /\ t \in End
    BY <1>1, <1>2 DEF Stays, SameSender
  <2>2. Line(t, cl, hs)
    BY <1>1, <2>1, ReceiverRefl, LineFrame
  <2>3. Turns(t, cl, hs, hc)
    BY <1>1, <2>1, ClientRefl, TurnsSame
  <2> QED
    BY <1>1, <1>2, <2>2, <2>3 DEF Agree
<1>3. ASSUME NEW t, Stays(cl, t), Line(sv, t, hs) PROVE Agree(sv, t, hs, hc)
  <2>1. SameSender(cl, t) /\ ClientSame(cl, t) /\ Room(t) /\ t \in End
    BY <1>1, <1>3 DEF Stays, SameSender
  <2>2. Line(t, sv, hc)
    BY <1>1, <2>1, ReceiverRefl, LineFrame
  <2>3. Turns(sv, t, hs, hc)
    BY <1>1, <2>1, ServerRefl, TurnsSame
  <2> QED
    BY <1>1, <1>3, <2>2, <2>3 DEF Agree
<1> QED
  BY <1>2, <1>3

\* The bunch was left out, waits already, or waits now.
PutAside(s, r, h, t) ==
  Stays(r, t) /\ Line(s, t, h) /\ t.state = r.state /\ SamePartial(r, t)

\* It was handed to the channel: w is the end that has gone on to it.
Handing(r, w, b, t) ==
  /\ Gone(r, w) /\ w \in End /\ Bounded(w) /\ w.state = r.state
  /\ w.channel.inPartial = r.channel.inPartial
  /\ w.receiving.skipAck = r.receiving.skipAck
  /\ t = Handles(w, b) /\ Took(w, b, t)
  /\ b.rel => w.inReliable = b.seq /\ b.seq = r.inReliable + 1
  /\ ~b.rel => w.inReliable = r.inReliable

HandedOn(s, r, h, b, t) == \E w : Line(s, w, h) /\ Handing(r, w, b, t)

\* The receiver is at bunch b: a in the packet, u is what remains.
AtBunch(s, r, h, u, a, b) ==
  /\ Line(s, r, h) /\ r.receiving.bunches # <<>> /\ ~Ready(r)
  /\ Unpacked(r, u, a, b) /\ a = r.receiving.bunches[1]

\* What is known then.
AtBunchIs(s, r, h, u, a, b) ==
  /\ Sent(s, r, h, b) /\ b \in Bunch /\ (b.rel <=> a.rel) /\ (b.rel => a.tag.seq = b.seq)
  /\ u \in End /\ u.channel = r.channel /\ SameSender(r, u)
  /\ u.state = r.state /\ u.inReliable = r.inReliable /\ Queue(u) = Queue(r)
  /\ u.receiving.busy = TRUE /\ r.receiving.busy = TRUE
  /\ Moves(r, Tail(r.receiving.bunches), Queue(r), r.inReliable, u)
  /\ b.seq \in Nat /\ r.inReliable \in Nat /\ b.rel \in BOOLEAN
  /\ u.fates = r.fates /\ u.receiving.lost = r.receiving.lost
  /\ u.receiving.skipAck = r.receiving.skipAck

LEMMA AtBunchFacts ==
  ASSUME NEW s \in End, NEW r \in End, NEW h \in History, NEW u, NEW a, NEW b,
         AtBunch(s, r, h, u, a, b)
  PROVE  AtBunchIs(s, r, h, u, a, b)
<1>1. /\ Line(s, r, h) /\ r.receiving.bunches # <<>>
      /\ Unpacked(r, u, a, b) /\ a = r.receiving.bunches[1]
  BY DEF AtBunch
<1>2. Sent(s, r, h, b) /\ b \in Bunch /\ (b.rel => a.tag.seq = b.seq)
  <2>1. Sent(s, r, h, b) /\ (b.rel => a.tag.seq = b.seq)
    <3>1. Unpacks(r, u, a, b)
      BY <1>1 DEF Unpacks
    <3> QED
      BY <1>1, <3>1, UnpackedSent
  <2> QED
    BY <2>1 DEF Sent
<1>3. /\ u \in End /\ u.state = r.state
      /\ u.wire = r.wire /\ u.sendBuffer = r.sendBuffer /\ u.unnotified = r.unnotified
      /\ u.outReliable = r.outReliable /\ u.inReliable = r.inReliable
      /\ u.pendingOutRec = r.pendingOutRec /\ u.fates = r.fates /\ u.channel = r.channel
      /\ u.receiving.busy = r.receiving.busy /\ u.receiving.lost = r.receiving.lost
      /\ u.receiving.bunches = Tail(r.receiving.bunches)
      /\ u.receiving.skipAck = r.receiving.skipAck
      /\ b.rel = a.rel
  BY <1>1 DEF Unpacked
<1>4. Queue(u) = Queue(r) /\ Records(u) = Records(r)
  BY <1>3 DEF Queue, Records
<1>5. r.receiving.busy = TRUE
  BY <1>1, BusyWith
<1>6. b.seq \in Nat /\ b.rel \in BOOLEAN
  BY <1>2 DEF Bunch
<1>7. r.inReliable \in Nat
  BY EndTypes
<1>8. Moves(r, Tail(r.receiving.bunches), Queue(r), r.inReliable, u)
  BY <1>3, <1>4 DEF Moves
<1>9. SameSender(r, u)
  BY <1>3, <1>4 DEF SameSender
<1> QED
  BY <1>2, <1>3, <1>4, <1>5, <1>6, <1>7, <1>8, <1>9 DEF AtBunchIs

\* The receiver leaves the bunch out.
LEMMA AtBunchLeft ==
  ASSUME NEW s \in End, NEW r \in End, NEW h \in History, NEW u, NEW a, NEW b,
         AtBunch(s, r, h, u, a, b), ~b.rel \/ Has(r, b.seq) \/ Records(s) = <<>>,
         NEW t, t = u \/ t = SkipAck(u)
  PROVE  PutAside(s, r, h, t)
<1>1. /\ Line(s, r, h) /\ r.receiving.bunches # <<>> /\ a = r.receiving.bunches[1]
  BY DEF AtBunch
<1>2. /\ (b.rel <=> a.rel) /\ (b.rel => a.tag.seq = b.seq)
      /\ u \in End /\ u.channel = r.channel /\ SameSender(r, u)
      /\ u.inReliable = r.inReliable /\ u.state = r.state
      /\ Moves(r, Tail(r.receiving.bunches), Queue(r), r.inReliable, u)
  <2>1. AtBunchIs(s, r, h, u, a, b)
    BY AtBunchFacts
  <2> QED
    BY <2>1 DEF AtBunchIs
<1>3. /\ t \in End /\ t.channel = r.channel /\ SameSender(r, t) /\ t.inReliable = r.inReliable
      /\ t.state = r.state
      /\ Moves(r, Tail(r.receiving.bunches), Queue(r), r.inReliable, t)
  <2>1. CASE t = u
    BY <1>2, <2>1
  <2>2. CASE t = SkipAck(u)
    <3>1. /\ t \in End
          /\ t.receiving.busy = u.receiving.busy /\ t.receiving.bunches = u.receiving.bunches
          /\ t.receiving.lost = u.receiving.lost /\ t.receiving.skipAck = TRUE
          /\ t.wire = u.wire /\ t.sendBuffer = u.sendBuffer /\ t.unnotified = u.unnotified
          /\ t.channel = u.channel /\ t.outReliable = u.outReliable
          /\ t.inReliable = u.inReliable /\ t.pendingOutRec = u.pendingOutRec
          /\ t.fates = u.fates /\ t.state = u.state
      <4>1. u \in End
        BY <1>2
      <4> QED
        BY <2>2, <4>1, SkipAckType, ZenonT(30)
    <3>2. Queue(t) = Queue(u) /\ Records(t) = Records(u)
      BY <3>1 DEF Queue, Records
    <3>3. SameSender(r, t)
      BY <1>2, <3>1, <3>2 DEF SameSender
    <3>4. Moves(r, Tail(r.receiving.bunches), Queue(r), r.inReliable, t)
      BY <1>2, <3>1, <3>2 DEF Moves
    <3> QED
      BY <1>2, <3>1, <3>3, <3>4
  <2> QED
    BY <2>1, <2>2
<1>4. ~a.rel \/ Has(r, a.tag.seq) \/ Records(s) = <<>>
  BY <1>2
<1>5. Line(s, t, h)
  BY <1>1, <1>3, <1>4, LineSkipped
<1>6. Stays(r, t)
  BY <1>1, <1>3, StaysProps
<1>7. SamePartial(r, t)
  BY <1>3, ChannelPartial
<1> QED
  BY <1>3, <1>5, <1>6, <1>7 DEF PutAside

\* It puts it into InRec.
LEMMA AtBunchQueued ==
  ASSUME NEW s \in End, NEW r \in End, NEW h \in History, NEW u, NEW a, NEW b,
         AtBunch(s, r, h, u, a, b), r.channel # NoChannel, b.rel, b.seq > r.inReliable + 1,
         NEW t, Enqueued(u, b, t)
  PROVE  PutAside(s, r, h, t)
<1>1. /\ Line(s, r, h) /\ r.receiving.bunches # <<>> /\ a = r.receiving.bunches[1] /\ ~Ready(r)
  BY DEF AtBunch
<1>2. /\ a.rel /\ a.tag.seq = b.seq /\ b \in Bunch /\ Sent(s, r, h, b)
      /\ u \in End /\ u.channel = r.channel /\ SameSender(r, u)
      /\ u.inReliable = r.inReliable /\ u.state = r.state
      /\ Moves(r, Tail(r.receiving.bunches), Queue(r), r.inReliable, u)
  <2>1. AtBunchIs(s, r, h, u, a, b)
    BY AtBunchFacts
  <2> QED
    BY <2>1 DEF AtBunchIs
<1>3. b.seq \in Low(s) .. s.outReliable /\ b = h[b.seq]
  BY <1>2 DEF Sent
<1>4. Queue(r) = r.channel.inRec
  BY DEF Queue
<1>5. PICK n \in 0 .. Len(Queue(r)) :
        /\ \A i \in 1 .. n : Queue(r)[i].seq < b.seq
        /\ n < Len(Queue(r)) => Queue(r)[n + 1].seq > b.seq
        /\ t \in End /\ t.channel # NoChannel
        /\ t.channel.inRec = SubSeq(Queue(r), 1, n) \o <<b>> \o SubSeq(Queue(r), n + 1, Len(Queue(r)))
        /\ t.channel.outRec = u.channel.outRec
        /\ t.channel.openedLocally = u.channel.openedLocally
        /\ t.channel.closing = u.channel.closing
        /\ t.channel.opened = u.channel.opened /\ t.channel.openAcked = u.channel.openAcked
        /\ t.wire = u.wire /\ t.sendBuffer = u.sendBuffer
        /\ t.unnotified = u.unnotified /\ t.outReliable = u.outReliable
        /\ t.inReliable = u.inReliable /\ t.pendingOutRec = u.pendingOutRec
        /\ t.fates = u.fates /\ t.receiving = u.receiving
        /\ t.state = u.state /\ t.channel.inPartial = u.channel.inPartial
  BY <1>2, <1>4, ZenonT(30) DEF Enqueued
<1>6. /\ Queue(t) = SubSeq(Queue(r), 1, n) \o <<b>> \o SubSeq(Queue(r), n + 1, Len(Queue(r)))
      /\ Records(t) = Records(u)
  BY <1>2, <1>5 DEF Queue, Records
<1>7. SameSender(r, t)
  BY <1>2, <1>5, <1>6 DEF SameSender
<1>8. Moves(r, Tail(r.receiving.bunches),
            SubSeq(Queue(r), 1, n) \o <<b>> \o SubSeq(Queue(r), n + 1, Len(Queue(r))),
            r.inReliable, t)
  BY <1>2, <1>5, <1>6 DEF Moves
<1>9. Line(s, t, h)
  BY <1>1, <1>2, <1>3, <1>5, <1>8, LineQueued
<1>10. Stays(r, t)
  BY <1>1, <1>2, <1>5, <1>7, StaysProps
<1>11. SamePartial(r, t)
  BY <1>2, <1>5, ChannelPartial
<1> QED
  BY <1>2, <1>5, <1>9, <1>10, <1>11 DEF PutAside

\* It hands it to the channel.
LEMMA AtBunchHanded ==
  ASSUME NEW s \in End, NEW r \in End, NEW h \in History, NEW u, NEW a, NEW b,
         AtBunch(s, r, h, u, a, b), r.channel # NoChannel,
         b.rel => b.seq = r.inReliable + 1, Bounded(u), incarnation \in Nat,
         NEW t, t = ReceivedNextBunch(u, b)
  PROVE  HandedOn(s, r, h, b, t)
<1>1. /\ Line(s, r, h) /\ r.receiving.bunches # <<>> /\ a = r.receiving.bunches[1] /\ ~Ready(r)
  BY DEF AtBunch
<1>2. /\ (b.rel <=> a.rel) /\ (b.rel => a.tag.seq = b.seq) /\ b \in Bunch
      /\ u \in End /\ u.channel = r.channel /\ SameSender(r, u)
      /\ u.inReliable = r.inReliable /\ u.receiving.busy = TRUE /\ Queue(u) = Queue(r)
      /\ u.fates = r.fates /\ u.receiving.lost = r.receiving.lost
      /\ u.state = r.state /\ u.receiving.skipAck = r.receiving.skipAck
      /\ Moves(r, Tail(r.receiving.bunches), Queue(r), r.inReliable, u)
  <2>1. AtBunchIs(s, r, h, u, a, b)
    BY AtBunchFacts
  <2> QED
    BY <2>1 DEF AtBunchIs
<1>3. PICK w : w = Advanced(u, b)
  OBVIOUS
<1>4. /\ w \in End
      /\ b.rel => w.inReliable = b.seq
      /\ ~b.rel => w.inReliable = u.inReliable
      /\ w.channel = u.channel
      /\ w.wire = u.wire /\ w.sendBuffer = u.sendBuffer /\ w.unnotified = u.unnotified
      /\ w.outReliable = u.outReliable /\ w.pendingOutRec = u.pendingOutRec
      /\ w.fates = u.fates /\ w.receiving = u.receiving /\ w.state = u.state
  BY <1>2, <1>3, AdvancedType
<1>5. Queue(w) = Queue(u) /\ Records(w) = Records(u)
  BY <1>4 DEF Queue, Records
<1>6. SameSender(r, w)
  BY <1>2, <1>4, <1>5 DEF SameSender
<1>7. Gone(r, w)
  BY <1>2, <1>4, <1>6 DEF Gone
<1>8. PICK n : n = w.inReliable
  OBVIOUS
<1>9. Moves(r, Tail(r.receiving.bunches), Queue(r), n, w)
  BY <1>2, <1>4, <1>5, <1>8 DEF Moves
<1>10. (a.rel => n = a.tag.seq /\ n = r.inReliable + 1) /\ (~a.rel => n = r.inReliable)
  BY <1>2, <1>4, <1>8
<1>11. Line(s, w, h)
  BY <1>1, <1>9, <1>10, LineTaken
<1>12. Bounded(w)
  BY <1>4, <1>5 DEF Bounded
<1>13. t = Handles(w, b) /\ Took(w, b, t)
  <2>1. t = Handles(w, b)
    BY <1>3, ReceivedNextBunchIs
  <2>2. Took(Advanced(u, b), b, t)
    BY <1>2, ReceivedNextBunchType
  <2> QED
    BY <1>3, <2>1, <2>2
<1>14. /\ w.state = r.state /\ w.channel.inPartial = r.channel.inPartial
       /\ w.receiving.skipAck = r.receiving.skipAck
       /\ b.rel => w.inReliable = b.seq /\ b.seq = r.inReliable + 1
       /\ ~b.rel => w.inReliable = r.inReliable
  BY <1>2, <1>4
<1>15. Handing(r, w, b, t)
  BY <1>4, <1>7, <1>12, <1>13, <1>14 DEF Handing
<1> QED
  BY <1>11, <1>15 DEF HandedOn

\* InRec holds later numbers only, each once: it is never full.
LEMMA QueueLength ==
  ASSUME NEW s \in End, NEW t \in End, NEW h \in History, Queued(s, t, h), ~Ready(t),
         Room(s), Low(s) - 1 <= t.inReliable
  PROVE  Queue(t) # <<>> => Len(Queue(t)) < ReliableBuffer
<1> SUFFICES ASSUME Queue(t) # <<>> PROVE Len(Queue(t)) < ReliableBuffer
  OBVIOUS
<1>1. PICK a \in Seq(Bunch) : a = Queue(t)
  BY EndTypes
<1>2. PICK N \in Nat, O \in Nat, L \in Int :
        N = t.inReliable /\ O = s.outReliable /\ L = Low(s)
  BY EndTypes, Lengths
<1>3. PICK l \in Nat : l = Len(a) /\ l >= 1
  BY <1>1
<1>4. \A i \in 1 .. l : a[i].seq \in N + 1 .. O
  BY <1>1, <1>2, <1>3 DEF Queued
<1>5. \A i, j \in 1 .. l : i < j => a[i].seq < a[j].seq
  BY <1>1, <1>3 DEF Queued
<1>6. a[1].seq # N + 1
  BY <1>1, <1>2, <1>3 DEF Ready
<1> DEFINE S == {i \in Nat : i \in 1 .. l => a[i].seq >= N + 1 + i}
<1>7. Nat \subseteq S
  <2>1. 0 \in S
    OBVIOUS
  <2>2. ASSUME NEW i \in Nat, i \in S PROVE i + 1 \in S
    <3> SUFFICES ASSUME i + 1 \in 1 .. l PROVE a[i + 1].seq >= N + 1 + (i + 1)
      OBVIOUS
    <3>1. CASE i = 0
      <4>1. a[1].seq \in N + 1 .. O
        BY <1>3, <1>4
      <4> QED
        BY <1>6, <3>1, <4>1
    <3>2. CASE i # 0
      <4>1. i \in 1 .. l /\ i < i + 1
        BY <3>2
      <4>2. a[i].seq >= N + 1 + i
        BY <2>2, <4>1
      <4>3. a[i].seq \in N + 1 .. O /\ a[i + 1].seq \in N + 1 .. O /\ a[i].seq < a[i + 1].seq
        BY <1>4, <1>5, <4>1
      <4> QED
        BY <4>2, <4>3
    <3> QED
      BY <3>1, <3>2
  <2> HIDE DEF S
  <2> QED
    BY <2>1, <2>2, NatInd
<1>8. l \in S /\ l \in 1 .. l
  BY <1>3, <1>7
<1>9. N + 1 + l <= O
  BY <1>4, <1>8
<1>10. O + 1 - L <= ReliableBuffer /\ L - 1 <= N
  BY <1>2 DEF Room, Span
<1>11. ReliableBuffer \in Nat
  BY ChannelAssumption
<1> QED
  BY <1>1, <1>3, <1>9, <1>10, <1>11

LEMMA QueueHasRoom ==
  ASSUME NEW s \in End, NEW r \in End, NEW h \in History, Line(s, r, h), ~Ready(r),
         r.channel # NoChannel, NEW b \in Bunch, b.seq \in Low(s) .. s.outReliable, b = h[b.seq],
         b.seq > r.inReliable + 1
  PROVE  ~Crowded(r, b)
<1> SUFFICES ASSUME Crowded(r, b) PROVE FALSE
  OBVIOUS
<1>1. Queue(r) = r.channel.inRec /\ Queue(r) \in Seq(Bunch)
  BY EndTypes DEF Queue
<1>2. PICK n \in 0 .. Len(Queue(r)) :
        /\ \A i \in 1 .. n : Queue(r)[i].seq < b.seq
        /\ n < Len(Queue(r)) => Queue(r)[n + 1].seq > b.seq
        /\ Len(Queue(r)) + 1 >= ReliableBuffer
  BY <1>1 DEF Crowded
<1>3. PICK a \in Seq(Bunch) : a = Queue(r)
  BY <1>1
<1>4. PICK q : q = SubSeq(a, 1, n) \o <<b>> \o SubSeq(a, n + 1, Len(a))
  OBVIOUS
<1>5. q \in Seq(Bunch)
  <2>1. SubSeq(a, 1, n) \in Seq(Bunch) /\ SubSeq(a, n + 1, Len(a)) \in Seq(Bunch)
    BY <1>2, <1>3
  <2>2. <<b>> \in Seq(Bunch)
    OBVIOUS
  <2> QED
    BY <1>4, <2>1, <2>2, ConcatProperties
<1>6. PICK c : c = [r.channel EXCEPT !.inRec = q]
  OBVIOUS
<1>7. c \in Channel /\ c.inRec = q
  BY <1>5, <1>6, ChannelIn DEF Channel
<1>8. PICK t : t = [r EXCEPT !.channel = c]
  OBVIOUS
<1>9. t \in End /\ t.channel = c /\ c # NoChannel /\ t.inReliable = r.inReliable
  BY <1>7, <1>8, WithChannel
<1>10. Queue(t) = q
  BY <1>7, <1>9 DEF Queue
<1>11. PICK k : k = b.seq
  OBVIOUS
<1>12. Waits(s, r, h, b, k, n, t)
  <2>1. k \in Nat /\ k <= s.outReliable
    BY <1>11, EndTypes DEF Bunch
  <2> QED
    BY <1>2, <1>3, <1>4, <1>9, <1>10, <1>11, <2>1 DEF Waits
<1>13. Queued(s, t, h)
  BY <1>12, QueuedInsert
<1>14. /\ Len(q) = Len(a) + 1
       /\ \A i \in 1 .. n : q[i] = a[i]
       /\ q[n + 1] = b
  <2>1. q = Inserted(a, b, n) /\ n \in 0 .. Len(a)
    BY <1>2, <1>3, <1>4 DEF Inserted
  <2> QED
    BY <2>1, InsertProps
<1>15. ~Ready(t)
  <2>1. PICK N \in Nat : N = r.inReliable
    BY EndTypes
  <2>2. CASE n = 0
    <3>1. q[1] = b /\ b.seq \in Nat
      BY <1>14, <2>2 DEF Bunch
    <3>2. b.seq # N + 1
      BY <2>1, <3>1
    <3> QED
      BY <1>9, <1>10, <2>1, <3>1, <3>2 DEF Ready
  <2>3. CASE n # 0
    <3>1. 1 \in 1 .. n /\ a # <<>>
      BY <1>2, <1>3, <2>3
    <3>2. q[1] = a[1]
      BY <1>14, <3>1
    <3>3. a[1].seq # N + 1
      BY <1>3, <2>1, <3>1 DEF Ready
    <3> QED
      BY <1>9, <1>10, <2>1, <3>2, <3>3 DEF Ready
  <2> QED
    BY <2>2, <2>3
<1>16. Room(s) /\ Low(s) - 1 <= t.inReliable
  BY <1>9 DEF Line, Numbered
<1>17. Queue(t) # <<>>
  BY <1>3, <1>10, <1>14
<1>18. Len(Queue(t)) < ReliableBuffer
  BY <1>9, <1>13, <1>15, <1>16, <1>17, QueueLength
<1> QED
  BY <1>2, <1>3, <1>10, <1>14, <1>18, ChannelAssumption

\* A channel that is there takes what is new.
LEMMA AtBunchRaw ==
  ASSUME NEW s \in End, NEW r \in End, NEW h \in History, NEW u, NEW a, NEW b,
         AtBunch(s, r, h, u, a, b), r.channel # NoChannel, Bounded(u), incarnation \in Nat,
         ~(b.rel /\ b.seq <= r.inReliable), b.rel /\ b.seq > r.inReliable + 1 => ~b.open,
         NEW t, t = ReceivedRawBunch(u, b)
  PROVE  PutAside(s, r, h, t) \/ HandedOn(s, r, h, b, t)
<1>0. Line(s, r, h) /\ ~Ready(r)
  BY DEF AtBunch
<1>1. /\ b \in Bunch /\ u \in End /\ u.channel = r.channel /\ u.inReliable = r.inReliable
      /\ b.seq \in Nat /\ r.inReliable \in Nat /\ b.rel \in BOOLEAN /\ Sent(s, r, h, b)
  <2>1. AtBunchIs(s, r, h, u, a, b)
    BY AtBunchFacts
  <2> QED
    BY <2>1 DEF AtBunchIs
<1>2. CASE b.rel /\ b.seq # r.inReliable + 1
  <2>1. t = QueueBunch(u, b)
    BY <1>1, <1>2 DEF ReceivedRawBunch
  <2>2. b.seq > r.inReliable + 1
    BY <1>1, <1>2
  <2>3. ~b.open /\ ~Crowded(u, b)
    <3>1. b.seq \in Low(s) .. s.outReliable /\ b = h[b.seq]
      BY <1>1, <1>2 DEF Sent
    <3>2. ~Crowded(r, b)
      BY <1>0, <1>1, <2>2, <3>1, QueueHasRoom
    <3> QED
      BY <1>1, <1>2, <2>2, <3>2 DEF Crowded
  <2>4. \/ t = u /\ \E i \in 1 .. Len(u.channel.inRec) : u.channel.inRec[i].seq = b.seq
        \/ Enqueued(u, b, t)
    BY <1>1, <2>1, <2>3, QueueBunchType
  <2>5. CASE Enqueued(u, b, t)
    BY <1>2, <2>2, <2>5, AtBunchQueued
  <2>6. CASE t = u /\ \E i \in 1 .. Len(u.channel.inRec) : u.channel.inRec[i].seq = b.seq
    <3>1. Queue(r) = u.channel.inRec /\ DOMAIN Queue(r) = 1 .. Len(Queue(r))
      BY <1>1, Lengths DEF Queue
    <3>2. Has(r, b.seq)
      BY <2>6, <3>1 DEF Has
    <3> QED
      BY <2>6, <3>2, AtBunchLeft
  <2> QED
    BY <2>4, <2>5, <2>6
<1>3. CASE b.rel => b.seq = r.inReliable + 1
  <2>1. t = ReceivedNextBunch(u, b)
    BY <1>1, <1>3 DEF ReceivedRawBunch
  <2> QED
    BY <1>3, <2>1, AtBunchHanded
<1> QED
  BY <1>2, <1>3

LEMMA AtBunchDispatched ==
  ASSUME NEW s \in End, NEW r \in End, NEW h \in History, NEW u, NEW a, NEW b,
         AtBunch(s, r, h, u, a, b), Bounded(u), incarnation \in Nat, NEW e \in Side,
         r.channel = NoChannel =>
           (e = Server /\ Records(s) = <<>>) \/ ~b.rel \/ b.seq <= r.inReliable,
         b.rel /\ b.seq > r.inReliable + 1 => ~b.open,
         NEW t, t = DispatchBunch(e, u, b)
  PROVE  PutAside(s, r, h, t) \/ HandedOn(s, r, h, b, t)
<1>1. /\ b \in Bunch /\ u \in End /\ u.channel = r.channel /\ u.inReliable = r.inReliable
      /\ b.seq \in Nat /\ r.inReliable \in Nat /\ b.rel \in BOOLEAN
  <2>1. AtBunchIs(s, r, h, u, a, b)
    BY AtBunchFacts
  <2> QED
    BY <2>1 DEF AtBunchIs
<1>2. CASE b.rel /\ b.seq <= r.inReliable
  <2>1. t = u
    BY <1>1, <1>2 DEF DispatchBunch
  <2>2. Has(r, b.seq)
    BY <1>2 DEF Has
  <2> QED
    BY <2>1, <2>2, AtBunchLeft
<1>3. CASE ~(b.rel /\ b.seq <= r.inReliable) /\ r.channel # NoChannel
  <2>1. t = ReceivedRawBunch(u, b)
    BY <1>1, <1>3 DEF DispatchBunch
  <2> QED
    BY <1>3, <2>1, AtBunchRaw
<1>4. CASE ~(b.rel /\ b.seq <= r.inReliable) /\ r.channel = NoChannel /\ ~b.rel
  <2>1. t = SkipAck(u)
    BY <1>1, <1>4 DEF DispatchBunch
  <2> QED
    BY <1>4, <2>1, AtBunchLeft
<1>5. CASE ~(b.rel /\ b.seq <= r.inReliable) /\ r.channel = NoChannel /\ b.rel
  <2>1. e = Server /\ Records(s) = <<>>
    BY <1>5
  <2>2. t = u
    BY <1>1, <1>5, <2>1 DEF DispatchBunch
  <2> QED
    BY <2>1, <2>2, AtBunchLeft
<1> QED
  BY <1>2, <1>3, <1>4, <1>5

\* A bunch that waited is handed to the channel.
Dequeued(r, u, b) == u = [r EXCEPT !.channel.inRec = Tail(@)] /\ b = r.channel.inRec[1]

LEMMA QueuedHanded ==
  ASSUME NEW s \in End, NEW r \in End, NEW h \in History, Line(s, r, h), Ready(r), Bounded(r),
         incarnation \in Nat, NEW u, NEW b, Dequeued(r, u, b),
         NEW t, t = ReceivedNextBunch(u, b)
  PROVE  Sent(s, r, h, b) /\ HandedOn(s, r, h, b, t)
<1>1. r.channel # NoChannel /\ Queue(r) = r.channel.inRec
  BY DEF Ready, Queue
<1>2. Sent(s, r, h, b) /\ b.rel /\ b.seq = r.inReliable + 1 /\ b \in Bunch
  <2>1. Sent(s, r, h, b) /\ b.rel /\ b.seq = r.inReliable + 1
    BY <1>1, QueuedSent DEF Dequeued
  <2> QED
    BY <2>1 DEF Sent
<1>3. r.receiving.busy = TRUE
  <2>1. r.receiving.busy /\ r.receiving.busy \in BOOLEAN
    BY EndTypes DEF Line, Queued
  <2> QED
    BY <2>1
<1>4. PICK q : q = Tail(Queue(r))
  OBVIOUS
<1>5. q \in Seq(Bunch)
  <2>1. Queue(r) \in Seq(Bunch) /\ Queue(r) # <<>>
    BY EndTypes DEF Ready
  <2> QED
    BY <1>4, <2>1, TailWithin
<1>6. PICK c : c = [r.channel EXCEPT !.inRec = q]
  OBVIOUS
<1>7. r.channel \in Channel
  BY <1>1 DEF End
<1>8. /\ c \in Channel /\ c.inRec = q /\ c.outRec = r.channel.outRec
      /\ c.openedLocally = r.channel.openedLocally /\ c.closing = r.channel.closing
      /\ c.opened = r.channel.opened /\ c.openAcked = r.channel.openAcked
      /\ c.inPartial = r.channel.inPartial
  BY <1>5, <1>6, <1>7 DEF Channel
<1>9. u = [r EXCEPT !.channel = c]
  BY <1>1, <1>4, <1>6, <1>7 DEF End, Channel, Dequeued
<1>10. c # NoChannel
  BY <1>8, NullAssumption
<1>11. /\ u \in End /\ u.channel = c /\ u.state = r.state /\ u.wire = r.wire
       /\ u.sendBuffer = r.sendBuffer /\ u.unnotified = r.unnotified
       /\ u.outReliable = r.outReliable /\ u.inReliable = r.inReliable
       /\ u.pendingOutRec = r.pendingOutRec /\ u.fates = r.fates
       /\ u.receiving = r.receiving
  BY <1>8, <1>9 DEF End
<1>12. Records(u) = Records(r) /\ Queue(u) = q
  BY <1>1, <1>8, <1>10, <1>11 DEF Records, Queue
<1>13. Bounded(u)
  BY <1>11, <1>12 DEF Bounded
<1>14. Took(Advanced(u, b), b, t)
  BY <1>2, <1>10, <1>11, <1>13, ReceivedNextBunchType
<1>15. PICK w : w = Advanced(u, b)
  OBVIOUS
<1>16. /\ w \in End /\ w.inReliable = b.seq /\ w.channel = c
       /\ w.wire = u.wire /\ w.sendBuffer = u.sendBuffer /\ w.unnotified = u.unnotified
       /\ w.outReliable = u.outReliable /\ w.pendingOutRec = u.pendingOutRec
       /\ w.fates = u.fates /\ w.receiving = u.receiving /\ w.state = u.state
  <2>1. u \in End /\ b \in Bunch /\ b.rel
    BY <1>2, <1>11
  <2>2. /\ w \in End /\ (b.rel => w.inReliable = b.seq) /\ w.channel = u.channel
        /\ w.wire = u.wire /\ w.sendBuffer = u.sendBuffer /\ w.unnotified = u.unnotified
        /\ w.outReliable = u.outReliable /\ w.pendingOutRec = u.pendingOutRec
        /\ w.fates = u.fates /\ w.receiving = u.receiving /\ w.state = u.state
    BY <1>15, <2>1, AdvancedType
  <2> QED
    BY <1>11, <2>1, <2>2
<1>17. Records(w) = Records(r) /\ Queue(w) = q
  BY <1>11, <1>12, <1>16 DEF Records, Queue
<1>18. SameSender(r, w)
  BY <1>11, <1>16, <1>17 DEF SameSender
<1>19. Gone(r, w)
  BY <1>1, <1>3, <1>8, <1>10, <1>11, <1>16, <1>18 DEF Gone
<1>20. Moves(r, r.receiving.bunches, Tail(Queue(r)), r.inReliable + 1, w)
  BY <1>2, <1>4, <1>11, <1>16, <1>17 DEF Moves
<1>21. Line(s, w, h)
  BY <1>20, LineDequeued
<1>22. Bounded(w)
  BY <1>11, <1>12, <1>16, <1>17 DEF Bounded
<1>23. t = Handles(w, b) /\ Took(w, b, t)
  BY <1>14, <1>15, ReceivedNextBunchIs
<1>24. /\ w.state = r.state /\ w.channel.inPartial = r.channel.inPartial
       /\ w.receiving.skipAck = r.receiving.skipAck
       /\ w.inReliable = b.seq /\ b.seq = r.inReliable + 1 /\ b.rel
  BY <1>2, <1>8, <1>11, <1>16
<1>25. Handing(r, w, b, t)
  BY <1>16, <1>19, <1>22, <1>23, <1>24 DEF Handing
<1> QED
  BY <1>2, <1>21, <1>25 DEF HandedOn

-----------------------------------------------------------------------------
(* The agreement, as either end works through a packet.                    *)

LEMMA ServerHanded ==
  ASSUME NEW sv \in End, NEW cl \in End, NEW hs, NEW hc, Agree(sv, cl, hs, hc),
         sv.receiving.bunches # <<>> \/ Queue(sv) # <<>>,
         NEW b, Sent(cl, sv, hc, b), NEW t, HandedOn(cl, sv, hc, b, t), t.state # "error"
  PROVE  Agree(t, cl, hs, hc)
<1>1. PICK w : Gone(sv, w) /\ Line(cl, w, hc) /\ Took(w, b, t)
  BY DEF HandedOn, Handing
<1> QED
  BY <1>1, ServerTakes

LEMMA ClientHanded ==
  ASSUME NEW sv \in End, NEW cl \in End, NEW hs, NEW hc, Agree(sv, cl, hs, hc), Told(cl),
         incarnation \in Nat, cl.receiving.busy,
         NEW b, Sent(sv, cl, hs, b), NEW t, HandedOn(sv, cl, hs, b, t), t.state # "error"
  PROVE  \E g \in History : Agree(sv, t, hs, g) /\ Renewed(sv, cl, hc, t, g)
<1>1. PICK w : /\ Gone(cl, w) /\ Line(sv, w, hs) /\ Took(w, b, t)
               /\ b.rel => w.inReliable = b.seq
               /\ ~b.rel => w.inReliable = cl.inReliable
  BY DEF HandedOn, Handing
<1> QED
  BY <1>1, ClientTakes

-----------------------------------------------------------------------------
(* The parts of messages, as they are sent and read.                       *)

Continuing(b) == b.part \in {"middle", "final"}

\* What s has numbered, and is still kept, are the parts of whole messages.
Chained(s, h) ==
  /\ Low(s) <= s.outReliable => ~More(h[s.outReliable])
  /\ \A q \in Low(s) .. s.outReliable - 1 : More(h[q]) <=> Continuing(h[q + 1])

\* r is in the middle of a message of s if, and only if, the next part continues one.
Reading(s, r, h) ==
  /\ Midway(r) <=> r.inReliable < s.outReliable /\ Continuing(h[r.inReliable + 1])
  /\ Midway(r) => r.channel.inPartial.seq = r.inReliable

\* The server has not sent the opening message, ...
Unsent(sv, cl) ==
  sv.channel # NoChannel /\ ~sv.channel.opened => Low(sv) > sv.outReliable /\ Joining(sv, cl)

\* ... or the client is still to read it, in so far as it has not begun to, ...
OpensFirst(sv, cl, hs) ==
  Joining(sv, cl) /\ sv.channel.opened =>
    /\ Low(sv) <= sv.outReliable /\ hs[Low(sv)].open /\ ~Continuing(hs[Low(sv)])
    /\ \A q \in Low(sv) .. cl.inReliable : More(hs[q])
    /\ \A q \in Low(sv) + 1 .. sv.outReliable : ~hs[q].open
    /\ cl.inReliable >= Low(sv) => Opening(cl)

\* ... or it has, and no other comes.
OpensOnce(sv, cl, hs) ==
  ~Joining(sv, cl) =>
    /\ Midway(cl) => ~Opening(cl)
    /\ \A q \in Low(sv) .. sv.outReliable : q > cl.inReliable => ~hs[q].open

OpenTurn(sv, cl, hs) ==
  /\ Unsent(sv, cl) /\ OpensFirst(sv, cl, hs) /\ OpensOnce(sv, cl, hs)
  /\ Opening(cl) => cl.channel.inPartial.rel
  /\ ~Opening(sv)

\* The server reads what the client sends once that has joined.
AnswerTurn(sv, cl, hc) ==
  /\ sv.channel # NoChannel /\ ~Joining(sv, cl) => Reading(cl, sv, hc)
  /\ Joining(sv, cl) => ~Midway(sv)

Parts(sv, cl, hs, hc) ==
  /\ Chained(sv, hs) /\ Chained(cl, hc) /\ Reading(sv, cl, hs)
  /\ OpenTurn(sv, cl, hs) /\ AnswerTurn(sv, cl, hc)

LEMMA PartOfs ==
  ASSUME NEW size \in Nat \ {0}, NEW k \in 1 .. size, NEW b, b.part = PartOf(k, size)
  PROVE  (More(b) <=> k # size) /\ (Continuing(b) <=> k # 1)
BY DEF PartOf, More, Continuing

\* What a whole message adds to the numbers that were given.
LEMMA ChainedSent ==
  ASSUME NEW s \in End, NEW r \in End, NEW h \in History, Line(s, r, h), Chained(s, h),
         NEW rel \in BOOLEAN, NEW close, NEW size \in Nat \ {0}, NEW x,
         Sending(s, rel, close, size, size, x), NEW g, Numbering(s, rel, close, size, x, h, g)
  PROVE  Chained(x, g)
<1>1. PICK L \in Int, O \in Nat, X \in Nat :
        L = Low(s) /\ O = s.outReliable /\ X = x.outReliable /\ L = Low(x)
  <2>1. x \in End /\ Low(x) = Low(s)
    BY DEF Sending
  <2> QED
    BY <2>1, EndTypes, Lengths
<1>2. (rel => X = O + size) /\ (~rel => X = O)
  BY <1>1 DEF Sending
<1>3. L >= 1 /\ L - 1 <= O
  <2>1. PICK n \in Nat : n = r.inReliable
    BY EndTypes
  <2> QED
    BY <1>1, <2>1 DEF Line, Numbered
<1>4. /\ \A q \in 0 .. O : g[q] = h[q]
      /\ \A q \in O + 1 .. X : g[q].part = PartOf(q - O, size)
  BY <1>1 DEF Numbering
<1>5. /\ L <= O => ~More(h[O])
      /\ \A q \in L .. O - 1 : More(h[q]) <=> Continuing(h[q + 1])
  BY <1>1 DEF Chained
<1>6. ASSUME NEW q \in O + 1 .. X
      PROVE  (More(g[q]) <=> q # X) /\ (Continuing(g[q]) <=> q # O + 1)
  <2>1. PICK k \in 1 .. size : k = q - O
    BY <1>2
  <2>2. (More(g[q]) <=> k # size) /\ (Continuing(g[q]) <=> k # 1)
    BY <1>4, <2>1, PartOfs
  <2>3. X = O + size
    BY <1>2
  <2> QED
    BY <2>1, <2>2, <2>3
<1>7. L <= X => ~More(g[X])
  <2>1. CASE X = O
    <3>1. O \in 0 .. O
      OBVIOUS
    <3> QED
      BY <1>4, <1>5, <2>1, <3>1
  <2>2. CASE X # O
    <3>1. X \in O + 1 .. X
      BY <1>2, <2>2
    <3> QED
      BY <1>6, <3>1
  <2> QED
    BY <2>1, <2>2
<1>8. ASSUME NEW q \in L .. X - 1 PROVE More(g[q]) <=> Continuing(g[q + 1])
  <2>1. CASE q < O
    <3>1. q \in L .. O - 1 /\ q \in 0 .. O /\ q + 1 \in 0 .. O
      BY <1>3, <2>1
    <3> QED
      BY <1>4, <1>5, <3>1
  <2>2. CASE q = O
    <3>1. q \in 0 .. O /\ q + 1 \in O + 1 .. X /\ L <= O
      BY <2>2
    <3>2. ~More(g[q]) /\ ~Continuing(g[q + 1])
      BY <1>4, <1>5, <1>6, <2>2, <3>1
    <3> QED
      BY <3>2
  <2>3. CASE q > O
    <3>1. q \in O + 1 .. X /\ q + 1 \in O + 1 .. X /\ q # X /\ q + 1 # O + 1
      BY <2>3
    <3>2. More(g[q]) /\ Continuing(g[q + 1])
      BY <1>6, <3>1
    <3> QED
      BY <3>2
  <2> QED
    BY <2>1, <2>2, <2>3
<1> QED
  BY <1>1, <1>7, <1>8 DEF Chained

\* A reader that was at the end of a message finds the beginning of another.
LEMMA ReadingSent ==
  ASSUME NEW s \in End, NEW r \in End, NEW h \in History, Line(s, r, h), Reading(s, r, h),
         NEW rel \in BOOLEAN, NEW close, NEW size \in Nat \ {0}, NEW x,
         Sending(s, rel, close, size, size, x), NEW g, Numbering(s, rel, close, size, x, h, g)
  PROVE  Reading(x, r, g)
<1>1. PICK N \in Nat, O \in Nat, X \in Nat :
        N = r.inReliable /\ O = s.outReliable /\ X = x.outReliable
  <2>1. x \in End
    BY DEF Sending
  <2> QED
    BY <2>1, EndTypes
<1>2. (rel => X = O + size) /\ (~rel => X = O)
  BY <1>1 DEF Sending
<1>3. N <= O
  BY <1>1 DEF Line, Numbered
<1>4. /\ \A q \in 0 .. O : g[q] = h[q]
      /\ \A q \in O + 1 .. X : g[q].part = PartOf(q - O, size)
  BY <1>1 DEF Numbering
<1>5. Midway(r) <=> N < O /\ Continuing(h[N + 1])
  BY <1>1 DEF Reading
<1>6. Midway(r) <=> N < X /\ Continuing(g[N + 1])
  <2>1. CASE N < O
    <3>1. N + 1 \in 0 .. O /\ N < X
      BY <1>2, <2>1
    <3> QED
      BY <1>4, <1>5, <2>1, <3>1
  <2>2. CASE N = O /\ N < X
    <3>1. N + 1 \in O + 1 .. X /\ 1 \in 1 .. size
      BY <2>2
    <3>2. g[N + 1].part = PartOf(1, size)
      BY <1>4, <2>2, <3>1
    <3>3. ~Continuing(g[N + 1])
      BY <3>1, <3>2, PartOfs
    <3> QED
      BY <1>5, <2>2, <3>3
  <2>3. CASE N = O /\ ~(N < X)
    BY <1>5, <2>3
  <2> QED
    BY <1>3, <2>1, <2>2, <2>3
<1> QED
  BY <1>1, <1>6 DEF Reading

\* The server sends: the first message opens the channel.
LEMMA OpenTurnSent ==
  ASSUME NEW sv \in End, NEW cl \in End, NEW hs \in History, Line(sv, cl, hs),
         ServerTurn(sv, cl), OpenTurn(sv, cl, hs),
         NEW rel \in BOOLEAN, NEW close \in BOOLEAN, NEW size \in Nat \ {0},
         Sendable(sv, rel, close, size), close => rel,
         NEW x, Sending(sv, rel, close, size, size, x),
         NEW g, Numbering(sv, rel, close, size, x, hs, g)
  PROVE  OpenTurn(x, cl, g) /\ (Joining(x, cl) <=> Joining(sv, cl))
<1>1. PICK L \in Int, N \in Nat, O \in Nat, X \in Nat :
        L = Low(sv) /\ N = cl.inReliable /\ O = sv.outReliable /\ X = x.outReliable /\ L = Low(x)
  <2>1. x \in End /\ Low(x) = Low(sv)
    BY DEF Sending
  <2> QED
    BY <2>1, EndTypes, Lengths
<1>2. (rel => X = O + size) /\ (~rel => X = O)
  BY <1>1 DEF Sending
<1>3. L >= 1 /\ L - 1 <= N /\ N <= O
  BY <1>1 DEF Line, Numbered
<1>4. /\ \A q \in 0 .. O : g[q] = hs[q]
      /\ \A q \in O + 1 .. X :
           /\ g[q].open <=> sv.channel.openedLocally /\ ~sv.channel.opened /\ q = O + 1
           /\ g[q].part = PartOf(q - O, size)
  BY <1>1 DEF Numbering
<1>5. /\ sv.channel # NoChannel /\ ~sv.channel.closing
      /\ ~rel => sv.channel.opened
  BY DEF Sendable
<1>6. /\ x.channel # NoChannel /\ x.channel.opened = TRUE
      /\ x.channel.inPartial = sv.channel.inPartial
      /\ x.channel.closing => close
  BY DEF Sending
<1>7. sv.channel.openedLocally
  BY <1>5 DEF ServerTurn
<1>8. Joining(x, cl) <=> Joining(sv, cl)
  <2>1. ~Left(sv, cl)
    BY <1>5 DEF Left, Closing
  <2>2. ~Left(x, cl)
    <3>1. x.channel.closing => N # X
      BY <1>2, <1>3, <1>6
    <3> QED
      BY <1>1, <3>1 DEF Left, Closing
  <2> QED
    BY <1>5, <1>6, <2>1, <2>2 DEF Joining
<1>9. Unsent(x, cl)
  BY <1>6 DEF Unsent
<1>10. OpensFirst(x, cl, g)
  <2> SUFFICES ASSUME Joining(x, cl)
               PROVE  /\ L <= X /\ g[L].open /\ ~Continuing(g[L])
                      /\ \A q \in L .. N : More(g[q])
                      /\ \A q \in L + 1 .. X : ~g[q].open
                      /\ N >= L => Opening(cl)
    BY <1>1 DEF OpensFirst
  <2>1. CASE sv.channel.opened
    <3>1. /\ L <= O /\ hs[L].open /\ ~Continuing(hs[L])
          /\ \A q \in L .. N : More(hs[q])
          /\ \A q \in L + 1 .. O : ~hs[q].open
          /\ N >= L => Opening(cl)
      BY <1>1, <1>8, <2>1 DEF OpenTurn, OpensFirst
    <3>2. L <= X /\ L \in 0 .. O
      BY <1>2, <1>3, <3>1
    <3>3. g[L].open /\ ~Continuing(g[L])
      BY <1>4, <3>1, <3>2
    <3>4. ASSUME NEW q \in L .. N PROVE More(g[q])
      <4>1. q \in 0 .. O
        BY <1>3
      <4> QED
        BY <1>4, <3>1, <4>1
    <3>5. ASSUME NEW q \in L + 1 .. X PROVE ~g[q].open
      <4>1. CASE q <= O
        <5>1. q \in L + 1 .. O /\ q \in 0 .. O
          BY <1>3, <4>1
        <5> QED
          BY <1>4, <3>1, <5>1
      <4>2. CASE ~(q <= O)
        <5>1. q \in O + 1 .. X
          BY <4>2
        <5> QED
          BY <1>4, <2>1, <5>1
      <4> QED
        BY <4>1, <4>2
    <3> QED
      BY <3>1, <3>2, <3>3, <3>4, <3>5
  <2>2. CASE ~sv.channel.opened
    <3>1. L > O
      BY <1>1, <1>5, <2>2 DEF OpenTurn, Unsent
    <3>2. rel
      BY <1>5, <2>2
    <3>3. L = O + 1 /\ N = O /\ X = O + size
      BY <1>2, <1>3, <3>1, <3>2
    <3>4. L \in O + 1 .. X /\ 1 \in 1 .. size /\ L - O = 1
      BY <3>3
    <3>5. g[L].open
      BY <1>4, <1>7, <2>2, <3>3, <3>4
    <3>6. ~Continuing(g[L])
      <4>1. g[L].part = PartOf(1, size)
        BY <1>4, <3>4
      <4> QED
        BY <3>4, <4>1, PartOfs
    <3>7. ASSUME NEW q \in L + 1 .. X PROVE ~g[q].open
      <4>1. q \in O + 1 .. X /\ q # O + 1
        BY <3>3
      <4> QED
        BY <1>4, <4>1
    <3> QED
      BY <3>3, <3>5, <3>6, <3>7
  <2> QED
    BY <2>1, <2>2
<1>11. OpensOnce(x, cl, g)
  <2> SUFFICES ASSUME ~Joining(x, cl)
               PROVE  /\ Midway(cl) => ~Opening(cl)
                      /\ \A q \in L .. X : q > N => ~g[q].open
    BY <1>1 DEF OpensOnce
  <2>1. /\ Midway(cl) => ~Opening(cl)
        /\ \A q \in L .. O : q > N => ~hs[q].open
    BY <1>1, <1>8 DEF OpenTurn, OpensOnce
  <2>2. sv.channel.opened
    BY <1>5, <1>8 DEF OpenTurn, Unsent
  <2>3. ASSUME NEW q \in L .. X, q > N PROVE ~g[q].open
    <3>1. CASE q <= O
      <4>1. q \in L .. O /\ q \in 0 .. O
        BY <1>3, <3>1
      <4> QED
        BY <1>4, <2>1, <2>3, <4>1
    <3>2. CASE ~(q <= O)
      <4>1. q \in O + 1 .. X
        BY <3>2
      <4> QED
        BY <1>4, <2>2, <4>1
    <3> QED
      BY <3>1, <3>2
  <2> QED
    BY <2>1, <2>3
<1>12. (Opening(cl) => cl.channel.inPartial.rel) /\ ~Opening(x)
  BY <1>5, <1>6 DEF OpenTurn, Opening
<1> QED
  BY <1>8, <1>9, <1>10, <1>11, <1>12 DEF OpenTurn

\* What Parts says of an end stays true.
Alike(s, t) ==
  /\ t.outReliable = s.outReliable /\ t.inReliable = s.inReliable /\ Low(t) >= Low(s)
  /\ SamePartial(s, t)

OpenAlike(sv, cl, sw, cm) ==
  /\ Alike(sv, sw) /\ cm.inReliable = cl.inReliable /\ SamePartial(cl, cm)
  /\ sw.channel = NoChannel <=> sv.channel = NoChannel
  /\ sv.channel # NoChannel => sw.channel.opened = sv.channel.opened
  /\ Joining(sw, cm) <=> Joining(sv, cl)
  /\ Joining(sv, cl) /\ sv.channel.opened => Low(sw) = Low(sv)

PartsAlike(sv, cl, sw, cm) == OpenAlike(sv, cl, sw, cm) /\ Alike(cl, cm)

LEMMA ReadingSame ==
  ASSUME NEW s, NEW r, NEW h, Reading(s, r, h), NEW t, Alike(s, t), NEW u, Alike(r, u)
  PROVE  Reading(t, u, h)
BY DEF Reading, Alike, SamePartial

LEMMA ChainedSame ==
  ASSUME NEW s \in End, NEW h, Chained(s, h), NEW t \in End, t.outReliable = s.outReliable,
         Low(t) >= Low(s)
  PROVE  Chained(t, h)
<1>1. PICK L \in Int, M \in Int, O \in Nat :
        L = Low(s) /\ M = Low(t) /\ O = s.outReliable /\ O = t.outReliable /\ M >= L
  BY EndTypes, Lengths
<1>2. /\ L <= O => ~More(h[O])
      /\ \A q \in L .. O - 1 : More(h[q]) <=> Continuing(h[q + 1])
  BY <1>1 DEF Chained
<1>3. M <= O => ~More(h[O])
  BY <1>1, <1>2
<1>4. ASSUME NEW q \in M .. O - 1 PROVE More(h[q]) <=> Continuing(h[q + 1])
  <2>1. q \in L .. O - 1
    BY <1>1
  <2> QED
    BY <1>2, <2>1
<1> QED
  BY <1>1, <1>3, <1>4 DEF Chained

LEMMA OpenTurnSame ==
  ASSUME NEW sv \in End, NEW cl \in End, NEW hs, OpenTurn(sv, cl, hs),
         NEW sw \in End, NEW cm \in End, OpenAlike(sv, cl, sw, cm)
  PROVE  OpenTurn(sw, cm, hs)
<1>1. PICK L \in Int, M \in Int, O \in Nat :
        L = Low(sv) /\ M = Low(sw) /\ O = sv.outReliable /\ O = sw.outReliable /\ M >= L
  BY EndTypes, Lengths DEF OpenAlike, Alike
<1>2. /\ sw.channel = NoChannel <=> sv.channel = NoChannel
      /\ sv.channel # NoChannel => sw.channel.opened = sv.channel.opened
      /\ Joining(sw, cm) <=> Joining(sv, cl)
      /\ Joining(sv, cl) /\ sv.channel.opened => M = L
      /\ cm.inReliable = cl.inReliable
      /\ SamePartial(cl, cm) /\ SamePartial(sv, sw)
  BY <1>1 DEF OpenAlike, Alike
<1>3. Unsent(sw, cm)
  <2>1. sw.channel # NoChannel /\ ~sw.channel.opened => L > O /\ Joining(sv, cl)
    BY <1>1, <1>2 DEF OpenTurn, Unsent
  <2> QED
    BY <1>1, <1>2, <2>1 DEF Unsent
<1>4. OpensFirst(sw, cm, hs)
  <2> SUFFICES ASSUME Joining(sw, cm), sw.channel.opened
               PROVE  /\ Low(sw) <= sw.outReliable /\ hs[Low(sw)].open /\ ~Continuing(hs[Low(sw)])
                      /\ \A q \in Low(sw) .. cm.inReliable : More(hs[q])
                      /\ \A q \in Low(sw) + 1 .. sw.outReliable : ~hs[q].open
                      /\ cm.inReliable >= Low(sw) => Opening(cm)
    BY DEF OpensFirst
  <2>1. Joining(sv, cl) /\ sv.channel.opened
    BY <1>2 DEF Joining
  <2>2. /\ Low(sv) <= sv.outReliable /\ hs[Low(sv)].open /\ ~Continuing(hs[Low(sv)])
        /\ \A q \in Low(sv) .. cl.inReliable : More(hs[q])
        /\ \A q \in Low(sv) + 1 .. sv.outReliable : ~hs[q].open
        /\ cl.inReliable >= Low(sv) => Opening(cl)
    BY <2>1 DEF OpenTurn, OpensFirst
  <2>3. Low(sw) = Low(sv) /\ sw.outReliable = sv.outReliable /\ cm.inReliable = cl.inReliable
    BY <1>1, <1>2, <2>1
  <2> QED
    BY <1>2, <2>2, <2>3 DEF SamePartial
<1>5. OpensOnce(sw, cm, hs)
  <2> SUFFICES ASSUME ~Joining(sw, cm)
               PROVE  /\ Midway(cm) => ~Opening(cm)
                      /\ \A q \in M .. O : q > cl.inReliable => ~hs[q].open
    BY <1>1, <1>2 DEF OpensOnce
  <2>1. /\ Midway(cl) => ~Opening(cl)
        /\ \A q \in L .. O : q > cl.inReliable => ~hs[q].open
    BY <1>1, <1>2 DEF OpenTurn, OpensOnce
  <2>2. \A q \in M .. O : q \in L .. O
    BY <1>1
  <2> QED
    BY <1>2, <2>1, <2>2 DEF SamePartial
<1>6. (Opening(cm) => cm.channel.inPartial.rel) /\ ~Opening(sw)
  BY <1>2 DEF OpenTurn, SamePartial
<1> QED
  BY <1>3, <1>4, <1>5, <1>6 DEF OpenTurn

LEMMA PartsSame ==
  ASSUME NEW sv \in End, NEW cl \in End, NEW hs, NEW hc, Parts(sv, cl, hs, hc),
         NEW sw \in End, NEW cm \in End, PartsAlike(sv, cl, sw, cm)
  PROVE  Parts(sw, cm, hs, hc)
<1>1. Alike(sv, sw) /\ Alike(cl, cm)
  BY DEF PartsAlike, OpenAlike
<1>2. Chained(sw, hs) /\ Chained(cm, hc)
  BY <1>1, ChainedSame DEF Parts, Alike
<1>3. Reading(sw, cm, hs)
  BY <1>1, ReadingSame DEF Parts
<1>4. OpenTurn(sw, cm, hs)
  BY OpenTurnSame DEF Parts, PartsAlike
<1>5. AnswerTurn(sw, cm, hc)
  <2>1. sw.channel # NoChannel /\ ~Joining(sw, cm) => Reading(cl, sv, hc)
    BY DEF Parts, AnswerTurn, PartsAlike, OpenAlike
  <2>2. sw.channel # NoChannel /\ ~Joining(sw, cm) => Reading(cm, sw, hc)
    BY <1>1, <2>1, ReadingSame
  <2>3. Joining(sw, cm) => ~Midway(sw)
    BY <1>1 DEF Parts, AnswerTurn, PartsAlike, OpenAlike, Alike, SamePartial
  <2> QED
    BY <2>2, <2>3 DEF AnswerTurn
<1> QED
  BY <1>2, <1>3, <1>4, <1>5 DEF Parts

-----------------------------------------------------------------------------
(* The steps of the game.                                                  *)

\* The same equality, for a lemma's hypothesis.
Is(x, y) == x = y

LEMMA PartsServerSends ==
  ASSUME NEW sv \in End, NEW cl \in End, NEW hs, NEW hc, Agree(sv, cl, hs, hc),
         Parts(sv, cl, hs, hc),
         NEW rel \in BOOLEAN, NEW close \in BOOLEAN, NEW size \in Nat \ {0},
         Sendable(sv, rel, close, size), close => rel,
         NEW tag \in Tag, ~(rel /\ OverflowsReliable(sv, size, close)),
         NEW sw, sw = SendBunch(sv, rel, close, tag, size)
  PROVE  \E gs : Agree(sw, cl, gs, hc) /\ Parts(sw, cl, gs, hc) /\ sw.state = sv.state
<1>1. PICK gs : /\ Agree(sw, cl, gs, hc)
                /\ Sending(sv, rel, close, size, size, sw)
                /\ Numbering(sv, rel, close, size, sw, hs, gs)
  BY AgreeServerSends
<1>2. hs \in History /\ Line(sv, cl, hs) /\ ServerTurn(sv, cl)
  BY AgreeParts
<1>3. /\ Chained(sv, hs) /\ Chained(cl, hc) /\ Reading(sv, cl, hs)
      /\ OpenTurn(sv, cl, hs) /\ AnswerTurn(sv, cl, hc)
  BY DEF Parts
<1>4. Chained(sw, gs)
  BY <1>1, <1>2, <1>3, ChainedSent
<1>5. Reading(sw, cl, gs)
  BY <1>1, <1>2, <1>3, ReadingSent
<1>6. OpenTurn(sw, cl, gs) /\ (Joining(sw, cl) <=> Joining(sv, cl))
  BY <1>1, <1>2, <1>3, OpenTurnSent
<1>7. AnswerTurn(sw, cl, hc)
  <2>1. /\ sv.channel # NoChannel /\ sw.channel # NoChannel
        /\ sw.channel.inPartial = sv.channel.inPartial /\ sw.inReliable = sv.inReliable
    BY <1>1 DEF Sending, Sendable
  <2>2. Midway(sw) <=> Midway(sv)
    BY <2>1 DEF Midway
  <2>3. ~Joining(sw, cl) => Reading(cl, sv, hc)
    BY <1>3, <1>6, <2>1 DEF AnswerTurn
  <2>4. ~Joining(sw, cl) => Reading(cl, sw, hc)
    BY <2>1, <2>2, <2>3 DEF Reading
  <2>5. Joining(sw, cl) => ~Midway(sw)
    BY <1>3, <1>6, <2>2 DEF AnswerTurn
  <2> QED
    BY <2>4, <2>5 DEF AnswerTurn
<1>8. sw.state = sv.state
  BY <1>1 DEF Sending
<1> QED
  BY <1>1, <1>3, <1>4, <1>5, <1>6, <1>7, <1>8 DEF Parts

\* The client sends the reliable message that gets it to t.
ClientSending(c, rel, close, size, tag, t) ==
  /\ rel = TRUE /\ close = FALSE /\ size \in Nat \ {0} /\ tag \in Tag
  /\ Sendable(c, rel, close, size) /\ c.channel.opened
  /\ ~(rel /\ OverflowsReliable(c, size, close))
  /\ t = SendBunch(c, rel, close, tag, size)

LEMMA PartsClientSends ==
  ASSUME NEW sv \in End, NEW cl \in End, NEW hs, NEW hc, Agree(sv, cl, hs, hc),
         Parts(sv, cl, hs, hc),
         NEW rel \in BOOLEAN, NEW close \in BOOLEAN, NEW size, NEW tag, NEW cm,
         ClientSending(cl, rel, close, size, tag, cm)
  PROVE  \E gc : Agree(sv, cm, hs, gc) /\ Parts(sv, cm, hs, gc) /\ cm.state = cl.state
<1>0. /\ rel = TRUE /\ close = FALSE /\ size \in Nat \ {0} /\ tag \in Tag
      /\ Sendable(cl, rel, close, size) /\ cl.channel.opened
      /\ ~(rel /\ OverflowsReliable(cl, size, close))
      /\ cm = SendBunch(cl, rel, close, tag, size)
  BY DEF ClientSending
<1>1. PICK gc : /\ Agree(sv, cm, hs, gc)
                /\ Sending(cl, rel, close, size, size, cm)
                /\ Numbering(cl, rel, close, size, cm, hc, gc)
  BY <1>0, AgreeClientSends
<1>2. hs \in History /\ hc \in History /\ Line(cl, sv, hc)
  BY AgreeParts
<1>3. /\ Chained(sv, hs) /\ Chained(cl, hc) /\ Reading(sv, cl, hs)
      /\ OpenTurn(sv, cl, hs) /\ AnswerTurn(sv, cl, hc)
  BY DEF Parts
<1>4. Chained(cm, gc)
  BY <1>0, <1>1, <1>2, <1>3, ChainedSent
<1>5. /\ cl.channel # NoChannel /\ cm.channel # NoChannel /\ cm \in End
      /\ cm.channel.inPartial = cl.channel.inPartial /\ cm.inReliable = cl.inReliable
      /\ cm.channel.openAcked = cl.channel.openAcked /\ cm.state = cl.state
  BY <1>0, <1>1 DEF Sending, Sendable
<1>6. SamePartial(cl, cm)
  BY <1>5, ChannelPartial
<1>7. Reading(sv, cm, hs)
  BY <1>3, <1>5, <1>6 DEF Reading, SamePartial
<1>8. Joining(sv, cm) <=> Joining(sv, cl)
  BY <1>5 DEF Joining, Joined, Left
<1>9. OpenTurn(sv, cm, hs)
  <2>1. Low(sv) >= Low(sv)
    BY Lengths
  <2>2. SamePartial(sv, sv)
    BY DEF SamePartial
  <2>3. OpenAlike(sv, cl, sv, cm)
    BY <1>5, <1>6, <1>8, <2>1, <2>2 DEF OpenAlike, Alike
  <2> QED
    BY <1>3, <1>5, <2>3, OpenTurnSame
<1>10. AnswerTurn(sv, cm, gc)
  <2>1. sv.channel # NoChannel /\ ~Joining(sv, cm) => Reading(cl, sv, hc)
    BY <1>3, <1>8 DEF AnswerTurn
  <2>2. Reading(cl, sv, hc) => Reading(cm, sv, gc)
    BY <1>0, <1>1, <1>2, ReadingSent
  <2>3. Joining(sv, cm) => ~Midway(sv)
    BY <1>3, <1>8 DEF AnswerTurn
  <2> QED
    BY <2>1, <2>2, <2>3 DEF AnswerTurn
<1> QED
  BY <1>1, <1>3, <1>4, <1>5, <1>7, <1>9, <1>10 DEF Parts

\* The server opens a channel, which gets it to t.
BeginsAnew(s, t) ==
  /\ s.channel = NoChannel /\ s.receiving.bunches = <<>>
  /\ t = [s EXCEPT !.channel = NewChannel(TRUE)]

\* A server that opens a channel has a client that has read whatever was sent before.
LEMMA PartsOpened ==
  ASSUME NEW sv \in End, NEW cl \in End, NEW hs, NEW hc, Agree(sv, cl, hs, hc),
         Parts(sv, cl, hs, hc), NEW sw, BeginsAnew(sv, sw)
  PROVE  Agree(sw, cl, hs, hc) /\ Parts(sw, cl, hs, hc) /\ sw.state = sv.state
<1>0. /\ sv.channel = NoChannel /\ sv.receiving.bunches = <<>>
      /\ sw = [sv EXCEPT !.channel = NewChannel(TRUE)]
  BY DEF BeginsAnew
<1>1. Agree(sw, cl, hs, hc)
  BY <1>0, AgreeOpened
<1>2. PICK local \in BOOLEAN : local = TRUE
  OBVIOUS
<1>3. Created(sv, local, sw)
  BY <1>0, <1>2, CreatedType
<1>4. ServerTurn(sv, cl) /\ Line(sv, cl, hs)
  BY AgreeParts
<1>5. sv.pendingOutRec = 0 /\ cl.channel = NoChannel
  BY <1>0, <1>4 DEF ServerTurn
<1>6. /\ sw \in End /\ sw.channel # NoChannel /\ sw.channel.opened = FALSE
      /\ sw.channel.closing = FALSE /\ sw.channel.inPartial = NoPartial
      /\ sw.outReliable = sv.outReliable /\ sw.inReliable = sv.inReliable
      /\ sw.pendingOutRec = 0 /\ Records(sw) = <<>> /\ Records(sv) = <<>>
      /\ sw.state = sv.state
  BY <1>0, <1>3, <1>5 DEF Created, Records
<1>7. Low(sw) = sw.outReliable + 1 /\ Low(sv) = sw.outReliable + 1 /\ sw.outReliable \in Nat
  <2>1. Len(<<>>) = 0
    OBVIOUS
  <2> QED
    BY <1>5, <1>6, <2>1, EndTypes DEF Low
<1>8. /\ Chained(sv, hs) /\ Chained(cl, hc) /\ Reading(sv, cl, hs)
      /\ OpenTurn(sv, cl, hs) /\ AnswerTurn(sv, cl, hc)
  BY DEF Parts
<1>9. Chained(sw, hs)
  <2>1. Low(sw) >= Low(sv)
    BY <1>7
  <2> QED
    BY <1>6, <1>8, <2>1, ChainedSame
<1>10. Reading(sw, cl, hs)
  BY <1>6, <1>8 DEF Reading
<1>11. Joining(sw, cl)
  BY <1>5, <1>6 DEF Joining, Joined, Left, Closing
<1>12. ~Opening(cl) /\ ~Opening(sw) /\ ~Midway(sw)
  BY <1>5, <1>6 DEF Opening, Midway
<1>13. OpenTurn(sw, cl, hs)
  <2>1. Unsent(sw, cl)
    BY <1>7, <1>11 DEF Unsent
  <2>2. OpensFirst(sw, cl, hs)
    BY <1>6 DEF OpensFirst
  <2>3. OpensOnce(sw, cl, hs)
    BY <1>11 DEF OpensOnce
  <2> QED
    BY <1>12, <2>1, <2>2, <2>3 DEF OpenTurn
<1>14. AnswerTurn(sw, cl, hc)
  BY <1>11, <1>12 DEF AnswerTurn
<1> QED
  BY <1>1, <1>6, <1>8, <1>9, <1>10, <1>13, <1>14 DEF Parts

-----------------------------------------------------------------------------
(* The next packet comes.                                                  *)

\* What the passing of its packets leaves of the sender.
LEMMA HeardAlike ==
  ASSUME NEW r \in End, NEW n, NEW i, NEW z, Heard(r, n, i, z)
  PROVE  /\ Alike(r, z) /\ z \in End /\ z.channel = r.channel
         /\ z.inReliable = r.inReliable /\ z.outReliable = r.outReliable /\ z.state = r.state
<1>1. z.channel = r.channel /\ z.outReliable = r.outReliable /\ z.inReliable = r.inReliable
      /\ z.pendingOutRec = r.pendingOutRec /\ z \in End /\ z.state = r.state
  BY DEF Heard
<1>2. Low(z) = Low(r)
  BY <1>1 DEF Low, Records
<1>3. Low(z) >= Low(r)
  BY <1>2, Lengths
<1>4. SamePartial(r, z)
  BY <1>1 DEF SamePartial, Midway, Opening
<1> QED
  BY <1>1, <1>3, <1>4 DEF Alike

LEMMA SamePartialTrans ==
  ASSUME NEW r, NEW t, NEW u, SamePartial(r, t), SamePartial(t, u)
  PROVE  SamePartial(r, u)
BY DEF SamePartial

\* Taking note of fates leaves the channel, unless it frees it.
NotedAlike(s, h, y) ==
  \/ /\ Alike(s, y) /\ (y.channel = NoChannel <=> s.channel = NoChannel)
     /\ s.channel # NoChannel =>
          /\ y.channel.opened = s.channel.opened /\ y.channel.closing = s.channel.closing
          /\ y.channel.openAcked = s.channel.openAcked \/ \E q \in Low(s) .. s.outReliable : h[q].open
  \/ /\ s.channel # NoChannel /\ y.channel = NoChannel /\ Low(y) = s.outReliable + 1
     /\ \E q \in Low(s) .. s.outReliable : h[q].close

LEMMA NotedSame ==
  ASSUME NEW s \in End, NEW h, NEW t, Notes(s, t, h), NEW r, NEW i, NEW y, Entered(t, r, i, y)
  PROVE  /\ NotedAlike(s, h, y)
         /\ y \in End /\ y.outReliable = s.outReliable /\ y.inReliable = s.inReliable
         /\ y.state = s.state /\ Low(y) >= Low(s) /\ Low(y) = Low(t)
<1>1. /\ t \in End /\ t.outReliable = s.outReliable /\ t.inReliable = s.inReliable
      /\ t.state = s.state /\ Low(t) >= Low(s)
      /\ s.channel = NoChannel => t.channel = NoChannel /\ Low(t) = Low(s)
      /\ s.channel # NoChannel => Freed(s, t, h) \/ Kept(s, t, h)
  BY DEF Notes
<1>2. /\ y \in End /\ y.state = t.state /\ y.outReliable = t.outReliable
      /\ y.pendingOutRec = t.pendingOutRec /\ Records(y) = Records(t)
      /\ y.inReliable = t.inReliable
      /\ y.channel = NoChannel <=> t.channel = NoChannel
      /\ t.channel # NoChannel => /\ y.channel.closing = t.channel.closing
                                  /\ y.channel.opened = t.channel.opened
                                  /\ y.channel.openAcked = t.channel.openAcked
      /\ SamePartial(t, y)
  BY DEF Entered, SameSender
<1>3. Low(y) = Low(t)
  BY <1>2 DEF Low
<1>4. Low(y) >= Low(s)
  BY <1>1, <1>3
<1>5. CASE s.channel = NoChannel
  <2>1. SamePartial(s, t)
    BY <1>1, <1>5, ChannelPartial
  <2>2. Alike(s, y)
    BY <1>1, <1>2, <1>4, <2>1, SamePartialTrans DEF Alike
  <2> QED
    BY <1>1, <1>2, <1>3, <1>4, <1>5, <2>2 DEF NotedAlike
<1>6. CASE s.channel # NoChannel /\ Kept(s, t, h)
  <2>1. SamePartial(s, t)
    BY <1>6, ChannelPartial DEF Kept
  <2>2. Alike(s, y)
    BY <1>1, <1>2, <1>4, <2>1, SamePartialTrans DEF Alike
  <2> QED
    BY <1>1, <1>2, <1>3, <1>4, <1>6, <2>2 DEF NotedAlike, Kept
<1>7. CASE s.channel # NoChannel /\ Freed(s, t, h)
  BY <1>1, <1>2, <1>3, <1>4, <1>7 DEF NotedAlike, Freed
<1> QED
  BY <1>1, <1>5, <1>6, <1>7

LEMMA PartsClientPacket ==
  ASSUME NEW sv \in End, NEW cl \in End, NEW hs, NEW hc, Agree(sv, cl, hs, hc),
         Parts(sv, cl, hs, hc),
         Bounded(cl), Told(sv), ~cl.receiving.busy,
         NEW i, NEW n, NEW t, NEW y, NEW z, Comes(cl, sv, i, n, t, y, z)
  PROVE  Agree(z, y, hs, hc) /\ Parts(z, y, hs, hc) /\ y.state = cl.state /\ z.state = sv.state
<1>1. Agree(z, y, hs, hc)
  BY AgreeClientPacket
<1>2. hc \in History /\ Line(cl, sv, hc) /\ ClientTurn(cl, hc) /\ Room(sv)
  BY AgreeParts
<1>3. \A q \in Low(cl) .. cl.outReliable : ~hc[q].close /\ ~hc[q].open
  BY <1>2 DEF ClientTurn
<1>4. LastCloses(cl, hc)
  BY <1>3 DEF LastCloses
<1>5. PacketCame(cl, sv, hc, i, n, t, y, z)
  BY <1>2, <1>4, PacketNoted
<1>6. Entered(t, sv, i, y)
  BY DEF Comes
<1>7. /\ Alike(sv, z) /\ z \in End /\ z.channel = sv.channel
      /\ z.inReliable = sv.inReliable /\ z.outReliable = sv.outReliable /\ z.state = sv.state
      /\ Low(z) = Low(sv)
  BY <1>5, HeardAlike DEF PacketCame
<1>8. /\ NotedAlike(cl, hc, y)
      /\ y \in End /\ y.outReliable = cl.outReliable /\ y.inReliable = cl.inReliable
      /\ y.state = cl.state
  BY <1>5, <1>6, NotedSame DEF PacketCame
<1>9. /\ Alike(cl, y) /\ (y.channel = NoChannel <=> cl.channel = NoChannel)
      /\ cl.channel # NoChannel => y.channel.openAcked = cl.channel.openAcked
  BY <1>3, <1>8 DEF NotedAlike
<1>10. Joining(z, y) <=> Joining(sv, cl)
  BY <1>7, <1>8, <1>9 DEF Joining, Joined, Left, Closing
<1>11. PartsAlike(sv, cl, z, y)
  BY <1>7, <1>9, <1>10 DEF PartsAlike, OpenAlike, Alike
<1>12. Parts(z, y, hs, hc)
  BY <1>7, <1>8, <1>11, PartsSame
<1> QED
  BY <1>1, <1>7, <1>8, <1>12

LEMMA PartsServerPacket ==
  ASSUME NEW sv \in End, NEW cl \in End, NEW hs, NEW hc, Agree(sv, cl, hs, hc),
         Parts(sv, cl, hs, hc),
         Bounded(sv), Told(cl), ~sv.receiving.busy,
         NEW i, NEW n, NEW t, NEW y, NEW z, Comes(sv, cl, i, n, t, y, z)
  PROVE  Agree(y, z, hs, hc) /\ Parts(y, z, hs, hc) /\ y.state = sv.state /\ z.state = cl.state
<1>1. Agree(y, z, hs, hc)
  BY AgreeServerPacket
<1>2. hs \in History /\ Line(sv, cl, hs) /\ CloseTurn(sv, cl, hs) /\ Room(cl)
  BY AgreeParts
<1>3. LastCloses(sv, hs)
  BY <1>2 DEF LastCloses, CloseTurn
<1>4. PacketCame(sv, cl, hs, i, n, t, y, z)
  BY <1>2, <1>3, PacketNoted
<1>5. Entered(t, cl, i, y)
  BY DEF Comes
<1>6. /\ Alike(cl, z) /\ z \in End /\ z.channel = cl.channel
      /\ z.inReliable = cl.inReliable /\ z.outReliable = cl.outReliable /\ z.state = cl.state
  BY <1>4, HeardAlike DEF PacketCame
<1>7. /\ NotedAlike(sv, hs, y)
      /\ y \in End /\ y.outReliable = sv.outReliable /\ y.inReliable = sv.inReliable
      /\ y.state = sv.state /\ Low(y) >= Low(sv) /\ Low(y) = Low(t) /\ Together(sv, t, hs)
  BY <1>4, <1>5, NotedSame DEF PacketCame, Notes
<1>8. /\ Chained(sv, hs) /\ Chained(cl, hc) /\ Reading(sv, cl, hs)
      /\ OpenTurn(sv, cl, hs) /\ AnswerTurn(sv, cl, hc)
  BY DEF Parts
<1>9. ServerTurn(y, z) /\ Line(y, z, hs)
  BY <1>1, AgreeParts
<1>10. CASE /\ Alike(sv, y) /\ (y.channel = NoChannel <=> sv.channel = NoChannel)
            /\ sv.channel # NoChannel =>
                 y.channel.opened = sv.channel.opened /\ y.channel.closing = sv.channel.closing
  <2>1. Joining(y, z) <=> Joining(sv, cl)
    BY <1>6, <1>7, <1>10 DEF Joining, Joined, Left, Closing
  <2>2. Joining(sv, cl) /\ sv.channel.opened => Low(y) = Low(sv)
    <3> SUFFICES ASSUME Joining(sv, cl), sv.channel.opened
                 PROVE  Low(y) = Low(sv)
      OBVIOUS
    <3>1. PICK L \in Int, M \in Int, O \in Nat, N \in Nat :
            L = Low(sv) /\ M = Low(y) /\ M = Low(t) /\ O = sv.outReliable /\ N = cl.inReliable
      BY <1>7, EndTypes, Lengths
    <3>2. L <= O /\ hs[L].open /\ \A q \in L .. N : More(hs[q])
      BY <1>8, <3>1 DEF OpenTurn, OpensFirst
    <3>3. ~More(hs[O])
      BY <1>8, <3>1, <3>2 DEF Chained
    <3>4. M - 1 <= N
      BY <1>6, <1>9, <3>1 DEF Line, Numbered
    <3>5. ASSUME M > L PROVE FALSE
      <4>1. PICK q \in L .. M - 1 : ~More(hs[q])
        BY <1>7, <3>1, <3>2, <3>3, <3>5 DEF Together
      <4>2. q \in L .. N
        BY <3>4, <4>1
      <4> QED
        BY <3>2, <4>1, <4>2
    <3> QED
      BY <1>7, <3>1, <3>5
  <2>3. PartsAlike(sv, cl, y, z)
    BY <1>6, <1>10, <2>1, <2>2 DEF PartsAlike, OpenAlike, Alike
  <2>4. Parts(y, z, hs, hc)
    BY <1>6, <1>7, <2>3, PartsSame
  <2> QED
    BY <1>1, <1>6, <1>7, <2>4
<1>11. CASE y.channel = NoChannel /\ Low(y) = sv.outReliable + 1
  <2>1. z.channel = NoChannel
    BY <1>9, <1>11 DEF ServerTurn
  <2>2. ~Opening(y) /\ ~Opening(z) /\ ~Midway(z)
    BY <1>11, <2>1 DEF Opening, Midway
  <2>3. ~Joining(y, z)
    BY <1>11 DEF Joining
  <2>4. Chained(y, hs)
    BY <1>7, <1>8, ChainedSame
  <2>5. Chained(z, hc)
    BY <1>6, <1>8, ChainedSame DEF Alike
  <2>6. Reading(y, z, hs)
    BY <1>6, <1>7, <1>8 DEF Reading, Alike, SamePartial
  <2>7. OpensOnce(y, z, hs)
    <3>1. \A q \in Low(y) .. y.outReliable : FALSE
      <4>1. PICK O \in Nat : O = sv.outReliable
        BY EndTypes
      <4> QED
        BY <1>7, <1>11, <4>1
    <3> QED
      BY <2>2, <3>1 DEF OpensOnce
  <2>8. OpenTurn(y, z, hs)
    BY <1>11, <2>2, <2>3, <2>7 DEF OpenTurn, Unsent, OpensFirst
  <2>9. AnswerTurn(y, z, hc)
    BY <1>11, <2>3 DEF AnswerTurn
  <2> QED
    BY <1>1, <1>6, <1>7, <2>4, <2>5, <2>6, <2>8, <2>9 DEF Parts
<1> QED
  BY <1>7, <1>10, <1>11 DEF NotedAlike

-----------------------------------------------------------------------------
(* What a channel does with a bunch that it expects.                       *)

\* The bunch completes the message that opens the channel.
Joins(s, b) ==
  b.rel /\ ((b.part = "whole" /\ b.open) \/ (b.part = "final" /\ Opening(s)))

\* There is room for what an actor that is set would send again.
Calm(s) == \A u \in End : Quiet(s, TRUE, u) => SetChannelActor(u).state = u.state

\* The bunch goes on where s stands.
Fits(s, b) ==
  /\ s.channel # NoChannel
  /\ Opening(s) => s.channel.inPartial.rel
  /\ b.rel => /\ Midway(s) <=> Continuing(b)
              /\ Midway(s) => b.seq = s.channel.inPartial.seq + 1
  /\ ~b.rel => ~b.open /\ ~b.close
  /\ Joins(s, b) => ~s.channel.openedLocally /\ ~s.channel.opened /\ Calm(s)
  /\ b.rel /\ ~More(b) => s.channel.openedLocally \/ s.channel.openAcked \/ Joins(s, b)
  /\ s.channel.openedLocally \/ s.channel.openAcked => s.channel.opened
  /\ b.close => b.part = "whole" /\ s.channel.inRec = <<>>

\* What becomes of the end, ...
Delivered(s, open, close, t) ==
  /\ t \in End /\ t.state = s.state
  /\ t.channel = NoChannel => close
  /\ t.channel # NoChannel => /\ t.channel.inPartial = s.channel.inPartial
                              /\ t.channel.openAcked <=> s.channel.openAcked \/ open
  /\ t.receiving = s.receiving

\* ... as far as its part of a message goes.
Partially(s, b, t) ==
  /\ Opening(t) => t.channel.inPartial.rel
  /\ b.rel => /\ t.receiving.skipAck = s.receiving.skipAck
              /\ Midway(t) <=> More(b)
              /\ Midway(t) => t.channel.inPartial.seq = b.seq
              /\ Opening(t) <=> IF b.part = "initial" THEN b.open ELSE Opening(s)
  /\ ~b.rel => /\ Midway(t) <=> Midway(s)
               /\ Midway(s) => t.channel.inPartial.seq = s.channel.inPartial.seq
               /\ Opening(t) => Opening(s)
               /\ Midway(s) /\ Opening(s) => Opening(t)

Read(s, b, t) ==
  /\ t \in End /\ t.state = s.state
  /\ t.channel = NoChannel => b.close
  /\ t.channel # NoChannel => /\ t.channel.openAcked <=> s.channel.openAcked \/ Joins(s, b)
                              /\ Partially(s, b, t)
  /\ b.rel => t.receiving.skipAck = s.receiving.skipAck

LEMMA SequencedDelivers ==
  ASSUME NEW s \in End, s.channel # NoChannel, Bounded(s), incarnation \in Nat,
         NEW open \in BOOLEAN, NEW close \in BOOLEAN, NEW tags \in Seq(Tag), tags # <<>>,
         open => \A u \in End : Quiet(s, FALSE, u) => SetChannelActor(u).state = u.state,
         close => s.channel.inRec = <<>>,
         NEW t, t = ReceivedSequencedBunch(s, open, close, tags)
  PROVE  Delivered(s, FALSE, close, t)
<1>1. PICK u : u = Shown(s, tags)
  OBVIOUS
<1>2. Quiet(s, FALSE, u) /\ u.channel = s.channel /\ u.receiving = s.receiving
  BY <1>1, GameQuiet
<1>3. u \in End /\ u.state = s.state
  BY <1>2 DEF Quiet
<1>4. Bounded(u) /\ u.channel # NoChannel
  BY <1>2 DEF Bounded, Quiet, Records
<1>5. PICK v : v = IF s.channel.closing THEN s
                   ELSE IF open THEN SetChannelActor(u) ELSE u
  OBVIOUS
<1>6. t = IF close THEN CleanUp(v) ELSE v
  <2>1. ReceivedBunch(s, open, tags) = IF open THEN SetChannelActor(u) ELSE u
    BY <1>1 DEF ReceivedBunch, Shown
  <2>2. v = IF s.channel.closing THEN s ELSE ReceivedBunch(s, open, tags)
    BY <1>5, <2>1
  <2>3. t = IF ~close THEN v ELSE IF s.channel.inRec # <<>> THEN Error(v) ELSE CleanUp(v)
    BY <2>2 DEF ReceivedSequencedBunch
  <2> QED
    BY <2>3
<1>7. /\ v \in End /\ v.state = s.state /\ v.channel # NoChannel
      /\ v.channel.inPartial = s.channel.inPartial
      /\ v.channel.openAcked = s.channel.openAcked /\ v.receiving = s.receiving
  <2>1. CASE v = s
    BY <2>1
  <2>2. CASE v = u
    BY <1>2, <1>3, <1>4, <2>2
  <2>3. CASE open /\ v = SetChannelActor(u)
    <3>1. Synced(u, v)
      BY <1>3, <1>4, <2>3, SetChannelActorType
    <3>2. v.state = u.state
      BY <1>2, <1>3, <2>3
    <3> QED
      BY <1>2, <1>3, <3>1, <3>2 DEF Synced
  <2> QED
    BY <1>5, <2>1, <2>2, <2>3
<1>8. CASE close
  <2>1. t \in End /\ t.channel = NoChannel /\ t.state = v.state /\ t.receiving = v.receiving
    BY <1>6, <1>7, <1>8, CleanUpType
  <2> QED
    BY <1>7, <1>8, <2>1 DEF Delivered
<1>9. CASE ~close
  <2>1. t = v
    BY <1>6, <1>9
  <2> QED
    BY <1>7, <2>1 DEF Delivered
<1> QED
  BY <1>8, <1>9

LEMMA HandleDelivers ==
  ASSUME NEW s \in End, s.channel # NoChannel, Bounded(s), incarnation \in Nat,
         NEW rel \in BOOLEAN, NEW open \in BOOLEAN, NEW close \in BOOLEAN,
         NEW tags \in Seq(Tag), tags # <<>>,
         open => ~s.channel.openedLocally /\ ~s.channel.opened /\ Calm(s),
         rel => s.channel.openedLocally \/ s.channel.openAcked \/ open,
         s.channel.openedLocally \/ s.channel.openAcked => s.channel.opened,
         close => s.channel.inRec = <<>>,
         NEW t, t = HandleBunch(s, rel, open, close, tags)
  PROVE  Delivered(s, open, close, t) \/ (~rel /\ ~open /\ t = SkipAck(s))
<1>1. PICK u : u = IF open THEN [s EXCEPT !.channel.opened = TRUE, !.channel.openAcked = TRUE] ELSE s
  OBVIOUS
<1>2. /\ Quiet(s, open, u)
      /\ u.channel.inPartial = s.channel.inPartial /\ u.receiving = s.receiving
  <2>1. CASE open
    <3>1. /\ Quiet(s, TRUE, u)
          /\ u.channel.inPartial = s.channel.inPartial /\ u.receiving = s.receiving
      BY <1>1, <2>1, OpenQuiet
    <3> QED
      BY <2>1, <3>1
  <2>2. CASE ~open
    <3>1. Quiet(s, FALSE, s)
      BY QuietRefl
    <3> QED
      BY <1>1, <2>2, <3>1
  <2> QED
    BY <2>1, <2>2
<1>3. u \in End /\ u.channel # NoChannel /\ Bounded(u) /\ u.state = s.state
  <2>1. Rx(s, u)
    BY <1>2, QuietRx
  <2> QED
    BY <1>2, <2>1 DEF Quiet, Rx
<1>4. /\ u.channel.openedLocally = s.channel.openedLocally /\ u.channel.inRec = s.channel.inRec
      /\ u.channel.openAcked <=> s.channel.openAcked \/ open
  BY <1>2 DEF Quiet
<1> DEFINE early == ~u.channel.openedLocally /\ ~u.channel.openAcked
<1>5. /\ early /\ rel => t = Error(s)
      /\ early /\ ~rel => t = SkipAck(s)
      /\ ~early => t = ReceivedSequencedBunch(u, open, close, tags)
  <2> DEFINE w == IF open THEN [s EXCEPT !.channel.opened = TRUE, !.channel.openAcked = TRUE] ELSE s
  <2>1. t = IF open /\ (s.channel.openedLocally \/ s.channel.opened) THEN Error(s)
            ELSE IF ~w.channel.openedLocally /\ ~w.channel.openAcked
              THEN IF rel THEN Error(s) ELSE SkipAck(s)
            ELSE IF ~w.channel.opened THEN Error(s)
            ELSE ReceivedSequencedBunch(w, open, close, tags)
    BY DEF HandleBunch
  <2>2. u = w
    BY <1>1
  <2>3. ~(open /\ (s.channel.openedLocally \/ s.channel.opened))
    OBVIOUS
  <2>4. ~early => u.channel.opened
    <3>1. open => u.channel.opened = TRUE
      BY <1>2 DEF Quiet
    <3>2. ~open => /\ u.channel.opened = s.channel.opened
                   /\ u.channel.openAcked = s.channel.openAcked
      BY <1>2 DEF Quiet
    <3> QED
      BY <1>4, <3>1, <3>2
  <2> HIDE DEF w
  <2> QED
    BY <2>1, <2>2, <2>3, <2>4
<1>6. early => ~rel /\ ~open
  BY <1>4
<1>7. CASE ~early
  <2>1. open => \A x \in End : Quiet(u, FALSE, x) => SetChannelActor(x).state = x.state
    <3> SUFFICES ASSUME open, NEW x \in End, Quiet(u, FALSE, x)
                 PROVE  SetChannelActor(x).state = x.state
      OBVIOUS
    <3>1. Quiet(s, open, x)
      BY <1>2, QuietTrans
    <3> QED
      BY <3>1 DEF Calm
  <2>2. close => u.channel.inRec = <<>>
    BY <1>4
  <2>3. t = ReceivedSequencedBunch(u, open, close, tags)
    BY <1>5, <1>7
  <2>4. Delivered(u, FALSE, close, t)
    BY <1>3, <2>1, <2>2, <2>3, SequencedDelivers
  <2> QED
    BY <1>2, <1>3, <1>4, <2>4 DEF Delivered
<1> QED
  BY <1>5, <1>6, <1>7

\* The end after its part of a message became p.
PartialSet(s, p) == [s EXCEPT !.channel.inPartial = p]

PartialIs(s, p, t) ==
  /\ Quiet(s, FALSE, t) /\ t \in End /\ t.state = s.state /\ t.channel # NoChannel
  /\ t.channel.inPartial = p /\ t.receiving = s.receiving
  /\ t.channel.openAcked = s.channel.openAcked

LEMMA PartialSets ==
  ASSUME NEW s \in End, s.channel # NoChannel, NEW p \in {NoPartial} \cup Partial,
         NEW t, t = PartialSet(s, p)
  PROVE  PartialIs(s, p, t)
<1>1. t = [s EXCEPT !.channel.inPartial = p]
  BY DEF PartialSet
<1>2. Quiet(s, FALSE, t)
  BY <1>1, PartialQuiet
<1>3. s.channel \in Channel
  BY ChannelIn
<1>4. t.receiving = s.receiving
  BY <1>1 DEF End
<1>5. t.channel.inPartial = p
  BY <1>1, <1>3 DEF End, Channel
<1>6. /\ t \in End /\ t.state = s.state /\ t.channel # NoChannel
      /\ t.channel.openAcked = s.channel.openAcked
  BY <1>2 DEF Quiet
<1> QED
  BY <1>2, <1>4, <1>5, <1>6 DEF PartialIs

LEMMA FitsKeeps ==
  ASSUME NEW s \in End, NEW b, Fits(s, b), ~b.rel,
         NEW t \in End, t.state = s.state, t.channel # NoChannel,
         t.channel.openAcked = s.channel.openAcked, SamePartial(s, t)
  PROVE  Read(s, b, t)
<1>1. ~Joins(s, b)
  BY DEF Joins
<1>2. Opening(t) => t.channel.inPartial.rel
  BY DEF SamePartial, Fits
<1>3. Partially(s, b, t)
  BY <1>2 DEF Partially, SamePartial
<1> QED
  BY <1>1, <1>3 DEF Read

LEMMA FitsSkips ==
  ASSUME NEW s \in End, NEW b, Fits(s, b), ~b.rel, NEW t, t = SkipAck(s)
  PROVE  Read(s, b, t)
<1>1. t \in End /\ t.state = s.state /\ t.channel = s.channel
  BY SkipAckType
<1>2. SamePartial(s, t)
  BY <1>1 DEF SamePartial, Midway, Opening
<1> QED
  BY <1>1, <1>2, FitsKeeps DEF Fits

LEMMA StartReads ==
  ASSUME NEW s \in End, NEW b \in Bunch, Fits(s, b), b.part = "initial",
         NEW t, t = StartPartial(s, b)
  PROVE  Read(s, b, t)
<1> DEFINE p == [rel |-> b.rel, seq |-> b.seq, age |-> 0, final |-> FALSE,
                 open |-> b.open, close |-> FALSE, tags |-> <<b.tag>>]
<1>1. p \in Partial
  <2>1. b.tag \in Tag
    BY DEF Bunch
  <2>2. <<b.tag>> \in Seq(Tag)
    BY <2>1
  <2>3. 0 \in 0 .. 2
    OBVIOUS
  <2> QED
    BY <2>2, <2>3 DEF Partial, Bunch
<1>2. p.rel = b.rel /\ p.seq = b.seq /\ p.final = FALSE /\ p.open = b.open
  OBVIOUS
<1> DEFINE busy == s.channel.inPartial # NoPartial /\ s.channel.inPartial.rel
                     /\ ~s.channel.inPartial.final
<1>3. t = IF busy THEN (IF b.rel THEN Error(s) ELSE SkipAck(s))
          ELSE PartialSet(s, p)
  BY DEF StartPartial, PartialSet
<1>4. busy <=> Midway(s)
  BY DEF Midway, Fits
<1> HIDE DEF p, busy
<1>5. ~Continuing(b) /\ More(b) /\ ~Joins(s, b)
  BY DEF Continuing, More, Joins
<1>6. CASE ~Midway(s)
  <2>1. t = PartialSet(s, p)
    BY <1>3, <1>4, <1>6
  <2>2. PartialIs(s, p, t)
    BY <1>1, <2>1, PartialSets DEF Fits
  <2>3. /\ t \in End /\ t.state = s.state /\ t.channel # NoChannel
        /\ t.channel.openAcked = s.channel.openAcked
        /\ t.channel.inPartial = p /\ t.receiving = s.receiving
    BY <2>2 DEF PartialIs
  <2>4. p # NoPartial
    BY <1>1, NullAssumption
  <2>5. (Midway(t) <=> b.rel) /\ (Opening(t) <=> b.open)
    BY <1>2, <2>3, <2>4 DEF Midway, Opening
  <2>6. b.open => b.rel
    BY DEF Fits
  <2>7. Partially(s, b, t)
    BY <1>2, <1>5, <1>6, <2>3, <2>5, <2>6 DEF Partially
  <2> QED
    BY <1>5, <2>3, <2>7 DEF Read
<1>7. CASE Midway(s)
  <2>1. ~b.rel
    BY <1>5, <1>7 DEF Fits
  <2>2. t = SkipAck(s)
    BY <1>3, <1>4, <1>7, <2>1
  <2> QED
    BY <2>1, <2>2, FitsSkips
<1> QED
  BY <1>6, <1>7

LEMMA WholeReads ==
  ASSUME NEW s \in End, Bounded(s), incarnation \in Nat, NEW b \in Bunch, Fits(s, b),
         b.part = "whole", NEW t, t = HandleBunch(s, b.rel, b.open, b.close, <<b.tag>>)
  PROVE  Read(s, b, t)
<1>1. PICK rel \in BOOLEAN, open \in BOOLEAN, close \in BOOLEAN, tags \in Seq(Tag) :
        rel = b.rel /\ open = b.open /\ close = b.close /\ tags = <<b.tag>>
  <2>1. b.tag \in Tag
    BY DEF Bunch
  <2>2. <<b.tag>> \in Seq(Tag)
    BY <2>1
  <2> QED
    BY <2>2 DEF Bunch
<1>2. tags # <<>> /\ s.channel # NoChannel
  BY <1>1 DEF Fits
<1>3. /\ Joins(s, b) <=> open
      /\ open => rel
      /\ ~Continuing(b) /\ ~More(b)
  <2>1. open => rel
    BY <1>1 DEF Fits
  <2>2. b.part # "final"
    OBVIOUS
  <2>3. Joins(s, b) <=> b.rel /\ b.open
    BY <2>2 DEF Joins
  <2>4. Joins(s, b) <=> open
    BY <1>1, <2>1, <2>3
  <2> QED
    BY <2>1, <2>4 DEF Continuing, More
<1>4. /\ open => ~s.channel.openedLocally /\ ~s.channel.opened /\ Calm(s)
      /\ rel => s.channel.openedLocally \/ s.channel.openAcked \/ open
      /\ s.channel.openedLocally \/ s.channel.openAcked => s.channel.opened
      /\ close => s.channel.inRec = <<>>
  BY <1>1, <1>3 DEF Fits
<1>5. t = HandleBunch(s, rel, open, close, tags)
  BY <1>1
<1>6. Delivered(s, open, close, t) \/ (~rel /\ ~open /\ t = SkipAck(s))
  BY <1>2, <1>4, <1>5, HandleDelivers
<1>7. CASE Delivered(s, open, close, t)
  <2>1. /\ t \in End /\ t.state = s.state
        /\ t.channel = NoChannel => close
        /\ t.channel # NoChannel => /\ t.channel.inPartial = s.channel.inPartial
                                    /\ t.channel.openAcked <=> s.channel.openAcked \/ open
        /\ t.receiving = s.receiving
    BY <1>7 DEF Delivered
  <2>2. ASSUME t.channel # NoChannel PROVE Partially(s, b, t)
    <3>1. /\ Midway(t) <=> Midway(s)
          /\ Opening(t) <=> Opening(s)
          /\ t.channel.inPartial = s.channel.inPartial
      BY <1>2, <2>1, <2>2 DEF Midway, Opening
    <3>2. Opening(t) => t.channel.inPartial.rel
      BY <3>1 DEF Fits
    <3>3. b.rel => ~Midway(s)
      BY <1>3 DEF Fits
    <3> QED
      BY <1>3, <2>1, <3>1, <3>2, <3>3 DEF Partially
  <2> QED
    BY <1>1, <1>3, <2>1, <2>2 DEF Read
<1>8. CASE ~rel /\ t = SkipAck(s)
  BY <1>1, <1>8, FitsSkips
<1> QED
  BY <1>6, <1>7, <1>8

\* A part that follows is put behind the others; the last one completes the message.
LEMMA MergeReads ==
  ASSUME NEW s \in End, Bounded(s), incarnation \in Nat, NEW b \in Bunch, Fits(s, b),
         b.part \in {"middle", "final"}, NEW t, t = MergePartial(s, b)
  PROVE  Read(s, b, t)
<1> DEFINE q == s.channel.inPartial
           tags == Append(q.tags, b.tag)
           p == [q EXCEPT !.seq = b.seq, !.age = 0, !.tags = tags,
                           !.final = b.part = "final",
                           !.close = b.part = "final" /\ b.close]
           u == PartialSet(s, p)
<1>0. q \in {NoPartial} \cup Partial /\ s.channel # NoChannel
  BY ChannelIn DEF Channel, Fits
<1>1. t = IF Continues(q, b)
            THEN IF b.part = "final" THEN HandleBunch(u, q.rel, q.open, b.close, tags) ELSE u
          ELSE IF q # NoPartial /\ q.rel
            THEN IF b.rel THEN Error(s) ELSE SkipAck(s)
          ELSE SkipAck(PartialSet(s, NoPartial))
  BY DEF MergePartial, PartialSet
<1>2. /\ Midway(s) <=> q # NoPartial /\ q.rel /\ ~q.final
      /\ Opening(s) <=> q # NoPartial /\ q.open
      /\ Opening(s) => q.rel
      /\ Midway(s) /\ b.rel => b.seq = q.seq + 1
  BY <1>0 DEF Midway, Opening, Fits
<1> HIDE DEF u, q
<1>3. Continuing(b) /\ (More(b) <=> b.part # "final") /\ (Joins(s, b) <=> b.rel /\ b.part = "final" /\ Opening(s))
  BY DEF Continuing, More, Joins
<1>4. b.rel => Midway(s) /\ Continues(q, b)
  <2>1. b.rel => Midway(s)
    BY <1>3 DEF Fits
  <2>2. b.rel \in BOOLEAN /\ (q # NoPartial => q.rel \in BOOLEAN)
    BY <1>0 DEF Bunch, Partial
  <2> QED
    BY <1>2, <2>1, <2>2 DEF Continues
<1>5. ~b.close
  BY DEF Fits
<1>6. CASE Continues(q, b)
  <2>1. q \in Partial /\ ~q.final /\ q.rel = b.rel /\ q # NoPartial
    BY <1>0, <1>6 DEF Continues
  <2>2. tags \in Seq(Tag) /\ tags # <<>> /\ q.rel \in BOOLEAN /\ q.open \in BOOLEAN /\ b.close \in BOOLEAN
    <3>1. q.tags \in Seq(Tag) /\ b.tag \in Tag
      BY <2>1 DEF Partial, Bunch
    <3>2. tags \in Seq(Tag) /\ Len(tags) = Len(q.tags) + 1
      BY <3>1, AppendProperties
    <3>3. Len(q.tags) \in Nat
      BY <3>1
    <3>4. tags # <<>>
      BY <3>2, <3>3
    <3> QED
      BY <2>1, <3>2, <3>4 DEF Partial, Bunch
  <2> HIDE DEF tags
  <2>3. /\ p \in Partial /\ p.rel = q.rel /\ p.open = q.open /\ p.seq = b.seq
        /\ p.final = (b.part = "final")
    <3>1. PICK f \in BOOLEAN, c \in BOOLEAN, a \in 0 .. 2, e \in Nat :
            f = (b.part = "final") /\ c = (b.part = "final" /\ b.close) /\ a = 0 /\ e = b.seq
      <4>1. (b.part = "final") \in BOOLEAN /\ (b.part = "final" /\ b.close) \in BOOLEAN
        OBVIOUS
      <4>2. 0 \in 0 .. 2 /\ b.seq \in Nat
        BY DEF Bunch
      <4> QED
        BY <4>1, <4>2
    <3>2. p = [q EXCEPT !.seq = e, !.age = a, !.tags = tags, !.final = f, !.close = c]
      BY <3>1
    <3>3. /\ p \in Partial /\ p.rel = q.rel /\ p.open = q.open /\ p.seq = e /\ p.final = f
      BY <2>1, <2>2, <3>2 DEF Partial
    <3> QED
      BY <3>1, <3>3
  <2> HIDE DEF p
  <2>4. PartialIs(s, p, u)
    BY <1>0, <2>3, PartialSets DEF u
  <2>5. /\ Quiet(s, FALSE, u) /\ u \in End /\ u.state = s.state /\ u.channel # NoChannel
        /\ u.channel.inPartial = p /\ u.receiving = s.receiving
        /\ u.channel.openAcked = s.channel.openAcked
    BY <2>4 DEF PartialIs
  <2>6. Bounded(u)
    <3>1. PICK o \in BOOLEAN : o = FALSE
      OBVIOUS
    <3>2. Rx(s, u)
      BY <2>5, <3>1, QuietRx
    <3> QED
      BY <3>2 DEF Rx
  <2>7. p # NoPartial
    BY <2>3, NullAssumption
  <2>8. ASSUME t \in End, t.channel # NoChannel, t.channel.inPartial = p, t.receiving = s.receiving
        PROVE  Partially(s, b, t)
    <3>1. /\ Midway(t) <=> b.rel /\ b.part # "final"
          /\ Opening(t) <=> Opening(s)
      BY <1>2, <2>1, <2>3, <2>7, <2>8 DEF Midway, Opening
    <3>2. Opening(t) => t.channel.inPartial.rel
      BY <1>2, <2>3, <2>8, <3>1
    <3>3. ~b.rel => ~Midway(s)
      BY <1>2, <2>1
    <3>4. b.part # "initial"
      OBVIOUS
    <3> QED
      BY <1>3, <2>3, <2>8, <3>1, <3>2, <3>3, <3>4 DEF Partially
  <2>9. CASE b.part = "final"
    <3>1. t = HandleBunch(u, q.rel, q.open, b.close, tags)
      BY <1>1, <1>6, <2>9
    <3>2. PICK rel \in BOOLEAN, open \in BOOLEAN, close \in BOOLEAN :
            rel = q.rel /\ open = q.open /\ close = b.close
      BY <2>2
    <3>3. t = HandleBunch(u, rel, open, close, tags)
      BY <3>1, <3>2
    <3>4. rel = b.rel /\ close = FALSE
      BY <1>5, <2>1, <3>2
    <3>5. open <=> Opening(s)
      BY <1>2, <2>1, <3>2
    <3>6. open => rel
      BY <1>2, <3>2, <3>5
    <3>7. Joins(s, b) <=> open
      BY <1>3, <2>9, <3>4, <3>5, <3>6
    <3>8. /\ u.channel.openedLocally = s.channel.openedLocally
          /\ u.channel.opened = s.channel.opened
      BY <2>5 DEF Quiet
    <3>9. open => ~u.channel.openedLocally /\ ~u.channel.opened /\ Calm(u)
      <4>1. ASSUME open PROVE Calm(u)
        <5>1. Calm(s)
          BY <3>7, <4>1 DEF Fits
        <5>2. ASSUME NEW x \in End, Quiet(u, TRUE, x) PROVE SetChannelActor(x).state = x.state
          <6>1. PICK o \in BOOLEAN : o = TRUE
            OBVIOUS
          <6>2. Quiet(u, o, x)
            BY <5>2, <6>1
          <6>3. Quiet(s, o, x)
            BY <2>5, <6>2, QuietTransOpen
          <6>4. Quiet(s, TRUE, x)
            BY <6>1, <6>3
          <6> QED
            BY <5>1, <6>4 DEF Calm
        <5> QED
          BY <5>2 DEF Calm
      <4>2. open => ~s.channel.openedLocally /\ ~s.channel.opened
        BY <3>7 DEF Fits
      <4> QED
        BY <3>8, <4>1, <4>2
    <3>10. rel => u.channel.openedLocally \/ u.channel.openAcked \/ open
      <4>1. rel => s.channel.openedLocally \/ s.channel.openAcked \/ open
        BY <1>3, <2>9, <3>4, <3>7 DEF Fits
      <4> QED
        BY <2>5, <3>8, <4>1
    <3>11. close => u.channel.inRec = <<>>
      BY <3>4
    <3>15. u.channel.openedLocally \/ u.channel.openAcked => u.channel.opened
      BY <2>5, <3>8 DEF Fits
    <3>12. Delivered(u, open, close, t) \/ (~rel /\ ~open /\ t = SkipAck(u))
      BY <2>2, <2>5, <2>6, <3>3, <3>9, <3>10, <3>11, <3>15, HandleDelivers
    <3>13. CASE Delivered(u, open, close, t)
      <4>1. /\ t \in End /\ t.state = s.state /\ t.channel # NoChannel
            /\ t.channel.inPartial = p
            /\ t.channel.openAcked <=> s.channel.openAcked \/ Joins(s, b)
            /\ t.receiving = s.receiving
        BY <2>5, <3>4, <3>7, <3>13 DEF Delivered
      <4>2. Partially(s, b, t)
        BY <2>8, <4>1
      <4> QED
        BY <4>1, <4>2 DEF Read
    <3>14. CASE ~rel /\ ~open /\ t = SkipAck(u)
      <4>1. t \in End /\ t.state = u.state /\ t.channel = u.channel
        BY <2>5, <3>14, SkipAckType
      <4>2. ~b.rel /\ ~Midway(s) /\ ~Opening(s)
        BY <1>2, <2>1, <3>4, <3>5, <3>14
      <4>3. ~Midway(t) /\ ~Opening(t)
        BY <2>1, <2>3, <2>5, <3>2, <3>4, <3>14, <4>1 DEF Midway, Opening
      <4>4. SamePartial(s, t)
        BY <4>2, <4>3 DEF SamePartial
      <4> QED
        BY <2>5, <4>1, <4>2, <4>4, FitsKeeps
    <3> QED
      BY <3>12, <3>13, <3>14
  <2>10. CASE b.part # "final"
    <3>1. t = u
      BY <1>1, <1>6, <2>10
    <3>2. Partially(s, b, t)
      BY <2>5, <2>8, <3>1
    <3> QED
      BY <1>3, <2>5, <2>10, <3>1, <3>2 DEF Read
  <2> QED
    BY <2>9, <2>10
<1>7. CASE ~Continues(q, b)
  <2>1. ~b.rel
    BY <1>4, <1>7
  <2>2. CASE q # NoPartial /\ q.rel
    <3>1. t = SkipAck(s)
      BY <1>1, <1>7, <2>1, <2>2
    <3> QED
      BY <2>1, <3>1, FitsSkips
  <2>3. CASE ~(q # NoPartial /\ q.rel)
    <3>1. PICK n \in {NoPartial} \cup Partial : n = NoPartial
      OBVIOUS
    <3>2. PICK v : v = PartialSet(s, n)
      OBVIOUS
    <3>3. PartialIs(s, n, v)
      BY <1>0, <3>2, PartialSets
    <3>4. /\ v \in End /\ v.state = s.state /\ v.channel # NoChannel
          /\ v.channel.inPartial = NoPartial
          /\ v.channel.openAcked = s.channel.openAcked
      BY <3>1, <3>3 DEF PartialIs
    <3>5. t = SkipAck(v)
      BY <1>1, <1>7, <2>3, <3>1, <3>2
    <3>6. t \in End /\ t.state = v.state /\ t.channel = v.channel
      BY <3>4, <3>5, SkipAckType
    <3>7. ~Midway(t) /\ ~Opening(t) /\ ~Midway(s)
      BY <1>2, <2>3, <3>4, <3>6 DEF Midway, Opening
    <3>8. ~Opening(s)
      BY <1>2, <2>3
    <3>9. SamePartial(s, t)
      BY <3>7, <3>8 DEF SamePartial
    <3> QED
      BY <2>1, <3>4, <3>6, <3>9, FitsKeeps
  <2> QED
    BY <2>2, <2>3
<1> QED
  BY <1>6, <1>7

LEMMA HandlesReads ==
  ASSUME NEW s \in End, Bounded(s), incarnation \in Nat, NEW b \in Bunch, Fits(s, b),
         NEW t, t = Handles(s, b)
  PROVE  Read(s, b, t)
<1>1. b.part \in Part
  BY DEF Bunch
<1>2. CASE b.part = "whole"
  BY <1>2, WholeReads DEF Handles
<1>3. CASE b.part = "initial"
  BY <1>3, StartReads DEF Handles
<1>4. CASE b.part \in {"middle", "final"}
  <2>1. b.part # "whole" /\ b.part # "initial"
    BY <1>4
  <2>2. t = MergePartial(s, b)
    BY <2>1 DEF Handles
  <2> QED
    BY <1>4, <2>2, MergeReads
<1> QED
  BY <1>1, <1>2, <1>3, <1>4 DEF Part


-----------------------------------------------------------------------------
(* An end is handed a bunch: the same of it and of the parts it has.       *)

\* How r goes on, as far as the parts of its messages go.
Advances(r, b, t) ==
  /\ b.rel => /\ b.seq = r.inReliable + 1 /\ t.inReliable = b.seq
              /\ Midway(t) <=> More(b)
              /\ Midway(t) => t.channel.inPartial.seq = b.seq
  /\ ~b.rel => /\ t.inReliable = r.inReliable
               /\ Midway(t) <=> Midway(r)
               /\ Midway(r) => t.channel.inPartial.seq = r.channel.inPartial.seq

LEMMA ReadingAdvances ==
  ASSUME NEW s \in End, NEW r \in End, NEW h \in History, Line(s, r, h), Chained(s, h),
         Reading(s, r, h), NEW b, Sent(s, r, h, b), NEW t, Advances(r, b, t)
  PROVE  Reading(s, t, h)
<1>1. CASE ~b.rel
  <2>1. /\ t.inReliable = r.inReliable
        /\ Midway(t) <=> Midway(r)
        /\ Midway(r) => t.channel.inPartial.seq = r.channel.inPartial.seq
    BY <1>1 DEF Advances
  <2> QED
    BY <2>1 DEF Reading
<1>2. CASE b.rel
  <2>1. PICK L \in Int : L = Low(s)
    BY Lengths
  <2>2. PICK o \in Nat : o = s.outReliable
    BY EndTypes
  <2>3. PICK q \in L .. o : q = b.seq /\ b = h[q]
    BY <1>2, <2>1, <2>2 DEF Sent
  <2>4. /\ t.inReliable = q /\ (Midway(t) <=> More(h[q]))
        /\ (Midway(t) => t.channel.inPartial.seq = q)
    BY <1>2, <2>3 DEF Advances
  <2>5. CASE q = o
    <3>1. L <= s.outReliable => ~More(h[s.outReliable])
      BY <2>1 DEF Chained
    <3>2. ~More(h[q])
      BY <2>2, <2>3, <2>5, <3>1
    <3>3. ~(q < o)
      BY <2>5
    <3> QED
      BY <2>2, <2>4, <3>2, <3>3 DEF Reading
  <2>6. CASE q # o
    <3>1. q \in L .. o - 1 /\ q < o
      BY <2>2, <2>3, <2>6
    <3>2. More(h[q]) <=> Continuing(h[q + 1])
      BY <2>1, <2>2, <3>1 DEF Chained
    <3> QED
      BY <2>2, <2>4, <3>1, <3>2 DEF Reading
  <2> QED
    BY <2>5, <2>6
<1> QED
  BY <1>1, <1>2

LEMMA HandedAdvances ==
  ASSUME NEW s, NEW r, NEW h, NEW b, Sent(s, r, h, b), NEW w, NEW t, Handing(r, w, b, t),
         Read(w, b, t)
  PROVE  /\ Advances(r, b, t)
         /\ (Midway(w) <=> Midway(r)) /\ (Opening(w) <=> Opening(r))
         /\ t.inReliable = w.inReliable
         /\ b.close => b.rel /\ ~More(b) /\ b.part = "whole"
<1>1. /\ r.channel # NoChannel /\ w.channel # NoChannel
      /\ w.channel.inPartial = r.channel.inPartial /\ t.inReliable = w.inReliable
  BY DEF Handing, Gone, Took
<1>2. /\ Midway(w) <=> Midway(r)
      /\ Opening(w) <=> Opening(r)
  BY <1>1 DEF Midway, Opening
<1>3. b.close => b.rel /\ b.part = "whole"
  BY DEF Sent
<1>4. b.part = "whole" => ~More(b)
  BY DEF More
<1>5. CASE b.rel
  <2>1. b.seq = r.inReliable + 1 /\ t.inReliable = b.seq
    BY <1>1, <1>5 DEF Handing
  <2>2. CASE t.channel = NoChannel
    <3>1. ~Midway(t) /\ b.close
      BY <2>2 DEF Midway, Read
    <3> QED
      BY <1>1, <1>2, <1>3, <1>4, <1>5, <2>1, <3>1 DEF Advances
  <2>3. CASE t.channel # NoChannel
    <3>1. /\ Midway(t) <=> More(b)
          /\ Midway(t) => t.channel.inPartial.seq = b.seq
      BY <1>5, <2>3 DEF Read, Partially
    <3> QED
      BY <1>1, <1>2, <1>3, <1>4, <1>5, <2>1, <3>1 DEF Advances
  <2> QED
    BY <2>2, <2>3
<1>6. CASE ~b.rel
  <2>1. t.inReliable = r.inReliable
    BY <1>1, <1>6 DEF Handing
  <2>2. t.channel # NoChannel
    BY <1>3, <1>6 DEF Read
  <2>3. /\ Midway(t) <=> Midway(w)
        /\ Midway(w) => t.channel.inPartial.seq = w.channel.inPartial.seq
    BY <1>6, <2>2 DEF Read, Partially
  <2> QED
    BY <1>1, <1>2, <1>3, <1>4, <1>6, <2>1, <2>3 DEF Advances
<1> QED
  BY <1>5, <1>6

\* What the numbers say of a bunch that comes to its turn.
Turning(r, w, b) ==
  b.rel => /\ Midway(w) <=> Continuing(b)
           /\ Midway(w) => b.seq = w.channel.inPartial.seq + 1

LEMMA ReadingTurns ==
  ASSUME NEW s \in End, NEW r \in End, NEW h, Line(s, r, h), Reading(s, r, h),
         NEW b, Sent(s, r, h, b), NEW w, NEW t, Handing(r, w, b, t)
  PROVE  Turning(r, w, b)
<1> SUFFICES ASSUME b.rel
             PROVE  /\ Midway(w) <=> Continuing(b)
                    /\ Midway(w) => b.seq = w.channel.inPartial.seq + 1
  BY DEF Turning
<1>1. /\ r.channel # NoChannel /\ w.channel # NoChannel
      /\ w.channel.inPartial = r.channel.inPartial /\ b.seq = r.inReliable + 1
  BY DEF Handing, Gone
<1>2. Midway(w) <=> Midway(r)
  BY <1>1 DEF Midway
<1>3. PICK o \in Nat, n \in Nat : o = s.outReliable /\ n = r.inReliable
  BY EndTypes
<1>4. n + 1 <= o /\ b = h[n + 1]
  <2>1. b.seq \in Low(s) .. o /\ b = h[b.seq]
    BY <1>3 DEF Sent
  <2>2. Low(s) \in Int
    BY Lengths
  <2> QED
    BY <1>1, <1>3, <2>1, <2>2
<1>5. n < o
  BY <1>3, <1>4
<1>6. /\ Midway(r) <=> Continuing(b)
      /\ Midway(r) => r.channel.inPartial.seq = n
  BY <1>3, <1>4, <1>5 DEF Reading
<1> QED
  BY <1>1, <1>2, <1>3, <1>6

LEMMA ServerFits ==
  ASSUME NEW sv \in End, NEW cl \in End, NEW hs, NEW hc, Agree(sv, cl, hs, hc),
         Parts(sv, cl, hs, hc), sv.receiving.bunches # <<>> \/ Queue(sv) # <<>>,
         NEW b, Sent(cl, sv, hc, b), NEW w, NEW t, Handing(sv, w, b, t)
  PROVE  Fits(w, b) /\ Reading(cl, sv, hc) /\ ~Opening(sv) /\ w.channel.openedLocally = TRUE
<1>1. /\ hc \in History /\ Line(cl, sv, hc) /\ ServerTurn(sv, cl) /\ ClientTurn(cl, hc)
      /\ JoinTurn(sv, cl)
  BY AgreeParts
<1>2. b \in Bunch /\ ~b.open /\ ~b.close
  BY <1>1, SentByClient
<1>3. /\ w.channel # NoChannel /\ sv.channel # NoChannel /\ w \in End
      /\ w.channel.openedLocally = sv.channel.openedLocally
      /\ w.channel.inPartial = sv.channel.inPartial
  BY DEF Handing, Gone
<1>4. w.channel.openedLocally = TRUE
  <2>1. sv.channel.openedLocally /\ w.channel \in Channel
    BY <1>1, <1>3 DEF ServerTurn, End
  <2>2. w.channel.openedLocally \in BOOLEAN
    BY <2>1 DEF Channel
  <2> QED
    BY <1>3, <2>1, <2>2
<1>5. Reading(cl, sv, hc) /\ ~Opening(sv)
  <2>1. ~Joining(sv, cl)
    BY <1>1 DEF JoinTurn
  <2> QED
    BY <1>3, <2>1 DEF Parts, AnswerTurn, OpenTurn
<1>6. ~Opening(w)
  BY <1>3, <1>5 DEF Opening
<1>7. ~Joins(w, b)
  BY <1>2, <1>6 DEF Joins
<1>8. Turning(sv, w, b)
  BY <1>1, <1>5, ReadingTurns
<1>10. w.channel.opened
  <2>1. ~Joining(sv, cl)
    BY <1>1 DEF JoinTurn
  <2>2. sv.channel.opened
    BY <1>3, <2>1 DEF Parts, OpenTurn, Unsent
  <2> QED
    BY <2>2 DEF Handing, Gone
<1>9. Fits(w, b)
  BY <1>2, <1>3, <1>4, <1>6, <1>7, <1>8, <1>10 DEF Fits, Turning
<1> QED
  BY <1>4, <1>5, <1>9

\* The server goes on as it was.
LEMMA OpenTurnServer ==
  ASSUME NEW sv, NEW cl, NEW hs, OpenTurn(sv, cl, hs), NEW t, ~Opening(t), Low(t) = Low(sv),
         t.outReliable = sv.outReliable, sv.channel # NoChannel, t.channel # NoChannel,
         t.channel.opened = sv.channel.opened, t.channel.closing = sv.channel.closing
  PROVE  OpenTurn(t, cl, hs) /\ (Joining(t, cl) <=> Joining(sv, cl))
<1>1. Joining(t, cl) <=> Joining(sv, cl)
  BY DEF Joining, Left, Closing
<1>2. Unsent(t, cl)
  BY <1>1 DEF OpenTurn, Unsent
<1>3. OpensFirst(t, cl, hs)
  BY <1>1 DEF OpenTurn, OpensFirst
<1>4. OpensOnce(t, cl, hs)
  BY <1>1 DEF OpenTurn, OpensOnce
<1> QED
  BY <1>1, <1>2, <1>3, <1>4 DEF OpenTurn

LEMMA PartsServerHanded ==
  ASSUME NEW sv \in End, NEW cl \in End, NEW hs, NEW hc, Agree(sv, cl, hs, hc),
         Parts(sv, cl, hs, hc), sv.receiving.bunches # <<>> \/ Queue(sv) # <<>>,
         incarnation \in Nat, sv.state # "error",
         NEW b, Sent(cl, sv, hc, b), NEW t, HandedOn(cl, sv, hc, b, t)
  PROVE  /\ Agree(t, cl, hs, hc) /\ Parts(t, cl, hs, hc) /\ t.state = sv.state
         /\ b.rel => t.receiving.skipAck = sv.receiving.skipAck
<1>1. PICK w : Line(cl, w, hc) /\ Handing(sv, w, b, t)
  BY DEF HandedOn
<1>2. /\ w \in End /\ Bounded(w) /\ w.state = sv.state /\ Gone(sv, w)
      /\ t = Handles(w, b) /\ Took(w, b, t) /\ b \in Bunch /\ w.receiving.busy = TRUE
  BY <1>1 DEF Handing, Sent, Gone
<1>3. /\ hs \in History /\ hc \in History /\ Line(cl, sv, hc) /\ Line(sv, cl, hs)
      /\ ClientTurn(cl, hc) /\ JoinTurn(sv, cl)
  BY AgreeParts
<1>4. Fits(w, b) /\ Reading(cl, sv, hc) /\ ~Opening(sv) /\ w.channel.openedLocally = TRUE
  BY <1>1, ServerFits
<1>5. Read(w, b, t)
  BY <1>2, <1>4, HandlesReads
<1>6. t.state = sv.state /\ t.state # "error" /\ t \in End
  BY <1>2, <1>5 DEF Read
<1>7. Agree(t, cl, hs, hc)
  BY <1>6, ServerHanded
<1>8. ~b.open /\ ~b.close
  BY <1>3, SentByClient
<1>9. Quiet(w, FALSE, t)
  BY <1>2, <1>4, <1>6, <1>8, LocalTakes
<1>10. /\ t.outReliable = sv.outReliable /\ Low(t) = Low(sv)
       /\ sv.channel # NoChannel /\ t.channel # NoChannel
       /\ t.channel.opened = sv.channel.opened /\ t.channel.closing = sv.channel.closing
  <2>1. /\ w.outReliable = sv.outReliable /\ w.pendingOutRec = sv.pendingOutRec
        /\ Records(w) = Records(sv) /\ sv.channel # NoChannel
        /\ w.channel.opened = sv.channel.opened /\ w.channel.closing = sv.channel.closing
    BY <1>2 DEF Gone, SameSender
  <2>2. /\ t.outReliable = w.outReliable /\ t.pendingOutRec = w.pendingOutRec
        /\ t.channel # NoChannel /\ w.channel # NoChannel /\ t.channel.outRec = w.channel.outRec
        /\ t.channel.opened = w.channel.opened /\ t.channel.closing = w.channel.closing
    BY <1>9 DEF Quiet
  <2>3. Records(t) = Records(sv)
    BY <2>1, <2>2 DEF Records
  <2>4. Low(t) = Low(sv)
    BY <2>1, <2>2, <2>3 DEF Low
  <2> QED
    BY <2>1, <2>2, <2>4
<1>11. Advances(sv, b, t) /\ ~Opening(w)
  BY <1>1, <1>4, <1>5, HandedAdvances
<1>12. ~Opening(t)
  BY <1>5, <1>8, <1>10, <1>11 DEF Read, Partially
<1>13. Chained(sv, hs) /\ Chained(cl, hc) /\ Reading(sv, cl, hs) /\ OpenTurn(sv, cl, hs)
  BY DEF Parts
<1>14. Chained(t, hs) /\ Reading(t, cl, hs)
  BY <1>10, <1>13 DEF Chained, Reading
<1>15. OpenTurn(t, cl, hs) /\ (Joining(t, cl) <=> Joining(sv, cl))
  BY <1>10, <1>12, <1>13, OpenTurnServer
<1>16. AnswerTurn(t, cl, hc)
  <2>1. ~Joining(sv, cl)
    BY <1>3 DEF JoinTurn
  <2>2. Reading(cl, t, hc)
    BY <1>3, <1>4, <1>11, <1>13, ReadingAdvances
  <2> QED
    BY <1>15, <2>1, <2>2 DEF AnswerTurn
<1>17. b.rel => t.receiving.skipAck = sv.receiving.skipAck
  BY <1>1, <1>5 DEF Handing, Read
<1> QED
  BY <1>6, <1>7, <1>13, <1>14, <1>15, <1>16, <1>17 DEF Parts

\* The client opens its channel for the first bunch of it, and for no other.
LEMMA ClientJoins ==
  ASSUME NEW sv \in End, NEW cl \in End, NEW hs \in History, Line(sv, cl, hs),
         OpenTurn(sv, cl, hs), Chained(sv, hs), Reading(sv, cl, hs),
         NEW b, b.rel, b.seq \in Low(sv) .. sv.outReliable, b = hs[b.seq],
         b.seq = cl.inReliable + 1
  PROVE  /\ ~Joining(sv, cl) => ~b.open /\ ~(Continuing(b) /\ Opening(cl))
         /\ Joining(sv, cl) =>
              \/ b.open /\ ~Continuing(b)
              \/ Continuing(b) /\ Opening(cl) /\ ~b.open
<1>1. PICK L \in Int : L = Low(sv)
  BY Lengths
<1>2. PICK o \in Nat, n \in Nat : o = sv.outReliable /\ n = cl.inReliable
  BY EndTypes
<1>3. PICK q \in L .. o : q = b.seq /\ b = hs[q] /\ q = n + 1
  BY <1>1, <1>2
<1>4. n < o /\ n + 1 = q /\ q > n
  BY <1>3
<1>5. Midway(cl) <=> Continuing(b)
  BY <1>2, <1>3, <1>4 DEF Reading
<1>6. ASSUME ~Joining(sv, cl) PROVE ~b.open /\ ~(Continuing(b) /\ Opening(cl))
  <2>1. OpensOnce(sv, cl, hs)
    BY DEF OpenTurn
  <2>2. ~b.open
    BY <1>1, <1>2, <1>3, <1>4, <1>6, <2>1 DEF OpensOnce
  <2>3. Midway(cl) => ~Opening(cl)
    BY <1>6, <2>1 DEF OpensOnce
  <2> QED
    BY <1>5, <2>2, <2>3
<1>7. ASSUME Joining(sv, cl)
      PROVE  \/ b.open /\ ~Continuing(b)
             \/ Continuing(b) /\ Opening(cl) /\ ~b.open
  <2>1. sv.channel.opened
    <3>1. ~(Low(sv) > sv.outReliable)
      BY <1>1, <1>2, <1>3
    <3> QED
      BY <1>7, <3>1 DEF OpenTurn, Unsent, Joining
  <2>2. /\ hs[L].open /\ ~Continuing(hs[L])
        /\ \A p \in L .. n : More(hs[p])
        /\ \A p \in L + 1 .. o : ~hs[p].open
        /\ n >= L => Opening(cl)
    BY <1>1, <1>2, <1>7, <2>1 DEF OpenTurn, OpensFirst
  <2>3. CASE q = L
    BY <1>3, <2>2, <2>3
  <2>4. CASE q # L
    <3>1. n \in L .. n /\ n \in L .. o - 1 /\ q \in L + 1 .. o /\ n >= L
      BY <1>2, <1>3, <2>4
    <3>2. More(hs[n]) <=> Continuing(hs[n + 1])
      BY <1>1, <1>2, <3>1 DEF Chained
    <3>3. Continuing(b)
      BY <1>3, <1>4, <2>2, <3>1, <3>2
    <3> QED
      BY <1>3, <2>2, <3>1, <3>3
  <2> QED
    BY <2>3, <2>4
<1> QED
  BY <1>6, <1>7

LEMMA ClientCalm ==
  ASSUME NEW sv \in End, NEW cl \in End, NEW hs, NEW hc, Agree(sv, cl, hs, hc),
         incarnation \in Nat, NEW w, Gone(cl, w), Line(sv, w, hs), ~w.channel.opened
  PROVE  Calm(w)
<1> SUFFICES ASSUME NEW u \in End, Quiet(w, TRUE, u) PROVE SetChannelActor(u).state = u.state
  BY DEF Calm
<1>1. PICK v : v = SetChannelActor(u)
  OBVIOUS
<1>2. Settled(sv, cl, hs, hc, w) /\ cl.channel # NoChannel
  BY SettledGone DEF Gone
<1>3. Opens(sv, cl, hs, hc, w, u, v)
  BY <1>1, <1>2 DEF Opens
<1>4. v.state = u.state
  BY <1>2, <1>3, SettledOpen
<1> QED
  BY <1>1, <1>4

LEMMA ClientFits ==
  ASSUME NEW sv \in End, NEW cl \in End, NEW hs, NEW hc, Agree(sv, cl, hs, hc),
         Parts(sv, cl, hs, hc), incarnation \in Nat,
         NEW b, Sent(sv, cl, hs, b), NEW w, NEW t, Line(sv, w, hs), Handing(cl, w, b, t)
  PROVE  /\ Fits(w, b)
         /\ sv.channel # NoChannel /\ cl.channel # NoChannel
         /\ w.channel.openedLocally = FALSE
         /\ Joining(sv, cl) <=> ~w.channel.openAcked
         /\ Joins(w, b) => Joining(sv, cl)
<1>1. /\ hs \in History /\ hc \in History /\ Line(sv, cl, hs) /\ ServerTurn(sv, cl)
      /\ CloseTurn(sv, cl, hs) /\ ClientTurn(cl, hc)
  BY AgreeParts
<1>2. /\ w \in End /\ Gone(cl, w) /\ w.channel # NoChannel /\ cl.channel # NoChannel
      /\ w.channel.openedLocally = cl.channel.openedLocally
      /\ w.channel.opened = cl.channel.opened /\ w.channel.openAcked = cl.channel.openAcked
      /\ w.channel.inPartial = cl.channel.inPartial
      /\ b.rel => w.inReliable = b.seq /\ b.seq = cl.inReliable + 1
  BY DEF Handing, Gone
<1>3. /\ sv.channel # NoChannel /\ w.channel.opened = w.channel.openAcked
      /\ w.channel.openedLocally = FALSE
  <2>1. sv.channel # NoChannel
    BY <1>1, <1>2 DEF ServerTurn
  <2>2. ~cl.channel.openedLocally /\ cl.channel.opened = cl.channel.openAcked
    BY <1>1, <1>2 DEF ClientTurn
  <2>3. w.channel.openedLocally \in BOOLEAN
    BY <1>2, ChannelIn DEF Channel
  <2> QED
    BY <1>2, <2>1, <2>2, <2>3
<1>4. Joining(sv, cl) <=> ~w.channel.openAcked
  BY <1>2, <1>3 DEF Joining, Joined, Left
<1>5. /\ Midway(w) <=> Midway(cl)
      /\ Opening(w) <=> Opening(cl)
  BY <1>2 DEF Midway, Opening
<1>6. Opening(w) => w.channel.inPartial.rel
  BY <1>2, <1>5 DEF Parts, OpenTurn
<1>7. Turning(cl, w, b)
  BY <1>1, ReadingTurns DEF Parts
<1>8. b \in Bunch /\ (~b.rel => ~b.open /\ ~b.close) /\ (b.close => b.rel /\ b.part = "whole")
  BY DEF Sent
<1>9. ASSUME b.rel
      PROVE  /\ ~Joining(sv, cl) => ~b.open /\ ~(Continuing(b) /\ Opening(cl))
             /\ Joining(sv, cl) =>
                  \/ b.open /\ ~Continuing(b)
                  \/ Continuing(b) /\ Opening(cl) /\ ~b.open
  <2>1. b.seq \in Low(sv) .. sv.outReliable /\ b = hs[b.seq] /\ b.seq = cl.inReliable + 1
    BY <1>2, <1>9 DEF Sent
  <2>2. OpenTurn(sv, cl, hs) /\ Chained(sv, hs) /\ Reading(sv, cl, hs)
    BY DEF Parts
  <2> QED
    BY <1>1, <1>9, <2>1, <2>2, ClientJoins
<1>10. Joins(w, b) => Joining(sv, cl)
  <2>1. SUFFICES ASSUME Joins(w, b) PROVE Joining(sv, cl)
    OBVIOUS
  <2>2. b.rel /\ (b.open \/ (b.part = "final" /\ Opening(cl)))
    BY <1>5, <2>1 DEF Joins
  <2>3. b.part = "final" => Continuing(b)
    BY DEF Continuing
  <2> QED
    BY <1>9, <2>2, <2>3
<1>11. Joins(w, b) => ~w.channel.openedLocally /\ ~w.channel.opened /\ Calm(w)
  <2>1. Joins(w, b) => ~w.channel.opened
    BY <1>3, <1>4, <1>10
  <2> QED
    BY <1>2, <1>3, <2>1, ClientCalm
<1>12. b.rel /\ ~More(b) => w.channel.openedLocally \/ w.channel.openAcked \/ Joins(w, b)
  <2>1. SUFFICES ASSUME b.rel, ~More(b), ~w.channel.openAcked PROVE Joins(w, b)
    OBVIOUS
  <2>2. \/ b.open /\ ~Continuing(b)
        \/ Continuing(b) /\ Opening(w)
    BY <1>4, <1>5, <1>9, <2>1
  <2>3. /\ ~Continuing(b) => b.part = "whole"
        /\ Continuing(b) => b.part = "final"
    BY <1>8, <2>1 DEF More, Continuing, Bunch, Part
  <2> QED
    BY <2>1, <2>2, <2>3 DEF Joins
<1>13. b.close => b.part = "whole" /\ w.channel.inRec = <<>>
  <2>1. SUFFICES ASSUME b.close PROVE w.channel.inRec = <<>>
    BY <1>8
  <2>2. w.inReliable = sv.outReliable
    <3>1. b.seq \in Low(sv) .. sv.outReliable /\ b = hs[b.seq] /\ w.inReliable = b.seq
      BY <1>2, <1>8, <2>1 DEF Sent
    <3> QED
      BY <1>1, <2>1, <3>1 DEF CloseTurn
  <2>3. PICK o \in Nat : o = sv.outReliable
    BY EndTypes
  <2>4. \A i \in DOMAIN Queue(w) : Queue(w)[i].seq \in o + 1 .. o
    BY <2>2, <2>3 DEF Line, Queued
  <2>5. DOMAIN Queue(w) = {}
    <3>1. o + 1 .. o = {}
      BY <2>3
    <3>2. \A i \in DOMAIN Queue(w) : Queue(w)[i].seq \in {}
      BY <2>4, <3>1
    <3> QED
      BY <3>2
  <2>6. Queue(w) \in Seq(Bunch)
    BY <1>2, EndTypes
  <2>7. Queue(w) = <<>>
    BY <2>5, <2>6
  <2> QED
    BY <1>2, <2>7 DEF Queue
<1>14. Fits(w, b)
  <2>1. b.rel => /\ Midway(w) <=> Continuing(b)
                 /\ Midway(w) => b.seq = w.channel.inPartial.seq + 1
    BY <1>7 DEF Turning
  <2>2. w.channel.openedLocally \/ w.channel.openAcked => w.channel.opened
    BY <1>3
  <2> QED
    BY <1>2, <1>6, <1>8, <1>11, <1>12, <1>13, <2>1, <2>2 DEF Fits
<1> QED
  BY <1>2, <1>3, <1>4, <1>10, <1>14

\* How the client goes on, as far as its joining goes.
Onward(sv, cl, b, t) ==
  /\ Advances(cl, b, t)
  /\ b.rel => (Midway(cl) <=> Continuing(b))
  /\ t.channel = NoChannel => ~Joining(sv, t) /\ b.rel /\ ~More(b)
  /\ t.channel # NoChannel =>
       /\ b.rel => (Opening(t) <=> IF b.part = "initial" THEN b.open ELSE Opening(cl))
       /\ ~b.rel => /\ Opening(t) => Opening(cl)
                    /\ Midway(cl) /\ Opening(cl) => Opening(t)
  /\ Opening(t) => t.channel.inPartial.rel
  /\ Joining(sv, t) => Joining(sv, cl) /\ (b.rel => More(b))
  /\ Joining(sv, cl) /\ ~Joining(sv, t) => b.rel /\ ~More(b)

LEMMA OnwardOpens ==
  ASSUME NEW sv \in End, NEW cl \in End, NEW hs \in History, Line(sv, cl, hs),
         OpenTurn(sv, cl, hs), Chained(sv, hs), Reading(sv, cl, hs),
         NEW b, Sent(sv, cl, hs, b), NEW t, Onward(sv, cl, b, t)
  PROVE  OpenTurn(sv, t, hs)
<1>1. PICK L \in Int : L = Low(sv)
  BY Lengths
<1>2. PICK o \in Nat, n \in Nat : o = sv.outReliable /\ n = cl.inReliable
  BY EndTypes
<1>3. /\ b.rel => /\ b.seq \in L .. o /\ b = hs[b.seq] /\ b.seq = n + 1 /\ t.inReliable = b.seq
                  /\ (Midway(t) <=> More(b)) /\ (Midway(cl) <=> Continuing(b))
      /\ ~b.rel => t.inReliable = n /\ (Midway(t) <=> Midway(cl))
  <2>1. b.rel => b.seq \in L .. o /\ b = hs[b.seq]
    BY <1>1, <1>2 DEF Sent
  <2>2. /\ b.rel => /\ b.seq = n + 1 /\ t.inReliable = b.seq
                    /\ (Midway(t) <=> More(b)) /\ (Midway(cl) <=> Continuing(b))
        /\ ~b.rel => t.inReliable = n /\ (Midway(t) <=> Midway(cl))
    BY <1>2 DEF Onward, Advances
  <2> QED
    BY <2>1, <2>2
<1>4. PICK m \in Nat : m = t.inReliable /\ n <= m
  <2>1. CASE b.rel
    BY <1>2, <1>3, <2>1
  <2>2. CASE ~b.rel
    BY <1>2, <1>3, <2>2
  <2> QED
    BY <2>1, <2>2
<1>5. Joining(sv, t) => Joining(sv, cl)
  BY DEF Onward
<1>6. Unsent(sv, cl) /\ OpensFirst(sv, cl, hs) /\ OpensOnce(sv, cl, hs)
  BY DEF OpenTurn
<1>7. sv.channel # NoChannel /\ ~sv.channel.opened => ~b.rel /\ L > o /\ Joining(sv, cl)
  <2>1. sv.channel # NoChannel /\ ~sv.channel.opened => L > o /\ Joining(sv, cl)
    BY <1>1, <1>2, <1>6 DEF Unsent
  <2>2. L > o => ~b.rel
    BY <1>2, <1>3
  <2> QED
    BY <2>1, <2>2
<1>8. Unsent(sv, t)
  <2>1. ~b.rel /\ Joining(sv, cl) => Joining(sv, t)
    BY DEF Onward
  <2> QED
    BY <1>1, <1>2, <1>7, <2>1 DEF Unsent
<1>9. OpensFirst(sv, t, hs)
  <2>1. SUFFICES ASSUME Joining(sv, t), sv.channel.opened PROVE OpensFirst(sv, t, hs)
    BY DEF OpensFirst
  <2>2. /\ L <= o /\ hs[L].open /\ ~Continuing(hs[L])
        /\ \A q \in L .. n : More(hs[q])
        /\ \A q \in L + 1 .. o : ~hs[q].open
        /\ n >= L => Opening(cl)
    BY <1>1, <1>2, <1>5, <1>6, <2>1 DEF OpensFirst
  <2>3. t.channel # NoChannel /\ (b.rel => More(b))
    BY <2>1 DEF Onward
  <2>4. \A q \in L .. m : More(hs[q])
    <3>1. CASE b.rel
      <4>1. \A q \in L .. m : q \in L .. n \/ q = b.seq
        BY <1>3, <1>4, <3>1
      <4> QED
        BY <1>3, <2>2, <2>3, <3>1, <4>1
    <3>2. CASE ~b.rel
      BY <1>3, <1>4, <2>2, <3>2
    <3> QED
      BY <3>1, <3>2
  <2>5. ASSUME m >= L PROVE Opening(t)
    <3>1. CASE b.rel
      <4>1. Opening(t) <=> IF b.part = "initial" THEN b.open ELSE Opening(cl)
        BY <2>3, <3>1 DEF Onward
      <4>2. CASE b.seq = L
        <5>1. b.open /\ ~Continuing(b)
          BY <1>3, <2>2, <3>1, <4>2
        <5>2. b.part = "initial"
          BY <2>3, <3>1, <5>1 DEF More, Continuing
        <5> QED
          BY <4>1, <5>1, <5>2
      <4>3. CASE b.seq # L
        <5>1. n >= L /\ n \in L .. n /\ n \in L .. o - 1
          BY <1>3, <3>1, <4>3
        <5>2. More(hs[n]) <=> Continuing(hs[n + 1])
          BY <1>1, <1>2, <5>1 DEF Chained
        <5>3. Continuing(b)
          BY <1>3, <2>2, <3>1, <5>1, <5>2
        <5>4. b.part # "initial"
          BY <5>3 DEF Continuing
        <5> QED
          BY <2>2, <4>1, <5>1, <5>4
      <4> QED
        BY <4>2, <4>3
    <3>2. CASE ~b.rel
      <4>1. n >= L /\ n \in L .. n
        BY <1>3, <1>4, <2>5, <3>2
      <4>2. More(hs[n]) /\ Opening(cl)
        BY <2>2, <4>1
      <4>3. n <= o
        BY <1>2 DEF Line, Numbered
      <4>4. n # o
        BY <1>1, <1>2, <2>2, <4>2 DEF Chained
      <4>5. n \in L .. o - 1 /\ n < o
        BY <4>1, <4>3, <4>4
      <4>6. Continuing(hs[n + 1])
        BY <1>1, <1>2, <4>2, <4>5 DEF Chained
      <4>7. Midway(cl)
        BY <1>2, <4>5, <4>6 DEF Reading
      <4> QED
        BY <2>3, <3>2, <4>2, <4>7 DEF Onward
    <3> QED
      BY <3>1, <3>2
  <2> QED
    BY <1>1, <1>2, <1>4, <2>2, <2>4, <2>5 DEF OpensFirst
<1>10. OpensOnce(sv, t, hs)
  <2>1. SUFFICES ASSUME ~Joining(sv, t) PROVE OpensOnce(sv, t, hs)
    BY DEF OpensOnce
  <2>2. CASE ~Joining(sv, cl)
    <3>1. /\ Midway(cl) => ~Opening(cl)
          /\ \A q \in L .. o : q > n => ~hs[q].open
      BY <1>1, <1>2, <1>6, <2>2 DEF OpensOnce
    <3>2. \A q \in L .. o : q > m => ~hs[q].open
      BY <1>4, <3>1
    <3>3. ASSUME Midway(t) PROVE ~Opening(t)
      <4>1. t.channel # NoChannel
        BY <3>3 DEF Midway
      <4>2. CASE b.rel
        <5>1. ~b.open
          BY <1>3, <3>1, <4>2
        <5>2. Opening(t) <=> IF b.part = "initial" THEN b.open ELSE Opening(cl)
          BY <4>1, <4>2 DEF Onward
        <5>3. More(b)
          BY <1>3, <3>3, <4>2
        <5>4. b.part # "initial" => Continuing(b)
          BY <5>3 DEF More, Continuing
        <5>5. Continuing(b) => ~Opening(cl)
          BY <1>3, <3>1, <4>2
        <5> QED
          BY <5>1, <5>2, <5>4, <5>5
      <4>3. CASE ~b.rel
        <5>1. Midway(cl) /\ ~Opening(cl)
          BY <1>3, <3>1, <3>3, <4>3
        <5> QED
          BY <4>1, <4>3, <5>1 DEF Onward
      <4> QED
        BY <4>2, <4>3
    <3> QED
      BY <1>1, <1>2, <1>4, <3>2, <3>3 DEF OpensOnce
  <2>3. CASE Joining(sv, cl)
    <3>1. b.rel /\ ~More(b)
      BY <2>1, <2>3 DEF Onward
    <3>2. ~Midway(t)
      BY <1>3, <3>1
    <3>3. sv.channel.opened
      BY <1>7, <2>3, <3>1 DEF Joining
    <3>4. \A q \in L + 1 .. o : ~hs[q].open
      BY <1>1, <1>2, <1>6, <2>3, <3>3 DEF OpensFirst
    <3>5. \A q \in L .. o : q > m => ~hs[q].open
      <4>1. m >= L
        BY <1>3, <1>4, <3>1
      <4>2. \A q \in L .. o : q > m => q \in L + 1 .. o
        BY <4>1
      <4> QED
        BY <3>4, <4>2
    <3> QED
      BY <1>1, <1>2, <1>4, <3>2, <3>5 DEF OpensOnce
  <2> QED
    BY <2>2, <2>3
<1>11. (Opening(t) => t.channel.inPartial.rel) /\ ~Opening(sv)
  BY DEF Onward, OpenTurn
<1> QED
  BY <1>8, <1>9, <1>10, <1>11 DEF OpenTurn

LEMMA HandedOnward ==
  ASSUME NEW sv \in End, NEW cl \in End, NEW hs, NEW hc, Agree(sv, cl, hs, hc),
         Parts(sv, cl, hs, hc), incarnation \in Nat,
         NEW b, Sent(sv, cl, hs, b), NEW w, NEW t, Line(sv, w, hs), Handing(cl, w, b, t),
         Read(w, b, t)
  PROVE  Onward(sv, cl, b, t)
<1>1. CloseTurn(sv, cl, hs)
  BY AgreeParts
<1>2. /\ Fits(w, b)
      /\ sv.channel # NoChannel /\ cl.channel # NoChannel /\ w.channel.openedLocally = FALSE
      /\ Joining(sv, cl) <=> ~w.channel.openAcked
      /\ Joins(w, b) => Joining(sv, cl)
  BY ClientFits
<1>3. /\ Advances(cl, b, t)
      /\ Midway(w) <=> Midway(cl)
      /\ Opening(w) <=> Opening(cl)
      /\ t.inReliable = w.inReliable
      /\ b.close => b.rel /\ ~More(b)
  BY HandedAdvances
<1>4. b.rel => (Midway(cl) <=> Continuing(b))
  BY <1>2, <1>3 DEF Fits
<1>5. t.channel = NoChannel => ~Joining(sv, t) /\ b.rel /\ ~More(b)
  <2>1. SUFFICES ASSUME t.channel = NoChannel PROVE ~Joining(sv, t) /\ b.rel /\ ~More(b)
    OBVIOUS
  <2>2. b.close
    BY <2>1 DEF Read
  <2>3. b.seq \in Low(sv) .. sv.outReliable /\ hs[b.seq].close /\ t.inReliable = b.seq
    BY <1>3, <2>2 DEF Sent, Advances
  <2>4. Closing(sv) /\ t.inReliable = sv.outReliable
    BY <1>1, <2>3 DEF CloseTurn
  <2> QED
    BY <1>3, <2>1, <2>2, <2>4 DEF Joining, Left
<1>6. t.channel # NoChannel =>
        /\ Partially(w, b, t)
        /\ t.channel.openAcked <=> w.channel.openAcked \/ Joins(w, b)
  BY DEF Read
<1>7. t.channel # NoChannel =>
        /\ b.rel => (Opening(t) <=> IF b.part = "initial" THEN b.open ELSE Opening(cl))
        /\ ~b.rel => /\ Opening(t) => Opening(cl)
                     /\ Midway(cl) /\ Opening(cl) => Opening(t)
  <2>1. SUFFICES ASSUME t.channel # NoChannel
        PROVE  /\ b.rel => (Opening(t) <=> IF b.part = "initial" THEN b.open ELSE Opening(cl))
               /\ ~b.rel => /\ Opening(t) => Opening(cl)
                            /\ Midway(cl) /\ Opening(cl) => Opening(t)
    OBVIOUS
  <2>2. Partially(w, b, t)
    BY <1>6, <2>1
  <2>3. CASE b.rel
    BY <1>3, <2>2, <2>3 DEF Partially
  <2>4. CASE ~b.rel
    BY <1>3, <2>2, <2>4 DEF Partially
  <2> QED
    BY <2>3, <2>4
<1>8. Opening(t) => t.channel.inPartial.rel
  <2>1. Opening(t) => t.channel # NoChannel
    BY DEF Opening
  <2> QED
    BY <1>6, <2>1 DEF Partially
<1>9. t.channel # NoChannel => (Joining(sv, t) <=> ~t.channel.openAcked)
  BY <1>2 DEF Joining, Joined, Left
<1>10. Joining(sv, t) => Joining(sv, cl) /\ (b.rel => More(b))
  <2>1. SUFFICES ASSUME Joining(sv, t) PROVE Joining(sv, cl) /\ (b.rel => More(b))
    OBVIOUS
  <2>2. ~w.channel.openAcked /\ ~Joins(w, b)
    BY <1>5, <1>6, <1>9, <2>1
  <2> QED
    BY <1>2, <2>2 DEF Fits
<1>11. Joining(sv, cl) /\ ~Joining(sv, t) => b.rel /\ ~More(b)
  <2>1. SUFFICES ASSUME Joining(sv, cl), ~Joining(sv, t), t.channel # NoChannel
                 PROVE  b.rel /\ ~More(b)
    BY <1>5
  <2>2. Joins(w, b)
    BY <1>2, <1>6, <1>9, <2>1
  <2>3. b.rel /\ b.part \in {"whole", "final"}
    BY <2>2 DEF Joins
  <2> QED
    BY <2>3 DEF More
<1> QED
  BY <1>3, <1>4, <1>5, <1>7, <1>8, <1>10, <1>11 DEF Onward

LEMMA AnswerRenewed ==
  ASSUME NEW sv \in End, NEW cl \in End, NEW hs, NEW hc, Agree(sv, cl, hs, hc),
         AnswerTurn(sv, cl, hc), Chained(cl, hc),
         NEW t \in End, NEW g, Agree(sv, t, hs, g), Renewed(sv, cl, hc, t, g),
         Joining(sv, t) => Joining(sv, cl)
  PROVE  AnswerTurn(sv, t, g) /\ Chained(t, g)
<1>1. PICK L \in Int : L = Low(cl) /\ L = Low(t)
  BY Lengths DEF Renewed, Resumed
<1>2. PICK o \in Nat : o = cl.outReliable /\ o = t.outReliable
  BY EndTypes DEF Renewed, Resumed
<1>3. PICK n \in Nat : n = sv.inReliable
  BY EndTypes
<1>4. L - 1 <= n
  <2>1. Numbered(cl, sv, hc)
    BY AgreeParts
  <2> QED
    BY <1>1, <1>3, <2>1 DEF Numbered
<1>5. Joining(sv, t) => ~Midway(sv)
  BY DEF AnswerTurn
<1>6. CASE g = hc
  <2>1. Chained(t, g)
    BY <1>1, <1>2, <1>6 DEF Chained
  <2>2. ASSUME sv.channel # NoChannel, ~Joining(sv, t) PROVE Reading(t, sv, g)
    <3>1. CASE ~Joining(sv, cl)
      <4>1. Reading(cl, sv, hc)
        BY <2>2, <3>1 DEF AnswerTurn
      <4> QED
        BY <1>2, <1>6, <4>1 DEF Reading
    <3>2. CASE Joining(sv, cl) /\ Plain(t, g)
      <4>1. ~(n < o /\ Continuing(g[n + 1]))
        <5>1. n < o => n + 1 \in L .. o
          BY <1>4
        <5>2. n < o => g[n + 1].part = "whole"
          BY <1>1, <1>2, <3>2, <5>1 DEF Plain
        <5> QED
          BY <5>2 DEF Continuing
      <4>2. ~Midway(sv)
        BY <3>2 DEF AnswerTurn
      <4> QED
        BY <1>2, <1>3, <4>1, <4>2 DEF Reading
    <3>3. CASE Joining(sv, cl) /\ cl.pendingOutRec = 0
      <4>1. Records(cl) = <<>>
        BY <3>3, AgreeParts DEF JoinTurn
      <4>2. L = o + 1
        BY <1>1, <1>2, <3>3, <4>1 DEF Low
      <4>3. ~(n < o)
        BY <1>4, <4>2
      <4>4. ~Midway(sv)
        BY <3>3 DEF AnswerTurn
      <4> QED
        BY <1>2, <1>3, <4>3, <4>4 DEF Reading
    <3>4. \/ ~Joining(sv, cl)
          \/ Joining(sv, cl) /\ Plain(t, g)
          \/ Joining(sv, cl) /\ cl.pendingOutRec = 0
      BY <2>2 DEF Renewed, Resumed
    <3> QED
      BY <3>1, <3>2, <3>3, <3>4
  <2> QED
    BY <1>5, <2>1, <2>2 DEF AnswerTurn
<1>7. CASE g # hc
  <2>1. Joining(sv, cl) /\ Plain(t, g)
    BY <1>7 DEF Renewed, Resumed
  <2>2. \A q \in L .. o : ~More(g[q]) /\ ~Continuing(g[q])
    <3>1. \A q \in L .. o : g[q].part = "whole"
      BY <1>1, <1>2, <2>1 DEF Plain
    <3> QED
      BY <3>1 DEF More, Continuing
  <2>3. Chained(t, g)
    <3>1. L <= o => o \in L .. o
      OBVIOUS
    <3>2. \A q \in L .. o - 1 : q \in L .. o /\ q + 1 \in L .. o
      OBVIOUS
    <3> QED
      BY <1>1, <1>2, <2>2, <3>1, <3>2 DEF Chained
  <2>4. ~Midway(sv)
    BY <2>1 DEF AnswerTurn
  <2>5. ~(n < o /\ Continuing(g[n + 1]))
    <3>1. n < o => n + 1 \in L .. o
      BY <1>4
    <3> QED
      BY <2>2, <3>1
  <2>6. Reading(t, sv, g)
    BY <1>2, <1>3, <2>4, <2>5 DEF Reading
  <2> QED
    BY <1>5, <2>3, <2>6 DEF AnswerTurn
<1> QED
  BY <1>6, <1>7

LEMMA PartsClientHanded ==
  ASSUME NEW sv \in End, NEW cl \in End, NEW hs, NEW hc, Agree(sv, cl, hs, hc),
         Parts(sv, cl, hs, hc), Told(cl), incarnation \in Nat, cl.receiving.busy,
         cl.state # "error",
         NEW b, Sent(sv, cl, hs, b), NEW t, HandedOn(sv, cl, hs, b, t)
  PROVE  /\ \E g : Agree(sv, t, hs, g) /\ Parts(sv, t, hs, g) /\ t.state = cl.state
         /\ b.rel => t.receiving.skipAck = cl.receiving.skipAck
<1>1. PICK w : Line(sv, w, hs) /\ Handing(cl, w, b, t)
  BY DEF HandedOn
<1>2. /\ w \in End /\ Bounded(w) /\ w.state = cl.state
      /\ t = Handles(w, b) /\ b \in Bunch
  BY <1>1 DEF Handing, Sent
<1>3. hs \in History /\ hc \in History /\ Line(sv, cl, hs)
  BY AgreeParts
<1>4. Fits(w, b)
  BY <1>1, ClientFits
<1>5. Read(w, b, t)
  BY <1>2, <1>4, HandlesReads
<1>6. t.state = cl.state /\ t.state # "error" /\ t \in End
  BY <1>2, <1>5 DEF Read
<1>7. PICK g \in History : Agree(sv, t, hs, g) /\ Renewed(sv, cl, hc, t, g)
  BY <1>6, ClientHanded
<1>8. Onward(sv, cl, b, t)
  BY <1>1, <1>5, HandedOnward
<1>9. Chained(sv, hs) /\ Chained(cl, hc) /\ Reading(sv, cl, hs) /\ OpenTurn(sv, cl, hs)
      /\ AnswerTurn(sv, cl, hc)
  BY DEF Parts
<1>10. Reading(sv, t, hs)
  <2>1. Advances(cl, b, t)
    BY <1>8 DEF Onward
  <2> QED
    BY <1>3, <1>9, <2>1, ReadingAdvances
<1>11. OpenTurn(sv, t, hs)
  BY <1>3, <1>8, <1>9, OnwardOpens
<1>12. AnswerTurn(sv, t, g) /\ Chained(t, g)
  <2>1. Joining(sv, t) => Joining(sv, cl)
    BY <1>8 DEF Onward
  <2> QED
    BY <1>6, <1>7, <1>9, <2>1, AnswerRenewed
<1>13. Parts(sv, t, hs, g)
  BY <1>9, <1>10, <1>11, <1>12 DEF Parts
<1>14. b.rel => t.receiving.skipAck = cl.receiving.skipAck
  BY <1>1, <1>5 DEF Handing, Read
<1> QED
  BY <1>6, <1>7, <1>13, <1>14

-----------------------------------------------------------------------------
(* A bunch that an end is at.                                              *)

LEMMA PartsServerAside ==
  ASSUME NEW sv \in End, NEW cl \in End, NEW hs, NEW hc, Agree(sv, cl, hs, hc),
         Parts(sv, cl, hs, hc), NEW t, PutAside(cl, sv, hc, t)
  PROVE  Agree(t, cl, hs, hc) /\ Parts(t, cl, hs, hc) /\ t.state = sv.state
<1>1. /\ Stays(sv, t) /\ Line(cl, t, hc) /\ t.state = sv.state /\ SamePartial(sv, t)
  BY DEF PutAside
<1>2. Agree(t, cl, hs, hc)
  BY <1>1, AgreeStays
<1>3. /\ t \in End /\ t.outReliable = sv.outReliable /\ t.inReliable = sv.inReliable
      /\ Low(t) = Low(sv)
      /\ t.channel = NoChannel <=> sv.channel = NoChannel
      /\ sv.channel # NoChannel => /\ t.channel.opened = sv.channel.opened
                                   /\ t.channel.closing = sv.channel.closing
  BY <1>1 DEF Stays, SameSender, ServerSame, ClientSame
<1>4. Joining(t, cl) <=> Joining(sv, cl)
  BY <1>3 DEF Joining, Left, Closing
<1>5. Low(t) >= Low(sv) /\ Low(cl) >= Low(cl)
  <2>1. Low(sv) \in Int /\ Low(cl) \in Int
    BY Lengths
  <2> QED
    BY <1>3, <2>1
<1>6. SamePartial(cl, cl)
  BY DEF SamePartial
<1>7. PartsAlike(sv, cl, t, cl)
  BY <1>1, <1>3, <1>4, <1>5, <1>6 DEF PartsAlike, OpenAlike, Alike
<1> QED
  BY <1>1, <1>2, <1>3, <1>7, PartsSame

LEMMA PartsClientAside ==
  ASSUME NEW sv \in End, NEW cl \in End, NEW hs, NEW hc, Agree(sv, cl, hs, hc),
         Parts(sv, cl, hs, hc), NEW t, PutAside(sv, cl, hs, t)
  PROVE  Agree(sv, t, hs, hc) /\ Parts(sv, t, hs, hc) /\ t.state = cl.state
<1>1. /\ Stays(cl, t) /\ Line(sv, t, hs) /\ t.state = cl.state /\ SamePartial(cl, t)
  BY DEF PutAside
<1>2. Agree(sv, t, hs, hc)
  BY <1>1, AgreeStays
<1>3. /\ t \in End /\ t.outReliable = cl.outReliable /\ t.inReliable = cl.inReliable
      /\ Low(t) >= Low(cl)
      /\ t.channel = NoChannel <=> cl.channel = NoChannel
      /\ cl.channel # NoChannel => t.channel.openAcked = cl.channel.openAcked
  BY <1>1 DEF Stays, SameSender, ClientSame
<1>4. Joining(sv, t) <=> Joining(sv, cl)
  BY <1>3 DEF Joining, Left, Joined
<1>5. Low(sv) >= Low(sv)
  <2>1. Low(sv) \in Int
    BY Lengths
  <2> QED
    BY <2>1
<1>6. SamePartial(sv, sv)
  BY DEF SamePartial
<1>7. PartsAlike(sv, cl, sv, t)
  BY <1>1, <1>3, <1>4, <1>5, <1>6 DEF PartsAlike, OpenAlike, Alike
<1> QED
  BY <1>1, <1>2, <1>3, <1>7, PartsSame

LEMMA DequeuedReliable ==
  ASSUME NEW s \in End, NEW r \in End, NEW h \in History, Line(s, r, h), Ready(r),
         NEW u, NEW b, Dequeued(r, u, b)
  PROVE  b.rel
<1>1. b = Queue(r)[1]
  BY DEF Dequeued, Ready, Queue
<1> QED
  BY <1>1, QueuedSent

LEMMA PartsServerQueued ==
  ASSUME NEW sv \in End, NEW cl \in End, NEW hs, NEW hc, Agree(sv, cl, hs, hc),
         Parts(sv, cl, hs, hc), sv.state # "error",
         Bounded(sv), incarnation \in Nat, Ready(sv),
         NEW u, NEW b, Dequeued(sv, u, b), NEW t, t = ReceivedNextBunch(u, b)
  PROVE  /\ Agree(t, cl, hs, hc) /\ Parts(t, cl, hs, hc) /\ t.state = sv.state
         /\ t.receiving.skipAck = sv.receiving.skipAck
<1>1. hc \in History /\ Line(cl, sv, hc)
  BY AgreeParts
<1>2. Sent(cl, sv, hc, b) /\ HandedOn(cl, sv, hc, b, t) /\ b.rel
  BY <1>1, QueuedHanded, DequeuedReliable
<1>3. Queue(sv) # <<>>
  BY DEF Ready
<1> QED
  BY <1>2, <1>3, PartsServerHanded

LEMMA PartsClientQueued ==
  ASSUME NEW sv \in End, NEW cl \in End, NEW hs, NEW hc, Agree(sv, cl, hs, hc),
         Parts(sv, cl, hs, hc), cl.state # "error",
         Bounded(cl), Told(cl), incarnation \in Nat, Ready(cl),
         NEW u, NEW b, Dequeued(cl, u, b), NEW t, t = ReceivedNextBunch(u, b)
  PROVE  /\ \E g : Agree(sv, t, hs, g) /\ Parts(sv, t, hs, g) /\ t.state = cl.state
         /\ t.receiving.skipAck = cl.receiving.skipAck
<1>1. hs \in History /\ Line(sv, cl, hs)
  BY AgreeParts
<1>2. Sent(sv, cl, hs, b) /\ HandedOn(sv, cl, hs, b, t) /\ b.rel
  BY <1>1, QueuedHanded, DequeuedReliable
<1>3. cl.receiving.busy
  BY <1>1 DEF Line, Queued
<1> QED
  BY <1>2, <1>3, PartsClientHanded

LEMMA PartsServerBunch ==
  ASSUME NEW sv \in End, NEW cl \in End, NEW hs, NEW hc, Agree(sv, cl, hs, hc),
         Parts(sv, cl, hs, hc), sv.state # "error",
         Bounded(sv), incarnation \in Nat, NEW u, NEW a, NEW b, AtBunch(cl, sv, hc, u, a, b),
         NEW t, t = DispatchBunch(Server, u, b)
  PROVE  Agree(t, cl, hs, hc) /\ Parts(t, cl, hs, hc) /\ t.state = sv.state
<1>1. hc \in History /\ Line(cl, sv, hc) /\ ServerTurn(sv, cl) /\ ClientTurn(cl, hc)
  BY AgreeParts
<1>2. /\ Sent(cl, sv, hc, b) /\ SameSender(sv, u)
  <2>1. AtBunchIs(cl, sv, hc, u, a, b)
    BY <1>1, AtBunchFacts
  <2> QED
    BY <2>1 DEF AtBunchIs
<1>3. Bounded(u) /\ ~b.open
  <2>1. ~b.open
    BY <1>1, <1>2, SentByClient
  <2> QED
    BY <1>2, <2>1 DEF Bounded, SameSender
<1>4. sv.channel = NoChannel => Records(cl) = <<>>
  BY <1>1 DEF ServerTurn, Records
<1>5. PutAside(cl, sv, hc, t) \/ HandedOn(cl, sv, hc, b, t)
  <2>1. PICK e \in Side : e = Server
    BY DEF Side
  <2>2. t = DispatchBunch(e, u, b)
    BY <2>1
  <2>3. sv.channel = NoChannel =>
          (e = Server /\ Records(cl) = <<>>) \/ ~b.rel \/ b.seq <= sv.inReliable
    BY <1>4, <2>1
  <2> QED
    BY <1>1, <1>3, <2>2, <2>3, AtBunchDispatched
<1>6. CASE PutAside(cl, sv, hc, t)
  BY <1>6, PartsServerAside
<1>7. CASE HandedOn(cl, sv, hc, b, t)
  <2>1. sv.receiving.bunches # <<>>
    BY DEF AtBunch
  <2> QED
    BY <1>2, <1>7, <2>1, PartsServerHanded
<1> QED
  BY <1>5, <1>6, <1>7

LEMMA PartsClientDone ==
  ASSUME NEW sv \in End, NEW cl \in End, NEW hs, NEW hc, Agree(sv, cl, hs, hc),
         Parts(sv, cl, hs, hc), cl.state # "error", Told(cl),
         incarnation \in Nat, NEW u, NEW a, NEW b, AtBunch(sv, cl, hs, u, a, b),
         NEW t, PutAside(sv, cl, hs, t) \/ HandedOn(sv, cl, hs, b, t)
  PROVE  \E g : Agree(sv, t, hs, g) /\ Parts(sv, t, hs, g) /\ t.state = cl.state
<1>1. hs \in History /\ hc \in History
  BY AgreeParts
<1>2. Sent(sv, cl, hs, b) /\ cl.receiving.busy
  <2>1. AtBunchIs(sv, cl, hs, u, a, b)
    BY <1>1, AtBunchFacts
  <2> QED
    BY <2>1 DEF AtBunchIs
<1>3. CASE PutAside(sv, cl, hs, t)
  BY <1>3, PartsClientAside
<1>4. CASE HandedOn(sv, cl, hs, b, t)
  BY <1>2, <1>4, PartsClientHanded
<1> QED
  BY <1>3, <1>4

\* What opens the channel is never ahead of its turn.
LEMMA OpensInTurn ==
  ASSUME NEW sv \in End, NEW cl \in End, NEW hs, Line(sv, cl, hs), OpenTurn(sv, cl, hs),
         NEW q \in Low(sv) .. sv.outReliable, q > cl.inReliable + 1
  PROVE  ~hs[q].open
<1>1. PICK L \in Int : L = Low(sv)
  BY Lengths
<1>2. PICK o \in Nat, n \in Nat : o = sv.outReliable /\ n = cl.inReliable
  BY EndTypes
<1>3. L - 1 <= n
  BY <1>1, <1>2 DEF Line, Numbered
<1>4. q > n /\ q \in L + 1 .. o /\ ~(L > o)
  BY <1>1, <1>2, <1>3
<1>5. CASE ~Joining(sv, cl)
  BY <1>2, <1>4, <1>5 DEF OpenTurn, OpensOnce
<1>6. CASE Joining(sv, cl)
  <2>1. sv.channel.opened
    BY <1>1, <1>2, <1>4, <1>6 DEF OpenTurn, Unsent, Joining
  <2> QED
    BY <1>1, <1>2, <1>4, <1>6, <2>1 DEF OpenTurn, OpensFirst
<1> QED
  BY <1>5, <1>6

\* Where the client creates its channel first.
LEMMA AtBunchCreated ==
  ASSUME NEW sv \in End, NEW cl \in End, NEW hs \in History, NEW u, NEW a, NEW b,
         AtBunch(sv, cl, hs, u, a, b), cl.channel = NoChannel,
         NEW cm, Created(cl, FALSE, cm), Line(sv, cm, hs), NEW x, Created(u, FALSE, x)
  PROVE  AtBunch(sv, cm, hs, x, a, b)
<1>1. /\ cm \in End /\ cm.channel = NewChannel(FALSE) /\ cm.channel.inRec = <<>>
      /\ cm.state = cl.state /\ cm.wire = cl.wire /\ cm.sendBuffer = cl.sendBuffer
      /\ cm.unnotified = cl.unnotified /\ cm.outReliable = cl.outReliable
      /\ cm.inReliable = cl.inReliable /\ cm.pendingOutRec = cl.pendingOutRec
      /\ cm.fates = cl.fates /\ cm.receiving = cl.receiving /\ SameGame(cl, cm)
      /\ cm.channel # NoChannel
  BY DEF Created
<1>2. /\ x \in End /\ x.channel = NewChannel(FALSE)
      /\ x.state = u.state /\ x.wire = u.wire /\ x.sendBuffer = u.sendBuffer
      /\ x.unnotified = u.unnotified /\ x.outReliable = u.outReliable
      /\ x.inReliable = u.inReliable /\ x.pendingOutRec = u.pendingOutRec
      /\ x.fates = u.fates /\ x.receiving = u.receiving /\ SameGame(u, x)
  BY DEF Created
<1>3. /\ cl.receiving.bunches # <<>> /\ a = cl.receiving.bunches[1] /\ Unpacked(cl, u, a, b)
  BY DEF AtBunch
<1>4. ~Ready(cm)
  BY <1>1 DEF Ready, Queue
<1>5. Unpacked(cm, x, a, b)
  BY <1>1, <1>2, <1>3 DEF Unpacked, SameGame
<1> QED
  BY <1>1, <1>3, <1>4, <1>5 DEF AtBunch

LEMMA PartsCreated ==
  ASSUME NEW sv \in End, NEW cl \in End, NEW hs, NEW hc, Agree(sv, cl, hs, hc),
         Parts(sv, cl, hs, hc),
         cl.channel = NoChannel, NEW q \in Low(sv) .. sv.outReliable, q > cl.inReliable,
         NEW cm, Created(cl, FALSE, cm)
  PROVE  Agree(sv, cm, hs, hc) /\ Parts(sv, cm, hs, hc) /\ cm.state = cl.state /\ cm \in End
<1>1. Agree(sv, cm, hs, hc) /\ cm \in End
  BY ClientCreates
<1>2. /\ cm.pendingOutRec = cl.pendingOutRec /\ cm.outReliable = cl.outReliable
      /\ cm.inReliable = cl.inReliable /\ cm.channel # NoChannel /\ cm.channel.outRec = <<>>
      /\ cm.channel.inPartial = NoPartial /\ cm.channel.openAcked = FALSE
      /\ cm.state = cl.state
  BY DEF Created
<1>3. Low(cm) = Low(cl)
  BY <1>2 DEF Records, Low
<1>4. Joining(sv, cm) <=> Joining(sv, cl)
  <2>1. cl.inReliable # sv.outReliable
    <3>1. PICK o \in Nat, n \in Nat : o = sv.outReliable /\ n = cl.inReliable
      BY EndTypes
    <3>2. Low(sv) \in Int
      BY Lengths
    <3> QED
      BY <3>1, <3>2
  <2> QED
    BY <1>2, <2>1 DEF Joining, Joined, Left
<1>5. ~Midway(cl) /\ ~Opening(cl) /\ ~Midway(cm) /\ ~Opening(cm)
  BY <1>2 DEF Midway, Opening
<1>6. SamePartial(cl, cm) /\ SamePartial(sv, sv)
  BY <1>5 DEF SamePartial
<1>7. Low(sv) >= Low(sv) /\ Low(cm) >= Low(cl)
  <2>1. Low(sv) \in Int /\ Low(cl) \in Int
    BY Lengths
  <2> QED
    BY <1>3, <2>1
<1>8. PartsAlike(sv, cl, sv, cm)
  BY <1>2, <1>4, <1>6, <1>7 DEF PartsAlike, OpenAlike, Alike
<1> QED
  BY <1>1, <1>2, <1>8, PartsSame

LEMMA PartsClientBunch ==
  ASSUME NEW sv \in End, NEW cl \in End, NEW hs, NEW hc, Agree(sv, cl, hs, hc),
         Parts(sv, cl, hs, hc), cl.state # "error",
         Bounded(cl), Told(cl), incarnation \in Nat,
         NEW u, NEW a, NEW b, AtBunch(sv, cl, hs, u, a, b),
         NEW t, t = DispatchBunch(Client, u, b)
  PROVE  \E g : Agree(sv, t, hs, g) /\ Parts(sv, t, hs, g) /\ t.state = cl.state
<1>1. hs \in History /\ hc \in History /\ Line(sv, cl, hs) /\ OpenTurn(sv, cl, hs)
  BY AgreeParts DEF Parts
<1>2. /\ Sent(sv, cl, hs, b) /\ SameSender(cl, u) /\ b \in Bunch /\ u \in End
      /\ u.channel = cl.channel /\ u.inReliable = cl.inReliable
      /\ b.seq \in Nat /\ cl.inReliable \in Nat /\ b.rel \in BOOLEAN
  <2>1. AtBunchIs(sv, cl, hs, u, a, b)
    BY <1>1, AtBunchFacts
  <2> QED
    BY <2>1 DEF AtBunchIs
<1>3. Bounded(u)
  BY <1>2 DEF Bounded, SameSender
<1>4. PICK e \in Side : e = Client
  BY DEF Side
<1>5. b.rel /\ b.seq > cl.inReliable + 1 => ~b.open
  <2>1. b.rel => b.seq \in Low(sv) .. sv.outReliable /\ b = hs[b.seq]
    BY <1>2 DEF Sent
  <2> QED
    BY <1>1, <2>1, OpensInTurn
<1>6. CASE cl.channel = NoChannel => ~b.rel \/ b.seq <= cl.inReliable
  <2>1. t = DispatchBunch(e, u, b)
    BY <1>4
  <2>2. PutAside(sv, cl, hs, t) \/ HandedOn(sv, cl, hs, b, t)
    BY <1>1, <1>3, <1>5, <1>6, <2>1, AtBunchDispatched
  <2> QED
    BY <2>2, PartsClientDone
<1>7. CASE cl.channel = NoChannel /\ b.rel /\ ~(b.seq <= cl.inReliable)
  <2>1. PICK cm : cm = [cl EXCEPT !.channel = NewChannel(FALSE)]
    OBVIOUS
  <2>2. PICK x : x = [u EXCEPT !.channel = NewChannel(FALSE)]
    OBVIOUS
  <2>3. PICK local \in BOOLEAN : local = FALSE
    OBVIOUS
  <2>4. Created(cl, FALSE, cm)
    <3>1. cm = [cl EXCEPT !.channel = NewChannel(local)]
      BY <2>1, <2>3
    <3>2. Created(cl, local, cm)
      BY <3>1, CreatedType
    <3> QED
      BY <2>3, <3>2
  <2>5. Created(u, FALSE, x)
    <3>1. x = [u EXCEPT !.channel = NewChannel(local)]
      BY <2>2, <2>3
    <3>2. Created(u, local, x)
      BY <1>2, <3>1, CreatedType
    <3> QED
      BY <2>3, <3>2
  <2>6. PICK q \in Low(sv) .. sv.outReliable : q = b.seq
    BY <1>2, <1>7 DEF Sent
  <2>7. q > cl.inReliable
    BY <1>2, <1>7, <2>6
  <2>8. Agree(sv, cm, hs, hc) /\ Parts(sv, cm, hs, hc) /\ cm.state = cl.state /\ cm \in End
    BY <1>7, <2>4, <2>7, PartsCreated
  <2>9. Line(sv, cm, hs)
    BY <2>8, AgreeParts
  <2>10. AtBunch(sv, cm, hs, x, a, b)
    BY <1>1, <1>7, <2>4, <2>5, <2>9, AtBunchCreated
  <2>11. /\ Told(cm) /\ cm.inReliable = cl.inReliable /\ cm.channel # NoChannel
    BY <2>4 DEF Created, Told
  <2>12. Bounded(x)
    <3>1. /\ x.channel # NoChannel /\ x.channel.outRec = <<>>
          /\ x.outReliable = u.outReliable /\ x.pendingOutRec = u.pendingOutRec
      BY <2>5 DEF Created
    <3>2. Records(x) = <<>>
      BY <3>1 DEF Records
    <3> QED
      BY <1>3, <3>1, <3>2 DEF Bounded
  <2>13. t = ReceivedRawBunch(x, b)
    <3>1. Client # Server
      BY ChannelAssumption
    <3> QED
      BY <1>2, <1>7, <2>2, <3>1 DEF DispatchBunch
  <2>14. ~(b.rel /\ b.seq <= cm.inReliable) /\ (b.rel /\ b.seq > cm.inReliable + 1 => ~b.open)
    BY <1>5, <1>7, <2>11
  <2>15. PutAside(sv, cm, hs, t) \/ HandedOn(sv, cm, hs, b, t)
    BY <1>1, <2>8, <2>10, <2>11, <2>12, <2>13, <2>14, AtBunchRaw
  <2> QED
    BY <2>8, <2>10, <2>11, <2>15, PartsClientDone
<1> QED
  BY <1>6, <1>7

-----------------------------------------------------------------------------
(* The agreement, action by action.                                        *)

\* The ends agree, for some history, and nothing is in error.
Agreement ==
  /\ Errorless
  /\ \E hs, hc : /\ Agree(conn[Server], conn[Client], hs, hc)
                 /\ Parts(conn[Server], conn[Client], hs, hc)

\* What an action starts from.
Ends(sv, cl, hs, hc) ==
  /\ sv = conn[Server] /\ cl = conn[Client] /\ Agree(sv, cl, hs, hc) /\ Parts(sv, cl, hs, hc)
  /\ sv \in End /\ Bounded(sv) /\ Told(sv) /\ cl \in End /\ Bounded(cl) /\ Told(cl)
  /\ incarnation \in Nat /\ sv.state # "error" /\ cl.state # "error"

LEMMA EndsAgree ==
  ASSUME TypeInv, Agreement
  PROVE  \E sv, cl, hs, hc : Ends(sv, cl, hs, hc)
<1>1. Server \in Side /\ Client \in Side
  BY DEF Side
<1>2. PICK hs, hc : /\ Agree(conn[Server], conn[Client], hs, hc)
                    /\ Parts(conn[Server], conn[Client], hs, hc)
  BY DEF Agreement
<1>3. PICK sv : sv = conn[Server]
  OBVIOUS
<1>4. PICK cl : cl = conn[Client]
  OBVIOUS
<1>5. /\ sv \in End /\ Bounded(sv) /\ Told(sv) /\ cl \in End /\ Bounded(cl) /\ Told(cl)
      /\ incarnation \in Nat
  BY <1>1, <1>3, <1>4, EndFacts
<1>6. Agree(sv, cl, hs, hc) /\ Parts(sv, cl, hs, hc)
  BY <1>2, <1>3, <1>4
<1>7. sv.state # "error" /\ cl.state # "error"
  BY <1>1, <1>3, <1>4 DEF Agreement, Errorless
<1> QED
  BY <1>3, <1>4, <1>5, <1>6, <1>7 DEF Ends

LEMMA BothNext ==
  ASSUME NEW t, NEW u, t = conn'[Server], u = conn'[Client],
         t.state # "error", u.state # "error",
         \E hs, hc : Agree(t, u, hs, hc) /\ Parts(t, u, hs, hc)
  PROVE  Agreement'
<1>1. Errorless'
  BY DEF Errorless, Side
<1> QED
  BY <1>1 DEF Agreement

\* What one of the ends becomes.
LEMMA ServerNext ==
  ASSUME TypeInv, Agreement, NEW t, conn' = [conn EXCEPT ![Server] = t], t.state # "error",
         \E hs, hc : Agree(t, conn[Client], hs, hc) /\ Parts(t, conn[Client], hs, hc)
  PROVE  Agreement'
<1>1. conn \in [Side -> End] /\ Server \in Side /\ Client \in Side /\ Server # Client
  BY ChannelAssumption DEF TypeInv, TypeOK, Side
<1>2. conn'[Server] = t /\ conn'[Client] = conn[Client] /\ conn[Client].state # "error"
  BY <1>1 DEF Agreement, Errorless
<1> QED
  BY <1>2, BothNext

LEMMA ClientNext ==
  ASSUME TypeInv, Agreement, NEW t, conn' = [conn EXCEPT ![Client] = t], t.state # "error",
         \E hs, hc : Agree(conn[Server], t, hs, hc) /\ Parts(conn[Server], t, hs, hc)
  PROVE  Agreement'
<1>1. conn \in [Side -> End] /\ Server \in Side /\ Client \in Side /\ Server # Client
  BY ChannelAssumption DEF TypeInv, TypeOK, Side
<1>2. conn'[Client] = t /\ conn'[Server] = conn[Server] /\ conn[Server].state # "error"
  BY <1>1 DEF Agreement, Errorless
<1> QED
  BY <1>2, BothNext

LEMMA OpenChannelAgrees ==
  ASSUME TypeInv, Agreement, OpenChannel, ~reused'
  PROVE  Agreement'
<1>1. PICK sv, cl, hs, hc : Ends(sv, cl, hs, hc)
  BY EndsAgree
<1>2. /\ sv = conn[Server] /\ cl = conn[Client] /\ Agree(sv, cl, hs, hc) /\ Parts(sv, cl, hs, hc)
      /\ sv \in End /\ cl \in End /\ sv.state # "error"
  BY <1>1 DEF Ends
<1>3. PICK t : t = [sv EXCEPT !.channel = NewChannel(TRUE)]
  OBVIOUS
<1>4. BeginsAnew(sv, t) /\ conn' = [conn EXCEPT ![Server] = t]
  BY <1>2, <1>3 DEF OpenChannel, Update, BeginsAnew
<1>5. Agree(t, cl, hs, hc) /\ Parts(t, cl, hs, hc) /\ t.state = sv.state
  BY <1>2, <1>4, PartsOpened
<1> QED
  BY <1>2, <1>4, <1>5, ServerNext

\* Neither the channel nor the numbers of an end move.
Unmoved(s, t) ==
  /\ t \in End /\ t.channel = s.channel /\ t.outReliable = s.outReliable
  /\ t.inReliable = s.inReliable /\ t.pendingOutRec = s.pendingOutRec

LEMMA PartsUnmoved ==
  ASSUME NEW sv \in End, NEW cl \in End, NEW hs, NEW hc, Parts(sv, cl, hs, hc),
         NEW sw, Unmoved(sv, sw), NEW cm, Unmoved(cl, cm)
  PROVE  Parts(sw, cm, hs, hc)
<1>1. ASSUME NEW s \in End, NEW t, Unmoved(s, t) PROVE Alike(s, t) /\ Low(t) = Low(s)
  <2>1. Low(t) = Low(s)
    BY <1>1 DEF Unmoved, Low, Records
  <2>2. Low(s) \in Int
    BY <1>1, Lengths
  <2>3. Low(t) >= Low(s)
    BY <2>1, <2>2
  <2>4. SamePartial(s, t)
    BY <1>1, ChannelPartial DEF Unmoved
  <2> QED
    BY <1>1, <2>1, <2>3, <2>4 DEF Unmoved, Alike
<1>2. Alike(sv, sw) /\ Alike(cl, cm) /\ Low(sw) = Low(sv)
  BY <1>1
<1>3. Joining(sw, cm) <=> Joining(sv, cl)
  BY DEF Unmoved, Joining, Left, Joined, Closing
<1>4. PartsAlike(sv, cl, sw, cm)
  BY <1>2, <1>3 DEF Unmoved, PartsAlike, OpenAlike, Alike
<1> QED
  BY <1>4, PartsSame DEF Unmoved

LEMMA UnmovedRefl ==
  ASSUME NEW s \in End PROVE Unmoved(s, s)
  BY DEF Unmoved

LEMMA FlushNetAgrees ==
  ASSUME TypeInv, Agreement, NEW e \in Side, FlushNet(e)
  PROVE  Agreement'
<1>1. PICK sv, cl, hs, hc : Ends(sv, cl, hs, hc)
  BY EndsAgree
<1>2. /\ sv = conn[Server] /\ cl = conn[Client] /\ Agree(sv, cl, hs, hc) /\ Parts(sv, cl, hs, hc)
      /\ sv \in End /\ cl \in End /\ sv.state # "error" /\ cl.state # "error"
  BY <1>1 DEF Ends
<1>3. Agree(Flushed(sv), cl, hs, hc) /\ Agree(sv, Flushed(cl), hs, hc)
  BY <1>2, AgreeFlushed
<1>4. \A s \in End : Unmoved(s, Flushed(s)) /\ Flushed(s).state = s.state
  BY FlushedType DEF Unmoved
<1>5. Parts(Flushed(sv), cl, hs, hc) /\ Parts(sv, Flushed(cl), hs, hc)
  BY <1>2, <1>4, UnmovedRefl, PartsUnmoved
<1>6. conn' = [conn EXCEPT ![e] = Flushed(conn[e])]
  BY DEF FlushNet, Update
<1>7. CASE e = Server
  BY <1>2, <1>3, <1>4, <1>5, <1>6, <1>7, ServerNext
<1>8. CASE e = Client
  BY <1>2, <1>3, <1>4, <1>5, <1>6, <1>8, ClientNext
<1> QED
  BY <1>7, <1>8 DEF Side

LEMMA QueueReadyIs ==
  ASSUME NEW s PROVE QueueReady(s) <=> Ready(s)
<1>1. CASE s.channel = NoChannel
  BY <1>1 DEF QueueReady, Ready, Queue
<1>2. CASE s.channel # NoChannel
  BY <1>2 DEF QueueReady, Ready, Queue
<1> QED
  BY <1>1, <1>2

LEMMA AcknowledgePacketAgrees ==
  ASSUME TypeInv, Agreement, NEW e \in Side, AcknowledgePacket(e)
  PROVE  Agreement'
<1>1. PICK sv, cl, hs, hc : Ends(sv, cl, hs, hc)
  BY EndsAgree
<1>2. /\ sv = conn[Server] /\ cl = conn[Client] /\ Agree(sv, cl, hs, hc) /\ Parts(sv, cl, hs, hc)
      /\ sv \in End /\ cl \in End /\ sv.state # "error" /\ cl.state # "error"
  BY <1>1 DEF Ends
<1>3. PICK s : s = conn[e]
  OBVIOUS
<1>4. s.receiving.busy /\ s.receiving.bunches = <<>> /\ ~Ready(s) /\ s \in End
  BY <1>3, QueueReadyIs, EndFacts DEF AcknowledgePacket
<1>5. conn' = [conn EXCEPT ![e] = Answered(s)]
  <2>1. conn' = [conn EXCEPT ![e] = [s EXCEPT
           !.fates = @ \o [i \in 1..s.receiving.lost |-> FALSE] \o <<~s.receiving.skipAck>>,
           !.receiving = NotReceiving]]
    BY <1>3 DEF AcknowledgePacket, Update
  <2>2. [s EXCEPT
           !.fates = @ \o [i \in 1..s.receiving.lost |-> FALSE] \o <<~s.receiving.skipAck>>,
           !.receiving = NotReceiving] = Answered(s)
    BY <1>4 DEF Answered, Answers, End
  <2> QED
    BY <2>1, <2>2
<1>6. Unmoved(s, Answered(s)) /\ Answered(s).state = s.state
  <2>1. Answered(s) \in End
    BY <1>4, AnsweredSame
  <2>2. /\ Answered(s).channel = s.channel /\ Answered(s).outReliable = s.outReliable
        /\ Answered(s).inReliable = s.inReliable /\ Answered(s).pendingOutRec = s.pendingOutRec
        /\ Answered(s).state = s.state
    BY <1>4 DEF Answered, End
  <2> QED
    BY <2>1, <2>2 DEF Unmoved
<1>7. CASE e = Server
  <2>1. Agree(Answered(sv), cl, hs, hc)
    BY <1>2, <1>3, <1>4, <1>7, AgreeAnswered
  <2>2. Parts(Answered(sv), cl, hs, hc) /\ Answered(sv).state # "error"
    BY <1>2, <1>3, <1>6, <1>7, UnmovedRefl, PartsUnmoved
  <2> QED
    BY <1>2, <1>3, <1>5, <1>7, <2>1, <2>2, ServerNext
<1>8. CASE e = Client
  <2>1. Agree(sv, Answered(cl), hs, hc)
    BY <1>2, <1>3, <1>4, <1>8, AgreeAnswered
  <2>2. Parts(sv, Answered(cl), hs, hc) /\ Answered(cl).state # "error"
    BY <1>2, <1>3, <1>6, <1>8, UnmovedRefl, PartsUnmoved
  <2> QED
    BY <1>2, <1>3, <1>5, <1>8, <2>1, <2>2, ClientNext
<1> QED
  BY <1>7, <1>8 DEF Side

\* A message for which there is room.
LEMMA ReliableSendable ==
  ASSUME NEW s \in End, s.channel # NoChannel, ~s.channel.closing, s.pendingOutRec = 0,
         NEW rel, rel = TRUE, NEW close \in BOOLEAN, NEW size \in Nat \ {0}, close => size = 1,
         ~OverflowsReliable(s, size, close)
  PROVE  Sendable(s, rel, close, size)
<1>1. ReliableBuffer \in Nat
  BY ChannelAssumption
<1>2. PICK n \in Nat : n = Len(Records(s))
  <2>1. Records(s) \in Seq(OutBunch)
    BY EndTypes
  <2> QED
    BY <2>1
<1>3. Len(s.channel.outRec) = n
  BY <1>2 DEF Records
<1>4. s.outReliable \in Nat /\ Low(s) = s.outReliable + 1 - n
  BY <1>2, EndTypes DEF Low
<1>5. s.outReliable + size + 1 - Low(s) = n + size
  BY <1>4
<1>6. CASE close
  <2>1. ~(n + size >= ReliableBuffer + 1)
    BY <1>3, <1>6 DEF OverflowsReliable
  <2>2. n + size <= ReliableBuffer
    BY <1>1, <2>1
  <2> QED
    BY <1>5, <1>6, <2>2 DEF Sendable
<1>7. CASE ~close
  <2>1. ~(n + size >= ReliableBuffer + 0)
    BY <1>3, <1>7 DEF OverflowsReliable
  <2>2. n + size < ReliableBuffer
    BY <1>1, <2>1
  <2>3. n + size <= ReliableBuffer
    BY <1>1, <2>2
  <2> QED
    BY <1>5, <1>7, <2>2, <2>3 DEF Sendable
<1> QED
  BY <1>6, <1>7

\* A message for which there is none closes the connection.
LEMMA OverflowCloses ==
  ASSUME NEW s, NEW close, NEW tag, NEW size, OverflowsReliable(s, size, close),
         NEW rel, rel = TRUE, NEW t, t = SendBunch(s, rel, close, tag, size)
  PROVE  t = [s EXCEPT !.state = "closed"]
  BY DEF SendBunch

InParts(sv, cl, hs, hc) == Agree(sv, cl, hs, hc) /\ Parts(sv, cl, hs, hc)

LEMMA ClosedParts ==
  ASSUME NEW sv \in End, NEW cl \in End, NEW hs, NEW hc, Agree(sv, cl, hs, hc),
         Parts(sv, cl, hs, hc)
  PROVE  /\ \A t : t = [sv EXCEPT !.state = "closed"] => InParts(t, cl, hs, hc)
         /\ \A t : t = [cl EXCEPT !.state = "closed"] => InParts(sv, t, hs, hc)
<1>1. PICK x \in {"open", "closed", "error"} : x = "closed"
  OBVIOUS
<1>2. \A s \in End : Unmoved(s, [s EXCEPT !.state = x])
  BY ErrorType DEF Unmoved
<1>3. /\ Agree([sv EXCEPT !.state = x], cl, hs, hc)
      /\ Agree(sv, [cl EXCEPT !.state = x], hs, hc)
  BY AgreeState
<1>4. /\ Parts([sv EXCEPT !.state = x], cl, hs, hc)
      /\ Parts(sv, [cl EXCEPT !.state = x], hs, hc)
  BY <1>2, UnmovedRefl, PartsUnmoved
<1> QED
  BY <1>1, <1>3, <1>4 DEF InParts

LEMMA ServerReliableAgrees ==
  ASSUME NEW sv \in End, NEW cl \in End, NEW hs, NEW hc, Agree(sv, cl, hs, hc),
         Parts(sv, cl, hs, hc), sv.state # "error", sv.channel # NoChannel, ~sv.channel.closing,
         NEW rel \in BOOLEAN, Is(rel, TRUE), NEW close \in BOOLEAN, NEW size \in Nat \ {0},
         close => size = 1, NEW tag \in Tag, NEW t, t = SendBunch(sv, rel, close, tag, size)
  PROVE  t.state # "error" /\ \E gs, gc : Agree(t, cl, gs, gc) /\ Parts(t, cl, gs, gc)
<1>1. sv.pendingOutRec = 0
  BY DEF Agree, Turns, ServerTurn
<1>2. CASE OverflowsReliable(sv, size, close)
  <2>1. t = [sv EXCEPT !.state = "closed"]
    BY <1>2, OverflowCloses DEF Is
  <2>2. t.state = "closed"
    BY <2>1 DEF End
  <2>3. InParts(t, cl, hs, hc)
    BY <2>1, ClosedParts
  <2> QED
    BY <2>2, <2>3 DEF InParts
<1>3. CASE ~OverflowsReliable(sv, size, close)
  <2>1. Sendable(sv, rel, close, size)
    BY <1>1, <1>3, ReliableSendable DEF Is
  <2>2. \E gs : Agree(t, cl, gs, hc) /\ Parts(t, cl, gs, hc) /\ t.state = sv.state
    <3>1. (close => rel) /\ ~(rel /\ OverflowsReliable(sv, size, close))
      BY <1>3 DEF Is
    <3> QED
      BY <2>1, <3>1, PartsServerSends
  <2> QED
    BY <2>2
<1> QED
  BY <1>2, <1>3

LEMMA ClientReliableAgrees ==
  ASSUME NEW sv \in End, NEW cl \in End, NEW hs, NEW hc, Agree(sv, cl, hs, hc),
         Parts(sv, cl, hs, hc), cl.state # "error",
         cl.channel # NoChannel, ~cl.channel.closing, cl.channel.opened,
         NEW rel \in BOOLEAN, Is(rel, TRUE), NEW close \in BOOLEAN, Is(close, FALSE),
         NEW size \in Nat \ {0}, NEW tag \in Tag, NEW t, t = SendBunch(cl, rel, close, tag, size)
  PROVE  t.state # "error" /\ \E gs, gc : Agree(sv, t, gs, gc) /\ Parts(sv, t, gs, gc)
<1>1. cl.pendingOutRec = 0
  <2>1. ClientTurn(cl, hc)
    BY DEF Agree, Turns
  <2>2. cl.channel.opened = cl.channel.openAcked
    BY <2>1 DEF ClientTurn
  <2>3. Joined(cl)
    BY <2>2 DEF Joined
  <2> QED
    BY <2>1, <2>3 DEF ClientTurn
<1>2. CASE OverflowsReliable(cl, size, close)
  <2>1. t = [cl EXCEPT !.state = "closed"]
    BY <1>2, OverflowCloses DEF Is
  <2>2. t.state = "closed"
    BY <2>1 DEF End
  <2>3. InParts(sv, t, hs, hc)
    BY <2>1, ClosedParts
  <2> QED
    BY <2>2, <2>3 DEF InParts
<1>3. CASE ~OverflowsReliable(cl, size, close)
  <2>1. Sendable(cl, rel, close, size)
    BY <1>1, <1>3, ReliableSendable DEF Is
  <2>2. \E gc : Agree(sv, t, hs, gc) /\ Parts(sv, t, hs, gc) /\ t.state = cl.state
    <3>1. ClientSending(cl, rel, close, size, tag, t)
      BY <1>3, <2>1 DEF ClientSending, Is
    <3> QED
      BY <3>1, PartsClientSends
  <2> QED
    BY <2>2
<1> QED
  BY <1>2, <1>3

LEMMA SendReliableAgrees ==
  ASSUME TypeInv, Agreement, NEW e \in Side, SendReliable(e)
  PROVE  Agreement'
<1>1. PICK sv, cl, hs, hc : Ends(sv, cl, hs, hc)
  BY EndsAgree
<1>2. /\ sv = conn[Server] /\ cl = conn[Client] /\ Agree(sv, cl, hs, hc) /\ Parts(sv, cl, hs, hc)
      /\ sv \in End /\ cl \in End /\ incarnation \in Nat
      /\ sv.state # "error" /\ cl.state # "error"
  BY <1>1 DEF Ends
<1>3. PICK s : s = conn[e]
  OBVIOUS
<1>4. PICK size \in Sizes(e) :
        conn' = [conn EXCEPT ![e] =
          SendBunch(s, TRUE, FALSE, MessageTag("reliable", sent[e] + 1), size)]
  BY <1>3 DEF SendReliable, Update
<1>5. size \in Nat \ {0}
  BY BoundsTypes DEF Sizes
<1>6. /\ sent[e] + 1 \in Nat /\ s.channel # NoChannel /\ ~s.channel.closing
      /\ e = Client => s.channel.opened
  BY <1>3, EndFacts DEF SendReliable
<1>7. PICK tag \in Tag : tag = MessageTag("reliable", sent[e] + 1)
  BY <1>2, <1>6, MessageTagType
<1>8. PICK rel \in BOOLEAN, close \in BOOLEAN : rel = TRUE /\ close = FALSE
  OBVIOUS
<1>9. PICK t : t = SendBunch(s, rel, close, tag, size)
  OBVIOUS
<1>10. conn' = [conn EXCEPT ![e] = t]
  BY <1>4, <1>7, <1>8, <1>9
<1>11. CASE e = Server
  <2>1. s = sv
    BY <1>2, <1>3, <1>11
  <2>3. Is(rel, TRUE) /\ ~close
    BY <1>8 DEF Is
  <2>2. t.state # "error" /\ \E gs, gc : Agree(t, cl, gs, gc) /\ Parts(t, cl, gs, gc)
    BY <1>2, <1>5, <1>6, <1>8, <1>9, <2>1, <2>3, ServerReliableAgrees
  <2> QED
    BY <1>2, <1>10, <1>11, <2>2, ServerNext
<1>12. CASE e = Client
  <2>1. s = cl /\ cl.channel.opened
    BY <1>2, <1>3, <1>6, <1>12
  <2>3. Is(rel, TRUE) /\ Is(close, FALSE)
    BY <1>8 DEF Is
  <2>2. t.state # "error" /\ \E gs, gc : Agree(sv, t, gs, gc) /\ Parts(sv, t, gs, gc)
    BY <1>2, <1>5, <1>6, <1>8, <1>9, <2>1, <2>3, ClientReliableAgrees
  <2> QED
    BY <1>2, <1>10, <1>12, <2>2, ClientNext
<1> QED
  BY <1>11, <1>12 DEF Side

LEMMA SendUnreliableAgrees ==
  ASSUME TypeInv, Agreement, SendUnreliable
  PROVE  Agreement'
<1>1. PICK sv, cl, hs, hc : Ends(sv, cl, hs, hc)
  BY EndsAgree
<1>2. /\ sv = conn[Server] /\ cl = conn[Client] /\ Agree(sv, cl, hs, hc) /\ Parts(sv, cl, hs, hc)
      /\ sv \in End /\ cl \in End /\ incarnation \in Nat /\ sv.state # "error"
  BY <1>1 DEF Ends
<1>4. PICK size \in ServerSizes :
        conn' = [conn EXCEPT ![Server] =
          SendBunch(sv, FALSE, FALSE, MessageTag("unreliable", loose + 1), size)]
  BY <1>2 DEF SendUnreliable, Update
<1>5. size \in Nat \ {0}
  BY BoundsTypes
<1>6. loose + 1 \in Nat /\ sv.channel # NoChannel /\ ~sv.channel.closing /\ sv.channel.opened
  BY <1>2 DEF SendUnreliable, TypeInv, TypeOK
<1>7. PICK tag \in Tag : tag = MessageTag("unreliable", loose + 1)
  BY <1>2, <1>6, MessageTagType
<1>8. PICK rel \in BOOLEAN, close \in BOOLEAN : rel = FALSE /\ close = FALSE
  OBVIOUS
<1>9. PICK t : t = SendBunch(sv, rel, close, tag, size)
  OBVIOUS
<1>10. conn' = [conn EXCEPT ![Server] = t]
  BY <1>4, <1>7, <1>8, <1>9
<1>11. Sendable(sv, rel, close, size)
  BY <1>6, <1>8 DEF Sendable
<1>12. \E gs : Agree(t, cl, gs, hc) /\ Parts(t, cl, gs, hc) /\ t.state = sv.state
  BY <1>2, <1>5, <1>8, <1>9, <1>11, PartsServerSends
<1> QED
  BY <1>2, <1>10, <1>12, ServerNext

LEMMA CloseChannelAgrees ==
  ASSUME TypeInv, Agreement, CloseChannel
  PROVE  Agreement'
<1>1. PICK sv, cl, hs, hc : Ends(sv, cl, hs, hc)
  BY EndsAgree
<1>2. /\ sv = conn[Server] /\ cl = conn[Client] /\ Agree(sv, cl, hs, hc) /\ Parts(sv, cl, hs, hc)
      /\ sv \in End /\ cl \in End /\ incarnation \in Nat /\ sv.state # "error"
  BY <1>1 DEF Ends
<1>3. PICK t : t = IF OverflowsReliable(sv, 1, TRUE) THEN Error(sv)
             ELSE SendBunch(sv, TRUE, TRUE, MessageTag("reliable", sent[Server] + 1), 1)
  OBVIOUS
<1>4. /\ conn' = [conn EXCEPT ![Server] = t]
      /\ sv.channel # NoChannel /\ ~sv.channel.closing
  BY <1>2, <1>3 DEF CloseChannel, Update
<1>5. PICK tag \in Tag : tag = MessageTag("reliable", sent[Server] + 1)
  <2>1. Server \in Side
    BY DEF Side
  <2>2. sent[Server] + 1 \in Nat
    BY <2>1, EndFacts
  <2> QED
    BY <1>2, <2>2, MessageTagType
<1>6. PICK rel \in BOOLEAN, size \in Nat \ {0} : rel = TRUE /\ size = 1
  <2>1. 1 \in Nat \ {0}
    OBVIOUS
  <2> QED
    BY <2>1
<1>7. ~OverflowsReliable(sv, 1, TRUE)
  <2>1. sv.pendingOutRec = 0 /\ Room(sv)
    BY <1>2 DEF Agree, Turns, ServerTurn, Line
  <2>2. PICK n \in Nat : n = Len(Records(sv))
    <3>1. Records(sv) \in Seq(OutBunch)
      BY <1>2, EndTypes
    <3> QED
      BY <3>1
  <2>3. Span(sv) = n
    <3>1. PICK o \in Nat : o = sv.outReliable
      BY <1>2, EndTypes
    <3>2. Low(sv) = o + 1 - n
      BY <2>1, <2>2, <3>1 DEF Low
    <3> QED
      BY <3>1, <3>2 DEF Span
  <2>4. n < ReliableBuffer
    BY <1>4, <2>1, <2>3 DEF Room
  <2>5. ~(n + 1 >= ReliableBuffer + 1)
    BY <2>4, ChannelAssumption
  <2>6. Len(sv.channel.outRec) = n
    BY <1>4, <2>2 DEF Records
  <2> QED
    BY <2>5, <2>6 DEF OverflowsReliable
<1>8. t = SendBunch(sv, rel, rel, tag, size)
  BY <1>3, <1>5, <1>6, <1>7
<1>9. t.state # "error" /\ \E gs, gc : Agree(t, cl, gs, gc) /\ Parts(t, cl, gs, gc)
  <2>1. Is(rel, TRUE)
    BY <1>6 DEF Is
  <2> QED
    BY <1>2, <1>4, <1>6, <1>8, <2>1, ServerReliableAgrees
<1> QED
  BY <1>2, <1>4, <1>9, ServerNext

LEMMA PacketComes ==
  ASSUME TypeInv, NEW e \in Side, NEW i \in 1 .. MaxInFlight, ReceivedPacket(e, i),
         NEW s, s = conn[e], NEW r, r = conn[Other(e)]
  PROVE  \E n, t, y, z :
           /\ ~s.receiving.busy /\ Comes(s, r, i, n, t, y, z)
           /\ conn' = [conn EXCEPT ![e] = y, ![Other(e)] = z]
<1>d. PICK n : n = Len(r.wire[i].fates)
  OBVIOUS
<1>e. PICK t : t = AllNotified(s, r.wire[i].fates)
  OBVIOUS
<1>f. PICK y : y = Aged([t EXCEPT !.receiving =
                      [busy |-> TRUE, bunches |-> r.wire[i].bunches, lost |-> i - 1,
                       skipAck |-> FALSE]], i)
  OBVIOUS
<1>g. PICK z : z = Passed(r, i, n)
  OBVIOUS
<1>1. Other(e) \in Side /\ Other(e) # e /\ Other(Other(e)) = e
  BY Sides
<1>2. /\ s \in End /\ Bounded(s) /\ Told(s) /\ r \in End /\ Bounded(r) /\ Told(r)
      /\ ~s.receiving.busy
  BY <1>1, EndFacts DEF ReceivedPacket
<1>3. i \in 1 .. Len(r.wire) /\ Len(r.wire) \in Nat /\ Len(s.wire) \in Nat
  <2>1. r.wire \in Seq(Packet) /\ s.wire \in Seq(Packet)
    BY <1>2 DEF End
  <2>2. i \in DOMAIN r.wire
    BY DEF ReceivedPacket
  <2> QED
    BY <2>1, <2>2
<1>4. Heard(r, n, i, z) /\ Told(z) /\ n \in Nat /\ n <= Len(r.fates)
  BY <1>d, <1>g, <1>2, <1>3, HeardType
<1>5. Accounted(s, r)
  BY <1>1 DEF TypeInv
<1>6. Taken(r) \in Nat /\ Len(r.fates) <= Taken(r) /\ Len(r.fates) \in Nat
  <2>1. r.fates \in Seq(BOOLEAN)
    BY <1>2 DEF End
  <2> QED
    BY <1>2, <2>1, TakenType
<1>7. s.unnotified \in Nat /\ s.unnotified = Taken(r) + Len(s.wire)
  BY <1>2, <1>5 DEF End, Accounted
<1>8. n <= s.unnotified
  BY <1>3, <1>4, <1>6, <1>7
<1>9. t \in End
  <2>0. r.wire \in Seq(Packet)
    BY <1>2 DEF End
  <2>1. PICK pk \in Packet : pk = r.wire[i]
    BY <1>3, <2>0
  <2>2. pk.fates \in Seq(BOOLEAN) /\ n = Len(pk.fates)
    BY <1>d, <2>1 DEF Packet
  <2>3. t = AllNotified(s, pk.fates) /\ Len(pk.fates) <= s.unnotified
    BY <1>e, <1>8, <2>1, <2>2
  <2>4. Noted(s, Len(pk.fates), t)
    BY <1>2, <2>2, <2>3, AllNotifiedType
  <2> QED
    BY <2>4 DEF Noted
<1>10. Entered(t, r, i, y)
  BY <1>f, <1>2, <1>3, <1>9, EnteredType
<1>12. Comes(s, r, i, n, t, y, z)
  BY <1>d, <1>e, <1>g, <1>3, <1>10 DEF Comes
<1>13. conn' = [conn EXCEPT ![e] = y, ![Other(e)] = z]
  <2>1. conn \in [Side -> End]
    BY DEF TypeInv, TypeOK
  <2>2. conn' = [conn EXCEPT ![e] = y, ![Other(e)] = Passed(conn[Other(e)], i, n)]
    BY <1>d, <1>e, <1>f, <1>1, <2>1 DEF ReceivedPacket
  <2> QED
    BY <1>g, <2>2
<1> QED
  BY <1>2, <1>12, <1>13

LEMMA ReceivedPacketAgrees ==
  ASSUME TypeInv, Agreement, NEW e \in Side, NEW i \in 1 .. MaxInFlight,
         ReceivedPacket(e, i)
  PROVE  Agreement'
<1>1. PICK sv, cl, hs, hc : Ends(sv, cl, hs, hc)
  BY EndsAgree
<1>2. /\ sv = conn[Server] /\ cl = conn[Client] /\ Agree(sv, cl, hs, hc) /\ Parts(sv, cl, hs, hc)
      /\ sv \in End /\ Bounded(sv) /\ Told(sv) /\ cl \in End /\ Bounded(cl) /\ Told(cl)
      /\ sv.state # "error" /\ cl.state # "error"
  BY <1>1 DEF Ends
<1>3. PICK s : s = conn[e]
  OBVIOUS
<1>4. PICK r : r = conn[Other(e)]
  OBVIOUS
<1>5. PICK n, t, y, z :
        /\ ~s.receiving.busy /\ Comes(s, r, i, n, t, y, z)
        /\ conn' = [conn EXCEPT ![e] = y, ![Other(e)] = z]
  BY <1>3, <1>4, PacketComes
<1>6. conn \in [Side -> End] /\ Other(e) \in Side /\ Other(e) # e
  BY Sides DEF TypeInv, TypeOK
<1>7. conn'[e] = y /\ conn'[Other(e)] = z
  BY <1>5, <1>6
<1>9. Server # Client
  BY ChannelAssumption
<1>10. CASE e = Server
  <2>1. s = sv /\ r = cl /\ conn'[Server] = y /\ conn'[Client] = z
    BY <1>2, <1>3, <1>4, <1>7, <1>9, <1>10 DEF Other
  <2>2. Comes(sv, cl, i, n, t, y, z) /\ ~sv.receiving.busy
    BY <1>5, <2>1
  <2>3. Agree(y, z, hs, hc) /\ Parts(y, z, hs, hc) /\ y.state = sv.state /\ z.state = cl.state
    BY <1>2, <2>2, PartsServerPacket
  <2> QED
    BY <1>2, <2>1, <2>3, BothNext
<1>11. CASE e = Client
  <2>1. s = cl /\ r = sv /\ conn'[Server] = z /\ conn'[Client] = y
    BY <1>2, <1>3, <1>4, <1>7, <1>9, <1>11 DEF Other
  <2>2. Comes(cl, sv, i, n, t, y, z) /\ ~cl.receiving.busy
    BY <1>5, <2>1
  <2>3. Agree(z, y, hs, hc) /\ Parts(z, y, hs, hc) /\ y.state = cl.state /\ z.state = sv.state
    BY <1>2, <2>2, PartsClientPacket
  <2> QED
    BY <1>2, <2>1, <2>3, BothNext
<1> QED
  BY <1>10, <1>11 DEF Side

LEMMA DispatchQueuedAgrees ==
  ASSUME TypeInv, Agreement, NEW e \in Side, DispatchQueued(e)
  PROVE  Agreement'
<1>1. PICK sv, cl, hs, hc : Ends(sv, cl, hs, hc)
  BY EndsAgree
<1>2. /\ sv = conn[Server] /\ cl = conn[Client] /\ Agree(sv, cl, hs, hc) /\ Parts(sv, cl, hs, hc)
      /\ sv \in End /\ Bounded(sv) /\ Told(sv) /\ cl \in End /\ Bounded(cl) /\ Told(cl)
      /\ incarnation \in Nat /\ sv.state # "error" /\ cl.state # "error"
  BY <1>1 DEF Ends
<1>a. PICK s : s = conn[e]
  OBVIOUS
<1>b. PICK u : u = [s EXCEPT !.channel.inRec = Tail(@)]
  OBVIOUS
<1>c. PICK b : b = s.channel.inRec[1]
  OBVIOUS
<1>d. PICK t : t = ReceivedNextBunch(u, b)
  OBVIOUS
<1>3. Ready(s) /\ Dequeued(s, u, b) /\ s \in End /\ Bounded(s)
  BY <1>a, <1>b, <1>c, QueueReadyIs, EndFacts DEF DispatchQueued, Dequeued
<1>4. conn' = [conn EXCEPT ![e] = IF t.receiving.skipAck /\ ~s.receiving.skipAck
                                    THEN Error(t) ELSE t]
  BY <1>a, <1>b, <1>c, <1>d DEF DispatchQueued, Update
<1>5. CASE e = Server
  <2>1. s = sv
    BY <1>2, <1>a, <1>5
  <2>2. /\ Agree(t, cl, hs, hc) /\ Parts(t, cl, hs, hc) /\ t.state = sv.state
        /\ t.receiving.skipAck = sv.receiving.skipAck
    BY <1>2, <1>3, <1>d, <2>1, PartsServerQueued
  <2>3. conn' = [conn EXCEPT ![Server] = t]
    BY <1>4, <1>5, <2>1, <2>2
  <2> QED
    BY <1>2, <2>2, <2>3, ServerNext
<1>6. CASE e = Client
  <2>1. s = cl
    BY <1>2, <1>a, <1>6
  <2>2. /\ \E g : Agree(sv, t, hs, g) /\ Parts(sv, t, hs, g) /\ t.state = cl.state
        /\ t.receiving.skipAck = cl.receiving.skipAck
    BY <1>2, <1>3, <1>d, <2>1, PartsClientQueued
  <2>3. conn' = [conn EXCEPT ![Client] = t]
    BY <1>4, <1>6, <2>1, <2>2
  <2> QED
    BY <1>2, <2>2, <2>3, ClientNext
<1> QED
  BY <1>5, <1>6 DEF Side

LEMMA ReceivedPacketBunchAgrees ==
  ASSUME TypeInv, Agreement, NEW e \in Side, ReceivedPacketBunch(e)
  PROVE  Agreement'
<1>1. PICK sv, cl, hs, hc : Ends(sv, cl, hs, hc)
  BY EndsAgree
<1>2. /\ sv = conn[Server] /\ cl = conn[Client] /\ Agree(sv, cl, hs, hc) /\ Parts(sv, cl, hs, hc)
      /\ sv \in End /\ Bounded(sv) /\ Told(sv) /\ cl \in End /\ Bounded(cl) /\ Told(cl)
      /\ incarnation \in Nat /\ sv.state # "error" /\ cl.state # "error"
  BY <1>1 DEF Ends
<1>a. PICK s : s = conn[e]
  OBVIOUS
<1>b. PICK u : u = [s EXCEPT !.receiving.bunches = Tail(@)]
  OBVIOUS
<1>c. PICK a : a = s.receiving.bunches[1]
  OBVIOUS
<1>d. PICK b : b = [a EXCEPT !.seq = IF a.rel THEN MakeRelative(@, s.inReliable, MaxChSequence)
                                     ELSE 0]
  OBVIOUS
<1>e. PICK t : t = DispatchBunch(e, u, b)
  OBVIOUS
<1>3. s.receiving.bunches # <<>> /\ ~Ready(s) /\ s \in End
  BY <1>a, QueueReadyIs, EndFacts DEF ReceivedPacketBunch
<1>4. Unpacked(s, u, a, b)
  BY <1>3, <1>b, <1>c, <1>d, UnpackedType
<1>5. conn' = [conn EXCEPT ![e] = t]
  BY <1>a, <1>b, <1>c, <1>d, <1>e DEF ReceivedPacketBunch, Update
<1>7. CASE e = Server
  <2>1. s = sv /\ t = DispatchBunch(Server, u, b)
    BY <1>2, <1>a, <1>e, <1>7
  <2>2. AtBunch(cl, sv, hc, u, a, b)
    <3>1. Line(cl, sv, hc)
      BY <1>2, AgreeParts
    <3> QED
      BY <1>3, <1>4, <1>c, <2>1, <3>1 DEF AtBunch
  <2>3. Agree(t, cl, hs, hc) /\ Parts(t, cl, hs, hc) /\ t.state = sv.state
    BY <1>2, <2>1, <2>2, PartsServerBunch
  <2> QED
    BY <1>2, <1>5, <1>7, <2>3, ServerNext
<1>8. CASE e = Client
  <2>1. s = cl /\ t = DispatchBunch(Client, u, b)
    BY <1>2, <1>a, <1>e, <1>8
  <2>2. AtBunch(sv, cl, hs, u, a, b)
    <3>1. Line(sv, cl, hs)
      BY <1>2, AgreeParts
    <3> QED
      BY <1>3, <1>4, <1>c, <2>1, <3>1 DEF AtBunch
  <2>3. \E g : Agree(sv, t, hs, g) /\ Parts(sv, t, hs, g) /\ t.state = cl.state
    BY <1>2, <2>1, <2>2, PartsClientBunch
  <2> QED
    BY <1>2, <1>5, <1>8, <2>3, ClientNext
<1> QED
  BY <1>7, <1>8 DEF Side

LEMMA InitAgrees ==
  ASSUME Init PROVE Agreement
<1>1. PICK x : x = [state |-> "open", channel |-> NoChannel,
        outReliable |-> FirstSequence, inReliable |-> FirstSequence, pendingOutRec |-> 0,
        sendBuffer |-> <<>>, wire |-> <<>>, unnotified |-> 0, fates |-> <<>>,
        receiving |-> NotReceiving,
        got |-> [inc |-> 0, n |-> 0], whole |-> TRUE, fresh |-> TRUE]
  OBVIOUS
<1>2. conn[Server] = x /\ conn[Client] = x /\ x \in End
  <2>1. Server \in Side /\ Client \in Side
    BY DEF Side
  <2>2. conn[Server] = x /\ conn[Client] = x
    BY <1>1, <2>1 DEF Init
  <2>3. conn[Server] \in End
    BY <2>1, InitTypes, EndFacts
  <2> QED
    BY <2>2, <2>3
<1>3. /\ x.channel = NoChannel /\ x.wire = <<>> /\ x.fates = <<>> /\ x.unnotified = 0
      /\ x.receiving = NotReceiving /\ x.pendingOutRec = 0 /\ x.sendBuffer = <<>>
      /\ x.outReliable = FirstSequence /\ x.inReliable = FirstSequence
  BY <1>1
<1>4. ~x.receiving.busy /\ x.receiving.bunches = <<>>
  BY <1>3 DEF NotReceiving
<1>5. Records(x) = <<>> /\ Queue(x) = <<>>
  BY <1>3 DEF Records, Queue
<1>6. PICK F \in Nat : F = FirstSequence
  BY ChannelAssumption
<1>7. Low(x) = F + 1
  BY <1>3, <1>5, <1>6 DEF Low
<1>8. Low(x) .. x.outReliable = {}
  BY <1>3, <1>6, <1>7
<1>9. \E h : h \in History
  <2>1. PICK a \in {"reliable", "unreliable", "sync"}, n \in Nat, f \in BOOLEAN, p \in Part :
          a = "sync" /\ n = 0 /\ f = FALSE /\ p = "whole"
    BY DEF Part
  <2>2. PICK g \in Tag : g = [kind |-> a, inc |-> n, n |-> n, k |-> n, of |-> n, seq |-> n]
    BY DEF Tag
  <2>3. PICK b \in Bunch : b = [seq |-> n, rel |-> f, open |-> f, close |-> f, part |-> p, tag |-> g]
    BY DEF Bunch
  <2>4. [q \in Nat |-> b] \in History
    BY DEF History
  <2> QED
    BY <2>4
<1>10. PICK h : h \in History
  BY <1>9
<1>11. Line(x, x, h)
  <2>0. Taken(x) = 0
    BY <1>3, <1>4 DEF Taken
  <2>1. Accounted(x, x)
    BY <1>3, <2>0 DEF Accounted
  <2>2. Numbered(x, x, h)
    <3>1. x.pendingOutRec # 0 => Records(x) = <<>>
      BY <1>5
    <3>2. Low(x) >= 1 /\ Low(x) - 1 <= x.inReliable /\ x.inReliable <= x.outReliable
      BY <1>3, <1>6, <1>7
    <3> QED
      BY <1>5, <1>8, <3>1, <3>2 DEF Numbered
  <2>3. Recorded(x, x)
    BY <1>5 DEF Recorded
  <2>4. InFlight(x, x, h)
    <3>1. \A k \in 0 .. 0 + 1 : Carries(x, x, k) = <<>>
      BY <1>3, <1>4, <2>0 DEF Carries
    <3> QED
      BY <1>3, <2>0, <3>1 DEF InFlight
  <2>5. Queued(x, x, h)
    BY <1>5 DEF Queued, Ready
  <2>6. Room(x)
    <3>1. Span(x) = 0
      BY <1>3, <1>6, <1>7 DEF Span
    <3>2. 0 <= ReliableBuffer /\ 0 < ReliableBuffer
      BY ChannelAssumption
    <3> QED
      BY <3>1, <3>2 DEF Room
  <2> QED
    BY <2>1, <2>2, <2>3, <2>4, <2>5, <2>6 DEF Line
<1>12. Turns(x, x, h, h)
  <2>1. SilentAfter(x, 0)
    BY <1>3 DEF SilentAfter
  <2>2. ~Closing(x) /\ ~Joined(x) /\ ~Left(x, x) /\ ~Joining(x, x)
    BY <1>3 DEF Closing, Joined, Left, Joining
  <2>3. ServerTurn(x, x)
    BY <1>3, <2>1 DEF ServerTurn
  <2>4. CloseTurn(x, x, h)
    BY <1>8, <2>2 DEF CloseTurn
  <2>5. ClientTurn(x, h)
    BY <1>3, <1>8, <2>2 DEF ClientTurn
  <2> QED
    BY <2>2, <2>3, <2>4, <2>5 DEF Turns, JoinTurn, LeaveTurn
<1>13. Parts(x, x, h, h)
  <2>1. ~Joining(x, x) /\ ~Midway(x) /\ ~Opening(x)
    BY <1>3 DEF Joining, Midway, Opening
  <2>2. ~(Low(x) <= x.outReliable) /\ Low(x) .. x.outReliable - 1 = {}
    BY <1>3, <1>6, <1>7
  <2>3. Chained(x, h)
    BY <2>2 DEF Chained
  <2>4. ~(x.inReliable < x.outReliable)
    BY <1>3, <1>6
  <2>5. Reading(x, x, h)
    BY <2>1, <2>4 DEF Reading
  <2>6. OpenTurn(x, x, h)
    BY <1>3, <1>8, <2>1 DEF OpenTurn, Unsent, OpensFirst, OpensOnce
  <2> QED
    BY <1>3, <2>1, <2>3, <2>5, <2>6 DEF Parts, AnswerTurn
<1>14. Errorless
  <2>1. x.state = "open"
    BY <1>1
  <2> QED
    BY <1>2, <2>1 DEF Errorless, Side
<1> QED
  BY <1>2, <1>10, <1>11, <1>12, <1>13, <1>14 DEF Agreement, Agree

LEMMA NextAgrees ==
  ASSUME TypeInv, Agreement, [Next]_vars, ~reused'
  PROVE  Agreement'
<1>1. CASE UNCHANGED vars
  <2>1. conn' = conn
    BY <1>1 DEF vars
  <2> QED
    BY <2>1 DEF Agreement, Errorless
<1>2. CASE Game
  BY <1>2, OpenChannelAgrees, SendReliableAgrees, SendUnreliableAgrees, CloseChannelAgrees DEF Game
<1>3. CASE Network
  BY <1>3, FlushNetAgrees, ReceivedPacketAgrees, DispatchQueuedAgrees, ReceivedPacketBunchAgrees,
     AcknowledgePacketAgrees DEF Network
<1> QED
  BY <1>1, <1>2, <1>3 DEF Next

\* What the agreement says of either end.
LEMMA LineAt ==
  ASSUME TypeInv, Agreement, NEW e \in Side
  PROVE  \E h \in History : Line(conn[e], conn[Other(e)], h)
<1>1. PICK hs, hc : Agree(conn[Server], conn[Client], hs, hc)
  BY DEF Agreement
<1>2. /\ hs \in History /\ hc \in History
      /\ Line(conn[Server], conn[Client], hs) /\ Line(conn[Client], conn[Server], hc)
  BY <1>1, AgreeParts
<1>3. Server # Client
  BY ChannelAssumption
<1>4. CASE e = Server
  BY <1>2, <1>4 DEF Other
<1>5. CASE e = Client
  BY <1>2, <1>3, <1>5 DEF Other
<1> QED
  BY <1>4, <1>5 DEF Side

\* SequencesAgree, of one end.
Restores(r) ==
  \A i \in DOMAIN r.receiving.bunches :
    LET b == r.receiving.bunches[i]
    IN  b.rel => MakeRelative(b.seq, r.inReliable, MaxChSequence) = b.tag.seq

LEMMA LineRestores ==
  ASSUME NEW s \in End, NEW r \in End, NEW h \in History, Line(s, r, h)
  PROVE  Restores(r)
<1> SUFFICES ASSUME NEW j \in DOMAIN r.receiving.bunches,
                    NEW b, b = r.receiving.bunches[j], b.rel
             PROVE  MakeRelative(b.seq, r.inReliable, MaxChSequence) = b.tag.seq
  BY DEF Restores
<1>1. PICK q : q = b.tag.seq
  OBVIOUS
<1>2. Flies(r, j, b, q)
  BY <1>1 DEF Flies
<1>3. TakenFor(r, h, b, q)
  BY <1>2, FlightSequence
<1> QED
  BY <1>1, <1>3 DEF TakenFor

LEMMA AgreementSequences ==
  ASSUME TypeInv, Agreement PROVE SequencesAgree
<1>1. SequencesAgree <=> \A e \in Side : Restores(conn[e])
  BY DEF SequencesAgree, Restores
<1>2. ASSUME NEW e \in Side PROVE Restores(conn[e])
  <2>1. PICK o \in Side : o = Other(e) /\ Other(o) = e
    BY Sides
  <2>2. conn[e] \in End /\ conn[o] \in End
    BY EndFacts
  <2>3. PICK h \in History : Line(conn[o], conn[Other(o)], h)
    BY LineAt
  <2>4. Line(conn[o], conn[e], h)
    BY <2>1, <2>3
  <2> QED
    BY <2>2, <2>3, <2>4, LineRestores
<1> QED
  BY <1>1, <1>2

LEMMA LineLetsIn ==
  ASSUME NEW s \in End, NEW r \in End, NEW h \in History, Line(s, r, h)
  PROVE  /\ \A q \in Nat : q <= Low(s) - 1 => Has(r, q)
         /\ \A i \in DOMAIN Records(s) : Records(s)[i].acked => Has(r, Records(s)[i].bunch.seq)
         /\ s.pendingOutRec = 0 /\ Records(s) # <<>> => Records(s)[1].bunch.seq = Low(s)
<1>1. Numbered(s, r, h) /\ Recorded(s, r)
  BY DEF Line
<1>2. PICK L \in Int : L = Low(s)
  BY Lengths
<1>3. r.inReliable \in Nat /\ s.outReliable \in Nat
  BY EndTypes
<1>4. \A q \in Nat : q <= L - 1 => q <= r.inReliable
  BY <1>1, <1>2, <1>3 DEF Numbered
<1>5. ASSUME s.pendingOutRec = 0, Records(s) # <<>>
      PROVE  Records(s)[1].bunch.seq = L
  <2>1. Len(Records(s)) \in Nat /\ Len(Records(s)) # 0 /\ DOMAIN Records(s) = 1 .. Len(Records(s))
    <3>1. Records(s) \in Seq(OutBunch)
      BY EndTypes
    <3> QED
      BY <1>5, <3>1
  <2>2. 1 \in DOMAIN Records(s)
    BY <2>1
  <2>3. L = s.outReliable + 1 - Len(Records(s))
    BY <1>2, <1>5 DEF Low
  <2>4. L \in L .. s.outReliable /\ L + 1 - 1 = L
    BY <1>3, <2>1, <2>3
  <2>5. Records(s)[1].bunch = h[L + 1 - 1]
    BY <1>1, <1>2, <2>2 DEF Numbered
  <2>6. WellFormed(h[L], L)
    BY <1>1, <1>2, <2>4 DEF Numbered
  <2> QED
    BY <2>4, <2>5, <2>6 DEF WellFormed
<1>6. \A i \in DOMAIN Records(s) : Records(s)[i].acked => Has(r, Records(s)[i].bunch.seq)
  BY <1>1 DEF Recorded, RecordOK
<1> QED
  BY <1>2, <1>4, <1>5, <1>6 DEF Has

\* AckedMeansLetIn, of one end and its peer.
LetsIn(s, p) ==
  LET Has_(seq) == \/ seq <= p.inReliable
                   \/ /\ p.channel # NoChannel
                      /\ \E i \in DOMAIN p.channel.inRec : p.channel.inRec[i].seq = seq
      Kept_ == IF s.channel = NoChannel THEN <<>> ELSE s.channel.outRec
      first == IF s.pendingOutRec # 0 THEN s.pendingOutRec
               ELSE IF Kept_ # <<>> THEN Kept_[1].bunch.seq ELSE s.outReliable + 1
  IN  /\ \A seq \in FirstSequence + 1 .. first - 1 : Has_(seq)
      /\ \A i \in DOMAIN Kept_ : Kept_[i].acked => Has_(Kept_[i].bunch.seq)

LEMMA LineLetsAllIn ==
  ASSUME NEW s \in End, NEW p \in End, NEW h \in History, Line(s, p, h)
  PROVE  LetsIn(s, p)
<1>1. PICK kept : kept = Records(s)
  OBVIOUS
<1>2. PICK first : first = IF s.pendingOutRec # 0 THEN s.pendingOutRec
                   ELSE IF kept # <<>> THEN kept[1].bunch.seq ELSE s.outReliable + 1
  OBVIOUS
<1>3. /\ \A q \in Nat : q <= Low(s) - 1 => Has(p, q)
      /\ \A i \in DOMAIN kept : kept[i].acked => Has(p, kept[i].bunch.seq)
      /\ s.pendingOutRec = 0 /\ kept # <<>> => kept[1].bunch.seq = Low(s)
  BY <1>1, LineLetsIn
<1>4. first = Low(s)
  <2>1. CASE s.pendingOutRec # 0
    BY <1>2, <2>1 DEF Low
  <2>2. CASE s.pendingOutRec = 0 /\ kept # <<>>
    BY <1>2, <1>3, <2>2
  <2>3. CASE s.pendingOutRec = 0 /\ kept = <<>>
    <3>1. Low(s) = s.outReliable + 1 - 0 /\ s.outReliable \in Nat
      BY <1>1, <2>3, EndTypes DEF Low
    <3> QED
      BY <1>2, <2>3, <3>1
  <2> QED
    BY <2>1, <2>2, <2>3
<1>5. \A q \in FirstSequence + 1 .. first - 1 : q \in Nat /\ q <= Low(s) - 1
  <2>1. FirstSequence \in Nat /\ Low(s) \in Int
    BY Lengths, ChannelAssumption
  <2> QED
    BY <1>4, <2>1
<1>6. \A q : Has(p, q) <=>
        \/ q <= p.inReliable
        \/ /\ p.channel # NoChannel
           /\ \E i \in DOMAIN p.channel.inRec : p.channel.inRec[i].seq = q
  <2>1. CASE p.channel = NoChannel
    BY <2>1 DEF Has, Queue
  <2>2. CASE p.channel # NoChannel
    BY <2>2 DEF Has, Queue
  <2> QED
    BY <2>1, <2>2
<1>7. /\ \A q \in FirstSequence + 1 .. first - 1 : Has(p, q)
      /\ \A i \in DOMAIN kept : kept[i].acked => Has(p, kept[i].bunch.seq)
  BY <1>3, <1>5
<1>8. kept = IF s.channel = NoChannel THEN <<>> ELSE s.channel.outRec
  BY <1>1 DEF Records
<1> QED
  BY <1>2, <1>6, <1>7, <1>8 DEF LetsIn

LEMMA AgreementLetIn ==
  ASSUME TypeInv, Agreement PROVE AckedMeansLetIn
<1>1. AckedMeansLetIn <=> \A e \in Side : LetsIn(conn[e], conn[Other(e)])
  BY DEF AckedMeansLetIn, LetsIn
<1>2. ASSUME NEW e \in Side PROVE LetsIn(conn[e], conn[Other(e)])
  <2>1. conn[e] \in End /\ conn[Other(e)] \in End
    BY Sides, EndFacts
  <2>2. PICK h \in History : Line(conn[e], conn[Other(e)], h)
    BY LineAt
  <2> QED
    BY <2>1, <2>2, LineLetsAllIn
<1> QED
  BY <1>1, <1>2

\* Once opened in the middle of a packet, always.
LEMMA ReusedStays ==
  ASSUME reused, [Next]_vars PROVE reused'
<1>1. CASE UNCHANGED vars
  BY <1>1 DEF vars
<1>2. CASE Game
  BY <1>2 DEF Game, OpenChannel, SendReliable, SendUnreliable, CloseChannel
<1>3. CASE Network
  BY <1>3 DEF Network, FlushNet, ReceivedPacket, DispatchQueued, ReceivedPacketBunch,
              AcknowledgePacket
<1> QED
  BY <1>1, <1>2, <1>3 DEF Next

LEMMA Accord == Spec => [](TypeInv /\ (reused \/ Agreement))
<1>1. Init => TypeInv /\ Agreement
  BY InitTypes, InitAgrees
<1>2. TypeInv /\ (reused \/ Agreement) /\ [Next]_vars => TypeInv' /\ (reused' \/ Agreement')
  BY NextTypes, NextAgrees, ReusedStays
<1> QED
  BY <1>1, <1>2, PTL DEF Spec

\* No check of the channel fires and none of its queues overflows (the error returns of
\* UChannel::ReceivedNextBunch and ReceivedRawBunch, the check(!OutRec) of ReceivedAcks,
\* the check of a waiting bunch in UActorChannel and of the close in UChannel::Close),
\* unless the game has opened the channel while bunches of a packet were still to be
\* processed: the two ends agree on every number, record, packet under way and queued
\* bunch, and on the parts of every message.
THEOREM NoError == Spec => []NoBunchError
<1>1. TypeInv /\ (reused \/ Agreement) => NoBunchError
  BY DEF Agreement, NoBunchError
<1> QED
  BY <1>1, Accord, PTL

\* A bunch is kept until its peer has it (UChannel::ReceivedAcks releases what the peer
\* processed or holds in InRec, and nothing else), until the game first opens the channel
\* while bunches of a packet are still to be processed.
THEOREM AckedLetIn == Spec => [](reused \/ AckedMeansLetIn)
<1>1. TypeInv /\ (reused \/ Agreement) => reused \/ AckedMeansLetIn
  BY AgreementLetIn
<1> QED
  BY <1>1, Accord, PTL

\* The low bits of a sequence number on the wire are enough (MakeRelative in
\* UNetConnection::ReceivedPacket), until then: the number a bunch was sent with and the
\* one its receiver is at are never MaxChSequence / 2 apart.
THEOREM SequencesRestored == Spec => [](reused \/ SequencesAgree)
<1>1. TypeInv /\ (reused \/ Agreement) => reused \/ SequencesAgree
  BY AgreementSequences
<1> QED
  BY <1>1, Accord, PTL
=============================================================================
