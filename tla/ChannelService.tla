--------------------------- MODULE ChannelService ---------------------------
(***************************************************************************)
(* What an actor channel promises to the game, with no packets, sequence   *)
(* numbers or buffers: while the server has the channel open, the reliable *)
(* messages of each side reach the other whole, once and in the order they *)
(* were sent; the close is the server's last message; what the client has  *)
(* not got through by then is dropped; and the channel is opened anew only *)
(* after both sides are done with it.  Nothing is promised any more once   *)
(* the number was opened again in front of data that had come already.     *)
(* ReliableChannel.tla implements this.                                    *)
(***************************************************************************)
EXTENDS Naturals

CONSTANTS Server, Client

VARIABLES
  incarnation,  \* how often the channel was opened
  phase,        \* "free", "open" or "closing", as the server sees it
  joined,       \* the client has been handed the opening message
  sent,         \* messages a side has sent in this incarnation
  got,          \* [inc, n]: the last message a side has been handed
  void          \* no promise is left

vars == <<incarnation, phase, joined, sent, got, void>>

Side == {Server, Client}
Other(e) == IF e = Server THEN Client ELSE Server

Init ==
  /\ incarnation = 0
  /\ phase = "free"
  /\ joined = FALSE
  /\ sent = [e \in Side |-> 0]
  /\ got = [e \in Side |-> [inc |-> 0, n |-> 0]]
  /\ void = FALSE

Open ==
  /\ phase = "free"
  /\ ~joined
  /\ phase' = "open"
  /\ incarnation' = incarnation + 1
  /\ sent' = [e \in Side |-> 0]
  /\ UNCHANGED <<joined, got>>

Send(e) ==
  /\ phase = "open" \/ e = Client
  /\ e = Client => joined
  /\ sent' = [sent EXCEPT ![e] = @ + 1]
  /\ UNCHANGED <<incarnation, phase, joined, got>>

Close ==
  /\ phase = "open"
  /\ phase' = "closing"
  /\ sent' = [sent EXCEPT ![Server] = @ + 1]
  /\ UNCHANGED <<incarnation, joined, got>>

\* How many messages of the present incarnation a side has been handed.
Handed(e) == IF got[e].inc = incarnation THEN got[e].n ELSE 0

\* The next message is handed over.  The first one lets the client join, the
\* close makes it leave; a server that is closing takes nothing any more.
Deliver(e) ==
  LET n    == Handed(e) + 1
      last == phase = "closing" /\ n = sent[Server]
  IN  /\ n <= sent[Other(e)]
      /\ e = Server => phase = "open"
      /\ got' = [got EXCEPT ![e] = [inc |-> incarnation, n |-> n]]
      /\ joined' = IF e = Client THEN ~last ELSE joined
      /\ UNCHANGED <<incarnation, phase, sent>>

\* The server learns that the client has left.
Free ==
  /\ phase = "closing"
  /\ ~joined
  /\ Handed(Client) = sent[Server]
  /\ phase' = "free"
  /\ UNCHANGED <<incarnation, joined, sent, got>>

Promised ==
  \/ Open
  \/ Close
  \/ Free
  \/ \E e \in Side : Send(e) \/ Deliver(e)

Next ==
  \/ ~void' /\ Promised
  \/ void'

Spec == Init /\ [][Next]_vars
=============================================================================
