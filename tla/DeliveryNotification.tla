------------------------ MODULE DeliveryNotification ------------------------
(***************************************************************************)
(* What the packet layer of a connection promises to the layers above it,  *)
(* with ids of unlimited width, no headers, no history and no network: an  *)
(* endpoint numbers its packets, its peer settles their fate in the order  *)
(* of their numbers, and the endpoint is told the fate of each packet once *)
(* and in the same order.  Connection.tla implements this.                 *)
(***************************************************************************)
EXTENDS Integers

CONSTANTS
  Endpoint,          \* the two ends of the connection
  Peer(_),
  FirstId(_),        \* the number of an endpoint's first packet
  HistorySize        \* fates older than this may be forgotten

VARIABLES
  sent,        \* the last packet an endpoint sent
  settled,     \* the last packet of its peer whose fate an endpoint settled
  delivered,   \* those of them that it took delivery of
  notified,    \* the last of its own packets whose fate it was told
  acked        \* those of them reported as delivered

vars == <<sent, settled, delivered, notified, acked>>

Init ==
  /\ sent = [e \in Endpoint |-> FirstId(e) - 1]
  /\ settled = [e \in Endpoint |-> FirstId(Peer(e)) - 1]
  /\ delivered = [e \in Endpoint |-> {}]
  /\ notified = [e \in Endpoint |-> FirstId(e) - 1]
  /\ acked = [e \in Endpoint |-> {}]

Send(e) ==
  /\ sent' = [sent EXCEPT ![e] = @ + 1]
  /\ UNCHANGED <<settled, delivered, notified, acked>>

\* A packet arrives and is taken or refused; those before it are lost for good.
Settle(e) ==
  /\ \E id \in settled[e] + 1 .. sent[Peer(e)] :
       /\ settled' = [settled EXCEPT ![e] = id]
       /\ \/ delivered' = [delivered EXCEPT ![e] = @ \cup {id}]
          \/ UNCHANGED delivered
  /\ UNCHANGED <<sent, notified, acked>>

\* The next packet is reported: as delivered only if it was, as lost only if it
\* was lost or refused, or settled so long ago that its fate was forgotten.
Notify(e) ==
  /\ notified[e] < settled[Peer(e)]
  /\ LET id == notified[e] + 1
     IN  /\ notified' = [notified EXCEPT ![e] = id]
         /\ \/ /\ id \in delivered[Peer(e)]
               /\ acked' = [acked EXCEPT ![e] = @ \cup {id}]
            \/ /\ id \notin delivered[Peer(e)] \/ settled[Peer(e)] - id >= HistorySize
               /\ UNCHANGED acked
  /\ UNCHANGED <<sent, settled, delivered>>

Next == \E e \in Endpoint : Send(e) \/ Settle(e) \/ Notify(e)

Spec == Init /\ [][Next]_vars
=============================================================================
