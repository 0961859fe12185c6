--------------------------- MODULE Handshake_proofs ---------------------------
(***************************************************************************)
(* What Handshake promises for any addresses, delays and number of packets *)
(* under way: types, that a cookie can be answered for as long as the      *)
(* client goes on answering it, that there is one connection, whose        *)
(* sequence numbers are the client's, and that a restart ends where the    *)
(* client is.                                                              *)
(***************************************************************************)
EXTENDS Handshake, TLAPS

LEMMA Lifetimes ==
  /\ MaxCookieLifetime \in Nat
  /\ MinCookieLifetime \in Nat
  /\ MinCookieLifetime < MaxCookieLifetime
  /\ SecretUpdateTime + SecretUpdateVariance + 1 <= MaxCookieLifetime
BY HandshakeAssumption DEF HandshakeAssumption, MaxCookieLifetime, MinCookieLifetime

\* Older stays within the values that are told apart.
LEMMA OlderType ==
  ASSUME NEW limit \in Nat, NEW t \in 0 .. MaxTime(limit)
  PROVE  Older(t, limit) \in 0 .. MaxTime(limit)
BY DEF Older, MaxTime

\* What is put into the network is what was sent or was there before.
LEMMA PutSubset ==
  ASSUME NEW net, NEW p
  PROVE  /\ Put(net, p) \subseteq net \cup {p}
         /\ \A q \in Put(net, p) : q \in net \/ q = p
BY DEF Put

Stamps ==
  [addr: Addresses, age: 0 .. MaxCookieLifetime, secret: {0, 1}, fresh: BOOLEAN]

LEMMA PacketType ==
  ASSUME NEW type \in ToServer \cup ToClient, NEW a \in Addresses,
         NEW c \in Cookies \cup {None}, NEW o \in Cookies \cup {None}
  PROVE  Packet(type, a, c, o) \in PacketSet
BY HandshakeAssumption DEF HandshakeAssumption, Packet, PacketSet

LEMMA SurvivingType ==
  ASSUME NEW stamps,
         \A c \in Cookies : stamps[c].age < MaxCookieLifetime => stamps[c] \in Stamps
  PROVE  Surviving(stamps) \in [Cookies -> Stamps]
<1>1. Dead \in Stamps
  BY Lifetimes, HandshakeAssumption DEF Dead, Stamps, HandshakeAssumption
<1> QED
  BY <1>1 DEF Surviving

-----------------------------------------------------------------------------
(* Types.                                                                  *)

ClientSet ==
  [state: {"UnInitialized", "InitializedOnLocal", "Initialized"},
   handlerInitialized: BOOLEAN, bRestartedHandshake: BOOLEAN,
   LastCookie: Cookies \cup {None}, AuthorisedCookie: Cookies \cup {None},
   sinceSend: 0 .. MaxTime(RestartDelay),
   sinceChallenge: 0 .. MaxTime(MinCookieLifetime)]

ConnectionSet == [cookie: Cookies, ackTo: Addresses \cup {None}]

\* Cookies are where the protocol puts them: a challenge and a response carry
\* one, a client that has sent a response has one, and so has one whose packet
\* handler is initialized.
ClientThere ==
  /\ client.state = "InitializedOnLocal" => client.LastCookie \in Cookies
  /\ client.handlerInitialized => client.AuthorisedCookie \in Cookies
  /\ client.bRestartedHandshake \/ client.state = "Initialized"
       => client.handlerInitialized

CookiesThere ==
  /\ \A p \in network :
       p.type \in {"Challenge", "Response", "Ack", "Game"} => p.cookie \in Cookies
  /\ ClientThere

TypeInv ==
  /\ client \in ClientSet
  /\ address \in Addresses
  /\ issued \in [Cookies -> Stamps]
  /\ secret \in [active: {0, 1}, age: 0 .. MaxCookieLifetime]
  /\ connections \in [Addresses -> {None} \cup ConnectionSet]
  /\ network \subseteq PacketSet
  /\ switches \in 0 .. MaxSwitches
  /\ CookiesThere

LEMMA TypeInvImplies == TypeInv => TypeOK
BY DEF TypeInv, TypeOK, ClientSet, Stamps, ConnectionSet

LEMMA TypeInit == Init => TypeInv
<1> SUFFICES ASSUME Init PROVE TypeInv
  OBVIOUS
<1> USE HandshakeAssumption DEF Init, HandshakeAssumption
<1>1. client \in ClientSet
  BY Lifetimes DEF ClientSet, MaxTime
<1>2. issued \in [Cookies -> Stamps]
  BY Lifetimes DEF Stamps, Dead
<1>3. secret \in [active: {0, 1}, age: 0 .. MaxCookieLifetime]
  BY Lifetimes
<1>4. network \subseteq PacketSet
  BY PacketType DEF ToServer
<1>5. CookiesThere
  BY DEF CookiesThere, ClientThere, Packet
<1> QED
  BY <1>1, <1>2, <1>3, <1>4, <1>5 DEF TypeInv

\* A network of old packets and of packets that are in order is in order.
LEMMA NetworkKept ==
  ASSUME TypeInv, NEW q \in PacketSet,
         q.type \in {"Challenge", "Response", "Ack", "Game"} => q.cookie \in Cookies,
         \A x \in network' : x \in network \/ x = q
  PROVE  /\ network' \subseteq PacketSet
         /\ \A x \in network' :
              x.type \in {"Challenge", "Response", "Ack", "Game"} => x.cookie \in Cookies
BY DEF TypeInv, CookiesThere

LEMMA NetworkShrinks ==
  ASSUME TypeInv, network' \subseteq network
  PROVE  /\ network' \subseteq PacketSet
         /\ \A x \in network' :
              x.type \in {"Challenge", "Response", "Ack", "Game"} => x.cookie \in Cookies
BY DEF TypeInv, CookiesThere

\* What may be sent, and that it is in order.
LEMMA ClientPackets ==
  ASSUME TypeInv
  PROVE  /\ InitialPacket \in PacketSet /\ InitialPacket.type = "Initial"
         /\ \A c \in Cookies :
              /\ ResponsePacket(c) \in PacketSet
              /\ ResponsePacket(c).type = "Response" /\ ResponsePacket(c).cookie = c
<1>1. \A c \in Cookies \cup {None}, o \in Cookies \cup {None},
        type \in ToServer \cup ToClient : Packet(type, address, c, o) \in PacketSet
  BY PacketType DEF TypeInv
<1>2. client.AuthorisedCookie \in Cookies \cup {None}
  BY DEF TypeInv, ClientSet
<1>3. InitialPacket \in PacketSet
  BY <1>1 DEF InitialPacket, ToServer
<1>4. ASSUME NEW c \in Cookies PROVE ResponsePacket(c) \in PacketSet
  BY <1>1, <1>2 DEF ResponsePacket, ToServer
<1> QED
  BY <1>3, <1>4 DEF InitialPacket, ResponsePacket, Packet

LEMMA Clocks ==
  /\ 0 \in 0 .. MaxTime(RestartDelay)
  /\ 0 \in 0 .. MaxTime(MinCookieLifetime)
BY Lifetimes, HandshakeAssumption DEF HandshakeAssumption, MaxTime

LEMMA ClientStepType ==
  ASSUME TypeInv, NEW p \in network, ClientReceives(p)
  PROVE  TypeInv'
<1>0. client \in ClientSet /\ p \in PacketSet
  BY DEF TypeInv
<1>1. CASE ClientReceivesChallenge(p)
  <2>1. p.cookie \in Cookies
    BY <1>1 DEF ClientReceivesChallenge, TypeInv, CookiesThere
  <2>2. client' = [client EXCEPT !.state = "InitializedOnLocal", !.LastCookie = p.cookie,
                                 !.sinceSend = 0, !.sinceChallenge = 0]
    BY <1>1 DEF ClientReceivesChallenge
  <2>3. client' \in ClientSet
    BY <1>0, <2>1, <2>2, Clocks DEF ClientSet
  <2>4. \A x \in network' : x \in network \/ x = ResponsePacket(p.cookie)
    BY <1>1, PutSubset DEF ClientReceivesChallenge, After
  <2>5. /\ network' \subseteq PacketSet
        /\ \A x \in network' :
             x.type \in {"Challenge", "Response", "Ack", "Game"} => x.cookie \in Cookies
    BY <2>1, <2>4, ClientPackets, NetworkKept
  <2>6. ClientThere'
    BY <1>0, <2>1, <2>2 DEF ClientSet, ClientThere, TypeInv, CookiesThere
  <2> QED
    BY <1>1, <2>3, <2>5, <2>6 DEF CookiesThere, TypeInv, ClientReceivesChallenge
<1>2. CASE ClientReceivesAck(p)
  <2>1. p.cookie \in Cookies
    BY <1>2 DEF ClientReceivesAck, TypeInv, CookiesThere
  <2> DEFINE a == IF client.bRestartedHandshake THEN client.AuthorisedCookie ELSE p.cookie
  <2>2. client' = [client EXCEPT
            !.state = "Initialized", !.handlerInitialized = TRUE,
            !.bRestartedHandshake = FALSE, !.LastCookie = None, !.AuthorisedCookie = a]
    <3>1. CASE client.bRestartedHandshake
      BY <1>2, <3>1 DEF ClientReceivesAck, Acknowledged
    <3>2. CASE ~client.bRestartedHandshake
      BY <1>2, <3>2 DEF ClientReceivesAck, Acknowledged
    <3> QED
      BY <3>1, <3>2
  <2>4. a \in Cookies
    BY <1>0, <2>1 DEF TypeInv, CookiesThere, ClientThere, ClientSet
  <2> HIDE DEF a
  <2>3. client' \in ClientSet
    BY <1>0, <2>2, <2>4 DEF ClientSet
  <2>5. ClientThere'
    BY <1>0, <2>2, <2>4 DEF ClientSet, ClientThere
  <2> QED
    BY <1>2, <2>3, <2>5, NetworkShrinks DEF CookiesThere, TypeInv, ClientReceivesAck, After
<1>3. CASE ClientReceivesRestart(p)
  <2>1. client' = [client EXCEPT !.state = "UnInitialized",
                                 !.bRestartedHandshake = TRUE, !.sinceSend = 0]
    BY <1>3 DEF ClientReceivesRestart
  <2>2. client' \in ClientSet
    BY <1>0, <2>1, Clocks DEF ClientSet
  <2>3. ClientThere'
    BY <1>0, <1>3, <2>1
    DEF ClientSet, ClientThere, TypeInv, CookiesThere, ClientReceivesRestart, AcceptsRestart
  <2>4. \A x \in network' : x \in network \/ x = InitialPacket
    BY <1>3, PutSubset DEF ClientReceivesRestart, After
  <2>5. /\ network' \subseteq PacketSet
        /\ \A x \in network' :
             x.type \in {"Challenge", "Response", "Ack", "Game"} => x.cookie \in Cookies
    BY <2>4, ClientPackets, NetworkKept
  <2> QED
    BY <1>3, <2>2, <2>3, <2>5 DEF CookiesThere, TypeInv, ClientReceivesRestart
<1>4. CASE ClientIgnores(p)
  BY <1>4, NetworkShrinks DEF ClientIgnores, TypeInv, CookiesThere, ClientThere
<1> QED
  BY <1>1, <1>2, <1>3, <1>4 DEF ClientReceives

\* The client's own steps.
LEMMA ClientMoveType ==
  ASSUME TypeInv, ClientTick \/ ClientSendsGame
  PROVE  TypeInv'
<1>0. client \in ClientSet /\ address \in Addresses
  BY DEF TypeInv
<1>1. CASE ClientTick
  <2>1. PICK s \in {"UnInitialized", client.state} :
          /\ client' = [client EXCEPT !.state = s, !.sinceSend = 0]
          /\ network' = Put(network, IF s = "UnInitialized" THEN InitialPacket
                                     ELSE ResponsePacket(client.LastCookie))
    BY <1>1 DEF ClientTick
  <2>2. client.state # "Initialized"
    BY <1>1 DEF ClientTick
  <2>3. client' \in ClientSet
    BY <1>0, <2>1, Clocks DEF ClientSet
  <2>4. ClientThere'
    BY <1>0, <2>1, <2>2 DEF ClientSet, ClientThere, TypeInv, CookiesThere
  <2>5. s # "UnInitialized" => client.LastCookie \in Cookies
    BY <1>0, <2>2 DEF ClientSet, ClientThere, TypeInv, CookiesThere
  <2>6. \A x \in network' :
          x \in network \/ x = (IF s = "UnInitialized" THEN InitialPacket
                                ELSE ResponsePacket(client.LastCookie))
    BY <2>1, PutSubset
  <2>7. /\ network' \subseteq PacketSet
        /\ \A x \in network' :
             x.type \in {"Challenge", "Response", "Ack", "Game"} => x.cookie \in Cookies
    BY <2>5, <2>6, ClientPackets, NetworkKept
  <2> QED
    BY <1>1, <2>3, <2>4, <2>7 DEF CookiesThere, TypeInv, ClientTick
<1>2. CASE ClientSendsGame
  <2> DEFINE q == Packet("Game", address, client.AuthorisedCookie, None)
  <2>1. client.AuthorisedCookie \in Cookies
    BY <1>2 DEF ClientSendsGame, TypeInv, CookiesThere, ClientThere
  <2>2. q \in PacketSet /\ q.cookie \in Cookies
    BY <1>0, <2>1, PacketType DEF ToServer, Packet
  <2>3. \A x \in network' : x \in network \/ x = q
    BY <1>2, PutSubset DEF ClientSendsGame
  <2> HIDE DEF q
  <2>4. /\ network' \subseteq PacketSet
        /\ \A x \in network' :
             x.type \in {"Challenge", "Response", "Ack", "Game"} => x.cookie \in Cookies
    BY <2>2, <2>3, NetworkKept
  <2> QED
    BY <1>2, <2>4 DEF CookiesThere, ClientThere, TypeInv, ClientSendsGame
<1> QED
  BY <1>1, <1>2

\* An ack for a connection.
LEMMA AckPacket ==
  ASSUME NEW a \in Addresses, NEW c \in Cookies
  PROVE  LET q == Packet("Ack", a, c, None) IN q \in PacketSet /\ q.cookie \in Cookies
BY PacketType DEF ToClient, Packet

LEMMA ServerStepType ==
  ASSUME TypeInv, NEW p \in network, ServerReceives(p)
  PROVE  TypeInv'
<1>0. p \in PacketSet /\ p.addr \in Addresses /\ p.orig \in Cookies \cup {None}
  BY DEF TypeInv, PacketSet
<1>1. CASE ServerChallenges(p)
  <2>1. PICK c \in CookiesFor(p.addr) :
          /\ issued' = [issued EXCEPT ![c] = Stamp(p.addr)]
          /\ \E net \in After(p) : network' = Put(net, Packet("Challenge", p.addr, c, None))
    BY <1>1 DEF ServerChallenges
  <2>2. c \in Cookies
    BY DEF CookiesFor
  <2>3. Stamp(p.addr) \in Stamps
    BY <1>0, Lifetimes DEF Stamp, Stamps, TypeInv
  <2>4. issued' \in [Cookies -> Stamps]
    BY <2>1, <2>3 DEF TypeInv
  <2> DEFINE q == Packet("Challenge", p.addr, c, None)
  <2>5. q \in PacketSet /\ q.cookie \in Cookies
    BY <1>0, <2>2, PacketType DEF ToClient, Packet
  <2>6. \A x \in network' : x \in network \/ x = q
    BY <2>1, PutSubset DEF After
  <2> HIDE DEF q
  <2>7. /\ network' \subseteq PacketSet
        /\ \A x \in network' :
             x.type \in {"Challenge", "Response", "Ack", "Game"} => x.cookie \in Cookies
    BY <2>5, <2>6, NetworkKept
  <2> QED
    BY <1>1, <2>4, <2>7 DEF ServerChallenges, TypeInv, CookiesThere, ClientThere
<1>2. CASE ServerAccepts(p)
  <2>1. p.cookie \in Cookies
    BY <1>2 DEF ServerAccepts, TypeInv, CookiesThere
  <2>2. connections' \in [Addresses -> {None} \cup ConnectionSet]
    <3>1. connections' \in Accepted(p.addr, p.cookie, p.orig)
      BY <1>2 DEF ServerAccepts
    <3>2. [cookie |-> p.cookie, ackTo |-> p.addr] \in ConnectionSet
      BY <1>0, <2>1 DEF ConnectionSet
    <3>3. Holders(p.orig) \subseteq Addresses
      BY DEF Holders
    <3>4. connections \in [Addresses -> {None} \cup ConnectionSet]
      BY DEF TypeInv
    <3> QED
      BY <1>0, <3>1, <3>2, <3>3, <3>4 DEF Accepted
  <2> DEFINE c == IF p.orig = None THEN p.cookie ELSE p.orig
             q == Packet("Ack", p.addr, c, None)
  <2>3. c \in Cookies
    BY <1>0, <2>1
  <2>4. q \in PacketSet /\ q.cookie \in Cookies
    BY <1>0, <2>3, AckPacket
  <2>5. \A x \in network' : x \in network \/ x = q
    BY <1>2, PutSubset DEF ServerAccepts, After
  <2> HIDE DEF q
  <2>6. /\ network' \subseteq PacketSet
        /\ \A x \in network' :
             x.type \in {"Challenge", "Response", "Ack", "Game"} => x.cookie \in Cookies
    BY <2>4, <2>5, NetworkKept
  <2> QED
    BY <1>2, <2>2, <2>6 DEF ServerAccepts, TypeInv, CookiesThere, ClientThere
<1>3. CASE ServerRefuses(p)
  BY <1>3, NetworkShrinks DEF ServerRefuses, TypeInv, CookiesThere, ClientThere
<1>4. CASE ServerRequestsRestart(p)
  <2> DEFINE q == Packet("RestartRequest", p.addr, None, None)
  <2>1. q \in PacketSet /\ q.type = "RestartRequest"
    BY <1>0, PacketType DEF ToClient, Packet
  <2>2. \A x \in network' : x \in network \/ x = q
    BY <1>4, PutSubset DEF ServerRequestsRestart, After
  <2> HIDE DEF q
  <2>3. /\ network' \subseteq PacketSet
        /\ \A x \in network' :
             x.type \in {"Challenge", "Response", "Ack", "Game"} => x.cookie \in Cookies
    BY <2>1, <2>2, NetworkKept
  <2> QED
    BY <1>4, <2>3 DEF ServerRequestsRestart, TypeInv, CookiesThere, ClientThere
<1>5. CASE ConnectionReceives(p)
  <2> DEFINE con == connections[p.addr]
             q == Packet("Ack", con.ackTo, con.cookie, None)
  <2>1. con \in ConnectionSet
    BY <1>0, <1>5 DEF ConnectionReceives, TypeInv
  <2>2. CASE p.type = "Game"
    <3>1. connections' \in [Addresses -> {None} \cup ConnectionSet]
      <4>1. connections' = [connections EXCEPT ![p.addr] = [con EXCEPT !.ackTo = None]]
        BY <1>5, <2>2 DEF ConnectionReceives
      <4>2. [con EXCEPT !.ackTo = None] \in ConnectionSet
        BY <2>1 DEF ConnectionSet
      <4> QED
        BY <4>1, <4>2 DEF TypeInv
    <3>2. network' \subseteq network
      BY <1>5, <2>2 DEF ConnectionReceives, After
    <3> QED
      BY <1>5, <3>1, <3>2, NetworkShrinks
      DEF ConnectionReceives, TypeInv, CookiesThere, ClientThere
  <2>3. CASE p.type # "Game"
    <3>1. \A x \in network' : x \in network \/ (x = q /\ con.ackTo # None)
      BY <1>5, <2>3, PutSubset DEF ConnectionReceives, After
    <3>2. con.ackTo # None => q \in PacketSet /\ q.cookie \in Cookies
      BY <2>1, AckPacket DEF ConnectionSet
    <3> HIDE DEF q, con
    <3>3. /\ network' \subseteq PacketSet
          /\ \A x \in network' :
               x.type \in {"Challenge", "Response", "Ack", "Game"} => x.cookie \in Cookies
      BY <3>1, <3>2, NetworkKept DEF TypeInv, CookiesThere
    <3>4. UNCHANGED connections
      BY <1>5, <2>3 DEF ConnectionReceives
    <3> QED
      BY <1>5, <3>3, <3>4 DEF ConnectionReceives, TypeInv, CookiesThere, ClientThere
  <2> QED
    BY <2>2, <2>3
<1> QED
  BY <1>1, <1>2, <1>3, <1>4, <1>5 DEF ServerReceives

\* Of the two records of secrets and cookies.
LEMMA UpdateSecretType ==
  ASSUME TypeInv, UpdateSecret
  PROVE  TypeInv'
<1>1. secret' \in [active: {0, 1}, age: 0 .. MaxCookieLifetime]
  BY Lifetimes DEF UpdateSecret, TypeInv
<1> DEFINE stamps == [c \in Cookies |->
                  [issued[c] EXCEPT !.fresh = @ /\ issued[c].secret = secret.active]]
<1>2. \A c \in Cookies : stamps[c] \in Stamps
  BY DEF TypeInv, Stamps
<1>3. issued' = Surviving(stamps)
  BY DEF UpdateSecret
<1> HIDE DEF stamps
<1>4. issued' \in [Cookies -> Stamps]
  BY <1>2, <1>3, SurvivingType
<1> QED
  BY <1>1, <1>4 DEF UpdateSecret, TypeInv, CookiesThere, ClientThere

LEMMA PassType ==
  ASSUME TypeInv, Pass
  PROVE  TypeInv'
<1>1. secret' \in [active: {0, 1}, age: 0 .. MaxCookieLifetime]
  <2>1. secret \in [active: {0, 1}, age: 0 .. MaxCookieLifetime]
    BY DEF TypeInv
  <2>2. secret.age + 1 \in 0 .. MaxCookieLifetime
    BY <2>1, Lifetimes, HandshakeAssumption DEF Pass, HandshakeAssumption
  <2> QED
    BY <2>1, <2>2 DEF Pass
<1>2. client' \in ClientSet
  <2>1. client \in ClientSet
    BY DEF TypeInv
  <2>2. /\ Older(client.sinceSend, RestartDelay) \in 0 .. MaxTime(RestartDelay)
        /\ Older(client.sinceChallenge, MinCookieLifetime)
             \in 0 .. MaxTime(MinCookieLifetime)
    BY <2>1, OlderType, Lifetimes, HandshakeAssumption DEF ClientSet, HandshakeAssumption
  <2>3. client' = [client EXCEPT
          !.sinceSend = Older(client.sinceSend, RestartDelay),
          !.sinceChallenge = Older(client.sinceChallenge, MinCookieLifetime)]
    BY <2>1 DEF Pass, ClientSet
  <2> QED
    BY <2>1, <2>2, <2>3 DEF ClientSet
<1>3. ClientThere'
  BY DEF Pass, ClientThere, TypeInv, CookiesThere, ClientSet
<1>4. issued' \in [Cookies -> Stamps]
  <2> DEFINE stamps == [c \in Cookies |-> [issued[c] EXCEPT !.age = @ + 1]]
  <2>1. \A c \in Cookies : issued[c] \in Stamps
    BY DEF TypeInv
  <2>2. \A c \in Cookies : stamps[c].age < MaxCookieLifetime => stamps[c] \in Stamps
    BY <2>1, Lifetimes DEF Stamps
  <2>3. issued' = Surviving(stamps)
    BY DEF Pass
  <2> HIDE DEF stamps
  <2> QED
    BY <2>2, <2>3, SurvivingType
<1>5. /\ network' \subseteq PacketSet
      /\ \A x \in network' :
           x.type \in {"Challenge", "Response", "Ack", "Game"} => x.cookie \in Cookies
  <2>1. ASSUME NEW x \in network'
        PROVE  /\ x \in PacketSet
               /\ x.type \in {"Challenge", "Response", "Ack", "Game"} => x.cookie \in Cookies
    <3>1. PICK p \in network : p.age < MaxDelay /\ x = [p EXCEPT !.age = @ + 1]
      BY DEF Pass
    <3>2. p \in PacketSet
          /\ (p.type \in {"Challenge", "Response", "Ack", "Game"} => p.cookie \in Cookies)
      BY DEF TypeInv, CookiesThere
    <3>3. p.age + 1 \in 0 .. MaxDelay
      BY <3>1, <3>2, HandshakeAssumption DEF PacketSet, HandshakeAssumption
    <3> QED
      BY <3>1, <3>2, <3>3 DEF PacketSet
  <2> QED
    BY <2>1
<1> QED
  BY <1>1, <1>2, <1>3, <1>4, <1>5 DEF Pass, TypeInv, CookiesThere

LEMMA NextType ==
  ASSUME TypeInv, [Next]_vars
  PROVE  TypeInv'
<1>1. ASSUME NEW p \in network, Lose(p) PROVE TypeInv'
  BY <1>1, NetworkShrinks DEF Lose, TypeInv, CookiesThere, ClientThere
<1>2. CASE Switch
  BY <1>2, HandshakeAssumption
  DEF Switch, TypeInv, CookiesThere, ClientThere, HandshakeAssumption
<1>3. CASE UNCHANGED vars
  BY <1>3 DEF vars, TypeInv, CookiesThere, ClientThere
<1> QED
  BY <1>1, <1>2, <1>3, ClientStepType, ServerStepType, ClientMoveType, UpdateSecretType,
     PassType
  DEF Next

\* Every variable keeps its type, and cookies are where the protocol puts them: no
\* ack without one, and none is looked up that was never made.
THEOREM TypeCorrect == Spec => []TypeOK
<1>1. Init => TypeInv
  BY TypeInit
<1>2. TypeInv /\ [Next]_vars => TypeInv'
  BY NextType
<1>3. TypeInv => TypeOK
  BY TypeInvImplies
<1> QED
  BY <1>1, <1>2, <1>3, PTL DEF Spec

-----------------------------------------------------------------------------
(* The lifetime of a cookie.                                               *)

\* A cookie is as old as its secret says: it was made with the active one since
\* that became active, or with the other one before.
StampsFit ==
  \A c \in Cookies :
    issued[c].fresh =>
      IF issued[c].secret = secret.active THEN issued[c].age <= secret.age
                                          ELSE issued[c].age >= secret.age

\* No secret is replaced while a young cookie was made with it.
YoungIsFresh ==
  \A c \in Cookies : issued[c].age <= MinCookieLifetime => issued[c].fresh

LifeInv == TypeInv /\ StampsFit /\ YoungIsFresh

LEMMA LifeImplies == LifeInv => CookieLifetime
<1> SUFFICES ASSUME LifeInv, NEW p \in network, p.type \in {"Challenge", "Response"},
                    issued[p.cookie].age <= MinCookieLifetime
             PROVE  ValidResponse(issued[p.cookie].addr, p.cookie)
  BY DEF CookieLifetime
<1>1. p.cookie \in Cookies
  BY DEF LifeInv, TypeInv, CookiesThere
<1>2. issued[p.cookie].age \in Nat /\ secret.age \in Nat
  BY <1>1 DEF LifeInv, TypeInv, Stamps
<1>3. issued[p.cookie].fresh
  BY <1>1 DEF LifeInv, YoungIsFresh
<1>4. issued[p.cookie].age < MaxCookieLifetime
  BY <1>2, Lifetimes
<1> QED
  BY <1>1, <1>2, <1>3, <1>4 DEF ValidResponse, LifeInv, StampsFit

LEMMA LifeInit == Init => LifeInv
<1> SUFFICES ASSUME Init PROVE LifeInv
  OBVIOUS
<1>1. \A c \in Cookies : issued[c] = Dead
  BY DEF Init
<1> QED
  BY <1>1, TypeInit, Lifetimes DEF LifeInv, StampsFit, YoungIsFresh, Dead

\* What time leaves of a record of cookies fits if the record fitted.
LEMMA SurvivingFits ==
  ASSUME NEW stamps, NEW active, NEW age,
         \A c \in Cookies : stamps[c].fresh =>
           IF stamps[c].secret = active THEN stamps[c].age <= age ELSE stamps[c].age >= age,
         \A c \in Cookies : stamps[c].age <= MinCookieLifetime => stamps[c].fresh
  PROVE  /\ \A c \in Cookies : Surviving(stamps)[c].fresh =>
              IF Surviving(stamps)[c].secret = active
                THEN Surviving(stamps)[c].age <= age ELSE Surviving(stamps)[c].age >= age
         /\ \A c \in Cookies : Surviving(stamps)[c].age <= MinCookieLifetime
                                 => Surviving(stamps)[c].fresh
<1> SUFFICES
      ASSUME NEW c \in Cookies
      PROVE  LET s == Surviving(stamps)[c]
             IN  /\ s.fresh => IF s.secret = active THEN s.age <= age ELSE s.age >= age
                 /\ s.age <= MinCookieLifetime => s.fresh
  OBVIOUS
<1> DEFINE s == Surviving(stamps)[c]
<1>1. s = stamps[c] \/ s = Dead
  BY DEF Surviving
<1>2. CASE s = stamps[c]
  BY <1>2
<1>3. CASE s = Dead
  BY <1>3, Lifetimes DEF Dead
<1> QED
  BY <1>1, <1>2, <1>3

LEMMA LifeStep ==
  ASSUME LifeInv, [Next]_vars
  PROVE  LifeInv'
<1>0. TypeInv'
  BY NextType DEF LifeInv
<1>1. /\ issued \in [Cookies -> Stamps]
      /\ secret \in [active: {0, 1}, age: 0 .. MaxCookieLifetime]
  BY DEF LifeInv, TypeInv
<1>2. ASSUME NEW p \in network, ServerChallenges(p) PROVE LifeInv'
  <2>1. PICK c \in CookiesFor(p.addr) : issued' = [issued EXCEPT ![c] = Stamp(p.addr)]
    BY <1>2 DEF ServerChallenges
  <2>2. /\ secret' = secret
        /\ Stamp(p.addr).age <= secret.age
        /\ Stamp(p.addr).secret = secret.active /\ Stamp(p.addr).fresh
    BY <1>1, <1>2, Lifetimes DEF ServerChallenges, Stamp
  <2> QED
    BY <1>0, <1>1, <2>1, <2>2 DEF LifeInv, StampsFit, YoungIsFresh
<1>3. CASE UpdateSecret
  <2> DEFINE stamps == [c \in Cookies |->
                  [issued[c] EXCEPT !.fresh = @ /\ issued[c].secret = secret.active]]
             active == 1 - secret.active
  <2>1. issued' = Surviving(stamps) /\ secret'.active = active /\ secret'.age = 0
    BY <1>3 DEF UpdateSecret
  <2>3. \A c \in Cookies : stamps[c].fresh =>
          IF stamps[c].secret = active THEN stamps[c].age <= 0 ELSE stamps[c].age >= 0
    <3> TAKE c \in Cookies
    <3>1. stamps[c] = [issued[c] EXCEPT
                         !.fresh = issued[c].fresh /\ issued[c].secret = secret.active]
      BY <1>1 DEF Stamps
    <3>2. issued[c] \in Stamps
      BY <1>1
    <3>3. stamps[c].secret = issued[c].secret /\ stamps[c].age \in Nat
      BY <3>1, <3>2, Lifetimes DEF Stamps
    <3>4. stamps[c].fresh = (issued[c].fresh /\ issued[c].secret = secret.active)
      BY <3>1, <3>2 DEF Stamps
    <3>5. secret.active \in {0, 1}
      BY <1>1
    <3> HIDE DEF stamps
    <3>6. stamps[c].fresh => issued[c].secret = secret.active
      BY <3>4, Zenon
    <3>7. issued[c].secret = secret.active => issued[c].secret # active
      BY <3>5
    <3>8. stamps[c].age >= 0
      BY <3>3
    <3> HIDE DEF active
    <3> QED
      BY <3>3, <3>6, <3>7, <3>8, Zenon
  <2>4. \A c \in Cookies : stamps[c].age <= MinCookieLifetime => stamps[c].fresh
    <3> SUFFICES ASSUME NEW c \in Cookies, issued[c].age <= MinCookieLifetime
                 PROVE  stamps[c].fresh
      BY <1>1 DEF Stamps
    <3>1. issued[c].fresh
      BY DEF LifeInv, YoungIsFresh
    <3>2. secret.age > MinCookieLifetime
      BY <1>3 DEF UpdateSecret, MinCookieLifetime
    <3>3. issued[c].secret = secret.active
      BY <1>1, <3>1, <3>2, Lifetimes DEF LifeInv, StampsFit, Stamps
    <3> QED
      BY <1>1, <3>1, <3>3 DEF Stamps
  <2> HIDE DEF stamps, active
  <2> QED
    BY <1>0, <2>1, <2>3, <2>4, SurvivingFits DEF LifeInv, StampsFit, YoungIsFresh
<1>4. CASE Pass
  <2> DEFINE stamps == [c \in Cookies |-> [issued[c] EXCEPT !.age = @ + 1]]
  <2>1. issued' = Surviving(stamps) /\ secret'.active = secret.active
        /\ secret'.age = secret.age + 1
    BY <1>1, <1>4 DEF Pass
  <2>3. \A c \in Cookies : stamps[c].fresh =>
          IF stamps[c].secret = secret.active THEN stamps[c].age <= secret.age + 1
                                              ELSE stamps[c].age >= secret.age + 1
    BY <1>1, Lifetimes DEF Stamps, LifeInv, StampsFit
  <2>4. \A c \in Cookies : stamps[c].age <= MinCookieLifetime => stamps[c].fresh
    BY <1>1, Lifetimes DEF Stamps, LifeInv, YoungIsFresh
  <2> HIDE DEF stamps
  <2> QED
    <3>1. /\ \A c \in Cookies : Surviving(stamps)[c].fresh =>
               IF Surviving(stamps)[c].secret = secret.active
                 THEN Surviving(stamps)[c].age <= secret.age + 1
                 ELSE Surviving(stamps)[c].age >= secret.age + 1
          /\ \A c \in Cookies : Surviving(stamps)[c].age <= MinCookieLifetime
                                  => Surviving(stamps)[c].fresh
      BY <2>3, <2>4, SurvivingFits
    <3> QED
      BY <1>0, <2>1, <3>1 DEF LifeInv, StampsFit, YoungIsFresh
<1>5. CASE UNCHANGED <<issued, secret>>
  BY <1>0, <1>5 DEF LifeInv, StampsFit, YoungIsFresh
<1>6. ASSUME NEW p \in network, ClientReceives(p) \/ Lose(p) PROVE LifeInv'
  BY <1>5, <1>6
  DEF ClientReceives, ClientReceivesChallenge, ClientReceivesAck, ClientReceivesRestart,
      ClientIgnores, Lose
<1>7. ASSUME NEW p \in network, ServerReceives(p) PROVE LifeInv'
  BY <1>2, <1>5, <1>7
  DEF ServerReceives, ServerAccepts, ServerRefuses, ServerRequestsRestart, ConnectionReceives
<1>8. CASE ClientTick \/ ClientSendsGame \/ Switch \/ UNCHANGED vars
  BY <1>5, <1>8 DEF ClientTick, ClientSendsGame, Switch, vars
<1> QED
  BY <1>3, <1>4, <1>6, <1>7, <1>8 DEF Next

\* However the two secrets take turns, a response that comes within
\* MIN_COOKIE_LIFETIME of its challenge passes the server's checks: the time an
\* update leaves the other secret alone is never shorter.
THEOREM CookieAnswerable == Spec => []CookieLifetime
<1>1. Init => LifeInv
  BY LifeInit
<1>2. LifeInv /\ [Next]_vars => LifeInv'
  BY LifeStep
<1>3. LifeInv => CookieLifetime
  BY LifeImplies
<1> QED
  BY <1>1, <1>2, <1>3, PTL DEF Spec

-----------------------------------------------------------------------------
(* One connection.                                                         *)

\* Responses of a first handshake, and of one that is restarted.
First(p) == p.type = "Response" /\ p.orig = None
Again(p) == p.type = "Response" /\ p.orig # None

\* A client that was connected shakes hands only to restart, and one that was not
\* is where it began.
PhaseInv ==
  /\ client.handlerInitialized => client.state = "Initialized" \/ client.bRestartedHandshake
  /\ ~client.handlerInitialized => address = FirstAddress /\ switches = 0

ConnectedInv ==
  IF client.handlerInitialized
    THEN \E a \in Addresses : /\ Holders(client.AuthorisedCookie) = {a}
                              /\ \A b \in Addresses \ {a} : connections[b] = None
    ELSE \A b \in Addresses \ {FirstAddress} : connections[b] = None

\* An ack names the cookie of a connection.
AckInv ==
  \A p \in network :
    p.type = "Ack" => \E a \in Addresses : /\ connections[a] # None
                                           /\ connections[a].cookie = p.cookie

\* What a connected client sends names the cookie it was authorised with.
AuthorisedInv ==
  \A p \in network :
    /\ p.type = "Game" => client.handlerInitialized /\ p.cookie = client.AuthorisedCookie
    /\ Again(p) => client.handlerInitialized /\ p.orig = client.AuthorisedCookie

\* A response of the first handshake is as old as what the client sent last, so none
\* is left at a restart; until then the connection is where it was made.
FirstInv ==
  \A p \in network :
    First(p) => /\ p.addr = FirstAddress
                /\ p.age >= client.sinceSend
                /\ ~client.bRestartedHandshake
                /\ client.handlerInitialized => connections[FirstAddress] # None
                /\ \A q \in network : ~Again(q)

OneInv ==
  TypeInv /\ PhaseInv /\ ConnectedInv /\ AckInv /\ AuthorisedInv /\ FirstInv

LEMMA OneImplies == OneInv => OneConnection /\ SequencesAgree
<1> SUFFICES ASSUME OneInv PROVE OneConnection /\ SequencesAgree
  OBVIOUS
<1>1. OneConnection
  BY DEF OneInv, ConnectedInv, OneConnection
<1>2. ASSUME NEW p \in network, p.type = "Game", connections[p.addr] # None
      PROVE  connections[p.addr].cookie = p.cookie
  <2>1. client.handlerInitialized /\ p.cookie = client.AuthorisedCookie
    BY <1>2 DEF OneInv, AuthorisedInv
  <2>2. PICK a \in Addresses : /\ Holders(client.AuthorisedCookie) = {a}
                               /\ \A b \in Addresses \ {a} : connections[b] = None
    BY <2>1 DEF OneInv, ConnectedInv
  <2>3. p.addr \in Addresses
    BY DEF OneInv, TypeInv, PacketSet
  <2>4. p.addr \in Holders(client.AuthorisedCookie)
    BY <1>2, <2>2, <2>3
  <2> QED
    BY <2>1, <2>4 DEF Holders
<1> QED
  BY <1>1, <1>2 DEF SequencesAgree

LEMMA OneInit == Init => OneInv
<1> SUFFICES ASSUME Init PROVE OneInv
  OBVIOUS
<1>1. /\ ~client.handlerInitialized
      /\ address = FirstAddress /\ switches = 0
      /\ \A a \in Addresses : connections[a] = None
      /\ \A p \in network : p.type = "Initial"
  BY DEF Init, Packet
<1> QED
  BY <1>1, TypeInit
  DEF OneInv, PhaseInv, ConnectedInv, AckInv, AuthorisedInv, FirstInv, First, Again

\* A step that leaves the client and the cookies of the connections alone, and sends
\* nothing but what is in order.
LEMMA QuietOne ==
  ASSUME OneInv, TypeInv', UNCHANGED <<client, address, switches>>,
         \A a \in Addresses :
           /\ (connections'[a] = None) <=> (connections[a] = None)
           /\ connections[a] # None => connections'[a].cookie = connections[a].cookie,
         \A x \in network' :
           \/ x \in network
           \/ x.type \in {"Challenge", "RestartRequest"}
           \/ x.type = "Ack" /\ \E a \in Addresses : /\ connections[a] # None
                                                    /\ connections[a].cookie = x.cookie
           \/ /\ x.type = "Game" /\ client.handlerInitialized
              /\ x.cookie = client.AuthorisedCookie
  PROVE  OneInv'
<1>1. PhaseInv'
  BY DEF OneInv, PhaseInv
<1>2. Holders(client.AuthorisedCookie)' = Holders(client.AuthorisedCookie)
  BY DEF Holders
<1>3. ConnectedInv'
  <2>1. CASE client.handlerInitialized
    <3>1. PICK a \in Addresses : /\ Holders(client.AuthorisedCookie) = {a}
                                 /\ \A b \in Addresses \ {a} : connections[b] = None
      BY <2>1 DEF OneInv, ConnectedInv
    <3> QED
      BY <1>2, <2>1, <3>1 DEF ConnectedInv
  <2>2. CASE ~client.handlerInitialized
    BY <2>2 DEF OneInv, ConnectedInv
  <2> QED
    BY <2>1, <2>2
<1>4. AckInv'
  BY DEF OneInv, AckInv
<1>5. AuthorisedInv'
  BY DEF OneInv, AuthorisedInv, Again
<1>6. FirstInv'
  BY HandshakeAssumption DEF HandshakeAssumption, OneInv, FirstInv, First, Again
<1> QED
  BY <1>1, <1>3, <1>4, <1>5, <1>6 DEF OneInv

\* The client sends an initial packet or a response.
LEMMA AskingOne ==
  ASSUME OneInv, TypeInv', UNCHANGED <<address, connections, switches>>,
         client.state # "Initialized",
         client'.handlerInitialized = client.handlerInitialized,
         client'.bRestartedHandshake = client.bRestartedHandshake,
         client'.AuthorisedCookie = client.AuthorisedCookie,
         client'.sinceSend = 0,
         \A x \in network' :
           x \in network \/ x = InitialPacket \/ \E c \in Cookies : x = ResponsePacket(c)
  PROVE  OneInv'
<1>1. client.handlerInitialized <=> client.bRestartedHandshake
  BY DEF OneInv, PhaseInv, TypeInv, CookiesThere, ClientThere
<1>2. ~client.handlerInitialized => address = FirstAddress
  BY DEF OneInv, PhaseInv
<1>3. PhaseInv'
  BY <1>1 DEF OneInv, PhaseInv
<1>4. ConnectedInv'
  BY DEF OneInv, ConnectedInv, Holders
<1>5. client.handlerInitialized => client.AuthorisedCookie # None
  BY HandshakeAssumption
  DEF HandshakeAssumption, OneInv, TypeInv, CookiesThere, ClientThere
<1>6. ASSUME NEW x \in network'
      PROVE  \/ x \in network
             \/ x.type = "Initial"
             \/ /\ x.type = "Response" /\ x.addr = address /\ x.age = 0
                /\ x.orig = IF client.bRestartedHandshake THEN client.AuthorisedCookie
                            ELSE None
  BY DEF InitialPacket, ResponsePacket, Packet
<1>7. AckInv'
  BY <1>6 DEF OneInv, AckInv
<1>8. AuthorisedInv'
  BY <1>1, <1>6 DEF OneInv, AuthorisedInv, Again
<1>9. FirstInv'
  <2> SUFFICES ASSUME NEW p \in network', First(p)
               PROVE  /\ p.addr = FirstAddress
                      /\ p.age >= 0
                      /\ ~client.bRestartedHandshake
                      /\ client.handlerInitialized => connections[FirstAddress] # None
                      /\ \A q \in network' : ~Again(q)
    BY DEF FirstInv
  <2>1. p.age >= 0
    BY HandshakeAssumption DEF HandshakeAssumption, TypeInv, PacketSet
  <2>2. ~client.bRestartedHandshake
    BY <1>1, <1>5, <1>6 DEF OneInv, FirstInv, First
  <2>3. \A q \in network' : ~Again(q)
    BY <1>1, <1>6, <2>2 DEF OneInv, AuthorisedInv, Again
  <2>4. p.addr = FirstAddress
    BY <1>1, <1>2, <1>6, <2>2 DEF OneInv, FirstInv, First
  <2> QED
    BY <1>1, <2>1, <2>2, <2>3, <2>4
<1> QED
  BY <1>3, <1>4, <1>7, <1>8, <1>9 DEF OneInv

LEMMA ClientStepOne ==
  ASSUME PromptPackets, OneInv, TypeInv', NEW p \in network, ClientReceives(p)
  PROVE  OneInv'
<1>0. client \in ClientSet /\ p \in PacketSet
  BY DEF OneInv, TypeInv
<1>1. CASE ClientReceivesChallenge(p)
  <2>1. p.cookie \in Cookies
    BY <1>1 DEF ClientReceivesChallenge, OneInv, TypeInv, CookiesThere
  <2>2. /\ client.state # "Initialized"
        /\ UNCHANGED <<address, connections, switches>>
        /\ client' = [client EXCEPT !.state = "InitializedOnLocal", !.LastCookie = p.cookie,
                                    !.sinceSend = 0, !.sinceChallenge = 0]
    BY <1>1 DEF ClientReceivesChallenge
  <2>3. \A x \in network' : x \in network \/ x = ResponsePacket(p.cookie)
    BY <1>1, PutSubset DEF ClientReceivesChallenge, After
  <2> QED
    BY <1>0, <2>1, <2>2, <2>3, AskingOne DEF ClientSet
<1>2. CASE ClientReceivesAck(p)
  <2>1. /\ client.state # "Initialized"
        /\ network' \subseteq network
        /\ UNCHANGED <<address, connections, switches>>
    BY <1>2 DEF ClientReceivesAck, After
  <2>2. /\ client'.handlerInitialized /\ ~client'.bRestartedHandshake
        /\ client'.state = "Initialized" /\ client'.sinceSend = client.sinceSend
        /\ client'.AuthorisedCookie =
             IF client.bRestartedHandshake THEN client.AuthorisedCookie ELSE p.cookie
    BY <1>0, <1>2 DEF ClientReceivesAck, Acknowledged, ClientSet
  <2>3. client.handlerInitialized <=> client.bRestartedHandshake
    BY <2>1 DEF OneInv, PhaseInv, TypeInv, CookiesThere, ClientThere
  <2>4. PICK b \in Addresses : connections[b] # None /\ connections[b].cookie = p.cookie
    BY <1>2 DEF ClientReceivesAck, OneInv, AckInv
  <2>5. CASE client.handlerInitialized
    <3>1. client'.AuthorisedCookie = client.AuthorisedCookie
      BY <2>2, <2>3, <2>5
    <3>2. ConnectedInv'
      BY <2>1, <2>2, <2>5, <3>1 DEF OneInv, ConnectedInv, Holders
    <3>3. FirstInv'
      BY <2>1, <2>3, <2>5 DEF OneInv, FirstInv
    <3> QED
      BY <2>1, <2>2, <2>5, <3>1, <3>2, <3>3
      DEF OneInv, PhaseInv, AckInv, AuthorisedInv
  <2>6. CASE ~client.handlerInitialized
    <3>1. \A a \in Addresses \ {FirstAddress} : connections[a] = None
      BY <2>6 DEF OneInv, ConnectedInv
    <3>2. b = FirstAddress
      BY <2>4, <3>1
    <3>3. client'.AuthorisedCookie = p.cookie
      BY <2>2, <2>3, <2>6
    <3>4. Holders(client.AuthorisedCookie)' = {FirstAddress}
      BY <2>1, <2>4, <3>1, <3>2, <3>3 DEF Holders
    <3>5. ConnectedInv'
      BY <2>1, <2>2, <3>1, <3>2, <3>4 DEF ConnectedInv
    <3>6. FirstInv'
      BY <2>1, <2>2, <2>4, <2>6, <3>2 DEF OneInv, FirstInv
    <3> QED
      BY <2>1, <2>2, <2>6, <3>5, <3>6 DEF OneInv, PhaseInv, AckInv, AuthorisedInv
  <2> QED
    BY <2>5, <2>6
<1>3. CASE ClientReceivesRestart(p)
  <2>1. /\ client.state = "Initialized" /\ client.sinceSend > RestartDelay
        /\ UNCHANGED <<address, connections, switches>>
    BY <1>3 DEF ClientReceivesRestart, AcceptsRestart
  <2>2. /\ client'.handlerInitialized = client.handlerInitialized
        /\ client'.bRestartedHandshake
        /\ client'.AuthorisedCookie = client.AuthorisedCookie
    BY <1>0, <1>3 DEF ClientReceivesRestart, ClientSet
  <2>3. client.handlerInitialized
    BY <2>1 DEF OneInv, TypeInv, CookiesThere, ClientThere
  <2>4. \A x \in network' : x \in network \/ x.type = "Initial"
    BY <1>3, PutSubset DEF ClientReceivesRestart, After, InitialPacket, Packet
  <2>5. \A x \in network : ~First(x)
    <3> SUFFICES ASSUME NEW x \in network, First(x) PROVE FALSE
      OBVIOUS
    <3>1. x.age \in 0 .. MaxDelay
      BY DEF OneInv, TypeInv, PacketSet
    <3>2. client.sinceSend \in Nat
      BY <1>0, HandshakeAssumption DEF ClientSet, MaxTime, HandshakeAssumption
    <3>3. x.age >= client.sinceSend
      BY DEF OneInv, FirstInv
    <3> QED
      BY <2>1, <3>1, <3>2, <3>3, HandshakeAssumption DEF HandshakeAssumption, PromptPackets
  <2>6. ConnectedInv'
    BY <2>1, <2>2 DEF OneInv, ConnectedInv, Holders
  <2>7. AckInv' /\ AuthorisedInv' /\ FirstInv'
    BY <2>1, <2>2, <2>4, <2>5 DEF OneInv, AckInv, AuthorisedInv, FirstInv, First, Again
  <2> QED
    BY <2>1, <2>2, <2>3, <2>6, <2>7 DEF OneInv, PhaseInv
<1>4. CASE ClientIgnores(p)
  BY <1>4, QuietOne DEF ClientIgnores
<1> QED
  BY <1>1, <1>2, <1>3, <1>4 DEF ClientReceives

LEMMA ClientMoveOne ==
  ASSUME OneInv, TypeInv', ClientTick \/ ClientSendsGame
  PROVE  OneInv'
<1>0. client \in ClientSet
  BY DEF OneInv, TypeInv
<1>1. CASE ClientTick
  <2>1. PICK s \in {"UnInitialized", client.state} :
          /\ client' = [client EXCEPT !.state = s, !.sinceSend = 0]
          /\ network' = Put(network, IF s = "UnInitialized" THEN InitialPacket
                                     ELSE ResponsePacket(client.LastCookie))
    BY <1>1 DEF ClientTick
  <2>2. /\ client.state # "Initialized"
        /\ UNCHANGED <<address, connections, switches>>
    BY <1>1 DEF ClientTick
  <2>3. s # "UnInitialized" => client.LastCookie \in Cookies
    BY <1>0, <2>2 DEF ClientSet, ClientThere, OneInv, TypeInv, CookiesThere
  <2>4. \A x \in network' :
          x \in network \/ x = InitialPacket \/ \E c \in Cookies : x = ResponsePacket(c)
    BY <2>1, <2>3, PutSubset
  <2> QED
    BY <1>0, <2>1, <2>2, <2>4, AskingOne DEF ClientSet
<1>2. CASE ClientSendsGame
  <2>1. \A x \in network' :
          x \in network \/ (x.type = "Game" /\ x.cookie = client.AuthorisedCookie)
    BY <1>2, PutSubset DEF ClientSendsGame, Packet
  <2> QED
    BY <1>2, <2>1, QuietOne DEF ClientSendsGame
<1> QED
  BY <1>1, <1>2

LEMMA AcceptsOne ==
  ASSUME OneInv, TypeInv', NEW p \in network, ServerAccepts(p)
  PROVE  OneInv'
<1>0. /\ p \in PacketSet /\ p.addr \in Addresses
      /\ connections \in [Addresses -> {None} \cup ConnectionSet]
  BY DEF OneInv, TypeInv, PacketSet
<1>1. /\ p.type = "Response" /\ connections[p.addr] = None
      /\ connections' \in Accepted(p.addr, p.cookie, p.orig)
      /\ UNCHANGED <<client, address, switches>>
  BY DEF ServerAccepts
<1>2. \A x \in network' :
        \/ x \in network
        \/ x.type = "Ack" /\ x.cookie = IF p.orig = None THEN p.cookie ELSE p.orig
  BY PutSubset DEF ServerAccepts, After, Packet
<1>3. PhaseInv'
  BY <1>1 DEF OneInv, PhaseInv
<1>4. AuthorisedInv'
  BY <1>1, <1>2 DEF OneInv, AuthorisedInv, Again
<1>5. CASE p.orig = None
  <2>1. p.addr = FirstAddress /\ ~client.handlerInitialized
    BY <1>1, <1>5 DEF OneInv, FirstInv, First
  <2>2. \A a \in Addresses : connections[a] = None
    BY <1>1, <2>1 DEF OneInv, ConnectedInv
  <2>3. connections' = [connections EXCEPT ![p.addr] = [cookie |-> p.cookie, ackTo |-> p.addr]]
    BY <1>1, <1>5 DEF Accepted
  <2>4. connections'[p.addr].cookie = p.cookie /\ connections'[p.addr] # None
    <3>1. connections'[p.addr] = [cookie |-> p.cookie, ackTo |-> p.addr]
      BY <1>0, <2>3
    <3>2. [cookie |-> p.cookie, ackTo |-> p.addr] \in [cookie: Cookies, ackTo: Addresses \cup {None}]
      BY <1>0, <1>1 DEF OneInv, TypeInv, CookiesThere
    <3>3. connections'[p.addr] # None
      BY <3>2, <3>1, HandshakeAssumption DEF HandshakeAssumption
    <3> QED
      BY <3>1, <3>3
  <2>5. ConnectedInv'
    BY <1>0, <1>1, <2>1, <2>2, <2>3 DEF ConnectedInv
  <2>6. AckInv'
    BY <1>0, <1>2, <1>5, <2>2, <2>4 DEF OneInv, AckInv
  <2>7. FirstInv'
    BY <1>1, <1>2, <2>1 DEF OneInv, FirstInv, First, Again
  <2> QED
    BY <1>3, <1>4, <2>5, <2>6, <2>7 DEF OneInv
<1>6. CASE p.orig # None
  <2>1. client.handlerInitialized /\ p.orig = client.AuthorisedCookie
    BY <1>1, <1>6 DEF OneInv, AuthorisedInv, Again
  <2>2. PICK a \in Addresses : /\ Holders(client.AuthorisedCookie) = {a}
                               /\ \A b \in Addresses \ {a} : connections[b] = None
    BY <2>1 DEF OneInv, ConnectedInv
  <2>3. connections[a] # None /\ connections[a].cookie = p.orig
    BY <2>1, <2>2 DEF Holders
  <2>4. connections' = [connections EXCEPT ![a] = None, ![p.addr] = connections[a]]
    BY <1>1, <1>6, <2>1, <2>2 DEF Accepted
  <2>5. a # p.addr
    BY <1>1, <2>3
  <2>6. /\ connections'[p.addr] = connections[a]
        /\ \A b \in Addresses \ {p.addr} : connections'[b] = None
    BY <1>0, <2>2, <2>4, <2>5
  <2>7. Holders(client.AuthorisedCookie)' = {p.addr}
    BY <1>0, <1>1, <2>1, <2>3, <2>6 DEF Holders
  <2>8. ConnectedInv'
    BY <1>0, <1>1, <2>1, <2>6, <2>7 DEF ConnectedInv
  <2>9. \A x \in network' : x.type = "Ack" => x.cookie = p.orig
    BY <1>2, <1>6, <2>2, <2>3 DEF OneInv, AckInv
  <2>10. AckInv'
    BY <1>0, <2>3, <2>6, <2>9 DEF AckInv
  <2>11. FirstInv'
    BY <1>1, <1>2, <1>6 DEF OneInv, FirstInv, First, Again
  <2> QED
    BY <1>3, <1>4, <2>8, <2>10, <2>11 DEF OneInv
<1> QED
  BY <1>5, <1>6

LEMMA ServerStepOne ==
  ASSUME OneInv, TypeInv', NEW p \in network, ServerReceives(p)
  PROVE  OneInv'
<1>0. /\ p.addr \in Addresses
      /\ connections \in [Addresses -> {None} \cup ConnectionSet]
  BY DEF OneInv, TypeInv, PacketSet
<1>1. CASE ServerChallenges(p)
  <2>1. \A x \in network' : x \in network \/ x.type = "Challenge"
    BY <1>1, PutSubset DEF ServerChallenges, After, Packet
  <2> QED
    BY <1>1, <2>1, QuietOne DEF ServerChallenges
<1>2. CASE ServerAccepts(p)
  BY <1>2, AcceptsOne
<1>3. CASE ServerRefuses(p)
  BY <1>3, QuietOne DEF ServerRefuses
<1>4. CASE ServerRequestsRestart(p)
  <2>1. \A x \in network' : x \in network \/ x.type = "RestartRequest"
    BY <1>4, PutSubset DEF ServerRequestsRestart, After, Packet
  <2> QED
    BY <1>4, <2>1, QuietOne DEF ServerRequestsRestart
<1>5. CASE ConnectionReceives(p)
  <2>1. connections[p.addr] # None /\ UNCHANGED <<client, address, switches>>
    BY <1>5 DEF ConnectionReceives
  <2>2. CASE p.type = "Game"
    <3>1. connections' = [connections EXCEPT ![p.addr].ackTo = None]
      BY <1>5, <2>2 DEF ConnectionReceives
    <3>2. \A a \in Addresses :
            /\ (connections'[a] = None) <=> (connections[a] = None)
            /\ connections[a] # None => connections'[a].cookie = connections[a].cookie
      <4>1. connections[p.addr] \in ConnectionSet
        BY <1>0, <2>1
      <4>2. /\ connections'[p.addr] = [connections[p.addr] EXCEPT !.ackTo = None]
            /\ \A a \in Addresses : a # p.addr => connections'[a] = connections[a]
        BY <1>0, <3>1
      <4>3. connections'[p.addr].cookie = connections[p.addr].cookie
        BY <4>1, <4>2 DEF ConnectionSet
      <4>4. connections'[p.addr] # None
        BY <4>1, <4>2, HandshakeAssumption DEF ConnectionSet, HandshakeAssumption
      <4> QED
        BY <2>1, <4>2, <4>3, <4>4
    <3>3. network' \subseteq network
      BY <1>5, <2>2 DEF ConnectionReceives, After
    <3> QED
      BY <2>1, <3>2, <3>3, QuietOne
  <2>3. CASE p.type # "Game"
    <3>1. \A x \in network' :
            \/ x \in network
            \/ x.type = "Ack" /\ x.cookie = connections[p.addr].cookie
      BY <1>5, <2>3, PutSubset DEF ConnectionReceives, After, Packet
    <3>2. connections' = connections
      BY <1>5, <2>3 DEF ConnectionReceives
    <3> QED
      BY <1>0, <2>1, <3>1, <3>2, QuietOne
  <2> QED
    BY <2>2, <2>3
<1> QED
  BY <1>1, <1>2, <1>3, <1>4, <1>5 DEF ServerReceives

LEMMA PassOne ==
  ASSUME OneInv, TypeInv', Pass
  PROVE  OneInv'
<1>1. UNCHANGED <<address, connections, switches>>
  BY DEF Pass
<1>2. /\ client'.state = client.state
      /\ client'.handlerInitialized = client.handlerInitialized
      /\ client'.bRestartedHandshake = client.bRestartedHandshake
      /\ client'.AuthorisedCookie = client.AuthorisedCookie
      /\ client'.sinceSend = Older(client.sinceSend, RestartDelay)
  BY DEF Pass, OneInv, TypeInv, ClientSet
<1>3. ASSUME NEW x \in network'
      PROVE  \E p \in network : /\ x.type = p.type /\ x.addr = p.addr /\ x.cookie = p.cookie
                                /\ x.orig = p.orig /\ x.age = p.age + 1
  BY DEF Pass, OneInv, TypeInv, PacketSet
<1>4. PhaseInv' /\ ConnectedInv'
  BY <1>1, <1>2 DEF OneInv, PhaseInv, ConnectedInv, Holders
<1>5. AckInv'
  BY <1>1, <1>3 DEF OneInv, AckInv
<1>6. AuthorisedInv'
  BY <1>2, <1>3 DEF OneInv, AuthorisedInv, Again
<1>7. FirstInv'
  <2> SUFFICES ASSUME NEW x \in network', First(x)
               PROVE  /\ x.addr = FirstAddress
                      /\ x.age >= client'.sinceSend
                      /\ ~client.bRestartedHandshake
                      /\ client.handlerInitialized => connections[FirstAddress] # None
                      /\ \A q \in network' : ~Again(q)
    BY <1>1, <1>2 DEF FirstInv
  <2>1. PICK p \in network : /\ x.type = p.type /\ x.addr = p.addr /\ x.cookie = p.cookie
                             /\ x.orig = p.orig /\ x.age = p.age + 1
    BY <1>3
  <2>2. First(p)
    BY <2>1 DEF First
  <2>3. p.age >= client.sinceSend
    BY <2>2 DEF OneInv, FirstInv
  <2>4. p.age \in Nat /\ client.sinceSend \in Nat
    BY HandshakeAssumption
    DEF OneInv, TypeInv, PacketSet, ClientSet, MaxTime, HandshakeAssumption
  <2>5. x.age >= client'.sinceSend
    BY <1>2, <2>1, <2>3, <2>4 DEF Older
  <2>6. \A q \in network' : ~Again(q)
    BY <1>3, <2>2 DEF OneInv, FirstInv, Again
  <2> QED
    BY <2>1, <2>2, <2>5, <2>6 DEF OneInv, FirstInv
<1> QED
  BY <1>4, <1>5, <1>6, <1>7 DEF OneInv

LEMMA OneStep ==
  ASSUME PromptPackets, OneInv, [Next]_vars
  PROVE  OneInv'
<1>0. TypeInv'
  BY NextType DEF OneInv
<1>1. ASSUME NEW p \in network, Lose(p) PROVE OneInv'
  BY <1>0, <1>1, QuietOne DEF Lose
<1>2. CASE UpdateSecret
  BY <1>0, <1>2, QuietOne DEF UpdateSecret
<1>3. CASE Switch
  <2>1. /\ client.handlerInitialized
        /\ UNCHANGED <<client, connections, network>>
    BY <1>3 DEF Switch
  <2> QED
    BY <1>0, <2>1
    DEF OneInv, PhaseInv, ConnectedInv, AckInv, AuthorisedInv, FirstInv, Holders
<1>4. CASE UNCHANGED vars
  BY <1>0, <1>4, QuietOne DEF vars
<1> QED
  BY <1>0, <1>1, <1>2, <1>3, <1>4, ClientStepOne, ServerStepOne, ClientMoveOne, PassOne
  DEF Next

\* Once the client is connected there is exactly one connection, and it has the
\* client's cookie: neither late responses of the first handshake nor those of a
\* restart make a second one.  That no packet outlives the time between two restarts
\* is a hypothesis: the code accepts cookies that are older.
THEOREM Moves ==
  ASSUME PromptPackets
  PROVE  Spec => []OneConnection
<1>1. Init => OneInv
  BY OneInit
<1>2. OneInv /\ [Next]_vars => OneInv'
  BY OneStep
<1>3. OneInv => OneConnection
  BY OneImplies
<1> QED
  BY <1>1, <1>2, <1>3, PTL DEF Spec

\* A packet of the game that comes to a connection carries its sequence numbers,
\* under the same hypothesis.
THEOREM InSequence ==
  ASSUME PromptPackets
  PROVE  Spec => []SequencesAgree
<1>1. Init => OneInv
  BY OneInit
<1>2. OneInv /\ [Next]_vars => OneInv'
  BY OneStep
<1>3. OneInv => SequencesAgree
  BY OneImplies
<1> QED
  BY <1>1, <1>2, <1>3, PTL DEF Spec

-----------------------------------------------------------------------------
(* Where the connection is.                                                *)

\* A packet that makes the server or a connection answer.
Asks(p) == p.type \in {"Initial", "Response"}

\* The address has not changed yet, or the connection has not followed.
Unmoved == switches = 0 \/ (switches = 1 /\ connections[address] = None)

\* Until the address changes nothing comes from another, and nobody asks for a
\* restart.
StayInv ==
  switches = 0 =>
    /\ ~client.bRestartedHandshake /\ address = FirstAddress
    /\ \A b \in Addresses \ {FirstAddress} : connections[b] = None
    /\ \A p \in network : /\ p.type # "RestartRequest"
                          /\ p.type \in ToServer => p.addr = FirstAddress

\* The connection is not called elsewhere.
AgainInv ==
  switches <= 1 => \A p \in network : Again(p) => switches = 1 /\ p.addr = address

\* Before the restart the packets of the first handshake, and what they were
\* answered with, are so old that none of them is left when it begins; then there
\* is no ack until the connection has moved.
UnmovedInv ==
  Unmoved =>
    \A p \in network :
      IF client.bRestartedHandshake
        THEN p.type # "Ack" /\ (Asks(p) => p.addr = address)
        ELSE /\ Asks(p) => p.age >= client.sinceSend
             /\ p.type = "Ack" => p.age + MaxDelay >= client.sinceSend

MovedInv == OneInv /\ StayInv /\ AgainInv /\ UnmovedInv

\* The ages that count as numbers.
LEMMA Ages ==
  ASSUME TypeInv
  PROVE  /\ \A p \in network : p.age \in Nat /\ p.age <= MaxDelay
         /\ client.sinceSend \in Nat
         /\ switches \in Nat
BY HandshakeAssumption DEF TypeInv, PacketSet, ClientSet, MaxTime, HandshakeAssumption

\* Before the address changes a connected client's connection is there.
LEMMA AtHome ==
  ASSUME MovedInv, switches = 0, client.handlerInitialized
  PROVE  connections[FirstAddress] # None
<1>1. PICK a \in Addresses : Holders(client.AuthorisedCookie) = {a}
  BY DEF MovedInv, OneInv, ConnectedInv
<1>2. connections[a] # None
  BY <1>1 DEF Holders
<1> QED
  BY <1>2 DEF MovedInv, StayInv

LEMMA MovedInit == Init => MovedInv
<1> SUFFICES ASSUME Init PROVE MovedInv
  OBVIOUS
<1>1. /\ ~client.bRestartedHandshake /\ client.sinceSend = 0
      /\ address = FirstAddress /\ switches = 0
      /\ \A a \in Addresses : connections[a] = None
      /\ \A p \in network : p.type = "Initial" /\ p.addr = FirstAddress /\ p.age = 0
  BY DEF Init, Packet
<1> QED
  BY <1>1, OneInit DEF MovedInv, StayInv, AgainInv, UnmovedInv, Again

\* A step that leaves the client and the places of the connections alone.
LEMMA QuietMoved ==
  ASSUME MovedInv, OneInv', UNCHANGED <<client, address, switches>>,
         \A a \in Addresses : (connections'[a] = None) <=> (connections[a] = None),
         \A x \in network' :
           \/ x \in network
           \/ x.type = "Challenge"
           \/ x.type = "RestartRequest" /\ switches # 0
           \/ x.type = "Game" /\ x.addr = address
           \/ /\ x.type = "Ack" /\ x.age = 0
              /\ \E p \in network : Asks(p) /\ connections[p.addr] # None
  PROVE  MovedInv'
<1>1. StayInv'
  BY DEF MovedInv, StayInv, ToServer
<1>2. AgainInv'
  BY DEF MovedInv, AgainInv, Again
<1>3. UnmovedInv'
  <2> SUFFICES ASSUME Unmoved', NEW x \in network'
               PROVE  IF client.bRestartedHandshake
                        THEN x.type # "Ack" /\ (Asks(x) => x.addr = address)
                        ELSE /\ Asks(x) => x.age >= client.sinceSend
                             /\ x.type = "Ack" => x.age + MaxDelay >= client.sinceSend
    BY DEF UnmovedInv
  <2>1. Unmoved
    BY DEF Unmoved, MovedInv, OneInv, TypeInv
  <2>2. CASE x \in network
    BY <2>1, <2>2 DEF MovedInv, UnmovedInv
  <2>3. CASE x \notin network /\ x.type = "Ack"
    <3>1. PICK p \in network : Asks(p) /\ connections[p.addr] # None
      BY <2>3
    <3>2. ~client.bRestartedHandshake
      BY <2>1, <3>1 DEF MovedInv, UnmovedInv, StayInv, Unmoved
    <3>3. p.age >= client.sinceSend /\ x.age = 0
      BY <2>1, <2>3, <3>1, <3>2 DEF MovedInv, UnmovedInv
    <3>4. MaxDelay >= client.sinceSend
      BY <3>3, Ages, HandshakeAssumption DEF MovedInv, OneInv, HandshakeAssumption
    <3> QED
      BY <2>3, <3>2, <3>3, <3>4, HandshakeAssumption DEF Asks, HandshakeAssumption
  <2>4. CASE x \notin network /\ x.type # "Ack"
    BY <2>4 DEF Asks
  <2> QED
    BY <2>2, <2>3, <2>4
<1> QED
  BY <1>1, <1>2, <1>3 DEF MovedInv

\* The client sends an initial packet or a response.
LEMMA AskingMoved ==
  ASSUME MovedInv, OneInv', UNCHANGED <<address, connections, switches>>,
         client'.bRestartedHandshake = client.bRestartedHandshake,
         client'.sinceSend = 0,
         \A x \in network' :
           x \in network \/ x = InitialPacket \/ \E c \in Cookies : x = ResponsePacket(c)
  PROVE  MovedInv'
<1>1. ASSUME NEW x \in network'
      PROVE  \/ x \in network
             \/ /\ x.type \in {"Initial", "Response"} /\ x.addr = address /\ x.age = 0
                /\ x.orig # None => client.bRestartedHandshake
  BY DEF InitialPacket, ResponsePacket, Packet
<1>2. StayInv'
  BY <1>1 DEF MovedInv, StayInv, ToServer
<1>3. AgainInv'
  BY <1>1, Ages DEF MovedInv, OneInv, AgainInv, StayInv, Again
<1>4. UnmovedInv'
  <2> SUFFICES ASSUME Unmoved', NEW x \in network'
               PROVE  IF client.bRestartedHandshake
                        THEN x.type # "Ack" /\ (Asks(x) => x.addr = address)
                        ELSE /\ Asks(x) => x.age >= 0
                             /\ x.type = "Ack" => x.age + MaxDelay >= 0
    BY DEF UnmovedInv
  <2>1. Unmoved
    BY DEF Unmoved
  <2>2. x.age \in Nat /\ MaxDelay \in Nat
    BY HandshakeAssumption DEF OneInv, TypeInv, PacketSet, HandshakeAssumption
  <2> QED
    BY <1>1, <2>1, <2>2 DEF MovedInv, UnmovedInv
<1> QED
  BY <1>2, <1>3, <1>4 DEF MovedInv

LEMMA ClientStepMoved ==
  ASSUME PromptAnswers, MovedInv, OneInv', NEW p \in network, ClientReceives(p)
  PROVE  MovedInv'
<1>0. client \in ClientSet
  BY DEF MovedInv, OneInv, TypeInv
<1>1. CASE ClientReceivesChallenge(p)
  <2>1. p.cookie \in Cookies
    BY <1>1 DEF ClientReceivesChallenge, MovedInv, OneInv, TypeInv, CookiesThere
  <2>2. \A x \in network' : x \in network \/ x = ResponsePacket(p.cookie)
    BY <1>1, PutSubset DEF ClientReceivesChallenge, After
  <2>3. /\ UNCHANGED <<address, connections, switches>>
        /\ client'.bRestartedHandshake = client.bRestartedHandshake
        /\ client'.sinceSend = 0
    BY <1>0, <1>1 DEF ClientReceivesChallenge, ClientSet
  <2> QED
    BY <2>1, <2>2, <2>3, AskingMoved
<1>2. CASE ClientReceivesAck(p)
  <2>1. /\ network' \subseteq network
        /\ UNCHANGED <<address, connections, switches>>
        /\ p.type = "Ack"
    BY <1>2 DEF ClientReceivesAck, After
  <2>2. ~client'.bRestartedHandshake /\ client'.sinceSend = client.sinceSend
    BY <1>0, <1>2 DEF ClientReceivesAck, Acknowledged, ClientSet
  <2>3. Unmoved => ~client.bRestartedHandshake
    BY <2>1 DEF MovedInv, UnmovedInv
  <2>4. UnmovedInv'
    BY <2>1, <2>2, <2>3 DEF MovedInv, UnmovedInv, Unmoved
  <2> QED
    BY <2>1, <2>2, <2>4 DEF MovedInv, StayInv, AgainInv
<1>3. CASE ClientReceivesRestart(p)
  <2>1. /\ ~client.bRestartedHandshake /\ client.sinceSend > RestartDelay
        /\ UNCHANGED <<address, connections, switches>>
        /\ p.type = "RestartRequest"
    BY <1>3 DEF ClientReceivesRestart, AcceptsRestart
  <2>2. client'.bRestartedHandshake
    BY <1>0, <1>3 DEF ClientReceivesRestart, ClientSet
  <2>3. \A x \in network' :
          x \in network \/ (x.type = "Initial" /\ x.addr = address /\ x.orig = None)
    BY <1>3, PutSubset DEF ClientReceivesRestart, After, InitialPacket, Packet
  <2>4. switches # 0
    BY <2>1 DEF MovedInv, StayInv
  <2>5. ASSUME Unmoved, NEW x \in network PROVE x.type # "Ack" /\ ~Asks(x)
    <3>1. x.age \in Nat /\ x.age <= MaxDelay /\ client.sinceSend \in Nat
      BY Ages DEF MovedInv, OneInv
    <3>2. /\ Asks(x) => x.age >= client.sinceSend
          /\ x.type = "Ack" => x.age + MaxDelay >= client.sinceSend
      BY <2>1, <2>5 DEF MovedInv, UnmovedInv
    <3> QED
      BY <2>1, <3>1, <3>2, HandshakeAssumption DEF HandshakeAssumption, PromptAnswers
  <2>6. UnmovedInv'
    BY <2>1, <2>2, <2>3, <2>5 DEF UnmovedInv, Unmoved
  <2>7. AgainInv'
    BY <2>1, <2>3 DEF MovedInv, AgainInv, Again
  <2> QED
    BY <2>1, <2>4, <2>6, <2>7 DEF MovedInv, StayInv
<1>4. CASE ClientIgnores(p)
  BY <1>4, QuietMoved DEF ClientIgnores
<1> QED
  BY <1>1, <1>2, <1>3, <1>4 DEF ClientReceives

LEMMA ClientMoveMoved ==
  ASSUME MovedInv, OneInv', ClientTick \/ ClientSendsGame
  PROVE  MovedInv'
<1>0. client \in ClientSet
  BY DEF MovedInv, OneInv, TypeInv
<1>1. CASE ClientTick
  <2>1. PICK s \in {"UnInitialized", client.state} :
          /\ client' = [client EXCEPT !.state = s, !.sinceSend = 0]
          /\ network' = Put(network, IF s = "UnInitialized" THEN InitialPacket
                                     ELSE ResponsePacket(client.LastCookie))
    BY <1>1 DEF ClientTick
  <2>2. client.state # "Initialized" /\ UNCHANGED <<address, connections, switches>>
    BY <1>1 DEF ClientTick
  <2>3. s # "UnInitialized" => client.LastCookie \in Cookies
    BY <1>0, <2>2 DEF ClientSet, ClientThere, MovedInv, OneInv, TypeInv, CookiesThere
  <2>4. \A x \in network' :
          x \in network \/ x = InitialPacket \/ \E c \in Cookies : x = ResponsePacket(c)
    BY <2>1, <2>3, PutSubset
  <2> QED
    BY <1>0, <2>1, <2>2, <2>4, AskingMoved DEF ClientSet
<1>2. CASE ClientSendsGame
  <2>1. \A x \in network' : x \in network \/ (x.type = "Game" /\ x.addr = address)
    BY <1>2, PutSubset DEF ClientSendsGame, Packet
  <2> QED
    BY <1>2, <2>1, QuietMoved DEF ClientSendsGame
<1> QED
  BY <1>1, <1>2

LEMMA AcceptsMoved ==
  ASSUME MovedInv, OneInv', NEW p \in network, ServerAccepts(p)
  PROVE  MovedInv'
<1>0. /\ p.addr \in Addresses
      /\ connections \in [Addresses -> {None} \cup ConnectionSet]
  BY DEF MovedInv, OneInv, TypeInv, PacketSet
<1>1. /\ p.type = "Response" /\ connections[p.addr] = None
      /\ connections' \in Accepted(p.addr, p.cookie, p.orig)
      /\ UNCHANGED <<client, address, switches>>
  BY DEF ServerAccepts
<1>2. \A x \in network' : x \in network \/ (x.type = "Ack" /\ x.age = 0)
  BY PutSubset DEF ServerAccepts, After, Packet
<1>3. AgainInv'
  BY <1>1, <1>2 DEF MovedInv, AgainInv, Again
<1>4. CASE p.orig = None
  <2>1. /\ p.addr = FirstAddress /\ ~client.handlerInitialized
        /\ p.age >= client.sinceSend /\ ~client.bRestartedHandshake
    BY <1>1, <1>4 DEF MovedInv, OneInv, FirstInv, First
  <2>2. switches = 0
    BY <2>1 DEF MovedInv, OneInv, PhaseInv
  <2>3. connections' = [connections EXCEPT ![p.addr] = [cookie |-> p.cookie, ackTo |-> p.addr]]
    BY <1>1, <1>4 DEF Accepted
  <2>4. StayInv'
    BY <1>0, <1>1, <1>2, <2>1, <2>3 DEF MovedInv, StayInv, ToServer
  <2>5. MaxDelay >= client.sinceSend
    BY <2>1, Ages, HandshakeAssumption DEF MovedInv, OneInv, HandshakeAssumption
  <2>6. UnmovedInv'
    BY <1>1, <1>2, <2>1, <2>2, <2>5, HandshakeAssumption
    DEF MovedInv, UnmovedInv, Unmoved, Asks, HandshakeAssumption
  <2> QED
    BY <1>3, <2>4, <2>6 DEF MovedInv
<1>5. CASE p.orig # None
  <2>1. client.handlerInitialized /\ p.orig = client.AuthorisedCookie
    BY <1>1, <1>5 DEF MovedInv, OneInv, AuthorisedInv, Again
  <2>2. PICK a \in Addresses : Holders(client.AuthorisedCookie) = {a}
    BY <2>1 DEF MovedInv, OneInv, ConnectedInv
  <2>3. connections[a] # None
    BY <2>2 DEF Holders
  <2>4. connections' = [connections EXCEPT ![a] = None, ![p.addr] = connections[a]]
    BY <1>1, <1>5, <2>1, <2>2 DEF Accepted
  <2>5. connections'[p.addr] # None
    BY <1>0, <1>1, <2>3, <2>4
  <2>6. switches <= 1 => switches = 1 /\ p.addr = address
    BY <1>1, <1>5 DEF MovedInv, AgainInv, Again
  <2>7. switches # 0 /\ ~Unmoved'
    BY <1>1, <2>5, <2>6, Ages DEF Unmoved, MovedInv, OneInv
  <2> QED
    BY <1>1, <1>3, <2>7 DEF MovedInv, StayInv, UnmovedInv
<1> QED
  BY <1>4, <1>5

LEMMA ServerStepMoved ==
  ASSUME MovedInv, OneInv', NEW p \in network, ServerReceives(p)
  PROVE  MovedInv'
<1>0. /\ p.addr \in Addresses
      /\ connections \in [Addresses -> {None} \cup ConnectionSet]
  BY DEF MovedInv, OneInv, TypeInv, PacketSet
<1>1. CASE ServerChallenges(p)
  <2>1. \A x \in network' : x \in network \/ x.type = "Challenge"
    BY <1>1, PutSubset DEF ServerChallenges, After, Packet
  <2> QED
    BY <1>1, <2>1, QuietMoved DEF ServerChallenges
<1>2. CASE ServerAccepts(p)
  BY <1>2, AcceptsMoved
<1>3. CASE ServerRefuses(p)
  BY <1>3, QuietMoved DEF ServerRefuses
<1>4. CASE ServerRequestsRestart(p)
  <2>1. \A x \in network' : x \in network \/ x.type = "RestartRequest"
    BY <1>4, PutSubset DEF ServerRequestsRestart, After, Packet
  <2>2. p.type = "Game" /\ connections[p.addr] = None
    BY <1>4 DEF ServerRequestsRestart
  <2>3. client.handlerInitialized
    BY <2>2 DEF MovedInv, OneInv, AuthorisedInv
  <2>4. switches # 0
    BY <2>2, <2>3, AtHome DEF MovedInv, StayInv, ToServer
  <2> QED
    BY <1>4, <2>1, <2>4, QuietMoved DEF ServerRequestsRestart
<1>5. CASE ConnectionReceives(p)
  <2>1. /\ connections[p.addr] # None /\ UNCHANGED <<client, address, switches>>
        /\ p.type \in ToServer
    BY <1>5 DEF ConnectionReceives
  <2>2. CASE p.type = "Game"
    <3>1. connections' = [connections EXCEPT ![p.addr].ackTo = None]
      BY <1>5, <2>2 DEF ConnectionReceives
    <3>2. connections'[p.addr] = [connections[p.addr] EXCEPT !.ackTo = None]
      BY <1>0, <3>1
    <3>3. connections'[p.addr] # None
      BY <1>0, <2>1, <3>2, HandshakeAssumption DEF ConnectionSet, HandshakeAssumption
    <3>4. \A a \in Addresses : (connections'[a] = None) <=> (connections[a] = None)
      BY <1>0, <2>1, <3>1, <3>3
    <3>5. network' \subseteq network
      BY <1>5, <2>2 DEF ConnectionReceives, After
    <3> QED
      BY <2>1, <3>4, <3>5, QuietMoved
  <2>3. CASE p.type # "Game"
    <3>1. \A x \in network' : x \in network \/ (x.type = "Ack" /\ x.age = 0)
      BY <1>5, <2>3, PutSubset DEF ConnectionReceives, After, Packet
    <3>2. connections' = connections
      BY <1>5, <2>3 DEF ConnectionReceives
    <3>3. Asks(p)
      BY <2>1, <2>3 DEF ToServer, Asks
    <3> QED
      BY <2>1, <3>1, <3>2, <3>3, QuietMoved
  <2> QED
    BY <2>2, <2>3
<1> QED
  BY <1>1, <1>2, <1>3, <1>4, <1>5 DEF ServerReceives

LEMMA PassMoved ==
  ASSUME MovedInv, OneInv', Pass
  PROVE  MovedInv'
<1>1. UNCHANGED <<address, connections, switches>>
  BY DEF Pass
<1>2. /\ client'.bRestartedHandshake = client.bRestartedHandshake
      /\ client'.sinceSend = Older(client.sinceSend, RestartDelay)
  BY DEF Pass, MovedInv, OneInv, TypeInv, ClientSet
<1>3. ASSUME NEW x \in network'
      PROVE  \E p \in network : /\ x.type = p.type /\ x.addr = p.addr
                                /\ x.orig = p.orig /\ x.age = p.age + 1
  BY DEF Pass, MovedInv, OneInv, TypeInv, PacketSet
<1>4. StayInv'
  BY <1>1, <1>2, <1>3 DEF MovedInv, StayInv
<1>5. AgainInv'
  BY <1>1, <1>3 DEF MovedInv, AgainInv, Again
<1>6. UnmovedInv'
  <2> SUFFICES ASSUME Unmoved', NEW x \in network'
               PROVE  IF client.bRestartedHandshake
                        THEN x.type # "Ack" /\ (Asks(x) => x.addr = address)
                        ELSE /\ Asks(x) => x.age >= client'.sinceSend
                             /\ x.type = "Ack" => x.age + MaxDelay >= client'.sinceSend
    BY <1>1, <1>2 DEF UnmovedInv
  <2>1. PICK p \in network : /\ x.type = p.type /\ x.addr = p.addr
                             /\ x.orig = p.orig /\ x.age = p.age + 1
    BY <1>3
  <2>2. Unmoved
    BY <1>1 DEF Unmoved
  <2>3. p.age \in Nat /\ client.sinceSend \in Nat /\ MaxDelay \in Nat
    BY Ages, HandshakeAssumption DEF MovedInv, OneInv, HandshakeAssumption
  <2>4. client'.sinceSend \in Nat /\ client'.sinceSend <= client.sinceSend + 1
    BY <1>2, <2>3 DEF Older
  <2> QED
    BY <2>1, <2>2, <2>3, <2>4 DEF MovedInv, UnmovedInv, Asks
<1> QED
  BY <1>4, <1>5, <1>6 DEF MovedInv

\* If a packet and its answer are prompt, so is a packet.
LEMMA AnswersArePackets == PromptAnswers => PromptPackets
BY HandshakeAssumption DEF HandshakeAssumption, PromptAnswers, PromptPackets

LEMMA MovedStep ==
  ASSUME PromptAnswers, MovedInv, [Next]_vars
  PROVE  MovedInv'
<1>0. OneInv'
  BY OneStep, AnswersArePackets DEF MovedInv
<1>1. ASSUME NEW p \in network, Lose(p) PROVE MovedInv'
  BY <1>0, <1>1, QuietMoved DEF Lose
<1>2. CASE UpdateSecret
  BY <1>0, <1>2, QuietMoved DEF UpdateSecret
<1>3. CASE Switch
  <2>1. UNCHANGED <<client, connections, network>> /\ switches' = switches + 1
    BY <1>3 DEF Switch
  <2>2. switches \in Nat
    BY Ages DEF MovedInv, OneInv
  <2>3. switches' # 0 /\ (switches' <= 1 => switches = 0)
    BY <2>1, <2>2
  <2>4. UnmovedInv'
    BY <2>1, <2>3 DEF MovedInv, UnmovedInv, Unmoved, StayInv
  <2>5. AgainInv'
    BY <2>1, <2>2, <2>3 DEF MovedInv, AgainInv
  <2> QED
    BY <1>0, <2>3, <2>4, <2>5 DEF MovedInv, StayInv
<1>4. CASE UNCHANGED vars
  BY <1>0, <1>4, QuietMoved DEF vars
<1> QED
  BY <1>0, <1>1, <1>2, <1>3, <1>4, ClientStepMoved, ServerStepMoved, ClientMoveMoved,
     PassMoved
  DEF Next

\* Only an ack ends a restart, and none is left that would end it too early.
LEMMA EndsMoved ==
  ASSUME MovedInv, [Next]_vars, client.bRestartedHandshake, ~client'.bRestartedHandshake,
         switches <= 1
  PROVE  connections[address] # None
<1>0. client \in ClientSet
  BY DEF MovedInv, OneInv, TypeInv
<1>1. client' # client
  OBVIOUS
<1>2. PICK p \in network : ClientReceivesAck(p)
  <2>1. ASSUME NEW p \in network, ClientReceives(p) PROVE ClientReceivesAck(p)
    BY <1>0, <1>1, <2>1
    DEF ClientReceives, ClientReceivesChallenge, ClientReceivesRestart, ClientIgnores,
        ClientSet
  <2>2. ASSUME NEW p \in network, ServerReceives(p) \/ Lose(p) PROVE FALSE
    BY <1>1, <2>2
    DEF ServerReceives, ServerChallenges, ServerAccepts, ServerRefuses,
        ServerRequestsRestart, ConnectionReceives, Lose
  <2>3. ~ClientTick /\ ~Pass
    BY <1>0 DEF ClientTick, Pass, ClientSet
  <2>4. ~ClientSendsGame /\ ~UpdateSecret /\ ~Switch /\ ~UNCHANGED vars
    BY <1>1 DEF ClientSendsGame, UpdateSecret, Switch, vars
  <2> QED
    BY <2>1, <2>2, <2>3, <2>4 DEF Next
<1>3. p.type = "Ack"
  BY <1>2 DEF ClientReceivesAck
<1>4. switches \in Nat /\ switches # 0
  BY Ages DEF MovedInv, OneInv, StayInv
<1>5. ~Unmoved
  BY <1>3 DEF MovedInv, UnmovedInv
<1> QED
  BY <1>4, <1>5 DEF Unmoved

\* While the address changes at most once, a restart never ends before the
\* connection is where the client is, if the delay between restarts outlives every
\* ack that the first handshake can still bring.
THEOREM RestartEndsMoved ==
  ASSUME PromptAnswers
  PROVE  Spec => RestartMoved
<1>1. Init => MovedInv
  BY MovedInit
<1>2. MovedInv /\ [Next]_vars => MovedInv'
  BY MovedStep
<1>3. MovedInv /\ [Next]_vars =>
        [client.bRestartedHandshake /\ ~client'.bRestartedHandshake /\ switches <= 1
           => connections[address] # None]_vars
  BY EndsMoved
<1> QED
  BY <1>1, <1>2, <1>3, PTL DEF Spec, RestartMoved
===============================================================================
