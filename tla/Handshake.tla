------------------------------ MODULE Handshake ------------------------------
(***************************************************************************)
(* The stateless handshake of a client with a server and its restart when  *)
(* the client's address changes (StatelessConnectHandlerComponent in       *)
(* Engine/Private/PacketHandlers, on a PacketHandler whose only component  *)
(* that shakes hands it is).                                               *)
(*                                                                         *)
(* The server answers an initial packet with a cookie that it does not     *)
(* store: an HMAC of the sender's address and the time, under one of two   *)
(* secrets that take turns.  The client sends the cookie back; the server  *)
(* then creates a connection for that address, or, when the response also  *)
(* names the cookie of an earlier handshake, moves that connection to the  *)
(* address.  Packets may be lost, duplicated, reordered and delayed, by    *)
(* up to MaxDelay.                                                         *)
(*                                                                         *)
(* Time passes in units of a few seconds; every time stamp is kept as the  *)
(* time since, up to where no comparison tells values apart.  A cookie is  *)
(* a name, and issued says what the server would recompute from it.  The   *)
(* two sequence numbers of a connection are bits of its cookie, so equal   *)
(* cookies stand for equal sequences.                                      *)
(*                                                                         *)
(* The tables of the network driver (UIpNetDriver) are not under src/; its *)
(* part is modelled from what the component offers it.                     *)
(***************************************************************************)
EXTENDS Integers, FiniteSets

CONSTANTS
  Addresses,           \* addresses the client sends from
  FirstAddress,        \* the one it connects from
  Cookies,             \* bound: names for the cookies in use
  None,                \* no cookie, no address, no connection
  ResendDelay,         \* Tick: 1 second
  RestartDelay,        \* between two restarts: 10 seconds
  SecretUpdateTime,    \* SECRET_UPDATE_TIME
  SecretUpdateVariance,\* SECRET_UPDATE_TIME_VARIANCE
  MaxDelay,            \* bound: how long a packet is under way
  MaxInFlight,         \* bound: packets under way
  MaxSwitches          \* bound: how often the client's address changes

MaxCookieLifetime == 2 * (SecretUpdateTime + SecretUpdateVariance)

MinCookieLifetime == SecretUpdateTime

ASSUME HandshakeAssumption ==
  /\ FirstAddress \in Addresses
  /\ None \notin Addresses \cup Cookies
  /\ None \notin [cookie: Cookies, ackTo: Addresses \cup {None}]
  /\ ResendDelay \in Nat /\ RestartDelay \in Nat
  /\ SecretUpdateVariance \in Nat
  /\ MaxDelay \in Nat /\ MaxInFlight \in Nat /\ MaxSwitches \in Nat
  /\ SecretUpdateTime \in Nat \ {0}

\* What some of the properties need of the network, and the code does not check: a
\* packet, or a packet and its answer, is under way no longer than a client waits
\* to restart.
PromptPackets == MaxDelay <= RestartDelay
PromptAnswers == 2 * MaxDelay <= RestartDelay

VARIABLES
  client,        \* the client's component and packet handler
  address,       \* where the client's packets come from
  issued,        \* what the server recomputes from each cookie in use
  secret,        \* ActiveSecret and the time since LastSecretUpdateTimestamp
  connections,   \* the server's connections by address
  network,       \* packets under way
  switches       \* how often the address changed

vars == <<client, address, issued, secret, connections, network, switches>>

-----------------------------------------------------------------------------
(* Time.                                                                   *)

\* The first value no comparison tells from a later one.
MaxTime(limit) == limit + 1

Older(t, limit) == IF t < MaxTime(limit) THEN t + 1 ELSE t

-----------------------------------------------------------------------------
(* Packets.                                                                *)

Packet(type, addr, cookie, orig) ==
  [type |-> type, addr |-> addr, cookie |-> cookie, orig |-> orig, age |-> 0]

ToServer == {"Initial", "Response", "Game"}
ToClient == {"Challenge", "Ack", "RestartRequest"}

PacketSet ==
  [type: ToServer \cup ToClient, addr: Addresses, cookie: Cookies \cup {None},
   orig: Cookies \cup {None}, age: 0 .. MaxDelay]

\* A packet sent into a full network is lost.
Put(net, p) == IF Cardinality(net) < MaxInFlight THEN net \cup {p} ELSE net

\* The network after p was delivered: it may come again.
After(p) == {network, network \ {p}}

-----------------------------------------------------------------------------
(* Cookies.                                                                *)

InUse ==
  {client.LastCookie, client.AuthorisedCookie}
    \cup {p.cookie : p \in network} \cup {p.orig : p \in network}
    \cup {connections[a].cookie : a \in {x \in Addresses : connections[x] # None}}

\* Nothing is recomputed from a cookie any more: it has expired, or its secret has
\* been replaced.
Dead == [addr |-> FirstAddress, age |-> MaxCookieLifetime, secret |-> 0, fresh |-> FALSE]

\* The cookies time has left, of those that are still in use.  One whose secret has
\* been replaced is kept in mind for as long as a client may answer it.
Surviving(stamps) ==
  [c \in Cookies |->
     IF /\ c \in InUse
        /\ stamps[c].age < MaxCookieLifetime
        /\ stamps[c].fresh \/ stamps[c].age <= MinCookieLifetime
       THEN stamps[c] ELSE Dead]

\* GenerateCookie with the active secret.  fresh: the secret it was made with
\* has not been replaced.
Stamp(addr) == [addr |-> addr, age |-> 0, secret |-> secret.active, fresh |-> TRUE]

\* Two challenges to one address at the same time carry the same cookie.
CookiesFor(addr) ==
  {c \in Cookies : c \notin InUse \/ issued[c] = Stamp(addr)}

\* Mutant: a stamp of the very moment of an update fits neither secret.
ValidResponse_Strict(addr, c) ==
  LET s == issued[c]
      SecretDelta == secret.age - s.age
  IN  /\ s.age < MaxCookieLifetime
      /\ IF s.secret = secret.active THEN SecretDelta > 0 ELSE SecretDelta < 0
      /\ s.fresh /\ s.addr = addr

\* The server's checks of a challenge response from addr.
ValidResponse(addr, c) ==
  LET s == issued[c]
      SecretDelta == secret.age - s.age
  IN  /\ s.age < MaxCookieLifetime
      /\ IF s.secret = secret.active THEN SecretDelta >= 0 ELSE SecretDelta <= 0
      /\ s.fresh /\ s.addr = addr

-----------------------------------------------------------------------------
TypeOK ==
  /\ client \in
       [state: {"UnInitialized", "InitializedOnLocal", "Initialized"},
        handlerInitialized: BOOLEAN, bRestartedHandshake: BOOLEAN,
        LastCookie: Cookies \cup {None}, AuthorisedCookie: Cookies \cup {None},
        sinceSend: 0 .. MaxTime(RestartDelay),
        sinceChallenge: 0 .. MaxTime(MinCookieLifetime)]
  /\ address \in Addresses
  /\ issued \in
       [Cookies -> [addr: Addresses, age: 0 .. MaxCookieLifetime,
                    secret: {0, 1}, fresh: BOOLEAN]]
  /\ secret \in [active: {0, 1}, age: 0 .. MaxCookieLifetime]
  /\ connections \in
       [Addresses -> {None} \cup [cookie: Cookies, ackTo: Addresses \cup {None}]]
  /\ network \subseteq PacketSet
  /\ switches \in 0 .. MaxSwitches

\* BeginHandshaking has sent the first packet.
Init ==
  /\ client = [state |-> "UnInitialized", handlerInitialized |-> FALSE,
               bRestartedHandshake |-> FALSE, LastCookie |-> None,
               AuthorisedCookie |-> None, sinceSend |-> 0, sinceChallenge |-> 0]
  /\ address = FirstAddress
  /\ issued = [c \in Cookies |-> Dead]
  /\ secret = [active |-> 0, age |-> 0]
  /\ connections = [a \in Addresses |-> None]
  /\ network = {Packet("Initial", FirstAddress, None, None)}
  /\ switches = 0

-----------------------------------------------------------------------------
(* The client.                                                             *)

InitialPacket == Packet("Initial", address, None, None)

ResponsePacket(c) ==
  Packet("Response", address, c,
         IF client.bRestartedHandshake THEN client.AuthorisedCookie ELSE None)

\* A challenge: Timestamp > 0.
ClientReceivesChallenge(p) ==
  /\ p.type = "Challenge"
  /\ client.state \in {"UnInitialized", "InitializedOnLocal"}
  /\ client' = [client EXCEPT !.state = "InitializedOnLocal", !.LastCookie = p.cookie,
                              !.sinceSend = 0, !.sinceChallenge = 0]
  /\ \E net \in After(p) : network' = Put(net, ResponsePacket(p.cookie))
  /\ UNCHANGED <<address, issued, secret, connections, switches>>

\* Mutant: the sequences are those of the cookie answered last.
Acknowledged_LastCookie(c) ==
  [client EXCEPT
     !.state = "Initialized", !.handlerInitialized = TRUE,
     !.bRestartedHandshake = FALSE, !.LastCookie = None,
     !.AuthorisedCookie = IF client.bRestartedHandshake THEN @ ELSE client.LastCookie]

\* What an ack leaves: InitSequence only in a first handshake, and the packet
\* handler is initialized once.  LastCookie is not read before the next challenge.
Acknowledged(c) ==
  [client EXCEPT
     !.state = "Initialized", !.handlerInitialized = TRUE,
     !.bRestartedHandshake = FALSE, !.LastCookie = None,
     !.AuthorisedCookie = IF client.bRestartedHandshake THEN @ ELSE c]

\* An ack: Timestamp < 0.
ClientReceivesAck(p) ==
  /\ p.type = "Ack"
  /\ client.state \in {"UnInitialized", "InitializedOnLocal"}
  /\ client' = Acknowledged(p.cookie)
  /\ network' \in After(p)
  /\ UNCHANGED <<address, issued, secret, connections, switches>>

\* Mutant: every request is accepted.
AcceptsRestart_AtOnce ==
  client.state = "Initialized" /\ ~client.bRestartedHandshake

\* When a request to restart is accepted.  The check for clients whose packets
\* come from two addresses at once is left out: what it refuses is lost here.
AcceptsRestart ==
  /\ client.state = "Initialized"
  /\ ~client.bRestartedHandshake
  /\ client.sinceSend > RestartDelay

ClientReceivesRestart(p) ==
  /\ p.type = "RestartRequest"
  /\ AcceptsRestart
  /\ client' = [client EXCEPT !.state = "UnInitialized",
                              !.bRestartedHandshake = TRUE, !.sinceSend = 0]
  /\ \E net \in After(p) : network' = Put(net, InitialPacket)
  /\ UNCHANGED <<address, issued, secret, connections, switches>>

\* Challenges and acks that come late, and requests that come too early.
ClientIgnores(p) ==
  /\ IF p.type = "RestartRequest" THEN ~AcceptsRestart ELSE client.state = "Initialized"
  /\ p.type \in ToClient
  /\ network' = network \ {p}
  /\ UNCHANGED <<client, address, issued, secret, connections, switches>>

\* The client's Tick: it sends again what was not answered.
ClientTick ==
  LET expired == client.sinceChallenge > MinCookieLifetime
      state == IF expired THEN "UnInitialized" ELSE client.state
  IN  /\ client.state # "Initialized"
      /\ client.sinceSend > ResendDelay
      /\ client' = [client EXCEPT !.state = state, !.sinceSend = 0]
      /\ network' = Put(network, IF state = "UnInitialized"
                                   THEN InitialPacket
                                   ELSE ResponsePacket(client.LastCookie))
      /\ UNCHANGED <<address, issued, secret, connections, switches>>

\* The game's packets go out once the packet handler is initialized, also while
\* the handshake is being restarted.
ClientSendsGame ==
  /\ client.handlerInitialized
  /\ network' = Put(network, Packet("Game", address, client.AuthorisedCookie, None))
  /\ UNCHANGED <<client, address, issued, secret, connections, switches>>

-----------------------------------------------------------------------------
(* The server.                                                             *)

\* IncomingConnectionless: an initial packet, answered with a challenge.
ServerChallenges(p) ==
  /\ p.type = "Initial"
  /\ connections[p.addr] = None
  /\ \E c \in CookiesFor(p.addr) :
       /\ issued' = [issued EXCEPT ![c] = Stamp(p.addr)]
       /\ \E net \in After(p) : network' = Put(net, Packet("Challenge", p.addr, c, None))
  /\ UNCHANGED <<client, address, secret, connections, switches>>

\* The address of the connection with the cookie of a restarted handshake
\* (DoesRestartedHandshakeMatch).
Holders(c) == {a \in Addresses : connections[a] # None /\ connections[a].cookie = c}

\* Mutant: the restarted connection stays known by its old address, too.
Accepted_Copies(addr, c, orig) ==
  IF orig = None
  THEN {[connections EXCEPT ![addr] = [cookie |-> c, ackTo |-> addr]]}
  ELSE IF Holders(orig) = {}
       THEN {connections}
       ELSE {[connections EXCEPT ![addr] = connections[a]] : a \in Holders(orig)}

\* What the network driver does with a response that passed the challenge.
Accepted(addr, c, orig) ==
  IF orig = None
  THEN {[connections EXCEPT ![addr] = [cookie |-> c, ackTo |-> addr]]}
  ELSE IF Holders(orig) = {}
       THEN {connections}
       ELSE {[connections EXCEPT ![a] = None, ![addr] = connections[a]] : a \in Holders(orig)}

\* IncomingConnectionless: a challenge response that passes.
ServerAccepts(p) ==
  /\ p.type = "Response"
  /\ connections[p.addr] = None
  /\ ValidResponse(p.addr, p.cookie)
  /\ connections' \in Accepted(p.addr, p.cookie, p.orig)
  /\ \E net \in After(p) :
       network' = Put(net, Packet("Ack", p.addr, IF p.orig = None THEN p.cookie ELSE p.orig,
                                  None))
  /\ UNCHANGED <<client, address, issued, secret, switches>>

ServerRefuses(p) ==
  /\ p.type = "Response"
  /\ connections[p.addr] = None
  /\ ~ValidResponse(p.addr, p.cookie)
  /\ network' = network \ {p}
  /\ UNCHANGED <<client, address, issued, secret, connections, switches>>

\* IncomingConnectionless: a packet of the game from an unknown address.
ServerRequestsRestart(p) ==
  /\ p.type = "Game"
  /\ connections[p.addr] = None
  /\ \E net \in After(p) : network' = Put(net, Packet("RestartRequest", p.addr, None, None))
  /\ UNCHANGED <<client, address, issued, secret, connections, switches>>

\* Incoming of the component of a connection: a handshake packet is answered
\* with the ack, until the first packet of the game has come.
ConnectionReceives(p) ==
  /\ p.type \in ToServer
  /\ connections[p.addr] # None
  /\ LET con == connections[p.addr]
     IN  IF p.type = "Game"
         THEN /\ connections' = [connections EXCEPT ![p.addr].ackTo = None]
              /\ network' \in After(p)
         ELSE /\ \E net \in After(p) :
                   network' = IF con.ackTo = None THEN net
                              ELSE Put(net, Packet("Ack", con.ackTo, con.cookie, None))
              /\ UNCHANGED connections
  /\ UNCHANGED <<client, address, issued, secret, switches>>

\* Mutant: the active secret is counted on.
UpdateSecret_CountsOn ==
  /\ secret.age > SecretUpdateTime
  /\ secret' = [active |-> secret.active + 1, age |-> 0]
  /\ issued' = Surviving([c \in Cookies |->
                  [issued[c] EXCEPT !.fresh = @ /\ issued[c].secret = secret.active]])
  /\ UNCHANGED <<client, address, connections, network, switches>>

\* Mutant: the active secret itself is replaced.
UpdateSecret_Active ==
  /\ secret.age > SecretUpdateTime
  /\ secret' = [active |-> secret.active, age |-> 0]
  /\ issued' = Surviving([c \in Cookies |->
                  [issued[c] EXCEPT !.fresh = @ /\ issued[c].secret # secret.active]])
  /\ UNCHANGED <<client, address, connections, network, switches>>

\* UpdateSecret, from the server's Tick: the other secret becomes the active one
\* and is replaced, after SecretUpdateTime and a variance.
UpdateSecret ==
  /\ secret.age > SecretUpdateTime
  /\ secret' = [active |-> 1 - secret.active, age |-> 0]
  /\ issued' = Surviving([c \in Cookies |->
                  [issued[c] EXCEPT !.fresh = @ /\ issued[c].secret = secret.active]])
  /\ UNCHANGED <<client, address, connections, network, switches>>

-----------------------------------------------------------------------------
(* The environment.                                                        *)

Lose(p) ==
  /\ network' = network \ {p}
  /\ UNCHANGED <<client, address, issued, secret, connections, switches>>

\* Time passes; the server ticks in time to replace its secret, and packets that
\* were under way for too long are lost.
Pass ==
  /\ secret.age <= SecretUpdateTime + SecretUpdateVariance
  /\ secret' = [secret EXCEPT !.age = @ + 1]
  /\ client' = [client EXCEPT !.sinceSend = Older(@, RestartDelay),
                              !.sinceChallenge = Older(@, MinCookieLifetime)]
  /\ issued' = Surviving([c \in Cookies |-> [issued[c] EXCEPT !.age = @ + 1]])
  /\ network' = {[p EXCEPT !.age = @ + 1] : p \in {q \in network : q.age < MaxDelay}}
  /\ UNCHANGED <<address, connections, switches>>

\* The router of a connected client sends its traffic from another port.
Switch ==
  /\ client.handlerInitialized
  /\ switches < MaxSwitches
  /\ switches' = switches + 1
  /\ address' \in Addresses \ {address}
  /\ UNCHANGED <<client, issued, secret, connections, network>>

-----------------------------------------------------------------------------
ClientReceives(p) ==
  \/ ClientReceivesChallenge(p) \/ ClientReceivesAck(p)
  \/ ClientReceivesRestart(p) \/ ClientIgnores(p)

ServerReceives(p) ==
  \/ ServerChallenges(p) \/ ServerAccepts(p) \/ ServerRefuses(p)
  \/ ServerRequestsRestart(p) \/ ConnectionReceives(p)

Next ==
  \/ \E p \in network : ClientReceives(p) \/ ServerReceives(p) \/ Lose(p)
  \/ ClientTick \/ ClientSendsGame \/ UpdateSecret \/ Pass \/ Switch

Spec == Init /\ [][Next]_vars

-----------------------------------------------------------------------------
(* Properties.                                                             *)

\* A response passes the server's checks while its cookie is no older than
\* MIN_COOKIE_LIFETIME, whichever of the two secrets made it and however often they
\* changed.  (The client answers for that long after it got the challenge, which may
\* be somewhat longer.)
CookieLifetime ==
  \A p \in network :
    p.type \in {"Challenge", "Response"} /\ issued[p.cookie].age <= MinCookieLifetime
      => ValidResponse(issued[p.cookie].addr, p.cookie)

\* A restart moves a connection and never makes a second one: once the client is
\* connected, exactly one connection has its cookie, and no other exists.  This needs
\* PromptPackets: a response older than the time to a restart can make a second one.
OneConnection ==
  client.handlerInitialized =>
    \E a \in Addresses : /\ Holders(client.AuthorisedCookie) = {a}
                         /\ \A b \in Addresses \ {a} : connections[b] = None

\* A packet of the game only comes to a connection that counts from the same
\* sequence numbers.
SequencesAgree ==
  \A p \in network :
    p.type = "Game" /\ connections[p.addr] # None => connections[p.addr].cookie = p.cookie

\* A restart does not end before the connection is where the client is, unless the
\* address changes again (an ack of the handshake before would end it, too).  This
\* needs PromptAnswers.
RestartMoved ==
  [][client.bRestartedHandshake /\ ~client'.bRestartedHandshake /\ switches <= 1
       => connections[address] # None]_vars
=============================================================================
