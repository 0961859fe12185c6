\* Both endpoints wrap around: the client sends 6, 7, 0, 1, 2, 3, the server 7, 0.
CONSTANTS
  Client = Client
  Server = Server
  NoHeader = NoHeader
  ClientFirstId = 6
  ServerFirstId = 7
  ClientMaxPackets = 6
  ServerMaxPackets = 2
  SeqNumberHalf = 4
  BitsPerWord = 1
  WordCount = 2
  MaxInFlight = 3
  MaxPacketAge = 4
SPECIFICATION Spec
\* Every behaviour ends when the packets of both endpoints are used up.
CHECK_DEADLOCK FALSE
INVARIANTS
  EndpointInv
  CleanMeansTold
PROPERTIES
  NoFalseNak
  ImplementsDelivery
