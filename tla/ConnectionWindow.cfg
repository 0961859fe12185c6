\* Nothing but the code limits the packets in flight.
CONSTANTS
  Client = Client
  Server = Server
  NoHeader = NoHeader
  ClientFirstId = 6
  ServerFirstId = 0
  ClientMaxPackets = 6
  ServerMaxPackets = 1
  SeqNumberHalf = 4
  BitsPerWord = 1
  WordCount = 2
  MaxInFlight = 6
  MaxPacketAge = 4
SPECIFICATION Spec
\* Every behaviour ends when the packets of both endpoints are used up.
CHECK_DEADLOCK FALSE
PROPERTY
  SendWindowRespected
