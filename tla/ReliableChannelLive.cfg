CONSTANTS
  Server = Server
  Client = Client
  NoChannel = NoChannel
  NoPartial = NoPartial
  MaxChSequence = 8
  ReliableBuffer = 3
  FirstSequence = 6
  ServerSizes = {1, 2}
  ClientSizes = {1}
  MaxIncarnations = 1
  ServerMessages <- LiveServerMessages
  ClientMessages <- LiveClientMessages
  LooseMessages <- LiveLooseMessages
  MaxInFlight = 2
  MaxBuffered = 2
SPECIFICATION FairSpec
PROPERTIES
  ClosingIsFreed
  MessagesArrive
CHECK_DEADLOCK FALSE
