CONSTANTS
  Server = Server
  Client = Client
  NoChannel = NoChannel
  NoPartial = NoPartial
  MaxChSequence = 8
  ReliableBuffer = 3
  FirstSequence = 6
  ServerSizes = {1, 2}
  ClientSizes = {1}
  MaxIncarnations = 2
  ServerMessages <- MCServerMessages
  ClientMessages <- MCClientMessages
  LooseMessages <- MCLooseMessages
  MaxInFlight = 2
  MaxBuffered = 2
SPECIFICATION Spec
INVARIANTS
  TypeOK
  NoBunchError
  AckedMeansLetIn
  SequencesAgree
  HandedWhole
  StaleOnlyIfReused
PROPERTIES
  ImplementsChannelService
CHECK_DEADLOCK FALSE
