\* Two producers and memory for four nodes, which are used again.
CONSTANTS
  n1 = n1
  n2 = n2
  n3 = n3
  n4 = n4
  p1 = p1
  p2 = p2
  x1 = x1
  x2 = x2
  Null = Null
  NoItem = NoItem
  Node <- Nodes
  Item <- Items
  Producers <- TwoProducers
SPECIFICATION FairSpec
INVARIANTS
  ListInv
  EmptyUnlessUnlinked
PROPERTIES
  ImplementsFifo
  ItemsDelivered
