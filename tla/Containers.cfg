\* The ring of two threads has four places.  Two values tell an old one from a new
\* one.  Indices of the resizable ring have four bits; capacities go up to 4.
CONSTANTS
  x1 = x1
  x2 = x2
  NoItem = NoItem
  Producer = Producer
  Consumer = Consumer
  OtherThread = OtherThread
  Capacity = 4
  Item <- Items
  Counters <- AllThreads
  Torn = Torn
  LogIndexCount = 4
  LogMaxCapacity = 2
SPECIFICATION MCSpec
INVARIANTS
  RingInv
  ThreeBuffers
  SlotsInv
PROPERTIES
  ImplementsFifo
  CountIsTrue
  ImplementsLatestValue
  RingImplementsFifo
