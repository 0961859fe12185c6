\* Four places; only a third thread counts.
CONSTANTS
  x1 = x1
  x2 = x2
  NoItem = NoItem
  Producer = Producer
  Consumer = Consumer
  OtherThread = OtherThread
  Capacity = 4
  Item <- Items
  Counters <- OtherThreads
SPECIFICATION Spec
PROPERTIES
  CountFromAnyThread
