\* 2 producers and 2 consumers on a queue of 2 usable slots, in each model.
SPECIFICATION FairSpec
CONSTANTS
  qSize = 3
  Producers = {p1, p2}
  Consumers = {c1, c2}
  Puts = 3
  Gets = 3
  Models = {"broadcast", "signal", "condvar"}
  NoThread = NoThread
  NoMsg = NoMsg
INVARIANTS
  MoveReady
  NoLostWakeup
PROPERTIES
  BoundedFIFO
  Termination
