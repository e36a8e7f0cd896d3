\* Two producers on a queue of two usable slots, and one consumer, as in ThreeStage.
SPECIFICATION FairSpec
CONSTANTS
  qSize = 3
  Producers = {p1, p2}
  Consumers = {c1}
  Puts = 2
  Gets = 4
  Builds <- AllBuilds
  INFINITE = INFINITE
  NoThread = NoThread
  NoMsg = NoMsg
INVARIANTS
  StatusTruthful
  NoneStranded
PROPERTIES
  BoundedFIFO
  Termination
