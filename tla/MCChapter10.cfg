\* Up to five workers, a threshold of three: two arrive after the barrier opened, and
\* five are more than the main thread can wait for at once.  Two
\* pairs, three messages and a done message each, blocks of three: two full blocks
\* and an incomplete one.
SPECIFICATION Chapter10Spec
CONSTANTS
  Workers = {w1, w2, w3, w4, w5}
  bThreshold = 3
  MAXIMUM_WAIT_OBJECTS = 4
  NoThread = NoThread
  Pairs = {p1, p2}
  goal = 3
  TBLOCK_SIZE = 3
  P2T = 2
  T2R = 1
  R2C = 1
INVARIANTS
  NoEarlyPass
  NoneLeftWaiting
  ClosedNoneWaits
  PipelineOrder
  ExitAfterDone
PROPERTIES
  BarrierEnds
  PipelineEnds
CHECK_DEADLOCK FALSE
