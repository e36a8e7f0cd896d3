\* QueueObjCS_Sig.c with one producer and two consumers.
SPECIFICATION Spec
CONSTANTS
  qSize = 3
  Producers = {p1}
  Consumers = {c1, c2}
  Puts = 4
  Gets = 2
  Builds <- CSSig
  INFINITE = INFINITE
  NoThread = NoThread
  NoMsg = NoMsg
INVARIANTS
  NoneStranded
