\* Two processes that use MultiSem.c at the same time.
SPECIFICATION MultiSemSpec
CONSTANTS
  Consumers = {c1}
  Producers = {p1}
  MaxCount = 1
  InitialCount = 1
  Kinds <- OneKind
  NoThread = NoThread
  Processes = {1, 2, 3}
  Names = {"A", "B"}
  Slots = {1, 2}
  Uses <- OverlapUses
INVARIANTS
  NamesUnique
CHECK_DEADLOCK FALSE
