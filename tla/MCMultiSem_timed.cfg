\* First Satisfiable, with waits for the mutex that time out.
SPECIFICATION MultiSemSpec
CONSTANTS
  Consumers = {c1, c2, c3}
  Producers = {p1}
  MaxCount = 3
  InitialCount = 1
  Kinds <- FirstTimed
  NoThread = NoThread
  Processes = {1}
  Names = {"A"}
  Slots = {1}
  Uses <- OverlapUses
INVARIANTS
  SatisfiableAttended
CHECK_DEADLOCK FALSE
