\* Three consumers of up to three units and two producers, in each way of use; three
\* processes, two names and two entries.
SPECIFICATION MultiSemSpec
CONSTANTS
  Consumers = {c1, c2, c3}
  Producers = {p1, p2}
  MaxCount = 3
  InitialCount = 1
  Kinds <- AllKinds
  NoThread = NoThread
  Processes = {1, 2, 3}
  Names = {"A", "B"}
  Slots = {1, 2}
  Uses <- LibraryUses
INVARIANTS
  NoStranded
  RefsCounted
  OneObjectPerName
PROPERTIES
  NoOvertaking
  StartsFresh
CHECK_DEADLOCK FALSE
