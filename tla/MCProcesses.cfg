\* The socket server with three slots; two shells with a table of two records; the service with six commands; three messages that
\* are shorter than, as long as and longer than what the square of their length leaves; two
\* clients with two slots.
SPECIFICATION ProcessesSpec
CONSTANTS
  MAX_CLIENTS = 3
  ClientsReset = TRUE
  Shells = {1, 2}
  MAX_JOBS_ALLOWED = 2
  Pids = {1, 2, 3}
  JobCommands = 3
  ServiceCommands = 6
  MAX_MESSAGE_LEN = 6
  MessageLengths = {0, 1, 2, 3, 5}
  NMessages = 3
  StreamClients = {1, 2}
  StreamSlots = 2
INVARIANTS
  SlotUnused
  StopNotLost
  LibraryUnused
  OwnTarget
  MessagesRight
PROPERTIES
  ShutdownEnds
  NoSetback
  ProcessesEnd
CHECK_DEADLOCK FALSE
