\* Two instances and two clients: of serverNPCP with a request each, of the servers of
\* PipeServer one with two requests and one that only connects.
SPECIFICATION ServersSpec
CONSTANTS
  MAX_CLIENTS = 2
  Clients = {1, 2}
  MaxRequests <- Requests
  ServerThreads = {1, 2}
INVARIANTS
  OneServes
  AnswersOwn
PROPERTIES
  ServersEnd
CHECK_DEADLOCK FALSE
