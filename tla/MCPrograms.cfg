\* Three workers and a throttle of two; three files and a wait for at most two;
\* five records in three stripes; four records in up to four parts; a file of
\* four blocks, the last one short, and a table of two mismatches; two message queues,
\* two producers and two consumers or four calls of two threads.
SPECIFICATION FairSpec
CONSTANTS
  NThread = 3
  Tasks = 2
  Depth = 2
  MaxThread = 2
  NFiles = 3
  MaxWait = 2
  MaxOvrlp = 3
  MaxRecords = 5
  Keys = {1, 2}
  NRec = 4
  SortThreads = {1, 2, 4}
  Sizes = {3, 7}
  BlockSize = 2
  Quad = 2
  NThreads = 2
  MaxMismatch = 2
  MSG_MAX_NUMBER_QUEUES = 2
  MQ_MAX_MESSAGE_SIZE = 3
  MQ_MAX_BYTES_IN_QUEUE = 8
  MQ_MAX_BYTES_IN_SYSTEM = 8
  LongSize = 1
  Callers = {1, 2}
  MaxCalls = 4
  np = 2
  goal = 2
  DataSize = 2
  TestBytes = 7
INVARIANTS
  KeptApart
  ResultsRight
  QueuesRight
PROPERTIES
  QueueSteps
  ProgramEnds
CHECK_DEADLOCK FALSE
