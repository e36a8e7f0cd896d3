\* Three messages in the block; one pair with two messages or two with one that are cancelled,
\* in blocks of two; one pair with three that may time out; three messages for two consumers.
SPECIFICATION PipelinesSpec
CONSTANTS
  MaxMessages = 3
  PairNumbers = {1, 2}
  CancelArguments <- CancelArgs
  PthreadArguments <- PthreadArgs
  BlockSize = 2
  MAX_RETRY = 1
  QSize = 2
  ConsumerNumbers = {1, 2}
  MaxSequence = 3
INVARIANTS
  BlockRight
  OnTheWay
PROPERTIES
  BlockAnswers
  PipelinesEnd
CHECK_DEADLOCK FALSE
