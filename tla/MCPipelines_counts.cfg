\* The counts of the message block, as the comment of simplePC.c bounds them.
SPECIFICATION PipelinesSpec
CONSTANTS
  MaxMessages = 3
  PairNumbers = {1, 2}
  CancelArguments <- CancelArgs
  PthreadArguments <- PthreadArgs
  BlockSize = 2
  MAX_RETRY = 1
  QSize = 2
  ConsumerNumbers = {1, 2}
  MaxSequence = 3
INVARIANT
  CountsBounded
CHECK_DEADLOCK FALSE
