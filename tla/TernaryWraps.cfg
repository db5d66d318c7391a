CONSTANTS
  Vec = 8
  Flush = 32
  ParallelSize = 4
  I2ColBlock = 4
  Calls <- MCCalls
SPECIFICATION DotSpec
INVARIANT TernaryIsExact
CHECK_DEADLOCK FALSE
