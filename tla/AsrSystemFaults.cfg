CONSTANTS
  good = good
  bad = bad
  empty = empty
  word = word
  list = list
  small = small
  large = large
  NoConf = NoConf
  Chunks <- TwoChunks
  BadChunks <- OnlyBad
  Settings <- WithList
  FirstLine <- ListFirstLine
  NoHotwords = empty
  StrayPath = bad
  Confs <- TwoConfs
  MaxPieces = 1
  StderrCap = 7
  MaxCalls = 3
  MaxSessions = 3
SPECIFICATION FairSpec
INVARIANTS
  InSync
  OneLineHotwordsInForce
PROPERTIES
  EveryCallReturnsUnlessLogFull
  StopReturns
CHECK_DEADLOCK FALSE
