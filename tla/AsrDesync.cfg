CONSTANTS
  good = good
  bad = bad
  empty = empty
  word = word
  list = list
  small = small
  large = large
  NoConf = NoConf
  Chunks <- TwoChunks
  BadChunks <- OnlyBad
  Settings <- WithList
  FirstLine <- ListFirstLine
  NoHotwords = empty
  StrayPath = bad
  Confs <- TwoConfs
  MaxPieces = 1
  StderrCap = 12
  MaxCalls = 3
  MaxSessions = 3
SPECIFICATION Spec
INVARIANT OwnReply
CHECK_DEADLOCK FALSE
