CONSTANTS
  good = good
  bad = bad
  empty = empty
  word = word
  list = list
  small = small
  large = large
  NoConf = NoConf
  Chunks <- TwoChunks
  BadChunks = {}
  Settings <- OneLine
  FirstLine <- IdentityLine
  NoHotwords = empty
  StrayPath = bad
  Confs <- TwoConfs
  MaxPieces = 2
  StderrCap = 12
  MaxCalls = 3
  MaxSessions = 3
SPECIFICATION FairSpec
PROPERTIES
  ServiceSpec
CHECK_DEADLOCK FALSE
