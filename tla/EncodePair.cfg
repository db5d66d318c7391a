CONSTANTS
  LastStage = 1
  Depth <- MCDepth
  Wide = {2}
  ThreadCounts = {1, 3, 7}
  Cpus = {2, 8}
SPECIFICATION Spec
INVARIANTS
  GraphIsEncoder
  PackedAsAsked
  CoresOwned
  WholeAgain
CHECK_DEADLOCK FALSE
