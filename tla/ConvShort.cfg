CONSTANTS
  Shapes <- MCShapes
  Threads = {1, 2}
  Panel = 2
  Quad = 2
  RowTile = 2
  ColTile = 2
  RowBlock = 4
  ColBlock = 2
  Parallel = 2
  Block = 4
SPECIFICATION GemmSpec
INVARIANT RoutesAgree
CHECK_DEADLOCK FALSE
