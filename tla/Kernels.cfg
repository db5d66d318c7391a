CONSTANTS
  Vec = 8
  Flush = 32
  ParallelSize = 4
  I2ColBlock = 3
  Calls <- MCCalls
  Parallel = 2
  Panel = 2
  Quad = 2
  RowTile = 2
  ColTile = 2
  RowBlock = 4
  ColBlock = 2
  Block = 4
  Shapes <- MCShapes
  Kernels <- MCKernelNames
  Isas <- MCIsas
  Threads = {1, 3}
  Workers = {w1, w2, w3}
  RowCounts = {1, 4, 6}
  Lanes = 4
  MaxTaps = 4
  Tensors <- MCTensors
  Slots = 2
  Runs = 2
  Cpus <- MCCpus
  Overrides <- MCOverrides
  Files <- MCFiles
  Jobs <- MCJobs
  N = 4
  W = 5
  Nodes = 2
  Levels <- MCLevels
  Magnitudes <- MCMagnitudes
  Input <- MCInput
  Kernel <- MCKernel
  Quant <- MCQuant
SPECIFICATION KernelsSpec
INVARIANTS
  ThreadCountInvariant
  SumsAreConvolution
  EveryCellOnce
  OutputsWhole
  NarrowIsExact
  SmallSumsOwn
  CutsDoNotShow
  LevelRunnable
  NoCallLost
  OnlyTargetChanges
PROPERTIES
  WrittenInside
  PoolFinishes
CHECK_DEADLOCK FALSE
