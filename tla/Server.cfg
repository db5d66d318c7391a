CONSTANTS
  good = good
  bad = bad
  none = none
  words = words
  Chunks <- GoodAndBad
  BadChunks <- OneBad
  Settings <- TwoSettings
  FirstSetting = none
  MaxPieces = 1
  StderrCap = 1
  MaxLines = 3
  Strides <- SmallStrides
  Ratio = 4
  Samples <- Lengths
  Pre = 3
  Post = 2
  NBatch = 2
  NCtx = 11
  MaxTokens = 5
  MaxChunks = 2
  None = None
  Header = 1
  MinChunk = 15
  Chunk = 20
  Matches = 2
  Reservoir = 3
  PerFrame = 3
  Streams <- Mp3Files
SPECIFICATION ServerSpec
INVARIANTS
  AnswersInOrder
  SettingOfItsTime
  FramesFit
  OnlyThisChunk
  PrefillSound
  StreamedIsContentAfterHeader
  SoundIsStream
PROPERTIES
  EveryLineAnswered
  EveryChunkEnds
CHECK_DEADLOCK FALSE
