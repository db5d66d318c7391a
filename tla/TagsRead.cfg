CONSTANTS
  None = None
  Header = 1
  MinChunk = 15
  Chunk = 20
  Matches = 2
  Reservoir = 3
  PerFrame = 3
  Streams <- TaggedFiles
SPECIFICATION Mp3Spec
INVARIANTS
  TagsNotAudio
CHECK_DEADLOCK FALSE
