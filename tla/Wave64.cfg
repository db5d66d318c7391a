CONSTANTS
  None = None
  Files <- OddWave64
  Buffer <- MCBuffer
  Shorts <- MCShorts
  MaxFloats <- MCFloats
  Modulus <- MCModulus
  Unstated <- MCUnstated
  Sources <- MCSources
  Rates <- MCRates
  Nothing <- MCNothing
  CommandLines <- MCCommandLines
  Transcripts <- MCTranscripts
  Frames <- FrameCounts
  Tokens <- MCTokens
  Entries <- MCEntries
  MaxEmitted = 5
  Draft = 3
  Chunk = 6
  Overlap = 3
  Search = 3
  Margin = 1
  Slack = 2
  MinMatch = 3
  Recordings <- MCRecordings
  Refusals = TRUE
SPECIFICATION OneShotSpec
INVARIANTS
  WholeFileRead
CHECK_DEADLOCK FALSE
