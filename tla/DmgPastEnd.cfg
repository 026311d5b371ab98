SPECIFICATION FuzzSpec
CONSTANTS
  MaxWord = 15
  MaxSize = 15
  SectorSize = 2
  KolySize = 2
  MaxRunBytes = 8
  AdcSlack = 1
  OverflowChecks = TRUE
  NoFile = NoFile
  FuzzCap = 6
  FuzzBufLen = 4
  Files <- MCFiles
  ReadLens <- MCReadLens
  SeekStarts <- MCSeekStarts
  SeekDeltas <- MCSeekDeltas
\* the fuzz target is done with its input
CHECK_DEADLOCK FALSE
PROPERTIES
  ReadsEndAtDiskEnd
