SPECIFICATION FuzzSpec
CONSTANTS
  MaxWord = 31
  MaxSize = 31
  HeaderSize = 2
  SectorSize = 2
  MaxSlots = 3
  NoFile = NoFile
  FuzzCap = 7
  FuzzBufLen = 5
  Files <- MCFiles
  ReadLens <- MCReadLens
  SeekStarts <- MCSeekStarts
  SeekDeltas <- MCSeekDeltas
\* the fuzz target is done with its input
CHECK_DEADLOCK FALSE
INVARIANTS
  TypeOK
  FuzzedDiskIsReadWhole
PROPERTIES
  BytesComeFromOwnBand
  ImplementsVirtualDisk
  FuzzingEnds
