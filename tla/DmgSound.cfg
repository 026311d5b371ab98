SPECIFICATION Spec
CONSTANTS
  MaxWord = 31
  MaxSize = 31
  SectorSize = 2
  KolySize = 2
  MaxRunBytes = 8
  AdcSlack = 1
  OverflowChecks = FALSE
  NoFile = NoFile
  Files <- MCFiles
  ReadLens <- MCReadLens
  SeekStarts <- MCSeekStarts
  SeekDeltas <- MCSeekDeltas
INVARIANTS
  OnlyIoFails
PROPERTIES
  ImplementsVirtualDisk
