SPECIFICATION Spec
CONSTANTS
  MaxWord = 15
  MaxSize = 15
  Numbers <- MCNumbers
  Missing = Missing
  NoFile = NoFile
  Infos <- MCInfos
  Names <- MCNames
  InitialFiles <- MCFiles
  NewBytes <- MCNewBytes
  MaxEdits = 2
  ReadLens <- MCReadLens
  SeekStarts <- MCSeekStarts
  SeekDeltas <- MCSeekDeltas
INVARIANTS
  TypeOK
PROPERTIES
  ImplementsVirtualDisk
