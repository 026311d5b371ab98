SPECIFICATION Spec
CONSTANTS
  Documents <- MCDocuments
  Mish <- MCMish
  ZeroRun <- MCZeroRun
  MaxSize = 1023
\* the plist has been read
CHECK_DEADLOCK FALSE
INVARIANTS
  TypeOK
  PartitionsAreBlkxBlocks
  ExtractsAllPartitions
