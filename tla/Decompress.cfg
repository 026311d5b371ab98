SPECIFICATION FairSpec
CONSTANTS
  MaxWord = 255
  MaxSize = 255
  AdcSlack = 127
  Inputs <- MCInputs
  Caps <- MCCaps
  Blocks <- MCBlocks
\* the block is decoded
CHECK_DEADLOCK FALSE
INVARIANTS
  TypeOK
  OutputIsBounded
  DecodesToPrefix
  DecodesAsTheReaderIsTold
PROPERTIES
  DecodingEnds
