SPECIFICATION FairSpec
CONSTANTS
  MaxWord = 31
  MaxSize = 31
  SectorSize = 2
  KolySize = 2
  MaxRunBytes = 8
  AdcSlack = 1
  OverflowChecks = TRUE
  Files <- MCFiles
  Threads = {t1, t2}
  NoThread = NoThread
  Offsets <- MCOffsets
  BufLens <- MCBufLens
  MaxCalls = 2
  MaxPanics = 1
\* every thread has made its calls
CHECK_DEADLOCK FALSE
INVARIANTS
  TypeOK
  CursorBelongsToHolder
  StaysInWindow
  CompleteOrFail
  OnlyDecodersPanic
  AnswersFromOwnWindow
PROPERTIES
  EveryCallReturns
  ImplementsImageSource
