CONSTANTS
  Target = {0, 2}
  MaxSeeks = 2
  FileLen = 5
  BlockSize = 2
  BufferSize = 2
  SpanSize = 4
  FifoSize = 3
  WriteFails = TRUE
SPECIFICATION FairSpec
INVARIANTS
  IInv
  BufferExclusive
PROPERTIES
  Contiguous
  SeekComesFirst
  StopReturns
  AllPlayed
CHECK_DEADLOCK FALSE
