CONSTANTS
  Target = {0, 2}
  MaxSeeks = 2
  FileLen = 5
  BlockSize = 2
  BufferSize = 2
  SpanSize = 4
  FifoSize = 3
  WriteFails = FALSE
SPECIFICATION PausedSpec
PROPERTY
  OnceIsEnough
CHECK_DEADLOCK FALSE
