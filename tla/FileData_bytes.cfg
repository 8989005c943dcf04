SPECIFICATION DataSpec
CONSTANTS
  x = x
  y = y
  NoName = NoName
  Hole = Hole
  Closed = Closed
  Names <- MCTwoNames
  LongNames = {}
  FS_FILE_MAX_COUNT = 2
  FS_OPEN_MAX_COUNT = 2
  data_size = 3
  BLOCK_SIZE = 2
  Counts <- MCCounts
  MaxSize = 5
  Bytes <- MCBytes
  Buffers <- MCBuffers
PROPERTIES FilesAreByteStores FailuresStayInCall
CONSTRAINT MCBound
SYMMETRY MCSymmetry
CHECK_DEADLOCK FALSE
