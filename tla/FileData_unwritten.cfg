SPECIFICATION DataSpec
CONSTANTS
  x = x
  y = y
  NoName = NoName
  Hole = Hole
  Closed = Closed
  Names <- MCOneName
  LongNames = {}
  FS_FILE_MAX_COUNT = 1
  FS_OPEN_MAX_COUNT = 2
  data_size = 2
  BLOCK_SIZE = 2
  Counts <- MCCounts
  MaxSize = 6
  Bytes <- MCBytes
  Buffers <- MCBuffers
INVARIANT CountedBytesMoved
CHECK_DEADLOCK FALSE
