SPECIFICATION Spec
CONSTANTS
  a = a
  b = b
  long = long
  NoName = NoName
  Names <- MCNames
  LongNames <- MCLongNames
  FS_FILE_MAX_COUNT = 2
  FS_OPEN_MAX_COUNT = 1
  data_size = 3
  BLOCK_SIZE = 1
  Counts <- MCCounts
  MaxSize = 3
INVARIANTS DiskWellFormed UnsyncedWritesSpareDisk
PROPERTIES DiskOnlyGrows
SYMMETRY MCSymmetry
