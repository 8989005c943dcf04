SPECIFICATION SessionSpec
CONSTANTS
  a = a
  b = b
  long = long
  NoName = NoName
  Names <- MCNames
  LongNames <- MCLongNames
  FS_FILE_MAX_COUNT = 2
  FS_OPEN_MAX_COUNT = 2
  data_size = 3
  BLOCK_SIZE = 2
  Counts <- MCCountsUpTo3
  MaxSize = 4
INVARIANTS TypeOK FilesDisjoint OpenFilesExist OffsetsInFile UniqueNames
  ChainFitsSize ShortWriteMeansFull ShortReadMeansHole
PROPERTIES OnlyDeleteLeaks ClosedFilesUntouched CallsAdvance CallsReturn
CHECK_DEADLOCK FALSE
