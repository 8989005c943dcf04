SPECIFICATION ProgSpec
CONSTANTS
  NoName = NoName
  Hole = Hole
  Closed = Closed
  MyFile = MyFile
  File = File
  Names <- MCNames
  LongNames = {}
  FS_FILE_MAX_COUNT = 2
  FS_OPEN_MAX_COUNT = 2
  data_size = 4
  BLOCK_SIZE = 2
  Counts <- MCCounts
  MaxSize = 3
  Bytes <- MCBytes
  Buffers <- MCBuffers
  Letters <- MCLetters
  ReadAt = 1
  ReadCount = 2
  As <- MCAs
INVARIANT ReaderPasses
PROPERTIES SavedForGood LostDescriptorSavesNoMetadata
