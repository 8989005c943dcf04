SPECIFICATION Spec
CONSTANTS
  ENTRIES = 2
  HEADER = 1
  fat_size = 2
  data_size = 4
  Junk <- MCZero
PROPERTY UmountSavesEntries
