SPECIFICATION Spec
CONSTANTS
  ENTRIES = 4
  HEADER = 1
  fat_size = 1
  data_size = 4
  Junk <- MCJunk
INVARIANT InfoCountsFree
PROPERTY TableIsFlat
