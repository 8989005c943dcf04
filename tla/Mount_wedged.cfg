SPECIFICATION Spec
CONSTANTS
  NoDisk = NoDisk
  Images <- MCImages
  FS_OPEN_MAX_COUNT = 2
PROPERTY MountFindsValid
CHECK_DEADLOCK FALSE
