SPECIFICATION Spec
CONSTANTS
  NoDisk = NoDisk
  Images <- MCImages
  FS_OPEN_MAX_COUNT = 2
INVARIANTS TypeOK MountedIsValid DescriptorsAreHanded
PROPERTIES EndsByUmount RefusalsChangeNothing
CHECK_DEADLOCK FALSE
