SPECIFICATION Spec
CONSTANTS
  FS_MAX_INODES = 4
  FS_MAX_OPEN_FILES = 2
  Sizes <- MCSizes
  MaxFd = 3
  UINT_MOD = 3
INVARIANTS
  TypeOK
  InodesAccounted
  DescriptorsExact
