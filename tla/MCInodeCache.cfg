SPECIFICATION Spec
CONSTANTS
  INODE_CACHE_SIZE = 2
  FS_MAX_INODES = 3
  DIRECT = 2
  BlockNums <- MCBlockNums
  UINT_MOD = 3
INVARIANTS
  TypeOK
  SlotsConsistent
  PointersGood
