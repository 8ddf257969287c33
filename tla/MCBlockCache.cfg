SPECIFICATION Spec
CONSTANTS
  BLOCK_CACHE_SIZE = 2
  FS_MAX_BLOCKS = 3
  STORAGE_BLOCKS = 2
  Contents <- MCContents
  UINT_MOD = 3
INVARIANTS
  TypeOK
  SlotsConsistent
PROPERTY
  NeverEvicted
