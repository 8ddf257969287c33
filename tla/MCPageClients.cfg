SPECIFICATION ClientSpec
CONSTANTS
  BootTable <- MCBootTable
  UINT_MAX = 3
  MaxDoubleFree = 2
INVARIANTS
  FreeListSound
