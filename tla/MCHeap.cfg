SPECIFICATION FairSpec
CONSTANTS
  BootTable <- MCBootTable
  UINT_MAX = 3
  Requests <- MCRequests
  MaxLive = 3
INVARIANTS
  NoOverlap
  LiveInUsableRam
  NoFreeNeighbours
  WholeAgain
  FreeAcceptsLive
  IInv
PROPERTIES
  NullOnlyWhenTight
  CallsReturn
  AllocatorSpec
