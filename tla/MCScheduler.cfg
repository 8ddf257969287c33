SPECIFICATION FairSpec
CONSTANTS
  MAX_PROCESSES = 3
  s1 = s1
  s2 = s2
  s3 = s3
  NULL = NULL
  BootStack = BootStack
  Stacks <- MCStacks
  Creators = {"boot", "task"}
  MaxPid = 6
INVARIANTS
  RunningIsCurrent
  OnOwnStack
  ReadyResumable
  StacksOwned
  IdleAlone
  IInv
PROPERTY
  NoStarvation
