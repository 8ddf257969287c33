SPECIFICATION StackSpec
CONSTANTS
  MAX_PROCESSES = 2
  s1 = s1
  s2 = s2
  NULL = NULL
  BootStack = BootStack
  Stacks <- MCStacks
  Creators = {"boot"}
  MaxPid = 2
  FrameWords = 1
  StackWords = 4
INVARIANT
  WrapperResumes
