SPECIFICATION MCSpec
CONSTANTS
  VGA_WIDTH = 2
  VGA_HEIGHT = 3
  TTY_COUNT = 2
  HISTORY_SIZE = 4
  UINT8_MOD = 8
  Graphic <- MCGraphic
  MaxCalls = 7
INVARIANTS
  TypeOK
  ScreenMatches
  ViewShowsPast
PROPERTIES
  TtysIsolated
  PrintShows
