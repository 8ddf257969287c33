SPECIFICATION MCSpec
CONSTANTS
  VGA_WIDTH = 3
  VGA_HEIGHT = 6
  TTY_COUNT = 2
  HISTORY_SIZE = 6
  UINT8_MOD = 8
  Graphic <- MCGraphic
  MAX_CMD_LEN = 5
  MAX_ARGS = 3
  MAX_CMD_HISTORY = 2
  Letters <- MCLetters
  EchoName <- MCEcho
  HelpName <- MCHelp
  ClearName <- MCClear
  MaxKeys = 7
INVARIANTS
  TypeOK
  ArgvMatches
PROPERTIES
  EditorSpec
  LineStaysShown
