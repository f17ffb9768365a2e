SPECIFICATION ConsoleSpec
CONSTANTS
  MAX_CMD_LENGTH = 4
  MAX_HISTORY = 2
  Chars <- MCChars
  Space = " "
  available_commands <- MCCommands
  Garbage <- MCGarbage
  SCREEN_WIDTH = 4
  SCREEN_HEIGHT = 2
  Prompt <- MCPrompt
  ClearCommands <- MCClear
  EchoCommand <- MCEcho
  Output <- MCOutput
VIEW MCView
CONSTRAINT MCBound
INVARIANTS TypeOK LineShown
PROPERTY ImplementsCommandLine
