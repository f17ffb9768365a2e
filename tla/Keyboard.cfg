SPECIFICATION Spec
CONSTANTS
  KEYBOARD_BUFFER_SIZE = 4
  Printing <- MCPrinting
  Lower <- MCLower
  Upper <- MCUpper
  Special <- MCSpecial
INVARIANT ReadIsOldest
PROPERTIES KeysInOrder KeyIsRead
