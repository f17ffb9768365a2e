SPECIFICATION ScreenSpec
CONSTANTS
  SCREEN_WIDTH = 3
  SCREEN_HEIGHT = 3
  Colors <- MCColors
  DEFAULT_COLOR = "grey"
  ByteSize = 4
INVARIANTS CursorOnScreen WritesOnScreen ColorRestored CursorShown
