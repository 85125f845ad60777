CONSTANTS
  VGA_WIDTH = 80
  VGA_HEIGHT = 4
  VGA_MEMORY_ADDRESS = 753664
  Chars <- SomeChars
  Strings <- SomeStrings
  MaxScrolls = 4
SPECIFICATION Spec
INVARIANTS CursorOnScreen TextBeforeCursor HwCursorFollows
\* MaxScrolls ends a behaviour.
CHECK_DEADLOCK FALSE
