SPECIFICATION MCSpec
CONSTANTS
  CRT_COLS = 3
  CRT_SIZE = 6
  Glyph = {32, 97, 98}
  SPINS = 1
  MaxChars = 3
INVARIANTS
  PortsInStep
PROPERTIES
  TerminalSpec
  PutcReturns
CHECK_DEADLOCK FALSE
