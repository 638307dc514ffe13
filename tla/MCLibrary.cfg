SPECIFICATION Spec
CONSTANTS
  WORD = 2
  BYTE = 4
  Buffers <- MCBuffers
  Texts <- MCTexts
  Fills = {0, 1, 6}
  LONG = 8
  MAXERROR = 8
  Char <- MCChar
  BufLen = 8
  Directives <- MCDirectives
  MaxDirs = 2
  Sinks <- MCSinks
  Elem = {a, b, c}
  HEAD = HEAD
  NULL = NULL
INVARIANTS
  Formatted
  BufferKept
  Linked
  VisitsAll
PROPERTY
  CallsRight
