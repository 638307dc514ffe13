SPECIFICATION Spec
CONSTANTS
  BUFLEN = 6
  MAXARGS = 3
  Typed <- MCTyped
  CommandName <- MCCommandName
  MaxMonitors = 3
INVARIANTS
  TypeOK
  EchoIsLine
  LineMeaning
  PanicReportedOnce
PROPERTIES
  PromptReturns
CHECK_DEADLOCK FALSE
