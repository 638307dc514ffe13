SPECIFICATION Spec
CONSTANTS
  NRegs = 3
  Sections <- MCSections
  Addrs <- MCAddrs
  MaxLookups = 2
INVARIANTS
  FdeFound
  TableRight
CHECK_DEADLOCK FALSE
