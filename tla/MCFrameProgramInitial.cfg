SPECIFICATION Spec
CONSTANTS
  NRegs = 3
  Sections <- MCSections
  Addrs <- MCAddrs
  MaxLookups = 2
INVARIANT
  InitialRulesKept
CHECK_DEADLOCK FALSE
