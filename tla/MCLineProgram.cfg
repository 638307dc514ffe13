SPECIFICATION Spec
CONSTANTS
  Headers <- MCHeaders
  Programs <- MCPrograms
  Addrs <- MCAddrs
INVARIANTS
  OnInstruction
  LineFound
CHECK_DEADLOCK FALSE
