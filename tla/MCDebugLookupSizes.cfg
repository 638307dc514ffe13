SPECIFICATION Spec
CONSTANTS
  Infos <- MCInfos
  Addrs <- MCAddrs
INVARIANT
  ArgSizesRight
CHECK_DEADLOCK FALSE
