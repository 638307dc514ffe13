SPECIFICATION Spec
CONSTANTS
  Infos <- MCInfos
  Addrs <- MCAddrs
INVARIANTS
  WalkTopLevel
  FunctionFound
  ArgsCounted
PROPERTY
  LookupEnds
CHECK_DEADLOCK FALSE
