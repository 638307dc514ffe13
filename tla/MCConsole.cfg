SPECIFICATION Spec
CONSTANTS
  CONSBUFSIZE = 3
  Char <- MCChar
  Keys = {30}
  KbdRoom = 3
  MaxKeyEvents = 3
  MaxSerial = 3
INVARIANTS
  SerialInOrder
  NothingElseLost
PROPERTIES
  FifoSpec
  KeyboardServed
  SerialServed
