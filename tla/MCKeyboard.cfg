SPECIFICATION KbdSpec
CONSTANTS
  Keys = {42, 29, 157, 184, 211, 83, 225, 30}
  KbdRoom = 8
  MaxKeyEvents = 5
INVARIANTS
  NoStuckModifier
  HeldModifierKnown
  PrefixConsumed
PROPERTY
  RebootOnlyOnCtrlAltDel
