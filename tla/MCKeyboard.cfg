CONSTANTS
  Width = 4
  Height = 2
  PosSize = 8
  MaxConsoles = 3
  Bar <- MCBar
  Keys = {"ctrl", "tab", "alt", "one"}
  Ascii <- MCAscii
  Readers = {r1, r2}
  MaxKeybuf = 3
  Chars = {"a", "backspace"}
  Positions <- MCPositions
  MaxEvents = 6
  MaxTyped = 2
SPECIFICATION Spec
INVARIANTS
  TypeOK
  ChoosingHoldsCtrl
  RingComplete
  KeysInOrder
PROPERTIES
  DrawsCurrentOnly
CHECK_DEADLOCK FALSE
VIEW KeysOrConsoles
