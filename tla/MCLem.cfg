SPECIFICATION FairSpec
CONSTANTS
  Word = {0, 1}
  RAM = 3
  CELLS = 1
  FONT = 1
  COLORS = 1
  Locations = {0, 1, 2}
  BLINK = 1
  Default = 0
INVARIANTS
  DisplayInv
PROPERTIES
  ScreenHeals
CHECK_DEADLOCK FALSE
