SPECIFICATION Spec
CONSTANTS
  Screens <- MCScreens
  Word = 65536
  ROW0_TILESIZE = 144
  TILE_XSPACING = 8
INVARIANTS
  DisplayInSync
PROPERTIES
  KeepsContract
  TimeoutEnds
