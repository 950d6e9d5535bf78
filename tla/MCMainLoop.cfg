SPECIFICATION Spec
CONSTANTS
  Menus <- MCMenus
  Titles <- MCTitles
  Keys <- MCKeys
  NoTitle = NoTitle
  Contains <- MCContains
  SecureStable = TRUE
  MaxRounds = 4
\* rEFInd stops: it returns to the firmware, the machine is off or idle.
CHECK_DEADLOCK FALSE
INVARIANTS
  
  HooksRemoved
