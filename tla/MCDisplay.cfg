SPECIFICATION Spec
CONSTANTS
  None = None
  Paints <- MCPaints
  Modes <- MCModes
  TextModes <- MCTextModes
  FontCellWidth = 1
  FontHeight = 1
  TEXT_YMARGIN = 0
  BadgeMargin = 1
  ROW0_TILESIZE = 3
  ROW1_TILESIZE = 2
  TILE_XSPACING = 1
  TILE_YSPACING = 1
  TITLEICON_SPACING = 1
  MinLine = 4
  Word = 65536
  Configs <- MCConfigs
  Screens <- MCScreens
  Icon <- MCIcon
  Badge <- MCBadge
  EntryTitle <- MCEntryTitle
  MenuTitle <- MCMenuTitle
  TitleImage <- MCTitleImage
  InfoLine <- MCInfoLine
  Hint1 <- MCHint1
  Hint2 <- MCHint2
  Seconds <- MCSeconds
  SmallSelection <- MCSmallSelection
  Arrow <- MCArrow
INVARIANTS
  MenuOnScreen
  ScreenAgrees
  ErrorsAreRead
