SPECIFICATION Spec
CONSTANTS
  Volumes <- MCVolumes
  Amounts = {5, 20}
  Positions = {7, 300, 999}
  Paths <- MCPaths
  Rooms = {2, 99}
  Texts <- MCTexts
  AllOnes = 999
  None = None
  PosBits = 10
  PATH_MAX = 16
  NDIR = 2
  HEADER = 2
  POINTER = 4
  SECTOR = 4
  GDESC = 4
  GDESC4 = 4
  MIN_BLOCK = 8
  MAX_BLOCK = 16
  DIRREC = 3
  FirstVoldesc = 2
  BEHIND <- MCBehind
  GARBAGE = 999
INVARIANTS
  ListingComplete
  OpensWhatIsNamed
  InfoTrue
  StringsSound
PROPERTIES
  ReadsContent
