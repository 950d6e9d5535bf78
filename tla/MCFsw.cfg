SPECIFICATION FswSpec
CONSTANTS
  \* three users on a cache that starts with two entries and grows to four
  BlockUsers = {c1, c2, c3}
  Forgetful = {}
  Blocks = {1, 2, 3}
  BlockSizes = {512, 1024}
  FirstSize = 512
  MinCache = 2
  MAX_CACHE_LEVEL = 1
  INVALID_BNO = 0
  NoHold = NoHold
  \* the tree
  root = root
  dir = dir
  file = file
  link = link
  long = long
  NULL = NULL
  Objects = {root, dir, file, link, long}
  Root = root
  Type <- MCType
  Entries <- MCEntries
  Target <- MCTarget
  Paths <- MCPaths
  Handles = {h1, h2, h3}
  MaxRefs = 5
  Goal <- MCGoal
  \* the machine
  NoDevice = NoDevice
  Device <- MCDevice
  BusOf <- MCBusOf
  FsOf <- MCFsOf
  Plain <- MCPlain
  DriverDirectories <- MCDriverDirectories
  Broken <- MCBroken
  Dormant <- MCDormant
  BootVars <- MCBootVars
  BootOrder <- MCBootOrder
  BbsTypes <- MCBbsTypes
  Machines <- MCMachines
  Sockets <- MCSockets
  MaxPlugs = 2
CHECK_DEADLOCK FALSE
INVARIANTS
  CacheFresh
  HeldStable
  NotFreedInUse
  HeldWhileServed
PROPERTIES
  OnlyFailuresLeak
  OpensWhatIsNamed
  OpenEnds
  EveryVolumeServed
  ConnectingEnds
