SPECIFICATION ScanSpec
CONSTANTS
  NULL = NULL
  Atoi <- MCAtoi
  Initial <- MCInitial
  PathSpec <- MCPathSpec
  Traits <- MCTraits
  Numbers <- MCNumbers
  Text <- MCText
  Words <- MCWords
  Rooted <- MCRooted
  VolIndex <- MCVolIndex
  Letter <- MCLetter
  FsNumber <- MCFsNumber
  Worlds <- MCWorlds
  SelfHandle = "esp"
  SelfDirPath <- MCSelfDirPath
PROPERTIES
  SettingsFresh
INVARIANTS
  NoLoaderMissed
  NeverListsItself
  InitrdMatches
  AsConfigured
  TextsRead
  PicturesRight
