SPECIFICATION Spec
CONSTANTS
  disk = disk
  esp = esp
  extended = extended
  NULL = NULL
  SelfDevice = esp
  Devices = {disk, esp}
  DiskOf <- MCDiskOf
  Primary = {esp}
  Logicals = {extended}
  LogicalDisk <- MCLogicalDisk
  Bootable = {esp, extended}
  Lasting = {{disk, esp}, {disk}, {}}
  EFIMajor = 2
  MaxOpens = 8
CHECK_DEADLOCK FALSE
INVARIANTS
  HandlesLive
  ChildHoldsNothing
  EntriesCurrent
