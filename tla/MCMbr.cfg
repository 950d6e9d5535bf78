SPECIFICATION Spec
CONSTANTS
  Slots = 3
  NULL = NULL
  Disks <- MCDisks
INVARIANTS BootsChosen AtMostOneActive
