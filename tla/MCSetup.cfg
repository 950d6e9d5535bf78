SPECIFICATION Spec
CONSTANTS
  Machines <- MCMachines
  Packages <- MCPackages
  Starts <- MCStarts
  Elsewhere = "EFI/tools"
  MaxRuns = 2
  MaxFailures = 1
CHECK_DEADLOCK FALSE
INVARIANTS
  RefindBoots
  KeysFit
PROPERTIES
  ConfigKept
  OthersKept
