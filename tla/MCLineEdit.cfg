SPECIFICATION Spec
CONSTANTS
  Chars = {"a"}
  Space = " "
  Nul = "0"
  NULL = NULL
  Inputs <- MCInputs
  Headroom = 8
  XMax = 4
  Jump = 2
  Habits <- MCHabits
CHECK_DEADLOCK FALSE
INVARIANT BufferSafe
PROPERTIES EditsText
