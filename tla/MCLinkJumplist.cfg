SPECIFICATION Spec
CONSTANTS
  Inputs <- WithJumplist
INVARIANTS
  JumplistIsAbsolute
CHECK_DEADLOCK FALSE
