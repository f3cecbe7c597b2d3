SPECIFICATION Spec
CONSTANTS
  Inputs <- MCInputs
INVARIANTS
  LayoutIsDocumented
  TablesFollowCode
  CompressKeepsCode
  CallsStandInPlace
  JumpTableLeads
  LinkedReferences
  
CHECK_DEADLOCK FALSE
