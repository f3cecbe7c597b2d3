SPECIFICATION Spec
CONSTANTS
  BITS = 4
  Decode <- ArithDecode
  BitAnd <- MCAnd
  BitOr <- MCOr
  BitXor <- MCXor
  INTERRUPT_MAX = 2
  HwTable <- NoDevices
  Memories <- ArithMemories
  HookCalls <- Silence
  HwReplies = {}
  Transfers = {}
  DUMP_CYCLES = 0
  DEBUGGER = FALSE
  RADIATION = TRUE
  FLIPS <- OneFlip
  CAN_FIRE = TRUE
  FIRE_CELLS = {10}
  FIRE_FONT = 3
  SCREEN = TRUE
  FIRE_FILLS = {0, 1}
  FIRE_TICKS = 2
INVARIANTS
  WideArithmetic
  ExIsOtherHalf
  ExprMatchesMachine
PROPERTIES
  StoresAreHooked
CHECK_DEADLOCK FALSE
