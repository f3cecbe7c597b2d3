SPECIFICATION Spec
CONSTANTS
  BITS = 7
  Decode <- OpcodesDecode
  BitAnd <- MCAnd
  BitOr <- MCOr
  BitXor <- MCXor
  INTERRUPT_MAX = 2
  HwTable <- TwoDevices
  Memories <- OpcodesMemories
  HookCalls <- AtMostOne
  HwReplies <- OneReply
  Transfers <- OneTransfer
  DUMP_CYCLES = 2
  DEBUGGER = TRUE
  RADIATION = FALSE
  FLIPS = {}
  CAN_FIRE = FALSE
  FIRE_CELLS = {}
  FIRE_FONT = 0
  SCREEN = FALSE
  FIRE_FILLS = {}
  FIRE_TICKS = 0
PROPERTIES
  SkipIsPure
  StoresAreHooked
CHECK_DEADLOCK FALSE
