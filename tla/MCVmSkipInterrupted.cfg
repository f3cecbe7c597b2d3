SPECIFICATION HSpec
CONSTANTS
  BITS = 5
  Decode <- InterruptsDecode
  BitAnd <- MCAnd
  BitOr <- MCOr
  BitXor <- MCXor
  INTERRUPT_MAX = 2
  HwTable <- NoDevices
  Memories <- InterruptsMemories
  HookCalls <- OneOrTwo
  HwReplies = {}
  Transfers = {}
  DUMP_CYCLES = 0
  DEBUGGER = TRUE
  RADIATION = FALSE
  FLIPS = {}
  CAN_FIRE = FALSE
  FIRE_CELLS = {}
  FIRE_FONT = 0
  SCREEN = FALSE
  FIRE_FILLS = {}
  FIRE_TICKS = 0
PROPERTIES
  RfiKeepsSkip
CHECK_DEADLOCK FALSE
