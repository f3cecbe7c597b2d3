SPECIFICATION CFairSpec
CONSTANTS
  BITS = 5
  Decode <- ClockDecode
  BitAnd <- MCAnd
  BitOr <- MCOr
  BitXor <- MCXor
  INTERRUPT_MAX = 2
  HwTable <- OneDevice
  Memories <- ClockImages
  HookCalls <- AnyMessage
  HwReplies <- Answers
  Transfers = {}
  DUMP_CYCLES = 0
  DEBUGGER = FALSE
  RADIATION = FALSE
  FLIPS = {}
  CAN_FIRE = FALSE
  FIRE_CELLS = {}
  FIRE_FONT = 0
  SCREEN = FALSE
  FIRE_FILLS = {}
  FIRE_TICKS = 0
  DCPU_TICKS = 500
  MAX_ELAPSED = 60

  
PROPERTIES
  KeepsTicking
