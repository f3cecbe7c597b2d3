SPECIFICATION DSpec
CONSTANTS
  BITS = 4
  Decode <- DebugDecode
  BitAnd <- MCAnd
  BitOr <- MCOr
  BitXor <- MCXor
  INTERRUPT_MAX = 1
  HwTable <- NoDevices
  Memories = {}
  HookCalls <- OneMessage
  HwReplies = {}
  Transfers = {}
  DUMP_CYCLES = 0
  DEBUGGER = FALSE
  RADIATION = FALSE
  FLIPS = {}
  CAN_FIRE = FALSE
  FIRE_CELLS = {}
  FIRE_FONT = 0
  SCREEN = FALSE
  FIRE_FILLS = {}
  FIRE_TICKS = 0
  Images <- DebugImages
  SymbolFiles <- DebugSymbols
  ModuleDirs <- DebugModules
  Lower <- MCLower
  Contains <- MCContains
  Devices <- DebugDevices
  Ranges <- DebugRanges
  Places <- DebugPlaces
  Garbage = {3}
  HOOK_MAX = 8
  HW_MAX = 1
  MAX_BREAKPOINTS = 1
  MAX_OWED = 0
  MAX_BACKTRACE = 2
  RAISE_DEPTH = 1

  
PROPERTIES
  
  
  InspectionKeepsMachine
CHECK_DEADLOCK FALSE
