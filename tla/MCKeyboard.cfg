SPECIFICATION Spec
CONSTANTS
  KB_BUFFER_COUNT = 3
  Keys <- SomeKeys
  Chars = {97, 200}
  Messages = {0, 7}
  Asked = {0, 97, 144, 146}
  ATTACH_LATE = FALSE
INVARIANTS
  KeyboardInv
PROPERTIES
  ImplementsFifo
  NoSpuriousInterrupt
CHECK_DEADLOCK FALSE
