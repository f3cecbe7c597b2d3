SPECIFICATION FairSpec
CONSTANTS
  Word = {0, 1, 2}
  iflip <- Swap
  SIZE = 2
  LAST = 1
  Sectors = {0, 1, 2}
  RAM = 2
  Positions = {0}
  Messages = {0, 7}
  Images <- ShortImages
INVARIANTS
  DriveInv
PROPERTIES
  TransferIsAsPromised
  BusyEnds
CHECK_DEADLOCK FALSE
