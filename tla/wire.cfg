SPECIFICATION FairSpec
CONSTANTS
  w1 = w1
  w2 = w2
  Base = 2
  MaxFrameSize = 2
  PayloadTypes = {1}
  EmptyTypes = {0}
  Messages <- ShortLongAndTooLarge
  Writers = {w1, w2}
  PipeCap = 3
  MaxMessages = 4
INVARIANTS
  TypeOK
  NeverRejects
PROPERTIES
  IsChannel
  WritesReturn
CHECK_DEADLOCK FALSE
