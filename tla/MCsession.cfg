SPECIFICATION FairSpec
CONSTANTS
  Chars <- TheChars
  Lines <- TheLines
  Quit <- TheQuit
  MaxLines = 3
  BufSize = 3
  MaxTold = 1
INVARIANTS
  TypeOK
  NothingLeftOpen
  FlagsBeforeClose
  HeardInOrder
  PacedLinesAreMessages
  ShownKeepsLines
PROPERTIES
  QuitEnds
  LostEnds
  HandlerLeaves
