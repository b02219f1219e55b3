SPECIFICATION Spec
CONSTANTS
  Messages = {"empty", "short", "long", "strange"}
  Length <- MCLength
  Unknown = {"strange"}
  HeaderSize = 2
  Garbage = {0, 2, 5}
  Capacity = 4
  MaxSent = 4
INVARIANTS
  TypeOK
  AtBoundary
PROPERTIES
  IsChannel
CHECK_DEADLOCK FALSE
