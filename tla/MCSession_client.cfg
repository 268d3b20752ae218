\* A client that may log in again, chat and stop; a server that may stop.
CONSTANTS
  None = None
  Blank = " "
  Now = "t"
  Char <- MCChar
  Typed <- MCTyped
  Line <- MCLine
  Room <- MCRoom
  Account <- MCAccount
  MaxInput = 3
  MaxQueue = 1
SPECIFICATION Spec
CHECK_DEADLOCK FALSE
INVARIANTS TypeOK LoginAcknowledged NameIsOfUser HandledAsTyped LoginUnderWay
PROPERTIES LoginAnswered
