\* Two messages in either direction, arriving in pieces of any size.
CONSTANTS
  MAX_NESTING = 2
  MAX_CHARS = 3
  MAX_MSG_DATA = 64
  MAX_BUFF = 128
  msgId = 1001
  groupId = 1002
  senderName = 1003
  sendTime = 1004
  type = 1005
  msg = 1006
  Letter = 125
  MaxSent = 2
  Messages <- MCMessages
  Pack <- pack_message
  Unpack <- unpack_message
  Fits <- FitsBuffer
  NoText <- EmptyText
  NoMessage <- SegFault
SPECIFICATION Spec
CHECK_DEADLOCK FALSE
INVARIANTS TypeOK RoundTrip MessagesReadBack HandledWasSent DiesOfPiecesOnly
PROPERTIES AllHandled
