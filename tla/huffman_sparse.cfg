SPECIFICATION Spec
CONSTANTS
  ByteBits = 8
  NoMessage = NoMessage
  Tables <- MCOwnTable
  Messages <- MCOwnMessage
  Strangers <- MCNone
INVARIANTS
  RoundTrip
CHECK_DEADLOCK FALSE
