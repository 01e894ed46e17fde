SPECIFICATION Spec
CONSTANTS
  ByteBits = 3
  NoMessage = NoMessage
  Tables <- MCTables
  Messages <- MCMessages
  Strangers <- MCStrangers
INVARIANTS
  TypeOK
  RoundTrip
  PrefixFree
  TreeIsOptimal
  DecodeBounded
CHECK_DEADLOCK FALSE
