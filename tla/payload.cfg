SPECIFICATION Spec
CONSTANTS
  Half = 256
  Top = 16
  ByteXor <- MCXor
  SizeMaxPacketSize = 5
  MaxPacketSizeInBytes = 29
  Streams <- MCStreams
INVARIANTS
  TypeOK
  Recognised
  PayloadArrives
  NewestIsTaken
  NoneTooLarge
CHECK_DEADLOCK FALSE
